------------------------------ MODULE AtaProofs ------------------------------
(***************************************************************************)
(* Theorems about the driver and the drive, for every size of sector and   *)
(* every bound of the polling loops: the types, and that the driver keeps  *)
(* the contract SectorStore.                                               *)
(***************************************************************************)
EXTENDS MCAta, TLAPS

\* TypeOK in two parts.
DriverTypes ==
    /\ has_disk \in BOOLEAN
    /\ pc \in {"boot", "idle", "ready", "command", "wait", "data", "settle"}
    /\ op \in {"read", "write"} /\ lba \in Lbas /\ data \in Sector
    /\ word \in 1 .. NumWords + 1 /\ polls \in 0 .. MaxPolls
    /\ result \in {0, 1} /\ broken \in BOOLEAN

DriveTypes ==
    /\ bsy \in BOOLEAN /\ drq \in BOOLEAN /\ err \in BOOLEAN
    /\ doing \in {"none", "read", "write", "store", "flush"}
    /\ at \in Lbas /\ buffer \in Sector /\ medium \in [Lbas -> Sector]

LEMMA Types == TypeOK <=> DriverTypes /\ DriveTypes
BY DEF TypeOK, DriverTypes, DriveTypes

LEMMA EmptySector == Empty \in Sector
BY WordsAssumption DEF Empty, Sector

\* A word of a sector is replaced by another.
LEMMA SectorWith ==
    ASSUME NEW s \in Sector, NEW k \in 1 .. NumWords, NEW w \in Words
    PROVE  /\ [s EXCEPT ![k] = w] \in Sector
           /\ \A j \in 1 .. NumWords : [s EXCEPT ![k] = w][j] = IF j = k THEN w ELSE s[j]
BY DEF Sector

LEMMA DriveKept == ASSUME DriveTypes, UNCHANGED drive PROVE DriveTypes'
BY DEF DriveTypes, drive

LEMMA DriveTakes ==
    ASSUME DriverTypes, DriveTypes, NEW c \in {"read", "write", "flush"}, Taken(c)
    PROVE  DriveTypes'
<1>1. bsy' \in BOOLEAN /\ drq' \in BOOLEAN /\ err' \in BOOLEAN
  BY Zenon DEF Taken
<1>2. /\ doing' \in {"none", "read", "write", "store", "flush"} /\ at' \in Lbas
      /\ buffer' \in Sector /\ medium' \in [Lbas -> Sector]
  BY DEF Taken, DriverTypes, DriveTypes
<1> QED BY <1>1, <1>2 DEF DriveTypes

LEMMA ReturnTypes ==
    ASSUME DriverTypes, NEW r \in {0, 1}, Return(r), broken' \in BOOLEAN
    PROVE  DriverTypes'
BY DEF Return, DriverTypes

LEMMA PollTypes == ASSUME DriverTypes, PollAgain PROVE DriverTypes' /\ UNCHANGED drive
<1>1. polls' \in 0 .. MaxPolls
  BY MaxPollsAssumption DEF DriverTypes, PollAgain
<1> QED BY <1>1 DEF DriverTypes, PollAgain

\* The types hold after power on.
LEMMA InitTypeOK == Init => TypeOK
<1> SUFFICES ASSUME Init PROVE TypeOK
  OBVIOUS
<1>1. word \in 1 .. NumWords + 1 /\ polls \in 0 .. MaxPolls
  BY NumWordsAssumption, MaxPollsAssumption DEF Init
<1>2. DriverTypes
  BY <1>1, EmptySector DEF Init, DriverTypes
<1>3. DriveTypes
  BY EmptySector DEF Init, DriveTypes
<1> QED BY <1>2, <1>3, Types

\* A word passes between driver and drive.
LEMMA WordTypes ==
    ASSUME DriverTypes, DriveTypes, ReadWord \/ WriteWord
    PROVE  DriverTypes' /\ DriveTypes'
<1>1. /\ word \in 1 .. NumWords
      /\ word' \in 1 .. NumWords + 1
  BY NumWordsAssumption DEF DriverTypes, ReadWord, WriteWord, MoreWords
<1>2. data' \in Sector
  <2>1. CASE ReadWord
    <3>1. \/ data' = [data EXCEPT ![word] = buffer[word]]
          \/ \E w \in Words : data' = [data EXCEPT ![word] = w]
      BY <2>1, Zenon DEF ReadWord
    <3>2. buffer[word] \in Words
      BY <1>1 DEF DriveTypes, Sector
    <3> QED BY <1>1, <3>1, <3>2, SectorWith DEF DriverTypes
  <2>2. CASE WriteWord
    BY <2>2 DEF DriverTypes, WriteWord
  <2> QED BY <2>1, <2>2
<1>3. buffer' \in Sector
  <2>1. CASE ReadWord
    BY <2>1 DEF DriveTypes, ReadWord
  <2>2. CASE WriteWord
    <3>1. buffer' = [buffer EXCEPT ![word] = data[word]] \/ buffer' = buffer
      BY <2>2, Zenon DEF WriteWord
    <3>2. data[word] \in Words
      BY <1>1 DEF DriverTypes, Sector
    <3> QED BY <1>1, <3>1, <3>2, SectorWith DEF DriveTypes
  <2> QED BY <2>1, <2>2
<1>4. WordPassed(word) \/ UNCHANGED <<bsy, drq, doing>>
  BY Zenon DEF ReadWord, WriteWord
<1>5. /\ bsy' \in BOOLEAN /\ drq' \in BOOLEAN
      /\ doing' \in {"none", "read", "write", "store", "flush"}
  <2>1. CASE WordPassed(word)
    BY <2>1, Zenon DEF WordPassed, DriveTypes
  <2>2. CASE UNCHANGED <<bsy, drq, doing>>
    BY <2>2 DEF DriveTypes
  <2> QED BY <1>4, <2>1, <2>2
<1>6. UNCHANGED <<has_disk, pc, op, lba, polls, result, err, at, medium, broken>>
  BY DEF ReadWord, WriteWord
<1>7. DriverTypes'
  BY <1>1, <1>2, <1>6 DEF DriverTypes
<1>8. DriveTypes'
  BY <1>3, <1>5, <1>6 DEF DriveTypes
<1> QED BY <1>7, <1>8

\* Every step keeps the types.
LEMMA NextTypeOK == TypeOK /\ [Next]_vars => TypeOK'
<1> SUFFICES ASSUME DriverTypes, DriveTypes, [Next]_vars
             PROVE  DriverTypes' /\ DriveTypes'
  BY DEF TypeOK, DriverTypes, DriveTypes
<1> USE NumWordsAssumption, MaxPollsAssumption
<1>1. ASSUME NEW o \in {"read", "write"}, NEW l \in Lbas, NEW d \in Sector,
             Call(o, l, d)
      PROVE  DriverTypes' /\ DriveTypes'
  BY <1>1, DriveKept DEF DriverTypes, Call
<1>2. ASSUME NEW floating \in BOOLEAN, DiskInit(floating)
      PROVE  DriverTypes' /\ DriveTypes'
  BY <1>2, DriveKept DEF DriverTypes, DiskInit
<1>3. CASE WaitNotBusy
  <2>1. CASE PollAgain
    BY <2>1, PollTypes, DriveKept
  <2>2. CASE Return(0) /\ UNCHANGED broken
    BY <2>2, ReturnTypes, DriveKept DEF Return, DriverTypes
  <2>3. CASE pc' = "command" /\ UNCHANGED <<has_disk, op, lba, data, word, polls,
                                            result, drive, broken>>
    BY <2>3, DriveKept DEF DriverTypes
  <2> QED BY <1>3, <2>1, <2>2, <2>3, Zenon DEF WaitNotBusy
<1>4. CASE Command
  <2>1. DriverTypes'
    BY <1>4 DEF DriverTypes, Command
  <2>2. Taken(op) \/ UNCHANGED drive
    BY <1>4, Zenon DEF Command
  <2> QED BY <2>1, <2>2, DriveTakes, DriveKept DEF DriverTypes
<1>5. CASE WaitDrq
  <2>1. CASE PollAgain
    BY <2>1, PollTypes, DriveKept
  <2>2. CASE Return(0) /\ (UNCHANGED broken \/ broken' = TRUE)
    BY <2>2, ReturnTypes, DriveKept DEF Return, DriverTypes
  <2>3. CASE pc' = "data" /\ UNCHANGED <<has_disk, op, lba, data, word, polls,
                                         result, drive, broken>>
    BY <2>3, DriveKept DEF DriverTypes
  <2> QED BY <1>5, <2>1, <2>2, <2>3, Zenon DEF WaitDrq
<1>6. CASE ReadWord \/ WriteWord
  BY <1>6, WordTypes
<1>7. CASE ReadDone
  BY <1>7, ReturnTypes, DriveKept DEF ReadDone, Return, DriverTypes
<1>8. CASE Flush
  <2>1. DriverTypes'
    BY <1>8 DEF DriverTypes, Flush
  <2>2. Taken("flush") \/ UNCHANGED drive
    BY <1>8, Zenon DEF Flush
  <2> QED BY <2>1, <2>2, DriveTakes, DriveKept
<1>9. CASE Settle
  <2>1. PollAgain \/ (Return(1) /\ UNCHANGED broken)
    BY <1>9, Zenon DEF Settle
  <2>2. CASE PollAgain
    BY <2>2, PollTypes, DriveKept
  <2>3. CASE Return(1) /\ UNCHANGED broken
    BY <2>3, ReturnTypes, DriveKept DEF Return, DriverTypes
  <2> QED BY <2>1, <2>2, <2>3
<1>10. CASE Drive
  <2>1. /\ bsy' \in BOOLEAN /\ drq' \in BOOLEAN /\ err' \in BOOLEAN
        /\ broken' \in BOOLEAN
    BY <1>10, Zenon DEF Drive, DriveReady, DriveStores, DriveFails, DriveTypes,
                        DriverTypes, driver
  <2>2. /\ doing' \in {"none", "read", "write", "store", "flush"} /\ at' \in Lbas
        /\ buffer' \in Sector /\ medium' \in [Lbas -> Sector]
    BY <1>10 DEF Drive, DriveReady, DriveStores, DriveFails, DriveTypes
  <2>3. DriveTypes'
    BY <2>1, <2>2 DEF DriveTypes
  <2>4. UNCHANGED driver
    BY <1>10 DEF Drive, DriveReady, DriveStores, DriveFails
  <2>5. DriverTypes'
    BY <2>1, <2>4 DEF DriverTypes, driver
  <2> QED BY <2>3, <2>5
<1>11. CASE UNCHANGED vars
  BY <1>11, DriveKept DEF DriverTypes, vars, driver
<1> QED
  BY <1>1, <1>2, <1>3, <1>4, <1>5, <1>6, <1>7, <1>8, <1>9, <1>10, <1>11
     DEF Next, Calls, Driver

\* Driver and drive never leave the states of the code and of its ports, and no
\* word beyond the caller's buffer is touched, for a sector of any size.
THEOREM TypeCorrect == Spec => []TypeOK
BY InitTypeOK, NextTypeOK, PTL DEF Spec

-----------------------------------------------------------------------------
(***************************************************************************)
(* The contract.  Until something is broken the drive is, at every point   *)
(* of the driver, at the command the driver believes it is at.             *)
(***************************************************************************)

\* What the status port says of the command.
Status ==
    /\ drq => ~bsy /\ doing \in {"read", "write"}
    /\ doing = "none" <=> ~bsy /\ ~drq

\* The words passed so far.
PassedSoFar ==
    \A k \in 1 .. word - 1 : data[k] = buffer[k]

Finishing == {"none", "store", "flush"}

Answering ==
    /\ doing = op /\ at = lba /\ ~err
    /\ drq /\ op = "read" => buffer = medium[lba]

Matched ==
    /\ pc \in {"boot", "idle", "ready", "settle"} => doing \in Finishing
    /\ pc = "command" => doing = "none"
    /\ pc = "wait" => Answering \/ (doing = "none" /\ err)
    /\ pc = "data" /\ word <= NumWords => Answering /\ drq /\ PassedSoFar
    /\ pc = "data" /\ word > NumWords => doing \in {"none", "store"}
    /\ pc = "data" /\ word > NumWords /\ op = "read" =>
          doing = "none" /\ data = medium[lba]

Counted ==
    /\ pc \in {"ready", "command", "wait"} => word = 1
    /\ pc = "settle" => op = "write" /\ word > NumWords

Contract ==
    /\ TypeOK /\ Counted /\ Status
    /\ ~broken => Matched

LEMMA InitContract == Init => Contract
<1> SUFFICES ASSUME Init PROVE Contract
  OBVIOUS
<1>1. TypeOK
  BY InitTypeOK
<1>2. Status
  BY Zenon DEF Init, Status
<1>3. Matched
  BY DEF Init, Matched, Finishing
<1>4. pc = "boot"
  BY DEF Init
<1> QED BY <1>1, <1>2, <1>3, <1>4 DEF Contract, Counted

\* A step of the drive, or of the driver that leaves the drive alone, and one
\* that sends a command keep the status port true.
LEMMA NextStatus == ASSUME TypeOK, Status, [Next]_vars PROVE Status'
<1>1. CASE UNCHANGED drive
  BY <1>1, Zenon DEF Status, drive
<1>2. ASSUME NEW c \in {"read", "write", "flush"}, Taken(c)
      PROVE  Status'
  BY <1>2, Zenon DEF Status, Taken
<1>3. CASE ReadWord \/ WriteWord
  <2>1. CASE UNCHANGED <<bsy, drq, doing>>
    BY <2>1, Zenon DEF Status
  <2>2. CASE drq /\ WordPassed(word) /\ doing \in {"read", "write"}
    BY <2>2, Zenon DEF Status, WordPassed
  <2> QED BY <1>3, <2>1, <2>2, Zenon DEF ReadWord, WriteWord
<1>4. CASE Drive
  <2>1. CASE DriveReady
    BY <2>1, Zenon DEF Status, DriveReady
  <2>2. CASE DriveStores
    BY <2>2, Zenon DEF Status, DriveStores
  <2>3. CASE DriveFails
    BY <2>3, Zenon DEF Status, DriveFails
  <2> QED BY <1>4, <2>1, <2>2, <2>3 DEF Drive
<1>5. \/ UNCHANGED drive
      \/ Taken(op) \/ Taken("flush")
      \/ ReadWord \/ WriteWord \/ Drive
  BY Zenon DEF Next, Calls, Driver, Call, DiskInit, WaitNotBusy, Command, WaitDrq,
               ReadDone, Flush, Settle, PollAgain, Return, vars
<1> QED BY <1>1, <1>2, <1>3, <1>4, <1>5, Types DEF DriverTypes

LEMMA NextCounted == ASSUME TypeOK, Counted, [Next]_vars PROVE Counted'
<1>1. CASE UNCHANGED <<pc, op, word>>
  BY <1>1 DEF Counted
<1>2. CASE pc' \in {"boot", "idle", "data"}
  BY <1>2 DEF Counted
<1>3. CASE pc' = "ready" /\ word' = 1
  BY <1>3 DEF Counted
<1>4. CASE /\ pc \in {"ready", "command"} /\ pc' \in {"command", "wait"}
           /\ UNCHANGED word
  BY <1>4 DEF Counted
<1>5. CASE Flush
  BY <1>5, NumWordsAssumption, Types DEF Counted, Flush, MoreWords, DriverTypes
<1>6. CASE ReadWord \/ WriteWord
  BY <1>6 DEF Counted, ReadWord, WriteWord
<1>7. \/ UNCHANGED <<pc, op, word>> \/ pc' \in {"boot", "idle", "data"}
      \/ pc' = "ready" /\ word' = 1
      \/ /\ pc \in {"ready", "command"} /\ pc' \in {"command", "wait"}
         /\ UNCHANGED word
      \/ ReadWord \/ WriteWord \/ Flush
  <2>1. CASE Calls
    BY <2>1 DEF Calls, Call
  <2>2. CASE Drive
    BY <2>2 DEF Drive, DriveReady, DriveStores, DriveFails, driver
  <2>3. CASE UNCHANGED vars
    BY <2>3 DEF vars, driver
  <2>4. CASE Driver
    BY <2>4, Zenon DEF Driver, DiskInit, WaitNotBusy, Command, WaitDrq, ReadDone,
                       Settle, PollAgain, Return
  <2> QED BY <2>1, <2>2, <2>3, <2>4 DEF Next
<1> QED BY <1>1, <1>2, <1>3, <1>4, <1>5, <1>6, <1>7

\* The same command goes on, or a step that has to do with none.
LEMMA SameMatched ==
    ASSUME Matched,
           UNCHANGED <<pc, op, lba, data, word, drq, err, doing, at, buffer, medium>>
    PROVE  Matched'
BY DEF Matched, Answering, PassedSoFar

\* Between two calls.
LEMMA BetweenMatched ==
    ASSUME pc' \in {"boot", "idle", "ready", "settle"}, doing' \in Finishing
    PROVE  Matched'
BY DEF Matched

\* Words as they pass: what went through is the same on both sides.
LEMMA WordMatched ==
    ASSUME TypeOK, Status, Matched, ReadWord \/ WriteWord PROVE Matched'
<1>1. /\ word \in 1 .. NumWords /\ NumWords \in Nat
      /\ data \in Sector /\ buffer \in Sector /\ medium[lba] \in Sector
      /\ pc = "data" /\ pc' = "data" /\ word' = word + 1
  BY NumWordsAssumption, Types
     DEF DriverTypes, DriveTypes, ReadWord, WriteWord, MoreWords
<1>2. Answering /\ drq /\ PassedSoFar
  BY <1>1 DEF Matched
<1>3. UNCHANGED <<op, lba, err, at, medium>>
  BY DEF ReadWord, WriteWord
<1>4. data' \in Sector /\ buffer' \in Sector
  BY WordTypes, Types DEF DriverTypes, DriveTypes
<1>5. /\ data'[word] = buffer'[word]
      /\ \A k \in 1 .. NumWords : k # word => data'[k] = data[k] /\ buffer'[k] = buffer[k]
      /\ op = "read" => buffer' = buffer
      /\ WordPassed(word)
  <2>1. CASE ReadWord
    <3>1. /\ data' = [data EXCEPT ![word] = buffer[word]] /\ buffer' = buffer
          /\ WordPassed(word)
      BY <1>2, <2>1, Zenon DEF ReadWord, Answering
    <3> QED BY <1>1, <3>1 DEF Sector
  <2>2. CASE WriteWord
    <3>1. /\ buffer' = [buffer EXCEPT ![word] = data[word]] /\ data' = data
          /\ WordPassed(word) /\ op # "read"
      BY <1>2, <2>2, Zenon DEF WriteWord, Answering
    <3> QED BY <1>1, <3>1 DEF Sector
  <2> QED BY <2>1, <2>2
<1>6. \A k \in 1 .. word : data'[k] = buffer'[k]
  BY <1>1, <1>2, <1>5 DEF PassedSoFar
<1>7. CASE word < NumWords
  <2>1. UNCHANGED <<drq, doing>>
    BY <1>5, <1>7 DEF WordPassed
  <2>2. Answering'
    BY <1>2, <1>3, <1>5, <2>1 DEF Answering
  <2>3. PassedSoFar'
    BY <1>1, <1>6 DEF PassedSoFar
  <2> QED BY <1>1, <1>2, <1>7, <2>1, <2>2, <2>3 DEF Matched
<1>8. CASE word = NumWords
  <2>1. doing' = IF doing = "write" THEN "store" ELSE "none"
    <3>1. ~(word < NumWords)
      BY <1>1, <1>8
    <3> QED BY <1>5, <3>1, Zenon DEF WordPassed
  <2>2. op = "read" => data' = medium'[lba']
    <3> SUFFICES ASSUME op = "read" PROVE data' = buffer
      BY <1>2, <1>3 DEF Answering
    <3> QED BY <1>1, <1>4, <1>5, <1>6, <1>8 DEF Sector
  <2> QED BY <1>1, <1>2, <1>3, <1>8, <2>1, <2>2 DEF Matched, Answering
<1> QED BY <1>1, <1>7, <1>8

LEMMA NextMatched ==
    ASSUME TypeOK, Counted, Status, Matched, [Next]_vars, ~broken, ~broken'
    PROVE  Matched'
<1>1. CASE Calls
  <2>1. pc = "idle" /\ pc' = "ready" /\ doing' = doing
    BY <1>1 DEF Calls, Call, drive
  <2> QED BY <2>1, BetweenMatched DEF Matched
<1>2. ASSUME NEW floating \in BOOLEAN, DiskInit(floating) PROVE Matched'
  <2>1. pc = "boot" /\ pc' = "idle" /\ doing' = doing
    BY <1>2 DEF DiskInit, drive
  <2> QED BY <2>1, BetweenMatched DEF Matched
<1>3. CASE PollAgain
  BY <1>3, SameMatched DEF PollAgain, drive
<1>4. CASE WaitNotBusy /\ ~PollAgain
  <2>1. /\ pc = "ready" /\ doing' = doing /\ doing \in Finishing
        /\ pc' = "idle" \/ (pc' = "command" /\ ~bsy)
    BY <1>4, Zenon DEF WaitNotBusy, Return, drive, Matched
  <2>2. CASE pc' = "idle"
    BY <2>1, <2>2, BetweenMatched
  <2>3. CASE pc' = "command" /\ ~bsy
    <3>1. doing = "none"
      BY <2>1, <2>3, Zenon DEF Status, Finishing
    <3> QED BY <2>1, <2>3, <3>1 DEF Matched
  <2> QED BY <2>1, <2>2, <2>3
<1>5. CASE Command
  <2>1. pc = "command" /\ pc' = "wait" /\ doing = "none"
    BY <1>5 DEF Command, Matched
  <2>2. Taken(op) /\ UNCHANGED <<op, lba>>
    BY <1>5, <2>1, Zenon DEF Command, Status
  <2>3. Answering'
    BY <2>2, Zenon DEF Taken, Answering
  <2> QED BY <2>1, <2>3 DEF Matched
<1>6. CASE WaitDrq /\ ~PollAgain
  <2>1. /\ pc = "wait" /\ UNCHANGED <<op, lba, data, word, drive>>
        /\ (pc' = "idle" /\ err) \/ (pc' = "data" /\ ~err /\ drq)
    BY <1>6, Zenon DEF WaitDrq, Return
  <2>2. CASE pc' = "idle" /\ err
    <3>1. doing = "none"
      BY <2>1, <2>2, Zenon DEF Matched, Answering
    <3> QED BY <2>1, <2>2, <3>1, BetweenMatched DEF drive, Finishing
  <2>3. CASE pc' = "data" /\ ~err /\ drq
    <3>1. Answering
      BY <2>1, <2>3, Zenon DEF Matched
    <3>2. word = 1
      BY <2>1 DEF Counted
    <3>3. PassedSoFar'
      BY <2>1, <3>2 DEF PassedSoFar
    <3>4. Answering' /\ drq'
      BY <2>1, <2>3, <3>1 DEF Answering, drive
    <3>5. word' <= NumWords
      BY <2>1, <3>2, NumWordsAssumption
    <3>6. ~(word' > NumWords)
      BY <2>1, <3>2, NumWordsAssumption
    <3> QED BY <2>3, <3>3, <3>4, <3>6 DEF Matched
  <2> QED BY <2>1, <2>2, <2>3
<1>7. CASE ReadWord \/ WriteWord
  BY <1>7, WordMatched
<1>8. CASE ReadDone
  <2>1. pc' = "idle" /\ doing' = "none"
    BY <1>8, Types, NumWordsAssumption
       DEF ReadDone, Return, drive, Matched, MoreWords, DriverTypes
  <2> QED BY <2>1, BetweenMatched DEF Finishing
<1>9. CASE Flush
  <2>1. pc = "data" /\ word > NumWords /\ pc' = "settle"
    BY <1>9, Types, NumWordsAssumption DEF Flush, MoreWords, DriverTypes
  <2>2. doing' \in Finishing
    BY <1>9, <2>1, Zenon DEF Flush, Matched, Taken, drive, Finishing
  <2> QED BY <2>1, <2>2, BetweenMatched
<1>10. CASE Settle /\ ~PollAgain
  <2>1. pc = "settle" /\ pc' = "idle" /\ doing' = doing
    BY <1>10, Zenon DEF Settle, Return, drive
  <2> QED BY <2>1, BetweenMatched DEF Matched
<1>11. CASE Drive
  <2>1. UNCHANGED <<pc, op, lba, data, word>> /\ bsy /\ ~drq
    BY <1>11, Zenon DEF Drive, DriveReady, DriveStores, DriveFails, driver, Status
  <2>2. \/ pc \in {"boot", "idle", "ready", "settle"} /\ doing \in Finishing
        \/ pc = "wait" /\ Answering /\ doing \in {"read", "write"}
        \/ pc = "data" /\ word > NumWords /\ doing = "store" /\ op = "write"
    <3>1. doing # "none" /\ word \in Nat /\ NumWords \in Nat
      BY <2>1, Types, NumWordsAssumption DEF Status, DriverTypes
    <3>2. ~(word <= NumWords) => word > NumWords
      BY <3>1
    <3> QED BY <2>1, <3>1, <3>2, Types, Zenon DEF Matched, DriverTypes, Answering
  <2>3. CASE pc \in {"boot", "idle", "ready", "settle"} /\ doing \in Finishing
    <3>1. doing' \in Finishing
      BY <1>11, <2>3, Zenon
         DEF Drive, DriveReady, DriveStores, DriveFails, Finishing
    <3> QED BY <2>1, <2>3, <3>1, BetweenMatched
  <2>4. CASE pc = "wait" /\ Answering /\ doing \in {"read", "write"}
    <3>1. CASE DriveReady
      <4>1. Answering'
        BY <2>1, <2>4, <3>1, Zenon DEF DriveReady, Answering
      <4> QED BY <2>1, <2>4, <4>1 DEF Matched
    <3>2. CASE DriveFails
      BY <2>1, <2>4, <3>2 DEF DriveFails, Matched
    <3> QED BY <1>11, <2>4, <3>1, <3>2, Zenon DEF Drive, DriveStores
  <2>5. CASE pc = "data" /\ word > NumWords /\ doing = "store" /\ op = "write"
    <3>1. doing' \in {"none", "store"}
      BY <1>11, <2>5, Zenon DEF Drive, DriveReady, DriveStores, DriveFails
    <3>2. ~(word' <= NumWords)
      BY <2>1, <2>5, Types, NumWordsAssumption DEF DriverTypes
    <3> QED BY <2>1, <2>5, <3>1, <3>2 DEF Matched
  <2> QED BY <2>2, <2>3, <2>4, <2>5
<1>12. CASE UNCHANGED vars
  BY <1>12, SameMatched DEF vars, driver, drive
<1> QED
  BY <1>1, <1>2, <1>3, <1>4, <1>5, <1>6, <1>7, <1>8, <1>9, <1>10, <1>11, <1>12
     DEF Next, Driver

LEMMA NextContract == Contract /\ [Next]_vars => Contract'
<1> SUFFICES ASSUME Contract, [Next]_vars PROVE Contract'
  OBVIOUS
<1>1. TypeOK' /\ Counted' /\ Status'
  BY NextTypeOK, NextCounted, NextStatus DEF Contract
<1>2. ~broken' => ~broken
  BY Zenon DEF Next, Calls, Call, Driver, DiskInit, WaitNotBusy, Command, WaitDrq,
     ReadWord, WriteWord, ReadDone, Flush, Settle, PollAgain, Drive, DriveReady,
     DriveStores, DriveFails, vars
<1>3. ~broken' => Matched'
  BY <1>2, NextMatched DEF Contract
<1> QED BY <1>1, <1>3 DEF Contract

\* The drive is at the command the driver believes it is at, until one of them
\* gives the other up.
THEOREM Invariance == Spec => []Contract
BY InitContract, NextContract, PTL DEF Spec

-----------------------------------------------------------------------------
(***************************************************************************)
(* The refinement.                                                         *)
(***************************************************************************)
LEMMA InitImplements == ASSUME Init PROVE Store!Init
<1>1. TypeOK
  BY InitTypeOK
<1>2. Stored = medium /\ medium \in [Lbas -> Sector]
  BY <1>1, Types, Zenon DEF Init, Stored, DriveTypes
<1>3. Asked \in Store!Request
  BY <1>1, Types, EmptySector DEF Asked, Store!Request, DriverTypes
<1>4. ~Passed /\ Passed = FALSE
  BY DEF Init, Passed
<1>5. Answer = Store!Failed
  BY DEF Init, Answer, Called, Store!Failed
<1>6. broken = FALSE
  BY DEF Init
<1> QED BY <1>2, <1>3, <1>4, <1>5, <1>6 DEF Store!Init

LEMMA StoredKept == ASSUME UNCHANGED drive PROVE Stored' = Stored
BY DEF Stored, drive

\* The caller's side of a call that goes on.
LEMMA Goes ==
    ASSUME Called, Called', UNCHANGED <<op, lba, Passed>>,
           op = "write" => UNCHANGED data,
           Stored' = Stored, UNCHANGED broken
    PROVE  UNCHANGED Store!vars
<1>1. Asked' = Asked
  BY DEF Asked
<1>2. Answer' = Answer
  BY DEF Answer
<1> QED BY <1>1, <1>2 DEF Store!vars

\* A call ends with 0 before anything was written.
LEMMA Fails ==
    ASSUME Contract, Called, pc # "data", pc # "settle", Return(0), UNCHANGED broken
    PROVE  Store!Next
<1>1. word = 1 /\ NumWords \in Nat \ {0}
  BY NumWordsAssumption DEF Contract, Counted, TypeOK, Called
<1>2. ~Passed /\ UNCHANGED <<Asked, Passed>>
  BY <1>1 DEF Passed, Asked, Return
<1>3. Answer = Store!Busy /\ Answer' = Store!Failed
  BY DEF Answer, Called, Return, Store!Busy, Store!Failed
<1>4. Stored' = Stored
  BY StoredKept DEF Return
<1> QED BY <1>2, <1>3, <1>4 DEF Store!Next, Store!Fail

\* The last word of a write makes the sector what was asked for.
LEMMA WordImplements ==
    ASSUME Contract, ~broken, ~broken', ReadWord \/ WriteWord
    PROVE  [Store!Next]_(Store!vars)
<1>1. Matched /\ TypeOK /\ Status /\ Matched' /\ TypeOK' /\ Status'
  BY WordMatched, NextTypeOK, NextStatus DEF Contract, Next, Driver
<1>2. /\ word \in 1 .. NumWords /\ NumWords \in Nat
      /\ pc = "data" /\ pc' = "data" /\ word' = word + 1
      /\ UNCHANGED <<op, lba, err, at, medium, broken>>
      /\ op \in {"read", "write"}
  BY <1>1, NumWordsAssumption, Types
     DEF DriverTypes, ReadWord, WriteWord, MoreWords
<1>3. Called /\ Called'
  BY <1>2 DEF Called
<1>4. Answering /\ drq /\ ~bsy
  <2>1. word <= NumWords
    BY <1>2
  <2> QED BY <1>1, <1>2, <2>1, Zenon DEF Matched, Status
<1>5. Stored = medium
  BY <1>4, Zenon DEF Stored
<1>6. CASE op = "read"
  <2>1. doing' # "store"
    BY <1>2, <1>4, <1>6, Zenon DEF ReadWord, WriteWord, WordPassed, Answering
  <2>2. Stored' = medium
    BY <1>2, <2>1, Zenon DEF Stored
  <2> QED BY <1>2, <1>3, <1>5, <1>6, <2>2, Goes DEF Passed
<1>7. CASE op = "write" /\ word < NumWords
  <2>1. doing' # "store"
    BY <1>1, <1>2, <1>7 DEF Matched, Answering
  <2>2. Stored' = medium
    BY <1>2, <2>1, Zenon DEF Stored
  <2>3. data' = data
    BY <1>2, <1>7 DEF ReadWord, WriteWord
  <2>4. Passed' = Passed
    BY <1>2, <1>7 DEF Passed
  <2> QED BY <1>2, <1>3, <1>5, <1>7, <2>2, <2>3, <2>4, Goes
<1>8. CASE op = "write" /\ word = NumWords
  <2>1. data' = data
    BY <1>2, <1>8 DEF ReadWord, WriteWord
  <2>2. WriteWord /\ WordPassed(word) /\ doing = "write"
    BY <1>2, <1>4, <1>8, Zenon DEF ReadWord, WriteWord, Answering
  <2>3. bsy' /\ doing' = "store"
    <3>1. ~(word < NumWords)
      BY <1>2, <1>8
    <3> QED BY <2>2, <3>1, Zenon DEF WordPassed
  <2>4. buffer' = data
    <3>1. buffer' = [buffer EXCEPT ![word] = data[word]]
      BY <1>4, <2>2, Zenon DEF WriteWord
    <3>2. buffer \in Sector /\ data \in Sector /\ buffer' \in Sector
      BY <1>1 DEF TypeOK
    <3>3. \A k \in 1 .. word - 1 : data[k] = buffer[k]
      BY <1>1, <1>2 DEF Matched, PassedSoFar
    <3> QED BY <1>2, <1>8, <3>1, <3>2, <3>3 DEF Sector
  <2>5. Stored' = [medium EXCEPT ![lba] = data]
    BY <1>2, <1>4, <2>3, <2>4, Zenon DEF Stored, Answering
  <2>6. Asked.op = "write" /\ Asked.lba = lba /\ Asked.data = data /\ Asked' = Asked
    BY <1>2, <1>8, <2>1 DEF Asked
  <2>7. ~Passed /\ Passed' = TRUE
    BY <1>2, <1>8 DEF Passed
  <2>8. Answer = Store!Busy /\ Answer' = Answer
    BY <1>3 DEF Answer, Store!Busy
  <2> QED BY <1>2, <1>5, <2>5, <2>6, <2>7, <2>8 DEF Store!Next, Store!Write
<1> QED BY <1>2, <1>6, <1>7, <1>8

\* The drive on its own changes nothing of what is or will be stored, unless
\* it fails with the words in hand.
LEMMA DriveImplements ==
    ASSUME Status, TypeOK, Drive, ~broken' PROVE UNCHANGED Store!vars
<1>1. Stored' = Stored
  <2>1. CASE DriveReady
    BY <2>1, Zenon DEF DriveReady, Stored
  <2>2. CASE DriveStores
    BY <2>2, Zenon DEF DriveStores, Stored
  <2>3. CASE DriveFails
    BY <2>3, Zenon DEF DriveFails, Stored
  <2> QED BY <2>1, <2>2, <2>3 DEF Drive
<1>2. UNCHANGED driver
  BY DEF Drive, DriveReady, DriveStores, DriveFails
<1>3. broken' = broken
  BY Types, Zenon
     DEF Drive, DriveReady, DriveStores, DriveFails, DriverTypes
<1> QED
  BY <1>1, <1>2, <1>3
     DEF driver, Store!vars, Asked, Passed, Answer, Success, Called

\* Every step of driver or drive is a step of the contract, or none.
LEMMA NextImplements ==
    ASSUME Contract, [Next]_vars PROVE [Store!Next]_(Store!vars)
<1>1. SUFFICES ASSUME ~broken' PROVE [Store!Next]_(Store!vars)
  BY DEF Store!Next
<1>2. ~broken /\ UNCHANGED broken
  <2>1. ~broken
    BY <1>1, Zenon DEF Next, Calls, Call, Driver, DiskInit, WaitNotBusy, Command,
       WaitDrq, ReadWord, WriteWord, ReadDone, Flush, Settle, PollAgain, Drive,
       DriveReady, DriveStores, DriveFails, vars
  <2>2. TypeOK /\ TypeOK'
    BY NextTypeOK DEF Contract
  <2> QED BY <1>1, <2>1, <2>2 DEF TypeOK
<1>3. TypeOK /\ Counted /\ Status /\ Matched
  BY <1>2 DEF Contract
<1>4. CASE Calls
  <2>1. PICK o \in {"read", "write"}, l \in Lbas, d \in Sector : Call(o, l, d)
    BY <1>4 DEF Calls
  <2>2. Asked' \in Store!Request
    BY <2>1, EmptySector DEF Call, Asked, Store!Request
  <2>3. Answer # Store!Busy /\ Answer' = Store!Busy
    BY <2>1 DEF Call, Answer, Success, Called, Store!Busy
  <2>4. Passed' = FALSE
    BY <2>1, NumWordsAssumption DEF Call, Passed
  <2>5. Stored' = Stored
    BY <2>1, StoredKept DEF Call
  <2> QED BY <1>2, <2>2, <2>3, <2>4, <2>5 DEF Store!Next, Store!Call
<1>5. ASSUME NEW floating \in BOOLEAN, DiskInit(floating)
      PROVE  UNCHANGED Store!vars
  <2>1. Stored' = Stored
    BY <1>5, StoredKept DEF DiskInit
  <2> QED BY <1>5, <2>1
          DEF DiskInit, Store!vars, Asked, Passed, Answer, Success, Called
<1>6. CASE PollAgain /\ Called
  BY <1>2, <1>6, Goes, StoredKept DEF PollAgain, Called, Passed
<1>7. CASE WaitNotBusy /\ ~PollAgain
  <2>1. CASE Return(0)
    BY <1>2, <1>7, <2>1, Fails DEF WaitNotBusy, Called
  <2>2. CASE pc' = "command" /\ UNCHANGED <<has_disk, op, lba, data, word, polls,
                                            result, drive, broken>>
    BY <1>7, <2>2, Goes, StoredKept DEF WaitNotBusy, Called, Passed
  <2> QED BY <1>7, <2>1, <2>2, Zenon DEF WaitNotBusy
<1>8. CASE Command
  <2>1. pc = "command" /\ pc' = "wait" /\ UNCHANGED <<op, lba, data, word, broken>>
    BY <1>8 DEF Command
  <2>2. Taken(op) \/ UNCHANGED drive
    BY <1>8, Zenon DEF Command
  <2>3. Stored' = Stored
    <3>1. doing = "none" /\ op # "store"
      BY <1>3, <2>1, Types DEF Matched, DriverTypes
    <3>2. ASSUME Taken(op) PROVE Stored' = Stored
      BY <3>1, <3>2, Zenon DEF Taken, Stored
    <3> QED BY <2>2, <3>2, StoredKept
  <2> QED BY <2>1, <2>3, Goes DEF Called, Passed
<1>9. CASE WaitDrq /\ ~PollAgain
  <2>1. CASE Return(0)
    BY <1>2, <1>9, <2>1, Fails DEF WaitDrq, Called
  <2>2. CASE pc' = "data" /\ UNCHANGED <<has_disk, op, lba, data, word, polls,
                                         result, drive, broken>>
    BY <1>9, <2>2, Goes, StoredKept DEF WaitDrq, Called, Passed
  <2> QED BY <1>9, <2>1, <2>2, Zenon DEF WaitDrq
<1>10. CASE ReadWord \/ WriteWord
  BY <1>1, <1>2, <1>10, WordImplements
<1>11. CASE ReadDone
  <2>1. /\ pc = "data" /\ op = "read" /\ word > NumWords /\ pc' = "idle" /\ result' = 1
        /\ UNCHANGED <<op, lba, data, word, drive>>
    BY <1>3, <1>11, NumWordsAssumption, Types
       DEF ReadDone, MoreWords, Return, DriverTypes
  <2>2. doing = "none" /\ data = medium[lba]
    BY <1>3, <2>1 DEF Matched
  <2>3. Stored = medium /\ Stored' = Stored
    BY <2>1, <2>2, StoredKept DEF Stored
  <2>4. Answer = Store!Busy /\ Answer' = <<1, data>>
    BY <2>1 DEF Answer, Success, Called, Store!Busy
  <2>5. Asked.op = "read" /\ Asked.lba = lba /\ UNCHANGED <<Asked, Passed>>
    BY <2>1 DEF Asked, Passed
  <2> QED BY <1>2, <2>2, <2>3, <2>4, <2>5 DEF Store!Next, Store!Succeed
<1>12. CASE Flush
  <2>1. /\ pc = "data" /\ pc' = "settle" /\ op = "write" /\ word > NumWords
        /\ UNCHANGED <<op, lba, data, word, broken>>
    BY <1>3, <1>12, NumWordsAssumption, Types DEF Flush, MoreWords, DriverTypes
  <2>2. (~bsy /\ Taken("flush")) \/ UNCHANGED drive
    BY <1>12, Zenon DEF Flush
  <2>3. Stored' = Stored
    <3>1. ASSUME ~bsy, Taken("flush") PROVE Stored' = Stored
      BY <3>1, Zenon DEF Taken, Stored
    <3> QED BY <2>2, <3>1, StoredKept
  <2> QED BY <2>1, <2>3, Goes DEF Called, Passed
<1>13. CASE Settle /\ ~PollAgain
  <2>1. pc = "settle" /\ Return(1)
    BY <1>13, Zenon DEF Settle
  <2>2. op = "write" /\ Passed /\ UNCHANGED <<Asked, Passed>>
    BY <1>3, <2>1 DEF Counted, Return, Passed, Asked
  <2>3. Asked.op = "write"
    BY <2>2 DEF Asked
  <2>4. Answer = Store!Busy /\ Answer' = <<1>>
    BY <2>1, <2>2 DEF Answer, Success, Called, Return, Store!Busy
  <2>5. Stored' = Stored
    BY <2>1, StoredKept DEF Return
  <2> QED BY <1>2, <2>2, <2>3, <2>4, <2>5 DEF Store!Next, Store!Succeed
<1>14. CASE Drive
  BY <1>1, <1>3, <1>14, DriveImplements
<1>15. CASE UNCHANGED vars
  <2>1. Stored' = Stored
    BY <1>15, StoredKept DEF vars
  <2> QED BY <1>15, <2>1
          DEF vars, driver, Store!vars, Asked, Passed, Answer, Success, Called
<1>16. PollAgain /\ (WaitNotBusy \/ WaitDrq \/ Settle) => Called
  BY DEF WaitNotBusy, WaitDrq, Settle, Called
<1> QED
  BY <1>4, <1>5, <1>6, <1>7, <1>8, <1>9, <1>10, <1>11, <1>12, <1>13, <1>14, <1>15,
     <1>16 DEF Next, Driver

\* The driver keeps the contract Persistence relies on, for every size of
\* sector and number of polls: a call does what it was asked for and says so,
\* or changes nothing, until a drive answers too late or fails with the words
\* of a write in hand.
THEOREM DriverCorrect == Spec => ImplementsSectorStore
<1>1. Init => Store!Init
  BY InitImplements
<1>2. Contract /\ [Next]_vars => [Store!Next]_(Store!vars)
  BY NextImplements
<1> QED BY <1>1, <1>2, Invariance, PTL DEF Spec, ImplementsSectorStore, Store!Spec
=============================================================================
