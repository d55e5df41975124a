--------------------------------- MODULE Ata ---------------------------------
(***************************************************************************)
(* The programmed-I/O driver of kernel/disk.c and the drive behind its     *)
(* ports.  Driver and drive run concurrently: between two of the driver's  *)
(* polls the drive may or may not have got on with the command.            *)
(*                                                                         *)
(* The drive is not in the repository.  It is modelled from what the       *)
(* driver relies on: a command raises BSY, the drive lowers it with DRQ    *)
(* (ready for the words of one sector) or with ERR, and after the last     *)
(* word of a write BSY is up until the sector is stored.  A command sent   *)
(* while BSY is up is ignored; of one sent while DRQ is up nothing is      *)
(* known, and the drive may take it or not.                                *)
(***************************************************************************)
EXTENDS Integers

CONSTANTS
    Lbas,           \* the sectors of the drive
    NumWords,       \* words of a sector (256)
    Words,          \* what a word can be
    Zero,           \* the word an empty drive is full of
    MaxPolls        \* turns of the polling loops (100000)

ASSUME NumWordsAssumption == NumWords \in Nat \ {0}
ASSUME WordsAssumption == Zero \in Words
ASSUME MaxPollsAssumption == MaxPolls \in Nat \ {0}

Sector == [1 .. NumWords -> Words]
Empty  == [k \in 1 .. NumWords |-> Zero]

VARIABLES
    has_disk,       \* disk_init saw a drive
    pc,             \* where the driver is
    op, lba,        \* the call: "read" or "write", and the sector
    data,           \* the caller's buffer
    word,           \* the next word to transfer
    polls,          \* turns of the current polling loop
    result          \* what the last call returned

driver == <<has_disk, pc, op, lba, data, word, polls, result>>

VARIABLES
    bsy, drq, err,  \* the status port
    doing,          \* the drive's command: "none", "read", "write", "store"
                    \* (a write whose words it has) or "flush"
    at,             \* the sector of that command
    buffer,         \* the drive's buffer
    medium          \* what the sectors hold

drive == <<bsy, drq, err, doing, at, buffer, medium>>

\* History: a call was given up while the drive was at it, or the drive
\* reported an error after it had taken the words of a write.
VARIABLE broken

vars == <<driver, drive, broken>>

Init ==
    /\ has_disk = FALSE
    /\ pc = "boot"
    /\ op = "read" /\ lba \in Lbas /\ data = Empty
    /\ word = 1 /\ polls = 0 /\ result = 0
    /\ bsy = FALSE /\ drq = FALSE /\ err = FALSE
    /\ doing = "none" /\ at = lba
    /\ buffer = Empty /\ medium = [l \in Lbas |-> Empty]
    /\ broken = FALSE

-----------------------------------------------------------------------------
(***************************************************************************)
(* The driver.                                                             *)
(***************************************************************************)

\* floating: the status port reads 0xFF or 0x00, there is no drive.
DiskInit(floating) ==
    /\ pc = "boot"
    /\ has_disk' = ~floating
    /\ pc' = "idle"
    /\ UNCHANGED <<op, lba, data, word, polls, result, drive, broken>>

\* A call of disk_read_sector or disk_write_sector; d is the buffer.
Call(o, l, d) ==
    /\ pc = "idle"
    /\ pc' = "ready" /\ op' = o /\ lba' = l /\ data' = d
    /\ word' = 1 /\ polls' = 0
    /\ UNCHANGED <<has_disk, result, drive, broken>>

Return(r) ==
    /\ pc' = "idle"
    /\ result' = r
    /\ UNCHANGED <<has_disk, op, lba, data, word, polls, drive>>

\* One more turn of a polling loop, if there is one.
PollAgain ==
    /\ polls + 1 < MaxPolls
    /\ polls' = polls + 1
    /\ UNCHANGED <<has_disk, pc, op, lba, data, word, result, drive, broken>>

LastPoll == polls + 1 >= MaxPolls

\* wait_not_busy before the command.
WaitNotBusy ==
    /\ pc = "ready"
    /\ \/ ~has_disk /\ Return(0) /\ UNCHANGED broken
       \/ has_disk /\ bsy /\ PollAgain
       \/ has_disk /\ bsy /\ LastPoll /\ Return(0) /\ UNCHANGED broken
       \/ /\ has_disk /\ ~bsy
          /\ pc' = "command"
          /\ UNCHANGED <<has_disk, op, lba, data, word, polls, result, drive,
                         broken>>

\* What the drive does with a command.
Taken(c) ==
    /\ bsy' = TRUE /\ drq' = FALSE /\ err' = FALSE
    /\ doing' = c /\ at' = lba
    /\ UNCHANGED <<buffer, medium>>

\* The address and then the command are written to the ports.
Command ==
    /\ pc = "command"
    /\ \/ ~bsy /\ Taken(op)
       \/ (bsy \/ drq) /\ UNCHANGED drive
    /\ pc' = "wait" /\ polls' = 0
    /\ UNCHANGED <<has_disk, op, lba, data, word, result, broken>>

\* Mutant of WaitDrq: wait_not_busy is called instead.
WaitOnlyNotBusy ==
    /\ pc = "wait"
    /\ \/ bsy /\ PollAgain
       \/ bsy /\ LastPoll /\ Return(0) /\ broken' = TRUE
       \/ /\ ~bsy
          /\ pc' = "data"
          /\ UNCHANGED <<has_disk, op, lba, data, word, polls, result, drive,
                         broken>>

\* Mutant of WaitDrq: the loop has no bound.
WaitDrqForever ==
    /\ pc = "wait"
    /\ \/ err /\ Return(0) /\ UNCHANGED broken
       \/ /\ ~err /\ ~bsy /\ drq
          /\ pc' = "data"
          /\ UNCHANGED <<has_disk, op, lba, data, word, polls, result, drive,
                         broken>>

WaitDrq ==
    /\ pc = "wait"
    /\ \/ err /\ Return(0) /\ UNCHANGED broken
       \/ ~err /\ (bsy \/ ~drq) /\ PollAgain
       \/ ~err /\ (bsy \/ ~drq) /\ LastPoll /\ Return(0) /\ broken' = TRUE
       \/ /\ ~err /\ ~bsy /\ drq
          /\ pc' = "data"
          /\ UNCHANGED <<has_disk, op, lba, data, word, polls, result, drive,
                         broken>>

\* The drive after word k went through its data port.
WordPassed(k) ==
    IF k < NumWords THEN UNCHANGED <<bsy, drq, doing>>
    ELSE /\ drq' = FALSE
         /\ IF doing = "write" THEN bsy' = TRUE /\ doing' = "store"
                               ELSE bsy' = FALSE /\ doing' = "none"

\* Mutant of MoreWords: the loop makes a turn too many.
OneMoreWord == word <= NumWords + 1

MoreWords == word <= NumWords

\* One inw.  A drive that waits for the words of a write gives anything.
ReadWord ==
    /\ pc = "data" /\ op = "read" /\ MoreWords
    /\ \/ /\ drq /\ doing = "read"
          /\ data' = [data EXCEPT ![word] = buffer[word]]
          /\ WordPassed(word)
       \/ /\ ~(drq /\ doing = "read")
          /\ \E w \in Words : data' = [data EXCEPT ![word] = w]
          /\ UNCHANGED <<bsy, drq, doing>>
    /\ word' = word + 1
    /\ UNCHANGED <<has_disk, pc, op, lba, polls, result, err, at, buffer,
                   medium, broken>>

\* One outw.  A drive that does not wait for it drops it.
WriteWord ==
    /\ pc = "data" /\ op = "write" /\ MoreWords
    /\ \/ /\ drq /\ doing = "write"
          /\ buffer' = [buffer EXCEPT ![word] = data[word]]
          /\ WordPassed(word)
       \/ ~(drq /\ doing = "write") /\ UNCHANGED <<bsy, drq, doing, buffer>>
    /\ word' = word + 1
    /\ UNCHANGED <<has_disk, pc, op, lba, data, polls, result, err, at, medium,
                   broken>>

ReadDone ==
    /\ pc = "data" /\ op = "read" /\ ~MoreWords
    /\ Return(1)
    /\ UNCHANGED broken

\* Command 0xE7, sent without looking at the status.
Flush ==
    /\ pc = "data" /\ op = "write" /\ ~MoreWords
    /\ \/ ~bsy /\ Taken("flush")
       \/ (bsy \/ drq) /\ UNCHANGED drive
    /\ pc' = "settle" /\ polls' = 0
    /\ UNCHANGED <<has_disk, op, lba, data, word, result, broken>>

\* The last wait_not_busy: neither its result nor ERR is looked at.
Settle ==
    /\ pc = "settle"
    /\ \/ bsy /\ PollAgain
       \/ (~bsy \/ LastPoll) /\ Return(1) /\ UNCHANGED broken

Driver ==
    \/ \E floating \in BOOLEAN : DiskInit(floating)
    \/ WaitNotBusy \/ Command \/ WaitDrq
    \/ ReadWord \/ WriteWord \/ ReadDone \/ Flush \/ Settle

-----------------------------------------------------------------------------
(***************************************************************************)
(* The drive.                                                              *)
(***************************************************************************)
DriveReady ==
    /\ bsy /\ doing \in {"read", "write"}
    /\ bsy' = FALSE /\ drq' = TRUE
    /\ buffer' = IF doing = "read" THEN medium[at] ELSE buffer
    /\ UNCHANGED <<err, doing, at, medium, driver, broken>>

DriveStores ==
    /\ bsy /\ doing \in {"store", "flush"}
    /\ bsy' = FALSE /\ doing' = "none"
    /\ medium' = IF doing = "store" THEN [medium EXCEPT ![at] = buffer]
                                    ELSE medium
    /\ UNCHANGED <<drq, err, at, buffer, driver, broken>>

DriveFails ==
    /\ bsy
    /\ bsy' = FALSE /\ err' = TRUE /\ doing' = "none"
    /\ broken' = (broken \/ doing = "store")
    /\ UNCHANGED <<drq, at, buffer, medium, driver>>

Drive == DriveReady \/ DriveStores \/ DriveFails

Calls == \E o \in {"read", "write"}, l \in Lbas, d \in Sector : Call(o, l, d)

Next == Calls \/ Driver \/ Drive

Spec == Init /\ [][Next]_vars

\* The driver runs; the drive may be dead.
FairSpec == Spec /\ WF_vars(Driver)

-----------------------------------------------------------------------------
(***************************************************************************)
(* What must hold.                                                         *)
(***************************************************************************)

\* Driver and drive stay in the states the code and its ports can be in; no
\* word outside the caller's buffer is touched.
TypeOK ==
    /\ has_disk \in BOOLEAN
    /\ pc \in {"boot", "idle", "ready", "command", "wait", "data", "settle"}
    /\ op \in {"read", "write"} /\ lba \in Lbas /\ data \in Sector
    /\ word \in 1 .. NumWords + 1 /\ polls \in 0 .. MaxPolls
    /\ result \in {0, 1}
    /\ bsy \in BOOLEAN /\ drq \in BOOLEAN /\ err \in BOOLEAN
    /\ doing \in {"none", "read", "write", "store", "flush"}
    /\ at \in Lbas /\ buffer \in Sector /\ medium \in [Lbas -> Sector]
    /\ broken \in BOOLEAN

\* Every call returns, even if the drive never answers: the kernel cannot hang
\* in a transfer.
CallReturns == pc # "idle" ~> pc = "idle"

\* What the sectors hold once the drive has stored what it was given.
Stored ==
    IF bsy /\ doing = "store" THEN [medium EXCEPT ![at] = buffer] ELSE medium

\* "Filesystem saved" (progs/disk.c:57) is said when every write returned 1:
\* what such a write was given is then in the sector.
SuccessIsTrue ==
    pc = "idle" /\ op = "write" /\ result = 1 => Stored[lba] = data
=============================================================================
