------------------------- MODULE PersistenceProofs -------------------------
(***************************************************************************)
(* What Persistence promises, proved for a disk of any number of sectors   *)
(* and any number of operations.                                           *)
(*                                                                         *)
(* The promises are about a machine at its prompt; the invariant says what *)
(* must be so inside a save or a load for them to hold when it is over:    *)
(* the sectors already transferred are equal on both sides (Prefix), a     *)
(* load the user asked for does not disturb a table that is saved          *)
(* (Synced), the table being saved is one the machine held (Origin),       *)
(* an attached disk is in use unless a transfer failed (Attached), and     *)
(* fs_booting is set only in a boot, so that no save is left out (Callers).*)
(***************************************************************************)
EXTENDS Persistence, TLAPS

Prefix ==
    pc \in {"saving", "loading"} /\ at >= 1 =>
        header /\ \A s \in Sectors : s < at => disk[s] = table[s]

Synced ==
    (pc = "idle" \/ (pc = "loading" /\ caller = "load"))
        /\ persistence_enabled /\ ~failed
    => header /\ disk = table

\* Once the boot is over an attached disk is in use, but for a failed transfer.
Attached ==
    (pc = "idle" \/ (pc \in {"saving", "loading"} /\ caller # "boot"))
        /\ present /\ ~failed
    => persistence_enabled

Origin ==
    /\ Default \in held
    /\ ~hurt =>
        /\ pc \in {"idle", "saving"} => table \in held
        /\ pc = "loading" /\ caller = "load" /\ at <= 1 => table \in held
        /\ header /\ (pc = "saving" => at = 0) => disk \in held

Callers ==
    /\ pc # "idle" => said = "nothing"
    /\ pc = "idle" \/ (pc = "loading" /\ caller = "load") => ~fs_booting
    /\ pc = "loading" => caller \in {"boot", "load"}
    /\ pc = "loading" /\ caller = "boot" => ~persistence_enabled

IInv ==
    TypeOK /\ DurableKept /\ SavedIsSaved /\ Prefix /\ Synced /\ Attached /\ Origin
         /\ Callers

\* An operation makes an image of an image.
LEMMA ChangedImages ==
    ASSUME NEW t \in Image, ops \in Nat, ops < MaxOps, NEW u \in Changed(t)
    PROVE  u \in Image
  BY MaxOpsAssumption DEF Changed, Image, Tags, Blank

\* Two images that agree on every sector are one.
LEMMA SameImage ==
    ASSUME NEW t \in Image, NEW u \in Image, \A s \in Sectors : t[s] = u[s]
    PROVE  t = u
  BY DEF Image

\* The images of the model are images.
LEMMA ConstantImages ==
    Zeroed \in Image /\ Default \in Image /\ None \notin Image
  <1>1. Zeroed \in Image /\ Default \in Image
    BY MaxOpsAssumption DEF Zeroed, Default, Image, Tags, Blank
  <1>2. None \notin Image
    <2>1. SUFFICES ASSUME None \in Image PROVE FALSE
      OBVIOUS
    <2>2. DOMAIN None = 1 .. NumSectors
      BY <2>1 DEF Image, Sectors
    <2>3. DOMAIN None = {}
      BY DEF None
    <2> QED
      BY <2>2, <2>3, NumSectorsAssumption
  <1> QED
    BY <1>1, <1>2

\* The invariant holds of a machine that has never been on.
LEMMA InitIInv == Init => IInv
  <1> SUFFICES ASSUME Init PROVE IInv
    OBVIOUS
  <1>1. at \in 0 .. NumSectors /\ ops \in 0 .. MaxOps /\ said \in Says
    BY MaxOpsAssumption, NumSectorsAssumption DEF Init, Says
  <1>2. TypeOK
    BY <1>1, ConstantImages DEF Init, TypeOK
  <1>3. DurableKept /\ SavedIsSaved /\ Prefix /\ Synced /\ Attached /\ Origin /\ Callers
    BY DEF Init, DurableKept, SavedIsSaved, Prefix, Synced, Attached, Origin, Callers
  <1> QED
    BY <1>2, <1>3 DEF IInv

\* The invariant survives turning the machine on.
LEMMA BootIInv ==
    ASSUME IInv, NEW found \in BOOLEAN, Boot(found)
    PROVE  IInv'
  <1> USE DEF IInv
  <1>1. TypeOK'
    <2>1. at' \in 0 .. NumSectors
      BY NumSectorsAssumption DEF Boot
    <2>2. table' \in Image /\ fs_booting' \in BOOLEAN
          /\ pc' \in {"idle", "loading"}
      BY ConstantImages DEF Boot
    <2> QED
      BY <2>1, <2>2 DEF Boot, TypeOK
  <1>2. pc = "off" /\ said = "nothing" /\ ~persistence_enabled'
        /\ (pc' = "idle" => ~fs_booting' /\ ~present')
        /\ pc' \in {"idle", "loading"} /\ at' = 0 /\ caller' = "boot"
        /\ (pc' = "idle" => table' = Default)
        /\ UNCHANGED <<header, disk, said, durable, held, hurt>>
    BY DEF Boot, Callers
  <1>3. DurableKept' /\ SavedIsSaved' /\ Prefix' /\ Synced' /\ Attached' /\ Callers'
    BY <1>2 DEF DurableKept, SavedIsSaved, Prefix, Synced, Attached, Callers
  <1>4. Origin'
    BY <1>2 DEF Origin
  <1> QED
    BY <1>1, <1>3, <1>4

\* The invariant survives the loss of power.
LEMMA PowerLossIInv ==
    ASSUME IInv, PowerLoss
    PROVE  IInv'
  BY ConstantImages
     DEF PowerLoss, IInv, TypeOK, DurableKept, SavedIsSaved, Prefix, Synced, Attached,
         Origin, Callers, Says

\* The invariant survives writing the header.
LEMMA SaveHeaderIInv ==
    ASSUME IInv, SaveHeader
    PROVE  IInv'
  BY NumSectorsAssumption
     DEF SaveHeader, history, IInv, TypeOK, DurableKept, SavedIsSaved, Prefix,
         Synced, Attached, Origin, Callers, Says, Sectors

\* Writing a sector extends the saved prefix; the last one completes the image.
LEMMA SaveSectorIInv ==
    ASSUME IInv, SaveSector
    PROVE  IInv'
  <1> USE DEF IInv
  <1>1. at \in Sectors /\ pc = "saving" /\ header /\ disk \in Image
        /\ table \in Image /\ table' = table /\ header' = header
    BY DEF SaveSector, TypeOK, Prefix, Sectors
  <1>2. disk' = [disk EXCEPT ![at] = table[at]] /\ disk' \in Image
    BY <1>1 DEF SaveSector, Image
  <1>3. \A s \in Sectors : s <= at => disk'[s] = table'[s]
    BY <1>1, <1>2 DEF Prefix, Image, Sectors
  <1>4. CASE at < NumSectors
    BY <1>1, <1>2, <1>3, <1>4, NumSectorsAssumption
       DEF SaveSector, More, TypeOK, DurableKept, SavedIsSaved, Prefix, Synced, Attached,
           Origin, Callers, Sectors
  <1>5. CASE at = NumSectors
    <2>1. disk' = table
      <3>1. \A s \in Sectors : disk'[s] = table[s]
        BY <1>1, <1>3, <1>5, NumSectorsAssumption DEF Sectors
      <3> QED
        BY <3>1, <1>1, <1>2, SameImage
    <2>2. said' \in Says /\ durable' = table /\ pc' = "idle"
          /\ persistence_enabled' = TRUE /\ at' = 0
      BY <1>5 DEF SaveSector, More, SaveSays, TypeOK, Says
    <2>3. at' \in 0 .. NumSectors
      BY <2>2, NumSectorsAssumption
    <2>4. /\ UNCHANGED <<header, present, table, caller, ops, held, hurt>>
          /\ fs_booting' = FALSE /\ failed' = FALSE
      <3>1. ~(at < NumSectors)
        BY <1>5, NumSectorsAssumption
      <3> QED
        BY <3>1, Zenon DEF SaveSector, More
    <2>5. TypeOK'
      BY <1>2, <2>2, <2>3, <2>4, <1>1 DEF TypeOK
    <2>6. DurableKept' /\ SavedIsSaved' /\ Prefix' /\ Synced' /\ Attached' /\ Callers'
      BY <1>1, <2>1, <2>2, <2>4
         DEF DurableKept, SavedIsSaved, Prefix, Synced, Attached, Callers
    <2>7. Origin'
      BY <1>1, <2>1, <2>2, <2>4 DEF Origin
    <2> QED
      BY <2>5, <2>6, <2>7
  <1> QED
    BY <1>1, <1>4, <1>5, NumSectorsAssumption DEF Sectors

\* The invariant survives a save that fails.
LEMMA SaveFailsIInv ==
    ASSUME IInv, SaveFails
    PROVE  IInv'
  <1> USE DEF IInv
  <1>1. said' \in Says \ {"saved", "enabled"} /\ at' \in 0 .. NumSectors
    BY NumSectorsAssumption DEF SaveFails, SaveSays, TypeOK, Callers, Says
  <1>2. TypeOK'
    BY <1>1 DEF SaveFails, TypeOK
  <1>3. DurableKept' /\ SavedIsSaved' /\ Prefix' /\ Synced' /\ Attached' /\ Callers'
    BY <1>1 DEF SaveFails, DurableKept, SavedIsSaved, Prefix, Synced, Attached, Callers
  <1>4. Origin'
    BY DEF SaveFails, Origin, TypeOK
  <1> QED
    BY <1>2, <1>3, <1>4

\* The invariant survives reading a valid header.
LEMMA LoadHeaderIInv ==
    ASSUME IInv, LoadHeader
    PROVE  IInv'
  BY NumSectorsAssumption
     DEF LoadHeader, history, IInv, TypeOK, DurableKept, SavedIsSaved, Prefix,
         Synced, Attached, Origin, Callers, Says, Sectors

\* Reading a sector extends the loaded prefix; the last one completes the table.
LEMMA LoadSectorIInv ==
    ASSUME IInv, LoadSector
    PROVE  IInv' /\ (pc' = "idle" => table' = disk)
  <1> USE DEF IInv
  <1>1. at \in Sectors /\ pc = "loading" /\ header /\ disk \in Image
        /\ table \in Image /\ disk' = disk /\ header' = header
    BY DEF LoadSector, More, TypeOK, Prefix, Sectors
  <1>2. table' = [table EXCEPT ![at] = disk[at]] /\ table' \in Image
    BY <1>1 DEF LoadSector, Read, Image
  <1>3. \A s \in Sectors : s <= at => disk'[s] = table'[s]
    BY <1>1, <1>2 DEF Prefix, Image, Sectors
  <1>4. disk = table => table' = table
    BY <1>1, <1>2 DEF Image
  <1>5. CASE at < NumSectors
    <2>1. TypeOK' /\ DurableKept' /\ SavedIsSaved' /\ Prefix' /\ Callers'
      BY <1>1, <1>2, <1>3, <1>5, NumSectorsAssumption
         DEF LoadSector, More, TypeOK, DurableKept, SavedIsSaved, Prefix, Callers,
             Sectors
    <2>2. Synced' /\ Attached' /\ Origin'
      BY <1>1, <1>4, <1>5 DEF LoadSector, More, Synced, Attached, Origin, TypeOK, Sectors
    <2> QED
      BY <1>1, <2>1, <2>2, <1>5 DEF LoadSector, More
  <1>6. CASE at = NumSectors
    <2>1. disk = table'
      <3>1. \A s \in Sectors : disk[s] = table'[s]
        BY <1>1, <1>3, <1>6, NumSectorsAssumption DEF Sectors
      <3> QED
        BY <3>1, <1>1, <1>2, SameImage
    <2>2. said' \in Says /\ durable' = table' /\ pc' = "idle" /\ at' = 0
      BY <1>6 DEF LoadSector, More, TypeOK, Says
    <2>3. at' \in 0 .. NumSectors
      BY <2>2, NumSectorsAssumption
    <2>4. TypeOK'
      BY <1>1, <1>2, <2>2, <2>3, <1>6, NumSectorsAssumption
         DEF LoadSector, More, TypeOK
    <2> QED
      BY <1>1, <2>1, <2>2, <2>4, <1>6
         DEF LoadSector, More, DurableKept, SavedIsSaved, Prefix, Synced, Attached, Origin,
             Callers
  <1> QED
    BY <1>1, <1>5, <1>6, NumSectorsAssumption DEF Sectors

\* The invariant survives a load that fails, and the default tree made then.
LEMMA LoadFailsIInv ==
    ASSUME IInv, NEW broken \in BOOLEAN, LoadFails(broken)
    PROVE  IInv'
  <1> USE DEF IInv
  <1>1. table' \in Image /\ ops' \in 0 .. MaxOps
    BY ChangedImages, ConstantImages, MaxOpsAssumption
       DEF LoadFails, TypeOK
  <1>2. TypeOK'
    BY <1>1, NumSectorsAssumption DEF LoadFails, TypeOK, Says
  <1>3. DurableKept' /\ SavedIsSaved' /\ Prefix' /\ Synced' /\ Attached' /\ Callers'
    BY DEF LoadFails, TypeOK, DurableKept, SavedIsSaved, Prefix, Synced, Attached, Callers
  <1>4. Origin'
    BY NumSectorsAssumption DEF LoadFails, TypeOK, Origin
  <1> QED
    BY <1>2, <1>3, <1>4

\* The invariant survives an operation, and the start of its save.
LEMMA OperationIInv ==
    ASSUME IInv, Operation
    PROVE  IInv'
  <1> USE DEF IInv
  <1>1. table' \in Image /\ table \in Image /\ ops' \in 0 .. MaxOps
    BY ChangedImages, MaxOpsAssumption DEF Operation, TypeOK
  <1>2. TypeOK'
    BY <1>1, NumSectorsAssumption DEF Operation, AutoSaves, StartSave, TypeOK, Says
  <1>3. DurableKept' /\ SavedIsSaved' /\ Prefix' /\ Attached' /\ Callers'
    BY DEF Operation, AutoSaves, StartSave, TypeOK, DurableKept, SavedIsSaved, Prefix,
           Attached, Callers
  <1>4. Synced'
    <2>1. CASE persistence_enabled /\ ~fs_booting
      BY <2>1 DEF Operation, AutoSaves, StartSave, Synced
    <2>2. CASE ~persistence_enabled
      BY <2>2 DEF Operation, AutoSaves, Synced
    <2>3. ~fs_booting
      BY DEF Operation, Callers
    <2> QED
      BY <2>1, <2>2, <2>3
  <1>5. Origin'
    BY DEF Operation, AutoSaves, StartSave, Origin
  <1> QED
    BY <1>2, <1>3, <1>4, <1>5

\* The invariant survives the three commands of progs/disk.c.
LEMMA CommandIInv ==
    ASSUME IInv, Save \/ InitDisk \/ Load
    PROVE  IInv'
  <1> USE DEF IInv
  <1>1. CASE \E m \in Says \ {"saved", "enabled"} :
                NoDisk(m)
    BY <1>1 DEF NoDisk, history, TypeOK, DurableKept, SavedIsSaved, Prefix,
                Synced, Attached, Origin, Callers
  <1>2. CASE pc = "idle" /\ (StartSave("save") \/ StartSave("initdisk"))
             /\ said' = "nothing" /\ persistence_enabled' \in BOOLEAN
             /\ (persistence_enabled => persistence_enabled')
             /\ UNCHANGED <<table, fs_booting, ops, held>>
    BY <1>2, NumSectorsAssumption
       DEF StartSave, TypeOK, DurableKept, SavedIsSaved, Prefix, Synced, Attached,
           Origin, Callers, Says
  <1>3. CASE /\ pc = "idle" /\ pc' = "loading" /\ at' = 0 /\ caller' = "load"
             /\ said' = "nothing"
             /\ UNCHANGED <<header, disk, present, table, persistence_enabled,
                            fs_booting, ops, history>>
    BY <1>3, NumSectorsAssumption
       DEF history, TypeOK, DurableKept, SavedIsSaved, Prefix, Synced, Attached, Origin,
           Callers, Says
  <1> QED
    BY <1>1, <1>2, <1>3 DEF Save, InitDisk, Load, Says, TypeOK

\* Every step preserves the invariant.
LEMMA NextIInv == IInv /\ [Next]_vars => IInv'
  <1>1. ASSUME IInv, UNCHANGED vars PROVE IInv'
    BY <1>1 DEF vars, machine, history, IInv, TypeOK, DurableKept, SavedIsSaved,
                Prefix, Synced, Attached, Origin, Callers
  <1> QED
    BY <1>1, BootIInv, PowerLossIInv, SaveHeaderIInv, SaveSectorIInv,
       SaveFailsIInv, LoadHeaderIInv, LoadSectorIInv, LoadFailsIInv,
       OperationIInv, CommandIInv
       DEF Next, Transfer

\* The invariant holds of every reachable state.
THEOREM Invariance == Spec => []IInv
  BY InitIInv, NextIInv, PTL DEF Spec

\* The machine's state and its history keep the shapes the code gives them.
THEOREM TypeCorrect == Spec => []TypeOK
  <1>1. IInv => TypeOK
    BY DEF IInv
  <1> QED
    BY <1>1, Invariance, PTL

\* Auto-save: at the prompt, with auto-save on and no failure since the last
\* whole transfer, the disk holds what the user has done; a table wholly saved
\* stays until it is overwritten; and what is said to be saved is.
THEOREM DiskCorrect == Spec => [](AutoSaveHolds /\ DurableKept /\ SavedIsSaved)
  <1>1. IInv => AutoSaveHolds /\ DurableKept /\ SavedIsSaved
    BY DEF IInv, AutoSaveHolds, Synced, Attached
  <1> QED
    BY <1>1, Invariance, PTL

\* Without a transfer cut short, only tables the operations made are worked on
\* or can be loaded.
THEOREM TablesAreHeld == Spec => []HeldUnlessHurt
  <1>1. IInv => HeldUnlessHurt
    BY DEF IInv, HeldUnlessHurt, Origin
  <1> QED
    BY <1>1, Invariance, PTL

\* A boot that loads the disk brings back the table last wholly saved, and only a
\* failed transfer makes it save the default tree over such a table.
THEOREM BootsRestore == Spec => BootRestores
  <1> DEFINE Boots == pc = "loading" /\ caller = "boot" /\ durable # None
             Restores == /\ pc' = "idle" => table' = durable
                         /\ pc' = "saving" => failed'
  <1>1. IInv /\ [Next]_vars => [Boots => Restores]_vars
    <2>1. SUFFICES ASSUME IInv, Next, Boots
                   PROVE  Restores
      OBVIOUS
    <2>2. ASSUME pc' = "idle"
          PROVE  table' = durable
      <3>1. LoadSector
        BY <2>1, <2>2 DEF Next, Boot, PowerLoss, Transfer, SaveHeader, SaveSector,
                    SaveFails, LoadHeader, LoadFails, Operation, Save, InitDisk,
                    Load, NoDisk
      <3> QED
        BY <2>1, <2>2, <3>1, LoadSectorIInv DEF IInv, DurableKept
    <2>3. ASSUME pc' = "saving"
          PROVE  failed'
      <3>1. PICK broken \in BOOLEAN : LoadFails(broken)
        BY <2>1, <2>3 DEF Next, Boot, PowerLoss, Transfer, SaveHeader, SaveSector,
                    SaveFails, LoadHeader, LoadSector, Operation, Save, InitDisk,
                    Load, NoDisk
      <3>2. header
        BY <2>1 DEF IInv, DurableKept
      <3> QED
        BY <3>1, <3>2 DEF LoadFails
    <2> QED
      BY <2>2, <2>3
  <1> QED
    BY <1>1, Invariance, PTL DEF Spec, BootRestores
=============================================================================
