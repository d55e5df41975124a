---------------------------- MODULE Persistence ----------------------------
(***************************************************************************)
(* How the table of nodes gets to the disk and back: fs_init, fs_disk_save,*)
(* fs_disk_load, fs_disk_format and persist_if_enabled of                  *)
(* kernel/filesystem.c, and the save, load and initdisk commands of        *)
(* progs/disk.c, with the machine losing power between any two sectors     *)
(* and any sector's transfer failing.                                      *)
(*                                                                         *)
(* The image of the table is NumSectors sectors.  What a sector holds is   *)
(* the number of the operation that last changed it: 0 for the default     *)
(* tree, Blank for bytes that never were part of a table.  A disk is a     *)
(* header, valid or not, and the sectors after it.                         *)
(*                                                                         *)
(* The disk driver is taken at its word here: a transfer it reports done   *)
(* is done, one it reports failed left the sector alone.                   *)
(***************************************************************************)
EXTENDS Integers

CONSTANTS
    NumSectors,     \* FS_DISK_DATA_SECTORS
    MaxOps          \* bound of the model: operations that change the table

ASSUME NumSectorsAssumption == NumSectors \in Nat \ {0}
ASSUME MaxOpsAssumption == MaxOps \in Nat

VARIABLES
    header,         \* the disk starts with a valid plDOS header
    disk,           \* its data sectors
    present,        \* has_disk, found by disk_init at boot
    table,          \* nodes
    persistence_enabled,
    fs_booting,
    pc,             \* "off", "idle", "saving" or "loading"
    at,             \* the sector to transfer next, 0 for the header
    caller,         \* who is saving or loading
    said,           \* what save, load or initdisk printed last
    ops             \* operations so far

\* History, which no action depends on.
VARIABLES
    durable,        \* the table last wholly saved or loaded, if the disk
                    \* still has it
    held,           \* the tables the machine had between two operations
    failed,         \* a transfer failed since the last whole save or load
    hurt            \* a save was cut short after its header, or a load after
                    \* its first data sector

machine == <<header, disk, present, table, persistence_enabled, fs_booting,
             pc, at, caller, said, ops>>
history == <<durable, held, failed, hurt>>
vars == <<machine, history>>

Sectors == 1 .. NumSectors
Blank   == -1
Tags    == Blank .. MaxOps
Image   == [Sectors -> Tags]
Zeroed  == [s \in Sectors |-> Blank]
Default == [s \in Sectors |-> 0]        \* the tree of create_default_tree
None    == << >>

Init ==
    /\ header = FALSE /\ disk = Zeroed
    /\ present = FALSE
    /\ table = Zeroed
    /\ persistence_enabled = FALSE /\ fs_booting = FALSE
    /\ pc = "off" /\ at = 0 /\ caller = "boot"
    /\ said = "nothing" /\ ops = 0
    /\ durable = None /\ held = {Default} /\ failed = FALSE /\ hurt = FALSE

\* Mutant of More: the loop also makes the turn after the last sector.
OneMore == at <= NumSectors

\* There are sectors after this one.
More == at < NumSectors

\* The table with some of its sectors changed by one operation.
Changed(t) ==
    {[s \in Sectors |-> IF s \in S THEN ops + 1 ELSE t[s]] :
        S \in SUBSET Sectors \ {{}}}

-----------------------------------------------------------------------------
(***************************************************************************)
(* Boot and loss of power.                                                 *)
(***************************************************************************)

\* fs_init, up to the reading of the header; found is what disk_init saw.
Boot(found) ==
    /\ pc = "off"
    /\ present' = found
    /\ persistence_enabled' = FALSE
    /\ caller' = "boot" /\ at' = 0
    /\ failed' = FALSE
    /\ IF found
       THEN pc' = "loading" /\ fs_booting' = TRUE /\ table' = Zeroed
       ELSE pc' = "idle" /\ fs_booting' = FALSE /\ table' = Default
    /\ UNCHANGED <<header, disk, said, ops, durable, held, hurt>>

\* The machine stops wherever it is; only the disk is left.
PowerLoss ==
    /\ pc # "off"
    /\ pc' = "off"
    /\ table' = Zeroed /\ said' = "nothing"
    /\ hurt' = (hurt \/ (pc = "saving" /\ at >= 1))
    /\ UNCHANGED <<header, disk, present, persistence_enabled, fs_booting,
                   at, caller, ops, durable, held, failed>>

-----------------------------------------------------------------------------
(***************************************************************************)
(* fs_disk_save.                                                           *)
(***************************************************************************)
\* Mutant of StartSave: the old image is invalidated first.
StartSaveErasing(c) ==
    /\ pc' = "saving" /\ at' = 0 /\ caller' = c
    /\ header' = FALSE
    /\ UNCHANGED <<disk, present, durable, failed, hurt>>

StartSave(c) ==
    /\ pc' = "saving" /\ at' = 0 /\ caller' = c
    /\ UNCHANGED <<header, disk, present, durable, failed, hurt>>

\* Mutant of SaveSays: the result is not looked at.
SaveSaysYes(ok) ==
    CASE caller = "save"     -> "saved"
      [] caller = "initdisk" -> "enabled"
      [] OTHER               -> said

\* What is printed when the save is over, by the command that asked for it.
SaveSays(ok) ==
    CASE caller = "save"     -> IF ok THEN "saved" ELSE "save_failed"
      [] caller = "initdisk" -> IF ok THEN "enabled"
                                ELSE "init_failed"
      [] OTHER               -> said

\* The header goes first, before any of the data it vouches for.
SaveHeader ==
    /\ pc = "saving" /\ at = 0
    /\ header' = TRUE
    /\ at' = 1
    /\ UNCHANGED <<disk, present, table, persistence_enabled, fs_booting, pc,
                   caller, said, ops, history>>

SaveSector ==
    /\ pc = "saving" /\ at \in Sectors
    /\ disk' = [disk EXCEPT ![at] = table[at]]
    /\ IF More
       THEN /\ at' = at + 1
            /\ durable' = None
            /\ UNCHANGED <<persistence_enabled, fs_booting, pc, said, failed>>
       ELSE /\ at' = 0
            /\ durable' = table /\ failed' = FALSE
            /\ persistence_enabled' = TRUE
            /\ fs_booting' = FALSE
            /\ pc' = "idle"
            /\ said' = SaveSays(TRUE)
    /\ UNCHANGED <<header, present, table, caller, ops, held, hurt>>

\* Mutant of SaveFails: the save starts again until it succeeds.
SaveRetries ==
    /\ pc = "saving"
    /\ at' = 0
    /\ failed' = TRUE
    /\ hurt' = (hurt \/ at >= 1)
    /\ UNCHANGED <<header, disk, present, table, persistence_enabled,
                   fs_booting, pc, said, caller, ops, durable, held>>

\* disk_write_sector fails.  persist_if_enabled and fs_init do not look.
SaveFails ==
    /\ pc = "saving"
    /\ pc' = "idle" /\ at' = 0
    /\ fs_booting' = FALSE
    /\ said' = SaveSays(FALSE)
    /\ failed' = TRUE
    /\ hurt' = (hurt \/ at >= 1)
    /\ UNCHANGED <<header, disk, present, table, persistence_enabled, caller,
                   ops, durable, held>>

-----------------------------------------------------------------------------
(***************************************************************************)
(* fs_disk_load, which overwrites the table sector by sector as it reads.  *)
(***************************************************************************)

\* Mutant of LoadHeader: the magic is not compared.
LoadAnyHeader ==
    /\ pc = "loading" /\ at = 0
    /\ at' = 1
    /\ UNCHANGED <<header, disk, present, table, persistence_enabled,
                   fs_booting, pc, caller, said, ops, history>>

\* The header is valid: the sectors after it are the image of a table.
LoadHeader ==
    /\ pc = "loading" /\ at = 0 /\ header
    /\ at' = 1
    /\ UNCHANGED <<header, disk, present, table, persistence_enabled,
                   fs_booting, pc, caller, said, ops, history>>

\* Mutant of Read: the offset into the table is not advanced.
ReadToStart(t, s) == [t EXCEPT ![1] = disk[s]]

\* The table once sector s has been read into it.
Read(t, s) == [t EXCEPT ![s] = disk[s]]

\* Once the table is complete it is saved automatically.
LoadSector ==
    /\ pc = "loading" /\ at \in Sectors
    /\ table' = Read(table, at)
    /\ IF More
       THEN /\ at' = at + 1
            /\ UNCHANGED <<persistence_enabled, fs_booting, pc, said, durable,
                           failed>>
       ELSE /\ at' = 0
            /\ durable' = table' /\ failed' = FALSE
            /\ persistence_enabled' = TRUE
            /\ fs_booting' = FALSE
            /\ pc' = "idle"
            /\ said' = IF caller = "load" THEN "loaded" ELSE said
    /\ UNCHANGED <<header, disk, present, caller, ops, held, hurt>>

\* There is no header, or disk_read_sector fails; broken tells which.  At boot
\* the default tree is then made and saved: over whatever was read, of which it
\* may leave everything as it is.
LoadFails(broken) ==
    /\ pc = "loading"
    /\ broken \/ (at = 0 /\ ~header)
    /\ failed' = (failed \/ broken)
    /\ hurt' = (hurt \/ at > 1)
    /\ at' = 0
    /\ \/ /\ caller = "load"
          /\ pc' = "idle"
          /\ said' = "no_filesystem"
          /\ UNCHANGED <<table, ops>>
       \/ /\ caller = "boot"
          /\ pc' = "saving"
          /\ \/ at <= 1 /\ table' = Default /\ UNCHANGED ops
             \/ at > 1 /\ UNCHANGED <<table, ops>>
             \/ /\ at > 1 /\ ops < MaxOps
                /\ table' \in Changed(table)
                /\ ops' = ops + 1
          /\ UNCHANGED said
    /\ UNCHANGED <<header, disk, present, persistence_enabled, fs_booting,
                   caller, durable, held>>

-----------------------------------------------------------------------------
(***************************************************************************)
(* What the user does.                                                     *)
(***************************************************************************)

\* Mutant of AutoSaves: only a booting machine saves.
SavesAtBoot == persistence_enabled /\ fs_booting

\* persist_if_enabled saves.
AutoSaves == persistence_enabled /\ ~fs_booting

\* Any filesystem operation that changes the table: it ends with
\* persist_if_enabled.
Operation ==
    /\ pc = "idle" /\ ops < MaxOps
    /\ table' \in Changed(table)
    /\ ops' = ops + 1
    /\ held' = IF table \in held THEN held \cup {table'} ELSE held
    /\ said' = "nothing"
    /\ IF AutoSaves
       THEN StartSave("auto")
       ELSE UNCHANGED <<header, disk, present, pc, at, caller, durable, failed,
                        hurt>>
    /\ UNCHANGED <<persistence_enabled, fs_booting>>

\* The commands when disk_init found no disk.
NoDisk(message) ==
    /\ pc = "idle" /\ ~present
    /\ said' = message
    /\ UNCHANGED <<header, disk, present, table, persistence_enabled,
                   fs_booting, pc, at, caller, ops, history>>

Save ==
    \/ NoDisk("save_failed")
    \/ /\ pc = "idle" /\ present
       /\ StartSave("save")
       /\ said' = "nothing"
       /\ UNCHANGED <<table, persistence_enabled, fs_booting, ops, held>>

\* fs_disk_format: auto-save is on before the first sector is written.
InitDisk ==
    \/ NoDisk("no_disk")
    \/ /\ pc = "idle" /\ present
       /\ StartSave("initdisk")
       /\ persistence_enabled' = TRUE
       /\ said' = "nothing"
       /\ UNCHANGED <<table, fs_booting, ops, held>>

Load ==
    \/ NoDisk("no_filesystem")
    \/ /\ pc = "idle" /\ present
       /\ pc' = "loading" /\ at' = 0 /\ caller' = "load" /\ said' = "nothing"
       /\ UNCHANGED <<header, disk, present, table, persistence_enabled,
                      fs_booting, ops, history>>

Transfer ==
    \/ SaveHeader \/ SaveSector \/ SaveFails
    \/ LoadHeader \/ LoadSector \/ \E broken \in BOOLEAN : LoadFails(broken)

Next ==
    \/ \E found \in BOOLEAN : Boot(found)
    \/ PowerLoss
    \/ Transfer
    \/ Operation \/ Save \/ InitDisk \/ Load

Spec == Init /\ [][Next]_vars

\* The driver's polling loops are bounded: a transfer begun is answered.
FairSpec == Spec /\ WF_vars(Transfer)
-----------------------------------------------------------------------------
(***************************************************************************)
(* What must hold.                                                         *)
(***************************************************************************)

Says == {"nothing", "saved", "save_failed", "enabled", "init_failed", "no_disk",
         "no_filesystem", "loaded"}

\* The machine's state and the history kept of it have the shapes the code
\* gives them; the sector to transfer next is one there is.
TypeOK ==
    /\ header \in BOOLEAN /\ disk \in Image
    /\ present \in BOOLEAN /\ table \in Image
    /\ persistence_enabled \in BOOLEAN /\ fs_booting \in BOOLEAN
    /\ pc \in {"off", "idle", "saving", "loading"}
    /\ at \in 0 .. NumSectors
    /\ caller \in {"boot", "auto", "save", "initdisk", "load"}
    /\ said \in Says
    /\ ops \in 0 .. MaxOps
    /\ durable = None \/ durable \in Image
    /\ held \subseteq Image
    /\ failed \in BOOLEAN /\ hurt \in BOOLEAN

\* With a disk attached auto-save is on, and whatever the user has done is on
\* the disk by the time the prompt is back, unless a transfer failed and nothing
\* has been saved or loaded since.
AutoSaveHolds ==
    pc = "idle" /\ present /\ ~failed =>
        persistence_enabled /\ header /\ disk = table

\* A table once wholly on the disk stays there, under its header, until the
\* first data sector of the next save: no boot, failed load, failed header or
\* loss of power harms it.
DurableKept == durable # None => header /\ disk = durable

\* As long as no save was cut short after its header, and no load after its
\* first data sector, the machine only works on tables its own operations made,
\* and only such a table is on a disk that can be loaded.
HeldUnlessHurt ==
    ~hurt => /\ pc = "idle" => table \in held
             /\ header /\ pc # "saving" => disk \in held

\* "Filesystem saved" and "Persistence enabled" are printed only of a table
\* that is on the disk, with auto-save on.
SavedIsSaved ==
    said \in {"saved", "enabled"} /\ pc = "idle" =>
        header /\ disk = table /\ persistence_enabled

\* A boot that loads the disk brings back, sector for sector, the table that
\* was last wholly saved before the machine stopped; and only a failed transfer
\* makes a boot go on to save the default tree over such a table.
BootRestores ==
    [][pc = "loading" /\ caller = "boot" /\ durable # None
         => /\ pc' = "idle" => table' = durable
            /\ pc' = "saving" => failed']_vars

\* A save or a load ends: the prompt comes back, or the power is lost.
TransfersEnd == pc \in {"saving", "loading"} ~> pc \in {"idle", "off"}

\* "Filesystem loaded" (progs/disk.c:69) is said of a filesystem: a table some
\* save was made from.
LoadedIsWhole == said = "loaded" => table \in held
=============================================================================
