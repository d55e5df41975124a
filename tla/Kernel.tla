------------------------------- MODULE Kernel -------------------------------
(***************************************************************************)
(* The machine as kernel/kernel.c puts it together, from power on to the   *)
(* prompt and through the commands: fs_init loads the table or makes the   *)
(* default one, programs_init makes the help files that are missing, and   *)
(* then the shell runs one command at a time.  Every operation of          *)
(* Filesystem that changes the table is followed by the save of the whole  *)
(* table, and power can be lost between any two sectors of it.             *)
(*                                                                         *)
(* Persistence knows the table as numbered sectors and lets transfers fail.*)
(* Here the disk is attached and never fails, and a sector is a part of a  *)
(* node: what a cut save leaves is seen as files and folders.  Sectors are *)
(* written in order, and writing one that is on the disk already changes   *)
(* nothing, so a save writes the first part that differs, again and again. *)
(*                                                                         *)
(* Paths are resolved (Shell models how).                                  *)
(***************************************************************************)
EXTENDS Integers, Sequences

CONSTANTS
    NumSlots, MaxFileSize, MaxDepth, MaxPath, Names, Progs, Home, Readme,
    Bytes, Texts, LineTexts, Welcome,   \* as in Filesystem
    Helps,          \* names of the visible programs, in the table's order
    HelpText,       \* what programs_init writes to a help file
    MaxCommands,    \* bound of the model: commands typed
    MaxLosses       \* bound of the model: losses of power

\* As in Filesystem.
ASSUME TableAssumption ==
    /\ NumSlots \in Nat /\ NumSlots >= 4 /\ MaxDepth \in Nat /\ MaxFileSize \in Nat
    /\ {Progs, Home, Readme} \subseteq Names /\ Progs # Home
    /\ LineTexts \subseteq Seq(Bytes) /\ Welcome \in Seq(Bytes)

\* The longest text of programs[] has a few dozen bytes, and a file 4096.
ASSUME HelpsAssumption ==
    /\ Helps \in Seq(Names)
    /\ HelpText \in Seq(Bytes) /\ Len(HelpText) <= MaxFileSize

ASSUME BoundsAssumption == MaxCommands \in Nat /\ MaxLosses \in Nat

VARIABLES
    nodes, current_dir, frames, pending, overrun, rc,   \* as in Filesystem
    phase,          \* "off", fs_init's first save: "tree", programs_init:
                    \* "programs", shell_run: "prompt"
    next_program,   \* the index of programs_init's loop
    saving,         \* fs_disk_save is running
    header,         \* the disk starts with a valid header
    disk,           \* the nodes as the sectors after it hold them
    commands, losses

\* History, which no action depends on.
VARIABLES
    before,         \* the table when the operation now being done began
    moved,          \* that operation is a move
    loaded,         \* the table fs_init ended with, until the first command
    expected,       \* the tables the next boot may find; none if anything
    cut             \* power was lost while a help file was being made

FS == INSTANCE Filesystem

tree    == <<nodes, current_dir, frames, pending, overrun, rc>>
stored  == <<header, disk>>
history == <<before, moved, loaded, expected, cut>>
vars == <<tree, phase, next_program, saving, stored, commands, losses, history>>

NoTable == << >>
Zeroed  == [i \in FS!Slots |-> FS!Blank]

Init ==
    /\ nodes = Zeroed /\ current_dir = << >> /\ frames = << >>
    /\ pending = FS!NoWrite /\ overrun = FALSE /\ rc = 0
    /\ phase = "off" /\ next_program = 1 /\ saving = FALSE
    /\ header = FALSE /\ disk = Zeroed
    /\ commands = 0 /\ losses = 0
    /\ before = NoTable /\ moved = FALSE /\ loaded = NoTable
    /\ expected = {} /\ cut = FALSE

-----------------------------------------------------------------------------
(***************************************************************************)
(* Boot: kernel_init, up to the end of fs_init.                            *)
(***************************************************************************)

\* The table fs_disk_load reads.
Loaded == [i \in FS!Slots |-> IF disk[i].used THEN disk[i] ELSE FS!Freed(disk[i])]

Boot ==
    /\ phase = "off"
    /\ IF header
       THEN nodes' = Loaded /\ phase' = "programs"
       ELSE nodes' = FS!DefaultTree /\ phase' = "tree"
    /\ saving' = ~header
    /\ next_program' = 1
    /\ loaded' = nodes'
    /\ UNCHANGED <<current_dir, frames, pending, overrun, rc, stored,
                   commands, losses, before, moved, expected, cut>>

-----------------------------------------------------------------------------
(***************************************************************************)
(* fs_disk_save.                                                           *)
(***************************************************************************)

\* Mutant of Parts: used is the first field of the node.
UsedFirst == <<{"used"}, {"name"}, {"path"}, {"type", "parent"}, {"data"}>>

\* The parts of a node that a sector's end can separate, in their order.
Parts == <<{"name"}, {"path"}, {"type", "parent"}, {"data"}, {"used"}>>

\* The part differs between memory and disk.  The fields of a free slot are
\* those it had before, in memory as on the disk.
Differs(i, k) ==
    \E f \in Parts[k] :
        /\ nodes[i][f] # disk[i][f]
        /\ nodes[i].used \/ f = "used"

\* Part k of slot i is what the save has to write next.
IsNext(i, k) ==
    /\ Differs(i, k)
    /\ \A l \in 1 .. k - 1 : ~Differs(i, l)
    /\ \A j \in FS!Slots, l \in DOMAIN Parts : j < i => ~Differs(j, l)

Saved == \A i \in FS!Slots, k \in DOMAIN Parts : ~Differs(i, k)

\* The size and the first bytes share a sector; then the bytes that follow are
\* still those of whatever was stored there before.
Started(text) ==
    {t \in [1 .. Len(text) -> Bytes] : text # << >> => t[1] = text[1]}

\* What a sector's write makes of the content in slot i.
Written(i) ==
    IF disk[i].data \in Started(nodes[i].data)
    THEN {nodes[i].data}
    ELSE Started(nodes[i].data)

\* fs_disk_save, sector by sector, and its return.
SaveSector ==
    /\ saving
    /\ \/ /\ ~header
          /\ header' = TRUE
          /\ UNCHANGED <<disk, saving, phase>>
       \/ /\ header
          /\ \E i \in FS!Slots, k \in DOMAIN Parts :
                /\ IsNext(i, k)
                /\ \E text \in Written(i) :
                      disk' = [disk EXCEPT ![i] =
                          [f \in DOMAIN @ |-> IF f \notin Parts[k] THEN @[f]
                                              ELSE IF f = "data" THEN text
                                              ELSE nodes[i][f]]]
          /\ UNCHANGED <<header, saving, phase>>
       \/ /\ header /\ Saved
          /\ saving' = FALSE
          /\ phase' = IF phase = "tree" THEN "programs" ELSE phase
          /\ UNCHANGED stored
    /\ UNCHANGED <<tree, next_program, commands, losses, history>>

-----------------------------------------------------------------------------
(***************************************************************************)
(* Operations of the filesystem: each step on the table, and whether       *)
(* persist_if_enabled then saves it.                                       *)
(***************************************************************************)

Ready == FS!Idle /\ ~saving

\* A step that completes an operation ends in persist_if_enabled, unless the
\* operation was refused.  While copy, write or programs_init owe the write,
\* what is complete is the creation.
Persists ==
    saving' = (frames' = << >> /\ ~overrun' /\ (pending' # FS!NoWrite \/ rc' = 0))

\* The rest of fs_move, and the second operation of copy, write and
\* programs_init.
Continue ==
    /\ ~saving
    /\ \/ FS!RebuildStep /\ UNCHANGED <<before, moved>>
       \/ FS!PendingWrite /\ before' = nodes /\ moved' = FALSE
    /\ Persists
    /\ next_program' = next_program + IF phase = "programs" THEN 1 ELSE 0
    /\ UNCHANGED <<phase, stored, commands, losses, loaded, expected, cut>>

-----------------------------------------------------------------------------
(***************************************************************************)
(* programs_init.                                                          *)
(***************************************************************************)

HelpPath(k) == <<Progs, Helps[k]>>

\* Mutant of More: the loop ends one program early.
MoreButOne == next_program < Len(Helps)

More == next_program <= Len(Helps)

\* Mutant of Missing: what is there already is not looked at.
MissingAlways(p) == p \in Seq(Names)

Missing(p) == ~FS!Exists(p)

\* Mutant of Passed: the loop's index stays.
PassedAgain(k) == k

\* The index once a program was passed over.
Passed(k) == k + 1

\* The file is made, or refused; kc_fs_write is called either way.
MakeHelp(p) ==
    /\ pending' = <<p, HelpText>>
    /\ \/ /\ FS!CreateNode(p, "FILE")
          /\ rc' = 0 /\ saving' = TRUE
       \/ /\ ~FS!MayCreate(p)
          /\ rc' = 1
          /\ UNCHANGED <<nodes, saving>>
    /\ before' = nodes /\ moved' = FALSE
    /\ UNCHANGED <<current_dir, frames, overrun, next_program, phase>>

ProgramsInit ==
    /\ phase = "programs" /\ Ready
    /\ \/ /\ More /\ Missing(HelpPath(next_program))
          /\ MakeHelp(HelpPath(next_program))
       \/ /\ More /\ ~Missing(HelpPath(next_program))
          /\ next_program' = Passed(next_program)
          /\ UNCHANGED <<tree, saving, phase, before, moved>>
       \/ /\ ~More
          /\ phase' = "prompt"
          /\ UNCHANGED <<tree, saving, next_program, before, moved>>
    /\ UNCHANGED <<stored, commands, losses, loaded, expected, cut>>

-----------------------------------------------------------------------------
(***************************************************************************)
(* The commands.  args are the words after the command's name.             *)
(***************************************************************************)

\* Mutant of Usage: the command returns -1.
UsageMinusOne ==
    /\ rc' = -1
    /\ UNCHANGED <<nodes, current_dir, frames, pending, overrun>>

\* There are too few words: the usage is printed.
Usage == FS!Refuse

prog_touch(args) == IF Len(args) < 1 THEN Usage ELSE FS!Touch(args[1])
prog_mkdir(args) == IF Len(args) < 1 THEN Usage ELSE FS!Mkdir(args[1])
prog_del(args)   == IF Len(args) < 1 THEN Usage ELSE FS!Delete(args[1])
prog_move(args)  == IF Len(args) < 2 THEN Usage ELSE FS!Move(args[1], args[2])
prog_copy(args)  == IF Len(args) < 2 THEN Usage ELSE FS!Copy(args[1], args[2])

\* The words after the first are the text.
prog_write(args, text) ==
    IF Len(args) < 2 THEN Usage ELSE FS!Write(args[1], text)

\* These change the table, by one node each; a move changes more.
Change(args) ==
    \/ prog_touch(args) \/ prog_mkdir(args) \/ prog_del(args) \/ prog_copy(args)
    \/ \E text \in LineTexts : prog_write(args, text)

\* No path means the root.
prog_cd(args) == FS!ChangeDir(IF Len(args) < 1 THEN << >> ELSE args[1])

\* With the disk there the load succeeds.
prog_load ==
    /\ nodes' = Loaded /\ current_dir' = << >> /\ rc' = 0
    /\ UNCHANGED <<frames, pending, overrun>>

\* save and initdisk: the table is saved, whoever asks.
SaveCommand == rc' = 0 /\ UNCHANGED <<nodes, current_dir, frames, pending, overrun>>

Words == UNION { [1 .. k -> FS!Paths] : k \in 0 .. 2 }

\* shell_run calls a command.
Command ==
    /\ phase = "prompt" /\ Ready
    /\ commands < MaxCommands /\ commands' = commands + 1
    /\ \E args \in Words :
          \/ Change(args) /\ Persists /\ moved' = FALSE
          \/ prog_move(args) /\ Persists /\ moved' = TRUE
          \/ (prog_cd(args) \/ prog_load) /\ moved' = FALSE /\ UNCHANGED saving
          \/ SaveCommand /\ saving' = TRUE /\ moved' = FALSE
    /\ before' = nodes /\ loaded' = NoTable
    /\ UNCHANGED <<phase, next_program, stored, losses, expected, cut>>

-----------------------------------------------------------------------------
(***************************************************************************)
(* Loss of power.                                                          *)
(***************************************************************************)

\* The save rewrites a table of which nothing or more than one part of a node
\* in use may be there already: the first one, and that of a move.
Rewrites == phase = "tree" \/ moved

PowerLoss ==
    /\ phase # "off"
    /\ losses < MaxLosses /\ losses' = losses + 1
    /\ phase' = "off" /\ next_program' = 1 /\ saving' = FALSE
    /\ nodes' = Zeroed /\ current_dir' = << >> /\ frames' = << >>
    /\ pending' = FS!NoWrite /\ overrun' = FALSE /\ rc' = 0
    /\ expected' = CASE overrun \/ (saving /\ Rewrites) -> {}
                      [] frames # << >> /\ ~overrun        -> {before}
                      [] saving /\ ~Rewrites               -> {before, nodes}
                      [] OTHER                             -> {nodes}
    /\ cut' = (cut \/ (phase = "programs" /\ (saving \/ pending # FS!NoWrite)))
    /\ before' = NoTable /\ moved' = FALSE /\ loaded' = NoTable
    /\ UNCHANGED <<stored, commands>>

-----------------------------------------------------------------------------
Step == SaveSector \/ Continue \/ ProgramsInit

Next == Boot \/ Step \/ Command \/ PowerLoss

Spec == Init /\ [][Next]_vars

\* The kernel is the only thread and waits for nobody but the user.
FairSpec == Spec /\ WF_vars(Step)
-----------------------------------------------------------------------------
(***************************************************************************)
(* What must hold.                                                         *)
(***************************************************************************)

\* The machine's state has the shapes the code gives it, and a machine that is
\* off remembers nothing.
TypeOK ==
    /\ FS!TypeOK
    /\ phase \in {"off", "tree", "programs", "prompt"}
    /\ next_program \in 1 .. Len(Helps) + 1
    /\ saving \in BOOLEAN /\ header \in BOOLEAN
    /\ disk \in [FS!Slots -> FS!Node]
    /\ commands \in 0 .. MaxCommands /\ losses \in 0 .. MaxLosses
    /\ phase = "off" => nodes = Zeroed /\ FS!Idle /\ ~saving

\* t is e, but for the contents that the tables of E do not agree on.
SameTree(t, e, E) ==
    \A i \in FS!Slots :
        /\ t[i].used = e[i].used
        /\ t[i].used => /\ \A f \in {"name", "path", "type", "parent"} : t[i][f] = e[i][f]
                        /\ \/ t[i].data = e[i].data
                           \/ \E a, b \in E : a[i].data # b[i].data

\* Wherever the power goes, the next boot finds the files and folders as they
\* were before the operation that was cut short or as it made them, and only
\* the content of the file it wrote can be neither.  Not so for the very first
\* image and for a move, which rewrite more than one sector's worth.
CrashAtomic ==
    [][phase = "off" /\ header /\ expected # {}
          => \E e \in expected : SameTree(nodes', e, expected)]_vars

\* Making the help files leaves whatever the boot found as it was, and so a
\* file of the user's that has a program's name.
BootKeeps ==
    loaded # NoTable => \A i \in FS!Slots : loaded[i].used => nodes[i] = loaded[i]

\* When the first prompt appears every program has its help file, unless there
\* is no room for it or no folder; and it is whole unless somebody changed it
\* or the power was lost while it was being made.
HelpsReady ==
    phase = "prompt" /\ loaded # NoTable =>
        \A k \in DOMAIN Helps :
            /\ FS!Exists(HelpPath(k)) \/ FS!Full \/ ~FS!HasParent(HelpPath(k))
            /\ commands = 0 /\ ~cut =>
                  \A i \in FS!Slots :
                      FS!HasPath(i, HelpPath(k)) => nodes[i].data = HelpText

\* After every boot and every command the prompt comes back, unless the power
\* is lost or a move outgrows its buffer.
PromptReturns ==
    phase # "off" ~> phase = "off" \/ overrun \/ (phase = "prompt" /\ Ready)
=============================================================================
