----------------------------- MODULE Filesystem -----------------------------
(***************************************************************************)
(* The in-memory filesystem of kernel/filesystem.c: a table of             *)
(* FS_MAX_FILES nodes that describes one tree twice, by the index of each  *)
(* node's parent and by a full path cached in each node, and the current   *)
(* directory of the shell.  One action per filesystem operation the        *)
(* commands call.  The two operations that are not one uninterrupted       *)
(* update are several steps here:                                          *)
(*   - moving a directory rewrites the cached paths below it, node by node *)
(*     and recursively (rebuild_child_paths): variable frames is its       *)
(*     call stack;                                                         *)
(*   - copy, and write to a new file, create the file and then write it:   *)
(*     variable pending holds the second call.                             *)
(* What is saved to the disk, and when, is the subject of Persistence.     *)
(*                                                                         *)
(* A path is the sequence of its components; "/" is << >>.  A byte limit   *)
(* on the text of a path is a limit on the number of components.           *)
(***************************************************************************)
EXTENDS Integers, Sequences

CONSTANTS
    NumSlots,       \* FS_MAX_FILES: nodes in the table, the root included
    MaxFileSize,    \* FS_MAX_FILE_SIZE
    MaxDepth,       \* components fs_resolve_path keeps (16)
    MaxPath,        \* components the 128 bytes of FS_MAX_PATH hold
    Names,          \* the names of files and directories
    Progs, Home, Readme,    \* the names in the default tree
    Bytes,          \* what files are made of
    Texts,          \* what fs_write_file and fs_append_file are given
    LineTexts,      \* those that come from a line typed in the shell
    Welcome         \* the content of the file Readme

ASSUME SlotsAssumption == NumSlots \in Nat /\ NumSlots >= 4
ASSUME LimitsAssumption ==
    /\ MaxFileSize \in Nat
    /\ MaxDepth \in Nat /\ MaxDepth >= 2
    /\ MaxPath \in Nat /\ MaxPath >= MaxDepth
ASSUME NamesAssumption == {Progs, Home, Readme} \subseteq Names /\ Progs # Home
ASSUME TextsAssumption ==
    /\ Texts \subseteq Seq(Bytes) /\ LineTexts \subseteq Texts
    /\ \A t \in LineTexts : Len(t) <= MaxFileSize
    /\ Welcome \in Seq(Bytes) /\ Len(Welcome) <= MaxFileSize

VARIABLES
    nodes,          \* the table
    current_dir,    \* the shell's current directory
    frames,         \* the active calls of rebuild_child_paths, innermost last
    pending,        \* the fs_write_file call a command still has to make
    overrun,        \* a path outgrew rebuild_child_paths's buffer next
    rc              \* what the last operation returned: 0, or 1 for an error

vars == <<nodes, current_dir, frames, pending, overrun, rc>>

Slots == 0 .. NumSlots - 1
Root  == 0
Paths == UNION { [1 .. k -> Names] : k \in 0 .. MaxDepth }

Node == [used : BOOLEAN, type : {"FILE", "DIR"}, parent : Slots \cup {-1},
         name : Names \cup {"/"}, path : Seq(Names), data : Seq(Bytes)]

Frame == [dir : Slots, next : 0 .. NumSlots]

NoWrite == << >>

\* What a node of the zeroed table looks like.
Blank == [used |-> FALSE, type |-> "FILE", parent |-> 0,
          name |-> "/", path |-> << >>, data |-> << >>]

Made(t, p, n, path, data) ==
    [used |-> TRUE, type |-> t, parent |-> p,
     name |-> n, path |-> path, data |-> data]

\* The nodes create_default_tree makes in a zeroed table.
DefaultTree ==
    [i \in Slots |->
        CASE i = 0 -> Made("DIR", -1, "/", << >>, << >>)
          [] i = 1 -> Made("DIR", 0, Progs, <<Progs>>, << >>)
          [] i = 2 -> Made("DIR", 0, Home, <<Home>>, << >>)
          [] i = 3 -> Made("FILE", 2, Readme, <<Home, Readme>>, Welcome)
          [] OTHER -> Blank]

Init ==
    /\ nodes = DefaultTree
    /\ current_dir = << >>
    /\ frames = << >>
    /\ pending = NoWrite
    /\ overrun = FALSE
    /\ rc = 0

-----------------------------------------------------------------------------
(***************************************************************************)
(* Looking nodes up.                                                       *)
(***************************************************************************)

Dirname(p)  == SubSeq(p, 1, Len(p) - 1)
Filename(p) == p[Len(p)]

HasPath(i, p) == nodes[i].used /\ nodes[i].path = p

\* i is the node find_node returns for p, the first match in the table.
Finds(i, p) == HasPath(i, p) /\ \A k \in Slots : k < i => ~HasPath(k, p)

Exists(p) == \E i \in Slots : HasPath(i, p)

\* i is the node find_parent returns for p; the dirname of "/" is "/".
IsParent(i, p) ==
    /\ Finds(i, IF p = << >> THEN p ELSE Dirname(p))
    /\ nodes[i].type = "DIR"

HasParent(p) == \E i \in Slots : IsParent(i, p)

\* i is the slot allocate_node returns: the first free one, the root's excepted.
Allocates(i) ==
    /\ i # Root /\ ~nodes[i].used
    /\ \A k \in Slots : k # Root /\ k < i => nodes[k].used

Full == \A i \in Slots : i # Root => nodes[i].used

IsChild(i, d) == nodes[i].used /\ nodes[i].parent = d

-----------------------------------------------------------------------------
(***************************************************************************)
(* The operations.  Each starts only when no other is under way: the       *)
(* kernel runs one command at a time.                                      *)
(***************************************************************************)

Idle == frames = << >> /\ pending = NoWrite /\ ~overrun

\* Mutant of Refuse: the index find_node returned is passed on.
RefuseWithIndex ==
    /\ rc' = -1
    /\ UNCHANGED <<nodes, current_dir, frames, pending, overrun>>

\* The early returns: the operation prints why and changes nothing.
Refuse ==
    /\ rc' = 1
    /\ UNCHANGED <<nodes, current_dir, frames, pending, overrun>>

\* What fs_create_file and fs_create_dir have in common.
MayCreate(p) == ~Exists(p) /\ HasParent(p) /\ ~Full

CreateRefused(p) == ~MayCreate(p) /\ Refuse

\* Mutant of CreateNode: files are made with the type of directories.
CreateNodeDir(p, t) ==
    /\ MayCreate(p)
    /\ \E d, i \in Slots :
          /\ IsParent(d, p) /\ Allocates(i)
          /\ nodes' = [nodes EXCEPT ![i] =
                           Made("DIR", d, Filename(p), p, << >>)]

\* Mutant of CreateNode: the size the slot had before is not cleared.
CreateNodeKeepsSize(p, t) ==
    /\ MayCreate(p)
    /\ \E d, i \in Slots :
          /\ IsParent(d, p) /\ Allocates(i)
          /\ nodes' = [nodes EXCEPT ![i] =
                           Made(t, d, Filename(p), p, @.data)]

CreateNode(p, t) ==
    /\ MayCreate(p)
    /\ \E d, i \in Slots :
          /\ IsParent(d, p) /\ Allocates(i)
          /\ nodes' = [nodes EXCEPT ![i] =
                           Made(t, d, Filename(p), p, << >>)]

Touch(p) ==
    /\ Idle
    /\ \/ CreateRefused(p)
       \/ /\ CreateNode(p, "FILE")
          /\ rc' = 0
          /\ UNCHANGED <<current_dir, frames, pending, overrun>>

Mkdir(p) ==
    /\ Idle
    /\ \/ CreateRefused(p)
       \/ /\ CreateNode(p, "DIR")
          /\ rc' = 0
          /\ UNCHANGED <<current_dir, frames, pending, overrun>>

ChangeDir(p) ==
    /\ Idle
    /\ LET found == \E i \in Slots : Finds(i, p) /\ nodes[i].type = "DIR"
       IN  \/ ~found /\ Refuse
           \/ /\ found
              /\ current_dir' = p
              /\ rc' = 0
              /\ UNCHANGED <<nodes, frames, pending, overrun>>

\* A node whose used flag is cleared.  The other fields keep their values in
\* the code; of those, only data is ever seen again (see Made), so the model
\* forgets the rest.
Freed(n) == [Blank EXCEPT !.data = n.data]

\* Mutant of MayDelete: a directory with children can go.
MayDeleteFull(i) == i # Root

\* Neither the root nor a directory with something in it can go.
MayDelete(i) ==
    i # Root /\ (nodes[i].type = "DIR" => \A k \in Slots : ~IsChild(k, i))

Delete(p) ==
    /\ Idle
    /\ \/ ~(\E i \in Slots : Finds(i, p) /\ MayDelete(i)) /\ Refuse
       \/ \E i \in Slots :
             /\ Finds(i, p) /\ MayDelete(i)
             /\ nodes' = [nodes EXCEPT ![i] = Freed(@)]
             /\ rc' = 0
             /\ UNCHANGED <<current_dir, frames, pending, overrun>>

\* Mutant of MayMove: whether anything but the root is at the destination is
\* not looked at.
MayMoveOver(i, to) == i # Root /\ to # << >> /\ HasParent(to)

\* Neither the place of the destination nor the depth of what is moved is
\* looked at.
MayMove(i, to) == i # Root /\ ~Exists(to) /\ HasParent(to)

\* Mutants of Rebuild: the paths below are left alone, or only those in later
\* slots than the directory's are rewritten.
RebuildNothing(i) == << >>
RebuildLater(i) ==
    IF nodes[i].type = "DIR" THEN <<[dir |-> i, next |-> i + 1]>> ELSE << >>

\* A directory's descendants get their new paths from RebuildStep.
Rebuild(i) ==
    IF nodes[i].type = "DIR" THEN <<[dir |-> i, next |-> 0]>> ELSE << >>

Move(from, to) ==
    /\ Idle
    /\ \/ ~(\E i \in Slots : Finds(i, from) /\ MayMove(i, to)) /\ Refuse
       \/ \E i, d \in Slots :
             /\ Finds(i, from) /\ MayMove(i, to) /\ IsParent(d, to)
             /\ nodes' = [nodes EXCEPT ![i].parent = d,
                                       ![i].name = Filename(to),
                                       ![i].path = to]
             /\ frames' = Rebuild(i)
             /\ rc' = 0
             /\ UNCHANGED <<current_dir, pending, overrun>>

\* The next child the innermost call of rebuild_child_paths has to visit.
NextChild(f, j) ==
    /\ j >= f.next /\ IsChild(j, f.dir)
    /\ \A k \in Slots : f.next <= k /\ k < j => ~IsChild(k, f.dir)

\* Mutant of Fits: the terminating zero is counted twice.
FitsWithRoom(path) == Len(path) < MaxPath

\* path fits rebuild_child_paths's buffer next.
Fits(path) == Len(path) <= MaxPath

\* Mutant of Visited: the loop's index stays.
VisitedAgain(f, j) == [f EXCEPT !.next = j]

\* The call f once its loop is past child j.
Visited(f, j) == [f EXCEPT !.next = j + 1]

\* One turn of the loop of the innermost call, or its return.
RebuildStep ==
    /\ frames # << >> /\ ~overrun
    /\ LET top  == Len(frames)
           f    == frames[top]
           below == SubSeq(frames, 1, top - 1)
       IN  \/ /\ \A k \in Slots : k >= f.next => ~IsChild(k, f.dir)
              /\ frames' = below
              /\ UNCHANGED <<nodes, overrun>>
           \/ \E j \in Slots :
                 /\ NextChild(f, j)
                 /\ LET path == Append(nodes[f.dir].path, nodes[j].name)
                        here == Append(below, Visited(f, j))
                    IN  \/ /\ ~Fits(path)
                           /\ overrun' = TRUE
                           /\ UNCHANGED <<nodes, frames>>
                        \/ /\ Fits(path)
                           /\ nodes' = [nodes EXCEPT ![j].path = path]
                           /\ frames' = IF nodes[j].type = "DIR"
                                        THEN Append(here, [dir |-> j, next |-> 0])
                                        ELSE here
                           /\ UNCHANGED overrun
    /\ UNCHANGED <<current_dir, pending, rc>>

-----------------------------------------------------------------------------
(***************************************************************************)
(* Contents.                                                               *)
(***************************************************************************)

TooLarge(size) == size > MaxFileSize

\* i is the file fs_write_file and fs_append_file write for p.
FileAt(i, p) == Finds(i, p) /\ nodes[i].type = "FILE"

\* fs_write_file: the call made on its own and the one a command still owes.
StoreFile(p, text) ==
    /\ \/ /\ ~\E i \in Slots : FileAt(i, p)
          /\ rc' = 1
          /\ UNCHANGED nodes
       \/ \E i \in Slots :
             /\ FileAt(i, p)
             /\ \/ /\ TooLarge(Len(text))
                   /\ rc' = 1
                   /\ UNCHANGED nodes
                \/ /\ ~TooLarge(Len(text))
                   /\ nodes' = [nodes EXCEPT ![i].data = text]
                   /\ rc' = 0
    /\ UNCHANGED <<current_dir, frames, overrun>>

\* The kernel connector passes any caller's request on to fs_write_file; no
\* command calls fs_append_file yet.
WriteFile(p, text) == Idle /\ StoreFile(p, text) /\ UNCHANGED pending

AppendFile(p, text) ==
    /\ Idle
    /\ \/ ~(\E i \in Slots : FileAt(i, p)) /\ Refuse
       \/ \E i \in Slots :
             /\ FileAt(i, p)
             /\ \/ /\ TooLarge(Len(nodes[i].data) + Len(text))
                   /\ Refuse
                \/ /\ ~TooLarge(Len(nodes[i].data) + Len(text))
                   /\ nodes' = [nodes EXCEPT ![i].data = @ \o text]
                   /\ rc' = 0
                   /\ UNCHANGED <<current_dir, frames, pending, overrun>>

\* fs_copy: the destination is created, then written with what the source
\* holds by then.
Copy(from, to) ==
    /\ Idle
    /\ \/ ~(\E i \in Slots : FileAt(i, from)) /\ Refuse
       \/ \E i \in Slots :
             /\ FileAt(i, from)
             /\ \/ CreateRefused(to)
                \/ /\ CreateNode(to, "FILE")
                   /\ pending' = <<to, nodes'[i].data>>
                   /\ UNCHANGED <<current_dir, frames, overrun, rc>>

\* The write command: a missing file is created first.
Write(p, text) ==
    /\ Idle
    /\ \/ Exists(p) /\ StoreFile(p, text) /\ UNCHANGED pending
       \/ ~Exists(p) /\ CreateRefused(p)
       \/ /\ CreateNode(p, "FILE")
          /\ pending' = <<p, text>>
          /\ UNCHANGED <<current_dir, frames, overrun, rc>>

PendingWrite ==
    /\ pending # NoWrite
    /\ StoreFile(pending[1], pending[2])
    /\ pending' = NoWrite

-----------------------------------------------------------------------------
Command ==
    \/ \E p \in Paths : Touch(p) \/ Mkdir(p) \/ ChangeDir(p) \/ Delete(p)
    \/ \E p, q \in Paths : Move(p, q) \/ Copy(p, q)
    \/ \E p \in Paths, t \in Texts : WriteFile(p, t) \/ AppendFile(p, t)
    \/ \E p \in Paths, t \in LineTexts : Write(p, t)

Next == Command \/ RebuildStep \/ PendingWrite

Spec == Init /\ [][Next]_vars

\* The kernel is the only thread: a command that has begun goes on.
Fairness == WF_vars(RebuildStep) /\ WF_vars(PendingWrite)

FairSpec == Spec /\ Fairness
-----------------------------------------------------------------------------
(***************************************************************************)
(* What must hold.                                                         *)
(***************************************************************************)

\* The table, the call stack and the owed write have the shapes the code
\* gives them; an owed write names a path the command resolved.
TypeOK ==
    /\ nodes \in [Slots -> Node]
    /\ current_dir \in Seq(Names)
    /\ frames \in Seq(Frame)
    /\ pending = NoWrite \/ pending \in Seq(Names) \X Seq(Bytes)
    /\ overrun \in BOOLEAN
    /\ rc \in {0, 1}

InUse(i) == nodes[i].used

\* The parent index of every node but the root leads to a directory in use:
\* slots are reused, so a child left behind would be adopted by a stranger.
ParentsOK ==
    \A i \in Slots \ {Root} : InUse(i) =>
        /\ nodes[i].parent \in Slots
        /\ InUse(nodes[i].parent)
        /\ nodes[nodes[i].parent].type = "DIR"

\* i's cached path is one a call of rebuild_child_paths has still to rewrite.
Stale(i) ==
    \E k \in 1 .. Len(frames) :
        frames[k].dir = nodes[i].parent /\ i >= frames[k].next

\* A cached path is the parent's path and the node's own name, except for the
\* nodes that the running rebuild_child_paths has not reached yet.
PathsOK ==
    \A i \in Slots \ {Root} : InUse(i) /\ ~Stale(i) =>
        nodes[i].path = Append(nodes[nodes[i].parent].path, nodes[i].name)

\* The two descriptions of the tree, by parent index and by cached path, are of
\* one tree after every step of every command, a rebuild's own included.
TreeConsistent == ParentsOK /\ PathsOK

\* No directory lists the same name twice, whatever was created, copied or
\* moved into it: fs_create_file and fs_move only look for the path.
SiblingsDistinct ==
    \A i, j \in Slots \ {Root} :
        InUse(i) /\ InUse(j) /\ nodes[i].parent = nodes[j].parent
            /\ nodes[i].name = nodes[j].name => i = j

Settled == frames = << >> /\ ~overrun

\* What fs_list_dir prints of a directory, found by parent index, is what
\* find_node finds below the directory's path, found by cached path; and no
\* two nodes answer to one path.
ListingAgrees ==
    Settled =>
        /\ \A i, j \in Slots :
              InUse(i) /\ InUse(j) /\ nodes[i].path = nodes[j].path => i = j
        /\ \A d \in Slots, n \in Names :
              InUse(d) /\ nodes[d].type = "DIR" =>
                  ((\E i \in Slots : IsChild(i, d) /\ nodes[i].name = n)
                      <=> Exists(Append(nodes[d].path, n)))

\* q is the path of something above what p is the path of.
Below(p, q) == Len(q) < Len(p) /\ \A k \in 1 .. Len(q) : p[k] = q[k]

\* Once the shell's current directory was deleted or moved away, whatever was
\* made since, there is nothing below the path it kept: a relative command
\* finds no node in a directory that is no longer there.
StrandedEmpty ==
    Settled /\ ~(\E d \in Slots : HasPath(d, current_dir) /\ nodes[d].type = "DIR")
        => \A i \in Slots : InUse(i) => ~Below(nodes[i].path, current_dir)

\* For each slot the one k steps above it, or the root once that is met.
Ancestor[k \in Nat] ==
    [i \in Slots |->
        IF k = 0 \/ i = Root THEN i ELSE Ancestor[k - 1][nodes[i].parent]]

Rooted(i) == Ancestor[NumSlots][i] = Root

\* The tree has a cycle, or a node whose path the buffer next cannot hold.
Unnameable == \E i \in Slots : InUse(i) /\ Ancestor[MaxPath][i] # Root

\* Once a command has returned every node in use hangs off the root: nothing
\* is out of reach in a cycle of directories.
Reachable == Settled => \A i \in Slots : InUse(i) => Rooted(i)

\* The owed write of copy and write always finds the file just created.
OwedWriteFindsFile ==
    pending # NoWrite => \E i \in Slots : FileAt(i, pending[1])

\* rebuild_child_paths outgrows its buffer only for a directory that was moved
\* below itself or too deep for FS_MAX_PATH: no other move goes wrong.
OverrunCause == overrun => Unnameable

\* "move or rename a file/folder" (progs/programs.c:65), whichever folder and
\* wherever to: the paths below it can always be rewritten.
MovesEveryFolder == ~overrun

\* rebuild_child_paths returns, with every path rewritten, whenever each node
\* can be named: no such tree makes it loop or recurse for ever.
RebuildReturns == (frames # << >> /\ ~Unnameable) ~> Settled
=============================================================================
