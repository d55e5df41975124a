------------------------------ MODULE FileTree ------------------------------
(***************************************************************************)
(* What the filesystem commands promise: a finite map from paths to        *)
(* entries, on which every command acts in one step, all or nothing.       *)
(* Filesystem, with its table of nodes, parent indices, cached paths and   *)
(* two-call commands, implements it (MCFileTree).                          *)
(*                                                                         *)
(* The promise has a hole, which this specification states rather than     *)
(* hides: moving a directory below itself or too deep never returns        *)
(* (variable lost).                                                        *)
(***************************************************************************)
EXTENDS Integers, Sequences, FiniteSets

CONSTANTS NumSlots, MaxFileSize, MaxDepth, MaxPath,
          Names, Progs, Home, Readme, Texts, LineTexts, Welcome

VARIABLES
    tree,           \* the entry at each path in use
    cwd,            \* the current directory
    lost,           \* a move that cannot return is under way
    rc              \* what the last command returned

vars == <<tree, cwd, lost, rc>>

Paths == UNION { [1 .. k -> Names] : k \in 0 .. MaxDepth }

Dir        == [type |-> "DIR", data |-> << >>]
File(text) == [type |-> "FILE", data |-> text]

Init ==
    /\ tree = [p \in {<< >>, <<Progs>>, <<Home>>, <<Home, Readme>>} |->
                  IF p = <<Home, Readme>> THEN File(Welcome) ELSE Dir]
    /\ cwd = << >>
    /\ lost = FALSE
    /\ rc = 0

Has(p)    == p \in DOMAIN tree
IsDir(p)  == Has(p) /\ tree[p].type = "DIR"
IsFile(p) == Has(p) /\ tree[p].type = "FILE"
Parent(p) == SubSeq(p, 1, Len(p) - 1)

Under(d, p) == Len(d) <= Len(p) /\ SubSeq(p, 1, Len(d)) = d

\* A command that fails changes nothing.
Fail == rc' = 1 /\ UNCHANGED <<tree, cwd, lost>>

Done(t) == tree' = t /\ rc' = 0 /\ UNCHANGED <<cwd, lost>>

With(p, e)     == [q \in DOMAIN tree \cup {p} |-> IF q = p THEN e ELSE tree[q]]
Restricted(ps) == [q \in ps |-> tree[q]]

MayCreate(p) ==
    /\ ~Has(p) /\ IsDir(Parent(p))
    /\ Cardinality(DOMAIN tree) < NumSlots

Create(p, e) == IF MayCreate(p) THEN Done(With(p, e)) ELSE Fail

ChangeDir(p) ==
    IF IsDir(p)
    THEN cwd' = p /\ rc' = 0 /\ UNCHANGED <<tree, lost>>
    ELSE Fail

Delete(p) ==
    IF Has(p) /\ p # << >> /\ \A q \in DOMAIN tree : Under(p, q) => q = p
    THEN Done(Restricted(DOMAIN tree \ {p}))
    ELSE Fail

\* Where the entry at q is after the move.
Moved(from, to, q) ==
    IF Under(from, q) THEN to \o SubSeq(q, Len(from) + 1, Len(q)) ELSE q

MayMove(from, to) ==
    Has(from) /\ from # << >> /\ ~Has(to) /\ IsDir(Parent(to))

Move(from, to) ==
    /\ MayMove(from, to) /\ ~Under(from, to)
    /\ tree' = [r \in {Moved(from, to, q) : q \in DOMAIN tree} |->
                   tree[CHOOSE q \in DOMAIN tree : Moved(from, to, q) = r]]
    /\ lost' = \E r \in DOMAIN tree' : Len(r) > MaxPath
    /\ rc' = 0 /\ UNCHANGED cwd

\* The directory is moved below itself: it is cut off from the root with all
\* it holds, and the move does not return.
MoveUnderItself(from, to) ==
    /\ MayMove(from, to) /\ Under(from, to)
    /\ tree' = Restricted({q \in DOMAIN tree : ~Under(from, q)})
    /\ lost' = TRUE
    /\ rc' = 0 /\ UNCHANGED cwd

MoveFails(from, to) == ~MayMove(from, to) /\ Fail

Copy(from, to) ==
    IF IsFile(from) THEN Create(to, tree[from]) ELSE Fail

\* The write command makes the file if there is none.
Write(p, text) ==
    IF IsFile(p) THEN Done(With(p, File(text))) ELSE Create(p, File(text))

WriteFile(p, text) ==
    IF IsFile(p) /\ Len(text) <= MaxFileSize
    THEN Done(With(p, File(text)))
    ELSE Fail

AppendFile(p, text) ==
    IF IsFile(p) /\ Len(tree[p].data) + Len(text) <= MaxFileSize
    THEN Done(With(p, File(tree[p].data \o text)))
    ELSE Fail

Next ==
    /\ ~lost
    /\ \/ \E p \in Paths : \/ Create(p, File(<< >>)) \/ Create(p, Dir)
                           \/ ChangeDir(p) \/ Delete(p)
       \/ \E p, q \in Paths : \/ Move(p, q) \/ MoveUnderItself(p, q)
                              \/ MoveFails(p, q) \/ Copy(p, q)
       \/ \E p \in Paths, t \in Texts : WriteFile(p, t) \/ AppendFile(p, t)
       \/ \E p \in Paths, t \in LineTexts : Write(p, t)

Spec == Init /\ [][Next]_vars
=============================================================================
