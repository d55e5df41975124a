-------------------------- MODULE FilesystemProofs --------------------------
(***************************************************************************)
(* Theorems about Filesystem, for a table of any size, any names and any   *)
(* limits.                                                                 *)
(***************************************************************************)
EXTENDS Filesystem, SequenceTheorems, WellFoundedInduction, TLAPS

\* Slot 0 is the root from boot on: no command deletes, moves or renames it.
RootOK ==
    /\ InUse(Root) /\ nodes[Root].type = "DIR"
    /\ nodes[Root].parent = -1 /\ nodes[Root].path = << >>

\* No file is longer than the data array of its node.
SizesOK == \A i \in Slots : Len(nodes[i].data) <= MaxFileSize

(***************************************************************************)
(* The inductive invariant.  PathsOK and SiblingsDistinct need each other: *)
(* a name that is new as a path is new in its directory only if the cached *)
(* paths can be trusted.  FramesOK says what the call stack may hold, and  *)
(* OneAtATime that a rebuild and an owed write never coexist.              *)
(***************************************************************************)
FramesOK ==
    \A k \in 1 .. Len(frames) :
        InUse(frames[k].dir) /\ nodes[frames[k].dir].type = "DIR"

OneAtATime == frames # << >> => pending = NoWrite

\* "/" is the name of the root only.
NamesOK == \A i \in Slots \ {Root} : InUse(i) => nodes[i].name \in Names

Tree == /\ nodes \in [Slots -> Node] /\ NamesOK
        /\ RootOK /\ ParentsOK /\ PathsOK /\ SiblingsDistinct /\ SizesOK

IInv == /\ TypeOK /\ Tree /\ FramesOK /\ OneAtATime /\ OwedWriteFindsFile

-----------------------------------------------------------------------------
(***************************************************************************)
(* Paths.                                                                  *)
(***************************************************************************)
\* The paths fs_resolve_path can produce are sequences of names.
LEMMA PathsAreSeqs == Paths \subseteq Seq(Names)
<1>1. MaxDepth \in Nat
  BY LimitsAssumption
<1>2. Seq(Names) = UNION {[1 .. n -> Names] : n \in Nat}
  BY SeqDef
<1> QED BY <1>1, <1>2 DEF Paths

\* A path but "/" is its dirname with its filename appended.
LEMMA PathParts ==
  ASSUME NEW p \in Seq(Names), p # << >>
  PROVE  /\ Dirname(p) \in Seq(Names)
         /\ Filename(p) \in Names
         /\ p = Append(Dirname(p), Filename(p))
<1>1. PICK s \in Seq(Names), n \in Names : p = Append(s, n)
  BY SequenceEmptyOrAppend
<1>2. Len(p) = Len(s) + 1 /\ Len(s) \in Nat
  BY <1>1, AppendProperties, LenProperties
<1>3. Filename(p) = n
  BY <1>1, <1>2, AppendProperties DEF Filename
<1>4. Dirname(p) = s
  <2>1. Dirname(p) = SubSeq(p, 1, Len(s))
    BY <1>2 DEF Dirname
  <2>2. \A i \in 1 .. Len(s) : p[i] = s[i] /\ p[i] \in Names
    BY <1>1, <1>2, AppendProperties, ElementOfSeq
  <2>3. /\ SubSeq(p, 1, Len(s)) \in Seq(Names)
        /\ Len(SubSeq(p, 1, Len(s))) = Len(s)
        /\ \A i \in 1 .. Len(s) : SubSeq(p, 1, Len(s))[i] = s[i]
    <3>1. /\ SubSeq(p, 1, Len(s)) \in Seq(Names)
          /\ Len(SubSeq(p, 1, Len(s))) = IF 1 <= Len(s) THEN Len(s) - 1 + 1 ELSE 0
          /\ \A i \in 1 .. Len(s) - 1 + 1 : SubSeq(p, 1, Len(s))[i] = p[1 + i - 1]
      BY <1>2, <2>2, SubSeqProperties
    <3> QED BY <1>2, <2>2, <3>1
  <2> QED BY <2>1, <2>3, SeqEqual
<1> QED BY <1>1, <1>3, <1>4

\* A path with a parent that is not in use is not "/", and its directory is the
\* parent's path.
LEMMA NewPath ==
  ASSUME Tree, NEW p \in Seq(Names), ~Exists(p), NEW d \in Slots, IsParent(d, p)
  PROVE  /\ p # << >>
         /\ InUse(d) /\ nodes[d].type = "DIR"
         /\ Filename(p) \in Names
         /\ nodes[d].path \in Seq(Names)
         /\ p = Append(nodes[d].path, Filename(p))
<1>1. Root \in Slots
  BY SlotsAssumption DEF Root, Slots
<1>2. p # << >>
  BY <1>1 DEF Tree, RootOK, Exists, HasPath, InUse
<1>3. InUse(d) /\ nodes[d].path = Dirname(p) /\ nodes[d].type = "DIR"
  BY <1>2 DEF IsParent, Finds, HasPath, InUse
<1> QED BY <1>2, <1>3, PathParts

-----------------------------------------------------------------------------
(***************************************************************************)
(* What each change to the table preserves.                                *)
(***************************************************************************)
\* Making a node in a free slot, for a path not in use, keeps the tree
\* consistent, and find_node then finds the node made.
LEMMA CreateTree ==
  ASSUME Tree, Settled, NEW p \in Seq(Names), NEW t \in {"FILE", "DIR"},
         CreateNode(p, t), frames' = frames
  PROVE  /\ Tree'
         /\ \E i \in Slots : /\ ~InUse(i) /\ Finds(i, p)'
                             /\ nodes'[i].type = t /\ nodes'[i].data = << >>
                             /\ \A k \in Slots : k # i => nodes'[k] = nodes[k]
<1>1. ~Exists(p)
  BY DEF CreateNode, MayCreate
<1>2. PICK d, i \in Slots :
        /\ IsParent(d, p) /\ Allocates(i)
        /\ nodes' = [nodes EXCEPT ![i] = Made(t, d, Filename(p), p, << >>)]
  BY DEF CreateNode
<1> DEFINE n == Filename(p)
           new == Made(t, d, n, p, << >>)
<1>3. /\ InUse(d) /\ nodes[d].type = "DIR" /\ n \in Names
      /\ p = Append(nodes[d].path, n)
  BY <1>1, <1>2, NewPath
<1>4. i # Root /\ ~InUse(i) /\ i # d
  BY <1>2, <1>3 DEF Allocates, InUse
<1>5. nodes \in [Slots -> Node] /\ Root \in Slots
  BY SlotsAssumption DEF Tree, Root, Slots
<1>6. /\ nodes'[i] = new
      /\ \A k \in Slots : k # i => nodes'[k] = nodes[k]
  BY <1>2, <1>5
<1> HIDE DEF n
<1>7. /\ new \in Node /\ new.used /\ new.type = t /\ new.parent = d
      /\ new.name = n /\ new.path = p /\ new.data = << >>
  BY <1>3 DEF Made, Node
<1> HIDE DEF new
<1>8. nodes' \in [Slots -> Node]
  BY <1>2, <1>5, <1>7 DEF new, n
<1>9. RootOK'
  BY <1>4, <1>5, <1>6 DEF Tree, RootOK, InUse
<1>10. ParentsOK' /\ NamesOK'
  BY <1>3, <1>4, <1>6, <1>7 DEF Tree, ParentsOK, NamesOK, InUse, n
<1>11. PathsOK'
  <2>1. \A j \in Slots \ {Root} : InUse(j) =>
           nodes[j].path = Append(nodes[nodes[j].parent].path, nodes[j].name)
    BY DEF Tree, PathsOK, Settled, Stale
  <2>2. ASSUME NEW j \in Slots \ {Root}, InUse(j)'
        PROVE  nodes'[j].path = Append(nodes'[nodes'[j].parent].path, nodes'[j].name)
    <3>1. CASE j = i
      BY <1>3, <1>4, <1>6, <1>7, <3>1
    <3>2. CASE j # i
      <4>1. InUse(j) /\ nodes[j].parent \in Slots /\ nodes[j].parent # i
        BY <1>4, <1>6, <2>2, <3>2 DEF Tree, ParentsOK, InUse
      <4> QED BY <1>6, <2>1, <3>2, <4>1
    <3> QED BY <3>1, <3>2
  <2> QED BY <2>2 DEF PathsOK
<1>12. SiblingsDistinct'
  <2>1. \A j \in Slots \ {Root} : InUse(j) =>
           nodes[j].path = Append(nodes[nodes[j].parent].path, nodes[j].name)
    BY DEF Tree, PathsOK, Settled, Stale
  <2>2. \A j \in Slots \ {Root} : InUse(j) =>
           ~(nodes[j].parent = d /\ nodes[j].name = n)
    BY <1>1, <1>3, <2>1 DEF Exists, HasPath, InUse
  <2> QED BY <1>6, <1>7, <2>2 DEF Tree, SiblingsDistinct, InUse
<1>13. SizesOK'
  BY <1>6, <1>7, EmptySeq, LimitsAssumption DEF Tree, SizesOK
<1>14. Finds(i, p)'
  BY <1>1, <1>6, <1>7 DEF Finds, HasPath, Exists, Slots
<1> QED BY <1>4, <1>6, <1>7, <1>8, <1>9, <1>10, <1>11, <1>12, <1>13, <1>14 DEF Tree

\* Freeing the slot of a node without children keeps the tree consistent.
LEMMA DeleteTree ==
  ASSUME Tree, NEW i \in Slots, i # Root, InUse(i),
         \A k \in Slots : ~(IsChild(k, i)),
         nodes' = [nodes EXCEPT ![i] = Freed(@)], frames' = frames
  PROVE  Tree'
<1>1. nodes \in [Slots -> Node]
  BY DEF Tree
<1>2. /\ nodes'[i] = Freed(nodes[i])
      /\ \A k \in Slots : k # i => nodes'[k] = nodes[k]
  BY <1>1
<1>3. /\ Freed(nodes[i]) \in Node /\ ~Freed(nodes[i]).used
      /\ Freed(nodes[i]).data = nodes[i].data
  <2>1. Root \in Slots /\ << >> \in Seq(Names)
    BY SlotsAssumption, EmptySeq DEF Root, Slots
  <2>2. nodes[i].data \in Seq(Bytes)
    BY <1>1 DEF Node
  <2> QED BY <2>1, <2>2 DEF Freed, Blank, Node, Root
<1>4. nodes' \in [Slots -> Node]
  BY <1>1, <1>3
<1>5. \A k \in Slots : InUse(k)' => k # i /\ InUse(k) /\ nodes'[k] = nodes[k]
  BY <1>2, <1>3 DEF InUse
<1>6. RootOK' /\ SizesOK'
  BY <1>2, <1>3, SlotsAssumption DEF Tree, RootOK, SizesOK, InUse, Root, Slots
<1>7. \A k \in Slots \ {Root} : InUse(k)' =>
         /\ nodes[k].parent \in Slots /\ nodes[k].parent # i
         /\ nodes'[nodes[k].parent] = nodes[nodes[k].parent]
  BY <1>2, <1>5 DEF Tree, ParentsOK, IsChild, InUse
<1>8. ParentsOK' /\ NamesOK'
  BY <1>5, <1>7 DEF Tree, ParentsOK, NamesOK, InUse
<1>9. PathsOK'
  <2>1. \A k \in Slots : InUse(k)' => (Stale(k)' <=> Stale(k))
    BY <1>5 DEF Stale
  <2> QED BY <1>5, <1>7, <2>1 DEF Tree, PathsOK
<1>10. SiblingsDistinct'
  BY <1>5 DEF Tree, SiblingsDistinct
<1> QED BY <1>4, <1>6, <1>8, <1>9, <1>10 DEF Tree

\* Only the content of i changes, to one that fits.
LEMMA StoreTree ==
  ASSUME Tree, NEW i \in Slots, NEW text \in Seq(Bytes),
         Len(text) <= MaxFileSize,
         nodes' = [nodes EXCEPT ![i].data = text], frames' = frames
  PROVE  Tree'
<1>1. nodes \in [Slots -> Node]
  BY DEF Tree
<1>2. nodes' \in [Slots -> Node]
  BY <1>1 DEF Node
<1>3. \A k \in Slots : /\ nodes'[k].used = nodes[k].used
                       /\ nodes'[k].type = nodes[k].type
                       /\ nodes'[k].parent = nodes[k].parent
                       /\ nodes'[k].name = nodes[k].name
                       /\ nodes'[k].path = nodes[k].path
                       /\ nodes'[k].data = IF k = i THEN text ELSE nodes[k].data
  BY <1>1 DEF Node
<1>4. RootOK' /\ NamesOK' /\ SizesOK'
  BY <1>3, SlotsAssumption DEF Tree, RootOK, NamesOK, SizesOK, InUse, Root, Slots
<1>6. ParentsOK'
  BY <1>3 DEF Tree, ParentsOK, InUse
<1>7. SiblingsDistinct'
  BY <1>3 DEF Tree, SiblingsDistinct, InUse
<1>5. PathsOK'
  <2>1. \A k \in Slots : Stale(k)' <=> Stale(k)
    BY <1>3 DEF Stale
  <2> QED BY <1>3, <2>1 DEF Tree, PathsOK, ParentsOK, InUse
<1> QED BY <1>2, <1>4, <1>5, <1>6, <1>7 DEF Tree

\* i is the one node that moved, to the name n in the directory d.
Moved(i, d, n, to) ==
    \A k \in Slots :
        /\ nodes'[k].used = nodes[k].used
        /\ nodes'[k].type = nodes[k].type
        /\ nodes'[k].parent = IF k = i THEN d ELSE nodes[k].parent
        /\ nodes'[k].name = IF k = i THEN n ELSE nodes[k].name
        /\ nodes'[k].path = IF k = i THEN to ELSE nodes[k].path
        /\ nodes'[k].data = nodes[k].data

\* The paths of i's children are still to be rewritten.
ToVisit(i) ==
    \A k \in Slots : nodes'[k].parent = i /\ nodes[i].type = "DIR" => Stale(k)'

\* A table that differs from the old one in the place, name and path of one
\* node, whose children, if any, are still to be visited.
LEMMA MovedTable ==
  ASSUME Tree, Settled, NEW i \in Slots, i # Root, InUse(i),
         NEW d \in Slots, InUse(d), nodes[d].type = "DIR",
         NEW n \in Names, NEW to, to = Append(nodes[d].path, n), ~Exists(to),
         Moved(i, d, n, to), ToVisit(i)
  PROVE  RootOK' /\ SizesOK' /\ ParentsOK' /\ NamesOK' /\ PathsOK' /\ SiblingsDistinct'
<1> USE DEF Moved
<1>1. \A j \in Slots \ {Root} : InUse(j) =>
         /\ nodes[j].parent \in Slots /\ InUse(nodes[j].parent)
         /\ nodes[nodes[j].parent].type = "DIR"
         /\ nodes[j].path = Append(nodes[nodes[j].parent].path, nodes[j].name)
         /\ nodes[j].name \in Names
  BY DEF Tree, ParentsOK, NamesOK, PathsOK, Settled, Stale
<1>2. RootOK' /\ SizesOK'
  <2>1. Root \in Slots
    BY SlotsAssumption DEF Root, Slots
  <2>2. RootOK'
    BY <2>1 DEF Tree, RootOK, InUse
  <2>3. SizesOK'
    BY DEF Tree, SizesOK
  <2> QED BY <2>2, <2>3
<1>3. ASSUME NEW j \in Slots \ {Root}, InUse(j)'
      PROVE  /\ nodes'[j].parent \in Slots /\ InUse(nodes[j].parent)'
             /\ nodes'[nodes'[j].parent].type = "DIR" /\ nodes'[j].name \in Names
  <2>1. InUse(j)
    BY <1>3 DEF InUse
  <2>2. CASE j = i
    BY <2>2 DEF InUse
  <2>3. CASE j # i
    <3>1. nodes'[j].parent = nodes[j].parent /\ nodes'[j].name = nodes[j].name
      BY <2>3
    <3> QED BY <1>1, <2>1, <3>1 DEF InUse
  <2> QED BY <2>2, <2>3
<1>4. ASSUME NEW j \in Slots \ {Root}, InUse(j)', ~Stale(j)'
      PROVE  nodes'[j].path = Append(nodes'[nodes'[j].parent].path, nodes'[j].name)
  <2>1. InUse(j)
    BY <1>4 DEF InUse
  <2>2. nodes'[j].parent # i
    BY <1>3, <1>4 DEF ToVisit
  <2>3. CASE j = i
    <3>1. d # i /\ nodes'[j].parent = d /\ nodes'[j].name = n /\ nodes'[j].path = to
      BY <2>2, <2>3
    <3>2. nodes'[d].path = nodes[d].path
      BY <3>1
    <3> QED BY <3>1, <3>2
  <2>4. CASE j # i
    <3>1. /\ nodes'[j].parent = nodes[j].parent /\ nodes'[j].name = nodes[j].name
          /\ nodes'[j].path = nodes[j].path /\ nodes[j].parent \in Slots
      BY <1>1, <2>1, <2>4
    <3>2. nodes'[nodes[j].parent].path = nodes[nodes[j].parent].path
      BY <2>2, <3>1
    <3> QED BY <1>1, <2>1, <3>1, <3>2
  <2> QED BY <2>3, <2>4
<1>5. SiblingsDistinct'
  <2>1. \A j \in Slots \ {Root} : InUse(j) =>
           ~(nodes[j].parent = d /\ nodes[j].name = n)
    BY <1>1 DEF Exists, HasPath, InUse
  <2> QED BY <2>1 DEF Tree, SiblingsDistinct, InUse
<1> QED BY <1>2, <1>3, <1>4, <1>5 DEF ParentsOK, NamesOK, PathsOK

\* Moving a node keeps the tree consistent: the paths that are wrong from now
\* on are those the new call of rebuild_child_paths has still to visit.
LEMMA MoveTree ==
  ASSUME Tree, Settled, NEW i \in Slots, i # Root, InUse(i),
         NEW to \in Seq(Names), ~Exists(to),
         NEW d \in Slots, IsParent(d, to),
         nodes' = [nodes EXCEPT ![i].parent = d, ![i].name = Filename(to),
                                ![i].path = to],
         frames' = IF nodes[i].type = "DIR"
                   THEN <<[dir |-> i, next |-> 0]>> ELSE << >>
  PROVE  Tree'
<1> DEFINE n == Filename(to)
<1>1. /\ InUse(d) /\ nodes[d].type = "DIR" /\ n \in Names
      /\ to = Append(nodes[d].path, n)
  BY NewPath
<1>2. nodes \in [Slots -> Node] /\ Root \in Slots
  BY SlotsAssumption DEF Tree, Root, Slots
<1>3. Moved(i, d, n, to)
  BY <1>2 DEF Node, Moved
<1> HIDE DEF n
<1>4. nodes' \in [Slots -> Node]
  <2>1. nodes'[i] \in Node
    <3> DEFINE r1 == [nodes[i] EXCEPT !.parent = d]
               r2 == [r1 EXCEPT !.name = n]
               r3 == [r2 EXCEPT !.path = to]
    <3>1. r1 \in Node
      BY <1>2 DEF Node
    <3> HIDE DEF r1
    <3>2. r2 \in Node
      BY <1>1, <3>1 DEF Node
    <3> HIDE DEF r2
    <3>3. r3 \in Node
      BY <3>2 DEF Node
    <3> QED BY <1>2, <3>3 DEF r1, r2, n
  <2>2. \A k \in Slots : nodes'[k] \in Node
    <3>1. \A k \in Slots : k # i => nodes'[k] = nodes[k] /\ nodes[k] \in Node
      BY <1>2
    <3> QED BY <2>1, <3>1, Zenon
  <2>3. nodes' = [k \in Slots |-> nodes'[k]]
    BY <1>2
  <2> QED BY <2>2, <2>3
<1>5. ToVisit(i)
  <2>1. SUFFICES ASSUME NEW k \in Slots, nodes'[k].parent = i, nodes[i].type = "DIR"
                 PROVE  Stale(k)'
    BY DEF ToVisit
  <2>2. /\ Len(frames') = 1 /\ frames'[1].dir = i /\ frames'[1].next = 0
    BY <2>1
  <2> QED BY <2>1, <2>2 DEF Stale, Slots
<1>6. RootOK' /\ SizesOK' /\ ParentsOK' /\ NamesOK' /\ PathsOK' /\ SiblingsDistinct'
  BY <1>1, <1>3, <1>5, MovedTable, Zenon
<1> QED BY <1>4, <1>6 DEF Tree

-----------------------------------------------------------------------------
(***************************************************************************)
(* The loop of rebuild_child_paths.                                        *)
(***************************************************************************)

\* The call stack without its innermost call.
LEMMA FramesBelow ==
  ASSUME frames \in Seq(Frame), frames # << >>
  PROVE  LET top == Len(frames) below == SubSeq(frames, 1, top - 1) IN
         /\ top \in Nat /\ top >= 1 /\ frames[top] \in Frame
         /\ below \in Seq(Frame) /\ Len(below) = top - 1
         /\ \A k \in 1 .. top - 1 : below[k] = frames[k]
<1> DEFINE top == Len(frames)
           below == SubSeq(frames, 1, top - 1)
<1>1. top \in Nat /\ top >= 1
  BY EmptySeq, LenProperties
<1>2. \A k \in 1 .. top : frames[k] \in Frame
  BY ElementOfSeq
<1>3. \A k \in 1 .. top - 1 : frames[k] \in Frame
  BY <1>1, <1>2
<1>4. /\ below \in Seq(Frame)
      /\ Len(below) = IF 1 <= top - 1 THEN top - 1 - 1 + 1 ELSE 0
      /\ \A k \in 1 .. top - 1 - 1 + 1 : below[k] = frames[1 + k - 1]
  BY <1>1, <1>3, SubSeqProperties
<1>5. Len(below) = top - 1
  <2> HIDE DEF below
  <2>1. CASE top = 1
    BY <1>4, <2>1
  <2>2. CASE top > 1
    <3> HIDE DEF top
    <3> QED BY <1>1, <1>4, <2>2
  <2> QED BY <1>1, <2>1, <2>2
<1>6. \A k \in 1 .. top - 1 : below[k] = frames[k]
  <2>1. SUFFICES ASSUME NEW k \in 1 .. top - 1 PROVE below[k] = frames[k]
    OBVIOUS
  <2>2. k \in 1 .. top - 1 - 1 + 1 /\ 1 + k - 1 = k
    BY <1>1, <2>1
  <2> QED BY <1>4, <2>2
<1> QED BY <1>1, <1>2, <1>4, <1>5, <1>6

\* The innermost call has visited every child: it returns.
LEMMA ReturnTree ==
  ASSUME Tree, frames \in Seq(Frame), frames # << >>,
         \A k \in Slots : k >= frames[Len(frames)].next
                             => ~IsChild(k, frames[Len(frames)].dir),
         frames' = SubSeq(frames, 1, Len(frames) - 1), nodes' = nodes
  PROVE  Tree'
<1>1. \A i \in Slots : InUse(i) /\ Stale(i) => Stale(i)'
  <2>1. SUFFICES ASSUME NEW i \in Slots, InUse(i), NEW k \in 1 .. Len(frames),
                        frames[k].dir = nodes[i].parent, i >= frames[k].next
                 PROVE  Stale(i)'
    BY DEF Stale
  <2>2. k # Len(frames)
    BY <2>1 DEF IsChild, InUse
  <2>3. k \in 1 .. Len(frames') /\ frames'[k] = frames[k]
    BY <2>1, <2>2, FramesBelow
  <2> QED BY <2>1, <2>3 DEF Stale
<1>2. PathsOK'
  BY <1>1 DEF Tree, PathsOK, InUse
<1> QED BY <1>2
    DEF Tree, RootOK, NamesOK, ParentsOK, SiblingsDistinct, SizesOK, InUse

\* The innermost call rewrites the path of its next child, and calls itself if
\* that is a directory.
LEMMA VisitTree ==
  ASSUME Tree, frames \in Seq(Frame), frames # << >>,
         NEW f, f = frames[Len(frames)], InUse(f.dir),
         NEW j \in Slots, NextChild(f, j),
         nodes' = [nodes EXCEPT ![j].path =
                       Append(nodes[f.dir].path, nodes[j].name)],
         frames' = LET here == Append(SubSeq(frames, 1, Len(frames) - 1),
                                      [f EXCEPT !.next = j + 1])
                   IN  IF nodes[j].type = "DIR"
                       THEN Append(here, [dir |-> j, next |-> 0]) ELSE here
  PROVE  /\ Tree' /\ frames' \in Seq(Frame)
         /\ \A k \in 1 .. Len(frames') :
               \/ k \in 1 .. Len(frames) /\ frames'[k].dir = frames[k].dir
               \/ frames'[k].dir = j /\ nodes[j].type = "DIR"
<1> DEFINE top   == Len(frames)
           below == SubSeq(frames, 1, top - 1)
           next  == [f EXCEPT !.next = j + 1]
           here  == Append(below, next)
           path  == Append(nodes[f.dir].path, nodes[j].name)
<1>1. /\ top \in Nat /\ top >= 1 /\ f \in Frame
      /\ below \in Seq(Frame) /\ Len(below) = top - 1
      /\ \A k \in 1 .. top - 1 : below[k] = frames[k]
  BY FramesBelow
<1>2. /\ nodes \in [Slots -> Node] /\ f.dir \in Slots /\ f.next \in 0 .. NumSlots
      /\ Root \in Slots
  <2>1. f.dir \in Slots /\ f.next \in 0 .. NumSlots
    BY <1>1 DEF Frame
  <2>2. Root \in Slots
    BY SlotsAssumption DEF Root, Slots
  <2> QED BY <2>1, <2>2 DEF Tree
<1>3. /\ InUse(j) /\ nodes[j].parent = f.dir /\ j >= f.next /\ j # Root
      /\ \A k \in Slots : f.next <= k /\ k < j => ~IsChild(k, f.dir)
  BY <1>2 DEF NextChild, IsChild, InUse, Tree, RootOK, Slots
<1>4. path \in Seq(Names)
  <2>1. nodes[j].name \in Names
    BY <1>3 DEF Tree, NamesOK
  <2>2. nodes[f.dir].path \in Seq(Names)
    BY <1>2 DEF Node
  <2> QED BY <2>1, <2>2, AppendProperties
<1>5. \A k \in Slots : /\ nodes'[k].used = nodes[k].used
                       /\ nodes'[k].type = nodes[k].type
                       /\ nodes'[k].parent = nodes[k].parent
                       /\ nodes'[k].name = nodes[k].name
                       /\ nodes'[k].path = IF k = j THEN path ELSE nodes[k].path
                       /\ nodes'[k].data = nodes[k].data
  BY <1>2 DEF Node
<1>6. nodes' \in [Slots -> Node]
  <2> HIDE DEF path
  <2>1. nodes'[j] \in Node
    <3> DEFINE r == nodes[j]
    <3>1. r \in Node /\ nodes'[j] = [r EXCEPT !.path = path]
      BY <1>2 DEF path
    <3> HIDE DEF r
    <3>2. [r EXCEPT !.path = path] \in Node
      BY <1>4, <3>1 DEF Node
    <3> QED BY <3>1, <3>2, Zenon
  <2>2. \A k \in Slots : k # j => nodes'[k] = nodes[k] /\ nodes[k] \in Node
    BY <1>2
  <2>3. \A k \in Slots : nodes'[k] \in Node
    BY <2>1, <2>2, Zenon
  <2>4. nodes' = [k \in Slots |-> nodes'[k]]
    BY <1>2
  <2> QED BY <2>3, <2>4
<1>7. next \in Frame /\ next.dir = f.dir /\ next.next = j + 1
  <2>1. j + 1 \in 0 .. NumSlots
    BY SlotsAssumption DEF Slots
  <2>2. /\ f \in [dir : Slots, next : 0 .. NumSlots]
        /\ next = [f EXCEPT !.next = j + 1]
    BY <1>1 DEF Frame
  <2> HIDE DEF next
  <2> QED BY <2>1, <2>2 DEF Frame
<1>8. [dir |-> j, next |-> 0] \in Frame
  BY SlotsAssumption DEF Frame, Slots
<1> HIDE DEF below, path, next
<1>9. /\ here \in Seq(Frame) /\ Len(here) = top
      /\ \A k \in 1 .. top - 1 : here[k] = frames[k]
      /\ here[top] = next
  BY <1>1, <1>7, AppendProperties
<1> HIDE DEF here, top
<1>10. frames' = IF nodes[j].type = "DIR"
                 THEN Append(here, [dir |-> j, next |-> 0]) ELSE here
  BY DEF here, below, next, top
<1>11. /\ frames' \in Seq(Frame) /\ Len(frames') >= top /\ Len(frames') \in Nat
       /\ \A k \in 1 .. top : frames'[k] = here[k]
       /\ nodes[j].type = "DIR" =>
             Len(frames') = top + 1 /\ frames'[top + 1] = [dir |-> j, next |-> 0]
  <2>1. CASE nodes[j].type # "DIR"
    BY <1>1, <1>9, <1>10, <2>1
  <2>2. CASE nodes[j].type = "DIR"
    <3> DEFINE new == [dir |-> j, next |-> 0]
    <3>1. new \in Frame /\ frames' = Append(here, new)
      BY <1>8, <1>10, <2>2
    <3> HIDE DEF new
    <3>2. /\ frames' \in Seq(Frame) /\ Len(frames') = top + 1
          /\ \A k \in 1 .. top : frames'[k] = here[k]
          /\ frames'[top + 1] = new
      <4>1. here \in Seq(Frame) /\ Len(here) = top
        BY <1>9
      <4>2. /\ Append(here, new) \in Seq(Frame)
            /\ Len(Append(here, new)) = Len(here) + 1
            /\ \A k \in 1 .. Len(here) : Append(here, new)[k] = here[k]
            /\ Append(here, new)[Len(here) + 1] = new
        BY <3>1, <4>1, AppendProperties
      <4> QED BY <3>1, <4>1, <4>2
    <3> QED BY <1>1, <3>2 DEF new
  <2> QED BY <2>1, <2>2
<1>12. /\ RootOK' /\ NamesOK' /\ ParentsOK' /\ SiblingsDistinct' /\ SizesOK'
  BY <1>2, <1>3, <1>5
  DEF Tree, RootOK, NamesOK, ParentsOK, SiblingsDistinct, SizesOK, InUse
<1>13. PathsOK'
  <2>1. SUFFICES ASSUME NEW m \in Slots \ {Root}, InUse(m)', ~Stale(m)'
                 PROVE  nodes'[m].path =
                          Append(nodes'[nodes'[m].parent].path, nodes'[m].name)
    BY DEF PathsOK
  <2>2. InUse(m) /\ nodes[m].parent \in Slots /\ nodes[nodes[m].parent].type = "DIR"
    BY <1>5, <2>1 DEF Tree, ParentsOK, InUse
  <2>3. nodes[m].parent # j
    <3>1. SUFFICES ASSUME nodes[m].parent = j PROVE FALSE
      OBVIOUS
    <3>2. /\ top + 1 \in 1 .. Len(frames')
          /\ frames'[top + 1].dir = j /\ frames'[top + 1].next = 0
      BY <1>1, <1>11, <2>2, <3>1
    <3> QED BY <1>5, <2>1, <3>1, <3>2 DEF Stale, Slots
  <2>4. CASE m = j
    <3>1. f.dir # j
      BY <1>3, <2>3, <2>4
    <3>2. nodes'[j].path = path /\ nodes'[f.dir].path = nodes[f.dir].path
      BY <1>2, <1>5, <3>1
    <3>3. nodes'[j].parent = f.dir /\ nodes'[j].name = nodes[j].name
      BY <1>3, <1>5
    <3> QED BY <2>4, <3>2, <3>3 DEF path
  <2>5. CASE m # j
    <3>1. ~Stale(m)
      <4>1. SUFFICES ASSUME NEW k \in 1 .. top, frames[k].dir = nodes[m].parent,
                            m >= frames[k].next
                     PROVE  FALSE
        BY DEF Stale, top
      <4>2. k \in 1 .. Len(frames') /\ frames'[k] = here[k]
        BY <1>1, <1>11, <4>1
      <4>3. CASE k < top
        <5>1. frames'[k] = frames[k]
          BY <1>1, <1>9, <4>1, <4>2, <4>3
        <5> QED BY <1>5, <2>1, <4>1, <4>2, <5>1 DEF Stale
      <4>4. CASE k = top
        <5>1. nodes[m].parent = f.dir /\ m >= f.next
          BY <4>1, <4>4 DEF top
        <5>2. m >= j
          BY <1>3, <2>2, <5>1 DEF IsChild, InUse, Slots
        <5>3. m >= next.next
          BY <1>7, <2>5, <5>2 DEF Slots
        <5>4. frames'[k].dir = nodes'[m].parent /\ m >= frames'[k].next
          BY <1>5, <1>7, <1>9, <4>2, <4>4, <5>1, <5>3
        <5> QED BY <2>1, <4>2, <5>4 DEF Stale
      <4> QED BY <1>1, <4>1, <4>3, <4>4
    <3>2. nodes[m].path = Append(nodes[nodes[m].parent].path, nodes[m].name)
      BY <2>2, <3>1 DEF Tree, PathsOK
    <3>3. nodes'[nodes[m].parent].path = nodes[nodes[m].parent].path
      BY <1>5, <2>2, <2>3
    <3> QED BY <1>5, <2>5, <3>2, <3>3
  <2> QED BY <2>4, <2>5
<1>14. ASSUME NEW k \in 1 .. Len(frames')
       PROVE  \/ k \in 1 .. Len(frames) /\ frames'[k].dir = frames[k].dir
              \/ frames'[k].dir = j /\ nodes[j].type = "DIR"
  <2>1. CASE k \in 1 .. top - 1
    BY <1>1, <1>9, <1>11, <2>1 DEF top
  <2>2. CASE k = top
    BY <1>1, <1>7, <1>9, <1>11, <2>2 DEF top
  <2>3. CASE k > top
    <3>1. nodes[j].type = "DIR"
      <4>1. SUFFICES ASSUME nodes[j].type # "DIR" PROVE FALSE
        OBVIOUS
      <4>2. Len(frames') = top
        BY <1>9, <1>10, <4>1
      <4> QED BY <1>1, <2>3, <4>2
    <3>2. k = top + 1
      BY <1>1, <1>11, <2>3, <3>1
    <3> QED BY <1>11, <3>1, <3>2
  <2> QED BY <1>1, <1>11, <2>1, <2>2, <2>3
<1> QED BY <1>6, <1>11, <1>12, <1>13, <1>14 DEF Tree

-----------------------------------------------------------------------------
(***************************************************************************)
(* The initial state and the actions.                                      *)
(***************************************************************************)
\* The invariant holds after create_default_tree.
LEMMA InitIInv == Init => IInv
<1> SUFFICES ASSUME Init PROVE IInv
  OBVIOUS
<1>1. /\ {0, 1, 2, 3} \subseteq Slots /\ Root = 0
      /\ \A i \in Slots : i \notin {0, 1, 2, 3} => i > 3
  BY SlotsAssumption DEF Slots, Root
<1>2. /\ << >> \in Seq(Names) /\ << >> \in Seq(Bytes) /\ << >> \in Seq(Frame)
      /\ Len(<< >>) = 0
  BY EmptySeq
<1>3. /\ <<Progs>> \in Seq(Names) /\ <<Home>> \in Seq(Names)
      /\ <<Home, Readme>> \in Seq(Names)
      /\ <<Progs>> = Append(<< >>, Progs) /\ <<Home>> = Append(<< >>, Home)
      /\ <<Home, Readme>> = Append(<<Home>>, Readme)
  BY NamesAssumption
<1>4. /\ nodes[0] = Made("DIR", -1, "/", << >>, << >>)
      /\ nodes[1] = Made("DIR", 0, Progs, <<Progs>>, << >>)
      /\ nodes[2] = Made("DIR", 0, Home, <<Home>>, << >>)
      /\ nodes[3] = Made("FILE", 2, Readme, <<Home, Readme>>, Welcome)
      /\ \A i \in Slots \ {0, 1, 2, 3} : nodes[i] = Blank
  BY <1>1 DEF Init, DefaultTree
<1>5. \A i \in Slots : nodes[i] \in Node
  <2>1. nodes[0] \in Node
    BY <1>2, <1>4 DEF Made, Node
  <2>2. nodes[1] \in Node /\ nodes[2] \in Node
    BY <1>1, <1>2, <1>3, <1>4, NamesAssumption DEF Made, Node
  <2>3. nodes[3] \in Node
    BY <1>1, <1>3, <1>4, NamesAssumption, TextsAssumption DEF Made, Node
  <2>4. Blank \in Node
    BY <1>1, <1>2 DEF Blank, Node
  <2> QED BY <1>4, <2>1, <2>2, <2>3, <2>4
<1>6. nodes \in [Slots -> Node]
  BY <1>5 DEF Init, DefaultTree
<1>7. \A i \in Slots : InUse(i) <=> i \in {0, 1, 2, 3}
  BY <1>1, <1>4 DEF Made, Blank, InUse
<1>8. RootOK
  BY <1>4, <1>7, <1>1 DEF RootOK, Made, Root
<1>9. NamesOK /\ ParentsOK /\ SiblingsDistinct
  BY <1>1, <1>4, <1>7, NamesAssumption
  DEF NamesOK, ParentsOK, SiblingsDistinct, Made
<1>10. PathsOK
  <2>1. /\ nodes[1].parent = 0 /\ nodes[1].path = Append(nodes[0].path, nodes[1].name)
        /\ nodes[2].parent = 0 /\ nodes[2].path = Append(nodes[0].path, nodes[2].name)
        /\ nodes[3].parent = 2 /\ nodes[3].path = Append(nodes[2].path, nodes[3].name)
    <3>1. /\ nodes[0].path = << >>
          /\ nodes[1].parent = 0 /\ nodes[1].name = Progs /\ nodes[1].path = <<Progs>>
          /\ nodes[2].parent = 0 /\ nodes[2].name = Home /\ nodes[2].path = <<Home>>
          /\ nodes[3].parent = 2 /\ nodes[3].name = Readme
          /\ nodes[3].path = <<Home, Readme>>
      BY <1>4 DEF Made
    <3> QED BY <1>3, <3>1, Zenon
  <2> QED BY <1>1, <1>7, <2>1, Zenon DEF PathsOK
<1>11. SizesOK
  BY <1>1, <1>2, <1>4, TextsAssumption, LimitsAssumption DEF SizesOK, Made, Blank
<1>12. TypeOK
  BY <1>2, <1>6 DEF Init, TypeOK
<1>13. FramesOK /\ OneAtATime /\ OwedWriteFindsFile
  BY <1>2 DEF Init, FramesOK, OneAtATime, OwedWriteFindsFile
<1> QED BY <1>6, <1>8, <1>9, <1>10, <1>11, <1>12, <1>13 DEF IInv, Tree

\* A step that leaves the table, the call stack and the owed write alone.
LEMMA SameTable ==
  ASSUME IInv, UNCHANGED <<nodes, frames, pending, overrun>>,
         current_dir' \in Seq(Names), rc' \in {0, 1}
  PROVE  IInv'
<1>1. TypeOK' /\ FramesOK' /\ OneAtATime' /\ OwedWriteFindsFile'
  BY DEF IInv, TypeOK, FramesOK, OneAtATime, OwedWriteFindsFile, FileAt,
         Finds, HasPath, InUse
<1>2. Tree'
  BY DEF IInv, Tree, RootOK, NamesOK, ParentsOK, PathsOK, Stale,
         SiblingsDistinct, SizesOK, InUse
<1> QED BY <1>1, <1>2 DEF IInv

\* A command that is over: the table may have changed, nothing else is going on.
LEMMA CommandOver ==
  ASSUME IInv, Tree', frames' = << >>, pending' = NoWrite,
         overrun' = overrun, current_dir' = current_dir, rc' \in {0, 1}
  PROVE  IInv'
<1>1. TypeOK'
  BY EmptySeq DEF IInv, TypeOK, Tree
<1>2. FramesOK' /\ OneAtATime' /\ OwedWriteFindsFile'
  BY EmptySeq DEF FramesOK, OneAtATime, OwedWriteFindsFile
<1> QED BY <1>1, <1>2 DEF IInv

\* An early return preserves the invariant.
LEMMA RefuseIInv == ASSUME IInv, Refuse PROVE IInv'
BY SameTable DEF Refuse, IInv, TypeOK

\* touch and mkdir preserve the invariant.
LEMMA CreateIInv ==
  ASSUME IInv, Idle, NEW p \in Paths, NEW t \in {"FILE", "DIR"},
         \/ CreateRefused(p)
         \/ CreateNode(p, t) /\ rc' = 0
               /\ UNCHANGED <<current_dir, frames, pending, overrun>>
  PROVE  IInv'
<1>1. CASE CreateRefused(p)
  BY <1>1, RefuseIInv DEF CreateRefused
<1>2. CASE CreateNode(p, t) /\ rc' = 0
             /\ UNCHANGED <<current_dir, frames, pending, overrun>>
  <2>1. p \in Seq(Names)
    BY PathsAreSeqs
  <2>2. Tree'
    BY <1>2, <2>1, CreateTree DEF IInv, Idle, Settled
  <2> QED BY <1>2, <2>2, CommandOver DEF Idle
<1> QED BY <1>1, <1>2

\* The file is created and the command still owes the write.
LEMMA CreateOwing ==
  ASSUME IInv, Idle, NEW p \in Paths, CreateNode(p, "FILE"),
         NEW text \in Seq(Bytes), pending' = <<p, text>>,
         UNCHANGED <<current_dir, frames, overrun, rc>>
  PROVE  IInv'
<1>1. p \in Seq(Names)
  BY PathsAreSeqs
<1>2. /\ Tree'
      /\ \E i \in Slots : Finds(i, p)' /\ nodes'[i].type = "FILE"
  BY <1>1, CreateTree DEF IInv, Idle, Settled
<1>3. /\ pending' \in Seq(Names) \X Seq(Bytes)
      /\ pending'[1] = p
  BY <1>1
<1>4. TypeOK'
  BY <1>2, <1>3 DEF IInv, TypeOK, Tree
<1>5. OwedWriteFindsFile'
  BY <1>2, <1>3 DEF OwedWriteFindsFile, FileAt, Finds, HasPath
<1>6. FramesOK' /\ OneAtATime'
  BY EmptySeq DEF Idle, FramesOK, OneAtATime
<1> QED BY <1>2, <1>4, <1>5, <1>6 DEF IInv

\* cd preserves the invariant.
LEMMA ChangeDirIInv ==
  ASSUME IInv, NEW p \in Paths, ChangeDir(p)
  PROVE  IInv'
<1>1. CASE Refuse
  BY <1>1, RefuseIInv
<1>2. CASE UNCHANGED <<nodes, frames, pending, overrun>> /\ current_dir' = p /\ rc' = 0
  BY <1>2, SameTable, PathsAreSeqs
<1> QED BY <1>1, <1>2 DEF ChangeDir

\* del preserves the invariant.
LEMMA DeleteIInv ==
  ASSUME IInv, NEW p \in Paths, Delete(p)
  PROVE  IInv'
<1>1. CASE Refuse
  BY <1>1, RefuseIInv
<1>2. ASSUME NEW i \in Slots, Finds(i, p), MayDelete(i),
             nodes' = [nodes EXCEPT ![i] = Freed(@)], rc' = 0,
             UNCHANGED <<current_dir, frames, pending, overrun>>
      PROVE  IInv'
  <2>1. InUse(i)
    BY <1>2 DEF Finds, HasPath, InUse
  <2>2. i # Root /\ \A k \in Slots : ~IsChild(k, i)
    BY <1>2, SlotsAssumption
    DEF MayDelete, IInv, Tree, ParentsOK, RootOK, IsChild, InUse, Root, Slots
  <2>3. Tree'
    BY <1>2, <2>1, <2>2, DeleteTree DEF IInv
  <2> QED BY <1>2, <2>3, CommandOver DEF Delete, Idle
<1> QED BY <1>1, <1>2 DEF Delete

\* move preserves the invariant, of a file and of a directory.
LEMMA MoveIInv ==
  ASSUME IInv, NEW p \in Paths, NEW q \in Paths, Move(p, q)
  PROVE  IInv'
<1>1. CASE Refuse
  BY <1>1, RefuseIInv
<1>2. ASSUME NEW i \in Slots, NEW d \in Slots,
             Finds(i, p), MayMove(i, q), IsParent(d, q),
             nodes' = [nodes EXCEPT ![i].parent = d, ![i].name = Filename(q),
                                    ![i].path = q],
             frames' = Rebuild(i),
             rc' = 0, UNCHANGED <<current_dir, pending, overrun>>
      PROVE  IInv'
  <2>1. /\ InUse(i) /\ Settled /\ pending = NoWrite /\ q \in Seq(Names)
        /\ i # Root /\ ~Exists(q)
    BY <1>2, PathsAreSeqs
    DEF MayMove, Finds, HasPath, InUse, Move, Idle, Settled
  <2>2. Tree'
    <3>1. Tree
      BY DEF IInv
    <3> QED BY <1>2, <2>1, <3>1, MoveTree DEF Rebuild
  <2>3. CASE nodes[i].type # "DIR"
    BY <1>2, <2>1, <2>2, <2>3, CommandOver DEF Rebuild
  <2>4. CASE nodes[i].type = "DIR"
    <3>1. frames' = <<[dir |-> i, next |-> 0]>>
      BY <1>2, <2>4 DEF Rebuild
    <3>2. [dir |-> i, next |-> 0] \in Frame
      BY SlotsAssumption DEF Frame
    <3>3. frames' \in Seq(Frame) /\ Len(frames') = 1 /\ frames'[1].dir = i
      BY <3>1, <3>2
    <3>4. TypeOK'
      BY <1>2, <2>2, <3>3 DEF IInv, TypeOK, Tree
    <3>5. InUse(i)' /\ nodes'[i].type = "DIR"
      BY <1>2, <2>1, <2>4 DEF IInv, Tree, InUse, Node
    <3>6. FramesOK'
      BY <3>3, <3>5 DEF FramesOK, InUse
    <3>7. OneAtATime' /\ OwedWriteFindsFile'
      BY <1>2, <2>1 DEF OneAtATime, OwedWriteFindsFile
    <3> QED BY <2>2, <3>4, <3>6, <3>7 DEF IInv
  <2> QED BY <2>3, <2>4
<1> QED BY <1>1, <1>2 DEF Move

\* Every turn, call, return and overrun of rebuild_child_paths preserves the
\* invariant.
LEMMA RebuildIInv ==
  ASSUME IInv, RebuildStep
  PROVE  IInv'
<1> DEFINE f == frames[Len(frames)]
<1>1. /\ frames # << >> /\ frames \in Seq(Frame) /\ pending = NoWrite
      /\ nodes \in [Slots -> Node]
      /\ UNCHANGED <<current_dir, pending, rc>>
  BY DEF RebuildStep, IInv, TypeOK, OneAtATime
<1>2. /\ Len(frames) \in Nat /\ Len(frames) >= 1 /\ f \in Frame
      /\ InUse(f.dir) /\ nodes[f.dir].type = "DIR"
  <2>1. Len(frames) \in Nat /\ Len(frames) >= 1 /\ f \in Frame
    BY <1>1, FramesBelow
  <2>2. Len(frames) \in 1 .. Len(frames)
    BY <2>1
  <2> QED BY <2>1, <2>2 DEF IInv, FramesOK
<1>3. OneAtATime' /\ OwedWriteFindsFile'
  BY <1>1 DEF OneAtATime, OwedWriteFindsFile
<1>4. CASE /\ \A k \in Slots : k >= f.next => ~IsChild(k, f.dir)
           /\ frames' = SubSeq(frames, 1, Len(frames) - 1)
           /\ UNCHANGED <<nodes, overrun>>
  <2>1. Tree'
    BY <1>1, <1>4, ReturnTree DEF IInv
  <2>2. /\ frames' \in Seq(Frame) /\ Len(frames') = Len(frames) - 1
        /\ \A k \in 1 .. Len(frames') : k \in 1 .. Len(frames) /\ frames'[k] = frames[k]
    BY <1>1, <1>2, <1>4, FramesBelow
  <2>3. TypeOK'
    BY <1>1, <1>4, <2>2 DEF IInv, TypeOK
  <2>4. FramesOK'
    BY <1>4, <2>2 DEF IInv, FramesOK, InUse
  <2> QED BY <1>3, <2>1, <2>3, <2>4 DEF IInv
<1>5. CASE UNCHANGED <<nodes, frames>> /\ overrun' = TRUE
  <2>1. Tree'
    BY <1>5 DEF IInv, Tree, RootOK, NamesOK, ParentsOK, PathsOK, Stale,
                SiblingsDistinct, SizesOK, InUse
  <2>2. TypeOK' /\ FramesOK'
    BY <1>1, <1>5 DEF IInv, TypeOK, FramesOK, InUse
  <2> QED BY <1>3, <2>1, <2>2 DEF IInv
<1>6. ASSUME NEW j \in Slots, NextChild(f, j),
             nodes' = [nodes EXCEPT ![j].path =
                           Append(nodes[f.dir].path, nodes[j].name)],
             frames' = LET here == Append(SubSeq(frames, 1, Len(frames) - 1),
                                          Visited(f, j))
                       IN  IF nodes[j].type = "DIR"
                           THEN Append(here, [dir |-> j, next |-> 0]) ELSE here,
             UNCHANGED overrun
      PROVE  IInv'
  <2>1. /\ Tree' /\ frames' \in Seq(Frame)
        /\ \A k \in 1 .. Len(frames') :
              \/ k \in 1 .. Len(frames) /\ frames'[k].dir = frames[k].dir
              \/ frames'[k].dir = j /\ nodes[j].type = "DIR"
    <3> HIDE DEF f
    <3>1. f = frames[Len(frames)]
      BY DEF f
    <3>2. frames' = LET here == Append(SubSeq(frames, 1, Len(frames) - 1),
                                       [f EXCEPT !.next = j + 1])
                    IN  IF nodes[j].type = "DIR"
                        THEN Append(here, [dir |-> j, next |-> 0]) ELSE here
      BY <1>6 DEF Visited
    <3>3. Tree
      BY DEF IInv
    <3> QED BY <1>1, <1>2, <1>6, <3>1, <3>2, <3>3, VisitTree
  <2>2. TypeOK'
    BY <1>1, <1>6, <2>1 DEF IInv, TypeOK, Tree
  <2>3. \A k \in Slots : nodes'[k].used = nodes[k].used
                            /\ nodes'[k].type = nodes[k].type
    BY <1>1, <1>6 DEF Node
  <2>4. InUse(j)
    BY <1>6 DEF NextChild, IsChild, InUse
  <2>5. \A k \in 1 .. Len(frames) : frames[k].dir \in Slots
    <3>1. \A k \in 1 .. Len(frames) : frames[k] \in Frame
      BY <1>1, ElementOfSeq
    <3> QED BY <3>1 DEF Frame
  <2>6. FramesOK'
    BY <2>1, <2>3, <2>4, <2>5 DEF IInv, FramesOK, InUse
  <2> QED BY <1>3, <2>1, <2>2, <2>6 DEF IInv
<1> QED BY <1>4, <1>5, <1>6 DEF RebuildStep

\* fs_write_file preserves the invariant.
LEMMA StoreIInv ==
  ASSUME IInv, frames = << >>, NEW p, NEW text \in Seq(Bytes),
         StoreFile(p, text), pending' = NoWrite
  PROVE  IInv'
<1>1. UNCHANGED <<current_dir, frames, overrun>>
  BY DEF StoreFile
<1>2. ASSUME UNCHANGED nodes, rc' = 1
      PROVE  IInv'
  <2>1. Tree'
    BY <1>1, <1>2 DEF IInv, Tree, RootOK, NamesOK, ParentsOK, PathsOK, Stale,
                      SiblingsDistinct, SizesOK, InUse
  <2> QED BY <1>1, <1>2, <2>1, CommandOver
<1>3. ASSUME NEW i \in Slots, ~TooLarge(Len(text)), rc' = 0,
             nodes' = [nodes EXCEPT ![i].data = text]
      PROVE  IInv'
  <2>1. Len(text) <= MaxFileSize
    BY <1>3, LimitsAssumption DEF TooLarge
  <2>2. Tree'
    BY <1>1, <1>3, <2>1, StoreTree DEF IInv
  <2> QED BY <1>1, <1>3, <2>2, CommandOver
<1> QED BY <1>2, <1>3 DEF StoreFile

\* fs_append_file preserves the invariant.
LEMMA AppendIInv ==
  ASSUME IInv, NEW p \in Paths, NEW text \in Texts, AppendFile(p, text)
  PROVE  IInv'
<1>1. CASE Refuse
  BY <1>1, RefuseIInv
<1>2. ASSUME NEW i \in Slots, ~TooLarge(Len(nodes[i].data) + Len(text)),
             nodes' = [nodes EXCEPT ![i].data = @ \o text], rc' = 0,
             UNCHANGED <<current_dir, frames, pending, overrun>>
      PROVE  IInv'
  <2>1. nodes[i].data \in Seq(Bytes) /\ text \in Seq(Bytes)
    BY TextsAssumption DEF IInv, TypeOK, Node
  <2>2. /\ nodes[i].data \o text \in Seq(Bytes)
        /\ Len(nodes[i].data \o text) <= MaxFileSize
    BY <1>2, <2>1, ConcatProperties, LimitsAssumption DEF TooLarge
  <2>3. nodes' = [nodes EXCEPT ![i].data = nodes[i].data \o text]
    BY <1>2
  <2>4. Tree'
    BY <1>2, <2>2, <2>3, StoreTree DEF IInv
  <2> QED BY <1>2, <2>4, CommandOver DEF AppendFile, Idle
<1> QED BY <1>1, <1>2 DEF AppendFile

\* The first half of fs_copy preserves the invariant.
LEMMA CopyIInv ==
  ASSUME IInv, NEW p \in Paths, NEW q \in Paths, Copy(p, q)
  PROVE  IInv'
<1>1. CASE Refuse
  BY <1>1, RefuseIInv
<1>2. ASSUME NEW i \in Slots, CreateNode(q, "FILE"),
             pending' = <<q, nodes'[i].data>>,
             UNCHANGED <<current_dir, frames, overrun, rc>>
      PROVE  IInv'
  <2>1. Tree'
    BY <1>2, CreateTree, PathsAreSeqs DEF Copy, Idle, IInv, Settled
  <2>2. nodes'[i].data \in Seq(Bytes)
    BY <2>1 DEF Tree, Node
  <2> QED BY <1>2, <2>2, CreateOwing DEF Copy
<1> QED BY <1>1, <1>2 DEF Copy, CreateRefused

\* The write command, or its first half, preserves the invariant.
LEMMA WriteIInv ==
  ASSUME IInv, NEW p \in Paths, NEW text \in LineTexts, Write(p, text)
  PROVE  IInv'
<1>1. text \in Seq(Bytes) /\ Idle
  BY TextsAssumption DEF Write
<1>2. CASE StoreFile(p, text) /\ UNCHANGED pending
  BY <1>1, <1>2, StoreIInv DEF Idle
<1>3. CASE CreateRefused(p)
  BY <1>3, RefuseIInv DEF CreateRefused
<1>4. CASE CreateNode(p, "FILE") /\ pending' = <<p, text>>
             /\ UNCHANGED <<current_dir, frames, overrun, rc>>
  BY <1>1, <1>4, CreateOwing
<1> QED BY <1>2, <1>3, <1>4 DEF Write

\* The owed write preserves the invariant.
LEMMA PendingIInv == ASSUME IInv, PendingWrite PROVE IInv'
<1>1. pending # NoWrite /\ pending[2] \in Seq(Bytes)
  BY DEF PendingWrite, IInv, TypeOK
<1>2. frames = << >>
  BY <1>1 DEF IInv, OneAtATime
<1> QED BY <1>1, <1>2, StoreIInv DEF PendingWrite

\* Every step preserves the invariant.
LEMMA NextIInv == IInv /\ [Next]_vars => IInv'
<1> SUFFICES ASSUME IInv, [Next]_vars PROVE IInv'
  OBVIOUS
<1>1. ASSUME NEW p \in Paths, Touch(p) PROVE IInv'
  BY <1>1, CreateIInv DEF Touch
<1>2. ASSUME NEW p \in Paths, Mkdir(p) PROVE IInv'
  BY <1>2, CreateIInv DEF Mkdir
<1>3. ASSUME NEW p \in Paths, ChangeDir(p) PROVE IInv'
  BY <1>3, ChangeDirIInv
<1>4. ASSUME NEW p \in Paths, Delete(p) PROVE IInv'
  BY <1>4, DeleteIInv
<1>5. ASSUME NEW p \in Paths, NEW q \in Paths, Move(p, q) PROVE IInv'
  BY <1>5, MoveIInv
<1>6. ASSUME NEW p \in Paths, NEW q \in Paths, Copy(p, q) PROVE IInv'
  BY <1>6, CopyIInv
<1>7. ASSUME NEW p \in Paths, NEW t \in LineTexts, Write(p, t) PROVE IInv'
  BY <1>7, WriteIInv
<1>8. ASSUME NEW p \in Paths, NEW t \in Texts, AppendFile(p, t) PROVE IInv'
  BY <1>8, AppendIInv
<1>9. CASE RebuildStep
  BY <1>9, RebuildIInv
<1>10. CASE PendingWrite
  BY <1>10, PendingIInv
<1>11. CASE UNCHANGED vars
  BY <1>11, SameTable DEF vars, IInv, TypeOK
<1>12. ASSUME NEW p \in Paths, NEW t \in Texts, WriteFile(p, t) PROVE IInv'
  BY <1>12, StoreIInv, TextsAssumption DEF WriteFile, Idle
<1> QED
  BY <1>1, <1>2, <1>3, <1>4, <1>5, <1>6, <1>7, <1>8, <1>9, <1>10, <1>11,
     <1>12
  DEF Next, Command

-----------------------------------------------------------------------------
(***************************************************************************)
(* The theorems.                                                           *)
(***************************************************************************)
\* The inductive invariant holds in every reachable state.
THEOREM Invariance == Spec => []IInv
<1>1. Init => IInv
  BY InitIInv
<1>2. IInv /\ [Next]_vars => IInv'
  BY NextIInv
<1> QED BY <1>1, <1>2, PTL DEF Spec

\* Type correctness: every field, path, frame and owed write keeps its shape.
THEOREM TypeCorrect == Spec => []TypeOK
<1>1. IInv => TypeOK
  BY DEF IInv
<1> QED BY <1>1, Invariance, PTL

\* The table stays a tree in both its descriptions, for a table of any size:
\* the root in slot 0, parents in use and directories, cached paths equal to
\* the parent's path and the name outside a rebuild, no name twice in one
\* directory.
THEOREM TableConsistent ==
  Spec => [](RootOK /\ TreeConsistent /\ SiblingsDistinct)
<1>1. IInv => RootOK /\ TreeConsistent /\ SiblingsDistinct
  BY DEF IInv, Tree, TreeConsistent
<1> QED BY <1>1, Invariance, PTL

\* No operation writes past a node's data array.
THEOREM SizesCorrect == Spec => []SizesOK
<1>1. IInv => SizesOK
  BY DEF IInv, Tree
<1> QED BY <1>1, Invariance, PTL

\* copy and write never fail to find the file they have just created.
THEOREM OwedWriteSafe == Spec => []OwedWriteFindsFile
<1>1. IInv => OwedWriteFindsFile
  BY DEF IInv
<1> QED BY <1>1, Invariance, PTL

-----------------------------------------------------------------------------
(***************************************************************************)
(* Paths are unique: the two descriptions of the tree agree.               *)
(***************************************************************************)
\* A set of numbers that is not empty has a least one.
LEMMA LeastNumber ==
  ASSUME NEW T, T \subseteq Nat, T # {}
  PROVE  \E m \in T : \A n \in T : m <= n
<1> DEFINE R == OpToRel(<, Nat)
<1>1. PICK m \in T : \A n \in T : ~(<<n, m>> \in R)
  <2>1. IsWellFoundedOn(R, Nat)
    BY NatLessThanWellFounded
  <2> HIDE DEF R
  <2> QED BY <2>1, WFMin
<1>2. R = {ss \in Nat \X Nat : ss[1] < ss[2]}
  BY Zenon DEF OpToRel
<1> HIDE DEF R
<1>3. ASSUME NEW n \in T PROVE m <= n
  <2>1. m \in Nat /\ n \in Nat /\ ~(<<n, m>> \in R)
    BY <1>1
  <2>2. ~(n < m)
    BY <1>2, <2>1
  <2> QED BY <2>1, <2>2
<1> QED BY <1>1, <1>3

\* Two sequences that are equal have equal last elements and equal rests.
LEMMA AppendParts ==
  ASSUME NEW s \in Seq(Names), NEW m \in Names,
         NEW t \in Seq(Names), NEW n \in Names, Append(s, m) = Append(t, n)
  PROVE  s = t /\ m = n
BY AppendInjective

\* Outside a rebuild the path of a node is one longer than its parent's.
LEMMA SettledPaths ==
  ASSUME IInv, Settled, NEW i \in Slots, i # Root, InUse(i)
  PROVE  /\ nodes[i].parent \in Slots /\ InUse(nodes[i].parent)
         /\ nodes[i].name \in Names
         /\ nodes[nodes[i].parent].path \in Seq(Names)
         /\ nodes[i].path = Append(nodes[nodes[i].parent].path, nodes[i].name)
         /\ nodes[i].path # << >>
         /\ Len(nodes[i].path) = Len(nodes[nodes[i].parent].path) + 1
<1>1. nodes[i].parent \in Slots /\ InUse(nodes[i].parent) /\ nodes[i].name \in Names
  BY DEF IInv, Tree, ParentsOK, NamesOK
<1>2. nodes[nodes[i].parent].path \in Seq(Names)
  BY <1>1 DEF IInv, TypeOK, Node
<1>3. nodes[i].path = Append(nodes[nodes[i].parent].path, nodes[i].name)
  BY DEF IInv, Tree, PathsOK, Settled, Stale
<1> QED BY <1>1, <1>2, <1>3, AppendProperties

\* Outside a rebuild no two nodes have one path: of two that had, the parents
\* would be two with one shorter path, or one with two children of one name.
LEMMA PathsUnique ==
  ASSUME IInv, Settled
  PROVE  \A i, j \in Slots :
           InUse(i) /\ InUse(j) /\ nodes[i].path = nodes[j].path => i = j
<1> DEFINE Twins(i, j) == /\ InUse(i) /\ InUse(j) /\ i # j
                          /\ nodes[i].path = nodes[j].path
           T == {n \in Nat : \E i, j \in Slots :
                                Twins(i, j) /\ Len(nodes[i].path) = n}
<1>1. SUFFICES ASSUME NEW a \in Slots, NEW b \in Slots, Twins(a, b)
               PROVE  FALSE
  OBVIOUS
<1>2. \A i \in Slots : nodes[i].path \in Seq(Names) /\ Len(nodes[i].path) \in Nat
  BY LenProperties DEF IInv, TypeOK, Node
<1>3. Len(nodes[a].path) \in T
  BY <1>1, <1>2
<1>4. PICK m \in T : \A n \in T : m <= n
  <2> HIDE DEF T
  <2>1. T \subseteq Nat
    BY DEF T
  <2> QED BY <1>3, <2>1, LeastNumber
<1>5. PICK i, j \in Slots : Twins(i, j) /\ Len(nodes[i].path) = m
  BY <1>4
<1>6. i # Root /\ j # Root
  BY <1>5, SettledPaths DEF IInv, Tree, RootOK
<1> DEFINE pi == nodes[i].parent
           pj == nodes[j].parent
<1>7. /\ pi \in Slots /\ pj \in Slots /\ InUse(pi) /\ InUse(pj)
      /\ nodes[i].path = Append(nodes[pi].path, nodes[i].name)
      /\ nodes[j].path = Append(nodes[pj].path, nodes[j].name)
      /\ nodes[i].name \in Names /\ nodes[j].name \in Names
      /\ Len(nodes[i].path) = Len(nodes[pi].path) + 1
  BY <1>5, <1>6, SettledPaths
<1>8. nodes[pi].path = nodes[pj].path /\ nodes[i].name = nodes[j].name
  <2> DEFINE s == nodes[pi].path  u == nodes[i].name
             t == nodes[pj].path  v == nodes[j].name
  <2>1. /\ s \in Seq(Names) /\ u \in Names /\ t \in Seq(Names) /\ v \in Names
        /\ Append(s, u) = Append(t, v)
    BY <1>2, <1>5, <1>7
  <2> HIDE DEF s, u, t, v
  <2>2. s = t /\ u = v
    BY <2>1, AppendParts
  <2> QED BY <2>2 DEF s, u, t, v
<1>9. pi # pj
  BY <1>5, <1>6, <1>8 DEF IInv, Tree, SiblingsDistinct
<1>10. Len(nodes[pi].path) \in T
  BY <1>2, <1>7, <1>8, <1>9
<1>11. m <= Len(nodes[pi].path)
  <2> HIDE DEF T
  <2> QED BY <1>4, <1>10
<1>12. /\ m = Len(nodes[pi].path) + 1
       /\ Len(nodes[pi].path) \in Nat
  BY <1>2, <1>5, <1>7
<1> QED
  <2> DEFINE l == Len(nodes[pi].path)
  <2>1. l \in Nat /\ m <= l /\ m = l + 1
    BY <1>11, <1>12
  <2> HIDE DEF l
  <2> QED BY <2>1

\* What fs_list_dir shows of a directory is what find_node finds below it, and
\* a path names at most one node, for a table of any size.
THEOREM ListingCorrect == Spec => []ListingAgrees
<1>1. ASSUME IInv, Settled, NEW d \in Slots, NEW n \in Names, InUse(d)
      PROVE  (\E i \in Slots : IsChild(i, d) /\ nodes[i].name = n)
                <=> Exists(Append(nodes[d].path, n))
  <2>1. Root \in Slots /\ nodes[d].path \in Seq(Names)
    BY <1>1, SlotsAssumption DEF IInv, TypeOK, Node, Root, Slots
  <2>2. ASSUME NEW i \in Slots, IsChild(i, d), nodes[i].name = n
        PROVE  Exists(Append(nodes[d].path, n))
    <3>1. InUse(i) /\ nodes[i].parent = d /\ i # Root
      <4>1. nodes[Root].parent = -1 /\ d # -1
        BY SlotsAssumption, <1>1 DEF IInv, Tree, RootOK, Slots
      <4> QED BY <2>2, <4>1 DEF IsChild, InUse
    <3>2. nodes[i].path = Append(nodes[d].path, n)
      BY <1>1, <2>2, <3>1, SettledPaths
    <3> QED BY <3>1, <3>2 DEF Exists, HasPath, InUse
  <2>3. ASSUME NEW i \in Slots, HasPath(i, Append(nodes[d].path, n))
        PROVE  IsChild(i, d) /\ nodes[i].name = n
    <3>1. InUse(i) /\ nodes[i].path = Append(nodes[d].path, n)
      BY <2>3 DEF HasPath, InUse
    <3>2. i # Root
      <4>1. Append(nodes[d].path, n) # << >>
        BY <1>1, <2>1, AppendProperties
      <4> QED BY <1>1, <3>1, <4>1 DEF IInv, Tree, RootOK
    <3>3. /\ nodes[i].parent \in Slots /\ InUse(nodes[i].parent)
          /\ nodes[i].name \in Names
          /\ nodes[nodes[i].parent].path \in Seq(Names)
          /\ nodes[i].path = Append(nodes[nodes[i].parent].path, nodes[i].name)
      BY <1>1, <3>1, <3>2, SettledPaths
    <3>4. nodes[nodes[i].parent].path = nodes[d].path /\ nodes[i].name = n
      <4> DEFINE s == nodes[nodes[i].parent].path  m == nodes[i].name
                 t == nodes[d].path
      <4>1. /\ s \in Seq(Names) /\ m \in Names /\ t \in Seq(Names)
            /\ Append(s, m) = Append(t, n)
        BY <2>1, <3>1, <3>3
      <4> HIDE DEF s, m, t
      <4>2. s = t /\ m = n
        BY <1>1, <4>1, AppendParts
      <4> QED BY <4>2 DEF s, m, t
    <3>5. nodes[i].parent = d
      BY <1>1, <3>3, <3>4, PathsUnique
    <3> QED BY <3>1, <3>4, <3>5 DEF IsChild, InUse
  <2> QED BY <2>2, <2>3 DEF Exists
<1>2. IInv => ListingAgrees
  BY <1>1, PathsUnique DEF ListingAgrees
<1> QED BY <1>2, Invariance, PTL

\* There is nothing below a path that no directory with a child has: the
\* shortest path below it would be the path of such a child, or of a node below
\* a shorter one.
LEMMA NoneBelow ==
  ASSUME IInv, Settled, NEW p \in Seq(Names),
         \A d, k \in Slots : HasPath(d, p) => ~IsChild(k, d)
  PROVE  \A i \in Slots : InUse(i) => ~Below(nodes[i].path, p)
<1> DEFINE T == {n \in Nat : \E i \in Slots :
                    /\ InUse(i) /\ Below(nodes[i].path, p)
                    /\ Len(nodes[i].path) = n}
<1>1. SUFFICES ASSUME NEW a \in Slots, InUse(a), Below(nodes[a].path, p)
               PROVE  FALSE
  OBVIOUS
<1>2. \A i \in Slots : nodes[i].path \in Seq(Names) /\ Len(nodes[i].path) \in Nat
  BY LenProperties DEF IInv, TypeOK, Node
<1>3. Len(nodes[a].path) \in T
  BY <1>1, <1>2
<1>4. PICK m \in T : \A n \in T : m <= n
  <2> HIDE DEF T
  <2>1. T \subseteq Nat
    BY DEF T
  <2> QED BY <1>3, <2>1, LeastNumber
<1>5. PICK i \in Slots : /\ InUse(i) /\ Below(nodes[i].path, p)
                         /\ Len(nodes[i].path) = m
  BY <1>4
<1>6. Len(p) \in Nat
  BY LenProperties
<1>7. i # Root
  BY <1>5, <1>6 DEF IInv, Tree, RootOK, Below
<1> DEFINE d == nodes[i].parent
           s == nodes[d].path
<1>8. /\ d \in Slots /\ InUse(d) /\ nodes[i].name \in Names
      /\ s \in Seq(Names) /\ Len(s) \in Nat
      /\ nodes[i].path = Append(s, nodes[i].name)
      /\ Len(nodes[i].path) = Len(s) + 1
  BY <1>2, <1>5, <1>7, SettledPaths
<1>9. \A k \in 1 .. Len(s) : nodes[i].path[k] = s[k]
  BY <1>8, AppendProperties
<1>10. Len(p) <= Len(s) /\ \A k \in 1 .. Len(p) : s[k] = p[k]
  <2>1. /\ Len(p) < Len(nodes[i].path)
        /\ \A k \in 1 .. Len(p) : nodes[i].path[k] = p[k]
    BY <1>5 DEF Below
  <2> HIDE DEF s
  <2>2. Len(p) <= Len(s)
    BY <1>6, <1>8, <2>1
  <2>3. 1 .. Len(p) \subseteq 1 .. Len(s)
    BY <1>6, <1>8, <2>2
  <2> QED BY <1>9, <2>1, <2>2, <2>3
<1>11. CASE Len(p) = Len(s)
  <2>1. s = p
    BY <1>8, <1>10, <1>11, SeqEqual
  <2>2. HasPath(d, p) /\ IsChild(i, d)
    BY <1>5, <1>8, <2>1 DEF HasPath, IsChild, InUse
  <2> QED BY <1>8, <2>2
<1>12. CASE Len(p) < Len(s)
  <2>1. Below(s, p)
    BY <1>10, <1>12 DEF Below
  <2>2. Len(s) \in T
    BY <1>8, <2>1
  <2>3. m <= Len(s)
    <3> HIDE DEF T
    <3> QED BY <1>4, <2>2
  <2>4. m = Len(s) + 1 /\ Len(s) \in Nat
    BY <1>5, <1>8
  <2> HIDE DEF s
  <2> QED BY <2>3, <2>4
<1> QED
  <2> HIDE DEF s
  <2> QED BY <1>6, <1>8, <1>10, <1>11, <1>12

\* A file has no children, and nor has a directory that is no longer there.
LEMMA NothingStranded == ASSUME IInv PROVE StrandedEmpty
<1>1. SUFFICES ASSUME Settled,
                      \A d \in Slots : HasPath(d, current_dir) => nodes[d].type # "DIR"
               PROVE  \A i \in Slots : InUse(i) => ~Below(nodes[i].path, current_dir)
  BY DEF StrandedEmpty
<1>2. ASSUME NEW d \in Slots, NEW k \in Slots, HasPath(d, current_dir), IsChild(k, d)
      PROVE  FALSE
  <2>1. k # Root
    BY <1>2 DEF IsChild, IInv, Tree, RootOK, Slots
  <2>2. nodes[d].type = "DIR"
    BY <1>2, <2>1 DEF IsChild, InUse, IInv, Tree, ParentsOK
  <2> QED BY <1>1, <1>2, <2>2
<1>3. current_dir \in Seq(Names)
  BY DEF IInv, TypeOK
<1> QED BY <1>1, <1>2, <1>3, NoneBelow

\* There is nothing below a current directory that is gone, for a table of any
\* size: neither deletions nor moves leave a node behind.
THEOREM StrandedCorrect == Spec => []StrandedEmpty
BY NothingStranded, Invariance, PTL
=============================================================================
