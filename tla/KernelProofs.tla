----------------------------- MODULE KernelProofs -----------------------------
(***************************************************************************)
(* Theorems about the whole machine, for every table, every list of        *)
(* programs and any number of commands and losses of power.                *)
(***************************************************************************)
EXTENDS Kernel, SequenceTheorems, TLAPS

-----------------------------------------------------------------------------
(***************************************************************************)
(* Tables.  A table in memory or on the disk may be the torn image of a    *)
(* move, and no tree at all; what always holds of it is its shape.         *)
(***************************************************************************)
\* A table's nodes in use have names, and the root is nobody's child.
Shaped(t) ==
    /\ t \in [FS!Slots -> FS!Node]
    /\ \A i \in FS!Slots : t[i].used =>
          IF i = FS!Root THEN t[i].parent = -1 ELSE t[i].name \in Names

LEMMA Slots ==
    /\ {0, 1, 2, 3} \subseteq FS!Slots /\ FS!Root \in FS!Slots /\ FS!Root = 0
    /\ \A i \in FS!Slots : i \in Int /\ i # -1 /\ (i \notin {0, 1, 2, 3} => i > 3)
BY TableAssumption DEF FS!Slots, FS!Root

LEMMA Empty ==
    /\ << >> \in Seq(Names) /\ << >> \in Seq(Bytes) /\ << >> \in Seq(FS!Frame)
    /\ Len(<< >>) = 0
BY EmptySeq

\* The paths the commands get are sequences of names.
LEMMA Paths == FS!Paths \subseteq Seq(Names)
<1>1. Seq(Names) = UNION {[1 .. n -> Names] : n \in Nat}
  BY SeqDef
<1> QED BY <1>1, TableAssumption DEF FS!Paths


LEMMA LastName ==
    ASSUME NEW p \in Seq(Names), p # << >>
    PROVE  FS!Filename(p) \in Names
<1>1. Len(p) \in 1 .. Len(p)
  BY EmptySeq, LenProperties
<1> QED BY <1>1, ElementOfSeq DEF FS!Filename

\* A table with one node changed.
Put(t, i, n) == [t EXCEPT ![i] = n]

LEMMA OneNode ==
    ASSUME NEW t, Shaped(t), NEW i \in FS!Slots, NEW n \in FS!Node,
           n.used => IF i = FS!Root THEN n.parent = -1 ELSE n.name \in Names
    PROVE  /\ Shaped(Put(t, i, n)) /\ Put(t, i, n)[i] = n
           /\ \A j \in FS!Slots : j # i => Put(t, i, n)[j] = t[j]
<1> DEFINE u == Put(t, i, n)
<1>1. u \in [FS!Slots -> FS!Node] /\ u[i] = n
  BY DEF Shaped, Put
<1>2. \A j \in FS!Slots : j # i => u[j] = t[j]
  BY DEF Shaped, Put
<1> HIDE DEF u
<1>3. \A j \in FS!Slots : u[j].used =>
          IF j = FS!Root THEN u[j].parent = -1 ELSE u[j].name \in Names
  BY <1>1, <1>2, Zenon DEF Shaped
<1>4. Shaped(u) /\ u[i] = n /\ \A j \in FS!Slots : j # i => u[j] = t[j]
  BY <1>1, <1>2, <1>3 DEF Shaped
<1> QED BY <1>4 DEF u

\* What is not in use has any shape.
LEMMA BlankShape == FS!Blank \in FS!Node /\ ~FS!Blank.used /\ Shaped(Zeroed)
<1>1. FS!Blank \in FS!Node /\ ~FS!Blank.used
  BY Slots, Empty DEF FS!Blank, FS!Node
<1>2. \A i \in FS!Slots : Zeroed[i] = FS!Blank
  BY DEF Zeroed
<1>3. Zeroed \in [FS!Slots -> FS!Node]
  BY <1>1 DEF Zeroed
<1> QED BY <1>1, <1>2, <1>3 DEF Shaped

LEMMA FreedShape ==
    ASSUME NEW n \in FS!Node
    PROVE  FS!Freed(n) \in FS!Node /\ FS!Freed(n).used = FALSE
<1>1. n.data \in Seq(Bytes)
  BY DEF FS!Node
<1> QED BY <1>1, Slots, Empty DEF FS!Freed, FS!Blank, FS!Node

LEMMA DefaultShaped == Shaped(FS!DefaultTree)
<1>1. /\ {Progs, Home, Readme} \subseteq Names /\ Welcome \in Seq(Bytes)
      /\ <<Progs>> \in Seq(Names) /\ <<Home>> \in Seq(Names)
      /\ <<Home, Readme>> \in Seq(Names)
  BY TableAssumption
<1>2. \A i \in FS!Slots :
         /\ FS!DefaultTree[i] \in FS!Node
         /\ FS!DefaultTree[i].used =>
               IF i = FS!Root THEN FS!DefaultTree[i].parent = -1
               ELSE FS!DefaultTree[i].name \in Names
  <2> SUFFICES ASSUME NEW i \in FS!Slots
               PROVE  /\ FS!DefaultTree[i] \in FS!Node
                      /\ FS!DefaultTree[i].used =>
                            IF i = FS!Root THEN FS!DefaultTree[i].parent = -1
                            ELSE FS!DefaultTree[i].name \in Names
    OBVIOUS
  <2>1. CASE i = 0
    <3>1. FS!DefaultTree[i] = FS!Made("DIR", -1, "/", << >>, << >>)
      BY <2>1 DEF FS!DefaultTree
    <3> QED BY <2>1, <3>1, Slots, Empty DEF FS!Made, FS!Node
  <2>2. CASE i = 1
    <3>1. FS!DefaultTree[i] = FS!Made("DIR", 0, Progs, <<Progs>>, << >>)
      BY <2>2 DEF FS!DefaultTree
    <3> QED BY <1>1, <2>2, <3>1, Slots, Empty DEF FS!Made, FS!Node
  <2>3. CASE i = 2
    <3>1. FS!DefaultTree[i] = FS!Made("DIR", 0, Home, <<Home>>, << >>)
      BY <2>3 DEF FS!DefaultTree
    <3> QED BY <1>1, <2>3, <3>1, Slots, Empty DEF FS!Made, FS!Node
  <2>4. CASE i = 3
    <3>1. FS!DefaultTree[i] = FS!Made("FILE", 2, Readme, <<Home, Readme>>, Welcome)
      BY <2>4 DEF FS!DefaultTree
    <3> QED BY <1>1, <2>4, <3>1, Slots, Empty DEF FS!Made, FS!Node
  <2>5. CASE i \notin {0, 1, 2, 3}
    <3>1. FS!DefaultTree[i] = FS!Blank
      BY <2>5 DEF FS!DefaultTree
    <3> QED BY <3>1, BlankShape
  <2> QED BY <2>1, <2>2, <2>3, <2>4, <2>5
<1>3. FS!DefaultTree = [i \in FS!Slots |-> FS!DefaultTree[i]]
  BY DEF FS!DefaultTree
<1> QED BY <1>2, <1>3 DEF Shaped

\* What fs_disk_load reads from a disk with such a table.
LEMMA LoadedShaped == ASSUME Shaped(disk) PROVE Shaped(Loaded)
<1>1. \A i \in FS!Slots :
         /\ disk[i].used => Loaded[i] = disk[i]
         /\ ~disk[i].used => Loaded[i] = FS!Freed(disk[i])
         /\ disk[i] \in FS!Node
  BY DEF Shaped, Loaded
<1>2. \A i \in FS!Slots : Loaded[i] \in FS!Node
  BY <1>1, FreedShape
<1>3. Loaded \in [FS!Slots -> FS!Node]
  BY <1>2 DEF Loaded
<1> QED BY <1>1, <1>3, FreedShape DEF Shaped

-----------------------------------------------------------------------------
(***************************************************************************)
(* What the operations of the filesystem do to such a table.               *)
(***************************************************************************)
\* The two tables are the same, or one node was made, freed or rewritten.
Torn(b, n, d) ==
    \/ b = n /\ d.used = n.used /\ (n.used => d = n)
    \/ b.used = FALSE /\ n.used /\ (d.used => d = n)
    \/ b.used /\ n.used = FALSE /\ (d.used => d = b)
    \/ /\ b.used /\ n.used /\ d.used = n.used /\ b.data # n.data
       /\ \A f \in {"name", "path", "type", "parent"} : d[f] = n[f] /\ b[f] = n[f]

OneChange(b, n) ==
    \E c \in FS!Slots :
        /\ \A i \in FS!Slots : i # c => b[i] = n[i]
        /\ Torn(b[c], n[c], b[c])

LEMMA NoChange == ASSUME NEW t PROVE OneChange(t, t)
BY Slots DEF OneChange, Torn

\* A node made for a path in a free slot.
LEMMA Creates ==
    ASSUME Shaped(nodes), NEW p \in Seq(Names), NEW t \in {"FILE", "DIR"},
           FS!CreateNode(p, t)
    PROVE  /\ Shaped(nodes') /\ OneChange(nodes, nodes')
           /\ \A i \in FS!Slots : nodes[i].used => nodes'[i] = nodes[i]
<1>1. PICK d, i \in FS!Slots :
         /\ FS!IsParent(d, p) /\ FS!Allocates(i)
         /\ nodes' = [nodes EXCEPT ![i] = FS!Made(t, d, FS!Filename(p), p, << >>)]
  BY DEF FS!CreateNode
<1> DEFINE new == FS!Made(t, d, FS!Filename(p), p, << >>)
<1>2. p # << >>
  BY <1>1 DEF FS!CreateNode, FS!MayCreate, FS!Exists, FS!IsParent, FS!Finds
<1>3. i # FS!Root /\ nodes[i].used = FALSE
  BY <1>1 DEF FS!Allocates, Shaped, FS!Node
<1>4. new \in FS!Node /\ new.used /\ new.name \in Names
  BY <1>2, LastName, Empty DEF FS!Made, FS!Node
<1>6. nodes' = Put(nodes, i, new)
  BY <1>1 DEF Put
<1> HIDE DEF new
<1>5. /\ Shaped(nodes') /\ nodes'[i] = new
      /\ \A j \in FS!Slots : j # i => nodes'[j] = nodes[j]
  BY <1>3, <1>4, <1>6, OneNode
<1> QED BY <1>3, <1>4, <1>5, Zenon DEF OneChange, Torn

LEMMA Frees ==
    ASSUME Shaped(nodes), NEW p, NEW i \in FS!Slots, FS!Finds(i, p), FS!MayDelete(i),
           nodes' = Put(nodes, i, FS!Freed(nodes[i]))
    PROVE  Shaped(nodes') /\ OneChange(nodes, nodes')
<1>1. nodes[i] \in FS!Node /\ nodes[i].used
  BY DEF Shaped, FS!Finds, FS!HasPath
<1>5. PICK new : new = FS!Freed(nodes[i])
  OBVIOUS
<1>2. new \in FS!Node /\ new.used = FALSE /\ nodes' = Put(nodes, i, new)
  BY <1>1, <1>5, FreedShape
<1>4. new.used => IF i = FS!Root THEN new.parent = -1 ELSE new.name \in Names
  BY <1>2
<1>6. LET u == Put(nodes, i, new) IN
      Shaped(u) /\ u[i] = new /\ \A j \in FS!Slots : j # i => u[j] = nodes[j]
  BY <1>2, <1>4, OneNode
<1>3. /\ Shaped(nodes') /\ nodes'[i] = new
      /\ \A j \in FS!Slots : j # i => nodes'[j] = nodes[j]
  BY <1>2, <1>6
<1> QED BY <1>1, <1>2, <1>3, Zenon DEF OneChange, Torn

\* Two nodes with the same fields.
LEMMA SameNode ==
    ASSUME NEW m \in FS!Node, NEW n \in FS!Node, m.used = n.used, m.data = n.data,
           \A f \in {"name", "path", "type", "parent"} : m[f] = n[f]
    PROVE  m = n
BY DEF FS!Node

LEMMA Stores ==
    ASSUME Shaped(nodes), NEW i \in FS!Slots, nodes[i].used, NEW text \in Seq(Bytes),
           nodes' = Put(nodes, i, [nodes[i] EXCEPT !.data = text])
    PROVE  Shaped(nodes') /\ OneChange(nodes, nodes')
<1>1. nodes[i] \in FS!Node
  BY DEF Shaped
<1>7. PICK new : new = [nodes[i] EXCEPT !.data = text]
  OBVIOUS
<1>2. /\ new \in FS!Node /\ new.used = nodes[i].used
      /\ \A f \in {"name", "path", "type", "parent"} : new[f] = nodes[i][f]
  BY <1>1, <1>7 DEF FS!Node
<1>3. nodes' = Put(nodes, i, new)
  BY <1>7
<1>4. /\ new.used
      /\ new.used => IF i = FS!Root THEN new.parent = -1 ELSE new.name \in Names
  BY <1>2 DEF Shaped
<1>8. LET u == Put(nodes, i, new) IN
      Shaped(u) /\ u[i] = new /\ \A j \in FS!Slots : j # i => u[j] = nodes[j]
  BY <1>2, <1>4, OneNode
<1>5. /\ Shaped(nodes') /\ nodes'[i] = new
      /\ \A j \in FS!Slots : j # i => nodes'[j] = nodes[j]
  BY <1>3, <1>8
<1>6. Torn(nodes[i], new, nodes[i])
  <2>1. CASE new.data = nodes[i].data
    BY <1>1, <1>2, <2>1, SameNode DEF Torn
  <2>2. CASE new.data # nodes[i].data
    BY <1>2, <1>4, <2>2 DEF Torn
  <2> QED BY <2>1, <2>2
<1> QED BY <1>5, <1>6, Zenon DEF OneChange

\* A node moved.
LEMMA Moves ==
    ASSUME Shaped(nodes), NEW i \in FS!Slots, i # FS!Root, NEW d \in FS!Slots,
           NEW p \in Seq(Names), p # << >>,
           nodes' = [nodes EXCEPT ![i].parent = d, ![i].name = FS!Filename(p),
                                  ![i].path = p]
    PROVE  Shaped(nodes')
<1>1. nodes[i] \in FS!Node /\ FS!Filename(p) \in Names
  BY LastName DEF Shaped
<1> DEFINE n == FS!Filename(p)
           r1 == [nodes[i] EXCEPT !.parent = d]
           r2 == [r1 EXCEPT !.name = n]
<1>6. PICK new : new = [r2 EXCEPT !.path = p]
  OBVIOUS
<1>2. nodes' = Put(nodes, i, new)
  BY <1>6 DEF Shaped, Put
<1> HIDE DEF n
<1>3. r1 \in FS!Node
  BY <1>1 DEF FS!Node
<1> HIDE DEF r1
<1>4. r2 \in FS!Node /\ r2.name = n
  BY <1>1, <1>3 DEF FS!Node, n
<1> HIDE DEF r2
<1>5. new \in FS!Node /\ new.name \in Names
  BY <1>1, <1>4, <1>6 DEF FS!Node, n
<1>7. Shaped(Put(nodes, i, new))
  BY <1>5, OneNode
<1> QED BY <1>2, <1>7

\* A path rewritten.
LEMMA Renames ==
    ASSUME Shaped(nodes), NEW j \in FS!Slots, j # FS!Root, nodes[j].used,
           NEW path \in Seq(Names), nodes' = Put(nodes, j, [nodes[j] EXCEPT !.path = path])
    PROVE  Shaped(nodes')
<1>1. nodes[j] \in FS!Node /\ nodes[j].name \in Names
  BY DEF Shaped
<1>5. PICK new : new = [nodes[j] EXCEPT !.path = path]
  OBVIOUS
<1>2. new \in FS!Node /\ new.name \in Names
  BY <1>1, <1>5 DEF FS!Node
<1>3. nodes' = Put(nodes, j, new)
  BY <1>5
<1>4. new.used => IF j = FS!Root THEN new.parent = -1 ELSE new.name \in Names
  BY <1>2
<1>6. Shaped(Put(nodes, j, new))
  BY <1>2, <1>4, OneNode
<1> QED BY <1>3, <1>6

-----------------------------------------------------------------------------
(***************************************************************************)
(* The same, operation by operation.                                       *)
(***************************************************************************)
TreeOK == FS!TypeOK /\ Shaped(nodes)

\* The operation, or this part of it, is over; it changed at most one node, and
\* that only if a save follows.
Effect ==
    /\ TreeOK' /\ frames' = << >> /\ overrun' = overrun
    /\ OneChange(nodes, nodes')
    /\ pending' = FS!NoWrite /\ rc' # 0 => nodes' = nodes

\* Steps that leave the table alone.
LEMMA Leaves ==
    ASSUME TreeOK, frames = << >>, UNCHANGED <<nodes, frames, overrun>>,
           current_dir' \in Seq(Names), rc' \in {0, 1},
           pending' = FS!NoWrite \/ pending' \in Seq(Names) \X Seq(Bytes)
    PROVE  Effect
BY NoChange DEF Effect, TreeOK, FS!TypeOK

LEMMA Refuses ==
    ASSUME TreeOK, FS!Idle, FS!Refuse
    PROVE  Effect /\ nodes' = nodes /\ pending' = FS!NoWrite /\ rc' = 1
<1>1. /\ frames = << >> /\ UNCHANGED <<nodes, frames, overrun>> /\ rc' = 1
      /\ current_dir' \in Seq(Names) /\ pending' = FS!NoWrite
  BY DEF FS!Idle, FS!Refuse, TreeOK, FS!TypeOK
<1> QED BY <1>1, Leaves

\* Steps that change a node.
LEMMA Alters ==
    ASSUME TreeOK, frames = << >>, UNCHANGED <<frames, overrun, current_dir>>,
           Shaped(nodes'), OneChange(nodes, nodes'),
           rc' = 0 \/ (rc' = rc /\ pending' # FS!NoWrite),
           pending' = FS!NoWrite \/ pending' \in Seq(Names) \X Seq(Bytes)
    PROVE  Effect
<1>1. nodes' \in [FS!Slots -> FS!Node]
  BY DEF Shaped
<1>2. FS!TypeOK'
  BY <1>1 DEF TreeOK, FS!TypeOK
<1> QED BY <1>2 DEF Effect, TreeOK

LEMMA Touched ==
    ASSUME TreeOK, NEW p \in Seq(Names), FS!Touch(p) PROVE Effect
<1>1. CASE FS!CreateRefused(p)
  BY <1>1, Refuses DEF FS!Touch, FS!CreateRefused
<1>2. CASE FS!CreateNode(p, "FILE") /\ rc' = 0
              /\ UNCHANGED <<current_dir, frames, pending, overrun>>
  <2>1. Shaped(nodes') /\ OneChange(nodes, nodes')
    BY <1>2, Creates DEF TreeOK
  <2> QED BY <1>2, <2>1, Alters DEF FS!Touch, FS!Idle
<1> QED BY <1>1, <1>2 DEF FS!Touch

LEMMA MadeFolder ==
    ASSUME TreeOK, NEW p \in Seq(Names), FS!Mkdir(p) PROVE Effect
<1>1. CASE FS!CreateRefused(p)
  BY <1>1, Refuses DEF FS!Mkdir, FS!CreateRefused
<1>2. CASE FS!CreateNode(p, "DIR") /\ rc' = 0
              /\ UNCHANGED <<current_dir, frames, pending, overrun>>
  <2>1. Shaped(nodes') /\ OneChange(nodes, nodes')
    BY <1>2, Creates DEF TreeOK
  <2> QED BY <1>2, <2>1, Alters DEF FS!Mkdir, FS!Idle
<1> QED BY <1>1, <1>2 DEF FS!Mkdir

LEMMA Deleted ==
    ASSUME TreeOK, NEW p \in Seq(Names), FS!Delete(p) PROVE Effect
<1>1. CASE FS!Refuse
  BY <1>1, Refuses DEF FS!Delete
<1>2. ASSUME NEW i \in FS!Slots, FS!Finds(i, p), FS!MayDelete(i),
             nodes' = [nodes EXCEPT ![i] = FS!Freed(@)], rc' = 0,
             UNCHANGED <<current_dir, frames, pending, overrun>>
      PROVE  Effect
  <2>1. nodes' = Put(nodes, i, FS!Freed(nodes[i]))
    BY <1>2 DEF Put
  <2>2. Shaped(nodes') /\ OneChange(nodes, nodes')
    BY <1>2, <2>1, Frees DEF TreeOK
  <2> QED BY <1>2, <2>2, Alters DEF FS!Delete, FS!Idle
<1> QED BY <1>1, <1>2 DEF FS!Delete

LEMMA Stored ==
    ASSUME TreeOK, frames = << >>, NEW p, NEW text \in Seq(Bytes),
           FS!StoreFile(p, text), pending' = FS!NoWrite
    PROVE  Effect
<1>1. current_dir' \in Seq(Names) /\ UNCHANGED <<current_dir, frames, overrun>>
  BY DEF FS!StoreFile, TreeOK, FS!TypeOK
<1>2. CASE UNCHANGED nodes /\ rc' = 1
  BY <1>1, <1>2, Leaves
<1>3. ASSUME NEW i \in FS!Slots, FS!FileAt(i, p),
             nodes' = [nodes EXCEPT ![i].data = text], rc' = 0
      PROVE  Effect
  <2>1. nodes' = Put(nodes, i, [nodes[i] EXCEPT !.data = text])
    BY <1>3 DEF Put
  <2>2. nodes[i].used
    BY <1>3 DEF FS!FileAt, FS!Finds, FS!HasPath
  <2>3. Shaped(nodes') /\ OneChange(nodes, nodes')
    BY <2>1, <2>2, Stores DEF TreeOK
  <2> QED BY <1>1, <1>3, <2>3, Alters
<1> QED BY <1>2, <1>3 DEF FS!StoreFile

LEMMA CreatedOwing ==
    ASSUME TreeOK, FS!Idle, NEW p \in Seq(Names), FS!CreateNode(p, "FILE"),
           NEW text \in Seq(Bytes), pending' = <<p, text>>, rc' \in {0, rc},
           UNCHANGED <<current_dir, frames, overrun>>
    PROVE  Effect
<1>1. Shaped(nodes') /\ OneChange(nodes, nodes')
  BY Creates DEF TreeOK
<1>2. pending' # FS!NoWrite /\ pending' \in Seq(Names) \X Seq(Bytes)
  BY DEF FS!NoWrite
<1> QED BY <1>1, <1>2, Alters DEF FS!Idle

LEMMA Copied ==
    ASSUME TreeOK, NEW p \in Seq(Names), NEW q \in Seq(Names), FS!Copy(p, q)
    PROVE  Effect
<1>1. FS!Idle
  BY DEF FS!Copy
<1>2. CASE FS!Refuse
  BY <1>1, <1>2, Refuses
<1>3. ASSUME NEW i \in FS!Slots, FS!CreateNode(q, "FILE"),
             pending' = <<q, nodes'[i].data>>,
             UNCHANGED <<current_dir, frames, overrun, rc>>
      PROVE  Effect
  <2>1. nodes' \in [FS!Slots -> FS!Node]
    BY <1>3, Creates DEF TreeOK, Shaped
  <2>2. nodes'[i].data \in Seq(Bytes)
    BY <2>1 DEF FS!Node
  <2> QED BY <1>1, <1>3, <2>2, CreatedOwing
<1> QED BY <1>2, <1>3 DEF FS!Copy, FS!CreateRefused

LEMMA Wrote ==
    ASSUME TreeOK, NEW p \in Seq(Names), NEW text \in LineTexts, FS!Write(p, text)
    PROVE  Effect
<1>1. FS!Idle /\ text \in Seq(Bytes)
  BY TableAssumption DEF FS!Write
<1>2. CASE FS!StoreFile(p, text) /\ UNCHANGED pending
  BY <1>1, <1>2, Stored DEF FS!Idle
<1>3. CASE FS!CreateRefused(p)
  BY <1>1, <1>3, Refuses DEF FS!CreateRefused
<1>4. CASE FS!CreateNode(p, "FILE") /\ pending' = <<p, text>>
              /\ UNCHANGED <<current_dir, frames, overrun, rc>>
  BY <1>1, <1>4, CreatedOwing
<1> QED BY <1>2, <1>3, <1>4 DEF FS!Write

LEMMA WroteOwed ==
    ASSUME TreeOK, frames = << >>, FS!PendingWrite
    PROVE  Effect /\ pending' = FS!NoWrite
<1>1. /\ FS!StoreFile(pending[1], pending[2]) /\ pending' = FS!NoWrite
      /\ pending[2] \in Seq(Bytes)
  BY DEF FS!PendingWrite, TreeOK, FS!TypeOK
<1> QED BY <1>1, Stored

LEMMA MadeHelp ==
    ASSUME TreeOK, FS!Idle, NEW p \in Seq(Names), MakeHelp(p)
    PROVE  /\ Effect /\ pending' # FS!NoWrite
           /\ (nodes' = nodes /\ saving' = saving) \/ saving'
<1>1. HelpText \in Seq(Bytes) /\ pending' = <<p, HelpText>> /\ pending' # FS!NoWrite
  BY HelpsAssumption DEF MakeHelp, FS!NoWrite
<1>2. UNCHANGED <<current_dir, frames, overrun>> /\ frames = << >>
  BY DEF MakeHelp, FS!Idle
<1>3. CASE FS!CreateNode(p, "FILE") /\ rc' = 0 /\ saving' = TRUE
  BY <1>1, <1>2, <1>3, CreatedOwing
<1>4. CASE rc' = 1 /\ UNCHANGED <<nodes, saving>>
  <2>1. current_dir' \in Seq(Names)
    BY <1>2 DEF TreeOK, FS!TypeOK
  <2> QED BY <1>1, <1>2, <1>4, <2>1, Leaves
<1> QED BY <1>3, <1>4 DEF MakeHelp

\* The words a command gets.
LEMMA Args ==
    ASSUME NEW args \in Words
    PROVE  /\ ~(Len(args) < 1) => args[1] \in Seq(Names)
           /\ ~(Len(args) < 2) => args[1] \in Seq(Names) /\ args[2] \in Seq(Names)
<1>1. PICK n \in 0 .. 2 : args \in [1 .. n -> FS!Paths]
  BY DEF Words
<1>2. args \in Seq(FS!Paths)
  BY <1>1, SeqDef
<1>3. Len(args) \in Nat
  BY <1>2, LenProperties
<1>4. \A k \in 1 .. Len(args) : args[k] \in Seq(Names)
  BY <1>2, ElementOfSeq, Paths
<1> QED BY <1>3, <1>4

LEMMA Changed ==
    ASSUME TreeOK, FS!Idle, NEW args \in Words, Change(args)
    PROVE  Effect
<1>1. CASE Usage
  BY <1>1, Refuses DEF Usage
<1>2. CASE ~(Len(args) < 1) /\ FS!Touch(args[1])
  BY <1>2, Args, Touched
<1>3. CASE ~(Len(args) < 1) /\ FS!Mkdir(args[1])
  BY <1>3, Args, MadeFolder
<1>4. CASE ~(Len(args) < 1) /\ FS!Delete(args[1])
  BY <1>4, Args, Deleted
<1>5. CASE ~(Len(args) < 2) /\ FS!Copy(args[1], args[2])
  BY <1>5, Args, Copied
<1>6. ASSUME NEW text \in LineTexts, ~(Len(args) < 2), FS!Write(args[1], text)
      PROVE  Effect
  BY <1>6, Args, Wrote
<1> QED BY <1>1, <1>2, <1>3, <1>4, <1>5, <1>6
        DEF Change, prog_touch, prog_mkdir, prog_del, prog_copy, prog_write

\* A move is refused, or is over, or goes on rewriting the paths below.
LEMMA Moved ==
    ASSUME TreeOK, NEW p \in Seq(Names), NEW q \in Seq(Names), FS!Move(p, q)
    PROVE  /\ TreeOK' /\ UNCHANGED <<overrun, pending>>
           /\ rc' = 0 \/ (rc' = 1 /\ frames' = << >> /\ nodes' = nodes)
<1>1. CASE FS!Refuse
  BY <1>1, Refuses DEF FS!Move, FS!Idle, Effect, FS!Refuse
<1>2. ASSUME NEW i \in FS!Slots, NEW d \in FS!Slots, FS!MayMove(i, q), FS!IsParent(d, q),
             nodes' = [nodes EXCEPT ![i].parent = d, ![i].name = FS!Filename(q),
                                    ![i].path = q],
             frames' = FS!Rebuild(i), rc' = 0,
             UNCHANGED <<current_dir, pending, overrun>>
      PROVE  TreeOK'
  <2>1. i # FS!Root /\ q # << >>
    BY <1>2 DEF FS!MayMove, FS!Exists, FS!IsParent, FS!Finds
  <2>2. Shaped(nodes')
    BY <1>2, <2>1, Moves DEF TreeOK
  <2>3. frames' \in Seq(FS!Frame)
    <3>1. [dir |-> i, next |-> 0] \in FS!Frame
      BY TableAssumption DEF FS!Frame
    <3> QED BY <1>2, <3>1, Empty DEF FS!Rebuild
  <2>4. FS!TypeOK'
    <3>1. nodes' \in [FS!Slots -> FS!Node]
      BY <2>2 DEF Shaped
    <3> QED BY <1>2, <2>3, <3>1 DEF TreeOK, FS!TypeOK
  <2> QED BY <2>2, <2>4 DEF TreeOK
<1> QED BY <1>1, <1>2 DEF FS!Move

\* The call stack without its innermost call.
LEMMA FramesBelow ==
    ASSUME frames \in Seq(FS!Frame), frames # << >>
    PROVE  /\ Len(frames) \in Nat \ {0} /\ frames[Len(frames)] \in FS!Frame
           /\ SubSeq(frames, 1, Len(frames) - 1) \in Seq(FS!Frame)
<1>1. Len(frames) \in Nat \ {0}
  BY EmptySeq, LenProperties
<1>2. \A k \in 1 .. Len(frames) : frames[k] \in FS!Frame
  BY ElementOfSeq
<1>3. SubSeq(frames, 1, Len(frames) - 1) \in Seq(FS!Frame)
  BY <1>1, <1>2, SubSeqProperties
<1> QED BY <1>1, <1>2, <1>3

\* A turn of rebuild_child_paths; when the last call returns, no path was too
\* long.
LEMMA Rebuilt ==
    ASSUME TreeOK, FS!RebuildStep
    PROVE  /\ TreeOK' /\ frames # << >> /\ UNCHANGED <<pending, rc>>
           /\ overrun' => frames' # << >>
<1> DEFINE f == frames[Len(frames)]
           below == SubSeq(frames, 1, Len(frames) - 1)
<1>1. /\ frames # << >> /\ frames \in Seq(FS!Frame) /\ ~overrun
      /\ nodes \in [FS!Slots -> FS!Node]
      /\ UNCHANGED <<current_dir, pending, rc>>
  BY DEF FS!RebuildStep, TreeOK, FS!TypeOK
<1>2. f \in FS!Frame /\ below \in Seq(FS!Frame)
  BY <1>1, FramesBelow
<1>3. CASE frames' = below /\ UNCHANGED <<nodes, overrun>>
  BY <1>1, <1>2, <1>3 DEF TreeOK, FS!TypeOK
<1>4. CASE UNCHANGED <<nodes, frames>> /\ overrun' = TRUE
  BY <1>1, <1>4 DEF TreeOK, FS!TypeOK
<1>5. ASSUME NEW j \in FS!Slots, FS!NextChild(f, j),
             nodes' = [nodes EXCEPT ![j].path =
                           Append(nodes[f.dir].path, nodes[j].name)],
             frames' = LET here == Append(below, FS!Visited(f, j))
                       IN  IF nodes[j].type = "DIR"
                           THEN Append(here, [dir |-> j, next |-> 0]) ELSE here,
             UNCHANGED overrun
      PROVE  TreeOK' /\ ~overrun'
  <2>1. f.dir \in FS!Slots /\ nodes[j].used /\ nodes[j].parent = f.dir
    BY <1>2, <1>5 DEF FS!Frame, FS!NextChild, FS!IsChild
  <2>2. j # FS!Root /\ nodes[j].name \in Names
    BY <2>1, Slots DEF TreeOK, Shaped
  <2>3. PICK path \in Seq(Names) : path = Append(nodes[f.dir].path, nodes[j].name)
    <3>1. nodes[f.dir].path \in Seq(Names)
      BY <1>1, <2>1 DEF FS!Node
    <3> QED BY <2>2, <3>1, AppendProperties
  <2>4. nodes' = Put(nodes, j, [nodes[j] EXCEPT !.path = path])
    BY <1>5, <2>3 DEF Put
  <2>5. Shaped(nodes')
    BY <2>1, <2>2, <2>4, Renames DEF TreeOK
  <2>6. frames' \in Seq(FS!Frame)
    <3>1. FS!Visited(f, j) \in FS!Frame
      <4>1. j + 1 \in 0 .. NumSlots
        BY TableAssumption DEF FS!Slots
      <4> QED BY <1>2, <4>1 DEF FS!Visited, FS!Frame
    <3>2. [dir |-> j, next |-> 0] \in FS!Frame
      BY TableAssumption DEF FS!Frame
    <3> HIDE DEF f, below
    <3>3. Append(below, FS!Visited(f, j)) \in Seq(FS!Frame)
      BY <1>2, <3>1, AppendProperties
    <3> QED BY <1>5, <3>2, <3>3, AppendProperties
  <2>7. nodes' \in [FS!Slots -> FS!Node]
    BY <2>5 DEF Shaped
  <2> QED BY <1>1, <1>5, <2>5, <2>6, <2>7 DEF TreeOK, FS!TypeOK
<1> QED BY <1>1, <1>3, <1>4, <1>5 DEF FS!RebuildStep

LEMMA ChangedDir ==
    ASSUME TreeOK, FS!Idle, NEW args \in Words, prog_cd(args)
    PROVE  TreeOK' /\ UNCHANGED <<nodes, frames, pending, overrun>>
<1>1. PICK p \in Seq(Names) : FS!ChangeDir(p)
  BY Args, Empty DEF prog_cd
<1>2. /\ current_dir' \in Seq(Names) /\ rc' \in {0, 1}
      /\ UNCHANGED <<nodes, frames, pending, overrun>>
  BY <1>1 DEF FS!ChangeDir, FS!Refuse, TreeOK, FS!TypeOK
<1> QED BY <1>2 DEF TreeOK, FS!TypeOK

LEMMA Reloaded ==
    ASSUME TreeOK, Shaped(disk), prog_load
    PROVE  TreeOK' /\ nodes' = Loaded /\ UNCHANGED <<frames, pending, overrun>>
<1>1. Shaped(Loaded) /\ Loaded \in [FS!Slots -> FS!Node]
  BY LoadedShaped DEF Shaped
<1>2. /\ nodes' = Loaded /\ current_dir' \in Seq(Names) /\ rc' \in {0, 1}
      /\ UNCHANGED <<frames, pending, overrun>>
  BY Empty DEF prog_load
<1> QED BY <1>1, <1>2 DEF TreeOK, FS!TypeOK

-----------------------------------------------------------------------------
(***************************************************************************)
(* What a save does to the disk.                                           *)
(***************************************************************************)
\* Loading d gives t, but for what is in the slots that are not in use.
Holds(d, t) ==
    \A i \in FS!Slots : d[i].used = t[i].used /\ (t[i].used => d[i] = t[i])

\* d is on the way from b to n, which differ in one node.
Between(b, n, d) ==
    \E c \in FS!Slots :
        /\ \A i \in FS!Slots : i # c =>
              b[i] = n[i] /\ d[i].used = n[i].used /\ (n[i].used => d[i] = n[i])
        /\ Torn(b[c], n[c], d[c])

\* A save that is about to begin.
LEMMA Begins ==
    ASSUME NEW b, NEW n, NEW d, OneChange(b, n), Holds(d, b)
    PROVE  Between(b, n, d)
<1>1. PICK c \in FS!Slots :
        /\ \A i \in FS!Slots : i # c => b[i] = n[i]
        /\ Torn(b[c], n[c], b[c])
  BY DEF OneChange
<1>2. Torn(b[c], n[c], d[c])
  BY <1>1 DEF Torn, Holds
<1>3. \A i \in FS!Slots : i # c =>
              b[i] = n[i] /\ d[i].used = n[i].used /\ (n[i].used => d[i] = n[i])
  BY <1>1 DEF Holds
<1> QED BY <1>2, <1>3 DEF Between

Fields == {"used", "name", "path", "type", "parent", "data"}

LEMMA PartsOfNode ==
    /\ DOMAIN Parts = 1 .. 5
    /\ Parts[1] = {"name"} /\ Parts[2] = {"path"} /\ Parts[3] = {"type", "parent"}
    /\ Parts[4] = {"data"} /\ Parts[5] = {"used"}
BY DEF Parts

\* The save writes a part only once those before it are on the disk.
LEMMA NextPart ==
    ASSUME NEW i \in FS!Slots, NEW k \in DOMAIN Parts, IsNext(i, k)
    PROVE  /\ k \in 1 .. 5 /\ Differs(i, k)
           /\ k # 5 => nodes[i].used
           /\ k = 5 => nodes[i]["used"] # disk[i]["used"]
           /\ k = 5 /\ nodes[i].used =>
                 \A f \in Fields \ {"used"} : nodes[i][f] = disk[i][f]
           /\ k = 4 => /\ nodes[i]["data"] # disk[i]["data"]
                       /\ \A f \in Fields \ {"used", "data"} : nodes[i][f] = disk[i][f]
<1>1. /\ Differs(i, k) /\ k \in 1 .. 5
      /\ \A l \in 1 .. k - 1 : ~Differs(i, l)
  BY PartsOfNode DEF IsNext
<1>2. \A l \in 1 .. 5, f \in Fields :
         f \in Parts[l] /\ ~Differs(i, l) /\ nodes[i].used => nodes[i][f] = disk[i][f]
  BY DEF Differs
<1>3. k # 5 => nodes[i].used
  BY <1>1, PartsOfNode DEF Differs
<1>4. ASSUME k = 5 PROVE nodes[i]["used"] # disk[i]["used"]
  BY <1>1, <1>4, PartsOfNode DEF Differs
<1>5. ASSUME k = 5, nodes[i].used, NEW f \in Fields \ {"used"}
      PROVE  nodes[i][f] = disk[i][f]
  <2>1. PICK l \in 1 .. 4 : f \in Parts[l]
    BY PartsOfNode DEF Fields
  <2> QED BY <1>1, <1>2, <1>5, <2>1
<1>6. ASSUME k = 4 PROVE nodes[i]["data"] # disk[i]["data"]
  BY <1>1, <1>6, PartsOfNode DEF Differs
<1>7. ASSUME k = 4, NEW f \in Fields \ {"used", "data"}
      PROVE  nodes[i][f] = disk[i][f]
  <2>1. PICK l \in 1 .. 3 : f \in Parts[l]
    BY PartsOfNode DEF Fields
  <2> QED BY <1>1, <1>2, <1>3, <1>7, <2>1
<1> QED BY <1>1, <1>3, <1>4, <1>5, <1>6, <1>7

\* What is written of a content is a content.
LEMMA WrittenText ==
    ASSUME Shaped(nodes), NEW i \in FS!Slots, NEW text \in Written(i)
    PROVE  text \in Seq(Bytes)
<1>1. nodes[i].data \in Seq(Bytes)
  BY DEF Shaped, FS!Node
<1>2. CASE text = nodes[i].data
  BY <1>1, <1>2
<1>3. CASE text \in Started(nodes[i].data)
  <2>1. Len(nodes[i].data) \in Nat
    BY <1>1, LenProperties
  <2>2. text \in [1 .. Len(nodes[i].data) -> Bytes]
    BY <1>3 DEF Started
  <2> QED BY <2>1, <2>2, SeqDef
<1> QED BY <1>2, <1>3 DEF Written

\* The node on the disk after part k of it was written.
PartWritten(old, node, k, text) ==
    [f \in DOMAIN old |->
        IF f \notin Parts[k] THEN old[f] ELSE IF f = "data" THEN text ELSE node[f]]

\* A node of which part k, but for the text, is node's and the rest old's.
Mixed(new, old, node, k) ==
    /\ new \in FS!Node
    /\ \A f \in Fields : f \notin Parts[k] => new[f] = old[f]
    /\ \A f \in Fields : f \in Parts[k] /\ f # "data" => new[f] = node[f]

LEMMA PartShape ==
    ASSUME NEW old \in FS!Node, NEW node \in FS!Node, NEW k \in 1 .. 5,
           NEW text \in Seq(Bytes)
    PROVE  Mixed(PartWritten(old, node, k, text), old, node, k)
<1>0. PICK new : new = PartWritten(old, node, k, text)
  OBVIOUS
<1>1. DOMAIN old = Fields
  BY DEF FS!Node, Fields
<1>2. new = [f \in Fields |->
        IF f \notin Parts[k] THEN old[f] ELSE IF f = "data" THEN text ELSE node[f]]
  BY <1>1, <1>0 DEF PartWritten
<1>3. /\ \A f \in Fields : f \notin Parts[k] => new[f] = old[f]
      /\ \A f \in Fields : f \in Parts[k] /\ f # "data" => new[f] = node[f]
      /\ "data" \in Parts[k] => new["data"] = text
  <2>1. ASSUME NEW f \in Fields, f \notin Parts[k] PROVE new[f] = old[f]
    BY <1>2, <2>1
  <2>2. ASSUME NEW f \in Fields, f \in Parts[k], f # "data" PROVE new[f] = node[f]
    BY <1>2, <2>2
  <2>3. ASSUME "data" \in Parts[k] PROVE new["data"] = text
    <3>1. "data" \in Fields
      BY DEF Fields
    <3> QED BY <1>2, <2>3, <3>1
  <2> QED BY <2>1, <2>2, <2>3
<1>4. /\ new["used"] \in BOOLEAN /\ new["type"] \in {"FILE", "DIR"}
      /\ new["parent"] \in FS!Slots \cup {-1} /\ new["name"] \in Names \cup {"/"}
      /\ new["path"] \in Seq(Names) /\ new["data"] \in Seq(Bytes)
  <2>1. "used" \in Fields /\ "type" \in Fields /\ "parent" \in Fields
        /\ "name" \in Fields /\ "path" \in Fields /\ "data" \in Fields
    BY DEF Fields
  <2> QED BY <1>3, <2>1 DEF FS!Node
<1>5. new \in FS!Node
  BY <1>2, <1>4 DEF FS!Node, Fields
<1>6. Mixed(new, old, node, k)
  BY <1>3, <1>5 DEF Mixed
<1> QED BY <1>0, <1>6

\* One sector of a save, seen by what becomes of the node it belongs to.
Advances(i, k, new) ==
    /\ IsNext(i, k) /\ new \in FS!Node /\ disk' = Put(disk, i, new)
    /\ \A f \in Fields : f \notin Parts[k] => new[f] = disk[i][f]
    /\ \A f \in Fields : f \in Parts[k] /\ f # "data" => new[f] = nodes[i][f]

LEMMA SectorAdvances ==
    ASSUME Shaped(nodes), Shaped(disk), NEW i \in FS!Slots, NEW k \in DOMAIN Parts,
           IsNext(i, k), NEW text \in Written(i),
           disk' = [disk EXCEPT ![i] =
                       [f \in DOMAIN @ |-> IF f \notin Parts[k] THEN @[f]
                                           ELSE IF f = "data" THEN text
                                           ELSE nodes[i][f]]]
    PROVE  \E new : Advances(i, k, new)
<1>1. PICK new : new = PartWritten(disk[i], nodes[i], k, text)
  OBVIOUS
<1>2. disk' = Put(disk, i, new)
  BY <1>1 DEF PartWritten, Put
<1>3. disk[i] \in FS!Node /\ nodes[i] \in FS!Node /\ k \in 1 .. 5
  BY PartsOfNode DEF Shaped
<1>4. text \in Seq(Bytes)
  BY WrittenText
<1>5. /\ new \in FS!Node
      /\ \A f \in Fields : f \notin Parts[k] => new[f] = disk[i][f]
      /\ \A f \in Fields : f \in Parts[k] /\ f # "data" => new[f] = nodes[i][f]
  <2>1. Mixed(PartWritten(disk[i], nodes[i], k, text), disk[i], nodes[i], k)
    BY <1>3, <1>4, PartShape
  <2> QED BY <1>1, <2>1 DEF Mixed
<1> QED BY <1>2, <1>5 DEF Advances

\* What is in use on the disk is in use in memory while part of it is written,
\* or is whole.
LEMMA AdvancedNode ==
    ASSUME Shaped(nodes), Shaped(disk), NEW i \in FS!Slots, NEW k \in DOMAIN Parts,
           NEW new, Advances(i, k, new)
    PROVE  /\ k # 5 => new.used = disk[i].used /\ nodes[i].used
           /\ k = 5 => /\ new.used = nodes[i].used /\ nodes[i].used # disk[i].used
                       /\ nodes[i].used => new = nodes[i]
           /\ k = 4 => /\ nodes[i].data # disk[i].data
                       /\ \A f \in {"name", "path", "type", "parent"} :
                             nodes[i][f] = disk[i][f] /\ new[f] = disk[i][f]
           /\ k \in {1, 2, 3} => \E f \in {"name", "path", "type", "parent"} :
                                    nodes[i][f] # disk[i][f]
<1>1. /\ new \in FS!Node /\ nodes[i] \in FS!Node /\ disk[i] \in FS!Node
      /\ k \in 1 .. 5
  BY PartsOfNode DEF Shaped, Advances
<1>2. ASSUME k # 5 PROVE new.used = disk[i].used /\ nodes[i].used
  <2>1. "used" \in Fields /\ "used" \notin Parts[k]
    BY <1>1, <1>2, PartsOfNode DEF Fields
  <2>2. new["used"] = disk[i]["used"]
    BY <2>1 DEF Advances
  <2> QED BY <1>2, <2>2, NextPart DEF Advances
<1>3. ASSUME k = 5
      PROVE  /\ new.used = nodes[i].used /\ nodes[i].used # disk[i].used
             /\ nodes[i].used => new = nodes[i]
  <2>1. \A f \in Fields \ {"used"} : new[f] = disk[i][f]
    BY <1>3, PartsOfNode DEF Advances
  <2>2. new["used"] = nodes[i]["used"]
    BY <1>3, PartsOfNode DEF Advances, Fields
  <2>3. nodes[i]["used"] # disk[i]["used"]
    BY <1>3, NextPart DEF Advances
  <2>4. ASSUME nodes[i].used PROVE new = nodes[i]
    <3>1. \A f \in Fields \ {"used"} : nodes[i][f] = disk[i][f]
      BY <1>3, <2>4, NextPart DEF Advances
    <3>2. \A f \in Fields \ {"used"} : new[f] = nodes[i][f]
      BY <2>1, <3>1
    <3> QED BY <1>1, <2>2, <3>2, SameNode DEF Fields
  <2> QED BY <2>2, <2>3, <2>4
<1>4. ASSUME k = 4
      PROVE  /\ nodes[i].data # disk[i].data
             /\ \A f \in {"name", "path", "type", "parent"} :
                   nodes[i][f] = disk[i][f] /\ new[f] = disk[i][f]
  <2>1. \A f \in Fields \ {"data"} : new[f] = disk[i][f]
    BY <1>4, PartsOfNode DEF Advances
  <2>2. /\ nodes[i]["data"] # disk[i]["data"]
        /\ \A f \in Fields \ {"used", "data"} : nodes[i][f] = disk[i][f]
    BY <1>4, NextPart DEF Advances
  <2> QED BY <2>1, <2>2 DEF Fields
<1>5. ASSUME k \in {1, 2, 3}
      PROVE  \E f \in {"name", "path", "type", "parent"} : nodes[i][f] # disk[i][f]
  <2>1. PICK f \in Parts[k] : nodes[i][f] # disk[i][f]
    BY NextPart DEF Advances, Differs
  <2> QED BY <1>5, <2>1, PartsOfNode
<1> QED BY <1>2, <1>3, <1>4, <1>5

\* A sector of a save keeps the disk's shape.
LEMMA DiskShaped ==
    ASSUME Shaped(nodes), Shaped(disk), NEW i \in FS!Slots, NEW k \in DOMAIN Parts,
           NEW new, Advances(i, k, new)
    PROVE  Shaped(disk')
<1>1. ASSUME new.used
      PROVE  IF i = FS!Root THEN new.parent = -1 ELSE new.name \in Names
  <2>1. CASE k = 5
    <3>1. new = nodes[i] /\ nodes[i].used
      BY <1>1, <2>1, AdvancedNode
    <3> QED BY <3>1 DEF Shaped
  <2>2. CASE k # 5
    <3>1. disk[i].used /\ nodes[i].used
      BY <1>1, <2>2, AdvancedNode
    <3>2. /\ new["parent"] = disk[i]["parent"] \/ new["parent"] = nodes[i]["parent"]
          /\ new["name"] = disk[i]["name"] \/ new["name"] = nodes[i]["name"]
      <4>1. "parent" \in Fields /\ "name" \in Fields
        BY DEF Fields
      <4> QED BY <4>1 DEF Advances
    <3> QED BY <3>1, <3>2 DEF Shaped
  <2> QED BY <2>1, <2>2
<1>2. new \in FS!Node /\ disk' = Put(disk, i, new)
  BY DEF Advances
<1>3. Shaped(Put(disk, i, new))
  BY <1>1, <1>2, OneNode
<1> QED BY <1>2, <1>3

\* It takes the disk one step further from the table before to the table after.
LEMMA StaysBetween ==
    ASSUME Shaped(nodes), Shaped(disk), NEW i \in FS!Slots, NEW k \in DOMAIN Parts,
           NEW new, Advances(i, k, new), NEW b, Between(b, nodes, disk)
    PROVE  Between(b, nodes, disk')
<1>1. PICK c \in FS!Slots :
        /\ \A j \in FS!Slots : j # c =>
              /\ b[j] = nodes[j] /\ disk[j].used = nodes[j].used
              /\ nodes[j].used => disk[j] = nodes[j]
        /\ Torn(b[c], nodes[c], disk[c])
  BY DEF Between
<1>2. k \in 1 .. 5
  BY PartsOfNode
<1>3. ~(disk[i].used = nodes[i].used /\ (nodes[i].used => disk[i] = nodes[i]))
  BY <1>2, AdvancedNode
<1>4. i = c
  BY <1>1, <1>3
<1>5. Torn(b[i], nodes[i], new)
  <2>1. CASE b[i] = nodes[i] /\ disk[i].used = nodes[i].used
             /\ (nodes[i].used => disk[i] = nodes[i])
    BY <1>3, <2>1
  <2>2. CASE b[i].used = FALSE /\ nodes[i].used /\ (disk[i].used => disk[i] = nodes[i])
    <3>1. ~disk[i].used
      BY <1>3, <2>2
    <3>2. new.used => new = nodes[i]
      BY <3>1, AdvancedNode
    <3> QED BY <2>2, <3>2 DEF Torn
  <2>3. CASE b[i].used /\ nodes[i].used = FALSE /\ (disk[i].used => disk[i] = b[i])
    <3>1. ~new.used
      BY <2>3, AdvancedNode
    <3> QED BY <2>3, <3>1 DEF Torn
  <2>4. CASE /\ b[i].used /\ nodes[i].used /\ disk[i].used = nodes[i].used
             /\ b[i].data # nodes[i].data
             /\ \A f \in {"name", "path", "type", "parent"} :
                   disk[i][f] = nodes[i][f] /\ b[i][f] = nodes[i][f]
    <3>1. k = 4
      <4>1. k # 5
        <5>1. k = 5 => nodes[i].used # disk[i].used
          BY AdvancedNode
        <5> QED BY <2>4, <5>1
      <4>2. k \notin {1, 2, 3}
        <5>1. ~\E f \in {"name", "path", "type", "parent"} : nodes[i][f] # disk[i][f]
          BY <2>4
        <5> QED BY <5>1, AdvancedNode
      <4> QED BY <1>2, <4>1, <4>2
    <3>2. /\ new.used = disk[i].used
          /\ \A f \in {"name", "path", "type", "parent"} : new[f] = disk[i][f]
      BY <3>1, AdvancedNode
    <3> QED BY <2>4, <3>2 DEF Torn
  <2> QED BY <1>1, <1>4, <2>1, <2>2, <2>3, <2>4 DEF Torn
<1>6. new \in FS!Node /\ disk' = Put(disk, i, new)
  BY DEF Advances
<1>7. disk'[i] = new /\ \A j \in FS!Slots : j # i => disk'[j] = disk[j]
  BY <1>6 DEF Put, Shaped
<1> QED BY <1>1, <1>4, <1>5, <1>7 DEF Between

\* The save is over when all of it is on the disk.
LEMMA SavedHolds ==
    ASSUME Shaped(nodes), Shaped(disk), Saved
    PROVE  Holds(disk, nodes)
<1> SUFFICES ASSUME NEW i \in FS!Slots
             PROVE  disk[i].used = nodes[i].used /\ (nodes[i].used => disk[i] = nodes[i])
  BY DEF Holds
<1>1. \A k \in 1 .. 5 : ~Differs(i, k)
  BY PartsOfNode DEF Saved
<1>2. \A k \in 1 .. 5, f \in Fields :
         f \in Parts[k] /\ (nodes[i].used \/ f = "used") => nodes[i][f] = disk[i][f]
  BY <1>1 DEF Differs
<1>3. nodes[i]["used"] = disk[i]["used"]
  BY <1>2, PartsOfNode DEF Fields
<1>4. ASSUME nodes[i].used PROVE disk[i] = nodes[i]
  <2>1. \A f \in Fields : \E k \in 1 .. 5 : f \in Parts[k]
    BY PartsOfNode DEF Fields
  <2>2. \A f \in Fields : nodes[i][f] = disk[i][f]
    BY <1>2, <1>4, <2>1
  <2>3. disk[i] \in FS!Node /\ nodes[i] \in FS!Node
    BY DEF Shaped
  <2> QED BY <2>2, <2>3, SameNode DEF Fields
<1> QED BY <1>3, <1>4

-----------------------------------------------------------------------------
(***************************************************************************)
(* The invariant.                                                          *)
(***************************************************************************)
\* What goes on in each phase; a move that is still rewriting paths has not
\* saved anything.
Stages ==
    /\ phase = "tree" => saving /\ pending = FS!NoWrite
    /\ phase # "prompt" => frames = << >>
    /\ phase = "programs" /\ pending # FS!NoWrite => next_program <= Len(Helps)
    /\ phase \in {"programs", "prompt"} => header
    /\ saving => frames = << >>
    /\ frames # << >> => moved /\ pending = FS!NoWrite /\ rc = 0 /\ Holds(disk, before)
    /\ overrun => frames # << >>

Running == phase \in {"programs", "prompt"}

\* Whenever no operation and no save is under way the disk holds the table.
Clean == Running /\ ~saving /\ frames = << >> => Holds(disk, nodes)

\* During a save the disk is between two tables that differ in one node.
Halfway == Running /\ saving /\ ~moved => Between(before, nodes, disk)

\* While the machine is off the disk has one of the tables it may have.
Found ==
    phase = "off" /\ header /\ expected # {} =>
        \E e \in expected : SameTree(Loaded, e, expected)

MachineInv ==
    TypeOK /\ Shaped(nodes) /\ Shaped(disk) /\ Stages /\ Clean /\ Halfway /\ Found

LEMMA MachineTree == ASSUME MachineInv PROVE TreeOK
BY DEF MachineInv, TypeOK, TreeOK

LEMMA InitMachine == Init => MachineInv
<1> SUFFICES ASSUME Init PROVE MachineInv
  OBVIOUS
<1>1. /\ nodes = Zeroed /\ disk = Zeroed /\ phase = "off" /\ ~saving /\ ~header
      /\ frames = << >> /\ pending = FS!NoWrite /\ overrun = FALSE /\ rc = 0
      /\ current_dir = << >>
  BY DEF Init
<1>2. Shaped(nodes) /\ Shaped(disk)
  BY <1>1, BlankShape
<1>3. nodes \in [FS!Slots -> FS!Node] /\ disk \in [FS!Slots -> FS!Node]
  BY <1>2 DEF Shaped
<1>4. FS!TypeOK
  BY <1>1, <1>3, Empty DEF FS!TypeOK
<1>5. next_program \in 1 .. Len(Helps) + 1
  <2>1. Len(Helps) \in Nat
    BY HelpsAssumption, LenProperties
  <2> QED BY <2>1 DEF Init
<1>6. commands \in 0 .. MaxCommands /\ losses \in 0 .. MaxLosses
  BY BoundsAssumption DEF Init
<1>7. TypeOK
  BY <1>1, <1>3, <1>4, <1>5, <1>6 DEF TypeOK, FS!Idle, Init
<1>8. Stages /\ Clean /\ Halfway /\ Found
  BY <1>1 DEF Stages, Clean, Halfway, Found, Running
<1> QED BY <1>2, <1>7, <1>8 DEF MachineInv

\* A disk that holds a table is loaded as that table.
LEMMA LoadedNodes ==
    ASSUME Shaped(disk), NEW i \in FS!Slots
    PROVE  Loaded[i].used = disk[i].used /\ (disk[i].used => Loaded[i] = disk[i])
<1>1. disk[i] \in FS!Node /\ disk[i].used \in BOOLEAN
  BY DEF Shaped, FS!Node
<1>2. CASE disk[i].used
  BY <1>2 DEF Loaded
<1>3. CASE ~disk[i].used
  BY <1>1, <1>3, FreedShape DEF Loaded
<1> QED BY <1>2, <1>3

LEMMA LoadHolds == ASSUME Shaped(disk) PROVE Holds(disk, Loaded)
BY LoadedNodes DEF Holds

LEMMA LoadFinds ==
    ASSUME Shaped(disk), NEW e, Holds(disk, e), NEW E
    PROVE  SameTree(Loaded, e, E)
BY LoadedNodes DEF SameTree, Holds

\* A disk that a save left between two tables is loaded as one of them.
LEMMA LoadFindsOne ==
    ASSUME Shaped(disk), NEW b, NEW n, Between(b, n, disk)
    PROVE  SameTree(Loaded, b, {b, n}) \/ SameTree(Loaded, n, {b, n})
<1>1. PICK c \in FS!Slots :
        /\ \A i \in FS!Slots : i # c =>
              b[i] = n[i] /\ disk[i].used = n[i].used /\ (n[i].used => disk[i] = n[i])
        /\ Torn(b[c], n[c], disk[c])
  BY DEF Between
<1>2. \A i \in FS!Slots :
         Loaded[i].used = disk[i].used /\ (disk[i].used => Loaded[i] = disk[i])
  BY LoadedNodes
<1> DEFINE Like(t, e, i) ==
              /\ t[i].used = e[i].used
              /\ t[i].used =>
                    /\ \A f \in {"name", "path", "type", "parent"} : t[i][f] = e[i][f]
                    /\ t[i].data = e[i].data \/ \E x, y \in {b, n} : x[i].data # y[i].data
<1>3. \A i \in FS!Slots : i # c => Like(Loaded, b, i) /\ Like(Loaded, n, i)
  BY <1>1, <1>2
<1>7. disk[c].used \in BOOLEAN
  BY DEF Shaped, FS!Node
<1>4. Like(Loaded, b, c) \/ Like(Loaded, n, c)
  <2>1. CASE b[c] = n[c] /\ disk[c].used = n[c].used /\ (n[c].used => disk[c] = n[c])
    BY <1>2, <2>1
  <2>2. CASE b[c].used = FALSE /\ n[c].used /\ (disk[c].used => disk[c] = n[c])
    BY <1>2, <1>7, <2>2
  <2>3. CASE b[c].used /\ n[c].used = FALSE /\ (disk[c].used => disk[c] = b[c])
    BY <1>2, <1>7, <2>3
  <2>4. CASE /\ b[c].used /\ n[c].used /\ disk[c].used = n[c].used
             /\ b[c].data # n[c].data
             /\ \A f \in {"name", "path", "type", "parent"} :
                   disk[c][f] = n[c][f] /\ b[c][f] = n[c][f]
    BY <1>2, <2>4
  <2> QED BY <1>1, <2>1, <2>2, <2>3, <2>4 DEF Torn
<1>5. CASE Like(Loaded, b, c)
  <2>1. \A i \in FS!Slots : Like(Loaded, b, i)
    BY <1>3, <1>5
  <2> QED BY <2>1 DEF SameTree
<1>6. CASE Like(Loaded, n, c)
  <2>1. \A i \in FS!Slots : Like(Loaded, n, i)
    BY <1>3, <1>6
  <2> QED BY <2>1 DEF SameTree
<1> QED BY <1>4, <1>5, <1>6

\* An operation over, or its first part: the save that follows takes the disk
\* from the table before to the table after.
LEMMA Settles ==
    ASSUME Effect, Holds(disk, nodes), before' = nodes, disk' = disk,
           saving' \/ nodes' = nodes
    PROVE  Clean' /\ Halfway'
<1>1. PICK b, n, d : b = nodes /\ n = nodes' /\ d = disk
  OBVIOUS
<1>2. OneChange(b, n) /\ Holds(d, b)
  BY <1>1 DEF Effect
<1>3. Between(b, n, d)
  BY <1>2, Begins
<1>4. Halfway'
  BY <1>1, <1>3 DEF Halfway
<1>5. Clean'
  BY DEF Clean
<1> QED BY <1>4, <1>5

\* The types of the variables that only Kernel has.
Kept ==
    /\ phase \in {"programs", "prompt"} /\ next_program \in 1 .. Len(Helps) + 1
    /\ saving \in BOOLEAN /\ header
    /\ commands \in 0 .. MaxCommands /\ losses \in 0 .. MaxLosses

\* Putting the invariant together again for a machine that is running.
LEMMA Together ==
    ASSUME TreeOK, Shaped(disk), Kept, Stages, Clean, Halfway
    PROVE  MachineInv
<1>1. TypeOK
  BY DEF Kept, TreeOK, Shaped, TypeOK
<1>2. Found
  BY DEF Found, Kept
<1> QED BY <1>1, <1>2 DEF MachineInv, TreeOK

-----------------------------------------------------------------------------
(***************************************************************************)
(* The steps of the machine.                                               *)
(***************************************************************************)
\* What holds of a machine that is running.
LEMMA RunningNow ==
    ASSUME MachineInv, phase # "off"
    PROVE  /\ saving \in BOOLEAN /\ header \in BOOLEAN /\ overrun \in BOOLEAN
           /\ phase \in {"tree", "programs", "prompt"}
           /\ next_program \in 1 .. Len(Helps) + 1
           /\ commands \in 0 .. MaxCommands /\ losses \in 0 .. MaxLosses
           /\ Shaped(disk) /\ TreeOK
           /\ phase \in {"programs", "prompt"} => header
           /\ ~saving => Running /\ header
BY MachineTree DEF MachineInv, TypeOK, FS!TypeOK, Stages, Running

LEMMA BootMachine == ASSUME MachineInv, Boot PROVE MachineInv'
<1>1. /\ phase = "off" /\ frames = << >> /\ pending = FS!NoWrite /\ ~overrun
      /\ TreeOK /\ Shaped(disk) /\ header \in BOOLEAN
      /\ commands \in 0 .. MaxCommands /\ losses \in 0 .. MaxLosses
      /\ saving \in BOOLEAN
  BY MachineTree DEF Boot, MachineInv, TypeOK, FS!Idle
<1>2. /\ UNCHANGED <<current_dir, frames, pending, overrun, rc, disk, header,
                     commands, losses, before, moved, expected>>
      /\ saving' = ~header /\ next_program' = 1
  BY DEF Boot, stored
<1>3. /\ header => nodes' = Loaded /\ phase' = "programs"
      /\ ~header => nodes' = FS!DefaultTree /\ phase' = "tree"
  BY DEF Boot
<1>4. Shaped(nodes')
  <2>1. CASE header
    BY <1>1, <1>3, <2>1, LoadedShaped
  <2>2. CASE ~header
    BY <1>3, <2>2, DefaultShaped
  <2> QED BY <2>1, <2>2
<1>5. nodes' \in [FS!Slots -> FS!Node] /\ disk' \in [FS!Slots -> FS!Node]
  BY <1>1, <1>2, <1>4 DEF Shaped
<1>6. 1 \in 1 .. Len(Helps) + 1
  <2>1. Len(Helps) \in Nat
    BY HelpsAssumption, LenProperties
  <2> QED BY <2>1
<1>7. TypeOK'
  <2>1. FS!TypeOK'
    BY <1>1, <1>2, <1>5 DEF TreeOK, FS!TypeOK
  <2> QED BY <1>1, <1>2, <1>3, <1>5, <1>6, <2>1 DEF TypeOK
<1>8. Stages'
  BY <1>1, <1>2, <1>3 DEF Stages
<1>9. Clean' /\ Halfway'
  <2>1. CASE header
    <3>1. Holds(disk, Loaded)
      BY <1>1, LoadHolds
    <3> QED BY <1>2, <1>3, <2>1, <3>1 DEF Clean, Halfway
  <2>2. CASE ~header
    BY <1>3, <2>2 DEF Clean, Halfway, Running
  <2> QED BY <2>1, <2>2
<1>10. Found'
  BY <1>1, <1>3 DEF Found
<1> QED BY <1>1, <1>2, <1>4, <1>7, <1>8, <1>9, <1>10 DEF MachineInv

LEMMA SaveMachine == ASSUME MachineInv, SaveSector PROVE MachineInv'
<1>1. /\ saving /\ phase # "off" /\ frames = << >>
  BY DEF SaveSector, MachineInv, TypeOK, Stages
<1>2. UNCHANGED <<nodes, current_dir, frames, pending, overrun, rc,
                  next_program, commands, losses, before, moved, expected>>
  BY DEF SaveSector, tree, history
<1>3. /\ saving \in BOOLEAN /\ header \in BOOLEAN
      /\ phase \in {"tree", "programs", "prompt"}
      /\ next_program \in 1 .. Len(Helps) + 1
      /\ commands \in 0 .. MaxCommands /\ losses \in 0 .. MaxLosses
      /\ Shaped(disk) /\ TreeOK
      /\ phase \in {"programs", "prompt"} => header
  BY <1>1, RunningNow
<1>4. TreeOK'
  BY <1>2, <1>3 DEF TreeOK, FS!TypeOK
<1>5. ~overrun /\ (phase = "tree" => pending = FS!NoWrite) /\ Stages
  BY <1>1 DEF MachineInv, Stages
<1>6. ASSUME Shaped(disk'), phase' = phase, saving' = saving, header', header' \in BOOLEAN,
             Running => Halfway'
      PROVE  MachineInv'
  <2>1. TypeOK'
    BY <1>2, <1>3, <1>4, <1>6 DEF TypeOK, TreeOK, Shaped
  <2>2. Stages' /\ Clean' /\ Found' /\ Halfway'
    BY <1>1, <1>2, <1>3, <1>5, <1>6 DEF Stages, Clean, Found, Halfway, Running
  <2> QED BY <1>4, <1>6, <2>1, <2>2 DEF MachineInv, TreeOK
<1>7. CASE ~header /\ header' = TRUE /\ UNCHANGED <<disk, saving, phase>>
  <2>1. ~Running
    BY <1>3, <1>7 DEF Running
  <2> QED BY <1>3, <1>6, <1>7, <2>1
<1>8. ASSUME header, UNCHANGED <<header, saving, phase>>,
             NEW i \in FS!Slots, NEW k \in DOMAIN Parts, IsNext(i, k),
             NEW text \in Written(i),
             disk' = [disk EXCEPT ![i] =
                         [f \in DOMAIN @ |-> IF f \notin Parts[k] THEN @[f]
                                             ELSE IF f = "data" THEN text
                                             ELSE nodes[i][f]]]
      PROVE  MachineInv'
  <2>1. PICK new : Advances(i, k, new)
    BY <1>3, <1>8, SectorAdvances DEF TreeOK
  <2>2. Shaped(disk')
    BY <1>3, <2>1, DiskShaped DEF TreeOK
  <2>3. ASSUME Running PROVE Halfway'
    <3>1. CASE moved
      BY <1>2, <3>1 DEF Halfway
    <3>2. CASE ~moved
      <4>1. Between(before, nodes, disk)
        BY <1>1, <2>3, <3>2 DEF MachineInv, Halfway
      <4>2. PICK b : b = before
        OBVIOUS
      <4>3. Between(b, nodes, disk')
        BY <1>3, <2>1, <4>1, <4>2, StaysBetween DEF TreeOK
      <4> QED BY <1>2, <4>2, <4>3 DEF Halfway
    <3> QED BY <3>1, <3>2
  <2> QED BY <1>3, <1>6, <1>8, <2>2, <2>3
<1>9. CASE /\ header /\ Saved /\ saving' = FALSE
           /\ phase' = IF phase = "tree" THEN "programs" ELSE phase
           /\ UNCHANGED stored
  <2>1. UNCHANGED <<disk, header>>
    BY <1>9 DEF stored
  <2>2. Holds(disk, nodes)
    BY <1>3, <1>9, SavedHolds DEF TreeOK
  <2>3. phase' \in {"programs", "prompt"} /\ (phase' = "prompt" => phase = "prompt")
        /\ (phase' = "programs" => phase \in {"tree", "programs"})
    BY <1>3, <1>9
  <2>4. TypeOK'
    BY <1>2, <1>3, <1>4, <1>9, <2>1, <2>3 DEF TypeOK, TreeOK, Shaped
  <2>5. Clean' /\ Halfway' /\ Found'
    BY <1>2, <1>9, <2>1, <2>2, <2>3 DEF Clean, Halfway, Found
  <2>6. Stages'
    BY <1>1, <1>2, <1>5, <1>9, <2>1, <2>3 DEF Stages
  <2> QED BY <1>3, <1>4, <2>1, <2>4, <2>5, <2>6 DEF MachineInv, TreeOK
<1> QED BY <1>7, <1>8, <1>9 DEF SaveSector

\* A machine whose operation, or the first part of it, is over.
LEMMA EffectMachine ==
    ASSUME MachineInv, Running, ~saving, Effect, ~overrun, frames = << >>,
           saving' \in BOOLEAN, saving' \/ nodes' = nodes, before' = nodes,
           UNCHANGED <<phase, header, disk, losses>>,
           commands' \in 0 .. MaxCommands, next_program' \in 1 .. Len(Helps) + 1,
           phase = "programs" /\ pending' # FS!NoWrite => next_program' <= Len(Helps)
    PROVE  MachineInv'
<1>1. Holds(disk, nodes)
  BY DEF MachineInv, Clean
<1>2. Clean' /\ Halfway'
  BY <1>1, Settles
<1>3. TreeOK' /\ Shaped(disk') /\ frames' = << >> /\ ~overrun' /\ header
  BY DEF Effect, MachineInv, Stages, Running
<1>4. Stages' /\ Kept'
  BY <1>3 DEF Stages, Kept, Running, MachineInv, TypeOK
<1>5. TypeOK'
  BY <1>3, <1>4 DEF Kept, TreeOK, Shaped, TypeOK
<1>6. Found'
  BY DEF Found, Running
<1> QED BY <1>2, <1>3, <1>4, <1>5, <1>6 DEF MachineInv, TreeOK

\* Where a step ends in persist_if_enabled, what was changed is saved.
LEMMA PersistsEffect ==
    ASSUME Effect, Persists, ~overrun
    PROVE  saving' \in BOOLEAN /\ (saving' \/ nodes' = nodes)
BY DEF Effect, Persists

LEMMA ContinueMachine == ASSUME MachineInv, Continue PROVE MachineInv'
<1>1. phase # "off" /\ ~saving
  BY DEF Continue, FS!RebuildStep, FS!PendingWrite, MachineInv, TypeOK, FS!Idle
<1>2. /\ Running /\ header /\ Shaped(disk) /\ TreeOK
      /\ commands \in 0 .. MaxCommands /\ losses \in 0 .. MaxLosses
      /\ next_program \in 1 .. Len(Helps) + 1
  BY <1>1, RunningNow
<1>3. /\ UNCHANGED <<phase, disk, header, commands, losses, expected>> /\ Persists
      /\ next_program' = next_program + IF phase = "programs" THEN 1 ELSE 0
  BY DEF Continue, stored
<1>4. CASE FS!RebuildStep /\ UNCHANGED <<before, moved>>
  <2>1. /\ TreeOK' /\ frames # << >> /\ UNCHANGED <<pending, rc>>
        /\ overrun' => frames' # << >>
    BY <1>2, <1>4, Rebuilt
  <2>2. /\ phase = "prompt" /\ moved /\ pending = FS!NoWrite /\ rc = 0
        /\ Holds(disk, before)
    BY <1>2, <2>1 DEF MachineInv, Stages, Running
  <2>3. saving' = (frames' = << >>)
    BY <1>3, <2>1, <2>2 DEF Persists
  <2>4. next_program' = next_program
    BY <1>2, <1>3, <2>2
  <2>5. Kept'
    BY <1>2, <1>3, <2>2, <2>3, <2>4 DEF Kept
  <2>6. Stages' /\ Clean' /\ Halfway'
    BY <1>2, <1>3, <1>4, <2>1, <2>2, <2>3 DEF Stages, Clean, Halfway
  <2>7. TypeOK'
    BY <1>2, <1>3, <2>1, <2>5 DEF Kept, TreeOK, Shaped, TypeOK
  <2>8. Found'
    BY <1>3, <2>2 DEF Found
  <2> QED BY <1>2, <1>3, <2>1, <2>6, <2>7, <2>8 DEF MachineInv, TreeOK
<1>5. CASE FS!PendingWrite /\ before' = nodes
  <2>1. pending # FS!NoWrite /\ frames = << >> /\ ~overrun
    BY <1>5 DEF FS!PendingWrite, MachineInv, Stages
  <2>2. Effect /\ pending' = FS!NoWrite
    BY <1>2, <1>5, <2>1, WroteOwed
  <2>3. saving' \in BOOLEAN /\ (saving' \/ nodes' = nodes)
    BY <1>3, <2>1, <2>2, PersistsEffect
  <2>4. next_program' \in 1 .. Len(Helps) + 1
    <3>1. phase = "programs" => next_program <= Len(Helps)
      BY <2>1 DEF MachineInv, Stages
    <3>2. Len(Helps) \in Nat
      BY HelpsAssumption, LenProperties
    <3> QED BY <1>2, <1>3, <3>1, <3>2
  <2> QED BY <1>1, <1>2, <1>3, <1>5, <2>1, <2>2, <2>3, <2>4, EffectMachine
<1> QED BY <1>4, <1>5 DEF Continue

LEMMA ProgramsMachine == ASSUME MachineInv, ProgramsInit PROVE MachineInv'
<1>1. /\ phase = "programs" /\ ~saving /\ FS!Idle
      /\ frames = << >> /\ pending = FS!NoWrite /\ ~overrun
  BY DEF ProgramsInit, Ready, FS!Idle
<1>2. /\ Running /\ header /\ Shaped(disk) /\ TreeOK /\ saving \in BOOLEAN
      /\ commands \in 0 .. MaxCommands /\ losses \in 0 .. MaxLosses
      /\ next_program \in 1 .. Len(Helps) + 1
  BY <1>1, RunningNow
<1>3. UNCHANGED <<disk, header, commands, losses, expected>>
  BY DEF ProgramsInit, stored
<1>4. Len(Helps) \in Nat /\ \A k \in 1 .. Len(Helps) : Helps[k] \in Names
  BY HelpsAssumption, LenProperties, ElementOfSeq
<1>5. CASE More /\ MakeHelp(HelpPath(next_program))
  <2>1. next_program \in 1 .. Len(Helps)
    BY <1>2, <1>4, <1>5 DEF More
  <2>2. HelpPath(next_program) \in Seq(Names)
    BY <1>4, <2>1, TableAssumption DEF HelpPath
  <2>3. /\ Effect /\ pending' # FS!NoWrite
        /\ (nodes' = nodes /\ saving' = saving) \/ saving'
    BY <1>1, <1>2, <1>5, <2>2, MadeHelp
  <2>4. saving' \in BOOLEAN
    BY <1>2, <1>5 DEF MakeHelp
  <2>5. before' = nodes /\ UNCHANGED <<phase, next_program>>
    BY <1>5 DEF MakeHelp
  <2> QED BY <1>1, <1>2, <1>3, <2>1, <2>3, <2>4, <2>5, EffectMachine
<1>6. ASSUME UNCHANGED <<tree, saving, before, moved>>, phase' \in {"programs", "prompt"},
             next_program' \in 1 .. Len(Helps) + 1
      PROVE  MachineInv'
  <2>1. UNCHANGED <<nodes, current_dir, frames, pending, overrun, rc>>
    BY <1>6 DEF tree
  <2>2. TreeOK'
    BY <1>2, <2>1 DEF TreeOK, FS!TypeOK
  <2>3. TypeOK'
    BY <1>2, <1>3, <1>6, <2>1, <2>2 DEF TreeOK, Shaped, TypeOK
  <2>4. Stages' /\ Found'
    BY <1>1, <1>2, <1>3, <1>6, <2>1 DEF Stages, Found
  <2>5. Clean' /\ Halfway'
    BY <1>1, <1>2, <1>3, <1>6, <2>1 DEF Clean, Halfway, MachineInv
  <2> QED BY <1>2, <1>3, <2>2, <2>3, <2>4, <2>5 DEF MachineInv, TreeOK
<1>7. CASE More /\ next_program' = Passed(next_program)
           /\ UNCHANGED <<tree, saving, phase, before, moved>>
  <2>1. next_program' \in 1 .. Len(Helps) + 1
    BY <1>2, <1>4, <1>7 DEF More, Passed
  <2> QED BY <1>1, <1>6, <1>7, <2>1
<1>8. CASE phase' = "prompt" /\ UNCHANGED <<tree, saving, next_program, before, moved>>
  BY <1>2, <1>6, <1>8
<1> QED BY <1>5, <1>7, <1>8 DEF ProgramsInit

LEMMA CommandMachine == ASSUME MachineInv, Command PROVE MachineInv'
<1>1. /\ phase = "prompt" /\ ~saving /\ FS!Idle
      /\ frames = << >> /\ pending = FS!NoWrite /\ ~overrun
  BY DEF Command, Ready, FS!Idle
<1>2. /\ Running /\ header /\ Shaped(disk) /\ TreeOK /\ saving \in BOOLEAN
      /\ commands \in 0 .. MaxCommands /\ losses \in 0 .. MaxLosses
      /\ next_program \in 1 .. Len(Helps) + 1 /\ Holds(disk, nodes)
  BY <1>1, RunningNow DEF MachineInv, Clean
<1>3. /\ UNCHANGED <<phase, disk, header, losses, next_program, expected>>
      /\ before' = nodes /\ commands' \in 0 .. MaxCommands
  BY <1>2, BoundsAssumption DEF Command, stored
<1>4. PICK args \in Words :
         \/ Change(args) /\ Persists /\ moved' = FALSE
         \/ prog_move(args) /\ Persists /\ moved' = TRUE
         \/ (prog_cd(args) \/ prog_load) /\ moved' = FALSE /\ UNCHANGED saving
         \/ SaveCommand /\ saving' = TRUE /\ moved' = FALSE
  BY DEF Command
<1>5. ASSUME Effect, saving' \in BOOLEAN, saving' \/ nodes' = nodes
      PROVE  MachineInv'
  BY <1>1, <1>2, <1>3, <1>5, EffectMachine
<1>6. CASE Change(args) /\ Persists
  <2>1. Effect
    BY <1>1, <1>2, <1>6, Changed
  <2> QED BY <1>1, <1>5, <1>6, <2>1, PersistsEffect
<1>7. CASE prog_move(args) /\ Persists /\ moved' = TRUE
  <2>1. CASE Usage
    <3>1. Effect
      BY <1>1, <1>2, <2>1, Refuses DEF Usage
    <3> QED BY <1>1, <1>5, <1>7, <3>1, PersistsEffect
  <2>2. CASE ~(Len(args) < 2) /\ FS!Move(args[1], args[2])
    <3>1. /\ TreeOK' /\ UNCHANGED <<overrun, pending>>
          /\ rc' = 0 \/ (rc' = 1 /\ frames' = << >> /\ nodes' = nodes)
      BY <1>2, <2>2, Args, Moved
    <3>2. saving' = (frames' = << >> /\ rc' = 0)
      BY <1>1, <1>7, <3>1 DEF Persists
    <3>3. TypeOK'
      BY <1>1, <1>2, <1>3, <3>1, <3>2 DEF TreeOK, Shaped, TypeOK
    <3>4. Stages' /\ Found'
      BY <1>1, <1>2, <1>3, <1>7, <3>1, <3>2 DEF Stages, Found
    <3>5. Clean' /\ Halfway'
      BY <1>1, <1>2, <1>3, <1>7, <3>1, <3>2 DEF Clean, Halfway
    <3> QED BY <1>2, <1>3, <3>1, <3>3, <3>4, <3>5 DEF MachineInv, TreeOK
  <2> QED BY <1>7, <2>1, <2>2 DEF prog_move
<1>8. CASE (prog_cd(args) \/ prog_load) /\ UNCHANGED saving
  <2>1. /\ TreeOK' /\ UNCHANGED <<frames, pending, overrun>>
        /\ nodes' = nodes \/ nodes' = Loaded
    BY <1>1, <1>2, <1>8, ChangedDir, Reloaded
  <2>2. Holds(disk, nodes')
    BY <1>2, <2>1, LoadHolds
  <2>3. TypeOK'
    BY <1>1, <1>2, <1>3, <1>8, <2>1 DEF TreeOK, Shaped, TypeOK
  <2>4. Stages' /\ Found' /\ Clean' /\ Halfway'
    BY <1>1, <1>2, <1>3, <1>8, <2>1, <2>2 DEF Stages, Found, Clean, Halfway
  <2> QED BY <1>2, <1>3, <2>1, <2>3, <2>4 DEF MachineInv, TreeOK
<1>9. CASE SaveCommand /\ saving' = TRUE
  <2>1. /\ current_dir' \in Seq(Names) /\ rc' \in {0, 1} /\ pending' = FS!NoWrite
        /\ UNCHANGED <<nodes, frames, overrun>>
    BY <1>1, <1>2, <1>9 DEF SaveCommand, TreeOK, FS!TypeOK
  <2>2. Effect
    BY <1>1, <1>2, <2>1, Leaves
  <2> QED BY <1>5, <1>9, <2>2
<1> QED BY <1>4, <1>6, <1>7, <1>8, <1>9

\* Where the power may go the disk has a table that the next boot may find.
LEMMA LossMachine == ASSUME MachineInv, PowerLoss PROVE MachineInv'
<1>1. /\ phase # "off" /\ phase' = "off" /\ next_program' = 1 /\ saving' = FALSE
      /\ nodes' = Zeroed /\ current_dir' = << >> /\ frames' = << >>
      /\ pending' = FS!NoWrite /\ overrun' = FALSE /\ rc' = 0
      /\ UNCHANGED <<header, disk, commands>> /\ losses' = losses + 1 /\ losses < MaxLosses
  BY DEF PowerLoss, stored
<1>2. /\ saving \in BOOLEAN /\ header \in BOOLEAN /\ overrun \in BOOLEAN
      /\ phase \in {"tree", "programs", "prompt"}
      /\ commands \in 0 .. MaxCommands /\ losses \in 0 .. MaxLosses
      /\ Shaped(disk) /\ TreeOK /\ (~saving => Running)
  BY <1>1, RunningNow
<1>3. Shaped(nodes') /\ nodes' \in [FS!Slots -> FS!Node]
  BY <1>1, BlankShape DEF Shaped
<1>4. TypeOK'
  <2>1. FS!TypeOK'
    BY <1>1, <1>3, Empty DEF FS!TypeOK
  <2>2. 1 \in 1 .. Len(Helps) + 1 /\ losses' \in 0 .. MaxLosses
    <3>1. Len(Helps) \in Nat
      BY HelpsAssumption, LenProperties
    <3> QED BY <1>1, <1>2, <3>1, BoundsAssumption
  <2> QED BY <1>1, <1>2, <1>3, <2>1, <2>2 DEF TypeOK, FS!Idle, Shaped
<1>5. Stages' /\ Clean' /\ Halfway'
  BY <1>1 DEF Stages, Clean, Halfway, Running
<1>6. Loaded' = Loaded
  BY <1>1 DEF Loaded
<1>7. Stages /\ Clean /\ Halfway
  BY DEF MachineInv
<1>8. \/ expected' = {}
      \/ frames # << >> /\ expected' = {before}
      \/ saving /\ ~Rewrites /\ expected' = {before, nodes}
      \/ ~saving /\ frames = << >> /\ expected' = {nodes}
  <2>1. CASE overrun \/ (saving /\ Rewrites)
    <3>1. expected' = {}
      <4>1. ~(frames # << >> /\ ~overrun) /\ ~(saving /\ ~Rewrites)
        BY <1>2, <1>7, <2>1 DEF Stages
      <4> QED BY <2>1, <4>1 DEF PowerLoss
    <3> QED BY <3>1
  <2>2. CASE frames # << >> /\ ~overrun
    <3>1. ~saving
      BY <1>7, <2>2 DEF Stages
    <3> QED BY <2>2, <3>1 DEF PowerLoss
  <2>3. CASE saving /\ ~Rewrites
    <3>1. frames = << >> /\ ~overrun
      BY <1>7, <2>3 DEF Stages
    <3> QED BY <2>3, <3>1 DEF PowerLoss
  <2>4. CASE ~saving /\ frames = << >> /\ ~overrun
    BY <2>4 DEF PowerLoss
  <2> QED BY <1>2, <2>1, <2>2, <2>3, <2>4
<1>9. expected' # {} => \E e \in expected' : SameTree(Loaded, e, expected')
  <2>1. CASE frames # << >> /\ expected' = {before}
    <3>1. PICK e : e = before
      OBVIOUS
    <3>2. SameTree(Loaded, e, {e})
      BY <1>2, <1>7, <2>1, <3>1, LoadFinds DEF Stages
    <3> QED BY <2>1, <3>1, <3>2
  <2>2. CASE saving /\ ~Rewrites /\ expected' = {before, nodes}
    <3>1. PICK b, n : b = before /\ n = nodes
      OBVIOUS
    <3>2. Between(b, n, disk)
      BY <1>2, <1>7, <2>2, <3>1 DEF Rewrites, Halfway, Running
    <3>3. SameTree(Loaded, b, {b, n}) \/ SameTree(Loaded, n, {b, n})
      BY <1>2, <3>2, LoadFindsOne
    <3> QED BY <2>2, <3>1, <3>3
  <2>3. CASE ~saving /\ frames = << >> /\ expected' = {nodes}
    <3>1. PICK e : e = nodes
      OBVIOUS
    <3>2. Holds(disk, e)
      BY <1>2, <1>7, <2>3, <3>1 DEF Clean
    <3>3. SameTree(Loaded, e, {e})
      BY <1>2, <3>2, LoadFinds
    <3> QED BY <2>3, <3>1, <3>3
  <2> QED BY <1>8, <2>1, <2>2, <2>3
<1>10. Found'
  BY <1>6, <1>9 DEF Found
<1> QED BY <1>1, <1>2, <1>3, <1>4, <1>5, <1>10 DEF MachineInv

LEMMA NextMachine == MachineInv /\ [Next]_vars => MachineInv'
<1> SUFFICES ASSUME MachineInv, [Next]_vars PROVE MachineInv'
  OBVIOUS
<1>1. CASE UNCHANGED vars
  BY <1>1 DEF vars, tree, stored, history, MachineInv, TypeOK, FS!TypeOK, FS!Idle,
     Stages, Clean, Halfway, Found, Running, Loaded
<1> QED BY <1>1, BootMachine, SaveMachine, ContinueMachine, ProgramsMachine,
           CommandMachine, LossMachine DEF Next, Step

-----------------------------------------------------------------------------
(***************************************************************************)
(* The boot.  What programs_init does is followed from the table fs_init   *)
(* left to the prompt: every file it makes is new, and the write it owes   *)
(* is to a file it made.                                                   *)
(***************************************************************************)
\* While the table fs_init left is to be kept, nothing is being moved, and a
\* write that programs_init still owes is for a file that was not there.
Untouched ==
    loaded # NoTable =>
        /\ DOMAIN nodes = FS!Slots
        /\ frames = << >>
        /\ pending # FS!NoWrite =>
              \A i \in FS!Slots : loaded[i].used => loaded[i].path # pending[1]

\* A machine that is off does nothing.
OffIdle == phase = "off" => frames = << >> /\ pending = FS!NoWrite

BootInv == Untouched /\ OffIdle /\ BootKeeps

LEMMA InitBoot == Init => BootInv
BY DEF Init, BootInv, Untouched, OffIdle, BootKeeps

\* Steps that leave the table and what goes on in it alone.
LEMMA KeptBoot ==
    ASSUME BootInv, UNCHANGED <<nodes, frames, pending, loaded>>,
           phase' = "off" => phase = "off"
    PROVE  BootInv'
BY DEF BootInv, Untouched, OffIdle, BootKeeps

\* A help file is made in a free slot, under a path that nothing has.
LEMMA HelpBoot ==
    ASSUME BootInv, NEW p, Missing(p), MakeHelp(p), phase = "programs", UNCHANGED loaded
    PROVE  BootInv'
<1>1. OffIdle'
  BY DEF MakeHelp, OffIdle
<1>2. SUFFICES ASSUME loaded # NoTable PROVE Untouched' /\ BootKeeps'
  BY <1>1 DEF BootInv, Untouched, BootKeeps
<1>3. /\ DOMAIN nodes = FS!Slots /\ frames = << >> /\ frames' = << >>
      /\ pending'[1] = p
      /\ \A i \in FS!Slots : loaded[i].used => nodes[i] = loaded[i]
  BY <1>2 DEF BootInv, Untouched, BootKeeps, MakeHelp
<1>4. /\ DOMAIN nodes' = FS!Slots
      /\ \A i \in FS!Slots : nodes[i].used => nodes'[i] = nodes[i]
  <2>1. CASE FS!CreateNode(p, "FILE")
    BY <1>3, <2>1 DEF FS!CreateNode, FS!Allocates
  <2>2. CASE UNCHANGED nodes
    BY <1>3, <2>2
  <2> QED BY <2>1, <2>2 DEF MakeHelp
<1>5. \A i \in FS!Slots : loaded[i].used => loaded[i].path # p
  BY <1>3 DEF Missing, FS!Exists, FS!HasPath
<1>6. Untouched'
  BY <1>3, <1>4, <1>5 DEF Untouched
<1>7. BootKeeps'
  BY <1>3, <1>4 DEF BootKeeps
<1> QED BY <1>6, <1>7

\* The write that follows goes to that file.
LEMMA WriteBoot ==
    ASSUME BootInv, FS!PendingWrite, UNCHANGED <<phase, loaded>>
    PROVE  BootInv'
<1>1. frames' = frames /\ pending' = FS!NoWrite /\ pending # FS!NoWrite
  BY DEF FS!PendingWrite, FS!StoreFile
<1>2. OffIdle'
  BY <1>1 DEF BootInv, OffIdle
<1>3. SUFFICES ASSUME loaded # NoTable PROVE Untouched' /\ BootKeeps'
  BY <1>2 DEF BootInv, Untouched, BootKeeps
<1>4. /\ DOMAIN nodes = FS!Slots /\ frames = << >>
      /\ \A i \in FS!Slots : loaded[i].used => nodes[i] = loaded[i]
      /\ \A i \in FS!Slots : loaded[i].used => loaded[i].path # pending[1]
  BY <1>1, <1>3 DEF BootInv, Untouched, BootKeeps
<1>5. /\ DOMAIN nodes' = FS!Slots
      /\ \A i \in FS!Slots : nodes[i].path # pending[1] => nodes'[i] = nodes[i]
  <2>1. CASE UNCHANGED nodes
    BY <1>4, <2>1
  <2>2. ASSUME NEW i \in FS!Slots, FS!FileAt(i, pending[1]),
               nodes' = [nodes EXCEPT ![i].data = pending[2]]
        PROVE  /\ DOMAIN nodes' = FS!Slots
               /\ \A j \in FS!Slots : nodes[j].path # pending[1] => nodes'[j] = nodes[j]
    <3>1. nodes[i].path = pending[1]
      BY <2>2 DEF FS!FileAt, FS!Finds, FS!HasPath
    <3> QED BY <1>4, <2>2, <3>1
  <2> QED BY <2>1, <2>2 DEF FS!PendingWrite, FS!StoreFile
<1>6. Untouched'
  BY <1>1, <1>4, <1>5 DEF Untouched
<1>7. BootKeeps'
  BY <1>4, <1>5 DEF BootKeeps
<1> QED BY <1>6, <1>7

\* Every step of the machine keeps the invariant.
LEMMA NextBoot == BootInv /\ [Next]_vars => BootInv'
<1> SUFFICES ASSUME BootInv, [Next]_vars PROVE BootInv'
  OBVIOUS
<1>1. CASE Boot
  <2>1. /\ frames = << >> /\ pending = FS!NoWrite /\ UNCHANGED <<frames, pending>>
        /\ loaded' = nodes' /\ phase' # "off"
    BY <1>1 DEF Boot, BootInv, OffIdle
  <2>2. DOMAIN nodes' = FS!Slots
    BY <1>1 DEF Boot, Loaded, FS!DefaultTree
  <2> QED BY <2>1, <2>2 DEF BootInv, Untouched, OffIdle, BootKeeps
<1>2. CASE SaveSector
  <2>1. UNCHANGED <<nodes, frames, pending, loaded>>
    BY <1>2 DEF SaveSector, tree, history
  <2>2. phase' = "off" => phase = "off"
    BY <1>2 DEF SaveSector
  <2> QED BY <2>1, <2>2, KeptBoot
<1>3. CASE Continue
  <2>1. UNCHANGED <<phase, loaded>>
    BY <1>3 DEF Continue
  <2>2. CASE FS!PendingWrite
    BY <2>1, <2>2, WriteBoot
  <2>3. CASE FS!RebuildStep
    <3>1. frames # << >>
      BY <2>3 DEF FS!RebuildStep
    <3>2. loaded = NoTable /\ phase # "off"
      BY <3>1 DEF BootInv, Untouched, OffIdle
    <3> QED BY <2>1, <3>2 DEF BootInv, Untouched, OffIdle, BootKeeps
  <2> QED BY <1>3, <2>2, <2>3 DEF Continue
<1>4. CASE ProgramsInit
  <2>1. phase = "programs" /\ UNCHANGED loaded
    BY <1>4 DEF ProgramsInit
  <2>2. CASE Missing(HelpPath(next_program)) /\ MakeHelp(HelpPath(next_program))
    BY <2>1, <2>2, HelpBoot
  <2>3. CASE UNCHANGED tree /\ phase' # "off"
    BY <2>1, <2>3, KeptBoot DEF tree
  <2> QED BY <1>4, <2>1, <2>2, <2>3 DEF ProgramsInit
<1>5. CASE Command
  <2>1. loaded' = NoTable /\ phase = "prompt" /\ phase' = phase
    BY <1>5 DEF Command
  <2> QED BY <2>1 DEF BootInv, Untouched, OffIdle, BootKeeps
<1>6. CASE PowerLoss
  <2>1. loaded' = NoTable /\ frames' = << >> /\ pending' = FS!NoWrite
    BY <1>6 DEF PowerLoss
  <2> QED BY <2>1 DEF BootInv, Untouched, OffIdle, BootKeeps
<1>7. CASE UNCHANGED vars
  BY <1>7, KeptBoot DEF vars, tree, history
<1> QED BY <1>1, <1>2, <1>3, <1>4, <1>5, <1>6, <1>7 DEF Next, Step

-----------------------------------------------------------------------------
(***************************************************************************)
(* The help files.  Followed are the disk from the blank one to the one    *)
(* with the default tree, what programs_init has done for the programs     *)
(* before next_program, and the content of every file with a program's     *)
(* name, in memory while the machine runs and on the disk while it is off. *)
(***************************************************************************)
\* Program k has its help file, or cannot have one.
Tried(k) ==
    FS!Exists(HelpPath(k)) \/ FS!Full \/ ~FS!HasParent(HelpPath(k))

\* programs_init has dealt with program k, but perhaps for the write.
Past(k) ==
    \/ phase = "prompt" \/ k < next_program
    \/ k = next_program /\ pending # FS!NoWrite

AllTried ==
    Running /\ loaded # NoTable => \A k \in DOMAIN Helps : Past(k) => Tried(k)

\* The first prompt is one where nothing is left to do.
Ended ==
    phase = "prompt" /\ (loaded # NoTable \/ commands = 0) =>
        frames = << >> /\ pending = FS!NoWrite /\ ~saving

\* The write that programs_init owes is of the help text, and no node but the
\* file just made has its path.
OwedHelp ==
    phase = "programs" /\ pending # FS!NoWrite =>
        /\ pending = <<HelpPath(next_program), HelpText>>
        /\ \A i, j \in FS!Slots : FS!HasPath(i, pending[1]) =>
              nodes[i].type = "FILE" /\ (FS!HasPath(j, pending[1]) => i = j)

\* A node that has a program's path, the owed file excepted, has the text.
WholeInMemory ==
    commands = 0 /\ ~cut =>
        \A k \in DOMAIN Helps, i \in FS!Slots :
            FS!HasPath(i, HelpPath(k)) =>
                \/ nodes[i].data = HelpText
                \/ pending # FS!NoWrite /\ pending[1] = HelpPath(k)

WholeOnDisk ==
    phase = "off" /\ commands = 0 /\ ~cut =>
        \A k \in DOMAIN Helps, i \in FS!Slots :
            disk[i].used /\ disk[i].path = HelpPath(k) => disk[i].data = HelpText

\* The first image of all: nodes of the default tree only.
FirstImage ==
    /\ ~header => \A i \in FS!Slots : ~disk[i].used
    /\ phase = "tree" =>
          /\ nodes = FS!DefaultTree /\ next_program = 1
          /\ \A i \in FS!Slots : disk[i].used => disk[i] = nodes[i]

HelpInv ==
    /\ AllTried /\ Ended /\ OwedHelp /\ FirstImage
    /\ WholeInMemory /\ WholeOnDisk

\* A program has a place in the list and its help file one below the folder of
\* the programs.
LEMMA HelpPaths ==
    /\ Len(Helps) \in Nat /\ DOMAIN Helps = 1 .. Len(Helps)
    /\ \A k \in DOMAIN Helps :
          /\ HelpPath(k) \in Seq(Names) /\ HelpPath(k) # << >>
          /\ FS!Dirname(HelpPath(k)) = <<Progs>> /\ HelpPath(k) # <<Progs>>
          /\ HelpPath(k)[1] = Progs /\ Len(HelpPath(k)) = 2
<1>1. Len(Helps) \in Nat /\ DOMAIN Helps = 1 .. Len(Helps)
  BY HelpsAssumption, LenProperties
<1>2. ASSUME NEW k \in DOMAIN Helps
      PROVE  /\ HelpPath(k) \in Seq(Names) /\ HelpPath(k) # << >>
             /\ FS!Dirname(HelpPath(k)) = <<Progs>> /\ HelpPath(k) # <<Progs>>
             /\ HelpPath(k)[1] = Progs /\ Len(HelpPath(k)) = 2
  <2>1. Helps[k] \in Names /\ Progs \in Names
    BY <1>1, HelpsAssumption, TableAssumption, ElementOfSeq
  <2>2. PICK h \in Names : h = Helps[k]
    BY <2>1
  <2>3. HelpPath(k) = <<Progs, h>>
    BY <2>2 DEF HelpPath
  <2>4. /\ <<Progs, h>> \in Seq(Names) /\ Len(<<Progs, h>>) = 2 /\ Len(<<Progs>>) = 1
        /\ <<Progs, h>>[1] = Progs
    BY <2>1
  <2>5. SubSeq(<<Progs, h>>, 1, 1) = <<Progs>>
    <3>1. PICK s : s = <<Progs, h>>
      OBVIOUS
    <3>2. s[1] = Progs /\ \A i \in 1 .. 1 : s[i] \in Names
      BY <2>1, <3>1
    <3>3. PICK t : t = SubSeq(s, 1, 1)
      OBVIOUS
    <3>4. t \in Seq(Names) /\ Len(t) = 1 /\ t[1] = Progs
      <4>1. /\ SubSeq(s, 1, 1) \in Seq(Names) /\ Len(SubSeq(s, 1, 1)) = 1
            /\ SubSeq(s, 1, 1)[1] = s[1]
        BY <3>2, SubSeqProperties
      <4> QED BY <3>2, <3>3, <4>1
    <3>5. t = <<Progs>>
      BY <2>1, <3>4, SeqEqual
    <3> QED BY <3>1, <3>3, <3>5
  <2> QED BY <2>3, <2>4, <2>5, Empty DEF FS!Dirname
<1> QED BY <1>1, <1>2

\* No node of the default tree has a program's path.
LEMMA DefaultHasNoHelp ==
    ASSUME NEW i \in FS!Slots, NEW k \in DOMAIN Helps
    PROVE  ~(FS!DefaultTree[i].used /\ FS!DefaultTree[i].path = HelpPath(k))
<1>1. HelpPath(k)[1] = Progs /\ Len(HelpPath(k)) = 2 /\ HelpPath(k) # << >>
  BY HelpPaths
<1>2. Progs # Home /\ {Progs, Home, Readme} \subseteq Names
  BY TableAssumption
<1>3. /\ Len(<<Progs>>) = 1 /\ Len(<<Home>>) = 1
      /\ <<Home, Readme>>[1] = Home
  OBVIOUS
<1>4. CASE i = 0
  <2>1. FS!DefaultTree[i].path = << >>
    <3>1. FS!DefaultTree[i] = FS!Made("DIR", -1, "/", << >>, << >>)
      BY <1>4 DEF FS!DefaultTree
    <3> QED BY <3>1 DEF FS!Made
  <2> QED BY <1>1, <2>1
<1>5. CASE i = 1
  <2>1. FS!DefaultTree[i].path = <<Progs>>
    <3>1. FS!DefaultTree[i] = FS!Made("DIR", 0, Progs, <<Progs>>, << >>)
      BY <1>5 DEF FS!DefaultTree
    <3> QED BY <3>1 DEF FS!Made
  <2> QED BY <1>1, <1>3, <2>1
<1>6. CASE i = 2
  <2>1. FS!DefaultTree[i].path = <<Home>>
    <3>1. FS!DefaultTree[i] = FS!Made("DIR", 0, Home, <<Home>>, << >>)
      BY <1>6 DEF FS!DefaultTree
    <3> QED BY <3>1 DEF FS!Made
  <2> QED BY <1>1, <1>3, <2>1
<1>7. CASE i = 3
  <2>1. FS!DefaultTree[i].path = <<Home, Readme>>
    <3>1. FS!DefaultTree[i] = FS!Made("FILE", 2, Readme, <<Home, Readme>>, Welcome)
      BY <1>7 DEF FS!DefaultTree
    <3> QED BY <3>1 DEF FS!Made
  <2> QED BY <1>1, <1>2, <1>3, <2>1
<1>8. CASE i \notin {0, 1, 2, 3}
  BY <1>8 DEF FS!DefaultTree, FS!Blank
<1> QED BY <1>4, <1>5, <1>6, <1>7, <1>8

\* What programs_init does to the table: nodes stay where they are, and what is
\* made is not the folder of the programs.
Grows ==
    /\ \A i \in FS!Slots : nodes[i].used =>
          /\ nodes'[i].used /\ nodes'[i].path = nodes[i].path
          /\ nodes'[i].type = nodes[i].type
    /\ \A i \in FS!Slots : ~nodes[i].used /\ nodes'[i].used =>
          nodes'[i].path # <<Progs>>

\* It cannot undo what was tried.
LEMMA StaysTried ==
    ASSUME Grows, NEW k \in DOMAIN Helps, Tried(k)
    PROVE  Tried(k)'
<1>1. CASE FS!Exists(HelpPath(k))
  <2>1. FS!Exists(HelpPath(k))'
    BY <1>1 DEF FS!Exists, FS!HasPath, Grows, HelpPath
  <2> QED BY <2>1 DEF Tried
<1>2. CASE FS!Full
  <2>1. FS!Full'
    BY <1>2 DEF FS!Full, Grows
  <2> QED BY <2>1 DEF Tried
<1>3. CASE ~FS!HasParent(HelpPath(k))
  <2>1. /\ HelpPath(k) # << >> /\ FS!Dirname(HelpPath(k)) = <<Progs>>
        /\ HelpPath(k)' = HelpPath(k)
    BY HelpPaths DEF HelpPath
  <2>2. \A i \in FS!Slots : FS!HasPath(i, <<Progs>>)' <=> FS!HasPath(i, <<Progs>>)
    BY DEF Grows, FS!HasPath
  <2>3. \A i \in FS!Slots : FS!Finds(i, <<Progs>>)' <=> FS!Finds(i, <<Progs>>)
    BY <2>2 DEF FS!Finds
  <2>4. \A i \in FS!Slots : FS!Finds(i, <<Progs>>) => nodes'[i].type = nodes[i].type
    BY DEF Grows, FS!Finds, FS!HasPath
  <2>5. ~FS!HasParent(HelpPath(k))'
    <3>1. ~\E i \in FS!Slots : FS!Finds(i, <<Progs>>) /\ nodes[i].type = "DIR"
      BY <1>3, <2>1 DEF FS!HasParent, FS!IsParent
    <3>2. ~\E i \in FS!Slots : FS!Finds(i, <<Progs>>)' /\ nodes'[i].type = "DIR"
      BY <2>3, <2>4, <3>1
    <3> QED BY <2>1, <3>2 DEF FS!HasParent, FS!IsParent, FS!Dirname
  <2> QED BY <2>5 DEF Tried
<1> QED BY <1>1, <1>2, <1>3 DEF Tried

LEMMA InitHelp == Init => HelpInv
<1> SUFFICES ASSUME Init PROVE HelpInv
  OBVIOUS
<1>1. /\ nodes = Zeroed /\ disk = Zeroed /\ phase = "off" /\ ~header
      /\ pending = FS!NoWrite
  BY DEF Init
<1>2. \A i \in FS!Slots : Zeroed[i].used = FALSE
  BY DEF Zeroed, FS!Blank
<1>3. AllTried /\ Ended /\ OwedHelp /\ FirstImage
  BY <1>1, <1>2 DEF AllTried, Running, Ended, OwedHelp, FirstImage
<1>4. WholeInMemory /\ WholeOnDisk
  BY <1>1, <1>2 DEF WholeInMemory, WholeOnDisk, FS!HasPath
<1> QED BY <1>3, <1>4 DEF HelpInv

\* What was loaded from the disk is as whole as the disk was.
LEMMA BootHelp == ASSUME MachineInv, HelpInv, Boot PROVE HelpInv'
<1>1. /\ phase = "off" /\ pending' = FS!NoWrite /\ frames' = << >>
      /\ UNCHANGED <<header, disk, commands, cut>> /\ next_program' = 1
      /\ Shaped(disk) /\ header \in BOOLEAN
  BY DEF Boot, stored, MachineInv, TypeOK, FS!Idle
<1>2. CASE header
  <2>1. nodes' = Loaded /\ phase' = "programs"
    BY <1>2 DEF Boot
  <2>2. AllTried'
    <3>1. \A k \in DOMAIN Helps : ~Past(k)'
      BY <1>1, <2>1, HelpPaths DEF Past
    <3> QED BY <3>1 DEF AllTried
  <2>3. Ended' /\ OwedHelp' /\ FirstImage' /\ WholeOnDisk'
    BY <1>1, <1>2, <2>1 DEF Ended, OwedHelp, FirstImage, WholeOnDisk
  <2>4. WholeInMemory'
    <3>1. SUFFICES ASSUME commands = 0, ~cut, NEW k \in DOMAIN Helps, NEW i \in FS!Slots,
                          nodes'[i].used, nodes'[i].path = HelpPath(k)
                   PROVE  nodes'[i].data = HelpText
      BY <1>1 DEF WholeInMemory, FS!HasPath, HelpPath
    <3>2. Loaded[i].used = disk[i].used /\ (disk[i].used => Loaded[i] = disk[i])
      BY <1>1, LoadedNodes
    <3>3. disk[i].used /\ disk[i].path = HelpPath(k) => disk[i].data = HelpText
      BY <1>1, <3>1 DEF HelpInv, WholeOnDisk
    <3> QED BY <2>1, <3>1, <3>2, <3>3
  <2> QED BY <2>2, <2>3, <2>4 DEF HelpInv
<1>3. CASE ~header
  <2>1. nodes' = FS!DefaultTree /\ phase' = "tree"
    BY <1>3 DEF Boot
  <2>2. \A i \in FS!Slots : ~disk[i].used
    BY <1>3 DEF HelpInv, FirstImage
  <2>3. AllTried' /\ Ended' /\ OwedHelp' /\ WholeOnDisk'
    BY <2>1 DEF AllTried, Running, Ended, OwedHelp, WholeOnDisk
  <2>4. FirstImage'
    BY <1>1, <2>1, <2>2 DEF FirstImage, FS!DefaultTree
  <2>5. WholeInMemory'
    BY <2>1, DefaultHasNoHelp DEF WholeInMemory, FS!HasPath, HelpPath
  <2> QED BY <2>3, <2>4, <2>5 DEF HelpInv
<1> QED BY <1>2, <1>3

\* While the first image is written, what is in use on the disk is whole.
LEMMA SaveHelp == ASSUME MachineInv, HelpInv, SaveSector PROVE HelpInv'
<1>1. /\ saving /\ phase # "off" /\ Shaped(disk) /\ Shaped(nodes)
      /\ UNCHANGED <<nodes, frames, pending, next_program, commands, loaded, cut>>
  BY DEF SaveSector, tree, history, MachineInv, TypeOK
<1>2. WholeInMemory'
  BY <1>1 DEF HelpInv, WholeInMemory, FS!HasPath, HelpPath
<1>3. phase' # "off" /\ (phase' = phase \/ (phase = "tree" /\ phase' = "programs"))
  BY <1>1 DEF SaveSector
<1>4. AllTried'
  <2>1. CASE phase' = phase
    BY <1>1, <2>1 DEF HelpInv, AllTried, Running, Past, Tried, FS!Exists, FS!HasPath,
       FS!Full, FS!HasParent, FS!IsParent, FS!Finds, HelpPath
  <2>2. CASE phase = "tree" /\ phase' = "programs"
    <3>1. next_program = 1 /\ pending = FS!NoWrite
      BY <2>2 DEF HelpInv, FirstImage, MachineInv, Stages
    <3>2. \A k \in DOMAIN Helps : ~Past(k)'
      BY <1>1, <2>2, <3>1, HelpPaths DEF Past
    <3> QED BY <3>2 DEF AllTried
  <2> QED BY <1>3, <2>1, <2>2
<1>5. Ended' /\ WholeOnDisk'
  BY <1>1, <1>3 DEF HelpInv, Ended, WholeOnDisk
<1>6. OwedHelp'
  <2>1. phase' = "programs" /\ pending # FS!NoWrite => phase = "programs"
    BY <1>3 DEF MachineInv, Stages
  <2> QED BY <1>1, <2>1 DEF HelpInv, OwedHelp, FS!HasPath, HelpPath
<1>7. FirstImage'
  <2>1. CASE ~header /\ header' = TRUE /\ UNCHANGED <<disk, phase>>
    BY <1>1, <2>1 DEF HelpInv, FirstImage
  <2>2. CASE header /\ header' = header /\ phase' # "tree"
    BY <2>2 DEF FirstImage
  <2>3. ASSUME header, UNCHANGED <<header, phase>>, phase = "tree",
               NEW i \in FS!Slots, NEW k \in DOMAIN Parts, IsNext(i, k),
               NEW text \in Written(i),
               disk' = [disk EXCEPT ![i] =
                           [f \in DOMAIN @ |-> IF f \notin Parts[k] THEN @[f]
                                               ELSE IF f = "data" THEN text
                                               ELSE nodes[i][f]]]
        PROVE  FirstImage'
    <3>1. PICK new : Advances(i, k, new)
      BY <1>1, <2>3, SectorAdvances
    <3>2. \A j \in FS!Slots : disk[j].used => disk[j] = nodes[j]
      BY <2>3 DEF HelpInv, FirstImage
    <3>3. new.used => new = nodes[i]
      <4>1. ~(k # 5 /\ disk[i].used)
        <5>1. disk[i].used => disk[i] = nodes[i]
          BY <3>2
        <5>2. Differs(i, k)
          BY <3>1 DEF Advances, IsNext
        <5> QED BY <5>1, <5>2 DEF Differs
      <4> QED BY <1>1, <3>1, <4>1, AdvancedNode
    <3>4. disk' = Put(disk, i, new)
      BY <3>1 DEF Advances
    <3>5. disk'[i] = new /\ \A j \in FS!Slots : j # i => disk'[j] = disk[j]
      BY <1>1, <3>4 DEF Put, Shaped
    <3>6. \A j \in FS!Slots : disk'[j].used => disk'[j] = nodes[j]
      BY <3>2, <3>3, <3>5
    <3>7. nodes = FS!DefaultTree /\ next_program = 1
      BY <2>3 DEF HelpInv, FirstImage
    <3> QED BY <1>1, <2>3, <3>6, <3>7 DEF FirstImage, FS!DefaultTree
  <2>4. CASE phase # "tree" /\ header
    <3>1. header' = header
      BY <2>4 DEF SaveSector, stored
    <3> QED BY <1>3, <2>2, <2>4, <3>1
  <2>5. CASE header /\ phase = "tree" /\ phase' = "programs" /\ UNCHANGED stored
    BY <2>2, <2>5 DEF stored
  <2> QED BY <2>1, <2>3, <2>4, <2>5 DEF SaveSector
<1> QED BY <1>2, <1>4, <1>5, <1>6, <1>7 DEF HelpInv


\* A file is made, or refused because it cannot be; the write is owed.
LEMMA MakeHelps ==
    ASSUME MachineInv, HelpInv, phase = "programs", FS!Idle, ~saving, More,
           Missing(HelpPath(next_program)), MakeHelp(HelpPath(next_program)),
           UNCHANGED <<header, disk, commands, loaded, cut>>
    PROVE  HelpInv'
<1> DEFINE p == HelpPath(next_program)
<1>1. /\ Shaped(nodes) /\ next_program \in DOMAIN Helps /\ header
      /\ pending = FS!NoWrite /\ frames = << >>
  BY HelpPaths DEF MachineInv, TypeOK, Stages, More, FS!Idle
<1>2. p \in Seq(Names) /\ p # <<Progs>> /\ p # << >>
  BY <1>1, HelpPaths
<1>3. /\ pending' = <<p, HelpText>> /\ pending' # FS!NoWrite /\ pending'[1] = p
      /\ UNCHANGED <<next_program, phase, frames>> /\ p' = p
  BY DEF MakeHelp, FS!NoWrite, HelpPath
<1>4. \A i \in FS!Slots : ~(nodes[i].used /\ nodes[i].path = p)
  BY DEF Missing, FS!Exists, FS!HasPath
<1> HIDE DEF p
\* At most one node is new, a file with that path.
<1>5. \E c \in FS!Slots :
         /\ \A i \in FS!Slots : nodes[i].used => nodes'[i] = nodes[i]
         /\ \A i \in FS!Slots : nodes'[i].used /\ ~nodes[i].used =>
               i = c /\ nodes'[i].path = p /\ nodes'[i].type = "FILE"
         /\ FS!Full \/ ~FS!HasParent(p) \/ (nodes'[c].used /\ nodes'[c].path = p)
  <2>1. CASE ~FS!MayCreate(p) /\ UNCHANGED nodes
    BY <2>1, <1>4, Slots DEF FS!MayCreate, FS!Exists, FS!HasPath
  <2>2. CASE FS!CreateNode(p, "FILE")
    <3>1. PICK d, c \in FS!Slots :
             /\ FS!Allocates(c)
             /\ nodes' = [nodes EXCEPT ![c] = FS!Made("FILE", d, FS!Filename(p), p, << >>)]
      BY <2>2 DEF FS!CreateNode
    <3>2. PICK new : new = FS!Made("FILE", d, FS!Filename(p), p, << >>)
      OBVIOUS
    <3>3. new.used /\ new.path = p /\ new.type = "FILE"
      BY <3>2 DEF FS!Made
    <3>4. nodes'[c] = new /\ \A i \in FS!Slots : i # c => nodes'[i] = nodes[i]
      BY <1>1, <3>1, <3>2 DEF Shaped
    <3>5. ~nodes[c].used
      BY <3>1 DEF FS!Allocates
    <3> QED BY <3>3, <3>4, <3>5
  <2> QED BY <2>1, <2>2 DEF MakeHelp, p
<1>6. PICK c \in FS!Slots :
         /\ \A i \in FS!Slots : nodes[i].used => nodes'[i] = nodes[i]
         /\ \A i \in FS!Slots : nodes'[i].used /\ ~nodes[i].used =>
               i = c /\ nodes'[i].path = p /\ nodes'[i].type = "FILE"
         /\ FS!Full \/ ~FS!HasParent(p) \/ (nodes'[c].used /\ nodes'[c].path = p)
  BY <1>5
<1>7. Grows
  BY <1>2, <1>6 DEF Grows
<1>8. AllTried'
  <2>1. SUFFICES ASSUME loaded # NoTable, NEW k \in DOMAIN Helps, Past(k)'
                 PROVE  Tried(k)'
    BY <1>3 DEF AllTried, NoTable
  <2>2. Past(k) \/ k = next_program
    BY <1>3, <2>1 DEF Past
  <2>3. CASE Past(k)
    <3>1. Tried(k)
      BY <2>1, <2>3 DEF HelpInv, AllTried, Running
    <3> QED BY <1>7, <3>1, StaysTried
  <2>4. CASE k = next_program
    <3>1. p = HelpPath(k)
      BY <2>4 DEF p
    <3>2. CASE FS!Full \/ ~FS!HasParent(p)
      <4>1. Tried(k)
        BY <3>1, <3>2 DEF Tried
      <4> QED BY <1>7, <4>1, StaysTried
    <3>3. CASE nodes'[c].used /\ nodes'[c].path = p
      BY <3>1, <3>3 DEF Tried, FS!Exists, FS!HasPath, HelpPath
    <3> QED BY <1>6, <3>2, <3>3
  <2> QED BY <2>2, <2>3, <2>4
<1>9. Ended' /\ FirstImage' /\ WholeOnDisk'
  BY <1>1, <1>3 DEF Ended, FirstImage, WholeOnDisk
<1>10. OwedHelp'
  <2>1. \A i \in FS!Slots : FS!HasPath(i, p)' => i = c /\ nodes'[i].type = "FILE"
    BY <1>3, <1>4, <1>6 DEF FS!HasPath
  <2>2. pending' = <<HelpPath(next_program)', HelpText>>
    BY <1>3 DEF p
  <2> QED BY <1>3, <2>1, <2>2 DEF OwedHelp, FS!HasPath
<1>11. WholeInMemory'
  <2>1. SUFFICES ASSUME commands = 0, ~cut, NEW k \in DOMAIN Helps, NEW i \in FS!Slots,
                        nodes'[i].used, nodes'[i].path = HelpPath(k), HelpPath(k) # p
                 PROVE  nodes'[i].data = HelpText
    BY <1>3 DEF WholeInMemory, FS!HasPath, HelpPath
  <2>2. nodes[i].used /\ nodes'[i] = nodes[i]
    BY <1>6, <2>1
  <2> QED BY <1>1, <2>1, <2>2 DEF HelpInv, WholeInMemory, FS!HasPath
<1> QED BY <1>8, <1>9, <1>10, <1>11 DEF HelpInv

LEMMA ProgramsHelp == ASSUME MachineInv, HelpInv, ProgramsInit PROVE HelpInv'
<1>1. /\ phase = "programs" /\ ~saving /\ FS!Idle /\ pending = FS!NoWrite
      /\ frames = << >> /\ UNCHANGED <<header, disk, commands, loaded, cut>>
      /\ header /\ next_program \in 1 .. Len(Helps) + 1
  BY DEF ProgramsInit, Ready, FS!Idle, stored, MachineInv, TypeOK, Stages
<1>2. CASE More /\ Missing(HelpPath(next_program)) /\ MakeHelp(HelpPath(next_program))
  BY <1>1, <1>2, MakeHelps
<1>3. ASSUME UNCHANGED <<tree, saving>>, phase' \in {"programs", "prompt"},
             loaded # NoTable => \A k \in DOMAIN Helps : Past(k)' => Tried(k)
      PROVE  HelpInv'
  <2>1. UNCHANGED <<nodes, frames, pending, saving>>
    BY <1>3 DEF tree
  <2>2. Ended' /\ OwedHelp' /\ FirstImage' /\ WholeOnDisk' /\ WholeInMemory'
    BY <1>1, <1>3, <2>1 DEF HelpInv, Ended, OwedHelp, FirstImage, WholeOnDisk,
       WholeInMemory, FS!HasPath, HelpPath
  <2>3. Grows
    BY <2>1 DEF Grows
  <2>4. AllTried'
    <3>1. SUFFICES ASSUME loaded # NoTable, NEW k \in DOMAIN Helps, Past(k)'
                   PROVE  Tried(k)'
      BY <1>1 DEF AllTried, NoTable
    <3>2. Tried(k)
      BY <1>3, <3>1
    <3> QED BY <2>3, <3>2, StaysTried
  <2> QED BY <2>2, <2>4 DEF HelpInv
<1>4. ASSUME loaded # NoTable, NEW k \in DOMAIN Helps, k < next_program PROVE Tried(k)
  BY <1>1, <1>4 DEF HelpInv, AllTried, Running, Past
<1>5. CASE More /\ ~Missing(HelpPath(next_program))
           /\ next_program' = Passed(next_program)
           /\ UNCHANGED <<tree, saving, phase, before, moved>>
  <2>1. ASSUME NEW k \in DOMAIN Helps, Past(k)'
        PROVE  k < next_program \/ k = next_program
    <3>1. k < next_program + 1
      BY <1>1, <1>5, <2>1 DEF Past, Passed, tree
    <3> QED BY <1>1, <3>1, HelpPaths
  <2>2. Tried(next_program)
    BY <1>5 DEF Missing, Tried
  <2>3. loaded # NoTable => \A k \in DOMAIN Helps : Past(k)' => Tried(k)
    BY <1>4, <2>1, <2>2
  <2> QED BY <1>1, <1>3, <1>5, <2>3
<1>6. CASE ~More /\ phase' = "prompt"
           /\ UNCHANGED <<tree, saving, next_program, before, moved>>
  <2>1. \A k \in DOMAIN Helps : k < next_program
    BY <1>1, <1>6, HelpPaths DEF More
  <2>2. loaded # NoTable => \A k \in DOMAIN Helps : Past(k)' => Tried(k)
    BY <1>4, <2>1
  <2> QED BY <1>3, <1>6, <2>2
<1> QED BY <1>2, <1>5, <1>6 DEF ProgramsInit

\* The write that was owed reaches the file, if it was made, and fits.
LEMMA WriteHelps ==
    ASSUME MachineInv, HelpInv, phase = "programs", FS!PendingWrite,
           next_program' = next_program + 1,
           UNCHANGED <<phase, header, disk, commands, loaded, cut>>
    PROVE  HelpInv'
<1>1. /\ Shaped(nodes) /\ header /\ pending # FS!NoWrite
      /\ next_program \in DOMAIN Helps /\ next_program \in Nat
  BY HelpPaths DEF MachineInv, TypeOK, Stages, FS!PendingWrite
<1>2. PICK p : p = HelpPath(next_program)
  OBVIOUS
<1>3. /\ pending = <<p, HelpText>> /\ pending[1] = p /\ pending[2] = HelpText
      /\ \A i, j \in FS!Slots : FS!HasPath(i, p) =>
            nodes[i].type = "FILE" /\ (FS!HasPath(j, p) => i = j)
  BY <1>1, <1>2 DEF HelpInv, OwedHelp
<1>4. FS!StoreFile(p, HelpText) /\ pending' = FS!NoWrite /\ frames' = frames
  BY <1>3 DEF FS!PendingWrite, FS!StoreFile
<1>5. \A i \in FS!Slots :
         /\ nodes'[i].used = nodes[i].used /\ nodes'[i].path = nodes[i].path
         /\ nodes'[i].type = nodes[i].type
         /\ FS!HasPath(i, p) => nodes'[i].data = HelpText
         /\ ~FS!HasPath(i, p) => nodes'[i].data = nodes[i].data
  <2>1. CASE UNCHANGED nodes /\ ~\E i \in FS!Slots : FS!FileAt(i, p)
    <3>1. \A i \in FS!Slots : ~FS!HasPath(i, p)
      <4>1. \A i \in FS!Slots : FS!HasPath(i, p) => FS!FileAt(i, p)
        BY <1>3, Slots DEF FS!FileAt, FS!Finds
      <4> QED BY <2>1, <4>1
    <3> QED BY <2>1, <3>1
  <2>2. ASSUME NEW c \in FS!Slots, FS!FileAt(c, p),
               nodes' = [nodes EXCEPT ![c].data = HelpText]
        PROVE  \A i \in FS!Slots :
                  /\ nodes'[i].used = nodes[i].used /\ nodes'[i].path = nodes[i].path
                  /\ nodes'[i].type = nodes[i].type
                  /\ FS!HasPath(i, p) => nodes'[i].data = HelpText
                  /\ ~FS!HasPath(i, p) => nodes'[i].data = nodes[i].data
    <3>1. PICK new : new = [nodes[c] EXCEPT !.data = HelpText]
      OBVIOUS
    <3>2. nodes'[c] = new /\ \A i \in FS!Slots : i # c => nodes'[i] = nodes[i]
      BY <1>1, <2>2, <3>1 DEF Shaped
    <3>3. /\ new.used = nodes[c].used /\ new.path = nodes[c].path
          /\ new.type = nodes[c].type /\ new.data = HelpText
      <4>1. nodes[c] \in FS!Node
        BY <1>1 DEF Shaped
      <4> QED BY <3>1, <4>1 DEF FS!Node
    <3>4. FS!HasPath(c, p)
      BY <2>2 DEF FS!FileAt, FS!Finds
    <3>5. \A i \in FS!Slots : FS!HasPath(i, p) => i = c
      BY <1>3, <3>4
    <3> QED BY <3>2, <3>3, <3>4, <3>5
  <2>3. ~FS!TooLarge(Len(HelpText))
    BY HelpsAssumption, TableAssumption, LenProperties DEF FS!TooLarge
  <2> QED BY <1>4, <2>1, <2>2, <2>3 DEF FS!StoreFile
<1>6. Grows
  BY <1>5 DEF Grows
<1>7. AllTried'
  <2>1. SUFFICES ASSUME loaded # NoTable, NEW k \in DOMAIN Helps, Past(k)'
                 PROVE  Tried(k)'
    BY DEF AllTried, NoTable
  <2>2. Past(k)
    <3>1. k < next_program + 1
      BY <1>4, <2>1 DEF Past
    <3>2. k < next_program \/ k = next_program
      BY <1>1, <3>1, HelpPaths
    <3> QED BY <1>1, <3>2 DEF Past
  <2>3. Tried(k)
    BY <2>1, <2>2 DEF HelpInv, AllTried, Running
  <2> QED BY <1>6, <2>3, StaysTried
<1>8. Ended' /\ OwedHelp' /\ FirstImage' /\ WholeOnDisk'
  BY <1>1, <1>4 DEF Ended, OwedHelp, FirstImage, WholeOnDisk
<1>9. WholeInMemory'
  <2>1. SUFFICES ASSUME commands = 0, ~cut, NEW k \in DOMAIN Helps, NEW i \in FS!Slots,
                        nodes'[i].used, nodes'[i].path = HelpPath(k)
                 PROVE  nodes'[i].data = HelpText
    BY DEF WholeInMemory, FS!HasPath, HelpPath
  <2>2. FS!HasPath(i, HelpPath(k))
    BY <1>5, <2>1 DEF FS!HasPath
  <2>3. CASE HelpPath(k) = p
    BY <1>5, <2>2, <2>3
  <2>4. CASE HelpPath(k) # p
    <3>1. ~FS!HasPath(i, p)
      BY <2>2, <2>4 DEF FS!HasPath
    <3>2. nodes[i].data = HelpText
      BY <1>3, <2>1, <2>2, <2>4 DEF HelpInv, WholeInMemory
    <3> QED BY <1>5, <3>1, <3>2
  <2> QED BY <2>3, <2>4
<1> QED BY <1>7, <1>8, <1>9 DEF HelpInv

\* Once a command was given nothing is claimed.
LEMMA LaterHelp ==
    ASSUME phase' = "prompt", header', commands' # 0, loaded' = NoTable
    PROVE  HelpInv'
BY DEF HelpInv, AllTried, Ended, OwedHelp, FirstImage, WholeInMemory, WholeOnDisk,
       NoTable

LEMMA ContinueHelp == ASSUME MachineInv, HelpInv, Continue PROVE HelpInv'
<1>1. /\ UNCHANGED <<phase, header, disk, commands, loaded, cut>>
      /\ phase # "off" /\ ~saving
  BY DEF Continue, stored, FS!RebuildStep, FS!PendingWrite, MachineInv, TypeOK, FS!Idle
<1>2. Running /\ header
  BY <1>1, RunningNow
<1>3. frames # << >> \/ FS!PendingWrite
  BY DEF Continue, FS!RebuildStep
<1>4. CASE phase = "prompt"
  <2>1. frames # << >> \/ pending # FS!NoWrite
    BY <1>3 DEF FS!PendingWrite
  <2>2. loaded = NoTable /\ commands # 0
    BY <1>4, <2>1 DEF HelpInv, Ended
  <2> QED BY <1>1, <1>2, <1>4, <2>2, LaterHelp DEF NoTable
<1>5. CASE phase = "programs"
  <2>1. FS!PendingWrite
    BY <1>3, <1>5 DEF MachineInv, Stages
  <2>2. next_program' = next_program + 1
    BY <1>5 DEF Continue
  <2> QED BY <1>1, <1>5, <2>1, <2>2, WriteHelps
<1> QED BY <1>2, <1>4, <1>5 DEF Running

\* Where nothing of a help file was under way, the disk had what the table had.
LEMMA LossHelp == ASSUME MachineInv, HelpInv, PowerLoss PROVE HelpInv'
<1>1. /\ phase # "off" /\ phase' = "off" /\ nodes' = Zeroed /\ pending' = FS!NoWrite
      /\ UNCHANGED <<header, disk, commands>>
      /\ cut' = (cut \/ (phase = "programs" /\ (saving \/ pending # FS!NoWrite)))
  BY DEF PowerLoss, stored
<1>2. AllTried' /\ Ended' /\ OwedHelp'
  BY <1>1 DEF AllTried, Running, Ended, OwedHelp
<1>3. FirstImage'
  BY <1>1 DEF HelpInv, FirstImage
<1>4. WholeInMemory'
  BY <1>1 DEF WholeInMemory, FS!HasPath, Zeroed, FS!Blank
<1>5. WholeOnDisk'
  <2>1. SUFFICES ASSUME commands = 0, ~cut',
                        NEW k \in DOMAIN Helps, NEW i \in FS!Slots,
                        disk[i].used, disk[i].path = HelpPath(k)
                 PROVE  disk[i].data = HelpText
    BY <1>1 DEF WholeOnDisk, HelpPath
  <2>2. CASE phase = "tree"
    <3>1. disk[i] = FS!DefaultTree[i]
      BY <2>1, <2>2 DEF HelpInv, FirstImage
    <3> QED BY <2>1, <3>1, DefaultHasNoHelp
  <2>3. CASE phase # "tree"
    <3>1. /\ Running /\ ~cut /\ pending = FS!NoWrite /\ frames = << >> /\ ~saving
      <4>1. phase \in {"programs", "prompt"}
        BY <1>1, <2>3, RunningNow
      <4>2. ~cut /\ ~(phase = "programs" /\ (saving \/ pending # FS!NoWrite))
        BY <1>1, <2>1
      <4>3. CASE phase = "programs"
        BY <4>2, <4>3 DEF Running, MachineInv, Stages
      <4>4. CASE phase = "prompt"
        BY <2>1, <4>2, <4>4 DEF Running, HelpInv, Ended
      <4> QED BY <4>1, <4>3, <4>4
    <3>2. nodes[i].used /\ disk[i] = nodes[i]
      BY <2>1, <3>1 DEF MachineInv, Clean, Holds
    <3> QED BY <2>1, <3>1, <3>2 DEF HelpInv, WholeInMemory, FS!HasPath
  <2> QED BY <2>2, <2>3
<1> QED BY <1>2, <1>3, <1>4, <1>5 DEF HelpInv

LEMMA NextHelp == MachineInv /\ HelpInv /\ [Next]_vars => HelpInv'
<1> SUFFICES ASSUME MachineInv, HelpInv, [Next]_vars PROVE HelpInv'
  OBVIOUS
<1>1. CASE Command
  <2>1. /\ phase' = "prompt" /\ header' /\ loaded' = NoTable
    BY <1>1 DEF Command, stored, MachineInv, Stages
  <2>2. commands' # 0
    BY <1>1, BoundsAssumption DEF Command, MachineInv, TypeOK
  <2> QED BY <2>1, <2>2, LaterHelp
<1>2. CASE UNCHANGED vars
  BY <1>2 DEF vars, tree, stored, history, HelpInv, AllTried, Ended, OwedHelp,
     FirstImage, WholeInMemory, WholeOnDisk, Running, Past, Tried, FS!Exists, FS!HasPath,
     FS!Full, FS!HasParent, FS!IsParent, FS!Finds, HelpPath
<1> QED BY <1>1, <1>2, BootHelp, SaveHelp, ContinueHelp, ProgramsHelp, LossHelp
        DEF Next, Step

-----------------------------------------------------------------------------
(***************************************************************************)
(* The theorems.                                                           *)
(***************************************************************************)
\* At every moment of the boot, of a save and of a loss of power, the disk
\* holds the table in memory or something between the two tables of the save
\* under way, so what the next boot reads is known.
THEOREM Invariance == Spec => []MachineInv
BY InitMachine, NextMachine, PTL DEF Spec

\* The machine's state keeps its shapes, whatever a torn save left on the disk
\* and however large the table, the files and the list of programs are.
THEOREM TypeCorrect == Spec => []TypeOK
<1>1. MachineInv => TypeOK
  BY DEF MachineInv
<1> QED BY <1>1, Invariance, PTL

\* A create, delete, write or copy cut short by a loss of power leaves the
\* files as they were before it or as it made them, for a table of any size
\* and wherever in the save the power went.
THEOREM CrashesAtomic == Spec => CrashAtomic
<1>1. MachineInv /\ [Next]_vars =>
         [phase = "off" /\ header /\ expected # {}
             => \E e \in expected : SameTree(nodes', e, expected)]_vars
  <2> SUFFICES ASSUME MachineInv, Next, phase = "off", header, expected # {}
               PROVE  \E e \in expected : SameTree(nodes', e, expected)
    OBVIOUS
  <2>1. Boot
    <3>1. ~saving /\ frames = << >> /\ pending = FS!NoWrite
      BY DEF MachineInv, TypeOK, FS!Idle
    <3> QED BY <3>1 DEF Next, Step, SaveSector, Continue, FS!RebuildStep,
                        FS!PendingWrite, ProgramsInit, Command, PowerLoss
  <2>2. nodes' = Loaded
    BY <2>1 DEF Boot
  <2> QED BY <2>2 DEF MachineInv, Found
<1> QED BY <1>1, Invariance, PTL DEF Spec, CrashAtomic

\* Whatever table the boot finds, making the help files changes no file or
\* folder of it, not even one in the folder of the programs.
THEOREM BootKeepsFiles == Spec => []BootKeeps
<1>1. BootInv => BootKeeps
  BY DEF BootInv
<1> QED BY <1>1, InitBoot, NextBoot, PTL DEF Spec

\* When the first prompt of a boot appears every program has its help file,
\* unless the table is full or there is no folder for it; and it has the whole
\* text, wherever and however often the power was lost outside its making.
THEOREM HelpsReadyCorrect == Spec => []HelpsReady
<1>1. MachineInv /\ HelpInv => HelpsReady
  <2> SUFFICES ASSUME HelpInv, phase = "prompt", loaded # NoTable, NEW k \in DOMAIN Helps
               PROVE  /\ Tried(k)
                      /\ commands = 0 /\ ~cut => \A i \in FS!Slots :
                            FS!HasPath(i, HelpPath(k)) => nodes[i].data = HelpText
    BY DEF HelpsReady, Tried
  <2>1. Tried(k)
    BY DEF HelpInv, AllTried, Past, Running
  <2>2. pending = FS!NoWrite
    BY DEF HelpInv, Ended
  <2> QED BY <2>1, <2>2 DEF HelpInv, WholeInMemory
<1>2. MachineInv /\ HelpInv /\ [Next]_vars => MachineInv' /\ HelpInv'
  BY NextMachine, NextHelp
<1>3. Init => MachineInv /\ HelpInv
  BY InitMachine, InitHelp
<1> QED BY <1>1, <1>2, <1>3, PTL DEF Spec

=============================================================================
