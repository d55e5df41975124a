--------------------------- MODULE FileTreeProofs ---------------------------
(***************************************************************************)
(* Theorems about the shape of the tree that the parent indices make, and  *)
(* the theorem that Filesystem implements FileTree, for a table of any     *)
(* size, any names and any limits.                                         *)
(***************************************************************************)
EXTENDS MCFileTree, FilesystemProofs, FiniteSetTheorems

-----------------------------------------------------------------------------
(***************************************************************************)
(* Functions defined by recursion on a number.  The least number principle *)
(* (LeastNumber) takes the place of induction.                             *)
(***************************************************************************)
\* A set of numbers with 0 that is closed under successor has them all.
LEMMA AllNumbers ==
  ASSUME NEW S \in SUBSET Nat, 0 \in S, \A n \in S : n + 1 \in S
  PROVE  S = Nat
<1> SUFFICES ASSUME Nat \ S # {} PROVE FALSE
  OBVIOUS
<1>1. PICK m \in Nat \ S : \A n \in Nat \ S : m <= n
  BY LeastNumber
<1>2. m # 0 /\ m - 1 \in Nat
  BY <1>1
<1>3. m - 1 \in S
  BY <1>1, <1>2
<1>4. (m - 1) + 1 = m
  BY <1>1
<1> QED BY <1>1, <1>3, <1>4

\* From a first value and a step there is a sequence of values.
LEMMA Recursion ==
  ASSUME NEW V, NEW first \in V, NEW step \in [V -> V]
  PROVE  \E f \in [Nat -> V] :
            f[0] = first /\ \A n \in Nat : f[n + 1] = step[f[n]]
<1> DEFINE Begins(f, n) == /\ f \in [Nat -> V] /\ f[0] = first
                           /\ \A m \in Nat : m < n => f[m + 1] = step[f[m]]
           S == {n \in Nat : \E f : Begins(f, n)}
<1>1. 0 \in S
  <2>1. Begins([n \in Nat |-> first], 0)
    OBVIOUS
  <2> QED BY <2>1
<1>2. ASSUME NEW n \in S PROVE n + 1 \in S
  <2>1. n \in Nat /\ n + 1 \in Nat
    OBVIOUS
  <2>2. PICK f : Begins(f, n)
    OBVIOUS
  <2> DEFINE g == [f EXCEPT ![n + 1] = step[f[n]]]
  <2>3. g \in [Nat -> V] /\ g[n + 1] = step[f[n]]
    BY <2>1, <2>2
  <2>4. \A m \in Nat : m # n + 1 => g[m] = f[m]
    BY <2>1, <2>2
  <2> HIDE DEF g
  <2>5. g[0] = first
    BY <2>1, <2>2, <2>4
  <2>6. ASSUME NEW m \in Nat, m < n + 1 PROVE g[m + 1] = step[g[m]]
    <3>1. CASE m = n
      BY <2>1, <2>3, <2>4, <3>1
    <3>2. CASE m # n
      <4>1. m < n /\ m + 1 \in Nat /\ m + 1 # n + 1 /\ m # n + 1
        BY <2>1, <2>6, <3>2
      <4> QED BY <2>2, <2>4, <4>1
    <3> QED BY <3>1, <3>2
  <2>7. Begins(g, n + 1)
    BY <2>3, <2>5, <2>6
  <2> HIDE DEF Begins
  <2> QED BY <2>1, <2>7
<1>3. S = Nat
  <2>1. S \in SUBSET Nat
    OBVIOUS
  <2> HIDE DEF S
  <2> QED BY <1>1, <1>2, <2>1, AllNumbers
<1>4. ASSUME NEW n \in Nat, NEW k \in Nat, NEW f, Begins(f, n), NEW g, Begins(g, k),
             NEW m \in Nat, m <= n, m <= k
      PROVE  f[m] = g[m]
  <2> DEFINE T == {i \in Nat : i <= n /\ i <= k => f[i] = g[i]}
  <2>1. 0 \in T
    BY <1>4
  <2>2. ASSUME NEW i \in T PROVE i + 1 \in T
    <3> SUFFICES ASSUME i + 1 <= n, i + 1 <= k PROVE f[i + 1] = g[i + 1]
      OBVIOUS
    <3>1. i \in Nat /\ i < n /\ i < k /\ i <= n /\ i <= k
      OBVIOUS
    <3>2. f[i] = g[i]
      BY <3>1
    <3> QED BY <1>4, <3>1, <3>2
  <2>3. T = Nat
    <3>1. T \in SUBSET Nat
      OBVIOUS
    <3> HIDE DEF T
    <3> QED BY <2>1, <2>2, <3>1, AllNumbers
  <2> QED BY <1>4, <2>3
<1> DEFINE At(n) == CHOOSE f : Begins(f, n)
<1>5. ASSUME NEW n \in Nat PROVE Begins(At(n), n)
  <2>1. n \in S
    BY <1>3
  <2>2. \E f : Begins(f, n)
    BY <2>1
  <2> HIDE DEF Begins
  <2> QED BY <2>2
<1> DEFINE f == [n \in Nat |-> At(n)[n]]
<1>6. f \in [Nat -> V]
  <2>1. ASSUME NEW n \in Nat PROVE At(n)[n] \in V
    BY <1>5
  <2> HIDE DEF At
  <2> QED BY <2>1
<1>7. f[0] = first
  <2>1. At(0)[0] = first
    BY <1>5
  <2> HIDE DEF At
  <2> QED BY <2>1
<1>8. ASSUME NEW n \in Nat PROVE f[n + 1] = step[f[n]]
  <2>1. n + 1 \in Nat
    OBVIOUS
  <2>2. At(n + 1)[n + 1] = step[At(n + 1)[n]]
    <3>1. Begins(At(n + 1), n + 1)
      BY <1>5, <2>1
    <3>2. n < n + 1
      OBVIOUS
    <3> HIDE DEF At
    <3> QED BY <3>1, <3>2
  <2>3. At(n + 1)[n] = At(n)[n]
    <3>1. Begins(At(n + 1), n + 1) /\ Begins(At(n), n)
      BY <1>5, <2>1
    <3>2. n <= n + 1 /\ n <= n
      OBVIOUS
    <3> HIDE DEF Begins, At
    <3> QED BY <1>4, <2>1, <3>1, <3>2
  <2>4. f[n + 1] = At(n + 1)[n + 1] /\ f[n] = At(n)[n]
    BY <2>1
  <2> HIDE DEF f, At
  <2> QED BY <2>2, <2>3, <2>4
<1> HIDE DEF f
<1> QED BY <1>6, <1>7, <1>8

-----------------------------------------------------------------------------
(***************************************************************************)
(* Ancestors and true paths.                                               *)
(***************************************************************************)
\* Every slot but the root's, used or free, has a parent index of the table.
Linked ==
    /\ nodes \in [Slots -> Node] /\ Root \in Slots
    /\ \A i \in Slots \ {Root} : nodes[i].parent \in Slots

AllNames == Names \cup {"/"}

\* What Ancestor computes, step by step.
AncestorSteps ==
    /\ Ancestor \in [Nat -> [Slots -> Slots]]
    /\ \A i \in Slots : Ancestor[0][i] = i
    /\ \A k \in Nat : Ancestor[k][Root] = Root
    /\ \A k \in Nat, i \in Slots \ {Root} :
          Ancestor[k + 1][i] = Ancestor[k][nodes[i].parent]

LEMMA AncestorDef == Linked => AncestorSteps
<1> SUFFICES ASSUME Linked PROVE AncestorSteps
  OBVIOUS
<1> DEFINE V == [Slots -> Slots]
           first == [i \in Slots |-> i]
           next(a) == [i \in Slots |-> IF i = Root THEN i ELSE a[nodes[i].parent]]
           step == [a \in V |-> next(a)]
           Is(f) == f = [k \in Nat |-> [i \in Slots |->
                          IF k = 0 \/ i = Root THEN i ELSE f[k - 1][nodes[i].parent]]]
<1>1. first \in V /\ step \in [V -> V]
  BY DEF Linked
<1>2. PICK f \in [Nat -> V] : f[0] = first /\ \A n \in Nat : f[n + 1] = step[f[n]]
  <2> HIDE DEF V, first, step
  <2> QED BY <1>1, Recursion
<1>3. \A n \in Nat : f[n] \in V /\ f[n + 1] = next(f[n])
  BY <1>2
<1>4. ASSUME NEW k \in Nat
      PROVE  f[k] = [i \in Slots |->
                IF k = 0 \/ i = Root THEN i ELSE f[k - 1][nodes[i].parent]]
  <2>1. CASE k = 0
    BY <1>2, <2>1
  <2>2. CASE k # 0
    <3>1. k - 1 \in Nat /\ (k - 1) + 1 = k
      BY <2>2
    <3>2. f[k] = next(f[k - 1])
      BY <1>3, <3>1
    <3> QED BY <2>2, <3>2
  <2> QED BY <2>1, <2>2
<1>5. Is(f)
  BY <1>2, <1>4
<1>6. Ancestor = CHOOSE g : Is(g)
  BY DEF Ancestor
<1>7. Is(Ancestor)
  <2> HIDE DEF Is
  <2> QED BY <1>5, <1>6
<1>8. \A k \in Nat : Ancestor[k] = [i \in Slots |->
         IF k = 0 \/ i = Root THEN i ELSE Ancestor[k - 1][nodes[i].parent]]
  BY <1>7
<1>9. \A k \in Nat, i \in Slots : Ancestor[k][i] =
         IF k = 0 \/ i = Root THEN i ELSE Ancestor[k - 1][nodes[i].parent]
  <2> TAKE k \in Nat, i \in Slots
  <2>1. Ancestor[k] = [j \in Slots |->
         IF k = 0 \/ j = Root THEN j ELSE Ancestor[k - 1][nodes[j].parent]]
    BY <1>8
  <2> QED BY <2>1
<1>10. \A i \in Slots : Ancestor[0][i] = i
  BY <1>9
<1>11. \A k \in Nat : Ancestor[k][Root] = Root
  BY <1>9 DEF Linked
<1>12. ASSUME NEW k \in Nat, NEW i \in Slots \ {Root}
       PROVE  Ancestor[k + 1][i] = Ancestor[k][nodes[i].parent]
  <2>1. k + 1 \in Nat /\ k + 1 # 0 /\ (k + 1) - 1 = k
    OBVIOUS
  <2> QED BY <1>9, <2>1
<1>13. \A k \in Nat : Ancestor[k] \in [Slots -> Slots]
  <2> DEFINE S == {k \in Nat : \A i \in Slots : Ancestor[k][i] \in Slots}
  <2>1. 0 \in S
    BY <1>10
  <2>2. ASSUME NEW k \in S PROVE k + 1 \in S
    <3>1. k \in Nat /\ k + 1 \in Nat /\ \A i \in Slots : Ancestor[k][i] \in Slots
      OBVIOUS
    <3>2. ASSUME NEW i \in Slots PROVE Ancestor[k + 1][i] \in Slots
      <4>1. CASE i = Root
        BY <1>11, <3>1, <4>1
      <4>2. CASE i # Root
        <5>1. nodes[i].parent \in Slots
          BY <4>2 DEF Linked
        <5> QED BY <1>12, <3>1, <4>2, <5>1
      <4> QED BY <4>1, <4>2
    <3> QED BY <3>1, <3>2
  <2>3. S = Nat
    <3>1. S \in SUBSET Nat
      OBVIOUS
    <3> HIDE DEF S
    <3> QED BY <2>1, <2>2, <3>1, AllNumbers
  <2>4. ASSUME NEW k \in Nat PROVE Ancestor[k] \in [Slots -> Slots]
    <3>1. \A i \in Slots : Ancestor[k][i] \in Slots
      BY <2>3
    <3>2. Ancestor[k] = [i \in Slots |-> Ancestor[k][i]]
      BY <1>8
    <3> QED BY <3>1, <3>2
  <2> QED BY <2>4
<1>14. Ancestor = [k \in Nat |-> Ancestor[k]]
  BY <1>7
<1>15. Ancestor \in [Nat -> [Slots -> Slots]]
  BY <1>13, <1>14
<1> QED BY <1>10, <1>11, <1>12, <1>15 DEF AncestorSteps

\* What TruePath computes, step by step.
TruePathSteps ==
    /\ TruePath \in [Nat -> [Slots -> Seq(AllNames)]]
    /\ \A i \in Slots : TruePath[0][i] = << >>
    /\ \A k \in Nat : TruePath[k][Root] = << >>
    /\ \A k \in Nat, i \in Slots \ {Root} :
          TruePath[k + 1][i] = Append(TruePath[k][nodes[i].parent], nodes[i].name)

LEMMA TruePathDef == Linked => TruePathSteps
<1> SUFFICES ASSUME Linked PROVE TruePathSteps
  OBVIOUS
<1> DEFINE V == [Slots -> Seq(AllNames)]
           first == [i \in Slots |-> << >>]
           next(a) == [i \in Slots |-> IF i = Root THEN << >>
                                       ELSE Append(a[nodes[i].parent], nodes[i].name)]
           step == [a \in V |-> next(a)]
           Is(f) == f = [k \in Nat |-> [i \in Slots |->
                          IF k = 0 \/ i = Root THEN << >>
                          ELSE Append(f[k - 1][nodes[i].parent], nodes[i].name)]]
<1>0. << >> \in Seq(AllNames) /\ \A i \in Slots : nodes[i].name \in AllNames
  BY EmptySeq DEF Linked, Node, AllNames
<1>1. first \in V /\ step \in [V -> V]
  <2>1. first \in V
    BY <1>0
  <2>2. ASSUME NEW a \in V PROVE next(a) \in V
    <3>1. ASSUME NEW i \in Slots, i # Root
          PROVE  Append(a[nodes[i].parent], nodes[i].name) \in Seq(AllNames)
      <4>1. a[nodes[i].parent] \in Seq(AllNames)
        BY <3>1 DEF Linked
      <4> QED BY <1>0, <4>1, AppendProperties
    <3> QED BY <1>0, <3>1
  <2> HIDE DEF V, next
  <2> QED BY <2>1, <2>2
<1>2. PICK f \in [Nat -> V] : f[0] = first /\ \A n \in Nat : f[n + 1] = step[f[n]]
  <2> HIDE DEF V, first, step
  <2> QED BY <1>1, Recursion
<1>3. \A n \in Nat : f[n] \in V /\ f[n + 1] = next(f[n])
  BY <1>2
<1>4. ASSUME NEW k \in Nat
      PROVE  f[k] = [i \in Slots |->
                IF k = 0 \/ i = Root THEN << >>
                ELSE Append(f[k - 1][nodes[i].parent], nodes[i].name)]
  <2>1. CASE k = 0
    BY <1>2, <2>1
  <2>2. CASE k # 0
    <3>1. k - 1 \in Nat /\ (k - 1) + 1 = k
      BY <2>2
    <3>2. f[k] = next(f[k - 1])
      BY <1>3, <3>1
    <3> QED BY <2>2, <3>2
  <2> QED BY <2>1, <2>2
<1>5. Is(f)
  BY <1>2, <1>4
<1>6. TruePath = CHOOSE g : Is(g)
  BY DEF TruePath
<1>7. Is(TruePath)
  <2> HIDE DEF Is
  <2> QED BY <1>5, <1>6
<1>8. \A k \in Nat : TruePath[k] = [i \in Slots |->
         IF k = 0 \/ i = Root THEN << >>
         ELSE Append(TruePath[k - 1][nodes[i].parent], nodes[i].name)]
  BY <1>7
<1>9. \A k \in Nat, i \in Slots : TruePath[k][i] =
         IF k = 0 \/ i = Root THEN << >>
         ELSE Append(TruePath[k - 1][nodes[i].parent], nodes[i].name)
  <2> TAKE k \in Nat, i \in Slots
  <2>1. TruePath[k] = [j \in Slots |->
         IF k = 0 \/ j = Root THEN << >>
         ELSE Append(TruePath[k - 1][nodes[j].parent], nodes[j].name)]
    BY <1>8
  <2> QED BY <2>1
<1>10. \A i \in Slots : TruePath[0][i] = << >>
  BY <1>9
<1>11. \A k \in Nat : TruePath[k][Root] = << >>
  BY <1>9 DEF Linked
<1>12. ASSUME NEW k \in Nat, NEW i \in Slots \ {Root}
       PROVE  TruePath[k + 1][i] = Append(TruePath[k][nodes[i].parent], nodes[i].name)
  <2>1. k + 1 \in Nat /\ k + 1 # 0 /\ (k + 1) - 1 = k
    OBVIOUS
  <2> QED BY <1>9, <2>1
<1>13. \A k \in Nat : TruePath[k] \in [Slots -> Seq(AllNames)]
  <2> DEFINE S == {k \in Nat : \A i \in Slots : TruePath[k][i] \in Seq(AllNames)}
  <2>1. 0 \in S
    BY <1>0, <1>10
  <2>2. ASSUME NEW k \in S PROVE k + 1 \in S
    <3>0. k \in Nat /\ k + 1 \in Nat
          /\ \A i \in Slots : TruePath[k][i] \in Seq(AllNames)
      OBVIOUS
    <3>1. ASSUME NEW i \in Slots PROVE TruePath[k + 1][i] \in Seq(AllNames)
      <4>1. CASE i = Root
        BY <1>0, <1>11, <3>0, <4>1
      <4>2. CASE i # Root
        <5>1. nodes[i].parent \in Slots
          BY <4>2 DEF Linked
        <5>2. TruePath[k][nodes[i].parent] \in Seq(AllNames)
          BY <3>0, <5>1
        <5>3. Append(TruePath[k][nodes[i].parent], nodes[i].name) \in Seq(AllNames)
          BY <1>0, <5>2, AppendProperties
        <5> QED BY <1>12, <3>0, <4>2, <5>3
      <4> QED BY <4>1, <4>2
    <3> QED BY <3>0, <3>1
  <2>3. S = Nat
    <3>1. S \in SUBSET Nat
      OBVIOUS
    <3> HIDE DEF S
    <3> QED BY <2>1, <2>2, <3>1, AllNumbers
  <2>4. ASSUME NEW k \in Nat PROVE TruePath[k] \in [Slots -> Seq(AllNames)]
    <3>1. \A i \in Slots : TruePath[k][i] \in Seq(AllNames)
      BY <2>3
    <3>2. TruePath[k] = [i \in Slots |-> TruePath[k][i]]
      BY <1>8
    <3> QED BY <3>1, <3>2
  <2> QED BY <2>4
<1>14. TruePath = [k \in Nat |-> TruePath[k]]
  BY <1>7
<1>15. TruePath \in [Nat -> [Slots -> Seq(AllNames)]]
  BY <1>13, <1>14
<1> QED BY <1>10, <1>11, <1>12, <1>15 DEF TruePathSteps

\* Above the root there is nothing: once met it stays, and so does the path.
RootStaysMet ==
    \A k \in Nat, m \in Nat, i \in Slots :
        k <= m /\ Ancestor[k][i] = Root =>
            Ancestor[m][i] = Root /\ TruePath[m][i] = TruePath[k][i]

LEMMA RootMet == Linked => RootStaysMet
<1> SUFFICES ASSUME Linked PROVE RootStaysMet
  OBVIOUS
<1>1. AncestorSteps /\ TruePathSteps
  BY AncestorDef, TruePathDef
<1> DEFINE Once(k, i) == Ancestor[k][i] = Root =>
                            /\ Ancestor[k + 1][i] = Root
                            /\ TruePath[k + 1][i] = TruePath[k][i]
           S == {k \in Nat : \A i \in Slots : Once(k, i)}
<1>2. 0 \in S
  <2>1. ASSUME NEW i \in Slots PROVE Once(0, i)
    <3>1. 0 \in Nat /\ 0 + 1 \in Nat
      OBVIOUS
    <3>2. CASE i = Root
      BY <1>1, <3>1, <3>2 DEF AncestorSteps, TruePathSteps
    <3>3. CASE i # Root
      BY <1>1, <3>3 DEF AncestorSteps
    <3> QED BY <3>2, <3>3
  <2> QED BY <2>1
<1>3. ASSUME NEW k \in S PROVE k + 1 \in S
  <2>1. k \in Nat /\ k + 1 \in Nat /\ k + 1 + 1 \in Nat
    OBVIOUS
  <2>2. \A i \in Slots : Once(k, i)
    OBVIOUS
  <2>3. ASSUME NEW i \in Slots PROVE Once(k + 1, i)
    <3>1. CASE i = Root
      BY <1>1, <2>1, <3>1 DEF AncestorSteps, TruePathSteps
    <3>2. CASE i # Root
      <4> DEFINE p == nodes[i].parent
      <4>1. p \in Slots
        BY <3>2 DEF Linked
      <4>2. /\ Ancestor[k + 1][i] = Ancestor[k][p]
            /\ Ancestor[k + 1 + 1][i] = Ancestor[k + 1][p]
        BY <1>1, <2>1, <3>2 DEF AncestorSteps
      <4>3. /\ TruePath[k + 1][i] = Append(TruePath[k][p], nodes[i].name)
            /\ TruePath[k + 1 + 1][i] = Append(TruePath[k + 1][p], nodes[i].name)
        BY <1>1, <2>1, <3>2 DEF TruePathSteps
      <4>4. Once(k, p)
        BY <2>2, <4>1
      <4> HIDE DEF p
      <4> QED BY <4>2, <4>3, <4>4
    <3> QED BY <3>1, <3>2
  <2> HIDE DEF Once
  <2> QED BY <2>1, <2>3
<1>4. \A k \in Nat, i \in Slots : Once(k, i)
  <2>1. S = Nat
    <3>1. S \in SUBSET Nat
      OBVIOUS
    <3> HIDE DEF S
    <3> QED BY <1>2, <1>3, <3>1, AllNumbers
  <2> HIDE DEF Once
  <2> QED BY <2>1
<1>5. ASSUME NEW k \in Nat, NEW i \in Slots, Ancestor[k][i] = Root
      PROVE  \A m \in Nat : k <= m =>
                Ancestor[m][i] = Root /\ TruePath[m][i] = TruePath[k][i]
  <2> DEFINE T == {m \in Nat : k <= m =>
                     Ancestor[m][i] = Root /\ TruePath[m][i] = TruePath[k][i]}
  <2>1. 0 \in T
    <3>1. 0 \in Nat /\ (k <= 0 => k = 0)
      OBVIOUS
    <3> QED BY <1>5, <3>1
  <2>2. ASSUME NEW m \in T PROVE m + 1 \in T
    <3>1. m \in Nat /\ m + 1 \in Nat
      OBVIOUS
    <3>2. k <= m => Ancestor[m][i] = Root /\ TruePath[m][i] = TruePath[k][i]
      OBVIOUS
    <3>3. k <= m + 1 => k <= m \/ k = m + 1
      BY <3>1
    <3>4. Once(m, i)
      BY <1>4, <3>1
    <3>5. k <= m + 1 => /\ Ancestor[m + 1][i] = Root
                        /\ TruePath[m + 1][i] = TruePath[k][i]
      BY <1>5, <3>2, <3>3, <3>4
    <3> QED BY <3>1, <3>5
  <2>3. T = Nat
    <3>1. T \in SUBSET Nat
      OBVIOUS
    <3> HIDE DEF T
    <3> QED BY <2>1, <2>2, <3>1, AllNumbers
  <2> QED BY <2>3
<1> QED BY <1>5 DEF RootStaysMet

\* A true path has a name for every step from the root.
PathCountsSteps ==
    \A k \in Nat, i \in Slots :
        /\ Len(TruePath[k][i]) \in Nat
        /\ Ancestor[Len(TruePath[k][i])][i] = Ancestor[k][i]

LEMMA StepsCounted == Linked => PathCountsSteps
<1> SUFFICES ASSUME Linked PROVE PathCountsSteps
  OBVIOUS
<1>1. AncestorSteps /\ TruePathSteps
  BY AncestorDef, TruePathDef
<1> DEFINE Counted(k, i) == /\ Len(TruePath[k][i]) \in Nat
                            /\ Ancestor[Len(TruePath[k][i])][i] = Ancestor[k][i]
           S == {k \in Nat : \A i \in Slots : Counted(k, i)}
<1>0. Len(<< >>) = 0
  BY EmptySeq
<1>2. 0 \in S
  BY <1>0, <1>1 DEF AncestorSteps, TruePathSteps
<1>3. ASSUME NEW k \in S PROVE k + 1 \in S
  <2>1. k \in Nat /\ k + 1 \in Nat
    OBVIOUS
  <2>2. \A i \in Slots : Counted(k, i)
    OBVIOUS
  <2>3. ASSUME NEW i \in Slots PROVE Counted(k + 1, i)
    <3>1. CASE i = Root
      BY <1>0, <1>1, <2>1, <3>1 DEF AncestorSteps, TruePathSteps
    <3>2. CASE i # Root
      <4>1. PICK p \in Slots : p = nodes[i].parent
        BY <3>2 DEF Linked
      <4>2. /\ Ancestor[k + 1][i] = Ancestor[k][p]
            /\ \A m \in Nat : Ancestor[m + 1][i] = Ancestor[m][p]
        BY <1>1, <2>1, <3>2, <4>1 DEF AncestorSteps
      <4>3. TruePath[k + 1][i] = Append(TruePath[k][p], nodes[i].name)
        BY <1>1, <2>1, <3>2, <4>1 DEF TruePathSteps
      <4>4. PICK s \in Seq(AllNames) : s = TruePath[k][p]
        BY <1>1, <2>1 DEF TruePathSteps
      <4>5. nodes[i].name \in AllNames
        BY DEF Linked, Node, AllNames
      <4>6. Len(TruePath[k + 1][i]) = Len(s) + 1
        BY <4>3, <4>4, <4>5, AppendProperties
      <4>7. Len(s) \in Nat /\ Ancestor[Len(s)][p] = Ancestor[k][p]
        BY <2>2, <4>4
      <4>8. Ancestor[Len(s) + 1][i] = Ancestor[Len(s)][p]
        BY <4>2, <4>7
      <4>9. Len(s) + 1 \in Nat
        BY <4>7
      <4> QED BY <4>2, <4>6, <4>7, <4>8, <4>9
    <3> QED BY <3>1, <3>2
  <2> HIDE DEF Counted
  <2> QED BY <2>1, <2>3
<1>4. S = Nat
  <2>1. S \in SUBSET Nat
    OBVIOUS
  <2> HIDE DEF S
  <2> QED BY <1>2, <1>3, <2>1, AllNumbers
<1> HIDE DEF Counted
<1>5. \A k \in Nat, i \in Slots : Counted(k, i)
  BY <1>4
<1> QED BY <1>5 DEF PathCountsSteps, Counted

\* Whoever climbs in a set that holds all its parents stays in it.
SetsTrap ==
    \A C \in SUBSET (Slots \ {Root}) :
        (\A i \in C : nodes[i].parent \in C)
            => \A k \in Nat, i \in C : Ancestor[k][i] \in C

LEMMA Trapped == Linked => SetsTrap
<1> SUFFICES ASSUME Linked, NEW C \in SUBSET (Slots \ {Root}),
                    \A i \in C : nodes[i].parent \in C
             PROVE  \A k \in Nat, i \in C : Ancestor[k][i] \in C
  BY DEF SetsTrap
<1>1. AncestorSteps
  BY AncestorDef
<1> DEFINE S == {k \in Nat : \A i \in C : Ancestor[k][i] \in C}
<1>2. 0 \in S
  BY <1>1 DEF AncestorSteps
<1>3. ASSUME NEW k \in S PROVE k + 1 \in S
  <2>1. k \in Nat /\ k + 1 \in Nat /\ \A i \in C : Ancestor[k][i] \in C
    OBVIOUS
  <2>2. ASSUME NEW i \in C PROVE Ancestor[k + 1][i] \in C
    <3>1. Ancestor[k + 1][i] = Ancestor[k][nodes[i].parent]
      BY <1>1, <2>1 DEF AncestorSteps
    <3> QED BY <2>1, <3>1
  <2> QED BY <2>1, <2>2
<1>4. S = Nat
  <2>1. S \in SUBSET Nat
    OBVIOUS
  <2> HIDE DEF S
  <2> QED BY <1>2, <1>3, <2>1, AllNumbers
<1> QED BY <1>4

\* A height that falls by one at most with each step up is as far from the
\* root as that.
HeightsCount ==
    \A h \in [Slots -> Nat] :
        h[Root] = 0 /\ (\A i \in Slots \ {Root} : h[nodes[i].parent] >= h[i] - 1)
            => \A m \in Nat, i \in Slots : m < h[i] => Ancestor[m][i] # Root

LEMMA Heights == Linked => HeightsCount
<1> SUFFICES ASSUME Linked, NEW h \in [Slots -> Nat], h[Root] = 0,
                    \A i \in Slots \ {Root} : h[nodes[i].parent] >= h[i] - 1
             PROVE  \A m \in Nat, i \in Slots : m < h[i] => Ancestor[m][i] # Root
  BY DEF HeightsCount
<1>1. AncestorSteps
  BY AncestorDef
<1> DEFINE S == {m \in Nat : \A i \in Slots : m < h[i] => Ancestor[m][i] # Root}
<1>2. 0 \in S
  BY <1>1 DEF AncestorSteps
<1>3. ASSUME NEW k \in S PROVE k + 1 \in S
  <2>1. /\ k \in Nat /\ k + 1 \in Nat
        /\ \A i \in Slots : k < h[i] => Ancestor[k][i] # Root
    OBVIOUS
  <2>2. ASSUME NEW i \in Slots, k + 1 < h[i] PROVE Ancestor[k + 1][i] # Root
    <3>1. i # Root
      BY <2>1, <2>2
    <3>2. PICK p \in Slots : p = nodes[i].parent
      BY <3>1 DEF Linked
    <3>3. Ancestor[k + 1][i] = Ancestor[k][p]
      BY <1>1, <2>1, <3>1, <3>2 DEF AncestorSteps
    <3>4. h[p] \in Nat /\ h[i] \in Nat /\ h[p] >= h[i] - 1
      BY <3>1, <3>2
    <3>5. k < h[p]
      BY <2>1, <2>2, <3>4
    <3> QED BY <2>1, <3>3, <3>5
  <2> QED BY <2>1, <2>2
<1>4. S = Nat
  <2>1. S \in SUBSET Nat
    OBVIOUS
  <2> HIDE DEF S
  <2> QED BY <1>2, <1>3, <2>1, AllNumbers
<1> QED BY <1>4

-----------------------------------------------------------------------------
(***************************************************************************)
(* Labels.  A label for each slot of a set, made of the label of its       *)
(* parent and its own name, is its true path.  The cached paths are such   *)
(* labels outside a rebuild, and where a move takes them is one right      *)
(* after its first step.                                                   *)
(***************************************************************************)
Labels(C, P) ==
    /\ Root \in C /\ P[Root] = << >>
    /\ \A i \in C \ {Root} :
          /\ nodes[i].parent \in C /\ nodes[i].name \in Names
          /\ P[i] = Append(P[nodes[i].parent], nodes[i].name)

LEMMA LabelLengths ==
  ASSUME NEW C, NEW P \in [C -> Seq(Names)], Labels(C, P)
  PROVE  /\ Len(P[Root]) = 0
         /\ \A i \in C : Len(P[i]) \in Nat
         /\ \A i \in C \ {Root} : Len(P[i]) = Len(P[nodes[i].parent]) + 1
<1>1. Len(P[Root]) = 0
  BY EmptySeq DEF Labels
<1>2. \A i \in C : Len(P[i]) \in Nat
  BY LenProperties
<1>3. ASSUME NEW i \in C \ {Root} PROVE Len(P[i]) = Len(P[nodes[i].parent]) + 1
  <2>1. PICK p \in C, n \in Names : p = nodes[i].parent /\ P[i] = Append(P[p], n)
    BY DEF Labels
  <2>2. P[p] \in Seq(Names)
    OBVIOUS
  <2>3. Len(Append(P[p], n)) = Len(P[p]) + 1
    BY <2>2, AppendProperties
  <2> QED BY <2>1, <2>3
<1> QED BY <1>1, <1>2, <1>3

\* A label is as long as the way to the root, and is the true path.
LabelsClimb ==
    \A C \in SUBSET Slots : \A P \in [C -> Seq(Names)] :
        Labels(C, P) => \A i \in C : /\ Ancestor[Len(P[i])][i] = Root
                                     /\ TruePath[Len(P[i])][i] = P[i]

LEMMA LabelsUp == Linked => LabelsClimb
<1> SUFFICES ASSUME Linked, NEW C \in SUBSET Slots, NEW P \in [C -> Seq(Names)],
                    Labels(C, P)
             PROVE  \A i \in C : /\ Ancestor[Len(P[i])][i] = Root
                                 /\ TruePath[Len(P[i])][i] = P[i]
  BY DEF LabelsClimb
<1>1. AncestorSteps /\ TruePathSteps
  BY AncestorDef, TruePathDef
<1>2. /\ Len(P[Root]) = 0
      /\ \A i \in C : Len(P[i]) \in Nat
      /\ \A i \in C \ {Root} : Len(P[i]) = Len(P[nodes[i].parent]) + 1
  BY LabelLengths
<1> DEFINE S == {n \in Nat : \A i \in C : Len(P[i]) = n =>
                    Ancestor[n][i] = Root /\ TruePath[n][i] = P[i]}
<1>3. 0 \in S
  <2>1. ASSUME NEW i \in C, Len(P[i]) = 0
        PROVE  Ancestor[0][i] = Root /\ TruePath[0][i] = P[i]
    <3>1. i = Root
      <4> SUFFICES ASSUME i # Root PROVE FALSE
        OBVIOUS
      <4>1. PICK p \in C : p = nodes[i].parent
        BY DEF Labels
      <4>2. Len(P[p]) \in Nat /\ 0 = Len(P[p]) + 1
        BY <1>2, <2>1, <4>1
      <4> QED BY <4>2
    <3> QED BY <1>1, <3>1 DEF AncestorSteps, TruePathSteps, Labels
  <2> QED BY <2>1
<1>4. ASSUME NEW n \in S PROVE n + 1 \in S
  <2>1. /\ n \in Nat /\ n + 1 \in Nat
        /\ \A i \in C : Len(P[i]) = n => Ancestor[n][i] = Root /\ TruePath[n][i] = P[i]
    OBVIOUS
  <2>2. ASSUME NEW i \in C, Len(P[i]) = n + 1
        PROVE  Ancestor[n + 1][i] = Root /\ TruePath[n + 1][i] = P[i]
    <3>1. i # Root
      BY <1>2, <2>1, <2>2
    <3>2. PICK p \in C : p = nodes[i].parent /\ P[i] = Append(P[p], nodes[i].name)
      BY <3>1 DEF Labels
    <3>3. Len(P[p]) = n
      BY <1>2, <2>1, <2>2, <3>1, <3>2
    <3>4. Ancestor[n][p] = Root /\ TruePath[n][p] = P[p]
      BY <2>1, <3>3
    <3>5. Ancestor[n + 1][i] = Ancestor[n][p]
      BY <1>1, <2>1, <3>1, <3>2 DEF AncestorSteps
    <3>6. TruePath[n + 1][i] = Append(TruePath[n][p], nodes[i].name)
      BY <1>1, <2>1, <3>1, <3>2 DEF TruePathSteps
    <3> QED BY <3>2, <3>4, <3>5, <3>6
  <2> QED BY <2>1, <2>2
<1>5. S = Nat
  <2>1. S \in SUBSET Nat
    OBVIOUS
  <2> HIDE DEF S
  <2> QED BY <1>3, <1>4, <2>1, AllNumbers
<1>6. ASSUME NEW i \in C PROVE Ancestor[Len(P[i])][i] = Root /\ TruePath[Len(P[i])][i] = P[i]
  <2>1. Len(P[i]) \in S
    BY <1>2, <1>5
  <2> QED BY <2>1
<1> QED BY <1>6

\* The slots on the way to the root are different ones, so it is shorter than
\* the table.
LabelsShort ==
    \A C \in SUBSET Slots : \A P \in [C -> Seq(Names)] :
        Labels(C, P) => \A i \in C : Len(P[i]) < NumSlots

LEMMA LabelsFit == Linked => LabelsShort
<1> SUFFICES ASSUME Linked, NEW C \in SUBSET Slots, NEW P \in [C -> Seq(Names)],
                    Labels(C, P), NEW a \in C
             PROVE  Len(P[a]) < NumSlots
  BY DEF LabelsShort
<1>1. AncestorSteps
  BY AncestorDef
<1>2. /\ Len(P[Root]) = 0
      /\ \A i \in C : Len(P[i]) \in Nat
      /\ \A i \in C \ {Root} : Len(P[i]) = Len(P[nodes[i].parent]) + 1
  BY LabelLengths
<1> DEFINE Stays(k, i) == k <= Len(P[i]) => /\ Ancestor[k][i] \in C
                                            /\ Len(P[Ancestor[k][i]]) = Len(P[i]) - k
           S == {k \in Nat : \A i \in C : Stays(k, i)}
<1>3. 0 \in S
  <2>1. ASSUME NEW i \in C PROVE Stays(0, i)
    <3>1. Ancestor[0][i] = i
      BY <1>1 DEF AncestorSteps
    <3> QED BY <1>2, <3>1
  <2> QED BY <2>1
<1>4. ASSUME NEW k \in S PROVE k + 1 \in S
  <2>1. k \in Nat /\ k + 1 \in Nat /\ \A i \in C : Stays(k, i)
    OBVIOUS
  <2>2. ASSUME NEW i \in C, k + 1 <= Len(P[i])
        PROVE  /\ Ancestor[k + 1][i] \in C
               /\ Len(P[Ancestor[k + 1][i]]) = Len(P[i]) - (k + 1)
    <3>1. i # Root
      BY <1>2, <2>1, <2>2
    <3>2. PICK p \in C : p = nodes[i].parent
      BY <3>1 DEF Labels
    <3>3. Len(P[i]) = Len(P[p]) + 1 /\ Len(P[p]) \in Nat
      BY <1>2, <3>1, <3>2
    <3>4. Ancestor[k + 1][i] = Ancestor[k][p]
      BY <1>1, <2>1, <3>1, <3>2 DEF AncestorSteps
    <3>5. k <= Len(P[p])
      BY <2>1, <2>2, <3>3
    <3>6. Ancestor[k][p] \in C /\ Len(P[Ancestor[k][p]]) = Len(P[p]) - k
      BY <2>1, <3>5
    <3>7. Len(P[p]) - k = Len(P[i]) - (k + 1)
      BY <2>1, <3>3
    <3> QED BY <3>4, <3>6, <3>7
  <2> QED BY <2>1, <2>2
<1>5. S = Nat
  <2>1. S \in SUBSET Nat
    OBVIOUS
  <2> HIDE DEF S
  <2> QED BY <1>3, <1>4, <2>1, AllNumbers
<1> DEFINE L == Len(P[a])
           f == [k \in 0 .. L |-> Ancestor[k][a]]
<1>6. L \in Nat
  BY <1>2
<1>7. \A k \in 0 .. L : f[k] \in C /\ Len(P[f[k]]) = L - k
  <2>1. ASSUME NEW k \in 0 .. L PROVE f[k] \in C /\ Len(P[f[k]]) = L - k
    <3>1. k \in S /\ k <= L
      <4> HIDE DEF S, L, f
      <4> QED BY <1>5, <1>6
    <3>2. Stays(k, a)
      BY <3>1
    <3> QED BY <3>1, <3>2
  <2> QED BY <2>1
<1>8. f \in Injection(0 .. L, Slots)
  <2>0. DOMAIN f = 0 .. L
    OBVIOUS
  <2> HIDE DEF L, f
  <2>1. f \in [0 .. L -> Slots]
    <3>1. \A k \in 0 .. L : f[k] \in Slots
      BY <1>7
    <3>2. f = [k \in 0 .. L |-> f[k]]
      BY <2>0 DEF f
    <3> QED BY <3>1, <3>2
  <2>2. ASSUME NEW j \in 0 .. L, NEW k \in 0 .. L, f[j] = f[k] PROVE j = k
    <3>1. L - j = L - k
      BY <1>7, <2>2
    <3> QED BY <1>6, <3>1
  <2> QED BY <2>1, <2>2 DEF Injection, IsInjective
<1>9. IsFiniteSet(Slots) /\ Cardinality(Slots) = NumSlots
  BY SlotsAssumption, FS_Interval DEF Slots
<1>10. Cardinality(0 .. L) <= Cardinality(Slots)
  <2> HIDE DEF L, f
  <2> QED BY <1>8, <1>9, FS_Injection
<1>11. Cardinality(0 .. L) = L + 1
  <2> HIDE DEF L
  <2>1. 0 \in Int /\ L \in Int /\ ~(0 > L)
    BY <1>6
  <2> QED BY <1>6, <2>1, FS_Interval
<1>12. L + 1 <= NumSlots
  BY <1>9, <1>10, <1>11
<1> HIDE DEF L
<1>13. L < NumSlots
  BY <1>6, <1>12, SlotsAssumption
<1> QED BY <1>13 DEF L

\* What this says of Rooted and PathOf.
LabelsTrue ==
    \A C \in SUBSET Slots : \A P \in [C -> Seq(Names)] :
        Labels(C, P) => \A i \in C : Rooted(i) /\ PathOf[i] = P[i]

LEMMA LabelsAreTrue == Linked => LabelsTrue
<1> SUFFICES ASSUME Linked, NEW C \in SUBSET Slots, NEW P \in [C -> Seq(Names)],
                    Labels(C, P), NEW i \in C
             PROVE  Rooted(i) /\ PathOf[i] = P[i]
  BY DEF LabelsTrue
<1>1. LabelsClimb /\ LabelsShort /\ RootStaysMet
  BY LabelsUp, LabelsFit, RootMet
<1>2. PICK n \in Nat : n = Len(P[i])
  BY LabelLengths
<1>3. Ancestor[n][i] = Root /\ TruePath[n][i] = P[i]
  BY <1>1, <1>2 DEF LabelsClimb
<1>4. n <= NumSlots /\ NumSlots \in Nat
  BY <1>1, <1>2, SlotsAssumption DEF LabelsShort
<1>5. Ancestor[NumSlots][i] = Root /\ TruePath[NumSlots][i] = TruePath[n][i]
  BY <1>1, <1>3, <1>4 DEF RootStaysMet
<1> QED BY <1>3, <1>5 DEF Rooted, PathOf

\* No two slots have one label, since no two siblings have one name.
LabelsDiffer ==
    \A C \in SUBSET Slots : \A P \in [C -> Seq(Names)] :
        Labels(C, P) /\ (\A i \in C : InUse(i))
            => \A i, j \in C : P[i] = P[j] => i = j

LEMMA LabelsUnique == SiblingsDistinct => LabelsDiffer
<1> SUFFICES ASSUME SiblingsDistinct, NEW C \in SUBSET Slots,
                    NEW P \in [C -> Seq(Names)],
                    Labels(C, P), \A i \in C : InUse(i)
             PROVE  \A i, j \in C : P[i] = P[j] => i = j
  BY DEF LabelsDiffer
<1>1. /\ Len(P[Root]) = 0
      /\ \A i \in C : Len(P[i]) \in Nat
      /\ \A i \in C \ {Root} : Len(P[i]) = Len(P[nodes[i].parent]) + 1
  BY LabelLengths
<1> DEFINE S == {n \in Nat : \A i, j \in C : Len(P[i]) = n /\ P[i] = P[j] => i = j}
<1>2. ASSUME NEW i \in C, Len(P[i]) = 0 PROVE i = Root
  <2> SUFFICES ASSUME i # Root PROVE FALSE
    OBVIOUS
  <2>1. PICK p \in C : p = nodes[i].parent
    BY DEF Labels
  <2>2. Len(P[p]) \in Nat /\ 0 = Len(P[p]) + 1
    BY <1>1, <1>2, <2>1
  <2> QED BY <2>2
<1>3. 0 \in S
  BY <1>2
<1>4. ASSUME NEW n \in S PROVE n + 1 \in S
  <2>1. /\ n \in Nat /\ n + 1 \in Nat
        /\ \A i, j \in C : Len(P[i]) = n /\ P[i] = P[j] => i = j
    OBVIOUS
  <2>2. ASSUME NEW i \in C, NEW j \in C, Len(P[i]) = n + 1, P[i] = P[j] PROVE i = j
    <3>1. i # Root /\ j # Root
      BY <1>1, <2>1, <2>2
    <3>2. PICK p \in C, m \in Names :
             p = nodes[i].parent /\ m = nodes[i].name /\ P[i] = Append(P[p], m)
      BY <3>1 DEF Labels
    <3>3. PICK q \in C, o \in Names :
             q = nodes[j].parent /\ o = nodes[j].name /\ P[j] = Append(P[q], o)
      BY <3>1 DEF Labels
    <3>4. P[p] \in Seq(Names) /\ P[q] \in Seq(Names) /\ Append(P[p], m) = Append(P[q], o)
      BY <2>2, <3>2, <3>3
    <3>5. P[p] = P[q] /\ m = o
      BY <3>4, AppendParts
    <3>6. Len(P[p]) = n
      BY <1>1, <2>1, <2>2, <3>1, <3>2
    <3>7. p = q
      BY <2>1, <3>5, <3>6
    <3> QED BY <3>1, <3>2, <3>3, <3>5, <3>7 DEF SiblingsDistinct
  <2> QED BY <2>1, <2>2
<1>5. S = Nat
  <2>1. S \in SUBSET Nat
    OBVIOUS
  <2> HIDE DEF S
  <2> QED BY <1>3, <1>4, <2>1, AllNumbers
<1>6. ASSUME NEW i \in C, NEW j \in C, P[i] = P[j] PROVE i = j
  <2>1. Len(P[i]) \in S
    BY <1>1, <1>5
  <2> QED BY <1>6, <2>1
<1> QED BY <1>6


-----------------------------------------------------------------------------
(***************************************************************************)
(* Outside a rebuild the cached paths are labels, so they are the paths    *)
(* that the parent indices give, and every node in use is below the root.  *)
(***************************************************************************)
\* A free slot still has a parent index of the table: 0, or the one it had.
FreeOK == \A i \in Slots : ~InUse(i) => nodes[i].parent \in Slots

UsedSlots  == {i \in Slots : InUse(i)}
CachedPath == [i \in UsedSlots |-> nodes[i].path]

LEMMA LinkedTable == IInv /\ FreeOK => Linked
BY SlotsAssumption DEF IInv, TypeOK, Tree, ParentsOK, FreeOK, Linked, Root, Slots

SettledPathsOK ==
    /\ UsedSlots \in SUBSET Slots /\ \A i \in UsedSlots : InUse(i)
    /\ CachedPath \in [UsedSlots -> Seq(Names)]
    /\ Labels(UsedSlots, CachedPath)

LEMMA SettledLabels == IInv /\ Settled => SettledPathsOK
<1> SUFFICES ASSUME IInv, Settled PROVE SettledPathsOK
  OBVIOUS
<1>1. UsedSlots \in SUBSET Slots /\ \A i \in UsedSlots : i \in Slots /\ InUse(i)
  BY DEF UsedSlots
<1>2. CachedPath \in [UsedSlots -> Seq(Names)]
  <2>1. \A i \in UsedSlots : nodes[i].path \in Seq(Names)
    BY <1>1 DEF IInv, TypeOK, Node
  <2> QED BY <2>1 DEF CachedPath
<1>3. Root \in UsedSlots /\ CachedPath[Root] = << >>
  <2>1. Root \in Slots
    BY SlotsAssumption DEF Root, Slots
  <2>2. Root \in UsedSlots
    BY <2>1 DEF IInv, Tree, RootOK, UsedSlots
  <2> QED BY <2>2 DEF IInv, Tree, RootOK, CachedPath
<1>4. ASSUME NEW i \in UsedSlots \ {Root}
      PROVE  /\ nodes[i].parent \in UsedSlots /\ nodes[i].name \in Names
             /\ CachedPath[i] = Append(CachedPath[nodes[i].parent], nodes[i].name)
  <2>1. /\ nodes[i].parent \in Slots /\ InUse(nodes[i].parent)
        /\ nodes[i].name \in Names
        /\ nodes[i].path = Append(nodes[nodes[i].parent].path, nodes[i].name)
    BY <1>1, SettledPaths
  <2>2. nodes[i].parent \in UsedSlots
    BY <2>1 DEF UsedSlots
  <2> QED BY <2>1, <2>2 DEF CachedPath
<1> QED BY <1>1, <1>2, <1>3, <1>4 DEF SettledPathsOK, Labels

\* In a settled table the mapping's path of a node in use is its cached path.
SettledTrue ==
    \A i \in UsedSlots : Rooted(i) /\ PathOf[i] = nodes[i].path

LEMMA SettledIsTrue == IInv /\ FreeOK /\ Settled => SettledTrue
<1> SUFFICES ASSUME IInv, FreeOK, Settled PROVE SettledTrue
  OBVIOUS
<1>1. Linked /\ SettledPathsOK
  BY LinkedTable, SettledLabels
<1>2. \A i \in UsedSlots : Rooted(i) /\ PathOf[i] = CachedPath[i]
  BY <1>1, LabelsAreTrue DEF SettledPathsOK, LabelsTrue
<1> QED BY <1>2 DEF SettledTrue, CachedPath

\* The way to the root is as it was when no slot's parent changed, and so are
\* the true paths when no name did.
Unmoved == \A i \in Slots : nodes'[i].parent = nodes[i].parent

LEMMA SameAncestors ==
  ASSUME Linked, Linked', Unmoved
  PROVE  \A k \in Nat, i \in Slots : Ancestor'[k][i] = Ancestor[k][i]
<1>1. AncestorSteps
  BY AncestorDef
<1>2. (Linked => AncestorSteps)'
  BY AncestorDef, PTL
<1>3. AncestorSteps'
  BY <1>2
<1> DEFINE S == {k \in Nat : \A i \in Slots : Ancestor'[k][i] = Ancestor[k][i]}
<1>4. 0 \in S
  BY <1>1, <1>3 DEF AncestorSteps
<1>5. ASSUME NEW k \in S PROVE k + 1 \in S
  <2>1. k \in Nat /\ k + 1 \in Nat /\ \A i \in Slots : Ancestor'[k][i] = Ancestor[k][i]
    OBVIOUS
  <2>2. ASSUME NEW i \in Slots PROVE Ancestor'[k + 1][i] = Ancestor[k + 1][i]
    <3>1. CASE i = Root
      BY <1>1, <1>3, <2>1, <3>1 DEF AncestorSteps
    <3>2. CASE i # Root
      <4>1. PICK p \in Slots : p = nodes[i].parent
        BY <3>2 DEF Linked
      <4>2. nodes'[i].parent = p
        BY <4>1 DEF Unmoved
      <4>3. Ancestor[k + 1][i] = Ancestor[k][p]
        BY <1>1, <2>1, <3>2, <4>1 DEF AncestorSteps
      <4>4. Ancestor'[k + 1][i] = Ancestor'[k][p]
        BY <1>3, <2>1, <3>2, <4>2 DEF AncestorSteps
      <4> QED BY <2>1, <4>3, <4>4
    <3> QED BY <3>1, <3>2
  <2> QED BY <2>1, <2>2
<1>6. S = Nat
  <2>1. S \in SUBSET Nat
    OBVIOUS
  <2> HIDE DEF S
  <2> QED BY <1>4, <1>5, <2>1, AllNumbers
<1> QED BY <1>6

LEMMA SamePaths ==
  ASSUME Linked, Linked', Unmoved,
         \A i \in Slots : nodes'[i].name = nodes[i].name
  PROVE  \A k \in Nat, i \in Slots : TruePath'[k][i] = TruePath[k][i]
<1>1. TruePathSteps
  BY TruePathDef
<1>2. (Linked => TruePathSteps)'
  BY TruePathDef, PTL
<1>3. TruePathSteps'
  BY <1>2
<1> DEFINE S == {k \in Nat : \A i \in Slots : TruePath'[k][i] = TruePath[k][i]}
<1>4. 0 \in S
  BY <1>1, <1>3 DEF TruePathSteps
<1>5. ASSUME NEW k \in S PROVE k + 1 \in S
  <2>1. k \in Nat /\ k + 1 \in Nat /\ \A i \in Slots : TruePath'[k][i] = TruePath[k][i]
    OBVIOUS
  <2>2. ASSUME NEW i \in Slots PROVE TruePath'[k + 1][i] = TruePath[k + 1][i]
    <3>1. CASE i = Root
      BY <1>1, <1>3, <2>1, <3>1 DEF TruePathSteps
    <3>2. CASE i # Root
      <4>1. PICK p \in Slots : p = nodes[i].parent
        BY <3>2 DEF Linked
      <4>2. nodes'[i].parent = p /\ nodes'[i].name = nodes[i].name
        BY <4>1 DEF Unmoved
      <4>3. TruePath[k + 1][i] = Append(TruePath[k][p], nodes[i].name)
        BY <1>1, <2>1, <3>2, <4>1 DEF TruePathSteps
      <4>4. TruePath'[k + 1][i] = Append(TruePath'[k][p], nodes[i].name)
        <5>1. TruePath'[k + 1][i] = Append(TruePath'[k][nodes'[i].parent], nodes'[i].name)
          BY <1>3, <2>1, <3>2 DEF TruePathSteps
        <5> QED BY <4>2, <5>1
      <4> QED BY <2>1, <4>3, <4>4
    <3> QED BY <3>1, <3>2
  <2> QED BY <2>1, <2>2
<1>6. S = Nat
  <2>1. S \in SUBSET Nat
    OBVIOUS
  <2> HIDE DEF S
  <2> QED BY <1>4, <1>5, <2>1, AllNumbers
<1> QED BY <1>6

-----------------------------------------------------------------------------
(***************************************************************************)
(* What a rebuild outgrows its buffer for.  A running rebuild's call is as *)
(* deep below the root, at least, as the path of its directory is long     *)
(* (StackDeep): a path that no longer fits is of a node that is too deep.  *)
(* SourceOK says where an owed write's text comes from.                    *)
(***************************************************************************)
PathsFit == \A i \in Slots : InUse(i) => Len(nodes[i].path) <= MaxPath

Deep(i) == \A m \in Nat : m < Len(nodes[i].path) => Ancestor[m][i] # Root

StackDeep == \A k \in 1 .. Len(frames) : Deep(frames[k].dir)

OverrunInside == overrun => frames # << >>

\* i is the file that fs_copy reads for the owed write.
Source(i) ==
    /\ InUse(i) /\ nodes[i].type = "FILE" /\ nodes[i].data = pending[2]
    /\ nodes[i].path \in Paths /\ nodes[i].path # pending[1]

SourceOK ==
    pending # NoWrite =>
        /\ pending[1] \in Paths
        /\ pending[2] \in LineTexts \/ \E i \in Slots : Source(i)

TInv == /\ IInv /\ FreeOK /\ PathsFit /\ StackDeep
        /\ OverrunInside /\ OverrunCause /\ SourceOK

\* The paths fs_resolve_path can produce fit FS_MAX_PATH.
LEMMA PathsShort == \A p \in Paths : Len(p) \in Nat /\ Len(p) <= MaxPath
<1> SUFFICES ASSUME NEW k \in 0 .. MaxDepth, NEW p \in [1 .. k -> Names]
             PROVE  Len(p) \in Nat /\ Len(p) <= MaxPath
  BY DEF Paths
<1>1. k \in Nat /\ k <= MaxPath
  BY LimitsAssumption
<1>2. p \in Seq(Names) /\ Len(p) = k
  <2>1. p \in Seq(Names)
    BY <1>1, SeqDef
  <2>2. DOMAIN p = 1 .. k /\ DOMAIN p = 1 .. Len(p) /\ Len(p) \in Nat
    BY <2>1, LenProperties
  <2> QED BY <1>1, <2>1, <2>2
<1> QED BY <1>1, <1>2

\* The tree invariant holds after create_default_tree.
LEMMA InitTInv == Init => TInv
<1> SUFFICES ASSUME Init PROVE TInv
  OBVIOUS
<1>1. IInv
  BY InitIInv
<1>2. /\ {0, 1, 2, 3} \subseteq Slots /\ Root = 0
  BY SlotsAssumption DEF Slots, Root
<1>3. /\ nodes[0] = Made("DIR", -1, "/", << >>, << >>)
      /\ nodes[1] = Made("DIR", 0, Progs, <<Progs>>, << >>)
      /\ nodes[2] = Made("DIR", 0, Home, <<Home>>, << >>)
      /\ nodes[3] = Made("FILE", 2, Readme, <<Home, Readme>>, Welcome)
      /\ \A i \in Slots \ {0, 1, 2, 3} : nodes[i] = Blank
  BY <1>2 DEF Init, DefaultTree
<1>4. FreeOK
  <2>1. \A i \in {0, 1, 2, 3} : InUse(i)
    BY <1>3 DEF InUse, Made
  <2>2. Blank.parent \in Slots
    BY <1>2 DEF Blank
  <2> QED BY <1>3, <2>1, <2>2 DEF FreeOK
<1>5. PathsFit
  <2>1. 2 <= MaxPath /\ MaxPath \in Nat
    BY LimitsAssumption
  <2>2. /\ Len(<< >>) <= MaxPath /\ Len(<<Progs>>) <= MaxPath
        /\ Len(<<Home>>) <= MaxPath /\ Len(<<Home, Readme>>) <= MaxPath
    BY <2>1
  <2>3. /\ nodes[0].path = << >> /\ nodes[1].path = <<Progs>>
        /\ nodes[2].path = <<Home>> /\ nodes[3].path = <<Home, Readme>>
    BY <1>3 DEF Made
  <2>4. Blank.path = << >>
    BY DEF Blank
  <2>5. \A i \in {0, 1, 2, 3} : Len(nodes[i].path) <= MaxPath
    BY <2>2, <2>3, Zenon
  <2>6. \A i \in Slots \ {0, 1, 2, 3} : Len(nodes[i].path) <= MaxPath
    BY <1>3, <2>2, <2>4
  <2> QED BY <2>5, <2>6 DEF PathsFit
<1> QED BY <1>1, <1>4, <1>5, EmptySeq
    DEF Init, TInv, StackDeep, OverrunInside, OverrunCause, SourceOK

\* A command that is over, or owes a write: no rebuild is running.
LEMMA NoRebuild ==
  ASSUME IInv', frames' = << >>, overrun' = FALSE, FreeOK', PathsFit', SourceOK'
  PROVE  TInv'
BY EmptySeq DEF TInv, StackDeep, OverrunInside, OverrunCause

\* The slots that were in use keep their paths, and so do the free ones their
\* parents.
LEMMA SameShape ==
  ASSUME TInv, \A i \in Slots : /\ nodes'[i].used = nodes[i].used
                                /\ nodes'[i].parent = nodes[i].parent
                                /\ nodes'[i].path = nodes[i].path
  PROVE  FreeOK' /\ PathsFit'
BY DEF TInv, FreeOK, PathsFit, InUse

\* A step that leaves the table, the call stack and the owed write alone.
LEMMA SameTInv ==
  ASSUME TInv, IInv', UNCHANGED <<nodes, frames, pending, overrun>>
  PROVE  TInv'
<1>1. FreeOK' /\ PathsFit'
  BY SameShape
<1>2. Linked /\ Linked' /\ Unmoved
  <2>1. (IInv /\ FreeOK => Linked)'
    BY LinkedTable, PTL
  <2> QED BY <1>1, <2>1, LinkedTable DEF TInv, Unmoved
<1>3. \A k \in Nat, i \in Slots : Ancestor'[k][i] = Ancestor[k][i]
  BY <1>2, SameAncestors
<1>4. \A k \in 1 .. Len(frames) : frames[k].dir \in Slots
  <2>1. \A k \in 1 .. Len(frames) : frames[k] \in Frame
    BY ElementOfSeq DEF TInv, IInv, TypeOK
  <2> QED BY <2>1 DEF Frame
<1>5. StackDeep'
  BY <1>3, <1>4 DEF TInv, StackDeep, Deep
<1>6. MaxPath \in Nat
  BY LimitsAssumption
<1>7. OverrunCause'
  BY <1>3, <1>6 DEF TInv, OverrunCause, Unnameable, InUse
<1>8. SourceOK' /\ OverrunInside'
  BY DEF TInv, SourceOK, Source, InUse, OverrunInside
<1> QED BY <1>1, <1>5, <1>7, <1>8 DEF TInv

LEMMA RefuseTInv == ASSUME TInv, Refuse PROVE TInv'
<1>1. IInv'
  BY RefuseIInv DEF TInv
<1> QED BY <1>1, SameTInv DEF Refuse

\* touch, mkdir, and the first half of copy and write: a path that
\* fs_resolve_path produced fits.
LEMMA CreateShape ==
  ASSUME TInv, Idle, NEW p \in Paths, NEW t \in {"FILE", "DIR"},
         CreateNode(p, t), frames' = frames
  PROVE  FreeOK' /\ PathsFit'
<1>1. PICK i \in Slots : /\ ~InUse(i) /\ Finds(i, p)' /\ nodes'[i].type = t
                         /\ \A k \in Slots : k # i => nodes'[k] = nodes[k]
  BY CreateTree, PathsAreSeqs DEF TInv, IInv, Idle, Settled
<1>2. nodes'[i].used /\ nodes'[i].path = p /\ Len(p) <= MaxPath
  BY <1>1, PathsShort DEF Finds, HasPath
<1>3. FreeOK'
  BY <1>1, <1>2 DEF TInv, FreeOK, InUse
<1>4. PathsFit'
  <2>1. ASSUME NEW k \in Slots, InUse(k)' PROVE Len(nodes'[k].path) <= MaxPath
    <3>1. CASE k = i
      BY <1>2, <3>1
    <3>2. CASE k # i
      <4>1. nodes'[k] = nodes[k] /\ InUse(k)
        BY <1>1, <2>1, <3>2 DEF InUse
      <4> QED BY <4>1 DEF TInv, PathsFit
    <3> QED BY <3>1, <3>2
  <2> QED BY <2>1 DEF PathsFit
<1> QED BY <1>3, <1>4

LEMMA CreateTInv ==
  ASSUME TInv, Idle, NEW p \in Paths, NEW t \in {"FILE", "DIR"},
         \/ CreateRefused(p)
         \/ CreateNode(p, t) /\ rc' = 0
               /\ UNCHANGED <<current_dir, frames, pending, overrun>>
  PROVE  TInv'
<1>1. CASE CreateRefused(p)
  BY <1>1, RefuseTInv DEF CreateRefused
<1>2. CASE CreateNode(p, t) /\ rc' = 0
             /\ UNCHANGED <<current_dir, frames, pending, overrun>>
  <2>1. IInv'
    BY <1>2, CreateIInv DEF TInv
  <2>2. FreeOK' /\ PathsFit'
    BY <1>2, CreateShape
  <2>3. SourceOK' /\ frames' = << >> /\ overrun' = FALSE
    <3>1. overrun = FALSE
      BY DEF Idle, TInv, IInv, TypeOK
    <3> QED BY <1>2, <3>1 DEF Idle, SourceOK
  <2> QED BY <2>1, <2>2, <2>3, NoRebuild
<1> QED BY <1>1, <1>2

\* del: the slot freed is zeroed, its parent index too.
LEMMA DeleteTInv == ASSUME TInv, NEW p \in Paths, Delete(p) PROVE TInv'
<1>0. IInv'
  BY DeleteIInv DEF TInv
<1>1. CASE Refuse
  BY <1>1, RefuseTInv
<1>2. ASSUME NEW i \in Slots, nodes' = [nodes EXCEPT ![i] = Freed(@)],
             UNCHANGED <<current_dir, frames, pending, overrun>>
      PROVE  TInv'
  <2>1. /\ nodes'[i] = Freed(nodes[i])
        /\ \A k \in Slots : k # i => nodes'[k] = nodes[k]
    BY <1>2 DEF TInv, IInv, TypeOK
  <2>2. Freed(nodes[i]).parent \in Slots /\ ~Freed(nodes[i]).used
    BY SlotsAssumption DEF Freed, Blank, Slots
  <2>3. FreeOK' /\ PathsFit'
    BY <2>1, <2>2 DEF TInv, FreeOK, PathsFit, InUse
  <2>4. SourceOK' /\ frames' = << >> /\ overrun' = FALSE
    BY <1>2 DEF Delete, Idle, SourceOK, TInv, IInv, TypeOK
  <2> QED BY <1>0, <2>3, <2>4, NoRebuild
<1> QED BY <1>1, <1>2 DEF Delete

\* fs_write_file and fs_append_file change a content only.
LEMMA ContentTInv ==
  ASSUME TInv, IInv', NEW i \in Slots, NEW text,
         \/ UNCHANGED nodes
         \/ nodes' = [nodes EXCEPT ![i].data = text],
         frames = << >>, UNCHANGED <<frames, overrun>>, pending' = NoWrite
  PROVE  TInv'
<1>1. \A k \in Slots : /\ nodes'[k].used = nodes[k].used
                       /\ nodes'[k].parent = nodes[k].parent
                       /\ nodes'[k].path = nodes[k].path
  <2>1. nodes \in [Slots -> Node]
    BY DEF TInv, IInv, TypeOK
  <2>2. CASE UNCHANGED nodes
    BY <2>2
  <2>3. CASE nodes' = [nodes EXCEPT ![i].data = text]
    BY <2>1, <2>3 DEF Node
  <2> QED BY <2>2, <2>3
<1>2. FreeOK' /\ PathsFit'
  BY <1>1, SameShape
<1>3. overrun' = FALSE
  BY DEF TInv, OverrunInside, IInv, TypeOK
<1>4. SourceOK'
  BY DEF SourceOK
<1> QED BY <1>2, <1>3, <1>4, NoRebuild

LEMMA StoreTInv ==
  ASSUME TInv, IInv', frames = << >>, NEW p, NEW text, StoreFile(p, text),
         pending' = NoWrite
  PROVE  TInv'
<1>1. Root \in Slots /\ UNCHANGED <<frames, overrun>>
  BY SlotsAssumption DEF Root, Slots, StoreFile
<1>2. CASE UNCHANGED nodes
  BY <1>1, <1>2, ContentTInv
<1>3. ASSUME NEW i \in Slots, nodes' = [nodes EXCEPT ![i].data = text] PROVE TInv'
  BY <1>1, <1>3, ContentTInv
<1> QED BY <1>2, <1>3 DEF StoreFile

LEMMA AppendTInv ==
  ASSUME TInv, NEW p \in Paths, NEW text \in Texts, AppendFile(p, text)
  PROVE  TInv'
<1>0. IInv'
  BY AppendIInv DEF TInv
<1>1. CASE Refuse
  BY <1>1, RefuseTInv
<1>2. ASSUME NEW i \in Slots, nodes' = [nodes EXCEPT ![i].data = @ \o text],
             UNCHANGED <<frames, pending, overrun>>
      PROVE  TInv'
  <2>1. PICK new : new = nodes[i].data \o text
    OBVIOUS
  <2>2. nodes' = [nodes EXCEPT ![i].data = new]
    BY <1>2, <2>1
  <2>3. frames = << >> /\ pending' = NoWrite
    BY <1>2 DEF AppendFile, Idle
  <2> QED BY <1>0, <1>2, <2>2, <2>3, ContentTInv
<1> QED BY <1>1, <1>2 DEF AppendFile

LEMMA ChangeDirTInv == ASSUME TInv, NEW p \in Paths, ChangeDir(p) PROVE TInv'
<1>1. IInv'
  BY ChangeDirIInv DEF TInv
<1>2. UNCHANGED <<nodes, frames, pending, overrun>>
  BY DEF ChangeDir, Refuse
<1> QED BY <1>1, <1>2, SameTInv

\* fs_copy's write has its text from another file, the write command's from
\* the line.
LEMMA CopyTInv ==
  ASSUME TInv, NEW from \in Paths, NEW to \in Paths, Copy(from, to)
  PROVE  TInv'
<1>0. IInv' /\ Idle
  BY CopyIInv DEF TInv, Copy
<1>1. CASE Refuse
  BY <1>1, RefuseTInv
<1>2. ASSUME NEW i \in Slots, FileAt(i, from), CreateNode(to, "FILE"),
             pending' = <<to, nodes'[i].data>>,
             UNCHANGED <<current_dir, frames, overrun, rc>>
      PROVE  TInv'
  <2>1. FreeOK' /\ PathsFit'
    BY <1>0, <1>2, CreateShape
  <2>2. PICK new \in Slots : /\ ~InUse(new)
                             /\ \A k \in Slots : k # new => nodes'[k] = nodes[k]
    BY <1>0, <1>2, CreateTree, PathsAreSeqs DEF TInv, IInv, Idle, Settled
  <2>3. /\ InUse(i) /\ nodes[i].path = from /\ nodes[i].type = "FILE"
    BY <1>2 DEF FileAt, Finds, HasPath, InUse
  <2>4. nodes'[i] = nodes[i]
    BY <2>2, <2>3
  <2>5. from # to
    BY <1>2, <2>3 DEF CreateNode, MayCreate, Exists, HasPath, InUse
  <2>6. Source(i)' /\ pending'[1] = to
    BY <1>2, <2>3, <2>4, <2>5 DEF Source, InUse
  <2>7. SourceOK'
    BY <2>6 DEF SourceOK
  <2>8. frames' = << >> /\ overrun' = FALSE
    BY <1>0, <1>2 DEF Idle, TInv, IInv, TypeOK
  <2> QED BY <1>0, <2>1, <2>7, <2>8, NoRebuild
<1> QED BY <1>1, <1>2 DEF Copy, CreateRefused

LEMMA WriteTInv ==
  ASSUME TInv, NEW p \in Paths, NEW text \in LineTexts, Write(p, text)
  PROVE  TInv'
<1>1. IInv' /\ Idle
  BY WriteIInv DEF TInv, Write
<1>2. CASE StoreFile(p, text) /\ UNCHANGED pending
  BY <1>1, <1>2, StoreTInv DEF Idle
<1>3. CASE CreateRefused(p)
  BY <1>3, RefuseTInv DEF CreateRefused
<1>4. CASE CreateNode(p, "FILE") /\ pending' = <<p, text>>
             /\ UNCHANGED <<current_dir, frames, overrun, rc>>
  <2>1. FreeOK' /\ PathsFit'
    BY <1>1, <1>4, CreateShape
  <2>2. SourceOK'
    BY <1>4 DEF SourceOK
  <2>3. frames' = << >> /\ overrun' = FALSE
    BY <1>1, <1>4 DEF Idle, TInv, IInv, TypeOK
  <2> QED BY <1>1, <2>1, <2>2, <2>3, NoRebuild
<1> QED BY <1>2, <1>3, <1>4 DEF Write

LEMMA PendingTInv == ASSUME TInv, PendingWrite PROVE TInv'
<1>1. IInv' /\ frames = << >>
  BY PendingIInv DEF TInv, PendingWrite, IInv, OneAtATime
<1> QED BY <1>1, StoreTInv DEF PendingWrite

\* The step of fs_move that has an effect, on node i, to the directory d.
Moves(i, d, from, to) ==
    /\ Idle
    /\ Finds(i, from) /\ MayMove(i, to) /\ IsParent(d, to)
    /\ nodes' = [nodes EXCEPT ![i].parent = d, ![i].name = Filename(to),
                              ![i].path = to]
    /\ frames' = Rebuild(i)
    /\ rc' = 0
    /\ UNCHANGED <<current_dir, pending, overrun>>

LEMMA MoveFacts ==
  ASSUME IInv, NEW from \in Paths, NEW to \in Paths, NEW i \in Slots, NEW d \in Slots,
         Moves(i, d, from, to)
  PROVE  /\ i # Root /\ InUse(i) /\ nodes[i].path = from /\ ~Exists(to)
         /\ InUse(d) /\ nodes[d].type = "DIR" /\ nodes[d].path \in Seq(Names)
         /\ to \in Seq(Names) /\ to # << >> /\ Filename(to) \in Names
         /\ to = Append(nodes[d].path, Filename(to))
         /\ Settled /\ Moved(i, d, Filename(to), to)
<1>1. /\ i # Root /\ InUse(i) /\ nodes[i].path = from /\ ~Exists(to) /\ Settled
      /\ IsParent(d, to) /\ to \in Seq(Names)
  BY PathsAreSeqs DEF Moves, MayMove, Finds, HasPath, InUse, Idle, Settled
<1>2. /\ to # << >> /\ InUse(d) /\ nodes[d].type = "DIR"
      /\ Filename(to) \in Names /\ nodes[d].path \in Seq(Names)
      /\ to = Append(nodes[d].path, Filename(to))
  BY <1>1, NewPath DEF IInv
<1> DEFINE n == Filename(to)
<1>3. nodes \in [Slots -> Node]
  BY DEF IInv, TypeOK
<1>4. nodes' = [nodes EXCEPT ![i].parent = d, ![i].name = n, ![i].path = to]
  BY DEF Moves
<1> HIDE DEF n
<1>5. Moved(i, d, n, to)
  BY <1>3, <1>4 DEF Moved, Node
<1> QED BY <1>1, <1>2, <1>5 DEF n

\* A node that was moved is as deep as its new path is long, below itself or
\* not: the heights are those of the old paths, but none reaches its.
LEMMA MoveDeep ==
  ASSUME TInv, NEW from \in Paths, NEW to \in Paths, NEW i \in Slots, NEW d \in Slots,
         Moves(i, d, from, to), Linked'
  PROVE  Deep(i)'
<1>1. /\ i # Root /\ InUse(d) /\ nodes[d].path \in Seq(Names) /\ to \in Seq(Names)
      /\ Filename(to) \in Names /\ to = Append(nodes[d].path, Filename(to))
      /\ Settled /\ Moved(i, d, Filename(to), to)
  BY MoveFacts DEF TInv
<1>2. PICK l \in Nat : Len(to) = l + 1 /\ Len(nodes[d].path) = l
  <2>1. /\ Len(nodes[d].path) \in Nat
        /\ Len(Append(nodes[d].path, Filename(to))) = Len(nodes[d].path) + 1
    BY <1>1, AppendProperties, LenProperties
  <2> QED BY <1>1, <2>1
<1>3. /\ \A x \in Slots : nodes[x].path \in Seq(Names) /\ Len(nodes[x].path) \in Nat
      /\ Root \in Slots /\ nodes[Root].path = << >> /\ Len(<< >>) = 0
      /\ InUse(Root)
  BY SlotsAssumption, LenProperties, EmptySeq
  DEF TInv, IInv, Tree, RootOK, TypeOK, Node, Root, Slots
<1> DEFINE len(x) == Len(nodes[x].path)
           h == [x \in Slots |->
                    CASE x = i -> l + 1
                      [] x # i /\ ~InUse(x) -> 0
                      [] x # i /\ InUse(x) -> IF len(x) < l THEN len(x) ELSE l]
<1>4. h \in [Slots -> Nat]
  <2>1. ASSUME NEW x \in Slots PROVE h[x] \in Nat
    BY <1>3
  <2>2. h = [x \in Slots |-> h[x]]
    OBVIOUS
  <2> HIDE DEF h
  <2> QED BY <2>1, <2>2
<1>5. /\ h[i] = l + 1 /\ h[Root] = 0
      /\ \A x \in Slots : x # i /\ ~InUse(x) => h[x] = 0
      /\ \A x \in Slots : x # i /\ InUse(x) =>
            h[x] = IF len(x) < l THEN len(x) ELSE l
  BY <1>1, <1>3
<1>6. \A x \in Slots : h[x] \in Nat
  BY <1>4
<1> HIDE DEF h
<1>7. ASSUME NEW x \in Slots \ {Root} PROVE h[nodes'[x].parent] >= h[x] - 1
  <2>0. nodes'[x].parent \in Slots
    BY <1>7 DEF Linked
  <2>1. CASE x = i
    <3>1. nodes'[x].parent = d
      BY <1>1, <2>1 DEF Moved
    <3>2. h[d] >= l
      <4>1. CASE d = i
        BY <1>5, <4>1
      <4>2. CASE d # i
        BY <1>1, <1>2, <1>5, <4>2
      <4> QED BY <4>1, <4>2
    <3> QED BY <1>5, <1>6, <2>1, <3>1, <3>2
  <2>2. CASE x # i /\ ~InUse(x)
    BY <1>5, <1>6, <2>0, <2>2
  <2>3. CASE x # i /\ InUse(x)
    <3>1. PICK p \in Slots : p = nodes[x].parent
      BY <2>3, <1>1, SettledPaths DEF TInv
    <3>2. InUse(p) /\ len(x) = len(p) + 1 /\ len(p) \in Nat
      BY <1>1, <1>3, <2>3, <3>1, SettledPaths DEF TInv
    <3>3. nodes'[x].parent = p
      BY <1>1, <2>3, <3>1 DEF Moved
    <3>4. h[x] = IF len(p) + 1 < l THEN len(p) + 1 ELSE l
      BY <1>5, <2>3, <3>2
    <3>5. CASE p = i
      <4>1. h[p] = l + 1
        BY <1>5, <3>5
      <4> QED BY <3>2, <3>3, <3>4, <4>1
    <3>6. CASE p # i
      <4>1. h[p] = IF len(p) < l THEN len(p) ELSE l
        BY <1>5, <3>2, <3>6
      <4> HIDE DEF len
      <4> QED BY <3>2, <3>3, <3>4, <4>1
    <3> QED BY <3>5, <3>6
  <2> QED BY <2>1, <2>2, <2>3
<1>8. (Linked => HeightsCount)'
  BY Heights, PTL
<1>9. HeightsCount'
  BY <1>8
<1>10. \A m \in Nat, x \in Slots : m < h[x] => Ancestor'[m][x] # Root
  BY <1>4, <1>5, <1>7, <1>9 DEF HeightsCount
<1>11. Len(nodes'[i].path) = l + 1
  BY <1>1, <1>2 DEF Moved
<1>12. \A m \in Nat : m < l + 1 => Ancestor'[m][i] # Root
  BY <1>5, <1>10
<1> QED BY <1>11, <1>12 DEF Deep

LEMMA MoveTInv ==
  ASSUME TInv, NEW from \in Paths, NEW to \in Paths, Move(from, to)
  PROVE  TInv'
<1>0. IInv' /\ Idle
  BY MoveIInv DEF TInv, Move
<1>1. CASE Refuse
  BY <1>1, RefuseTInv
<1>2. ASSUME NEW i \in Slots, NEW d \in Slots, Moves(i, d, from, to) PROVE TInv'
  <2>1. /\ InUse(i) /\ Moved(i, d, Filename(to), to)
    BY <1>2, MoveFacts DEF TInv
  <2>2. FreeOK'
    BY <2>1 DEF TInv, FreeOK, InUse, Moved
  <2>3. PathsFit'
    BY <2>1, PathsShort DEF TInv, PathsFit, InUse, Moved
  <2>4. (IInv /\ FreeOK => Linked)'
    BY LinkedTable, PTL
  <2>5. Deep(i)'
    BY <1>0, <1>2, <2>2, <2>4, MoveDeep
  <2>6. StackDeep'
    <3>1. CASE nodes[i].type = "DIR"
      <4>1. Len(frames') = 1 /\ frames'[1].dir = i
        BY <1>2, <3>1 DEF Moves, Rebuild
      <4>2. \A k \in 1 .. Len(frames') : frames'[k].dir = i
        BY <4>1
      <4> QED BY <2>5, <4>2 DEF StackDeep
    <3>2. CASE nodes[i].type # "DIR"
      <4>1. frames' = << >>
        BY <1>2, <3>2 DEF Moves, Rebuild
      <4> QED BY <4>1, EmptySeq DEF StackDeep
    <3> QED BY <3>1, <3>2
  <2>7. overrun' = FALSE /\ pending' = NoWrite
    BY <1>0, <1>2 DEF Moves, Idle, TInv, IInv, TypeOK
  <2>8. OverrunInside' /\ OverrunCause' /\ SourceOK'
    BY <2>7 DEF OverrunInside, OverrunCause, SourceOK
  <2> QED BY <1>0, <2>2, <2>3, <2>6, <2>8 DEF TInv
<1> QED BY <1>0, <1>1, <1>2 DEF Move, Moves

\* One turn of the loop on child j, as RebuildStep takes it.
Visits(f, j) ==
    /\ NextChild(f, j)
    /\ LET path == Append(nodes[f.dir].path, nodes[j].name)
           here == Append(SubSeq(frames, 1, Len(frames) - 1), Visited(f, j))
       IN  \/ /\ ~Fits(path) /\ overrun' = TRUE
              /\ UNCHANGED <<nodes, frames>>
           \/ /\ Fits(path)
              /\ nodes' = [nodes EXCEPT ![j].path = path]
              /\ frames' = IF nodes[j].type = "DIR"
                           THEN Append(here, [dir |-> j, next |-> 0]) ELSE here
              /\ UNCHANGED overrun

\* What a turn of the loop can find of the call stack and the child.
LEMMA VisitFacts ==
  ASSUME TInv, RebuildStep, NEW j \in Slots, NextChild(frames[Len(frames)], j)
  PROVE  LET f == frames[Len(frames)] IN
         /\ f.dir \in Slots /\ j # Root /\ InUse(j)
         /\ nodes[j].parent = f.dir /\ nodes[j].name \in Names
         /\ nodes[f.dir].path \in Seq(Names) /\ Deep(f.dir)
         /\ \A k \in 1 .. Len(frames) : frames[k].dir \in Slots
<1> DEFINE f == frames[Len(frames)]
<1>1. \A k \in 1 .. Len(frames) : frames[k].dir \in Slots
  <2>1. \A k \in 1 .. Len(frames) : frames[k] \in Frame
    BY ElementOfSeq DEF TInv, IInv, TypeOK
  <2> QED BY <2>1 DEF Frame
<1>2. Len(frames) \in 1 .. Len(frames)
  <2>1. frames \in Seq(Frame) /\ frames # << >>
    BY DEF RebuildStep, TInv, IInv, TypeOK
  <2>2. Len(frames) \in Nat /\ Len(frames) # 0
    BY <2>1, EmptySeq, LenProperties
  <2> QED BY <2>2
<1>3. f.dir \in Slots /\ Deep(f.dir)
  BY <1>1, <1>2 DEF TInv, StackDeep
<1>4. InUse(j) /\ nodes[j].parent = f.dir
  BY DEF NextChild, IsChild, InUse
<1>5. j # Root
  BY <1>3, <1>4 DEF TInv, IInv, Tree, RootOK, Slots
<1>6. nodes[j].name \in Names /\ nodes[f.dir].path \in Seq(Names)
  BY <1>3, <1>4, <1>5 DEF TInv, IInv, Tree, NamesOK, TypeOK, Node
<1> QED BY <1>1, <1>3, <1>4, <1>5, <1>6

\* A child is one step deeper than the directory it is in.
LEMMA ChildDeep ==
  ASSUME Linked, NEW d \in Slots, NEW j \in Slots \ {Root}, nodes[j].parent = d,
         nodes[d].path \in Seq(Names), Deep(d)
  PROVE  \A m \in Nat : m < Len(nodes[d].path) + 1 => Ancestor[m][j] # Root
<1>1. AncestorSteps
  BY AncestorDef
<1>2. Len(nodes[d].path) \in Nat
  BY LenProperties
<1>3. ASSUME NEW m \in Nat, m < Len(nodes[d].path) + 1 PROVE Ancestor[m][j] # Root
  <2>1. CASE m = 0
    BY <1>1, <2>1 DEF AncestorSteps
  <2>2. CASE m # 0
    <3>1. PICK k \in Nat : m = k + 1
      <4>1. m - 1 \in Nat /\ m = (m - 1) + 1
        BY <2>2
      <4> QED BY <4>1
    <3>2. k < Len(nodes[d].path)
      BY <1>2, <1>3, <3>1
    <3>3. Ancestor[k + 1][j] = Ancestor[k][d]
      BY <1>1 DEF AncestorSteps
    <3> QED BY <3>1, <3>2, <3>3 DEF Deep
  <2> QED BY <2>1, <2>2
<1> QED BY <1>3

\* rebuild_child_paths: the paths it writes only ever get as long as the way
\* to the root is, and when one does not fit, that is why.
LEMMA RebuildTInv == ASSUME TInv, RebuildStep PROVE TInv'
<1> DEFINE f == frames[Len(frames)]
<1>0. IInv'
  BY RebuildIInv DEF TInv
<1>1. /\ frames # << >> /\ frames \in Seq(Frame) /\ nodes \in [Slots -> Node]
      /\ pending = NoWrite /\ pending' = NoWrite /\ overrun = FALSE
  BY DEF RebuildStep, TInv, IInv, TypeOK, OneAtATime
<1>2. SourceOK'
  BY <1>1 DEF SourceOK
<1>3. \A k \in Slots : /\ nodes'[k].used = nodes[k].used
                       /\ nodes'[k].parent = nodes[k].parent
  <2>1. CASE UNCHANGED nodes
    BY <2>1
  <2>2. ASSUME NEW j \in Slots, NEW path, nodes' = [nodes EXCEPT ![j].path = path]
        PROVE  \A k \in Slots : /\ nodes'[k].used = nodes[k].used
                                /\ nodes'[k].parent = nodes[k].parent
    BY <1>1, <2>2 DEF Node
  <2> QED BY <2>1, <2>2 DEF RebuildStep
<1>4. FreeOK'
  BY <1>3 DEF TInv, FreeOK, InUse
<1>5. Linked /\ Linked' /\ Unmoved
  <2>1. (IInv /\ FreeOK => Linked)'
    BY LinkedTable, PTL
  <2> QED BY <1>0, <1>3, <1>4, <2>1, LinkedTable DEF TInv, Unmoved
<1>6. \A k \in Nat, i \in Slots : Ancestor'[k][i] = Ancestor[k][i]
  BY <1>5, SameAncestors
<1>7. CASE frames' = SubSeq(frames, 1, Len(frames) - 1) /\ UNCHANGED <<nodes, overrun>>
  <2>1. /\ Len(frames') = Len(frames) - 1 /\ Len(frames) \in Nat
        /\ \A k \in 1 .. Len(frames') :
              k \in 1 .. Len(frames) /\ frames'[k] = frames[k] /\ frames[k] \in Frame
    BY <1>1, <1>7, FramesBelow, ElementOfSeq
  <2>2. \A k \in 1 .. Len(frames') : Deep(frames[k].dir) /\ frames[k].dir \in Slots
    BY <2>1 DEF TInv, StackDeep, Frame
  <2>3. StackDeep'
    <3>1. ASSUME NEW k \in 1 .. Len(frames') PROVE Deep(frames[k].dir)'
      <4>1. PICK e \in Slots : e = frames[k].dir /\ e = frames'[k].dir /\ Deep(e)
        BY <2>1, <2>2
      <4>2. Deep(e)'
        BY <1>6, <1>7, <4>1 DEF Deep
      <4> QED BY <4>1, <4>2
    <3> QED BY <3>1 DEF StackDeep
  <2>4. PathsFit' /\ overrun' = FALSE
    BY <1>1, <1>7 DEF TInv, PathsFit, InUse
  <2> QED BY <1>0, <1>2, <1>4, <2>3, <2>4 DEF TInv, OverrunInside, OverrunCause
<1>8. ASSUME NEW j \in Slots, Visits(f, j) PROVE TInv'
  <2>1. /\ f.dir \in Slots /\ j # Root /\ InUse(j)
        /\ nodes[j].parent = f.dir /\ nodes[j].name \in Names
        /\ nodes[f.dir].path \in Seq(Names) /\ Deep(f.dir)
        /\ \A k \in 1 .. Len(frames) : frames[k].dir \in Slots
    BY <1>8, VisitFacts DEF Visits
  <2> DEFINE path == Append(nodes[f.dir].path, nodes[j].name)
             here == Append(SubSeq(frames, 1, Len(frames) - 1), Visited(f, j))
  <2>2. Len(path) = Len(nodes[f.dir].path) + 1 /\ Len(path) \in Nat
    BY <2>1, AppendProperties, LenProperties
  <2>3. \A m \in Nat : m < Len(path) => Ancestor[m][j] # Root
    <3> HIDE DEF f, path
    <3> QED BY <1>5, <2>1, <2>2, ChildDeep
  <2>4. CASE ~Fits(path) /\ overrun' = TRUE /\ UNCHANGED <<nodes, frames>>
    <3>1. MaxPath \in Nat /\ MaxPath < Len(path)
      BY <2>2, <2>4, LimitsAssumption DEF Fits
    <3>2. Ancestor[MaxPath][j] # Root
      BY <2>3, <3>1
    <3>3. Unnameable'
      BY <1>3, <1>6, <2>1, <3>1, <3>2 DEF Unnameable, InUse
    <3>4. StackDeep'
      BY <1>6, <2>1, <2>4 DEF TInv, StackDeep, Deep
    <3>5. PathsFit' /\ OverrunInside' /\ OverrunCause'
      BY <1>1, <2>4, <3>3 DEF TInv, PathsFit, InUse, OverrunInside, OverrunCause
    <3> QED BY <1>0, <1>2, <1>4, <3>4, <3>5 DEF TInv
  <2>5. CASE /\ Fits(path) /\ UNCHANGED overrun
             /\ nodes' = [nodes EXCEPT ![j].path = path]
             /\ frames' = IF nodes[j].type = "DIR"
                          THEN Append(here, [dir |-> j, next |-> 0]) ELSE here
    <3>1. /\ nodes'[j].path = path
          /\ \A k \in Slots : k # j => nodes'[k] = nodes[k]
      BY <1>1, <2>5 DEF Node
    <3>2. PathsFit'
      BY <1>3, <2>5, <3>1 DEF TInv, PathsFit, InUse, Fits
    <3>3. Deep(j)'
      BY <1>6, <2>3, <3>1 DEF Deep
    <3>4. ASSUME NEW k \in Slots, Deep(k) PROVE Deep(k)'
      <4>1. CASE k = j
        BY <3>3, <4>1
      <4>2. CASE k # j
        BY <1>6, <3>1, <3>4, <4>2 DEF Deep
      <4> QED BY <4>1, <4>2
    <3>5. \A k \in 1 .. Len(frames') :
             \/ k \in 1 .. Len(frames) /\ frames'[k].dir = frames[k].dir
             \/ frames'[k].dir = j
      <4>1. Len(frames) \in Nat /\ Len(frames) >= 1 /\ f \in Frame
        BY <1>1, FramesBelow
      <4>2. frames' = LET here2 == Append(SubSeq(frames, 1, Len(frames) - 1),
                                       [f EXCEPT !.next = j + 1])
                    IN  IF nodes[j].type = "DIR"
                        THEN Append(here2, [dir |-> j, next |-> 0]) ELSE here2
        BY <2>5 DEF Visited
      <4>3. nodes' = [nodes EXCEPT ![j].path = Append(nodes[f.dir].path, nodes[j].name)]
        BY <2>5
      <4>4. Tree /\ InUse(f.dir) /\ nodes[f.dir].type = "DIR" /\ NextChild(f, j)
        <5>1. Len(frames) \in 1 .. Len(frames)
          BY <4>1
        <5> QED BY <1>8, <5>1 DEF TInv, IInv, FramesOK, Visits
      <4>5. f = frames[Len(frames)]
        OBVIOUS
      <4> HIDE DEF f, path, here
      <4>6. Tree /\ frames \in Seq(Frame) /\ frames # << >>
        BY <1>1, <4>4
      <4> QED BY <4>2, <4>3, <4>4, <4>5, <4>6, VisitTree
    <3>6. StackDeep'
      <4>1. ASSUME NEW k \in 1 .. Len(frames') PROVE Deep(frames[k].dir)'
        <5>1. CASE k \in 1 .. Len(frames) /\ frames'[k].dir = frames[k].dir
          <6>1. PICK e \in Slots : e = frames[k].dir /\ Deep(e)
            BY <2>1, <5>1 DEF TInv, StackDeep
          <6>2. Deep(e)'
            BY <3>4, <6>1
          <6> QED BY <5>1, <6>1, <6>2
        <5>2. CASE frames'[k].dir = j
          BY <3>3, <5>2
        <5> QED BY <3>5, <5>1, <5>2
      <4> QED BY <4>1 DEF StackDeep
    <3>7. overrun' = FALSE
      BY <1>1, <2>5
    <3> QED BY <1>0, <1>2, <1>4, <3>2, <3>6, <3>7 DEF TInv, OverrunInside, OverrunCause
  <2> QED BY <1>8, <2>4, <2>5 DEF Visits
<1>9. \/ frames' = SubSeq(frames, 1, Len(frames) - 1) /\ UNCHANGED <<nodes, overrun>>
      \/ \E j \in Slots : Visits(f, j)
  BY DEF RebuildStep, Visits
<1> HIDE DEF f
<1> QED BY <1>7, <1>8, <1>9

\* Every step preserves the tree invariant.
LEMMA NextTInv == TInv /\ [Next]_vars => TInv'
<1> SUFFICES ASSUME TInv, [Next]_vars PROVE TInv'
  OBVIOUS
<1>1. ASSUME NEW p \in Paths, Touch(p) PROVE TInv'
  BY <1>1, CreateTInv DEF Touch
<1>2. ASSUME NEW p \in Paths, Mkdir(p) PROVE TInv'
  BY <1>2, CreateTInv DEF Mkdir
<1>3. ASSUME NEW p \in Paths, ChangeDir(p) PROVE TInv'
  BY <1>3, ChangeDirTInv
<1>4. ASSUME NEW p \in Paths, Delete(p) PROVE TInv'
  BY <1>4, DeleteTInv
<1>5. ASSUME NEW p \in Paths, NEW q \in Paths, Move(p, q) PROVE TInv'
  BY <1>5, MoveTInv
<1>6. ASSUME NEW p \in Paths, NEW q \in Paths, Copy(p, q) PROVE TInv'
  BY <1>6, CopyTInv
<1>7. ASSUME NEW p \in Paths, NEW t \in LineTexts, Write(p, t) PROVE TInv'
  BY <1>7, WriteTInv
<1>8. ASSUME NEW p \in Paths, NEW t \in Texts, AppendFile(p, t) PROVE TInv'
  BY <1>8, AppendTInv
<1>9. ASSUME NEW p \in Paths, NEW t \in Texts, WriteFile(p, t) PROVE TInv'
  <2>1. IInv'
    BY <1>9, NextIInv DEF Next, Command, TInv
  <2> QED BY <1>9, <2>1, StoreTInv DEF WriteFile, Idle
<1>10. CASE RebuildStep
  BY <1>10, RebuildTInv
<1>11. CASE PendingWrite
  BY <1>11, PendingTInv
<1>12. CASE UNCHANGED vars
  <2>1. IInv'
    BY <1>12, NextIInv DEF TInv
  <2> QED BY <1>12, <2>1, SameTInv DEF vars
<1> QED
  BY <1>1, <1>2, <1>3, <1>4, <1>5, <1>6, <1>7, <1>8, <1>9, <1>10, <1>11,
     <1>12
  DEF Next, Command

\* The inductive invariant holds in every reachable state.
THEOREM TreeInvariance == Spec => []TInv
<1>1. Init => TInv
  BY InitTInv
<1>2. TInv /\ [Next]_vars => TInv'
  BY NextTInv
<1> QED BY <1>1, <1>2, PTL DEF Spec

\* Once a command has returned, every node in use hangs off the root, whatever
\* was moved where: a cycle can be made, but then no command returns.
THEOREM ReachableCorrect == Spec => []Reachable
<1>1. TInv => Reachable
  BY SettledIsTrue DEF TInv, Reachable, SettledTrue, UsedSlots
<1> QED BY <1>1, TreeInvariance, PTL

\* rebuild_child_paths outgrows its buffer only when a directory was moved below
\* itself, or so deep that FS_MAX_PATH cannot hold a path below it.
THEOREM OverrunCauseCorrect == Spec => []OverrunCause
<1>1. TInv => OverrunCause
  BY DEF TInv
<1> QED BY <1>1, TreeInvariance, PTL

-----------------------------------------------------------------------------
(***************************************************************************)
(* Prefixes of paths, and where a move takes a path.                       *)
(***************************************************************************)
\* Promise!Under is about the components.
LEMMA UnderPrefix ==
  ASSUME NEW d \in Seq(Names), NEW p \in Seq(Names)
  PROVE  Promise!Under(d, p) <=> Len(d) <= Len(p) /\ \A k \in 1 .. Len(d) : p[k] = d[k]
<1>1. Len(d) \in Nat /\ Len(p) \in Nat
  BY LenProperties
<1>2. ASSUME Len(d) <= Len(p)
      PROVE  /\ SubSeq(p, 1, Len(d)) \in Seq(Names) /\ Len(SubSeq(p, 1, Len(d))) = Len(d)
             /\ \A k \in 1 .. Len(d) : SubSeq(p, 1, Len(d))[k] = p[k]
  <2>1. \A k \in 1 .. Len(d) : p[k] \in Names
    BY <1>1, <1>2, ElementOfSeq
  <2>2. /\ SubSeq(p, 1, Len(d)) \in Seq(Names)
        /\ Len(SubSeq(p, 1, Len(d))) = IF 1 <= Len(d) THEN Len(d) - 1 + 1 ELSE 0
        /\ \A k \in 1 .. Len(d) - 1 + 1 : SubSeq(p, 1, Len(d))[k] = p[1 + k - 1]
    BY <1>1, <2>1, SubSeqProperties
  <2> QED BY <1>1, <2>2
<1>3. ASSUME Len(d) <= Len(p), \A k \in 1 .. Len(d) : p[k] = d[k]
      PROVE  SubSeq(p, 1, Len(d)) = d
  <2>1. \A k \in 1 .. Len(d) : SubSeq(p, 1, Len(d))[k] = d[k]
    BY <1>2, <1>3
  <2> QED BY <1>2, <1>3, <2>1, SeqEqual
<1>4. ASSUME Len(d) <= Len(p), SubSeq(p, 1, Len(d)) = d
      PROVE  \A k \in 1 .. Len(d) : p[k] = d[k]
  BY <1>2, <1>4
<1> QED BY <1>3, <1>4 DEF Promise!Under

\* A path is under another, or is it, if the path one shorter is.
LEMMA UnderAppend ==
  ASSUME NEW d \in Seq(Names), NEW s \in Seq(Names), NEW n \in Names
  PROVE  /\ Append(s, n) \in Seq(Names)
         /\ Promise!Under(d, d)
         /\ Promise!Under(d, << >>) <=> d = << >>
         /\ Promise!Under(d, Append(s, n)) <=> Promise!Under(d, s) \/ Append(s, n) = d
         /\ Promise!Under(d, s) => Append(s, n) # d
<1> DEFINE p == Append(s, n)
<1>1. /\ p \in Seq(Names) /\ Len(p) = Len(s) + 1 /\ Len(s) \in Nat /\ Len(d) \in Nat
      /\ \A k \in 1 .. Len(s) : p[k] = s[k]
  BY AppendProperties, LenProperties
<1> HIDE DEF p
<1>2. Promise!Under(d, d)
  BY <1>1, UnderPrefix
<1>3. Promise!Under(d, << >>) <=> d = << >>
  <2>1. PICK e \in Seq(Names) : e = << >> /\ Len(e) = 0
    BY EmptySeq
  <2>2. Len(e) = 0 /\ (Len(d) = 0 => d = e)
    BY <2>1, EmptySeq
  <2>3. Promise!Under(d, e) => d = e
    <3>1. Promise!Under(d, e) => Len(d) <= Len(e)
      BY UnderPrefix
    <3>2. Len(d) <= Len(e) => Len(d) = 0
      BY <1>1, <2>2
    <3> QED BY <2>2, <3>1, <3>2
  <2>4. Promise!Under(e, e)
    <3>1. Len(e) <= Len(e)
      BY <2>2
    <3> QED BY <3>1, UnderPrefix
  <2> QED BY <2>1, <2>3, <2>4
<1>4. ASSUME Promise!Under(d, s) PROVE Promise!Under(d, p) /\ p # d
  <2>1. Len(d) <= Len(s) /\ \A k \in 1 .. Len(d) : s[k] = d[k]
    BY <1>4, UnderPrefix
  <2>2. Len(d) <= Len(p) /\ \A k \in 1 .. Len(d) : p[k] = d[k]
    BY <1>1, <2>1
  <2> QED BY <1>1, <2>1, <2>2, UnderPrefix
<1>5. ASSUME Promise!Under(d, p), p # d PROVE Promise!Under(d, s)
  <2>1. Len(d) <= Len(p) /\ \A k \in 1 .. Len(d) : p[k] = d[k]
    BY <1>1, <1>5, UnderPrefix
  <2>2. Len(d) # Len(p)
    BY <1>1, <1>5, <2>1, SeqEqual
  <2>3. Len(d) <= Len(s) /\ \A k \in 1 .. Len(d) : s[k] = d[k]
    BY <1>1, <2>1, <2>2
  <2> QED BY <2>3, UnderPrefix
<1>6. p = d => Promise!Under(d, p)
  BY <1>2
<1> QED BY <1>1, <1>2, <1>3, <1>4, <1>5, <1>6 DEF p

\* Strictly under is Below.
LEMMA UnderBelow ==
  ASSUME NEW d \in Seq(Names), NEW p \in Seq(Names)
  PROVE  Promise!Under(d, p) /\ p # d <=> Below(p, d)
<1>1. Len(d) \in Nat /\ Len(p) \in Nat
  BY LenProperties
<1>2. ASSUME Promise!Under(d, p), p # d PROVE Below(p, d)
  <2>1. Len(d) <= Len(p) /\ \A k \in 1 .. Len(d) : p[k] = d[k]
    BY <1>2, UnderPrefix
  <2>2. Len(d) # Len(p)
    BY <1>2, <2>1, SeqEqual
  <2> QED BY <1>1, <2>1, <2>2 DEF Below
<1>3. ASSUME Below(p, d) PROVE Promise!Under(d, p) /\ p # d
  BY <1>1, <1>3, UnderPrefix DEF Below
<1> QED BY <1>2, <1>3

\* Where a move takes a path, step by step.
LEMMA MovedSteps ==
  ASSUME NEW from \in Seq(Names), NEW to \in Seq(Names), NEW s \in Seq(Names),
         NEW n \in Names
  PROVE  /\ Promise!Moved(from, to, s) \in Seq(Names)
         /\ Promise!Moved(from, to, from) = to
         /\ Promise!Moved(from, to, Append(s, n)) =
               IF Append(s, n) = from THEN to
               ELSE Append(Promise!Moved(from, to, s), n)
<1> DEFINE l == Len(from)
           p == Append(s, n)
           rest(q) == SubSeq(q, l + 1, Len(q))
<1>1. l \in Nat
  BY LenProperties
<1>2. ASSUME NEW q \in Seq(Names), l <= Len(q)
      PROVE  /\ rest(q) \in Seq(Names) /\ Len(rest(q)) = Len(q) - l
             /\ \A k \in 1 .. Len(q) - l : rest(q)[k] = q[l + k]
  <2>1. Len(q) \in Nat /\ \A k \in l + 1 .. Len(q) : q[k] \in Names
    <3>1. Len(q) \in Nat /\ \A k \in 1 .. Len(q) : q[k] \in Names
      BY LenProperties, ElementOfSeq
    <3> QED BY <1>1, <3>1
  <2> HIDE DEF l
  <2>2. /\ rest(q) \in Seq(Names)
        /\ Len(rest(q)) = IF l + 1 <= Len(q) THEN Len(q) - (l + 1) + 1 ELSE 0
        /\ \A k \in 1 .. Len(q) - (l + 1) + 1 : rest(q)[k] = q[l + 1 + k - 1]
    BY <1>1, <2>1, SubSeqProperties
  <2>3. Len(rest(q)) = Len(q) - l
    BY <1>1, <1>2, <2>1, <2>2
  <2>4. ASSUME NEW k \in 1 .. Len(q) - l PROVE rest(q)[k] = q[l + k]
    <3>1. k \in 1 .. Len(q) - (l + 1) + 1 /\ l + 1 + k - 1 = l + k
      BY <1>1, <2>1
    <3> QED BY <2>2, <3>1
  <2> QED BY <2>2, <2>3, <2>4
<1>3. Promise!Moved(from, to, s) \in Seq(Names)
  <2>1. CASE Promise!Under(from, s)
    <3>1. rest(s) \in Seq(Names)
      BY <1>2, <2>1, UnderPrefix
    <3> QED BY <2>1, <3>1, ConcatProperties DEF Promise!Moved
  <2>2. CASE ~Promise!Under(from, s)
    BY <2>2 DEF Promise!Moved
  <2> QED BY <2>1, <2>2
<1>4. Promise!Moved(from, to, from) = to
  <2>1. rest(from) = << >>
    <3>1. l + 1 \in Int /\ l \in Int /\ l < l + 1
      BY <1>1
    <3> QED BY <3>1, SubSeqEmpty
  <2>2. Promise!Under(from, from)
    BY <1>1, UnderPrefix
  <2> QED BY <2>1, <2>2, ConcatEmptySeq DEF Promise!Moved
<1>5. /\ p \in Seq(Names) /\ Len(p) = Len(s) + 1 /\ Len(s) \in Nat
      /\ (\A k \in 1 .. Len(s) : p[k] = s[k]) /\ p[Len(s) + 1] = n
  BY AppendProperties, LenProperties
<1>6. p = from => Promise!Moved(from, to, p) = to
  BY <1>4
<1>7. ASSUME p # from, ~Promise!Under(from, s)
      PROVE  Promise!Moved(from, to, p) = Append(Promise!Moved(from, to, s), n)
  <2>1. ~Promise!Under(from, p)
    BY <1>7, UnderAppend
  <2> QED BY <1>7, <2>1 DEF Promise!Moved
<1>8. ASSUME p # from, Promise!Under(from, s)
      PROVE  Promise!Moved(from, to, p) = Append(Promise!Moved(from, to, s), n)
  <2>1. Promise!Under(from, p)
    BY <1>8, UnderAppend
  <2>2. l <= Len(s) /\ l <= Len(p)
    BY <1>5, <1>8, <2>1, UnderPrefix
  <2>3. /\ rest(s) \in Seq(Names) /\ Len(rest(s)) = Len(s) - l
        /\ \A k \in 1 .. Len(s) - l : rest(s)[k] = s[l + k]
    BY <1>2, <2>2
  <2>4. /\ rest(p) \in Seq(Names) /\ Len(rest(p)) = Len(p) - l
        /\ \A k \in 1 .. Len(p) - l : rest(p)[k] = p[l + k]
    BY <1>2, <1>5, <2>2
  <2>5. /\ Append(rest(s), n) \in Seq(Names)
        /\ Len(Append(rest(s), n)) = Len(s) - l + 1
        /\ \A k \in 1 .. Len(s) - l : Append(rest(s), n)[k] = rest(s)[k]
        /\ Append(rest(s), n)[Len(s) - l + 1] = n
    BY <2>3, AppendProperties
  <2>6. rest(p) = Append(rest(s), n)
    <3> HIDE DEF l, p, rest
    <3>1. ASSUME NEW k \in 1 .. Len(rest(p)) PROVE rest(p)[k] = Append(rest(s), n)[k]
      <4>1. k \in 1 .. Len(s) - l \/ k = Len(s) - l + 1
        BY <1>1, <1>5, <2>2, <2>4
      <4>2. CASE k \in 1 .. Len(s) - l
        <5>1. l + k \in 1 .. Len(s) /\ k \in 1 .. Len(p) - l
          BY <1>1, <1>5, <2>2, <4>2
        <5> QED BY <1>5, <2>3, <2>4, <2>5, <4>2, <5>1
      <4>3. CASE k = Len(s) - l + 1
        <5>1. l + k = Len(s) + 1 /\ k \in 1 .. Len(p) - l
          BY <1>1, <1>5, <2>2, <4>3
        <5> QED BY <1>5, <2>4, <2>5, <4>3, <5>1
      <4> QED BY <4>1, <4>2, <4>3
    <3>2. Len(rest(p)) = Len(Append(rest(s), n))
      BY <1>1, <1>5, <2>4, <2>5
    <3> QED BY <2>4, <2>5, <3>1, <3>2, SeqEqual
  <2>7. to \o Append(rest(s), n) = Append(to \o rest(s), n)
    <3> HIDE DEF rest
    <3>1. to \o rest(s) \in Seq(Names) /\ <<n>> \in Seq(Names)
      BY <2>3, ConcatProperties
    <3>2. Append(rest(s), n) = rest(s) \o <<n>>
      BY <2>3, AppendIsConcat
    <3>3. Append(to \o rest(s), n) = (to \o rest(s)) \o <<n>>
      BY <3>1, AppendIsConcat
    <3> QED BY <2>3, <3>1, <3>2, <3>3, ConcatAssociative
  <2> QED BY <1>8, <2>1, <2>6, <2>7 DEF Promise!Moved
<1> QED BY <1>3, <1>4, <1>6, <1>7, <1>8

LEMMA MovedChild ==
  ASSUME NEW from \in Seq(Names), NEW to \in Seq(Names), NEW s \in Seq(Names),
         NEW n \in Names, Append(s, n) # from
  PROVE  Promise!Moved(from, to, Append(s, n)) = Append(Promise!Moved(from, to, s), n)
BY MovedSteps

-----------------------------------------------------------------------------
(***************************************************************************)
(* The tree that FileTree sees of a table that no rebuild is changing.     *)
(***************************************************************************)
\* f is a function.
Fcn(f) == f = [p \in DOMAIN f |-> f[p]]

LEMMA FcnEqual ==
  ASSUME NEW f, NEW g, Fcn(f), Fcn(g), DOMAIN f = DOMAIN g,
         \A p \in DOMAIN f : f[p] = g[p]
  PROVE  f = g
BY DEF Fcn

\* t holds the entries of the slots of S at their paths.
Tabulates(t, S, path, entry) ==
    /\ Fcn(t) /\ DOMAIN t = {path[i] : i \in S}
    /\ \A i \in S : t[path[i]] = entry[i]

LEMMA MapValues ==
  ASSUME NEW S, NEW path, NEW entry, \A i, j \in S : path[i] = path[j] => i = j
  PROVE  Tabulates(MapOf(S, path, entry), S, path, entry)
<1> DEFINE D == {path[i] : i \in S}
           of(p) == CHOOSE i \in S : path[i] = p
           t == MapOf(S, path, entry)
<1>1. t = [p \in D |-> entry[of(p)]]
  BY DEF MapOf
<1>2. Fcn(t) /\ DOMAIN t = D
  BY <1>1 DEF Fcn
<1>3. ASSUME NEW i \in S PROVE t[path[i]] = entry[i]
  <2>1. of(path[i]) = i
    OBVIOUS
  <2>2. path[i] \in D
    OBVIOUS
  <2> HIDE DEF of, D, t
  <2> QED BY <1>1, <2>1, <2>2
<1> QED BY <1>2, <1>3 DEF Tabulates

LEMMA TableUnique ==
  ASSUME NEW t, NEW u, NEW S, NEW path, NEW entry,
         Tabulates(t, S, path, entry), Tabulates(u, S, path, entry)
  PROVE  t = u
<1>1. DOMAIN t = DOMAIN u
  BY DEF Tabulates
<1>2. \A p \in DOMAIN t : t[p] = u[p]
  BY DEF Tabulates
<1> QED BY <1>1, <1>2, FcnEqual DEF Tabulates

\* What the tree is outside a rebuild.
SettledTree ==
    /\ Shown = {i \in UsedSlots : ~Unwritten(i)}
    /\ Tabulates(TreeOf, Shown, [i \in Slots |-> nodes[i].path], EntryOf)
    /\ Cardinality(DOMAIN TreeOf) < NumSlots <=> Shown # Slots

LEMMA SettledTreeIs == IInv /\ FreeOK /\ Settled => SettledTree
<1> SUFFICES ASSUME IInv, FreeOK, Settled PROVE SettledTree
  OBVIOUS
<1> DEFINE P == [i \in Slots |-> nodes[i].path]
<1>1. \A i \in UsedSlots : Rooted(i) /\ PathOf[i] = nodes[i].path
  BY SettledIsTrue DEF SettledTrue
<1>2. Shown = {i \in UsedSlots : ~Unwritten(i)}
  BY <1>1 DEF Shown, UsedSlots
<1>3. \A i \in Shown : i \in Slots /\ InUse(i) /\ PathOf[i] = P[i]
  BY <1>1, <1>2 DEF UsedSlots
<1>4. \A i, j \in Shown : PathOf[i] = PathOf[j] => i = j
  BY <1>3, PathsUnique
<1>5. Tabulates(TreeOf, Shown, PathOf, EntryOf)
  BY <1>4, MapValues DEF TreeOf
<1>6. Tabulates(TreeOf, Shown, P, EntryOf)
  <2>1. {PathOf[i] : i \in Shown} = {P[i] : i \in Shown}
    BY <1>3
  <2>2. \A i \in Shown : TreeOf[P[i]] = EntryOf[i]
    BY <1>3, <1>5 DEF Tabulates
  <2> QED BY <1>5, <2>1, <2>2 DEF Tabulates
<1>7. Cardinality(DOMAIN TreeOf) = Cardinality(Shown) /\ IsFiniteSet(Shown)
  <2>1. IsFiniteSet(Slots)
    BY SlotsAssumption, FS_Interval DEF Slots
  <2>2. Shown \in SUBSET Slots
    BY <1>3
  <2>3. IsFiniteSet(Shown)
    BY <2>1, <2>2, FS_Subset
  <2> DEFINE D == DOMAIN TreeOf
             f == [i \in Shown |-> P[i]]
  <2>4. D = {P[i] : i \in Shown}
    BY <1>6 DEF Tabulates
  <2>5. f \in Bijection(Shown, D)
    <3>1. f \in [Shown -> D]
      BY <2>4
    <3>2. \A i, j \in Shown : f[i] = f[j] => i = j
      BY <1>3, <1>4
    <3>3. \A p \in D : \E i \in Shown : f[i] = p
      BY <2>4
    <3> HIDE DEF f, D
    <3> QED BY <3>1, <3>2, <3>3 DEF Bijection, Injection, Surjection, IsInjective
  <2>6. ExistsBijection(Shown, D)
    BY <2>5 DEF ExistsBijection
  <2>7. Cardinality(D) = Cardinality(Shown)
    <3> HIDE DEF D
    <3> QED BY <2>3, <2>6, FS_Bijection
  <2> QED BY <2>3, <2>7
<1>8. Cardinality(Shown) < NumSlots <=> Shown # Slots
  <2>1. IsFiniteSet(Slots) /\ Cardinality(Slots) = NumSlots
    BY SlotsAssumption, FS_Interval DEF Slots
  <2>2. Shown \in SUBSET Slots
    BY <1>3
  <2>3. /\ Cardinality(Shown) <= Cardinality(Slots)
        /\ Cardinality(Slots) = Cardinality(Shown) => Slots = Shown
    BY <2>1, <2>2, FS_Subset
  <2>4. Cardinality(Shown) \in Nat
    BY <1>7, FS_CardinalityType
  <2>5. NumSlots \in Nat
    BY SlotsAssumption
  <2> QED BY <2>1, <2>3, <2>4, <2>5
<1> QED BY <1>2, <1>6, <1>7, <1>8 DEF SettledTree

-----------------------------------------------------------------------------
(***************************************************************************)
(* Filesystem implements FileTree: steps that the tree does not show.      *)
(***************************************************************************)
\* A step that changes paths only: neither the tree nor who is on it changes.
LEMMA SameTree ==
  ASSUME Linked, Linked',
         \A i \in Slots : /\ nodes'[i].used = nodes[i].used
                          /\ nodes'[i].type = nodes[i].type
                          /\ nodes'[i].parent = nodes[i].parent
                          /\ nodes'[i].name = nodes[i].name
                          /\ nodes'[i].data = nodes[i].data
                          /\ Unwritten(i)' <=> Unwritten(i)
  PROVE  /\ TreeOf' = TreeOf /\ PathOf' = PathOf
         /\ \A k \in Nat, i \in Slots : Ancestor'[k][i] = Ancestor[k][i]
         /\ \A i \in Slots : Rooted(i)' <=> Rooted(i)
<1>1. NumSlots \in Nat
  BY SlotsAssumption
<1>2. Unmoved
  BY DEF Unmoved
<1>3. \A k \in Nat, i \in Slots : Ancestor'[k][i] = Ancestor[k][i]
  BY <1>2, SameAncestors
<1>4. \A i \in Slots : Rooted(i)' <=> Rooted(i)
  BY <1>1, <1>3 DEF Rooted
<1>5. PathOf' = PathOf
  <2>1. \A i \in Slots : TruePath'[NumSlots][i] = TruePath[NumSlots][i]
    BY <1>1, <1>2, SamePaths
  <2>2. TruePathSteps
    BY TruePathDef
  <2>3. (Linked => TruePathSteps)'
    BY TruePathDef, PTL
  <2>4. TruePath[NumSlots] \in [Slots -> Seq(AllNames)]
    BY <1>1, <2>2 DEF TruePathSteps
  <2>5. TruePath'[NumSlots] \in [Slots -> Seq(AllNames)]
    BY <1>1, <2>3 DEF TruePathSteps
  <2> QED BY <2>1, <2>4, <2>5 DEF PathOf
<1>6. EntryOf' = EntryOf
  BY DEF EntryOf
<1>7. Shown' = Shown
  BY <1>4 DEF Shown, InUse
<1>8. TreeOf' = TreeOf
  BY <1>5, <1>6, <1>7 DEF TreeOf, MapOf
<1> QED BY <1>3, <1>4, <1>5, <1>8

\* With no rebuild running, no move is lost.
LEMMA NotLost == frames = << >> /\ overrun = FALSE => ~(overrun \/ Doomed)
BY DEF Doomed

\* An early return is a command that fails.
LEMMA RefuseMaps == ASSUME TInv, TInv', Idle, Refuse PROVE Promise!Fail
<1>1. UNCHANGED <<nodes, current_dir, frames, pending, overrun>> /\ rc' = 1
  BY DEF Refuse
<1>2. Linked /\ Linked'
  <2>1. (IInv /\ FreeOK => Linked)'
    BY LinkedTable, PTL
  <2> QED BY <2>1, LinkedTable DEF TInv
<1>3. TreeOf' = TreeOf
  <2>1. \A i \in Slots : Unwritten(i)' <=> Unwritten(i)
    BY <1>1 DEF Unwritten, FileAt, Finds, HasPath
  <2> QED BY <1>1, <1>2, <2>1, SameTree
<1>4. (overrun \/ Doomed)' = (overrun \/ Doomed)
  <2>1. frames = << >> /\ overrun = FALSE
    BY DEF Idle, TInv, IInv, TypeOK
  <2> QED BY <1>1, <2>1 DEF Doomed
<1> QED BY <1>1, <1>3, <1>4 DEF Promise!Fail

\* The steps of rebuild_child_paths are not seen: the parent indices gave the
\* new tree already, and whether the rebuild can end well was settled too.
LEMMA RebuildMaps ==
  ASSUME TInv, TInv', RebuildStep PROVE UNCHANGED Promise!vars
<1> DEFINE Bad(i) == InUse(i) /\ (~Rooted(i) \/ Len(PathOf[i]) > MaxPath)
<1>1. /\ frames # << >> /\ overrun = FALSE /\ nodes \in [Slots -> Node]
      /\ pending = NoWrite /\ pending' = NoWrite /\ UNCHANGED <<current_dir, rc>>
      /\ overrun' \in BOOLEAN
  BY DEF RebuildStep, TInv, IInv, TypeOK, OneAtATime
<1>2. Linked /\ Linked'
  <2>1. (IInv /\ FreeOK => Linked)'
    BY LinkedTable, PTL
  <2> QED BY <2>1, LinkedTable DEF TInv
<1>3. \A k \in Slots : /\ nodes'[k].used = nodes[k].used
                       /\ nodes'[k].type = nodes[k].type
                       /\ nodes'[k].parent = nodes[k].parent
                       /\ nodes'[k].name = nodes[k].name
                       /\ nodes'[k].data = nodes[k].data
  <2>1. CASE UNCHANGED nodes
    BY <2>1
  <2>2. ASSUME NEW j \in Slots, NEW path, nodes' = [nodes EXCEPT ![j].path = path]
        PROVE  \A k \in Slots : /\ nodes'[k].used = nodes[k].used
                                /\ nodes'[k].type = nodes[k].type
                                /\ nodes'[k].parent = nodes[k].parent
                                /\ nodes'[k].name = nodes[k].name
                                /\ nodes'[k].data = nodes[k].data
    BY <1>1, <2>2 DEF Node
  <2> QED BY <2>1, <2>2 DEF RebuildStep
<1>4. /\ TreeOf' = TreeOf /\ PathOf' = PathOf
      /\ \A k \in Nat, i \in Slots : Ancestor'[k][i] = Ancestor[k][i]
      /\ \A i \in Slots : Rooted(i)' <=> Rooted(i)
  <2>1. \A i \in Slots : Unwritten(i)' <=> Unwritten(i)
    BY <1>1 DEF Unwritten
  <2> QED BY <1>2, <1>3, <2>1, SameTree
<1>5. \A i \in Slots : Bad(i)' <=> Bad(i)
  BY <1>3, <1>4 DEF InUse
<1>6. CASE overrun' = TRUE
  <2>1. frames' # << >>
    BY <1>6 DEF TInv, OverrunInside
  <2>2. PICK i \in Slots : InUse(i)' /\ Ancestor'[MaxPath][i] # Root
    BY <1>6 DEF TInv, OverrunCause, Unnameable
  <2>3. MaxPath \in Nat /\ NumSlots \in Nat
    BY SlotsAssumption, LimitsAssumption
  <2>4. InUse(i) /\ Ancestor[MaxPath][i] # Root
    BY <1>3, <1>4, <2>2, <2>3 DEF InUse
  <2>5. RootStaysMet /\ PathCountsSteps /\ TruePathSteps
    BY <1>2, RootMet, StepsCounted, TruePathDef
  <2>6. /\ Len(PathOf[i]) \in Nat
        /\ Ancestor[Len(PathOf[i])][i] = Ancestor[NumSlots][i]
    BY <2>3, <2>5 DEF PathCountsSteps, PathOf
  <2>7. ~(Rooted(i) /\ Len(PathOf[i]) <= MaxPath)
    BY <2>3, <2>4, <2>5, <2>6 DEF RootStaysMet, Rooted
  <2>8. Bad(i)
    <3>1. ~(Len(PathOf[i]) <= MaxPath) => Len(PathOf[i]) > MaxPath
      BY <2>3, <2>6
    <3> QED BY <2>4, <2>7, <3>1
  <2>9. Doomed
    BY <1>1, <2>8 DEF Doomed
  <2> QED BY <1>1, <1>4, <1>6, <2>9 DEF Promise!vars
<1>7. CASE overrun' = FALSE /\ frames' # << >>
  <2>1. Doomed' <=> Doomed
    BY <1>1, <1>5, <1>7 DEF Doomed
  <2>2. (overrun \/ Doomed)' = (overrun \/ Doomed)
    BY <1>1, <1>7, <2>1 DEF Doomed
  <2> QED BY <1>1, <1>4, <2>2 DEF Promise!vars
<1>8. CASE overrun' = FALSE /\ frames' = << >>
  <2>1. (IInv /\ FreeOK /\ Settled => SettledTrue)'
    BY SettledIsTrue, PTL
  <2>2. \A i \in UsedSlots' : Rooted(i)' /\ PathOf'[i] = nodes'[i].path
    BY <1>8, <2>1 DEF TInv, Settled, SettledTrue
  <2>3. ASSUME NEW i \in Slots, InUse(i)' PROVE ~Bad(i)'
    <3>1. i \in UsedSlots'
      BY <2>3 DEF UsedSlots
    <3>2. Len(nodes'[i].path) <= MaxPath /\ nodes'[i].path \in Seq(Names)
      BY <2>3 DEF TInv, PathsFit, IInv, TypeOK, Node
    <3>3. ~(Len(nodes'[i].path) > MaxPath)
      BY <3>2, LenProperties, LimitsAssumption
    <3> QED BY <2>2, <3>1, <3>3
  <2>4. \A i \in Slots : ~Bad(i)
    BY <1>5, <2>3
  <2>5. ~Doomed /\ ~Doomed'
    BY <1>8, <2>4 DEF Doomed
  <2>6. (overrun \/ Doomed)' = (overrun \/ Doomed)
    BY <1>1, <1>8, <2>5
  <2> QED BY <1>1, <1>4, <2>6 DEF Promise!vars
<1> QED BY <1>1, <1>6, <1>7, <1>8

-----------------------------------------------------------------------------
(***************************************************************************)
(* The commands that change one entry.                                     *)
(***************************************************************************)
\* What FileTree asks of the tree before a command is what the code asks of
\* the table.
IdleFacts ==
    /\ SettledTree /\ Shown = UsedSlots /\ ~(overrun \/ Doomed) /\ overrun = FALSE
    /\ \A p : Promise!Has(p) <=> Exists(p)
    /\ \A i \in Slots : InUse(i) => /\ Finds(i, nodes[i].path)
                                    /\ TreeOf[nodes[i].path] = EntryOf[i]
    /\ \A i \in Slots : \A p : Finds(i, p) => InUse(i) /\ nodes[i].path = p
    /\ \A p : Promise!IsDir(p) <=> \E i \in Slots : Finds(i, p) /\ nodes[i].type = "DIR"
    /\ \A p : Promise!IsFile(p) <=> \E i \in Slots : FileAt(i, p)
    /\ Cardinality(DOMAIN TreeOf) < NumSlots <=> ~Full
    /\ \A p \in Seq(Names) : Promise!MayCreate(p) <=> MayCreate(p)

\* FileTree counts as this module does.
LEMMA SameCardinality == \A S : Promise!Cardinality(S) = Cardinality(S)
BY DEF Cardinality, Promise!Cardinality

LEMMA IdleFactsAre == TInv /\ Idle => IdleFacts
<1> SUFFICES ASSUME TInv, Idle PROVE IdleFacts
  OBVIOUS
<1>1. /\ frames = << >> /\ pending = NoWrite /\ Settled /\ overrun = FALSE
      /\ IInv /\ FreeOK
  BY DEF Idle, Settled, TInv, IInv, TypeOK
<1>2. SettledTree
  BY <1>1, SettledTreeIs
<1>3. Shown = UsedSlots
  BY <1>1, <1>2 DEF SettledTree, Unwritten, UsedSlots
<1>4. ~(overrun \/ Doomed)
  BY <1>1, NotLost
<1> DEFINE P == [i \in Slots |-> nodes[i].path]
<1>5. /\ DOMAIN TreeOf = {P[i] : i \in UsedSlots}
      /\ \A i \in UsedSlots : TreeOf[P[i]] = EntryOf[i]
  BY <1>2, <1>3 DEF SettledTree, Tabulates
<1>6. \A p : Promise!Has(p) <=> Exists(p)
  BY <1>5 DEF Promise!Has, Exists, HasPath, UsedSlots, InUse
<1>7. \A i \in Slots : InUse(i) => Finds(i, nodes[i].path)
  BY <1>1, PathsUnique DEF Finds, HasPath, InUse, Slots
<1>8. \A i \in Slots : InUse(i) => TreeOf[nodes[i].path] = EntryOf[i]
  BY <1>5 DEF UsedSlots
<1>9. \A i \in Slots : \A p : Finds(i, p) => InUse(i) /\ nodes[i].path = p
  BY DEF Finds, HasPath, InUse
<1>10. \A p, t : (Promise!Has(p) /\ TreeOf[p].type = t)
                    <=> \E i \in Slots : Finds(i, p) /\ nodes[i].type = t
  <2>1. ASSUME NEW p, NEW t, Promise!Has(p), TreeOf[p].type = t
        PROVE  \E i \in Slots : Finds(i, p) /\ nodes[i].type = t
    <3>1. PICK i \in Slots : InUse(i) /\ nodes[i].path = p
      BY <1>6, <2>1 DEF Exists, HasPath, InUse
    <3>2. TreeOf[p] = EntryOf[i] /\ EntryOf[i].type = nodes[i].type
      BY <1>8, <3>1 DEF EntryOf
    <3> QED BY <1>7, <2>1, <3>1, <3>2
  <2>2. ASSUME NEW p, NEW t, NEW i \in Slots, Finds(i, p), nodes[i].type = t
        PROVE  Promise!Has(p) /\ TreeOf[p].type = t
    <3>1. InUse(i) /\ nodes[i].path = p
      BY <1>9, <2>2
    <3>2. TreeOf[p] = EntryOf[i] /\ EntryOf[i].type = nodes[i].type
      BY <1>8, <3>1 DEF EntryOf
    <3> QED BY <1>6, <2>2, <3>1, <3>2 DEF Exists, HasPath, InUse
  <2> QED BY <2>1, <2>2
<1>11. \A p : Promise!IsDir(p) <=> \E i \in Slots : Finds(i, p) /\ nodes[i].type = "DIR"
  BY <1>10 DEF Promise!IsDir
<1>12. \A p : Promise!IsFile(p) <=> \E i \in Slots : FileAt(i, p)
  BY <1>10 DEF Promise!IsFile, FileAt
<1>13. Cardinality(DOMAIN TreeOf) < NumSlots <=> ~Full
  <2>1. InUse(Root) /\ Root \in Slots
    BY SlotsAssumption DEF TInv, IInv, Tree, RootOK, Root, Slots
  <2>2. UsedSlots # Slots <=> ~Full
    BY <2>1 DEF UsedSlots, InUse, Full
  <2> QED BY <1>2, <1>3, <2>2 DEF SettledTree
<1>14. ASSUME NEW p \in Seq(Names) PROVE Promise!MayCreate(p) <=> MayCreate(p)
  <2>1. CASE p = << >>
    <3>1. Exists(p)
      BY <2>1, SlotsAssumption
      DEF TInv, IInv, Tree, RootOK, Root, Slots, Exists, HasPath, InUse
    <3> QED BY <1>6, <3>1 DEF Promise!MayCreate, MayCreate
  <2>2. CASE p # << >>
    <3>1. Promise!IsDir(Promise!Parent(p)) <=> HasParent(p)
      BY <1>11, <2>2 DEF Promise!Parent, Dirname, HasParent, IsParent
    <3>2. Promise!Cardinality(DOMAIN TreeOf) = Cardinality(DOMAIN TreeOf)
      BY SameCardinality
    <3>3. Promise!Has(p) <=> Exists(p)
      BY <1>6
    <3> QED BY <1>13, <3>1, <3>2, <3>3 DEF Promise!MayCreate, MayCreate
  <2> QED BY <2>1, <2>2
<1> QED
  BY <1>1, <1>2, <1>3, <1>4, <1>6, <1>7, <1>8, <1>9, <1>11, <1>12, <1>13, <1>14
  DEF IdleFacts

\* One slot gets a new entry, at a path that is not another slot's.
LEMMA EntrySet ==
  ASSUME NEW t, NEW S, NEW P, NEW E, Tabulates(t, S, P, E),
         NEW u, NEW S2, NEW P2, NEW E2, Tabulates(u, S2, P2, E2),
         NEW i \in S2, S2 = S \cup {i}, i \in S => P[i] = P2[i],
         \A k \in S2 \ {i} : P2[k] = P[k] /\ E2[k] = E[k] /\ P[k] # P2[i]
  PROVE  u = [q \in DOMAIN t \cup {P2[i]} |-> IF q = P2[i] THEN E2[i] ELSE t[q]]
<1> DEFINE p == P2[i]
           v == [q \in DOMAIN t \cup {p} |-> IF q = p THEN E2[i] ELSE t[q]]
<1>1. DOMAIN t = {P[k] : k \in S} /\ DOMAIN u = {P2[k] : k \in S2} /\ Fcn(u)
  BY DEF Tabulates
<1>2. \A q \in DOMAIN u : q = p \/ \E k \in S2 \ {i} : q = P2[k]
  BY <1>1
<1>3. DOMAIN u = DOMAIN t \cup {p}
  <2>1. \A q \in DOMAIN u : q \in DOMAIN t \cup {p}
    BY <1>1, <1>2
  <2>2. \A q \in DOMAIN t : q \in DOMAIN u
    BY <1>1
  <2>3. p \in DOMAIN u
    BY <1>1
  <2> QED BY <2>1, <2>2, <2>3
<1>4. ASSUME NEW q \in DOMAIN u PROVE u[q] = IF q = p THEN E2[i] ELSE t[q]
  <2>1. CASE q = p
    BY <2>1 DEF Tabulates
  <2>2. CASE q # p
    <3>1. PICK k \in S2 \ {i} : q = P2[k]
      BY <1>2, <2>2
    <3>2. k \in S /\ P[k] = q /\ E2[k] = E[k]
      BY <3>1
    <3>3. u[q] = E2[k]
      BY <3>1 DEF Tabulates
    <3>4. t[q] = E[k]
      BY <3>2 DEF Tabulates
    <3> QED BY <2>2, <3>2, <3>3, <3>4
  <2> QED BY <2>1, <2>2
<1>5. Fcn(v) /\ DOMAIN v = DOMAIN t \cup {p}
  BY DEF Fcn
<1>6. \A q \in DOMAIN u : u[q] = v[q]
  BY <1>3, <1>4
<1> HIDE DEF v
<1>7. u = v
  BY <1>1, <1>3, <1>5, <1>6, FcnEqual
<1> QED BY <1>7 DEF v

\* The table after a step that ends a command.
LEMMA OverFacts ==
  ASSUME TInv', frames' = << >>, overrun' = FALSE, pending' = NoWrite
  PROVE  /\ Tabulates(TreeOf', UsedSlots', [k \in Slots |-> nodes'[k].path], EntryOf')
         /\ ~(overrun \/ Doomed)'
<1>1. (IInv /\ FreeOK /\ Settled => SettledTree)'
  BY SettledTreeIs, PTL
<1>2. SettledTree'
  BY <1>1 DEF TInv, Settled
<1>3. Shown' = UsedSlots'
  BY <1>2 DEF SettledTree, Unwritten, UsedSlots
<1>4. ~(overrun \/ Doomed)'
  BY DEF Doomed
<1> QED BY <1>2, <1>3, <1>4 DEF SettledTree

\* touch and mkdir.
LEMMA CreateMaps ==
  ASSUME TInv, TInv', Idle, NEW p \in Paths, NEW t \in {"FILE", "DIR"},
         \/ CreateRefused(p)
         \/ CreateNode(p, t) /\ rc' = 0
               /\ UNCHANGED <<current_dir, frames, pending, overrun>>
  PROVE  Promise!Create(p, [type |-> t, data |-> << >>])
<1>1. IdleFacts /\ p \in Seq(Names)
  BY IdleFactsAre, PathsAreSeqs
<1>2. CASE CreateRefused(p)
  <2>1. Promise!Fail /\ ~Promise!MayCreate(p)
    BY <1>1, <1>2, RefuseMaps DEF CreateRefused, IdleFacts
  <2> QED BY <2>1 DEF Promise!Create
<1>3. CASE CreateNode(p, t) /\ rc' = 0
             /\ UNCHANGED <<current_dir, frames, pending, overrun>>
  <2>1. PICK i \in Slots : /\ ~InUse(i) /\ Finds(i, p)'
                           /\ nodes'[i].type = t /\ nodes'[i].data = << >>
                           /\ \A k \in Slots : k # i => nodes'[k] = nodes[k]
    BY <1>1, <1>3, CreateTree DEF TInv, IInv, Idle, Settled
  <2>2. nodes'[i].used /\ nodes'[i].path = p /\ i \notin UsedSlots
    BY <2>1 DEF Finds, HasPath, UsedSlots
  <2>3. UsedSlots' = UsedSlots \cup {i} /\ i \in UsedSlots'
    BY <2>1, <2>2 DEF UsedSlots, InUse
  <2>4. Promise!MayCreate(p) /\ ~Exists(p)
    BY <1>1, <1>3 DEF IdleFacts, CreateNode, MayCreate
  <2> DEFINE P == [k \in Slots |-> nodes[k].path]
             P2 == [k \in Slots |-> nodes'[k].path]
  <2>5. Tabulates(TreeOf, UsedSlots, P, EntryOf)
    BY <1>1 DEF IdleFacts, SettledTree
  <2>6. Tabulates(TreeOf', UsedSlots', P2, EntryOf') /\ ~(overrun \/ Doomed)'
    BY <1>1, <1>3, OverFacts DEF Idle, IdleFacts
  <2>7. P2[i] = p /\ EntryOf'[i] = [type |-> t, data |-> << >>]
    BY <2>1, <2>2 DEF EntryOf
  <2>8. \A k \in UsedSlots' \ {i} : /\ P2[k] = P[k] /\ EntryOf'[k] = EntryOf[k]
                                    /\ P[k] # P2[i]
    BY <2>1, <2>3, <2>4, <2>7 DEF EntryOf, UsedSlots, Exists, HasPath, InUse
  <2> HIDE DEF P, P2
  <2>9. TreeOf' = [q \in DOMAIN TreeOf \cup {P2[i]} |->
                      IF q = P2[i] THEN EntryOf'[i] ELSE TreeOf[q]]
    BY <2>2, <2>3, <2>5, <2>6, <2>8, EntrySet
  <2>10. TreeOf' = Promise!With(p, [type |-> t, data |-> << >>])
    BY <2>7, <2>9 DEF Promise!With
  <2> QED BY <1>1, <1>3, <2>4, <2>6, <2>10 DEF Promise!Create, Promise!Done, IdleFacts
<1> QED BY <1>2, <1>3

\* A content is replaced, by a command that is over.
LEMMA ContentMaps ==
  ASSUME TInv, TInv', Idle, NEW p, NEW i \in Slots, FileAt(i, p), NEW text,
         nodes' = [nodes EXCEPT ![i].data = text],
         frames' = frames, overrun' = overrun, pending' = NoWrite
  PROVE  TreeOf' = Promise!With(p, Promise!File(text)) /\ ~(overrun \/ Doomed)'
<1>1. IdleFacts
  BY IdleFactsAre
<1>2. \A k \in Slots : /\ nodes'[k].used = nodes[k].used
                       /\ nodes'[k].type = nodes[k].type
                       /\ nodes'[k].path = nodes[k].path
                       /\ nodes'[k].data = IF k = i THEN text ELSE nodes[k].data
  BY DEF TInv, IInv, TypeOK, Node
<1>3. i \in UsedSlots /\ UsedSlots' = UsedSlots /\ nodes[i].path = p
      /\ nodes[i].type = "FILE"
  BY <1>2 DEF UsedSlots, InUse, FileAt, Finds, HasPath
<1> DEFINE P == [k \in Slots |-> nodes[k].path]
           P2 == [k \in Slots |-> nodes'[k].path]
<1>4. Tabulates(TreeOf, UsedSlots, P, EntryOf)
  BY <1>1 DEF IdleFacts, SettledTree
<1>5. Tabulates(TreeOf', UsedSlots', P2, EntryOf') /\ ~(overrun \/ Doomed)'
  BY <1>1, OverFacts DEF Idle, IdleFacts
<1>6. P2[i] = p /\ P[i] = p /\ EntryOf'[i] = Promise!File(text)
  BY <1>2, <1>3 DEF EntryOf, Promise!File
<1>7. \A k \in UsedSlots' \ {i} : /\ P2[k] = P[k] /\ EntryOf'[k] = EntryOf[k]
                                  /\ P[k] # P2[i]
  <2>1. ASSUME NEW k \in UsedSlots' \ {i}
        PROVE  P2[k] = P[k] /\ EntryOf'[k] = EntryOf[k] /\ P[k] # P2[i]
    <3>1. k \in Slots /\ InUse(k)
      BY <1>3, <2>1 DEF UsedSlots
    <3>2. P2[k] = P[k] /\ EntryOf'[k] = EntryOf[k]
      BY <1>2, <2>1, <3>1 DEF EntryOf
    <3>3. nodes[k].path # p
      BY <1>3, <2>1, <3>1, PathsUnique DEF UsedSlots, TInv, Idle, Settled
    <3> QED BY <1>6, <3>1, <3>2, <3>3
  <2> QED BY <2>1
<1> HIDE DEF P, P2
<1>8. TreeOf' = [q \in DOMAIN TreeOf \cup {P2[i]} |->
                    IF q = P2[i] THEN EntryOf'[i] ELSE TreeOf[q]]
  BY <1>3, <1>4, <1>5, <1>6, <1>7, EntrySet
<1>9. TreeOf' = Promise!With(p, Promise!File(text))
  BY <1>6, <1>8 DEF Promise!With
<1> QED BY <1>5, <1>9

\* fs_write_file: a file that is there and a text that fits, or nothing.
LEMMA StoreMaps ==
  ASSUME TInv, TInv', Idle, NEW p, NEW text, Len(text) \in Nat,
         StoreFile(p, text), UNCHANGED pending
  PROVE  \/ /\ Promise!IsFile(p) /\ Len(text) <= MaxFileSize
            /\ Promise!Done(Promise!With(p, Promise!File(text)))
         \/ ~(Promise!IsFile(p) /\ Len(text) <= MaxFileSize) /\ Promise!Fail
<1>1. IdleFacts /\ UNCHANGED <<current_dir, frames, overrun>> /\ pending' = NoWrite
  BY IdleFactsAre DEF StoreFile, Idle
<1>2. Len(text) <= MaxFileSize <=> ~TooLarge(Len(text))
  BY LimitsAssumption DEF TooLarge
<1>3. CASE ~(\E i \in Slots : FileAt(i, p)) /\ rc' = 1 /\ UNCHANGED nodes
  <2>1. ~Promise!IsFile(p)
    BY <1>1, <1>3 DEF IdleFacts
  <2>2. Refuse
    BY <1>1, <1>3 DEF Refuse
  <2> QED BY <2>1, <2>2, RefuseMaps
<1>4. ASSUME NEW i \in Slots, FileAt(i, p), TooLarge(Len(text)), rc' = 1, UNCHANGED nodes
      PROVE  ~(Promise!IsFile(p) /\ Len(text) <= MaxFileSize) /\ Promise!Fail
  <2>1. Refuse
    BY <1>1, <1>4 DEF Refuse
  <2> QED BY <1>2, <1>4, <2>1, RefuseMaps
<1>5. ASSUME NEW i \in Slots, FileAt(i, p), ~TooLarge(Len(text)), rc' = 0,
             nodes' = [nodes EXCEPT ![i].data = text]
      PROVE  /\ Promise!IsFile(p) /\ Len(text) <= MaxFileSize
             /\ Promise!Done(Promise!With(p, Promise!File(text)))
  <2>1. Promise!IsFile(p)
    BY <1>1, <1>5 DEF IdleFacts
  <2>2. TreeOf' = Promise!With(p, Promise!File(text)) /\ ~(overrun \/ Doomed)'
    BY <1>1, <1>5, ContentMaps
  <2> QED BY <1>1, <1>2, <1>5, <2>1, <2>2 DEF Promise!Done, IdleFacts
<1> QED BY <1>3, <1>4, <1>5 DEF StoreFile

\* A request that the kernel connector passes on to fs_write_file.
LEMMA WriteFileMaps ==
  ASSUME TInv, TInv', NEW p \in Paths, NEW text \in Texts, WriteFile(p, text)
  PROVE  Promise!WriteFile(p, text)
<1>1. Len(text) \in Nat
  BY TextsAssumption, LenProperties
<1> QED BY <1>1, StoreMaps DEF WriteFile, Promise!WriteFile

\* fs_append_file.
LEMMA AppendMaps ==
  ASSUME TInv, TInv', NEW p \in Paths, NEW text \in Texts, AppendFile(p, text)
  PROVE  Promise!AppendFile(p, text)
<1>1. IdleFacts /\ Idle
  BY IdleFactsAre DEF AppendFile
<1>2. CASE ~(\E i \in Slots : FileAt(i, p)) /\ Refuse
  <2>1. ~Promise!IsFile(p) /\ Promise!Fail
    BY <1>1, <1>2, RefuseMaps DEF IdleFacts
  <2> QED BY <2>1 DEF Promise!AppendFile
<1>3. ASSUME NEW i \in Slots, FileAt(i, p),
             \/ /\ TooLarge(Len(nodes[i].data) + Len(text))
                /\ Refuse
             \/ /\ ~TooLarge(Len(nodes[i].data) + Len(text))
                /\ nodes' = [nodes EXCEPT ![i].data = @ \o text]
                /\ rc' = 0
                /\ UNCHANGED <<current_dir, frames, pending, overrun>>
      PROVE  Promise!AppendFile(p, text)
  <2>1. Promise!IsFile(p) /\ TreeOf[p].data = nodes[i].data
    <3>1. Promise!IsFile(p) /\ InUse(i) /\ nodes[i].path = p
      BY <1>1, <1>3 DEF IdleFacts, FileAt
    <3>2. TreeOf[p] = EntryOf[i]
      BY <1>1, <3>1 DEF IdleFacts
    <3> QED BY <3>1, <3>2 DEF EntryOf
  <2>2. Len(nodes[i].data) + Len(text) \in Nat /\ MaxFileSize \in Nat
    <3>1. nodes[i].data \in Seq(Bytes) /\ text \in Seq(Bytes)
      BY TextsAssumption DEF TInv, IInv, TypeOK, Node
    <3> QED BY <3>1, LenProperties, LimitsAssumption
  <2>3. CASE TooLarge(Len(nodes[i].data) + Len(text)) /\ Refuse
    <3>1. ~(Len(TreeOf[p].data) + Len(text) <= MaxFileSize)
      BY <2>1, <2>2, <2>3 DEF TooLarge
    <3> QED BY <1>1, <2>3, <3>1, RefuseMaps DEF Promise!AppendFile
  <2>4. CASE /\ ~TooLarge(Len(nodes[i].data) + Len(text))
             /\ nodes' = [nodes EXCEPT ![i].data = @ \o text]
             /\ rc' = 0
             /\ UNCHANGED <<current_dir, frames, pending, overrun>>
    <3>1. PICK new : new = nodes[i].data \o text
      OBVIOUS
    <3>2. nodes' = [nodes EXCEPT ![i].data = new]
      BY <2>4, <3>1
    <3>3. pending' = NoWrite
      BY <1>1, <2>4 DEF Idle
    <3>4. TreeOf' = Promise!With(p, Promise!File(new)) /\ ~(overrun \/ Doomed)'
      BY <1>1, <1>3, <2>4, <3>2, <3>3, ContentMaps
    <3>5. Promise!Done(Promise!With(p, Promise!File(TreeOf[p].data \o text)))
      BY <1>1, <2>1, <2>4, <3>1, <3>4 DEF Promise!Done, IdleFacts
    <3>6. Len(TreeOf[p].data) + Len(text) <= MaxFileSize
      BY <2>1, <2>2, <2>4 DEF TooLarge
    <3> QED BY <2>1, <3>5, <3>6 DEF Promise!AppendFile
  <2> QED BY <1>3, <2>3, <2>4
<1> QED BY <1>2, <1>3 DEF AppendFile

\* cd.
LEMMA ChangeDirMaps ==
  ASSUME TInv, TInv', NEW p \in Paths, ChangeDir(p) PROVE Promise!ChangeDir(p)
<1>1. IdleFacts /\ Idle
  BY IdleFactsAre DEF ChangeDir
<1>2. CASE ~(\E i \in Slots : Finds(i, p) /\ nodes[i].type = "DIR") /\ Refuse
  <2>1. ~Promise!IsDir(p) /\ Promise!Fail
    BY <1>1, <1>2, RefuseMaps DEF IdleFacts
  <2> QED BY <2>1 DEF Promise!ChangeDir
<1>3. CASE /\ \E i \in Slots : Finds(i, p) /\ nodes[i].type = "DIR"
           /\ current_dir' = p /\ rc' = 0
           /\ UNCHANGED <<nodes, frames, pending, overrun>>
  <2>1. Promise!IsDir(p)
    BY <1>1, <1>3 DEF IdleFacts
  <2>2. Linked /\ Linked'
    <3>1. (IInv /\ FreeOK => Linked)'
      BY LinkedTable, PTL
    <3> QED BY <3>1, LinkedTable DEF TInv
  <2>3. TreeOf' = TreeOf
    <3>1. \A i \in Slots : Unwritten(i)' <=> Unwritten(i)
      BY <1>3 DEF Unwritten, FileAt, Finds, HasPath
    <3> QED BY <1>3, <2>2, <3>1, SameTree
  <2>4. (overrun \/ Doomed)' = (overrun \/ Doomed)
    BY <1>1, <1>3 DEF Doomed, IdleFacts, Idle
  <2> QED BY <1>3, <2>1, <2>3, <2>4 DEF Promise!ChangeDir
<1> QED BY <1>2, <1>3 DEF ChangeDir

\* The file that copy and write create is not there yet.
LEMMA OwedCreateMaps ==
  ASSUME TInv, TInv', Idle, NEW p \in Paths, CreateNode(p, "FILE"),
         pending' # NoWrite, pending'[1] = p,
         UNCHANGED <<current_dir, frames, overrun, rc>>
  PROVE  UNCHANGED Promise!vars
<1>1. IdleFacts /\ p \in Seq(Names) /\ frames' = << >> /\ overrun' = FALSE
  BY IdleFactsAre, PathsAreSeqs DEF Idle, IdleFacts
<1>2. PICK i \in Slots : /\ ~InUse(i) /\ Finds(i, p)' /\ nodes'[i].type = "FILE"
                         /\ \A k \in Slots : k # i => nodes'[k] = nodes[k]
  BY <1>1, CreateTree DEF TInv, IInv, Idle, Settled
<1>3. (IInv /\ FreeOK /\ Settled => SettledTree)'
  BY SettledTreeIs, PTL
<1>4. SettledTree'
  BY <1>1, <1>3 DEF TInv, Settled
<1>5. \A k \in Slots : Unwritten(k)' <=> k = i
  <2>1. ASSUME NEW k \in Slots, Finds(k, p)' PROVE k = i
    BY <1>2, <2>1 DEF Finds, Slots
  <2> QED BY <1>2, <2>1 DEF Unwritten, FileAt
<1>6. Shown' = UsedSlots
  <2>1. \A k \in Slots : k # i => (InUse(k)' <=> InUse(k))
    BY <1>2 DEF InUse
  <2> QED BY <1>2, <1>4, <1>5, <2>1 DEF SettledTree, UsedSlots
<1> DEFINE P == [k \in Slots |-> nodes[k].path]
           P2 == [k \in Slots |-> nodes'[k].path]
<1>7. Tabulates(TreeOf, UsedSlots, P, EntryOf)
  BY <1>1 DEF IdleFacts, SettledTree
<1>8. Tabulates(TreeOf', UsedSlots, P2, EntryOf')
  BY <1>4, <1>6 DEF SettledTree
<1>9. \A k \in UsedSlots : P2[k] = P[k] /\ EntryOf'[k] = EntryOf[k]
  BY <1>2 DEF UsedSlots, EntryOf
<1> HIDE DEF P, P2
<1>10. Tabulates(TreeOf', UsedSlots, P, EntryOf)
  BY <1>8, <1>9 DEF Tabulates
<1>11. TreeOf' = TreeOf
  BY <1>7, <1>10, TableUnique
<1>12. (overrun \/ Doomed)' = (overrun \/ Doomed)
  BY <1>1 DEF Doomed, IdleFacts, Idle
<1> QED BY <1>11, <1>12 DEF Promise!vars

\* The first half of fs_copy fails or is not seen.
LEMMA CopyMaps ==
  ASSUME TInv, TInv', NEW from \in Paths, NEW to \in Paths, Copy(from, to)
  PROVE  Promise!Copy(from, to) \/ UNCHANGED Promise!vars
<1>1. IdleFacts /\ Idle /\ to \in Seq(Names)
  BY IdleFactsAre, PathsAreSeqs DEF Copy
<1>2. CASE ~(\E i \in Slots : FileAt(i, from)) /\ Refuse
  <2>1. ~Promise!IsFile(from) /\ Promise!Fail
    BY <1>1, <1>2, RefuseMaps DEF IdleFacts
  <2> QED BY <2>1 DEF Promise!Copy
<1>3. ASSUME NEW i \in Slots, FileAt(i, from), CreateRefused(to)
      PROVE  Promise!Copy(from, to)
  <2>1. Promise!IsFile(from) /\ ~Promise!MayCreate(to)
    BY <1>1, <1>3 DEF IdleFacts, CreateRefused
  <2>2. Promise!Fail
    BY <1>1, <1>3, RefuseMaps DEF CreateRefused
  <2> QED BY <2>1, <2>2 DEF Promise!Copy, Promise!Create
<1>4. ASSUME NEW i \in Slots, CreateNode(to, "FILE"),
             pending' = <<to, nodes'[i].data>>,
             UNCHANGED <<current_dir, frames, overrun, rc>>
      PROVE  UNCHANGED Promise!vars
  <2>1. pending' # NoWrite /\ pending'[1] = to
    BY <1>4 DEF NoWrite
  <2> QED BY <1>1, <1>4, <2>1, OwedCreateMaps
<1> QED BY <1>2, <1>3, <1>4 DEF Copy

\* The write command on a file that is there, or the first half of it.
LEMMA WriteMaps ==
  ASSUME TInv, TInv', NEW p \in Paths, NEW text \in LineTexts, Write(p, text)
  PROVE  Promise!Write(p, text) \/ UNCHANGED Promise!vars
<1>1. IdleFacts /\ Idle /\ p \in Seq(Names)
  BY IdleFactsAre, PathsAreSeqs DEF Write
<1>2. Len(text) \in Nat /\ Len(text) <= MaxFileSize
  BY TextsAssumption, LenProperties
<1>3. CASE Exists(p) /\ StoreFile(p, text) /\ UNCHANGED pending
  <2>1. ~Promise!MayCreate(p)
    BY <1>1, <1>3 DEF IdleFacts, MayCreate
  <2>2. \/ Promise!IsFile(p) /\ Promise!Done(Promise!With(p, Promise!File(text)))
        \/ ~Promise!IsFile(p) /\ Promise!Fail
    BY <1>1, <1>2, <1>3, StoreMaps
  <2> QED BY <2>1, <2>2 DEF Promise!Write, Promise!Create
<1>4. CASE ~Exists(p) /\ CreateRefused(p)
  <2>1. ~Promise!MayCreate(p) /\ ~Promise!IsFile(p)
    BY <1>1, <1>4 DEF IdleFacts, CreateRefused, Promise!IsFile
  <2>2. Promise!Fail
    BY <1>1, <1>4, RefuseMaps DEF CreateRefused
  <2> QED BY <2>1, <2>2 DEF Promise!Write, Promise!Create
<1>5. CASE CreateNode(p, "FILE") /\ pending' = <<p, text>>
             /\ UNCHANGED <<current_dir, frames, overrun, rc>>
  <2>1. pending' # NoWrite /\ pending'[1] = p
    BY <1>5 DEF NoWrite
  <2> QED BY <1>1, <1>5, <2>1, OwedCreateMaps
<1> QED BY <1>3, <1>4, <1>5 DEF Write

\* The second half of copy and write: the file appears, with its content.
LEMMA PendingMaps ==
  ASSUME TInv, TInv', PendingWrite
  PROVE  /\ ~(overrun \/ Doomed)
         /\ \/ \E from, to \in Paths : Promise!Copy(from, to)
            \/ \E p \in Paths, text \in LineTexts : Promise!Write(p, text)
<1> DEFINE p == pending[1]
           text == pending[2]
<1>1. /\ pending # NoWrite /\ frames = << >> /\ overrun = FALSE /\ Settled
      /\ pending' = NoWrite /\ StoreFile(p, text)
      /\ IInv /\ FreeOK /\ nodes \in [Slots -> Node]
      /\ UNCHANGED <<current_dir, frames, overrun>>
  BY DEF PendingWrite, TInv, IInv, OneAtATime, OverrunInside, TypeOK, Settled, StoreFile
<1>2. p \in Paths /\ (text \in LineTexts \/ \E i \in Slots : Source(i))
  BY <1>1 DEF TInv, SourceOK
<1>3. ~(overrun \/ Doomed)
  BY <1>1, NotLost
<1>4. \E i \in Slots : FileAt(i, p)
  BY <1>1 DEF IInv, OwedWriteFindsFile
<1>5. ~TooLarge(Len(text))
  <2>1. CASE text \in LineTexts
    BY <2>1, TextsAssumption, LenProperties, LimitsAssumption DEF TooLarge
  <2>2. ASSUME NEW i \in Slots, Source(i) PROVE ~TooLarge(Len(text))
    <3>1. nodes[i].data \in Seq(Bytes) /\ nodes[i].data = text
          /\ Len(nodes[i].data) <= MaxFileSize
      BY <1>1, <2>2 DEF Source, Node, IInv, Tree, SizesOK
    <3> QED BY <3>1, LenProperties, LimitsAssumption DEF TooLarge
  <2> QED BY <1>2, <2>1, <2>2
<1>6. PICK w \in Slots : /\ FileAt(w, p) /\ rc' = 0
                         /\ nodes' = [nodes EXCEPT ![w].data = text]
  BY <1>1, <1>4, <1>5 DEF StoreFile
<1> HIDE DEF p, text
<1>7. InUse(w) /\ nodes[w].path = p /\ nodes[w].type = "FILE"
  BY <1>6 DEF FileAt, Finds, HasPath, InUse
<1>8. /\ SettledTree /\ w \notin Shown /\ w \in UsedSlots
      /\ UsedSlots = Shown \cup {w} /\ Shown \in SUBSET Slots
  <2>1. SettledTree
    BY <1>1, SettledTreeIs
  <2>2. \A k \in Slots : Unwritten(k) <=> k = w
    <3>1. ASSUME NEW k \in Slots, FileAt(k, p) PROVE k = w
      BY <1>6, <3>1 DEF FileAt, Finds, Slots
    <3> QED BY <1>1, <1>6, <3>1 DEF Unwritten, p
  <2>3. w \in UsedSlots /\ UsedSlots \in SUBSET Slots
    BY <1>7 DEF UsedSlots
  <2> QED BY <2>1, <2>2, <2>3 DEF SettledTree
<1>9. \A k \in Shown : k \in Slots /\ InUse(k) /\ nodes[k].path # p
  <2>1. \A k \in Shown : k \in Slots /\ InUse(k) /\ k # w
    BY <1>8 DEF UsedSlots
  <2> QED BY <1>1, <1>7, <2>1, PathsUnique
<1> DEFINE P == [k \in Slots |-> nodes[k].path]
           P2 == [k \in Slots |-> nodes'[k].path]
<1>10. Tabulates(TreeOf, Shown, P, EntryOf)
  BY <1>8 DEF SettledTree
<1>11. /\ DOMAIN TreeOf = {P[k] : k \in Shown}
       /\ \A k \in Shown : TreeOf[nodes[k].path] = EntryOf[k]
  BY <1>9, <1>10 DEF Tabulates
<1>12. ~Promise!Has(p)
  BY <1>9, <1>11 DEF Promise!Has
<1>13. Promise!IsDir(Promise!Parent(p))
  <2>1. p \in Seq(Names) /\ w # Root
    BY <1>1, <1>2, <1>7, PathsAreSeqs DEF IInv, Tree, RootOK
  <2>2. PICK d \in Slots : d = nodes[w].parent
    BY <1>1, <1>7, <2>1, SettledPaths
  <2>3. /\ InUse(d) /\ nodes[w].name \in Names /\ nodes[d].path \in Seq(Names)
        /\ p = Append(nodes[d].path, nodes[w].name)
    BY <1>1, <1>7, <2>1, <2>2, SettledPaths
  <2>4. nodes[d].type = "DIR"
    BY <1>1, <1>7, <2>1, <2>2 DEF IInv, Tree, ParentsOK
  <2>5. Promise!Parent(p) = nodes[d].path
    <3>1. /\ Dirname(p) \in Seq(Names) /\ Filename(p) \in Names
          /\ p = Append(Dirname(p), Filename(p))
      <4>1. p # << >>
        BY <2>3, AppendProperties
      <4> QED BY <2>1, <4>1, PathParts
    <3>2. Dirname(p) = nodes[d].path
      <4>1. PICK s \in Seq(Names), n \in Names : s = nodes[d].path /\ n = nodes[w].name
        BY <2>3
      <4>2. PICK t \in Seq(Names), m \in Names : t = Dirname(p) /\ m = Filename(p)
        BY <3>1
      <4>3. Append(s, n) = Append(t, m)
        BY <2>3, <3>1, <4>1, <4>2
      <4>4. s = t
        BY <4>3, AppendParts
      <4> QED BY <4>1, <4>2, <4>4
    <3> QED BY <3>2 DEF Promise!Parent, Dirname
  <2>6. d \in Shown
    BY <1>7, <1>8, <2>3, <2>4 DEF UsedSlots
  <2>7. nodes[d].path \in DOMAIN TreeOf /\ TreeOf[nodes[d].path].type = "DIR"
    <3>1. P[d] = nodes[d].path
      OBVIOUS
    <3>2. nodes[d].path \in DOMAIN TreeOf
      BY <1>11, <2>6, <3>1
    <3>3. TreeOf[nodes[d].path] = EntryOf[d] /\ EntryOf[d].type = "DIR"
      BY <1>11, <2>4, <2>6 DEF EntryOf
    <3> QED BY <3>2, <3>3
  <2> QED BY <2>5, <2>7 DEF Promise!IsDir, Promise!Has
<1>14. Promise!MayCreate(p)
  <2>1. Cardinality(DOMAIN TreeOf) < NumSlots
    BY <1>8 DEF SettledTree
  <2>2. Promise!Cardinality(DOMAIN TreeOf) = Cardinality(DOMAIN TreeOf)
    BY SameCardinality
  <2> QED BY <1>12, <1>13, <2>1, <2>2 DEF Promise!MayCreate
<1>15. TreeOf' = Promise!With(p, Promise!File(text)) /\ ~(overrun \/ Doomed)'
  <2>1. \A k \in Slots : /\ nodes'[k].used = nodes[k].used
                         /\ nodes'[k].type = nodes[k].type
                         /\ nodes'[k].path = nodes[k].path
                         /\ nodes'[k].data = IF k = w THEN text ELSE nodes[k].data
    BY <1>1, <1>6 DEF Node
  <2>2. UsedSlots' = UsedSlots /\ P2 = P
    BY <2>1 DEF UsedSlots, InUse
  <2>3. Tabulates(TreeOf', UsedSlots', P2, EntryOf') /\ ~(overrun \/ Doomed)'
    BY <1>1, OverFacts
  <2>4. P2[w] = p /\ EntryOf'[w] = Promise!File(text)
    BY <1>7, <2>1 DEF EntryOf, Promise!File
  <2>5. \A k \in UsedSlots' \ {w} : /\ P2[k] = P[k] /\ EntryOf'[k] = EntryOf[k]
                                    /\ P[k] # P2[w]
    <3>1. ASSUME NEW k \in Shown, k # w
          PROVE  EntryOf'[k] = EntryOf[k] /\ P[k] # p
      BY <1>9, <2>1, <3>1 DEF EntryOf
    <3> QED BY <1>8, <2>2, <2>4, <3>1
  <2> HIDE DEF P, P2
  <2>6. w \in UsedSlots' /\ UsedSlots' = Shown \cup {w} /\ w \notin Shown
    BY <1>8, <2>2
  <2>7. TreeOf' = [q \in DOMAIN TreeOf \cup {P2[w]} |->
                      IF q = P2[w] THEN EntryOf'[w] ELSE TreeOf[q]]
    BY <1>10, <2>3, <2>5, <2>6, EntrySet
  <2> QED BY <2>3, <2>4, <2>7 DEF Promise!With
<1>16. Promise!Create(p, Promise!File(text))
  BY <1>1, <1>3, <1>6, <1>14, <1>15 DEF Promise!Create, Promise!Done
<1>17. CASE text \in LineTexts
  <2>1. Promise!Write(p, text)
    BY <1>12, <1>16 DEF Promise!Write, Promise!IsFile
  <2> QED BY <1>2, <1>3, <1>17, <2>1
<1>18. ASSUME NEW i \in Slots, Source(i) PROVE \E from, to \in Paths : Promise!Copy(from, to)
  <2>1. /\ InUse(i) /\ nodes[i].type = "FILE" /\ nodes[i].data = text
        /\ nodes[i].path \in Paths /\ nodes[i].path # p
    BY <1>18 DEF Source, p, text
  <2>2. i \in Shown
    BY <1>7, <1>8, <2>1 DEF UsedSlots
  <2>3. TreeOf[nodes[i].path] = EntryOf[i] /\ nodes[i].path \in DOMAIN TreeOf
    BY <1>11, <2>2
  <2>4. EntryOf[i] = Promise!File(text)
    BY <2>1 DEF EntryOf, Promise!File
  <2>5. Promise!IsFile(nodes[i].path)
    BY <2>3, <2>4 DEF Promise!IsFile, Promise!Has, Promise!File
  <2>6. Promise!Copy(nodes[i].path, p)
    BY <1>16, <2>3, <2>4, <2>5 DEF Promise!Copy
  <2> QED BY <1>2, <2>1, <2>6
<1> QED BY <1>2, <1>3, <1>17, <1>18

\* del: nothing is below a file, or below a directory without children.
LEMMA MayDeleteMeans ==
  ASSUME TInv, Idle, NEW p \in Seq(Names)
  PROVE  (\E i \in Slots : Finds(i, p) /\ MayDelete(i))
            <=> /\ Promise!Has(p) /\ p # << >>
                /\ \A q \in DOMAIN TreeOf : Promise!Under(p, q) => q = p
<1>1. IdleFacts /\ IInv /\ Settled
  BY IdleFactsAre DEF TInv, Idle, Settled
<1>2. /\ \A k \in Slots : nodes[k].path \in Seq(Names)
      /\ Root \in Slots /\ nodes[Root].path = << >> /\ InUse(Root)
      /\ nodes[Root].parent \notin Slots
  BY <1>1, SlotsAssumption DEF IInv, TypeOK, Tree, RootOK, Node, Root, Slots
<1>3. \A q : q \in DOMAIN TreeOf <=> \E k \in Slots : InUse(k) /\ nodes[k].path = q
  BY <1>1 DEF IdleFacts, Promise!Has, Exists, HasPath, InUse
<1>4. ASSUME NEW i \in Slots, Finds(i, p), MayDelete(i)
      PROVE  /\ Promise!Has(p) /\ p # << >>
             /\ \A q \in DOMAIN TreeOf : Promise!Under(p, q) => q = p
  <2>1. InUse(i) /\ nodes[i].path = p /\ i # Root
    BY <1>1, <1>4 DEF IdleFacts, MayDelete
  <2>2. p # << >>
    BY <1>1, <1>2, <2>1, PathsUnique
  <2>3. \A k \in Slots : ~IsChild(k, i)
    <3>1. ASSUME NEW k \in Slots, IsChild(k, i) PROVE nodes[i].type = "DIR"
      <4>1. k # Root /\ InUse(k) /\ nodes[k].parent = i
        BY <1>2, <3>1 DEF IsChild, InUse
      <4> QED BY <1>1, <4>1 DEF IInv, Tree, ParentsOK
    <3> QED BY <1>4, <3>1 DEF MayDelete
  <2>4. \A d, k \in Slots : HasPath(d, p) => ~IsChild(k, d)
    <3>1. ASSUME NEW d \in Slots, HasPath(d, p) PROVE d = i
      BY <1>1, <2>1, <3>1, PathsUnique DEF HasPath, InUse
    <3> QED BY <2>3, <3>1
  <2>5. \A k \in Slots : InUse(k) => ~Below(nodes[k].path, p)
    BY <1>1, <2>4, NoneBelow
  <2>6. ASSUME NEW q \in DOMAIN TreeOf, Promise!Under(p, q) PROVE q = p
    <3>1. PICK k \in Slots : InUse(k) /\ nodes[k].path = q
      BY <1>3
    <3>2. q \in Seq(Names) /\ ~Below(q, p)
      BY <1>2, <2>5, <3>1
    <3> QED BY <2>6, <3>2, UnderBelow
  <2>7. Promise!Has(p)
    BY <1>3, <2>1 DEF Promise!Has
  <2> QED BY <2>2, <2>6, <2>7
<1>5. ASSUME Promise!Has(p), p # << >>,
             \A q \in DOMAIN TreeOf : Promise!Under(p, q) => q = p
      PROVE  \E i \in Slots : Finds(i, p) /\ MayDelete(i)
  <2>1. PICK i \in Slots : InUse(i) /\ nodes[i].path = p
    BY <1>3, <1>5 DEF Promise!Has
  <2>2. Finds(i, p) /\ i # Root
    BY <1>1, <1>2, <1>5, <2>1 DEF IdleFacts
  <2>3. ASSUME NEW k \in Slots, IsChild(k, i) PROVE FALSE
    <3>1. k # Root /\ InUse(k) /\ nodes[k].parent = i
      BY <1>2, <2>3 DEF IsChild, InUse
    <3>2. nodes[k].name \in Names /\ nodes[k].path = Append(p, nodes[k].name)
      BY <1>1, <2>1, <3>1, SettledPaths
    <3>3. Promise!Under(p, nodes[k].path) /\ nodes[k].path # p
      BY <3>2, UnderAppend
    <3>4. nodes[k].path \in DOMAIN TreeOf
      BY <1>3, <3>1
    <3> QED BY <1>5, <3>3, <3>4
  <2> QED BY <2>2, <2>3 DEF MayDelete
<1> QED BY <1>4, <1>5

LEMMA DeleteMaps ==
  ASSUME TInv, TInv', NEW p \in Paths, Delete(p) PROVE Promise!Delete(p)
<1>1. IdleFacts /\ Idle /\ p \in Seq(Names) /\ Settled
  BY IdleFactsAre, PathsAreSeqs DEF Delete, Idle, Settled
<1>2. CASE ~(\E i \in Slots : Finds(i, p) /\ MayDelete(i)) /\ Refuse
  <2>1. Promise!Fail
    BY <1>1, <1>2, RefuseMaps
  <2>2. ~(/\ Promise!Has(p) /\ p # << >>
          /\ \A q \in DOMAIN TreeOf : Promise!Under(p, q) => q = p)
    BY <1>1, <1>2, MayDeleteMeans
  <2> QED BY <2>1, <2>2 DEF Promise!Delete
<1>3. ASSUME NEW i \in Slots, Finds(i, p), MayDelete(i),
             nodes' = [nodes EXCEPT ![i] = Freed(@)], rc' = 0,
             UNCHANGED <<current_dir, frames, pending, overrun>>
      PROVE  Promise!Delete(p)
  <2>1. /\ Promise!Has(p) /\ p # << >>
        /\ \A q \in DOMAIN TreeOf : Promise!Under(p, q) => q = p
    BY <1>1, <1>3, MayDeleteMeans
  <2>2. InUse(i) /\ nodes[i].path = p
    BY <1>1, <1>3 DEF IdleFacts
  <2>3. /\ nodes'[i] = Freed(nodes[i]) /\ ~nodes'[i].used
        /\ \A k \in Slots : k # i => nodes'[k] = nodes[k]
    BY <1>3 DEF TInv, IInv, TypeOK, Freed, Blank
  <2>4. UsedSlots' = UsedSlots \ {i}
    BY <2>3 DEF UsedSlots, InUse
  <2> DEFINE P == [k \in Slots |-> nodes[k].path]
             P2 == [k \in Slots |-> nodes'[k].path]
             u == [q \in DOMAIN TreeOf \ {p} |-> TreeOf[q]]
  <2>5. Tabulates(TreeOf, UsedSlots, P, EntryOf)
    BY <1>1 DEF IdleFacts, SettledTree
  <2>6. Tabulates(TreeOf', UsedSlots', P2, EntryOf') /\ ~(overrun \/ Doomed)'
    BY <1>1, <1>3, OverFacts DEF Idle, IdleFacts
  <2>7. \A k \in UsedSlots' : /\ k \in UsedSlots /\ k # i /\ P2[k] = P[k]
                              /\ EntryOf'[k] = EntryOf[k] /\ P[k] # p
    <3>1. ASSUME NEW k \in UsedSlots'
          PROVE  /\ k \in UsedSlots /\ k # i /\ P2[k] = P[k]
                 /\ EntryOf'[k] = EntryOf[k] /\ P[k] # p
      <4>1. k \in Slots /\ InUse(k) /\ k # i
        BY <2>4 DEF UsedSlots
      <4>2. nodes[k].path # p
        BY <1>1, <2>2, <4>1, PathsUnique DEF TInv
      <4> QED BY <2>3, <4>1, <4>2 DEF UsedSlots, EntryOf
    <3> QED BY <3>1
  <2>8. P[i] = p
    BY <2>2
  <2> HIDE DEF P, P2
  <2>9. DOMAIN TreeOf' = DOMAIN TreeOf \ {p}
    <3>1. DOMAIN TreeOf = {P[k] : k \in UsedSlots}
      BY <2>5 DEF Tabulates
    <3>2. DOMAIN TreeOf' = {P2[k] : k \in UsedSlots'}
      BY <2>6 DEF Tabulates
    <3> QED BY <2>4, <2>7, <2>8, <3>1, <3>2
  <2>10. ASSUME NEW q \in DOMAIN TreeOf' PROVE TreeOf'[q] = TreeOf[q]
    <3>1. PICK k \in UsedSlots' : q = P2[k]
      BY <2>6 DEF Tabulates
    <3>2. TreeOf'[q] = EntryOf'[k]
      BY <2>6, <3>1 DEF Tabulates
    <3>3. TreeOf[q] = EntryOf[k]
      BY <2>5, <2>7, <3>1 DEF Tabulates
    <3> QED BY <2>7, <3>2, <3>3
  <2>11. TreeOf' = u
    <3>1. Fcn(u) /\ DOMAIN u = DOMAIN TreeOf'
      BY <2>9 DEF Fcn
    <3>2. \A q \in DOMAIN TreeOf' : TreeOf'[q] = u[q]
      BY <2>9, <2>10
    <3> HIDE DEF u
    <3> QED BY <2>6, <3>1, <3>2, FcnEqual DEF Tabulates
  <2>12. TreeOf' = Promise!Restricted(DOMAIN TreeOf \ {p})
    BY <2>11 DEF Promise!Restricted
  <2> QED BY <1>1, <1>3, <2>1, <2>6, <2>12 DEF Promise!Delete, Promise!Done, IdleFacts
<1> QED BY <1>2, <1>3 DEF Delete

-----------------------------------------------------------------------------
(***************************************************************************)
(* mv.  One assignment to the parent index moves a whole subtree.          *)
(***************************************************************************)
\* P labels the slots of C after the step.
NewLabels(C, P) ==
    /\ Root \in C /\ P[Root] = << >>
    /\ \A i \in C \ {Root} :
          /\ nodes'[i].parent \in C /\ nodes'[i].name \in Names
          /\ P[i] = Append(P[nodes'[i].parent], nodes'[i].name)

\* The labels are the true paths after the step, and differ.
LEMMA NewPaths ==
  ASSUME TInv', NEW C \in SUBSET Slots, NEW P \in [C -> Seq(Names)],
         NewLabels(C, P), \A i \in C : InUse(i)'
  PROVE  /\ \A i \in C : Rooted(i)' /\ PathOf'[i] = P[i]
         /\ \A i, j \in C : P[i] = P[j] => i = j
<1>1. (IInv /\ FreeOK => Linked)' /\ (Linked => LabelsTrue)'
      /\ (SiblingsDistinct => LabelsDiffer)'
  BY LinkedTable, LabelsAreTrue, LabelsUnique, PTL
<1>2. LabelsTrue' /\ LabelsDiffer'
  BY <1>1 DEF TInv, IInv, Tree
<1>3. \A i \in C : Rooted(i)' /\ PathOf'[i] = P[i]
  BY <1>2 DEF LabelsTrue, Labels, NewLabels
<1>4. \A i, j \in C : P[i] = P[j] => i = j
  BY <1>2 DEF LabelsDiffer, Labels, NewLabels
<1> QED BY <1>3, <1>4

\* What fs_move asks for is what FileTree asks for.
LEMMA MayMoveMeans ==
  ASSUME TInv, Idle, NEW from \in Paths, NEW to \in Paths
  PROVE  (\E i \in Slots : Finds(i, from) /\ MayMove(i, to))
            <=> Promise!MayMove(from, to)
<1>1. IdleFacts /\ IInv /\ Settled
  BY IdleFactsAre DEF TInv, Idle, Settled
<1>2. Root \in Slots /\ nodes[Root].path = << >> /\ InUse(Root)
  BY <1>1, SlotsAssumption DEF IInv, Tree, RootOK, Root, Slots
<1>3. \A i \in Slots : Finds(i, from) => (i # Root <=> from # << >>)
  BY <1>1, <1>2, PathsUnique DEF IdleFacts
<1>4. Promise!Has(from) <=> \E i \in Slots : Finds(i, from)
  BY <1>1 DEF IdleFacts, Exists, HasPath, InUse
<1>5. to = << >> => Exists(to)
  BY <1>2 DEF Exists, HasPath, InUse
<1>6. to # << >> => (Promise!IsDir(Promise!Parent(to)) <=> HasParent(to))
  BY <1>1 DEF IdleFacts, Promise!Parent, Dirname, HasParent, IsParent
<1>7. Promise!Has(to) <=> Exists(to)
  BY <1>1 DEF IdleFacts
<1> QED BY <1>3, <1>4, <1>5, <1>6, <1>7 DEF MayMove, Promise!MayMove

\* What any move that is carried out leaves alone.
LEMMA MoveKeeps ==
  ASSUME TInv, TInv', NEW from \in Paths, NEW to \in Paths, NEW i \in Slots,
         NEW d \in Slots, Moves(i, d, from, to)
  PROVE  /\ UsedSlots' = UsedSlots /\ EntryOf' = EntryOf
         /\ Shown' = {k \in UsedSlots : Rooted(k)'}
         /\ pending' = NoWrite /\ overrun' = FALSE
         /\ from \in Seq(Names) /\ from # << >> /\ i \in UsedSlots /\ d \in UsedSlots
         /\ \A k \in UsedSlots : /\ k \in Slots /\ InUse(k) /\ InUse(k)'
                                 /\ nodes[k].path \in Seq(Names)
         /\ \A k \in UsedSlots \ {i} : nodes[k].path # from
         /\ Promise!MayMove(from, to) /\ rc' = 0 /\ UNCHANGED current_dir
         /\ Tabulates(TreeOf, UsedSlots, [k \in Slots |-> nodes[k].path], EntryOf)
<1>1. /\ i # Root /\ InUse(i) /\ nodes[i].path = from /\ InUse(d) /\ Settled
      /\ Moved(i, d, Filename(to), to)
  BY MoveFacts DEF TInv
<1>2. UsedSlots' = UsedSlots
  BY <1>1 DEF UsedSlots, InUse, Moved
<1>3. EntryOf' = EntryOf
  BY <1>1 DEF EntryOf, Moved
<1>4. /\ pending' = NoWrite /\ overrun' = FALSE /\ rc' = 0 /\ UNCHANGED current_dir
      /\ Idle
  BY DEF Moves, Idle, TInv, IInv, TypeOK
<1>5. Shown' = {k \in UsedSlots : Rooted(k)'}
  BY <1>1, <1>4 DEF Shown, UsedSlots, Unwritten, InUse, Moved
<1>6. from \in Seq(Names) /\ from # << >>
  BY <1>1, PathsAreSeqs, SettledPaths DEF TInv
<1>7. \A k \in UsedSlots : /\ k \in Slots /\ InUse(k) /\ InUse(k)'
                           /\ nodes[k].path \in Seq(Names)
  BY <1>1 DEF UsedSlots, InUse, Moved, TInv, IInv, TypeOK, Node
<1>8. \A k \in UsedSlots \ {i} : nodes[k].path # from
  BY <1>1, <1>7, PathsUnique DEF TInv
<1>9. Promise!MayMove(from, to)
  BY <1>4, MayMoveMeans DEF Moves
<1>10. Tabulates(TreeOf, UsedSlots, [k \in Slots |-> nodes[k].path], EntryOf)
  BY <1>4, IdleFactsAre DEF IdleFacts, SettledTree
<1>11. i \in UsedSlots /\ d \in UsedSlots
  BY <1>1 DEF UsedSlots
<1> QED BY <1>2, <1>3, <1>4, <1>5, <1>6, <1>7, <1>8, <1>9, <1>10, <1>11

\* A move to somewhere not below what is moved takes every path to where
\* FileTree says.
LEMMA MovedLabels ==
  ASSUME TInv, TInv', NEW from \in Paths, NEW to \in Paths, NEW i \in Slots,
         NEW d \in Slots, Moves(i, d, from, to), ~Promise!Under(from, to),
         NEW Q, Q = [k \in UsedSlots |-> Promise!Moved(from, to, nodes[k].path)]
  PROVE  Q \in [UsedSlots -> Seq(Names)] /\ NewLabels(UsedSlots, Q)
<1>1. /\ i # Root /\ InUse(i) /\ nodes[i].path = from /\ Settled
      /\ nodes[d].path \in Seq(Names) /\ to \in Seq(Names) /\ Filename(to) \in Names
      /\ to = Append(nodes[d].path, Filename(to))
      /\ Moved(i, d, Filename(to), to)
  BY MoveFacts DEF TInv
<1>2. /\ from \in Seq(Names) /\ from # << >> /\ i \in UsedSlots /\ d \in UsedSlots
      /\ \A k \in UsedSlots : /\ k \in Slots /\ InUse(k)
                              /\ nodes[k].path \in Seq(Names)
      /\ \A k \in UsedSlots \ {i} : nodes[k].path # from
  BY MoveKeeps
<1>3. \A k \in UsedSlots : Promise!Moved(from, to, nodes[k].path) \in Seq(Names)
  BY <1>1, <1>2, MovedSteps
<1>4. Q \in [UsedSlots -> Seq(Names)]
  BY <1>3
<1>5. Root \in UsedSlots /\ Q[Root] = << >>
  <2>1. Root \in UsedSlots /\ nodes[Root].path = << >>
    BY SlotsAssumption DEF TInv, IInv, Tree, RootOK, UsedSlots, Root, Slots
  <2>2. ~Promise!Under(from, << >>)
    BY <1>1, <1>2, UnderAppend
  <2>3. Promise!Moved(from, to, << >>) = << >>
    BY <2>2 DEF Promise!Moved
  <2> QED BY <2>1, <2>3
<1>6. nodes'[i].parent = d /\ nodes'[i].name = Filename(to)
      /\ Q[i] = Append(Q[d], Filename(to))
  <2>1. Q[i] = to
    BY <1>1, <1>2, MovedSteps
  <2>2. ~Promise!Under(from, nodes[d].path)
    <3>1. PICK s \in Seq(Names), n \in Names : s = nodes[d].path /\ to = Append(s, n)
      BY <1>1
    <3>2. Promise!Under(from, s) => Promise!Under(from, Append(s, n))
      BY <1>2, UnderAppend
    <3> QED BY <3>1, <3>2
  <2>3. Q[d] = nodes[d].path
    BY <1>2, <2>2 DEF Promise!Moved
  <2> QED BY <1>1, <2>1, <2>3 DEF Moved
<1>7. ASSUME NEW k \in UsedSlots \ {Root}, k # i
      PROVE  /\ nodes'[k].parent \in UsedSlots /\ nodes'[k].name \in Names
             /\ Q[k] = Append(Q[nodes'[k].parent], nodes'[k].name)
  <2>1. PICK p \in Slots : p = nodes[k].parent
    BY <1>1, <1>2, <1>7, SettledPaths DEF TInv
  <2>2. /\ p \in UsedSlots /\ nodes[k].name \in Names
        /\ nodes[k].path = Append(nodes[p].path, nodes[k].name)
    BY <1>1, <1>2, <1>7, <2>1, SettledPaths DEF TInv, UsedSlots
  <2>3. nodes'[k].parent = p /\ nodes'[k].name = nodes[k].name
    BY <1>1, <1>2, <1>7, <2>1 DEF Moved
  <2>4. nodes[k].path # from /\ nodes[p].path \in Seq(Names)
    BY <1>2, <1>7, <2>2
  <2>5. Promise!Moved(from, to, nodes[k].path) =
           Append(Promise!Moved(from, to, nodes[p].path), nodes[k].name)
    <3>1. PICK s \in Seq(Names), n \in Names : s = nodes[p].path /\ n = nodes[k].name
      BY <2>2, <2>4
    <3>2. Append(s, n) = nodes[k].path
      BY <2>2, <3>1
    <3>3. from \in Seq(Names) /\ to \in Seq(Names) /\ Append(s, n) # from
      BY <1>1, <1>2, <2>4, <3>2
    <3>4. Promise!Moved(from, to, Append(s, n)) = Append(Promise!Moved(from, to, s), n)
      BY <3>3, MovedChild
    <3> QED BY <3>1, <3>2, <3>4
  <2> QED BY <2>2, <2>3, <2>5
<1> QED BY <1>1, <1>2, <1>4, <1>5, <1>6, <1>7 DEF NewLabels

LEMMA MoveElsewhere ==
  ASSUME TInv, TInv', NEW from \in Paths, NEW to \in Paths, NEW i \in Slots,
         NEW d \in Slots, Moves(i, d, from, to), ~Promise!Under(from, to)
  PROVE  Promise!Move(from, to)
<1> DEFINE go(q) == Promise!Moved(from, to, q)
           Q == [k \in UsedSlots |-> go(nodes[k].path)]
           P == [k \in Slots |-> nodes[k].path]
           D == {go(q) : q \in DOMAIN TreeOf}
           u == [r \in D |-> TreeOf[CHOOSE q \in DOMAIN TreeOf : go(q) = r]]
<1>1. /\ UsedSlots' = UsedSlots /\ EntryOf' = EntryOf
      /\ Shown' = {k \in UsedSlots : Rooted(k)'}
      /\ pending' = NoWrite /\ overrun' = FALSE
      /\ \A k \in UsedSlots : /\ k \in Slots /\ InUse(k) /\ InUse(k)'
                              /\ nodes[k].path \in Seq(Names)
      /\ Promise!MayMove(from, to) /\ rc' = 0 /\ UNCHANGED current_dir
      /\ Tabulates(TreeOf, UsedSlots, P, EntryOf)
  BY MoveKeeps
<1>2. Q \in [UsedSlots -> Seq(Names)] /\ NewLabels(UsedSlots, Q)
  BY MovedLabels
<1>3. /\ \A k \in UsedSlots : Rooted(k)' /\ PathOf'[k] = Q[k]
      /\ \A j, k \in UsedSlots : Q[j] = Q[k] => j = k
  <2>1. UsedSlots \in SUBSET Slots
    BY DEF UsedSlots
  <2> HIDE DEF Q
  <2> QED BY <1>1, <1>2, <2>1, NewPaths
<1>4. Shown' = UsedSlots
  BY <1>1, <1>3
<1>5. /\ DOMAIN TreeOf = {P[k] : k \in UsedSlots}
      /\ \A k \in UsedSlots : TreeOf[P[k]] = EntryOf[k]
  BY <1>1 DEF Tabulates
<1>6. D = {Q[k] : k \in UsedSlots}
  BY <1>1, <1>5
<1>7. Tabulates(TreeOf', UsedSlots, Q, EntryOf)
  <2>1. \A j, k \in UsedSlots : PathOf'[j] = PathOf'[k] => j = k
    BY <1>3
  <2>2. Tabulates(TreeOf', UsedSlots, PathOf', EntryOf)
    BY <1>1, <1>4, <2>1, MapValues DEF TreeOf, MapOf
  <2>3. {PathOf'[k] : k \in UsedSlots} = {Q[k] : k \in UsedSlots}
    BY <1>3
  <2>4. \A k \in UsedSlots : TreeOf'[Q[k]] = EntryOf[k]
    BY <1>3, <2>2 DEF Tabulates
  <2> HIDE DEF Q
  <2> QED BY <2>2, <2>3, <2>4 DEF Tabulates
<1>8. Tabulates(u, UsedSlots, Q, EntryOf)
  <2>1. ASSUME NEW k \in UsedSlots PROVE u[Q[k]] = EntryOf[k]
    <3> DEFINE from1 == CHOOSE q \in DOMAIN TreeOf : go(q) = Q[k]
    <3>1. P[k] \in DOMAIN TreeOf /\ go(P[k]) = Q[k]
      BY <1>1, <1>5
    <3> HIDE DEF go, Q, P
    <3>2. from1 \in DOMAIN TreeOf /\ go(from1) = Q[k]
      BY <3>1
    <3>3. PICK j \in UsedSlots : from1 = P[j]
      BY <1>5, <3>2
    <3>4. Q[j] = go(P[j])
      BY <1>1 DEF Q, P
    <3>5. j = k
      BY <1>3, <3>2, <3>3, <3>4
    <3>6. u[Q[k]] = TreeOf[from1]
      BY <1>6
    <3> HIDE DEF from1
    <3> QED BY <1>5, <3>3, <3>5, <3>6
  <2>2. Fcn(u) /\ DOMAIN u = D
    BY DEF Fcn
  <2> HIDE DEF u, D, Q
  <2> QED BY <1>6, <2>1, <2>2 DEF Tabulates
<1>9. TreeOf' = u
  <2> HIDE DEF u, Q
  <2> QED BY <1>7, <1>8, TableUnique
<1>10. (overrun \/ Doomed)' <=> \E r \in DOMAIN TreeOf' : Len(r) > MaxPath
  <2> HIDE DEF Q
  <2>1. (\E r \in DOMAIN TreeOf' : Len(r) > MaxPath)
           <=> \E k \in UsedSlots : Len(Q[k]) > MaxPath
    BY <1>7 DEF Tabulates
  <2>2. CASE frames' # << >>
    <3>1. Doomed' <=> \E k \in Slots : InUse(k)' /\ (~Rooted(k)' \/ Len(PathOf'[k]) > MaxPath)
      BY <2>2 DEF Doomed
    <3>2. \A k \in Slots : InUse(k)' <=> k \in UsedSlots
      <4>1. \A k \in Slots : InUse(k)' <=> k \in UsedSlots'
        BY DEF UsedSlots
      <4> QED BY <1>1, <4>1
    <3>3. Doomed' <=> \E k \in UsedSlots : Len(Q[k]) > MaxPath
      BY <1>1, <1>3, <3>1, <3>2
    <3> QED BY <1>1, <2>1, <3>3
  <2>3. CASE frames' = << >>
    <3>1. (IInv /\ FreeOK /\ Settled => SettledTrue)'
      BY SettledIsTrue, PTL
    <3>2. \A k \in UsedSlots : PathOf'[k] = nodes'[k].path
      BY <1>1, <2>3, <3>1 DEF TInv, Settled, SettledTrue
    <3>3. ASSUME NEW k \in UsedSlots PROVE ~(Len(Q[k]) > MaxPath)
      <4>1. Q[k] = nodes'[k].path /\ k \in Slots /\ InUse(k)'
        BY <1>1, <1>3, <3>2
      <4>2. Len(nodes'[k].path) <= MaxPath /\ nodes'[k].path \in Seq(Names)
        BY <4>1 DEF TInv, PathsFit, IInv, TypeOK, Node
      <4> QED BY <4>1, <4>2, LenProperties, LimitsAssumption
    <3>4. ~Doomed'
      BY <2>3 DEF Doomed
    <3> QED BY <1>1, <2>1, <3>3, <3>4
  <2> QED BY <2>2, <2>3
<1>11. (overrun \/ Doomed)' = \E r \in DOMAIN TreeOf' : Len(r) > MaxPath
  BY <1>10
<1> QED BY <1>1, <1>9, <1>11 DEF Promise!Move

\* A directory is moved below itself: what was below it follows it in a circle,
\* and the rest stays where it was.
LEMMA MoveIntoItself ==
  ASSUME TInv, TInv', NEW from \in Paths, NEW to \in Paths, NEW i \in Slots,
         NEW d \in Slots, Moves(i, d, from, to), Promise!Under(from, to)
  PROVE  Promise!MoveUnderItself(from, to)
<1> DEFINE cut == {k \in UsedSlots : Promise!Under(from, nodes[k].path)}
           C == UsedSlots \ cut
           P == [k \in C |-> nodes[k].path]
           u == [q \in {q \in DOMAIN TreeOf : ~Promise!Under(from, q)} |-> TreeOf[q]]
<1>1. /\ i # Root /\ InUse(i) /\ nodes[i].path = from /\ ~Exists(to) /\ Settled
      /\ nodes[d].type = "DIR" /\ nodes[d].path \in Seq(Names)
      /\ to \in Seq(Names) /\ Filename(to) \in Names
      /\ to = Append(nodes[d].path, Filename(to))
      /\ Moved(i, d, Filename(to), to)
  BY MoveFacts DEF TInv
<1>2. /\ UsedSlots' = UsedSlots /\ EntryOf' = EntryOf
      /\ Shown' = {k \in UsedSlots : Rooted(k)'}
      /\ pending' = NoWrite /\ overrun' = FALSE
      /\ from \in Seq(Names) /\ from # << >> /\ i \in UsedSlots /\ d \in UsedSlots
      /\ \A k \in UsedSlots : /\ k \in Slots /\ InUse(k) /\ InUse(k)'
                              /\ nodes[k].path \in Seq(Names)
      /\ \A k \in UsedSlots \ {i} : nodes[k].path # from
      /\ Promise!MayMove(from, to) /\ rc' = 0 /\ UNCHANGED current_dir
      /\ Tabulates(TreeOf, UsedSlots, [k \in Slots |-> nodes[k].path], EntryOf)
  BY MoveKeeps
<1>3. i \in cut /\ d \in cut
  <2>1. Promise!Under(from, from)
    BY <1>1, <1>2, UnderAppend
  <2>2. Promise!Under(from, nodes[d].path)
    <3>1. PICK s \in Seq(Names), n \in Names : s = nodes[d].path /\ to = Append(s, n)
      BY <1>1
    <3>2. Promise!Under(from, Append(s, n)) <=> Promise!Under(from, s) \/ Append(s, n) = from
      BY <1>2, UnderAppend
    <3>3. to # from
      BY <1>1 DEF Exists, HasPath, InUse
    <3> QED BY <3>1, <3>2, <3>3
  <2> QED BY <1>1, <1>2, <2>1, <2>2
<1>4. Root \in UsedSlots /\ nodes[Root].path = << >> /\ Root \notin cut
  <2>1. Root \in UsedSlots /\ nodes[Root].path = << >>
    BY SlotsAssumption DEF TInv, IInv, Tree, RootOK, UsedSlots, Root, Slots
  <2>2. ~Promise!Under(from, << >>)
    BY <1>1, <1>2, UnderAppend
  <2> QED BY <2>1, <2>2
\* Every slot but the one moved stays with its parent.
<1>5. ASSUME NEW k \in UsedSlots \ {Root}, k # i
      PROVE  /\ nodes'[k].parent \in UsedSlots /\ nodes'[k].name \in Names
             /\ k \in cut <=> nodes'[k].parent \in cut
             /\ nodes[k].path = Append(nodes[nodes'[k].parent].path, nodes'[k].name)
  <2>1. PICK p \in Slots : p = nodes[k].parent
    BY <1>1, <1>2, <1>5, SettledPaths DEF TInv
  <2>2. /\ p \in UsedSlots /\ nodes[k].name \in Names
        /\ nodes[k].path = Append(nodes[p].path, nodes[k].name)
    BY <1>1, <1>2, <1>5, <2>1, SettledPaths DEF TInv, UsedSlots
  <2>3. nodes'[k].parent = p /\ nodes'[k].name = nodes[k].name
    BY <1>1, <1>2, <1>5, <2>1 DEF Moved
  <2>4. Promise!Under(from, nodes[k].path) <=> Promise!Under(from, nodes[p].path)
    <3>1. PICK s \in Seq(Names), n \in Names : s = nodes[p].path /\ n = nodes[k].name
      BY <1>2, <2>2
    <3>2. Promise!Under(from, Append(s, n)) <=> Promise!Under(from, s) \/ Append(s, n) = from
      BY <1>2, UnderAppend
    <3>3. Append(s, n) = nodes[k].path /\ nodes[k].path # from
      BY <1>2, <1>5, <2>2, <3>1
    <3> QED BY <3>1, <3>2, <3>3
  <2> QED BY <1>5, <2>2, <2>3, <2>4
<1>6. \A k \in cut : ~Rooted(k)'
  <2>1. (IInv /\ FreeOK => Linked)' /\ (Linked => SetsTrap)'
    BY LinkedTable, Trapped, PTL
  <2>2. cut \in SUBSET (Slots \ {Root})
    BY <1>2, <1>4
  <2>3. \A k \in cut : nodes'[k].parent \in cut
    <3>1. nodes'[i].parent = d
      BY <1>1 DEF Moved
    <3>2. \A k \in cut : k \in UsedSlots \ {Root}
      BY <1>4
    <3> HIDE DEF cut
    <3> QED BY <1>3, <1>5, <3>1, <3>2
  <2> HIDE DEF cut
  <2>4. \A m \in Nat, k \in cut : Ancestor'[m][k] \in cut
    BY <2>1, <2>2, <2>3 DEF TInv, SetsTrap
  <2> QED BY <2>2, <2>4, SlotsAssumption DEF Rooted
<1>7. C \in SUBSET Slots /\ C \in SUBSET UsedSlots /\ P \in [C -> Seq(Names)]
  BY <1>2
<1>8. NewLabels(C, P)
  <2>1. Root \in C /\ P[Root] = << >>
    BY <1>4
  <2>2. ASSUME NEW k \in C \ {Root}
        PROVE  /\ nodes'[k].parent \in C /\ nodes'[k].name \in Names
               /\ P[k] = Append(P[nodes'[k].parent], nodes'[k].name)
    <3>1. k \in UsedSlots \ {Root} /\ k # i /\ k \notin cut
      BY <1>3
    <3>2. /\ nodes'[k].parent \in UsedSlots /\ nodes'[k].name \in Names
          /\ nodes'[k].parent \notin cut
          /\ nodes[k].path = Append(nodes[nodes'[k].parent].path, nodes'[k].name)
      <4> HIDE DEF cut
      <4> QED BY <1>5, <3>1
    <3>3. nodes'[k].parent \in C
      <4> HIDE DEF cut
      <4> QED BY <3>2
    <3> HIDE DEF C
    <3> QED BY <3>2, <3>3
  <2> QED BY <2>1, <2>2 DEF NewLabels
<1>9. /\ \A k \in C : Rooted(k)' /\ PathOf'[k] = P[k]
      /\ \A j, k \in C : P[j] = P[k] => j = k
  <2>1. \A k \in C : InUse(k)'
    BY <1>2, <1>7
  <2> HIDE DEF C, P
  <2> QED BY <1>7, <1>8, <2>1, NewPaths
<1>10. Shown' = C
  <2> HIDE DEF cut, P
  <2> QED BY <1>2, <1>6, <1>9
<1>11. Tabulates(TreeOf', C, P, EntryOf)
  <2> HIDE DEF C, P
  <2>1. \A j, k \in C : PathOf'[j] = PathOf'[k] => j = k
    BY <1>9
  <2>2. Tabulates(TreeOf', C, PathOf', EntryOf)
    BY <1>2, <1>10, <2>1, MapValues DEF TreeOf, MapOf
  <2>3. {PathOf'[k] : k \in C} = {P[k] : k \in C}
    BY <1>9
  <2>4. \A k \in C : TreeOf'[P[k]] = EntryOf[k]
    BY <1>9, <2>2 DEF Tabulates
  <2> QED BY <2>2, <2>3, <2>4 DEF Tabulates
<1>12. Tabulates(u, C, P, EntryOf)
  <2>1. /\ DOMAIN TreeOf = {nodes[k].path : k \in UsedSlots}
        /\ \A k \in UsedSlots : TreeOf[nodes[k].path] = EntryOf[k]
    BY <1>2 DEF Tabulates
  <2>2. {q \in DOMAIN TreeOf : ~Promise!Under(from, q)} = {P[k] : k \in C}
    BY <2>1
  <2>3. Fcn(u) /\ DOMAIN u = {P[k] : k \in C}
    BY <2>2 DEF Fcn
  <2>4. \A k \in C : u[P[k]] = EntryOf[k]
    BY <2>1, <2>2
  <2> HIDE DEF u, C, P
  <2> QED BY <2>3, <2>4 DEF Tabulates
<1>13. TreeOf' = u
  <2> HIDE DEF u, C, P
  <2> QED BY <1>11, <1>12, TableUnique
\* Only a directory has something below it.
<1>14. nodes[i].type = "DIR"
  <2>1. CASE nodes[d].path = from
    <3>1. d = i
      BY <1>2, <2>1
    <3> QED BY <1>1, <3>1
  <2>2. CASE nodes[d].path # from
    <3>1. Below(nodes[d].path, from)
      BY <1>1, <1>2, <1>3, <2>2, UnderBelow
    <3>2. PICK e \in Slots, k \in Slots : HasPath(e, from) /\ IsChild(k, e)
      BY <1>1, <1>2, <3>1, NoneBelow DEF TInv
    <3>3. e = i
      BY <1>1, <3>2, PathsUnique DEF TInv, HasPath, InUse
    <3>4. InUse(k) /\ nodes[k].parent = i /\ k # Root
      BY <3>2, <3>3 DEF IsChild, InUse, TInv, IInv, Tree, RootOK, Slots
    <3> QED BY <3>4 DEF TInv, IInv, Tree, ParentsOK
  <2> QED BY <2>1, <2>2
<1>15. Doomed'
  <2>1. frames' # << >>
    BY <1>14 DEF Moves, Rebuild
  <2>2. InUse(i)' /\ ~Rooted(i)'
    BY <1>2, <1>3, <1>6
  <2> QED BY <2>1, <2>2 DEF Doomed
<1> QED BY <1>2, <1>13, <1>15 DEF Promise!MoveUnderItself, Promise!Restricted

\* mv, whatever it is asked to move and wherever to.
LEMMA MoveMaps ==
  ASSUME TInv, TInv', NEW from \in Paths, NEW to \in Paths, Move(from, to)
  PROVE  \/ Promise!Move(from, to) \/ Promise!MoveUnderItself(from, to)
         \/ Promise!MoveFails(from, to)
<1>1. Idle
  BY DEF Move
<1>2. CASE ~(\E i \in Slots : Finds(i, from) /\ MayMove(i, to)) /\ Refuse
  BY <1>1, <1>2, MayMoveMeans, RefuseMaps DEF Promise!MoveFails
<1>3. ASSUME NEW i \in Slots, NEW d \in Slots, Moves(i, d, from, to)
      PROVE  Promise!Move(from, to) \/ Promise!MoveUnderItself(from, to)
  BY <1>3, MoveElsewhere, MoveIntoItself
<1> QED BY <1>1, <1>2, <1>3 DEF Move, Moves

-----------------------------------------------------------------------------
(***************************************************************************)
(* The refinement.                                                         *)
(***************************************************************************)
\* The default tree is the one FileTree begins with.
LEMMA InitMaps == ASSUME Init PROVE Promise!Init
<1>1. TInv /\ Idle
  BY InitTInv DEF Init, Idle
<1>2. IdleFacts /\ Tabulates(TreeOf, UsedSlots, [i \in Slots |-> nodes[i].path], EntryOf)
  BY <1>1, IdleFactsAre DEF IdleFacts, SettledTree
<1>3. {0, 1, 2, 3} \subseteq Slots
  BY SlotsAssumption DEF Slots
<1>4. /\ nodes[0] = Made("DIR", -1, "/", << >>, << >>)
      /\ nodes[1] = Made("DIR", 0, Progs, <<Progs>>, << >>)
      /\ nodes[2] = Made("DIR", 0, Home, <<Home>>, << >>)
      /\ nodes[3] = Made("FILE", 2, Readme, <<Home, Readme>>, Welcome)
      /\ \A i \in Slots \ {0, 1, 2, 3} : nodes[i] = Blank
  BY <1>3 DEF Init, DefaultTree
<1> DEFINE P == [i \in Slots |-> nodes[i].path]
           t == [p \in {<< >>, <<Progs>>, <<Home>>, <<Home, Readme>>} |->
                    IF p = <<Home, Readme>> THEN Promise!File(Welcome) ELSE Promise!Dir]
<1>5. UsedSlots = {0, 1, 2, 3}
  <2>1. \A i \in {0, 1, 2, 3} : nodes[i].used
    BY <1>4 DEF Made
  <2>2. \A i \in Slots \ {0, 1, 2, 3} : ~nodes[i].used
    BY <1>4 DEF Blank
  <2> QED BY <1>3, <2>1, <2>2 DEF UsedSlots, InUse
<1>6. P[0] = << >> /\ P[1] = <<Progs>> /\ P[2] = <<Home>> /\ P[3] = <<Home, Readme>>
  BY <1>3, <1>4 DEF Made
<1>7. /\ EntryOf[0] = Promise!Dir /\ EntryOf[1] = Promise!Dir
      /\ EntryOf[2] = Promise!Dir /\ EntryOf[3] = Promise!File(Welcome)
  BY <1>3, <1>4 DEF Made, EntryOf, Promise!Dir, Promise!File
<1>8. <<Home, Readme>> # << >> /\ <<Home, Readme>> # <<Progs>>
      /\ <<Home, Readme>> # <<Home>>
  OBVIOUS
<1>9. Tabulates(t, UsedSlots, P, EntryOf)
  <2>1. {P[i] : i \in UsedSlots} = {<< >>, <<Progs>>, <<Home>>, <<Home, Readme>>}
    <3> HIDE DEF P
    <3> QED BY <1>5, <1>6
  <2>2. Fcn(t) /\ DOMAIN t = {P[i] : i \in UsedSlots}
    BY <2>1 DEF Fcn
  <2>3. \A i \in {0, 1, 2, 3} : t[P[i]] = EntryOf[i]
    <3> HIDE DEF P
    <3> QED BY <1>6, <1>7, <1>8
  <2> HIDE DEF t, P
  <2> QED BY <1>5, <2>2, <2>3 DEF Tabulates
<1>10. TreeOf = t
  <2> HIDE DEF t, P
  <2>1. Tabulates(TreeOf, UsedSlots, P, EntryOf)
    BY <1>2 DEF P
  <2> QED BY <1>9, <2>1, TableUnique
<1>11. (overrun \/ Doomed) = FALSE
  BY <1>2 DEF IdleFacts
<1> QED BY <1>10, <1>11 DEF Init, Promise!Init

\* Every step is a command of FileTree or is not seen there.
LEMMA StepMaps ==
  ASSUME TInv, TInv', [Next]_vars PROVE [Promise!Next]_(Promise!vars)
<1>0. Promise!Paths = Paths
  BY DEF Promise!Paths, Paths
<1>1. ASSUME Idle PROVE ~(overrun \/ Doomed)
  BY <1>1, IdleFactsAre DEF IdleFacts
<1>2. ASSUME NEW p \in Paths, Touch(p) PROVE Promise!Next
  <2>1. Promise!Create(p, Promise!File(<< >>))
    BY <1>2, CreateMaps DEF Touch, Promise!File
  <2> QED BY <1>0, <1>1, <1>2, <2>1 DEF Touch, Promise!Next
<1>3. ASSUME NEW p \in Paths, Mkdir(p) PROVE Promise!Next
  <2>1. Promise!Create(p, Promise!Dir)
    BY <1>3, CreateMaps DEF Mkdir, Promise!Dir
  <2> QED BY <1>0, <1>1, <1>3, <2>1 DEF Mkdir, Promise!Next
<1>4. ASSUME NEW p \in Paths, ChangeDir(p) PROVE Promise!Next
  <2>1. Promise!ChangeDir(p)
    BY <1>4, ChangeDirMaps
  <2> QED BY <1>0, <1>1, <1>4, <2>1 DEF ChangeDir, Promise!Next
<1>5. ASSUME NEW p \in Paths, Delete(p) PROVE Promise!Next
  <2>1. Promise!Delete(p)
    BY <1>5, DeleteMaps
  <2> QED BY <1>0, <1>1, <1>5, <2>1 DEF Delete, Promise!Next
<1>6. ASSUME NEW p \in Paths, NEW q \in Paths, Move(p, q) PROVE Promise!Next
  <2>1. \/ Promise!Move(p, q) \/ Promise!MoveUnderItself(p, q)
        \/ Promise!MoveFails(p, q)
    BY <1>6, MoveMaps
  <2> QED BY <1>0, <1>1, <1>6, <2>1 DEF Move, Promise!Next
<1>7. ASSUME NEW p \in Paths, NEW q \in Paths, Copy(p, q)
      PROVE  Promise!Next \/ UNCHANGED Promise!vars
  <2>1. Promise!Copy(p, q) \/ UNCHANGED Promise!vars
    BY <1>7, CopyMaps
  <2> QED BY <1>0, <1>1, <1>7, <2>1 DEF Copy, Promise!Next
<1>8. ASSUME NEW p \in Paths, NEW t \in LineTexts, Write(p, t)
      PROVE  Promise!Next \/ UNCHANGED Promise!vars
  <2>1. Promise!Write(p, t) \/ UNCHANGED Promise!vars
    BY <1>8, WriteMaps
  <2> QED BY <1>0, <1>1, <1>8, <2>1 DEF Write, Promise!Next
<1>9. ASSUME NEW p \in Paths, NEW t \in Texts, WriteFile(p, t) PROVE Promise!Next
  <2>1. Promise!WriteFile(p, t)
    BY <1>9, WriteFileMaps
  <2> QED BY <1>0, <1>1, <1>9, <2>1 DEF WriteFile, Promise!Next
<1>10. ASSUME NEW p \in Paths, NEW t \in Texts, AppendFile(p, t) PROVE Promise!Next
  <2>1. Promise!AppendFile(p, t)
    BY <1>10, AppendMaps
  <2> QED BY <1>0, <1>1, <1>10, <2>1 DEF AppendFile, Promise!Next
<1>11. CASE RebuildStep
  BY <1>11, RebuildMaps
<1>12. CASE PendingWrite
  <2>1. /\ ~(overrun \/ Doomed)
        /\ \/ \E p, q \in Paths : Promise!Copy(p, q)
           \/ \E p \in Paths, t \in LineTexts : Promise!Write(p, t)
    BY <1>12, PendingMaps
  <2> QED BY <1>0, <2>1 DEF Promise!Next
<1>13. CASE UNCHANGED vars
  <2>1. Linked /\ Linked'
    <3>1. (IInv /\ FreeOK => Linked)'
      BY LinkedTable, PTL
    <3> QED BY <3>1, LinkedTable DEF TInv
  <2>2. \A i \in Slots : Unwritten(i)' <=> Unwritten(i)
    BY <1>13 DEF vars, Unwritten, FileAt, Finds, HasPath
  <2>3. /\ TreeOf' = TreeOf /\ PathOf' = PathOf
        /\ \A i \in Slots : Rooted(i)' <=> Rooted(i)
    BY <1>13, <2>1, <2>2, SameTree DEF vars
  <2>4. (overrun \/ Doomed)' <=> (overrun \/ Doomed)
    BY <1>13, <2>3 DEF vars, Doomed, InUse
  <2>5. (overrun \/ Doomed)' = (overrun \/ Doomed)
    BY <2>4
  <2> QED BY <1>13, <2>3, <2>5 DEF vars, Promise!vars
<1> QED
  BY <1>2, <1>3, <1>4, <1>5, <1>6, <1>7, <1>8, <1>9, <1>10, <1>11, <1>12, <1>13
  DEF Next, Command

\* Filesystem implements FileTree: for a table of any size and any limits, each
\* command of the code, in however many steps, does to the tree that the parent
\* indices describe what FileTree promises, in one step and all or nothing.
THEOREM Implements == Spec => ImplementsFileTree
<1>1. Init => Promise!Init
  BY InitMaps
<1>2. TInv /\ TInv' /\ [Next]_vars => [Promise!Next]_(Promise!vars)
  BY StepMaps
<1> QED BY <1>1, <1>2, TreeInvariance, PTL DEF Spec, ImplementsFileTree, Promise!Spec
=============================================================================
