----------------------------- MODULE ShellProofs -----------------------------
(***************************************************************************)
(* Theorems about Shell: that a line's words reach the command as they     *)
(* were meant, and that the texts of directories are what the path code    *)
(* takes them for, for any words, characters and limits.                   *)
(***************************************************************************)
EXTENDS Shell, SequenceTheorems, WellFoundedInduction, TLAPS

-----------------------------------------------------------------------------
(***************************************************************************)
(* Induction and recursion.  What holds of a set of numbers or sequences   *)
(* takes the place of induction over a predicate.                          *)
(***************************************************************************)
\* A set of numbers that is not empty has a least one.
LEMMA LeastNumber ==
  ASSUME NEW T, T \subseteq Nat, T # {}
  PROVE  \E m \in T : \A n \in T : m <= n
<1> DEFINE R == OpToRel(<, Nat)
<1>1. PICK m \in T : \A n \in T : ~(<<n, m>> \in R)
  <2>1. IsWellFoundedOn(R, Nat)
    BY NatLessThanWellFounded
  <2> HIDE DEF R
  <2> QED BY <2>1, WFMin
<1>2. R = {ss \in Nat \X Nat : ss[1] < ss[2]}
  BY Zenon DEF OpToRel
<1> HIDE DEF R
<1>3. ASSUME NEW n \in T PROVE m <= n
  <2>1. m \in Nat /\ n \in Nat /\ ~(<<n, m>> \in R)
    BY <1>1
  <2>2. ~(n < m)
    BY <1>2, <2>1
  <2> QED BY <2>1, <2>2
<1> QED BY <1>1, <1>3

\* A set of numbers with 0 that is closed under successor has them all.
LEMMA AllNumbers ==
  ASSUME NEW S \in SUBSET Nat, 0 \in S, \A n \in S : n + 1 \in S
  PROVE  S = Nat
<1> SUFFICES ASSUME Nat \ S # {} PROVE FALSE
  OBVIOUS
<1>1. PICK m \in Nat \ S : \A n \in Nat \ S : m <= n
  BY LeastNumber
<1>2. m # 0 /\ m - 1 \in Nat
  BY <1>1
<1>3. m - 1 \in S
  BY <1>1, <1>2
<1>4. (m - 1) + 1 = m
  BY <1>1
<1> QED BY <1>1, <1>3, <1>4

\* before[d] is of a lower rank than d, and there is a first value and a step.
Descends(D, rank, before) ==
    /\ rank \in [D -> Nat] /\ before \in [D -> D]
    /\ \A d \in D : rank[d] # 0 => rank[before[d]] < rank[d]
Steps(D, V, first, step) == first \in [D -> V] /\ step \in [D \X V -> V]

\* Values can be given one after the other to the members of D, each from the
\* value of a member before it.
LEMMA Recursion ==
  ASSUME NEW D, NEW V, NEW rank, NEW before, NEW first, NEW step,
         Descends(D, rank, before), Steps(D, V, first, step)
  PROVE  \E f \in [D -> V] : \A d \in D :
            f[d] = IF rank[d] = 0 THEN first[d] ELSE step[<<d, f[before[d]]>>]
<1> DEFINE Right(f, d) ==
             f[d] = IF rank[d] = 0 THEN first[d] ELSE step[<<d, f[before[d]]>>]
           Upto(f, n) == f \in [D -> V] /\ \A d \in D : rank[d] <= n => Right(f, d)
           S == {n \in Nat : \E f : Upto(f, n)}
<1> USE DEF Descends, Steps
<1>1. 0 \in S
  <2>1. Upto(first, 0)
    OBVIOUS
  <2> HIDE DEF Upto
  <2> QED BY <2>1
<1>2. ASSUME NEW n \in S PROVE n + 1 \in S
  <2>1. PICK f : Upto(f, n)
    OBVIOUS
  <2> DEFINE g == [d \in D |-> IF rank[d] = 0 THEN first[d]
                               ELSE step[<<d, f[before[d]]>>]]
  <2>2. g \in [D -> V]
    BY <2>1
  <2>3. ASSUME NEW d \in D, rank[d] <= n + 1 PROVE Right(g, d)
    <3>1. CASE rank[d] = 0
      BY <3>1
    <3>2. CASE rank[d] # 0
      <4> DEFINE b == before[d]
      <4>1. b \in D /\ rank[b] <= n
        BY <2>3, <3>2
      <4>2. f[b] = g[b]
        BY <2>1, <4>1
      <4> QED BY <3>2, <4>1, <4>2
    <3> QED BY <3>1, <3>2
  <2>4. Upto(g, n + 1)
    BY <2>2, <2>3
  <2> HIDE DEF Upto
  <2> QED BY <2>4
<1>3. S = Nat
  <2>1. S \in SUBSET Nat
    OBVIOUS
  <2> HIDE DEF S
  <2> QED BY <1>1, <1>2, <2>1, AllNumbers
<1>4. ASSUME NEW m \in Nat, NEW n \in Nat, NEW f, NEW g, Upto(f, m), Upto(g, n),
             NEW d \in D, rank[d] <= m, rank[d] <= n
      PROVE  f[d] = g[d]
  <2> DEFINE T == {k \in Nat : \A e \in D :
                     rank[e] <= k /\ rank[e] <= m /\ rank[e] <= n => f[e] = g[e]}
  <2>0. ASSUME NEW e \in D, rank[e] <= m, rank[e] <= n PROVE Right(f, e) /\ Right(g, e)
    BY <1>4, <2>0
  <2>1. 0 \in T
    <3>1. ASSUME NEW e \in D, rank[e] <= 0, rank[e] <= m, rank[e] <= n
          PROVE  f[e] = g[e]
      <4>1. rank[e] = 0
        BY <3>1
      <4>2. Right(f, e) /\ Right(g, e)
        BY <2>0, <3>1
      <4> QED BY <4>1, <4>2
    <3> QED BY <3>1
  <2>2. ASSUME NEW k \in T PROVE k + 1 \in T
    <3> SUFFICES ASSUME NEW e \in D, rank[e] <= k + 1, rank[e] <= m, rank[e] <= n
                 PROVE  f[e] = g[e]
      OBVIOUS
    <3>0. Right(f, e) /\ Right(g, e)
      BY <2>0
    <3>1. CASE rank[e] = 0
      BY <3>0, <3>1
    <3>2. CASE rank[e] # 0
      <4>1. before[e] \in D /\ rank[before[e]] \in Nat /\ rank[before[e]] < rank[e]
        BY <3>2
      <4>2. rank[e] \in Nat
        OBVIOUS
      <4>3. rank[before[e]] <= k /\ rank[before[e]] <= m /\ rank[before[e]] <= n
        BY <4>1, <4>2
      <4>4. f[before[e]] = g[before[e]]
        BY <4>1, <4>3
      <4> QED BY <3>0, <3>2, <4>4
    <3> QED BY <3>1, <3>2
  <2>3. T = Nat
    <3>1. T \in SUBSET Nat
      OBVIOUS
    <3> HIDE DEF T
    <3> QED BY <2>1, <2>2, <3>1, AllNumbers
  <2>4. rank[d] \in T
    BY <2>3
  <2> QED BY <1>4, <2>4
<1> DEFINE At(n) == CHOOSE f : Upto(f, n)
<1>5. ASSUME NEW n \in Nat PROVE Upto(At(n), n)
  <2>1. \E f : Upto(f, n)
    BY <1>3
  <2> HIDE DEF Upto
  <2> QED BY <2>1
<1> DEFINE f == [d \in D |-> At(rank[d])[d]]
<1> HIDE DEF At
<1>6. f \in [D -> V]
  BY <1>5
<1>7. ASSUME NEW d \in D PROVE Right(f, d)
  <2> DEFINE n == rank[d]
  <2>0. n \in Nat /\ f[d] = At(n)[d]
    OBVIOUS
  <2>1. n \in Nat /\ f[d] = At(n)[d] /\ Upto(At(n), n)
    <3> HIDE DEF Upto, f, n
    <3> QED BY <1>5, <2>0
  <2>4. Right(At(n), d)
    <3> HIDE DEF f
    <3> QED BY <2>1
  <2>2. CASE n = 0
    <3> HIDE DEF f
    <3> QED BY <2>1, <2>2, <2>4
  <2>3. CASE n # 0
    <3> DEFINE b == before[d]
    <3>1. b \in D /\ rank[b] \in Nat /\ rank[b] < n
      BY <2>3
    <3>2. f[b] = At(rank[b])[b] /\ Upto(At(rank[b]), rank[b])
      BY <1>5, <3>1
    <3>3. At(rank[b])[b] = At(n)[b]
      <4>1. rank[b] <= rank[b] /\ rank[b] <= n
        BY <2>1, <3>1
      <4> HIDE DEF Upto, n, b
      <4> QED BY <1>4, <2>1, <3>1, <3>2, <4>1
    <3> HIDE DEF f
    <3> QED BY <2>1, <2>3, <2>4, <3>2, <3>3
  <2> QED BY <2>2, <2>3
<1> QED BY <1>6, <1>7

\* What holds of the empty sequence, and of a sequence with one more element at
\* its end when it holds of the sequence, holds of all of them.
LEMMA AllByLast ==
  ASSUME NEW C, NEW S \in SUBSET Seq(C), << >> \in S,
         \A s \in S, c \in C : Append(s, c) \in S
  PROVE  S = Seq(C)
<1> DEFINE T == {n \in Nat : \A s \in Seq(C) : Len(s) = n => s \in S}
<1>1. 0 \in T
  BY EmptySeq
<1>2. ASSUME NEW n \in T PROVE n + 1 \in T
  <2> SUFFICES ASSUME NEW s \in Seq(C), Len(s) = n + 1 PROVE s \in S
    OBVIOUS
  <2>1. s # << >>
    OBVIOUS
  <2>2. PICK t \in Seq(C), c \in C : s = Append(t, c)
    BY <2>1, SequenceEmptyOrAppend
  <2>3. Len(t) = n
    BY <2>2
  <2> QED BY <2>2, <2>3
<1>3. T = Nat
  <2>1. T \in SUBSET Nat
    OBVIOUS
  <2> HIDE DEF T
  <2> QED BY <1>1, <1>2, <2>1, AllNumbers
<1>4. ASSUME NEW s \in Seq(C) PROVE s \in S
  <2>1. Len(s) \in T
    BY <1>3
  <2> QED BY <2>1
<1> QED BY <1>4

\* The same with one more element at the front.
LEMMA AllByHead ==
  ASSUME NEW C, NEW S \in SUBSET Seq(C), << >> \in S,
         \A s \in Seq(C) : s # << >> /\ Tail(s) \in S => s \in S
  PROVE  S = Seq(C)
<1> DEFINE T == {n \in Nat : \A s \in Seq(C) : Len(s) = n => s \in S}
<1>1. 0 \in T
  BY EmptySeq
<1>2. ASSUME NEW n \in T PROVE n + 1 \in T
  <2> SUFFICES ASSUME NEW s \in Seq(C), Len(s) = n + 1 PROVE s \in S
    OBVIOUS
  <2>1. s # << >>
    OBVIOUS
  <2>2. Tail(s) \in Seq(C) /\ Len(Tail(s)) = n
    BY <2>1, HeadTailProperties
  <2> QED BY <2>1, <2>2
<1>3. T = Nat
  <2>1. T \in SUBSET Nat
    OBVIOUS
  <2> HIDE DEF T
  <2> QED BY <1>1, <1>2, <2>1, AllNumbers
<1>4. ASSUME NEW s \in Seq(C) PROVE s \in S
  <2>1. Len(s) \in T
    BY <1>3
  <2> QED BY <2>1
<1> QED BY <1>4

\* The front and the last element of a sequence make it up.
LEMMA FrontLast ==
  ASSUME NEW C, NEW s \in Seq(C), NEW c \in C
  PROVE  /\ Append(s, c) \in Seq(C) /\ Append(s, c) # << >>
         /\ Front(Append(s, c)) = s /\ Last(Append(s, c)) = c
<1>0. Append(s, c) # << >>
  BY AppendProperties
<1>1. /\ Append(s, c) \in Seq(C) /\ Len(Append(s, c)) = Len(s) + 1
      /\ \A i \in 1 .. Len(s) : Append(s, c)[i] = s[i]
      /\ Append(s, c)[Len(s) + 1] = c
  BY AppendProperties
<1> DEFINE t == Append(s, c)
<1> HIDE DEF t
<1>2. Len(s) \in Nat /\ Len(t) - 1 = Len(s)
  BY <1>1 DEF t
<1>3. /\ SubSeq(t, 1, Len(s)) \in Seq(C) /\ Len(SubSeq(t, 1, Len(s))) = Len(s)
      /\ \A i \in 1 .. Len(s) : SubSeq(t, 1, Len(s))[i] = s[i]
  <2>1. \A i \in 1 .. Len(s) : t[i] \in C
    BY <1>1, <1>2 DEF t
  <2> QED BY <1>1, <1>2, <2>1, SubSeqProperties DEF t
<1>4. SubSeq(t, 1, Len(s)) = s
  BY <1>3, SeqEqual
<1> QED BY <1>0, <1>1, <1>2, <1>4 DEF Front, Last, t

\* A sequence that is not empty is its front and its last element.
LEMMA HasLast ==
  ASSUME NEW C, NEW s \in Seq(C), s # << >>
  PROVE  /\ Front(s) \in Seq(C) /\ Last(s) \in C
         /\ s = Append(Front(s), Last(s)) /\ Len(Front(s)) = Len(s) - 1
<1>1. PICK t \in Seq(C), c \in C : s = Append(t, c)
  BY SequenceEmptyOrAppend
<1>2. Front(s) = t /\ Last(s) = c /\ Len(s) = Len(t) + 1
  BY <1>1, FrontLast
<1> QED BY <1>1, <1>2

\* There is a value for the empty sequence, and a step for the others.
StepsOn(C, V, first, step) == first \in V /\ step \in [Seq(C) \X V -> V]

\* A function on sequences can be given by its value for the empty one and a
\* step from the front of a sequence to the sequence.
LEMMA RecursionByLast ==
  ASSUME NEW C, NEW V, NEW first, NEW step, StepsOn(C, V, first, step)
  PROVE  \E f \in [Seq(C) -> V] : \A s \in Seq(C) :
            f[s] = IF s = << >> THEN first ELSE step[<<s, f[Front(s)]>>]
<1> DEFINE D == Seq(C)
           rank == [s \in D |-> Len(s)]
           before == [s \in D |-> IF s = << >> THEN s ELSE Front(s)]
           base == [s \in D |-> first]
<1>1. rank \in [D -> Nat] /\ base \in [D -> V] /\ step \in [D \X V -> V]
  BY DEF StepsOn
<1>2. ASSUME NEW s \in D, s # << >> PROVE Front(s) \in D /\ Len(Front(s)) < Len(s)
  <2>1. Front(s) \in D /\ Len(Front(s)) = Len(s) - 1 /\ Len(s) \in Nat
    BY <1>2, HasLast
  <2> QED BY <2>1
<1>3. before \in [D -> D]
  BY <1>2
<1>4. \A s \in D : rank[s] # 0 => rank[before[s]] < rank[s]
  BY <1>2
<1>5. \E f \in [D -> V] : \A s \in D :
         f[s] = IF rank[s] = 0 THEN base[s] ELSE step[<<s, f[before[s]]>>]
  <2>1. Descends(D, rank, before)
    BY <1>1, <1>3, <1>4 DEF Descends
  <2>2. Steps(D, V, base, step)
    BY <1>1 DEF Steps
  <2> HIDE DEF D, rank, before, base
  <2> QED BY <2>1, <2>2, Recursion
<1>6. ASSUME NEW s \in D PROVE s = << >> <=> rank[s] = 0
  BY EmptySeq
<1> QED BY <1>5, <1>6

\* A function on sequences whose step stays in V has its values there.
LEMMA ValuesByLast ==
  ASSUME NEW C, NEW V, NEW f, f = [s \in Seq(C) |-> f[s]], f[<< >>] \in V,
         \A s \in Seq(C), c \in C : f[s] \in V => f[Append(s, c)] \in V
  PROVE  f \in [Seq(C) -> V]
<1> DEFINE S == {s \in Seq(C) : f[s] \in V}
<1>1. << >> \in S
  BY EmptySeq
<1>2. ASSUME NEW s \in S, NEW c \in C PROVE Append(s, c) \in S
  OBVIOUS
<1>3. S = Seq(C)
  <2>1. S \in SUBSET Seq(C)
    OBVIOUS
  <2> HIDE DEF S
  <2> QED BY <1>1, <1>2, <2>1, AllByLast
<1> QED BY <1>3

-----------------------------------------------------------------------------
(***************************************************************************)
(* The parts of a text.                                                    *)
(***************************************************************************)
\* The characters the code looks for are characters, and they differ.
LEMMA Characters ==
  /\ Slash \in Chars /\ Quote \in Chars /\ Dot \in Chars /\ Blanks \subseteq Chars
  /\ Quote \notin Blanks /\ Slash # Dot /\ RootText \in Texts
<1>1. Slash \in Chars /\ Quote \in Chars /\ Dot \in Chars /\ Blanks \subseteq Chars
  BY WordsAssumption
<1>2. Quote \notin Blanks /\ Slash # Dot
  BY DEF Quote, Blanks, Slash, Dot
<1> QED BY <1>1, <1>2 DEF RootText, Texts

\* What a character does to the parts of the text before it.
Scanned(raw, parts) ==
    CASE Last(raw) = Slash -> parts
      [] Last(raw) # Slash /\ GoesOn(raw, parts) ->
             Append(Front(parts), Append(Last(parts), Last(raw)))
      [] OTHER -> Append(parts, <<Last(raw)>>)

\* Parts is what its definition says, for every text.
LEMMA PartsDef ==
  /\ Parts \in [Texts -> Seq(Texts)]
  /\ Parts[<< >>] = << >>
  /\ \A raw \in Texts, c \in Chars :
        Parts[Append(raw, c)] = Scanned(Append(raw, c), Parts[raw])
<1> USE DEF Texts
<1> DEFINE V == Seq(Texts)
           step == [p \in Texts \X V |->
                      IF p[1] = << >> THEN << >> ELSE Scanned(p[1], p[2])]
           Is(g) == g = [raw \in Texts |->
             IF raw = << >> THEN << >> ELSE Scanned(raw, g[Front(raw)])]
<1>1. ASSUME NEW raw \in Texts, raw # << >>, NEW parts \in V
      PROVE  Scanned(raw, parts) \in V
  <2>1. Last(raw) \in Chars
    BY <1>1, HasLast
  <2>2. Append(parts, <<Last(raw)>>) \in V
    BY <2>1
  <2>3. ASSUME GoesOn(raw, parts)
        PROVE  Append(Front(parts), Append(Last(parts), Last(raw))) \in V
    <3>1. parts # << >>
      BY <2>3 DEF GoesOn
    <3>2. Front(parts) \in V /\ Last(parts) \in Texts
      BY <3>1, HasLast
    <3> QED BY <2>1, <3>2
  <2> QED BY <2>2, <2>3 DEF Scanned
<1>2. \E f : Is(f)
  <2>1. step \in [Texts \X V -> V]
    BY <1>1
  <2>2. PICK f \in [Texts -> V] : \A raw \in Texts :
           f[raw] = IF raw = << >> THEN << >> ELSE step[<<raw, f[Front(raw)]>>]
    <3>1. StepsOn(Chars, V, << >>, step)
      BY <2>1 DEF StepsOn
    <3> HIDE DEF V, step
    <3> QED BY <3>1, RecursionByLast
  <2>3. ASSUME NEW raw \in Texts
        PROVE  f[raw] = IF raw = << >> THEN << >> ELSE Scanned(raw, f[Front(raw)])
    <3>1. raw # << >> => Front(raw) \in Texts
      BY HasLast
    <3> HIDE DEF V, Texts
    <3> QED BY <2>2, <3>1
  <2>4. Is(f)
    BY <2>3
  <2> QED BY <2>4
<1>3. Is(Parts)
  <2>1. Parts = CHOOSE g : Is(g)
    BY DEF Parts, Scanned
  <2> HIDE DEF Is
  <2> QED BY <1>2, <2>1
<1>4. Parts[<< >>] = << >>
  <2>1. << >> \in Texts
    OBVIOUS
  <2> QED BY <1>3, <2>1
<1>5. ASSUME NEW raw \in Texts, NEW c \in Chars
      PROVE  Parts[Append(raw, c)] = Scanned(Append(raw, c), Parts[raw])
  <2>1. Append(raw, c) \in Texts /\ Append(raw, c) # << >> /\ Front(Append(raw, c)) = raw
    BY FrontLast
  <2> QED BY <1>3, <2>1
<1>6. Parts \in [Texts -> V]
  <2>1. Parts = [raw \in Texts |-> Parts[raw]]
    BY <1>3
  <2>2. ASSUME NEW raw \in Texts, NEW c \in Chars, Parts[raw] \in V
        PROVE  Parts[Append(raw, c)] \in V
    <3>1. Append(raw, c) \in Texts /\ Append(raw, c) # << >>
      BY FrontLast
    <3> HIDE DEF V, Texts
    <3> QED BY <1>1, <1>5, <2>2, <3>1
  <2>3. Parts[<< >>] \in V
    BY <1>4
  <2> HIDE DEF V
  <2> QED BY <2>1, <2>2, <2>3, ValuesByLast
<1> QED BY <1>4, <1>5, <1>6

\* The next character would go on with the last part of raw.
Grows(raw) ==
    /\ raw # << >> /\ Last(raw) # Slash
    /\ Parts[raw] # << >> /\ Len(Last(Parts[raw])) < MaxName

\* What one more character does: nothing if it is a slash, or it goes on with
\* the last part, or begins another one.
LEMMA PartsStep ==
  ASSUME NEW raw \in Texts, NEW c \in Chars
  PROVE  Parts[Append(raw, c)] =
            IF c = Slash THEN Parts[raw]
            ELSE IF Grows(raw)
                 THEN Append(Front(Parts[raw]), Append(Last(Parts[raw]), c))
                 ELSE Append(Parts[raw], <<c>>)
<1> DEFINE t == Append(raw, c)
           ps == Parts[raw]
<1>1. t \in Texts /\ Last(t) = c
  BY FrontLast DEF Texts
<1>2. Parts[t] = Scanned(t, ps)
  BY PartsDef
<1>3. GoesOn(t, ps) <=> Grows(raw)
  <2>1. CASE raw = << >>
    <3>1. ps = << >>
      BY <2>1, PartsDef
    <3> QED BY <2>1, <3>1 DEF GoesOn, Grows
  <2>2. CASE raw # << >>
    <3>1. Len(t) - 1 = Len(raw) /\ Len(raw) \in 1 .. Len(raw) /\ t[Len(raw)] = raw[Len(raw)]
      BY <2>2, AppendProperties, LenProperties, EmptySeq DEF Texts
    <3>2. t[Len(t) - 1] = Last(raw)
      BY <3>1 DEF Last
    <3> HIDE DEF t
    <3> QED BY <2>2, <3>2 DEF GoesOn, Grows
  <2> QED BY <2>1, <2>2
<1> HIDE DEF t, ps
<1>4. CASE c = Slash
  BY <1>1, <1>2, <1>4 DEF Scanned, t, ps
<1>5. CASE c # Slash /\ Grows(raw)
  <2>1. Parts[t] = Append(Front(ps), Append(Last(ps), c))
    BY <1>1, <1>2, <1>3, <1>5 DEF Scanned
  <2> QED BY <1>5, <2>1 DEF t, ps
<1>6. CASE c # Slash /\ ~Grows(raw)
  <2>1. Parts[t] = Append(ps, <<c>>)
    BY <1>1, <1>2, <1>3, <1>6 DEF Scanned
  <2> QED BY <1>6, <2>1 DEF t, ps
<1> QED BY <1>4, <1>5, <1>6

\* A text that does not end in a slash has a part.
LEMMA HasPart ==
  ASSUME NEW raw \in Texts, raw # << >>, Last(raw) # Slash
  PROVE  Parts[raw] # << >>
<1> DEFINE t == Front(raw)
           c == Last(raw)
<1>1. t \in Texts /\ c \in Chars /\ raw = Append(t, c)
  BY HasLast DEF Texts
<1>2. Parts[t] \in Seq(Texts)
  BY <1>1, PartsDef
<1>3. CASE Grows(t)
  <2> DEFINE w == Append(Last(Parts[t]), c)
  <2>1. Parts[t] # << >>
    BY <1>3 DEF Grows
  <2>2. Front(Parts[t]) \in Seq(Texts) /\ Last(Parts[t]) \in Texts
    BY <1>2, <2>1, HasLast
  <2>3. w \in Texts
    BY <1>1, <2>2 DEF Texts
  <2>4. Parts[raw] = Append(Front(Parts[t]), w)
    BY <1>1, <1>3, PartsStep
  <2> HIDE DEF w
  <2> QED BY <2>2, <2>3, <2>4, AppendProperties
<1>4. CASE ~Grows(t)
  <2>1. Parts[raw] = Append(Parts[t], <<c>>)
    BY <1>1, <1>4, PartsStep
  <2>2. <<c>> \in Texts
    BY <1>1 DEF Texts
  <2> QED BY <1>2, <2>1, <2>2, AppendProperties
<1> QED BY <1>3, <1>4

\* Appending to a concatenation is appending to its second half.
JoinsOn(s, t, c) == Append(s \o t, c) = s \o Append(t, c)

\* It always is.
LEMMA AppendJoin ==
  ASSUME NEW C, NEW s \in Seq(C), NEW t \in Seq(C), NEW c \in C
  PROVE  JoinsOn(s, t, c)
BY DEF JoinsOn

\* The end of a concatenation is the end of its second half.
LEMMA JoinLast ==
  ASSUME NEW C, NEW s \in Seq(C), NEW t \in Seq(C), t # << >>
  PROVE  Front(s \o t) = s \o Front(t) /\ Last(s \o t) = Last(t) /\ s \o t # << >>
<1>1. Front(t) \in Seq(C) /\ Last(t) \in C /\ t = Append(Front(t), Last(t))
  BY HasLast
<1> DEFINE u == Front(t)
           c == Last(t)
<1> HIDE DEF u, c
<1>2. u \in Seq(C) /\ c \in C /\ t = Append(u, c)
  BY <1>1 DEF u, c
<1>3. s \o t = Append(s \o u, c) /\ s \o u \in Seq(C)
  BY <1>2, AppendJoin DEF JoinsOn
<1>4. Front(s \o t) = s \o u /\ Last(s \o t) = c /\ s \o t # << >>
  <2> DEFINE v == s \o u
  <2>1. v \in Seq(C) /\ s \o t = Append(v, c)
    BY <1>3
  <2> HIDE DEF v
  <2>2. Front(Append(v, c)) = v /\ Last(Append(v, c)) = c /\ Append(v, c) # << >>
    BY <1>2, <2>1, FrontLast
  <2> QED BY <2>1, <2>2, Zenon DEF v
<1> QED BY <1>4 DEF u, c

\* The parts of two texts with a slash between them are those of the one and
\* then those of the other.
LEMMA PartsJoin ==
  ASSUME NEW x \in Texts, NEW y \in Texts
  PROVE  Parts[x \o <<Slash>> \o y] = Parts[x] \o Parts[y]
<1> DEFINE b == x \o <<Slash>>
           S == {z \in Texts : Parts[b \o z] = Parts[x] \o Parts[z]}
<1>1. b \in Texts /\ b = Append(x, Slash) /\ Last(b) = Slash /\ b # << >>
  <2>1. Slash \in Chars
    BY Characters
  <2>2. b = Append(x, Slash)
    BY <2>1, AppendIsConcat DEF Texts
  <2> QED BY <2>1, <2>2, FrontLast DEF Texts
<1> HIDE DEF b
<1>2. Parts[x] \in Seq(Texts) /\ Parts[b] = Parts[x]
  BY <1>1, Characters, PartsStep, PartsDef
<1>3. << >> \in S
  BY <1>1, <1>2, PartsDef, ConcatEmptySeq DEF Texts
<1>4. ASSUME NEW z \in S, NEW c \in Chars PROVE Append(z, c) \in S
  <2> DEFINE t == b \o z
             p == Parts[x]
             q == Parts[z]
  <2>1. z \in Texts /\ t \in Texts /\ Append(z, c) \in Texts /\ Append(t, c) = b \o Append(z, c)
    <3>1. z \in Texts /\ t \in Texts /\ Append(z, c) \in Texts
      BY <1>1 DEF Texts
    <3>2. b \in Seq(Chars) /\ z \in Seq(Chars) /\ c \in Chars
      BY <1>1 DEF Texts
    <3>3. JoinsOn(b, z, c)
      BY <3>2, AppendJoin
    <3>4. Append(b \o z, c) = b \o Append(z, c)
      BY <3>3, Zenon DEF JoinsOn
    <3> QED BY <3>1, <3>4
  <2>2. p \in Seq(Texts) /\ q \in Seq(Texts) /\ Parts[t] = p \o q
    BY <1>2, <2>1, PartsDef
  <2>3. Parts[Append(t, c)] = p \o Parts[Append(z, c)]
    <3>1. Grows(t) <=> Grows(z)
      <4>1. CASE z = << >>
        <5>1. t = b
          BY <1>1, <4>1, ConcatEmptySeq DEF Texts
        <5> QED BY <1>1, <4>1, <5>1 DEF Grows
      <4>2. CASE z # << >>
        <5>1. Last(t) = Last(z) /\ t # << >>
          BY <1>1, <2>1, <4>2, JoinLast DEF Texts
        <5>2. CASE Last(z) = Slash
          BY <5>1, <5>2 DEF Grows
        <5>3. CASE Last(z) # Slash
          <6>1. q # << >>
            BY <2>1, <4>2, <5>3, HasPart
          <6>2. Last(Parts[t]) = Last(q) /\ Parts[t] # << >>
            BY <2>2, <6>1, JoinLast
          <6> HIDE DEF t, q
          <6> QED BY <4>2, <5>1, <6>1, <6>2 DEF Grows, q
        <5> QED BY <5>2, <5>3
      <4> QED BY <4>1, <4>2
    <3> HIDE DEF t, p
    <3>2. CASE c = Slash
      BY <2>1, <2>2, <3>2, PartsStep
    <3>3. CASE c # Slash /\ Grows(z)
      <4>1. q # << >>
        BY <3>3 DEF Grows
      <4> DEFINE w == Append(Last(q), c)
      <4>2. Front(q) \in Seq(Texts) /\ Last(q) \in Texts /\ w \in Texts
        BY <2>2, <4>1, HasLast DEF Texts
      <4>3. Parts[Append(z, c)] = Append(Front(q), w)
        BY <2>1, <3>3, PartsStep
      <4>4. Front(p \o q) = p \o Front(q) /\ Last(p \o q) = Last(q)
        BY <2>2, <4>1, JoinLast
      <4>5. Parts[Append(t, c)] = Append(p \o Front(q), w)
        <5>1. Parts[Append(t, c)] = Append(Front(Parts[t]), Append(Last(Parts[t]), c))
          BY <2>1, <3>1, <3>3, PartsStep
        <5> QED BY <2>2, <4>4, <5>1, Zenon
      <4>6. JoinsOn(p, Front(q), w)
        BY <2>2, <4>2, AppendJoin
      <4> QED BY <4>3, <4>5, <4>6, Zenon DEF JoinsOn
    <3>4. CASE c # Slash /\ ~Grows(z)
      <4>1. <<c>> \in Texts
        BY DEF Texts
      <4>2. Parts[Append(z, c)] = Append(q, <<c>>)
        BY <2>1, <3>4, PartsStep
      <4>3. Parts[Append(t, c)] = Append(p \o q, <<c>>)
        BY <2>1, <2>2, <3>1, <3>4, PartsStep
      <4>4. JoinsOn(p, q, <<c>>)
        BY <2>2, <4>1, AppendJoin
      <4> QED BY <4>2, <4>3, <4>4, Zenon DEF JoinsOn
    <3> QED BY <3>2, <3>3, <3>4
  <2> QED BY <2>1, <2>3
<1>5. S = Texts
  <2>1. S \in SUBSET Seq(Chars)
    BY DEF Texts
  <2> HIDE DEF S
  <2> QED BY <1>3, <1>4, <2>1, AllByLast DEF Texts
<1>6. b \o y = x \o <<Slash>> \o y
  BY DEF b
<1> QED BY <1>5, <1>6

\* What a part can be, and what of it can be a component of a path.
Pieces == {w \in Seq(Chars \ {Slash}) : Len(w) \in 1 .. MaxName}
Components == Pieces \ {<<Dot>>, <<Dot, Dot>>}

\* Parts are texts, and so is what is made of fewer characters.
LEMMA PiecesAreTexts == Pieces \subseteq Texts /\ Components \subseteq Pieces
BY SeqMonotonic DEF Pieces, Components, Texts

\* One value makes a sequence of which it is the end.
LEMMA Single ==
  ASSUME NEW C, NEW w \in C
  PROVE  <<w>> = Append(<< >>, w) /\ Front(<<w>>) = << >> /\ Last(<<w>>) = w
<1>1. << >> \in Seq(C) /\ <<w>> = Append(<< >>, w)
  OBVIOUS
<1>2. Front(Append(<< >>, w)) = << >> /\ Last(Append(<< >>, w)) = w
  BY <1>1, FrontLast
<1> QED BY <1>1, <1>2

\* No part is empty, has a slash in it, or is longer than a name.
LEMMA PartsClean == ASSUME NEW raw \in Texts PROVE Parts[raw] \in Seq(Pieces)
<1> DEFINE S == {t \in Texts : Parts[t] \in Seq(Pieces)}
<1>1. << >> \in S
  <2>1. Parts[<< >>] = << >> /\ << >> \in Texts /\ << >> \in Seq(Pieces)
    BY PartsDef DEF Texts
  <2> QED BY <2>1
<1>2. ASSUME NEW t \in S, NEW c \in Chars PROVE Append(t, c) \in S
  <2> DEFINE ps == Parts[t]
  <2>1. t \in Texts /\ Append(t, c) \in Texts /\ ps \in Seq(Pieces)
    BY DEF Texts
  <2>2. CASE c = Slash
    BY <2>1, <2>2, PartsStep
  <2>3. CASE c # Slash /\ Grows(t)
    <3>1. ps # << >> /\ Len(Last(ps)) < MaxName
      BY <2>3 DEF Grows
    <3>2. Front(ps) \in Seq(Pieces) /\ Last(ps) \in Pieces
      BY <2>1, <3>1, HasLast
    <3> DEFINE w == Last(ps)
    <3>3. w \in Seq(Chars \ {Slash}) /\ Len(w) \in 1 .. MaxName /\ Len(w) < MaxName
          /\ MaxName \in Nat
      BY <3>1, <3>2, LimitsAssumption DEF Pieces
    <3>4. Append(w, c) \in Pieces
      <4> HIDE DEF w
      <4> QED BY <2>3, <3>3, AppendProperties DEF Pieces
    <3>5. Parts[Append(t, c)] = Append(Front(ps), Append(w, c))
      BY <2>1, <2>3, PartsStep
    <3>6. Parts[Append(t, c)] \in Seq(Pieces)
      <4> DEFINE u == Append(w, c)
                 v == Front(ps)
      <4> HIDE DEF u, v
      <4>1. u \in Pieces /\ v \in Seq(Pieces)
        BY <3>2, <3>4 DEF u, v
      <4>2. Append(v, u) \in Seq(Pieces)
        BY <4>1, AppendProperties
      <4>3. Parts[Append(t, c)] = Append(v, u)
        BY <3>5 DEF u, v
      <4> QED BY <4>2, <4>3, Zenon
    <3> QED BY <2>1, <3>6
  <2>4. CASE c # Slash /\ ~Grows(t)
    <3>1. <<c>> \in Pieces
      BY <2>4, LimitsAssumption DEF Pieces
    <3>2. Parts[Append(t, c)] = Append(ps, <<c>>)
      BY <2>1, <2>4, PartsStep
    <3>3. Append(ps, <<c>>) \in Seq(Pieces)
      <4> HIDE DEF ps
      <4> QED BY <2>1, <3>1, AppendProperties
    <3> HIDE DEF ps
    <3>4. Parts[Append(t, c)] \in Seq(Pieces)
      BY <3>2, <3>3, Zenon
    <3> QED BY <2>1, <3>4
  <2> QED BY <2>2, <2>3, <2>4
<1>3. S = Texts
  <2>1. S \in SUBSET Seq(Chars)
    BY DEF Texts
  <2> HIDE DEF S
  <2> QED BY <1>1, <1>2, <2>1, AllByLast DEF Texts
<1> QED BY <1>3

\* A name is its own only part.
LEMMA OnePart == ASSUME NEW w \in Pieces PROVE Parts[w] = <<w>>
<1> DEFINE A == Chars \ {Slash}
           S == {t \in Seq(A) : Len(t) <= MaxName =>
                   Parts[t] = IF t = << >> THEN << >> ELSE <<t>>}
<1>1. << >> \in S
  BY PartsDef
<1>2. ASSUME NEW t \in S, NEW c \in A PROVE Append(t, c) \in S
  <2>1. /\ t \in Seq(A) /\ t \in Texts /\ c \in Chars /\ c # Slash
        /\ Append(t, c) \in Seq(A) /\ Append(t, c) # << >>
        /\ Append(t, c) \in Texts /\ Len(Append(t, c)) = Len(t) + 1
        /\ Len(t) \in Nat /\ MaxName \in Nat
    BY SeqMonotonic, AppendProperties, LimitsAssumption DEF Texts
  <2> DEFINE u == Append(t, c)
  <2> SUFFICES ASSUME Len(t) < MaxName PROVE Parts[u] = <<u>>
    <3>1. u \in Seq(A) /\ u # << >> /\ (Len(u) <= MaxName => Len(t) < MaxName)
      BY <2>1
    <3>2. u \in S
      <4> HIDE DEF u
      <4> QED BY <3>1
    <3> QED BY <3>2
  <2>2. CASE t = << >>
    <3>1. Parts[t] = << >> /\ ~Grows(t) /\ Append(t, c) = <<c>>
      BY <2>2, PartsDef DEF Grows
    <3>2. Parts[Append(t, c)] = Append(<< >>, <<c>>)
      BY <2>1, <3>1, PartsStep
    <3> QED BY <3>1, <3>2
  <2>3. CASE t # << >>
    <3>1. Parts[t] = <<t>> /\ Last(t) \in A
      BY <2>1, <2>3, HasLast
    <3>2. Front(<<t>>) = << >> /\ Last(<<t>>) = t
      BY <2>1, Single
    <3>3. Grows(t)
      BY <2>3, <3>1, <3>2 DEF Grows
    <3>4. Parts[Append(t, c)] = Append(<< >>, Append(t, c))
      BY <2>1, <3>1, <3>2, <3>3, PartsStep
    <3>5. Append(<< >>, Append(t, c)) = <<Append(t, c)>>
      BY <2>1, Single
    <3> QED BY <3>4, <3>5
  <2> QED BY <2>2, <2>3
<1>3. S = Seq(A)
  <2>1. S \in SUBSET Seq(A)
    OBVIOUS
  <2> HIDE DEF S, A
  <2> QED BY <1>1, <1>2, <2>1, AllByLast
<1>4. w \in S /\ w # << >> /\ Len(w) <= MaxName
  BY <1>3, LimitsAssumption DEF Pieces
<1> QED BY <1>4

-----------------------------------------------------------------------------
(***************************************************************************)
(* Walking the parts, and the text of what they come to.                   *)
(***************************************************************************)
\* Without its last element a sequence is one of the same things.
LEMMA FrontSeq == ASSUME NEW C, NEW s \in Seq(C) PROVE Front(s) \in Seq(C)
<1>1. CASE s = << >>
  BY <1>1 DEF Front
<1>2. CASE s # << >>
  BY <1>2, HasLast
<1> QED BY <1>1, <1>2

\* A step of the walk adds the part, takes the last component away, or neither.
LEMMA WalkStep ==
  ASSUME NEW path, NEW w
  PROVE  Walk(path, w) = IF w = <<Dot>> THEN path
                         ELSE IF w = <<Dot, Dot>> THEN Front(path)
                         ELSE IF Len(path) < MaxDepth THEN Append(path, w)
                         ELSE path
<1>1. <<Dot>> # <<Dot, Dot>>
  OBVIOUS
<1> QED BY <1>1 DEF Walk, Front

\* Walked is what its definition says.
LEMMA WalkedDef ==
  /\ Walked \in [Seq(Texts) -> Seq(Texts)]
  /\ Walked[<< >>] = << >>
  /\ \A p \in Seq(Texts), w \in Texts : Walked[Append(p, w)] = Walk(Walked[p], w)
<1> DEFINE V == Seq(Texts)
           step == [p \in V \X V |->
                      IF p[1] = << >> THEN << >> ELSE Walk(p[2], Last(p[1]))]
           Is(g) == g = [p \in V |->
                      IF p = << >> THEN << >> ELSE Walk(g[Front(p)], Last(p))]
<1>1. ASSUME NEW q \in V, NEW w \in Texts PROVE Walk(q, w) \in V
  <2>1. Front(q) \in V /\ Append(q, w) \in V
    BY FrontSeq
  <2> QED BY <2>1, WalkStep
<1>2. \E f : Is(f)
  <2>1. step \in [V \X V -> V]
    <3>1. ASSUME NEW p \in V, NEW q \in V
          PROVE  (IF p = << >> THEN << >> ELSE Walk(q, Last(p))) \in V
      <4>1. p # << >> => Last(p) \in Texts
        BY HasLast
      <4> QED BY <1>1, <4>1
    <3> QED BY <3>1
  <2>2. PICK f \in [V -> V] : \A p \in V :
           f[p] = IF p = << >> THEN << >> ELSE step[<<p, f[Front(p)]>>]
    <3>1. StepsOn(Texts, V, << >>, step)
      BY <2>1 DEF StepsOn
    <3> HIDE DEF step
    <3> QED BY <3>1, RecursionByLast
  <2>3. ASSUME NEW p \in V
        PROVE  f[p] = IF p = << >> THEN << >> ELSE Walk(f[Front(p)], Last(p))
    <3>1. p # << >> => Front(p) \in V
      BY HasLast
    <3> HIDE DEF V
    <3> QED BY <2>2, <3>1
  <2>4. Is(f)
    BY <2>3
  <2> QED BY <2>4
<1>3. Is(Walked)
  <2>1. Walked = CHOOSE g : Is(g)
    BY DEF Walked
  <2> HIDE DEF Is
  <2> QED BY <1>2, <2>1
<1>4. Walked[<< >>] = << >>
  <2>1. << >> \in V
    OBVIOUS
  <2> QED BY <1>3, <2>1
<1>5. ASSUME NEW p \in V, NEW w \in Texts
      PROVE  Walked[Append(p, w)] = Walk(Walked[p], w)
  <2>1. /\ Append(p, w) \in V /\ Append(p, w) # << >>
        /\ Front(Append(p, w)) = p /\ Last(Append(p, w)) = w
    BY FrontLast
  <2> QED BY <1>3, <2>1
<1>6. Walked \in [V -> V]
  <2>1. Walked = [p \in V |-> Walked[p]]
    BY <1>3
  <2>2. ASSUME NEW p \in V, NEW w \in Texts, Walked[p] \in V
        PROVE  Walked[Append(p, w)] \in V
    BY <1>1, <1>5, <2>2
  <2>3. Walked[<< >>] \in V
    BY <1>4
  <2> QED BY <2>1, <2>2, <2>3, ValuesByLast
<1> QED BY <1>4, <1>5, <1>6

\* Slashed is what its definition says.
LEMMA SlashedDef ==
  /\ Slashed \in [Seq(Texts) -> Texts]
  /\ Slashed[<< >>] = << >>
  /\ \A p \in Seq(Texts), w \in Texts :
        Slashed[Append(p, w)] = Slashed[p] \o <<Slash>> \o w
<1> DEFINE V == Seq(Texts)
           step == [p \in V \X Texts |->
                      IF p[1] = << >> THEN << >> ELSE p[2] \o <<Slash>> \o Last(p[1])]
           Is(g) == g = [p \in V |->
                      IF p = << >> THEN << >> ELSE g[Front(p)] \o <<Slash>> \o Last(p)]
<1>1. ASSUME NEW t \in Texts, NEW w \in Texts PROVE t \o <<Slash>> \o w \in Texts
  BY Characters DEF Texts
<1>2. \E f : Is(f)
  <2>1. step \in [V \X Texts -> Texts]
    <3>1. ASSUME NEW p \in V, NEW t \in Texts
          PROVE  (IF p = << >> THEN << >> ELSE t \o <<Slash>> \o Last(p)) \in Texts
      <4>1. p # << >> => Last(p) \in Texts
        BY HasLast
      <4>2. << >> \in Texts
        BY DEF Texts
      <4> QED BY <1>1, <4>1, <4>2
    <3> QED BY <3>1
  <2>2. PICK f \in [V -> Texts] : \A p \in V :
           f[p] = IF p = << >> THEN << >> ELSE step[<<p, f[Front(p)]>>]
    <3>1. StepsOn(Texts, Texts, << >>, step)
      BY <2>1 DEF StepsOn, Texts
    <3> HIDE DEF step
    <3> QED BY <3>1, RecursionByLast
  <2>3. ASSUME NEW p \in V
        PROVE  f[p] = IF p = << >> THEN << >> ELSE f[Front(p)] \o <<Slash>> \o Last(p)
    <3>1. p # << >> => Front(p) \in V
      BY HasLast
    <3> HIDE DEF V
    <3> QED BY <2>2, <3>1
  <2>4. Is(f)
    BY <2>3
  <2> QED BY <2>4
<1>3. Is(Slashed)
  <2>1. Slashed = CHOOSE g : Is(g)
    BY DEF Slashed
  <2> HIDE DEF Is
  <2> QED BY <1>2, <2>1
<1>4. Slashed[<< >>] = << >>
  <2>1. << >> \in V
    OBVIOUS
  <2> QED BY <1>3, <2>1
<1>5. ASSUME NEW p \in V, NEW w \in Texts
      PROVE  Slashed[Append(p, w)] = Slashed[p] \o <<Slash>> \o w
  <2>1. /\ Append(p, w) \in V /\ Append(p, w) # << >>
        /\ Front(Append(p, w)) = p /\ Last(Append(p, w)) = w
    BY FrontLast
  <2> QED BY <1>3, <2>1
<1>6. Slashed \in [V -> Texts]
  <2>1. Slashed = [p \in V |-> Slashed[p]]
    BY <1>3
  <2>2. ASSUME NEW p \in V, NEW w \in Texts, Slashed[p] \in Texts
        PROVE  Slashed[Append(p, w)] \in Texts
    BY <1>1, <1>5, <2>2
  <2>3. Slashed[<< >>] \in Texts
    BY <1>4 DEF Texts
  <2> QED BY <2>1, <2>2, <2>3, ValuesByLast
<1> QED BY <1>4, <1>5, <1>6

\* What the walk over the parts of a text comes to: names and not steps, as
\* many as there may be.
Canonical == {path \in Seq(Components) : Len(path) <= MaxDepth}

\* The walk over parts comes to such a path.
LEMMA WalkedCanonical == ASSUME NEW p \in Seq(Pieces) PROVE Walked[p] \in Canonical
<1> DEFINE S == {q \in Seq(Pieces) : Walked[q] \in Canonical}
<1>1. << >> \in S
  <2>1. << >> \in Seq(Pieces) /\ << >> \in Canonical
    BY LimitsAssumption DEF Canonical
  <2> QED BY <2>1, WalkedDef
<1>2. ASSUME NEW q \in S, NEW w \in Pieces PROVE Append(q, w) \in S
  <2> DEFINE path == Walked[q]
  <2>1. q \in Seq(Texts) /\ w \in Texts
    BY PiecesAreTexts, SeqMonotonic
  <2>2. Walked[Append(q, w)] = Walk(path, w)
    BY <2>1, WalkedDef
  <2>3. path \in Seq(Components) /\ Len(path) \in Nat /\ Len(path) <= MaxDepth
        /\ MaxDepth \in Nat
    BY LimitsAssumption DEF Canonical
  <2>4. Front(path) \in Canonical
    <3>1. CASE path = << >>
      BY <3>1, LimitsAssumption DEF Front, Canonical
    <3>2. CASE path # << >>
      <4>1. Front(path) \in Seq(Components) /\ Len(Front(path)) = Len(path) - 1
        BY <2>3, <3>2, HasLast
      <4> QED BY <2>3, <4>1 DEF Canonical
    <3> QED BY <3>1, <3>2
  <2>5. ASSUME w \in Components, Len(path) < MaxDepth PROVE Append(path, w) \in Canonical
    <3> HIDE DEF path
    <3> QED BY <2>3, <2>5, AppendProperties DEF Canonical
  <2>6. Walk(path, w) \in Canonical
    <3>1. path \in Canonical
      OBVIOUS
    <3>2. w \notin {<<Dot>>, <<Dot, Dot>>} => w \in Components
      BY DEF Components
    <3> HIDE DEF path
    <3> QED BY <2>4, <2>5, <3>1, <3>2, WalkStep
  <2> QED BY <2>2, <2>6
<1>3. S = Seq(Pieces)
  <2>1. S \in SUBSET Seq(Pieces)
    OBVIOUS
  <2> HIDE DEF S
  <2> QED BY <1>1, <1>2, <2>1, AllByLast
<1> QED BY <1>3

\* A walk over components is the path they make.
LEMMA WalkedSame == ASSUME NEW path \in Canonical PROVE Walked[path] = path
<1> DEFINE S == {q \in Seq(Components) : Len(q) <= MaxDepth => Walked[q] = q}
<1>1. << >> \in S
  BY WalkedDef
<1>2. ASSUME NEW q \in S, NEW w \in Components PROVE Append(q, w) \in S
  <2>1. q \in Seq(Texts) /\ w \in Texts /\ w \notin {<<Dot>>, <<Dot, Dot>>}
    BY PiecesAreTexts, SeqMonotonic DEF Components
  <2> DEFINE u == Append(q, w)
  <2>2. u \in Seq(Components) /\ Len(u) = Len(q) + 1 /\ Len(q) \in Nat /\ MaxDepth \in Nat
    BY AppendProperties, LimitsAssumption
  <2>3. Walked[u] = Walk(Walked[q], w)
    BY <2>1, WalkedDef
  <2>4. Len(q) < MaxDepth => Walked[u] = u
    BY <2>1, <2>2, <2>3, WalkStep
  <2>5. u \in S
    <3> HIDE DEF u
    <3> QED BY <2>2, <2>4
  <2> QED BY <2>5
<1>3. S = Seq(Components)
  <2>1. S \in SUBSET Seq(Components)
    OBVIOUS
  <2> HIDE DEF S
  <2> QED BY <1>1, <1>2, <2>1, AllByLast
<1> QED BY <1>3 DEF Canonical

\* Where a walk goes on to depends on where it has come to, and not on the way.
LEMMA WalkedOn ==
  ASSUME NEW p \in Seq(Texts), NEW q \in Seq(Texts), Walked[p] = Walked[q],
         NEW r \in Seq(Texts)
  PROVE  Walked[p \o r] = Walked[q \o r]
<1> DEFINE S == {t \in Seq(Texts) : Walked[p \o t] = Walked[q \o t]}
<1>1. << >> \in S
  BY ConcatEmptySeq
<1>2. ASSUME NEW t \in S, NEW w \in Texts PROVE Append(t, w) \in S
  <2>1. t \in Seq(Texts) /\ Walked[p \o t] = Walked[q \o t]
    OBVIOUS
  <2>2. ASSUME NEW x \in Seq(Texts) PROVE Walked[x \o Append(t, w)] = Walk(Walked[x \o t], w)
    <3> HIDE DEF S
    <3>1. JoinsOn(x, t, w)
      BY <2>1, AppendJoin
    <3> DEFINE y == x \o t
    <3>2. y \in Seq(Texts)
      BY <2>1
    <3> HIDE DEF y
    <3>3. Walked[Append(y, w)] = Walk(Walked[y], w)
      BY <3>2, WalkedDef
    <3> QED BY <3>1, <3>3, Zenon DEF y, JoinsOn
  <2>3. Walked[p \o Append(t, w)] = Walked[q \o Append(t, w)]
    <3> HIDE DEF S
    <3> QED BY <2>1, <2>2, Zenon
  <2> QED BY <2>3
<1>3. S = Seq(Texts)
  <2>1. S \in SUBSET Seq(Texts)
    OBVIOUS
  <2> HIDE DEF S
  <2> QED BY <1>1, <1>2, <2>1, AllByLast
<1> QED BY <1>3

\* The text of a path is a text, and its parts are the path.
LEMMA TextParts ==
  ASSUME NEW path \in Canonical
  PROVE  Text(path) \in Texts /\ Text(path) # << >> /\ Parts[Text(path)] = path
<1> DEFINE S == {q \in Seq(Components) : /\ Parts[Slashed[q]] = q
                                         /\ q # << >> => Slashed[q] # << >>}
<1>1. << >> \in S
  BY SlashedDef, PartsDef
<1>2. ASSUME NEW q \in S, NEW w \in Components PROVE Append(q, w) \in S
  <2>1. q \in Seq(Texts) /\ q \in Seq(Components) /\ w \in Texts /\ w \in Pieces
    BY PiecesAreTexts, SeqMonotonic
  <2> DEFINE t == Slashed[q]
             u == Append(q, w)
  <2>2. t \in Texts /\ Parts[t] = q /\ Slashed[u] = t \o <<Slash>> \o w
    BY <2>1, SlashedDef
  <2>3. Parts[Slashed[u]] = q \o <<w>>
    BY <2>1, <2>2, PartsJoin, OnePart
  <2>4. u = q \o <<w>> /\ u \in Seq(Components)
    BY <2>1, AppendIsConcat
  <2>5. Slashed[u] # << >>
    <3> HIDE DEF t
    <3> QED BY <2>1, <2>2, Characters DEF Texts
  <2>6. u \in S
    <3> HIDE DEF u
    <3> QED BY <2>3, <2>4, <2>5
  <2> QED BY <2>6
<1>3. S = Seq(Components)
  <2>1. S \in SUBSET Seq(Components)
    OBVIOUS
  <2> HIDE DEF S
  <2> QED BY <1>1, <1>2, <2>1, AllByLast
<1>4. path \in S /\ path \in Seq(Texts)
  BY <1>3, PiecesAreTexts, SeqMonotonic DEF Canonical
<1>5. CASE path = << >>
  <2>1. << >> \in Texts /\ RootText = Append(<< >>, Slash)
    BY Characters DEF RootText, Texts
  <2>2. Parts[RootText] = << >>
    BY <2>1, Characters, PartsStep, PartsDef
  <2> QED BY <1>5, <2>2, Characters DEF Text, RootText
<1>6. CASE path # << >>
  BY <1>4, <1>6, SlashedDef DEF Text
<1> QED BY <1>5, <1>6

-----------------------------------------------------------------------------
(***************************************************************************)
(* Resolving.                                                              *)
(***************************************************************************)
\* The smaller of two numbers.
LEMMA MinOfTwo ==
  ASSUME NEW m \in Nat, NEW n \in Nat
  PROVE  Min({m, n}) = IF m <= n THEN m ELSE n
BY DEF Min

\* A text cut at the size of a buffer is a text, and the whole of it if it fits.
LEMMA CutText ==
  ASSUME NEW t \in Texts
  PROVE  /\ SubSeq(t, 1, Min({Len(t), MaxText})) \in Texts
         /\ Len(t) <= MaxText => SubSeq(t, 1, Min({Len(t), MaxText})) = t
<1> DEFINE n == Min({Len(t), MaxText})
<1>1. t \in Seq(Chars) /\ Len(t) \in Nat /\ MaxText \in Nat
  BY LimitsAssumption DEF Texts
<1>2. n \in Nat /\ n <= Len(t) /\ (Len(t) <= MaxText => n = Len(t))
  BY <1>1, MinOfTwo
<1> HIDE DEF n
<1>3. SubSeq(t, 1, n) \in Seq(Chars)
  <2>1. \A i \in 1 .. n : t[i] \in Chars
    BY <1>1, <1>2
  <2> QED BY <1>2, <2>1, SubSeqProperties
<1>4. SubSeq(t, 1, Len(t)) = t
  BY <1>1, SubSeqFull
<1> QED BY <1>2, <1>3, <1>4 DEF Texts, n

\* What comes before the input: the directory, and a slash if it has none.
Before(dir) == IF dir = RootText THEN dir ELSE dir \o <<Slash>>

\* The three cases of the text to resolve.
LEMMA RawCases ==
  ASSUME NEW dir \in Texts, NEW input \in Texts
  PROVE  /\ input = << >> => Raw(dir, input) = dir
         /\ input # << >> /\ input[1] = Slash =>
               Raw(dir, input) = SubSeq(input, 1, Min({Len(input), MaxText}))
         /\ input # << >> /\ input[1] # Slash => Raw(dir, input) = Before(dir) \o input
         /\ Before(dir) \in Texts /\ Raw(dir, input) \in Texts
<1>1. Before(dir) \in Texts
  BY Characters DEF Before, Texts
<1>2. Before(dir) \o input \in Texts
  BY <1>1 DEF Texts
<1>3. CASE input = << >>
  BY <1>1, <1>3 DEF Raw
<1>4. CASE input # << >> /\ input[1] = Slash
  <2>1. Raw(dir, input) = SubSeq(input, 1, Min({Len(input), MaxText}))
    BY <1>4 DEF Raw
  <2> QED BY <1>1, <1>4, <2>1, CutText
<1>5. CASE input # << >> /\ input[1] # Slash
  <2>1. Raw(dir, input) = Before(dir) \o input
    BY <1>5 DEF Raw, Joined, Before
  <2> QED BY <1>1, <1>2, <1>5, <2>1
<1> QED BY <1>3, <1>4, <1>5

\* The components that an argument comes to.
Resolved(dir, input) == Walked[Parts[Raw(dir, input)]]

\* They make a path, of which the result is the text.
LEMMA ResolveIs ==
  ASSUME NEW dir \in Texts, NEW input \in Texts
  PROVE  /\ Resolved(dir, input) \in Canonical
         /\ Resolve(dir, input) = Text(Resolved(dir, input))
         /\ Parts[Raw(dir, input)] \in Seq(Texts)
<1>1. Parts[Raw(dir, input)] \in Seq(Pieces)
  BY RawCases, PartsClean
<1>2. Parts[Raw(dir, input)] \in Seq(Texts)
  BY <1>1, PiecesAreTexts, SeqMonotonic
<1> QED BY <1>1, <1>2, WalkedCanonical DEF Resolve, Resolved

\* Concatenations can be regrouped.
Regroups(d, a, s, b) == d \o (a \o s \o b) = (d \o a) \o s \o b

\* Whatever they join.
LEMMA Regroup ==
  ASSUME NEW C, NEW d \in Seq(C), NEW a \in Seq(C), NEW s \in Seq(C), NEW b \in Seq(C)
  PROVE  Regroups(d, a, s, b)
<1> DEFINE e == s \o b
<1>1. (a \o s) \o b = a \o (s \o b)
  BY ConcatAssociative, SMTT(20)
<1>2. ((d \o a) \o s) \o b = (d \o a) \o (s \o b)
  <2> DEFINE c == d \o a
  <2>1. c \in Seq(C)
    OBVIOUS
  <2> HIDE DEF c
  <2>2. (c \o s) \o b = c \o (s \o b)
    BY <2>1, ConcatAssociative, SMTT(20)
  <2> QED BY <2>2 DEF c
<1>3. (d \o a) \o e = d \o (a \o e)
  <2>1. e \in Seq(C)
    OBVIOUS
  <2> HIDE DEF e
  <2> QED BY <2>1, ConcatAssociative, SMTT(20)
<1> QED BY <1>1, <1>2, <1>3 DEF Regroups

\* Going to a and then to b is going to a/b.
LEMMA Compose ==
  ASSUME NEW dir \in Texts, NEW a \in Texts, NEW b \in Texts, a # << >>, b # << >>,
         b[1] # Slash, Len(a \o <<Slash>> \o b) <= MaxText
  PROVE  Resolve(Resolve(dir, a), b) = Resolve(dir, a \o <<Slash>> \o b)
<1> DEFINE q == Resolved(dir, a)
           p == Parts[Raw(dir, a)]
           there == Text(q)
           both == a \o <<Slash>> \o b
           r == Parts[b]
<1>1. /\ q \in Canonical /\ Resolve(dir, a) = there /\ p \in Seq(Texts) /\ q = Walked[p]
      /\ there \in Texts /\ Parts[there] = q
  BY ResolveIs, TextParts DEF Resolved
<1>2. r \in Seq(Texts) /\ q \in Seq(Texts)
  BY <1>1, PartsDef, PiecesAreTexts, SeqMonotonic DEF Canonical
<1>3. both \in Texts
  BY Characters DEF Texts
<1>4. Parts[Raw(there, b)] = q \o r
  <2> HIDE DEF q, there
  <2>1. Raw(there, b) = Before(there) \o b
    BY <1>1, RawCases
  <2>2. CASE there = RootText
    <3>1. Before(there) = << >> \o <<Slash>>
      BY <2>2 DEF Before, RootText
    <3>2. << >> \in Texts
      BY DEF Texts
    <3>3. Parts[<< >> \o <<Slash>> \o b] = Parts[<< >>] \o r
      BY <3>2, PartsJoin
    <3>4. Parts[RootText] = << >>
      <4>1. RootText = Append(<< >>, Slash)
        BY DEF RootText
      <4> QED BY <3>2, <4>1, Characters, PartsStep, PartsDef
    <3>5. q = << >>
      BY <1>1, <2>2, <3>4
    <3> HIDE DEF r
    <3>6. Parts[Raw(there, b)] = Parts[<< >>] \o r
      BY <2>1, <3>1, <3>3, Zenon
    <3> QED BY <3>5, <3>6, PartsDef
  <2>3. CASE there # RootText
    <3>1. Before(there) = there \o <<Slash>>
      BY <2>3 DEF Before
    <3>2. Parts[there \o <<Slash>> \o b] = q \o r
      BY <1>1, PartsJoin, ZenonT(40)
    <3> QED BY <2>1, <3>1, <3>2, Zenon
  <2> QED BY <2>2, <2>3
<1>5. Raw(dir, both) = Raw(dir, a) \o <<Slash>> \o b
  <2>1. both # << >> /\ both[1] = a[1] /\ Len(a) <= Len(both) /\ Len(a) <= MaxText
    BY Characters, LimitsAssumption DEF Texts
  <2> HIDE DEF both
  <2>2. CASE a[1] = Slash
    <3>0. Len(both) <= MaxText
      BY DEF both
    <3>1. Raw(dir, both) = both
      <4>1. SubSeq(both, 1, Min({Len(both), MaxText})) = both
        BY <1>3, <3>0, CutText, Zenon
      <4>2. both[1] = Slash
        BY <2>1, <2>2
      <4>3. Raw(dir, both) = SubSeq(both, 1, Min({Len(both), MaxText}))
        BY <1>3, <2>1, <4>2, RawCases, Zenon
      <4> QED BY <4>1, <4>3, Zenon
    <3>2. Raw(dir, a) = a
      <4>1. SubSeq(a, 1, Min({Len(a), MaxText})) = a
        BY <2>1, CutText, Zenon
      <4>2. Raw(dir, a) = SubSeq(a, 1, Min({Len(a), MaxText}))
        BY <2>2, RawCases, Zenon
      <4> QED BY <4>1, <4>2, Zenon
    <3> QED BY <3>1, <3>2, Zenon DEF both
  <2>3. CASE a[1] # Slash
    <3>1. Raw(dir, both) = Before(dir) \o both
      BY <1>3, <2>1, <2>3, RawCases
    <3>2. Raw(dir, a) = Before(dir) \o a
      BY <2>3, RawCases
    <3>3. Regroups(Before(dir), a, <<Slash>>, b)
      <4>1. Before(dir) \in Seq(Chars) /\ <<Slash>> \in Seq(Chars)
        <5>1. Before(dir) \in Texts /\ Slash \in Chars
          BY RawCases, Characters
        <5> QED BY <5>1 DEF Texts
      <4> QED BY <4>1, Regroup DEF Texts
    <3> QED BY <3>1, <3>2, <3>3, Zenon DEF both, Regroups
  <2> QED BY <2>2, <2>3
<1>6. Parts[Raw(dir, both)] = p \o r
  <2>1. Raw(dir, a) \in Texts
    BY RawCases
  <2>2. Parts[Raw(dir, a) \o <<Slash>> \o b] = p \o r
    BY <2>1, PartsJoin
  <2> QED BY <1>5, <2>2, Zenon
<1>7. Walked[q] = Walked[p]
  BY <1>1, WalkedSame
<1>8. Walked[q \o r] = Walked[p \o r]
  <2> HIDE DEF q, p, r
  <2> QED BY <1>1, <1>2, <1>7, WalkedOn
<1>9. Resolve(there, b) = Text(Walked[q \o r])
  BY <1>4, Zenon DEF Resolve
<1>10. Resolve(dir, both) = Text(Walked[p \o r])
  BY <1>6, Zenon DEF Resolve
<1> QED BY <1>1, <1>8, <1>9, <1>10, Zenon

-----------------------------------------------------------------------------
(***************************************************************************)
(* Words in a line.                                                        *)
(***************************************************************************)
\* First is the place it is meant to be.
LEMMA FirstIs ==
  ASSUME NEW s \in Texts, NEW i, NEW places, NEW k \in Nat,
         k = Len(s) + 1 \/ (k \in places /\ i <= k /\ k <= Len(s)),
         places \subseteq 1 .. Len(s), \A j \in places : i <= j => k <= j
  PROVE  First(s, i, places) = k
<1> DEFINE S == {j \in places : j >= i} \cup {Len(s) + 1}
<1>1. Len(s) \in Nat
  BY DEF Texts
<1>2. k \in S /\ \A j \in S : k <= j
  BY <1>1
<1>3. \A j \in S : j \in Nat
  BY <1>1
<1>4. Min(S) = k
  <2>1. ASSUME NEW m \in S, \A j \in S : m <= j PROVE m = k
    BY <1>2, <1>3, <2>1
  <2> HIDE DEF S
  <2> QED BY <1>2, <2>1 DEF Min
<1> QED BY <1>4 DEF First

\* Where there is none it is the end.
LEMMA FirstIsEnd ==
  ASSUME NEW s \in Texts, NEW i, NEW places, \A j \in places : ~(j >= i)
  PROVE  First(s, i, places) = Len(s) + 1
<1> DEFINE n == Len(s) + 1
<1>1. {j \in places : j >= i} \cup {n} = {n}
  <2> HIDE DEF n
  <2> QED BY Zenon
<1>2. n \in Nat
  BY DEF Texts
<1> HIDE DEF n
<1>3. Min({n}) = n
  BY <1>2 DEF Min
<1> QED BY <1>1, <1>3, Zenon DEF First, n

\* There is a first place, or the end.
LEMMA FirstType ==
  ASSUME NEW s \in Texts, NEW i \in 1 .. Len(s) + 1, NEW places, places \subseteq 1 .. Len(s)
  PROVE  First(s, i, places) \in i .. Len(s) + 1
<1> DEFINE S == {j \in places : j >= i} \cup {Len(s) + 1}
<1>1. Len(s) \in Nat
  BY DEF Texts
<1>2. S \subseteq i .. Len(s) + 1 /\ S \subseteq Nat /\ S # {}
  <2>1. ASSUME NEW j \in places, j >= i PROVE j \in i .. Len(s) + 1 /\ j \in Nat
    BY <1>1, <2>1
  <2>2. Len(s) + 1 \in i .. Len(s) + 1 /\ Len(s) + 1 \in Nat
    BY <1>1
  <2> QED BY <2>1, <2>2
<1>3. PICK m \in S : \A j \in S : m <= j
  <2> HIDE DEF S
  <2> QED BY <1>2, LeastNumber
<1>4. Min(S) \in S
  <2> HIDE DEF S
  <2> QED BY <1>3 DEF Min
<1> QED BY <1>2, <1>4 DEF First

\* The places of a text are among its places.
LEMMA Places ==
  ASSUME NEW s \in Texts
  PROVE  /\ DOMAIN s = 1 .. Len(s) /\ Len(s) \in Nat
         /\ Blank(s) \subseteq 1 .. Len(s) /\ Visible(s) \subseteq 1 .. Len(s)
         /\ Quotes(s) \subseteq 1 .. Len(s)
BY DEF Texts, Blank, Visible, Quotes

\* The first word of a text, and what is left after it.
FirstWord(s) == SubSeq(s, From(s), To(s) - 1)
Left(s) == SubSeq(s, After(s, To(s)), Len(s))

\* Both are texts.
LEMMA WordType ==
  ASSUME NEW s \in Texts, Visible(s) # {}
  PROVE  FirstWord(s) \in Texts /\ Left(s) \in Texts
<1> DEFINE i == First(s, 1, Visible(s))
<1>1. Len(s) \in Nat /\ Visible(s) \subseteq 1 .. Len(s)
  BY Places
<1>2. i \in Nat /\ i >= 1 /\ i <= Len(s)
  <2>1. PICK k \in Visible(s) : \A j \in Visible(s) : k <= j
    BY <1>1, LeastNumber
  <2>2. First(s, 1, Visible(s)) = k
    BY <1>1, <2>1, FirstIs
  <2> QED BY <1>1, <2>1, <2>2
<1>3. From(s) \in 1 .. Len(s) + 1
  BY <1>1, <1>2 DEF From
<1>4. To(s) \in From(s) .. Len(s) + 1
  BY <1>3, Places, FirstType DEF To
<1>5. After(s, To(s)) \in 1 .. Len(s) + 2
  BY <1>1, <1>3, <1>4 DEF After
<1>6. ASSUME NEW m \in Int, NEW n \in Int, m >= 1, n <= Len(s)
      PROVE  SubSeq(s, m, n) \in Texts
  <2>1. \A j \in m .. n : s[j] \in Chars
    BY <1>1, <1>6 DEF Texts
  <2> QED BY <2>1, SubSeqProperties DEF Texts
<1>7. /\ From(s) \in Int /\ From(s) >= 1 /\ To(s) - 1 \in Int /\ To(s) - 1 <= Len(s)
      /\ After(s, To(s)) \in Int /\ After(s, To(s)) >= 1 /\ Len(s) \in Int
  BY <1>1, <1>3, <1>4, <1>5
<1> QED BY <1>6, <1>7 DEF FirstWord, Left

\* ParseInto is what its definition says.
LEMMA ParseDef ==
  /\ ParseInto \in [Nat -> [Texts -> Seq(Texts)]]
  /\ \A n \in Nat, s \in Texts :
        ParseInto[n][s] = IF n = 0 \/ Visible(s) = {} THEN << >>
                          ELSE <<FirstWord(s)>> \o ParseInto[n - 1][Left(s)]
<1> DEFINE V == [Texts -> Seq(Texts)]
           next(n, g) == [s \in Texts |->
             IF n = 0 \/ Visible(s) = {} THEN << >>
             ELSE <<FirstWord(s)>> \o g[Left(s)]]
           step == [p \in Nat \X V |-> next(p[1], p[2])]
           rank == [n \in Nat |-> n]
           before == [n \in Nat |-> IF n = 0 THEN n ELSE n - 1]
           base == [n \in Nat |-> [s \in Texts |-> << >>]]
           Is(h) == h = [n \in Nat |-> next(n, h[n - 1])]
<1>1. ASSUME NEW n \in Nat, NEW g \in V PROVE next(n, g) \in V
  <2>1. ASSUME NEW s \in Texts, n # 0, Visible(s) # {}
        PROVE  <<FirstWord(s)>> \o g[Left(s)] \in Seq(Texts)
    <3>1. FirstWord(s) \in Texts /\ Left(s) \in Texts
      BY <2>1, WordType
    <3>2. <<FirstWord(s)>> \in Seq(Texts) /\ g[Left(s)] \in Seq(Texts)
      BY <3>1
    <3> QED BY <3>2, ConcatProperties
  <2> QED BY <2>1
<1>2. \E h : Is(h) /\ h \in [Nat -> V]
  <2>1. Descends(Nat, rank, before)
    BY DEF Descends
  <2>2. Steps(Nat, V, base, step)
    <3>1. step \in [Nat \X V -> V]
      <4> HIDE DEF next, V
      <4> QED BY <1>1
    <3>2. base \in [Nat -> V]
      OBVIOUS
    <3> QED BY <3>1, <3>2 DEF Steps
  <2>3. PICK h \in [Nat -> V] : \A n \in Nat :
           h[n] = IF rank[n] = 0 THEN base[n] ELSE step[<<n, h[before[n]]>>]
    <3> HIDE DEF V, rank, before, base, step
    <3> QED BY <2>1, <2>2, Recursion
  <2>4. ASSUME NEW n \in Nat PROVE h[n] = next(n, h[n - 1])
    <3>1. CASE n = 0
      <4>1. h[n] = [s \in Texts |-> << >>]
        BY <2>3, <3>1
      <4> QED BY <3>1, <4>1
    <3>2. CASE n # 0
      <4>1. n - 1 \in Nat
        BY <3>2
      <4> HIDE DEF next, V
      <4>2. h[n] = step[<<n, h[n - 1]>>]
        <5> HIDE DEF step
        <5> QED BY <2>3, <3>2
      <4>3. h[n - 1] \in V
        BY <4>1
      <4> QED BY <4>2, <4>3
    <3> QED BY <3>1, <3>2
  <2>5. Is(h)
    <3> HIDE DEF next
    <3> QED BY <2>4
  <2> QED BY <2>5
<1>3. Is(ParseInto)
  <2>1. ParseInto = CHOOSE h : Is(h)
    BY DEF ParseInto, FirstWord, Left
  <2> HIDE DEF Is
  <2> QED BY <1>2, <2>1
<1>4. ASSUME NEW n \in Nat PROVE ParseInto[n] = next(n, ParseInto[n - 1])
  <2> HIDE DEF next
  <2> QED BY <1>3
<1>5. ASSUME NEW n \in Nat, NEW s \in Texts
      PROVE  ParseInto[n][s] = IF n = 0 \/ Visible(s) = {} THEN << >>
                               ELSE <<FirstWord(s)>> \o ParseInto[n - 1][Left(s)]
  BY <1>4
<1>6. ParseInto \in [Nat -> V]
  <2> DEFINE S == {n \in Nat : ParseInto[n] \in V}
  <2>1. 0 \in S
    <3>1. ParseInto[0] = [s \in Texts |-> << >>]
      BY <1>4
    <3>2. [s \in Texts |-> << >>] \in V
      OBVIOUS
    <3> HIDE DEF V
    <3> QED BY <3>1, <3>2
  <2>2. ASSUME NEW n \in S PROVE n + 1 \in S
    <3>1. n + 1 \in Nat /\ (n + 1) - 1 = n /\ ParseInto[n] \in V
      OBVIOUS
    <3> HIDE DEF next, V
    <3>2. ParseInto[n + 1] = next(n + 1, ParseInto[n])
      BY <1>4, <3>1
    <3> QED BY <1>1, <3>1, <3>2
  <2>3. S = Nat
    <3>1. S \in SUBSET Nat
      OBVIOUS
    <3> HIDE DEF S
    <3> QED BY <2>1, <2>2, <3>1, AllNumbers
  <2>4. ParseInto = [n \in Nat |-> ParseInto[n]]
    <3> HIDE DEF next
    <3> QED BY <1>3
  <2> HIDE DEF V
  <2> QED BY <2>3, <2>4
<1> QED BY <1>5, <1>6

\* Blanks make texts, and the gaps between words are some.
LEMMA BlankTexts ==
  /\ Seq(Blanks) \subseteq Texts
  /\ \A gap \in Gaps : gap \in Seq(Blanks) /\ gap # << >>
<1>1. Seq(Blanks) \subseteq Texts
  BY Characters, SeqMonotonic DEF Texts
<1>2. <<" ">> \in Seq(Blanks) /\ <<" ", "\t">> \in Seq(Blanks)
  BY DEF Blanks
<1>3. <<" ">> # << >> /\ <<" ", "\t">> # << >>
  OBVIOUS
<1>4. \A gap \in Gaps : gap = <<" ">> \/ gap = <<" ", "\t">>
  BY DEF Gaps
<1> QED BY <1>1, <1>2, <1>3, <1>4, Zenon

\* A word is typed with quotes, the last maybe only with the first of them, or
\* as it is, and begins and ends visibly.
LEMMA TypedIs ==
  ASSUME NEW ws \in Seq(Words), ws # << >>, NEW quoting \in BOOLEAN, NEW open \in BOOLEAN
  PROVE  /\ Typed(ws, quoting, open) \in Texts /\ Typed(ws, quoting, open) # << >>
         /\ Typed(ws, quoting, open)[1] \notin Blanks
         /\ Typed(ws, quoting, open)[Len(Typed(ws, quoting, open))] \notin Blanks
         /\ \/ Typed(ws, quoting, open) = <<Quote>> \o Head(ws) \o <<Quote>>
            \/ Typed(ws, quoting, open) = <<Quote>> \o Head(ws) /\ Tail(ws) = << >>
            \/ Typed(ws, quoting, open) = Head(ws) /\ Head(ws) # << >> /\ Blank(Head(ws)) = {}
<1> DEFINE w == Head(ws)
           t == Typed(ws, quoting, open)
           quoted == quoting \/ w = << >> \/ Blank(w) # {}
           closed == ~open \/ Tail(ws) # << >> \/ Len(w) \in Blank(w)
<1>1. w \in Words /\ w \in Texts /\ w \in Seq(Chars) /\ Len(w) \in Nat
  BY HeadTailProperties, WordsAssumption DEF Texts
<1>2. /\ quoted /\ closed => t = <<Quote>> \o w \o <<Quote>>
      /\ quoted /\ ~closed => t = <<Quote>> \o w
      /\ ~quoted => t = w
  <2>1. t = CASE quoted /\ closed -> <<Quote>> \o w \o <<Quote>>
              [] quoted /\ ~closed -> <<Quote>> \o w
              [] ~quoted -> w
    BY DEF Typed
  <2> HIDE DEF quoted, closed, t, w
  <2> QED BY <2>1
<1> HIDE DEF t, w
<1>3. CASE quoted /\ closed
  <2> DEFINE u == <<Quote>> \o w \o <<Quote>>
  <2>1. /\ u \in Seq(Chars) /\ Len(u) = Len(w) + 2
        /\ u[1] = Quote /\ u[Len(w) + 2] = Quote
    BY <1>1, Characters
  <2>2. t = u
    BY <1>2, <1>3
  <2>3. u \in Texts /\ u # << >> /\ u[1] \notin Blanks /\ u[Len(u)] \notin Blanks
    <3> HIDE DEF u
    <3> QED BY <1>1, <2>1, Characters DEF Texts
  <2> QED BY <2>2, <2>3 DEF t, w
<1>4. CASE quoted /\ ~closed
  <2> DEFINE u == <<Quote>> \o w
  <2>1. /\ u \in Seq(Chars) /\ Len(u) = Len(w) + 1 /\ u[1] = Quote
        /\ Len(w) # 0 => u[Len(w) + 1] = w[Len(w)]
    BY <1>1, Characters
  <2>2. t = u /\ Tail(ws) = << >>
    BY <1>2, <1>4
  <2>3. Len(w) # 0 => w[Len(w)] \notin Blanks
    <3>1. Len(w) \notin Blank(w)
      BY <1>4
    <3> QED BY <1>1, <3>1 DEF Blank
  <2>4. u \in Texts /\ u # << >> /\ u[1] \notin Blanks /\ u[Len(u)] \notin Blanks
    <3> HIDE DEF u
    <3> QED BY <1>1, <2>1, <2>3, Characters DEF Texts
  <2> QED BY <2>2, <2>4 DEF t, w
<1>5. CASE ~quoted
  <2>1. t = w /\ w # << >> /\ Blank(w) = {}
    BY <1>2, <1>5
  <2>2. \A k \in 1 .. Len(w) : w[k] \notin Blanks
    BY <1>1, <2>1 DEF Blank
  <2>3. 1 \in 1 .. Len(w) /\ Len(w) \in 1 .. Len(w)
    BY <1>1, <2>1
  <2>4. w[1] \notin Blanks /\ w[Len(w)] \notin Blanks
    BY <2>2, <2>3
  <2> QED BY <1>1, <2>1, <2>4 DEF t, w
<1> QED BY <1>3, <1>4, <1>5

\* In short, it is a text.
LEMMA TypedText ==
  ASSUME NEW ws \in Seq(Words), ws # << >>, NEW quoting \in BOOLEAN, NEW open \in BOOLEAN
  PROVE  Typed(ws, quoting, open) \in Texts
BY TypedIs, Zenon

\* Spaced is what its definition says.
LEMMA SpacedDef ==
  ASSUME NEW gap \in Gaps, NEW quoting \in BOOLEAN, NEW open \in BOOLEAN
  PROVE  /\ Spaced(gap, quoting, open) \in [Seq(Words) -> Texts]
         /\ Spaced(gap, quoting, open)[<< >>] = << >>
         /\ \A ws \in Seq(Words) : ws # << >> =>
               Spaced(gap, quoting, open)[ws] =
                  gap \o Typed(ws, quoting, open) \o Spaced(gap, quoting, open)[Tail(ws)]
<1> DEFINE D == Seq(Words)
           typed(ws) == Typed(ws, quoting, open)
           rank == [ws \in D |-> Len(ws)]
           before == [ws \in D |-> IF ws = << >> THEN ws ELSE Tail(ws)]
           base == [ws \in D |-> << >>]
           step == [p \in D \X Texts |->
                      IF p[1] = << >> THEN << >> ELSE gap \o typed(p[1]) \o p[2]]
           Is(h) == h = [ws \in D |-> IF ws = << >> THEN << >>
                                      ELSE gap \o typed(ws) \o h[Tail(ws)]]
           f == Spaced(gap, quoting, open)
<1>1. ASSUME NEW ws \in D, ws # << >>
      PROVE  /\ Tail(ws) \in D /\ Len(Tail(ws)) = Len(ws) - 1 /\ Len(ws) \in Nat \ {0}
             /\ Head(ws) \in Words
  BY <1>1, HeadTailProperties, EmptySeq
<1>2. ASSUME NEW ws \in D, ws # << >>, NEW t \in Texts PROVE gap \o typed(ws) \o t \in Texts
  <2>1. gap \in Seq(Chars) /\ typed(ws) \in Seq(Chars) /\ t \in Seq(Chars)
    BY <1>1, <1>2, BlankTexts, TypedIs DEF Texts
  <2> HIDE DEF typed
  <2> QED BY <2>1 DEF Texts
<1>3. << >> \in Texts
  BY DEF Texts
<1>4. \E h : Is(h)
  <2>1. Descends(D, rank, before)
    <3>1. before \in [D -> D] /\ rank \in [D -> Nat]
      BY <1>1
    <3>2. ASSUME NEW ws \in D, rank[ws] # 0 PROVE rank[before[ws]] < rank[ws]
      <4>1. ws # << >>
        BY <3>2
      <4> QED BY <1>1, <4>1
    <3> QED BY <3>1, <3>2 DEF Descends
  <2>2. Steps(D, Texts, base, step)
    <3>1. base \in [D -> Texts]
      BY <1>3
    <3>2. step \in [D \X Texts -> Texts]
      <4> HIDE DEF typed, D
      <4> QED BY <1>2, <1>3
    <3> QED BY <3>1, <3>2 DEF Steps
  <2>3. PICK h \in [D -> Texts] : \A ws \in D :
           h[ws] = IF rank[ws] = 0 THEN base[ws] ELSE step[<<ws, h[before[ws]]>>]
    <3> HIDE DEF D, rank, before, base, step
    <3> QED BY <2>1, <2>2, Recursion
  <2>4. ASSUME NEW ws \in D
        PROVE  h[ws] = IF ws = << >> THEN << >> ELSE gap \o typed(ws) \o h[Tail(ws)]
    <3>1. CASE ws = << >>
      <4>1. rank[ws] = 0 /\ base[ws] = << >>
        BY <3>1
      <4> QED BY <2>3, <3>1, <4>1
    <3>2. CASE ws # << >>
      <4>1. rank[ws] # 0 /\ before[ws] = Tail(ws) /\ Tail(ws) \in D
        BY <1>1, <3>2
      <4> HIDE DEF typed, D, rank, before
      <4>2. h[Tail(ws)] \in Texts
        BY <4>1
      <4>3. h[ws] = step[<<ws, h[Tail(ws)]>>]
        <5> HIDE DEF step
        <5> QED BY <2>3, <4>1
      <4> QED BY <3>2, <4>2, <4>3
    <3> QED BY <3>1, <3>2
  <2>5. Is(h)
    <3> HIDE DEF typed, D
    <3> QED BY <2>4
  <2> QED BY <2>5
<1>5. Is(f)
  <2>1. f = CHOOSE h : Is(h)
    BY DEF Spaced
  <2> HIDE DEF Is, f
  <2> QED BY <1>4, <2>1
<1>6. f[<< >>] = << >>
  <2>1. << >> \in D
    OBVIOUS
  <2> HIDE DEF f, typed, D
  <2> QED BY <1>5, <2>1
<1>7. ASSUME NEW ws \in D, ws # << >> PROVE f[ws] = gap \o typed(ws) \o f[Tail(ws)]
  <2> HIDE DEF f, typed, D
  <2> QED BY <1>5, <1>7
<1>8. f \in [D -> Texts]
  <2> DEFINE S == {ws \in D : f[ws] \in Texts}
  <2>1. << >> \in S
    <3> HIDE DEF f
    <3> QED BY <1>3, <1>6
  <2>2. ASSUME NEW ws \in D, ws # << >>, Tail(ws) \in S PROVE ws \in S
    <3> HIDE DEF f, typed
    <3>1. gap \o typed(ws) \o f[Tail(ws)] \in Texts
      BY <1>2, <2>2
    <3> QED BY <1>7, <2>2, <3>1, Zenon
  <2>3. S = D
    <3>1. S \in SUBSET D
      OBVIOUS
    <3> HIDE DEF S
    <3> QED BY <2>1, <2>2, <3>1, AllByHead
  <2>4. f = [ws \in D |-> f[ws]]
    <3> HIDE DEF f, typed
    <3> QED BY <1>5
  <2> HIDE DEF f
  <2> QED BY <2>3, <2>4
<1> QED BY <1>6, <1>7, <1>8, Zenon

\* Where the characters of three texts are when they are put together.
Joins(s, a, b, c) == s = a \o b \o c

\* They follow each other in it.
LEMMA Thirds ==
  ASSUME NEW a \in Texts, NEW b \in Texts, NEW c \in Texts, NEW s, Joins(s, a, b, c)
  PROVE  /\ s \in Texts /\ Len(s) = Len(a) + Len(b) + Len(c)
         /\ Len(a) \in Nat /\ Len(b) \in Nat /\ Len(c) \in Nat
         /\ \A i \in 1 .. Len(a) : s[i] = a[i]
         /\ \A i \in 1 .. Len(b) : s[Len(a) + i] = b[i]
         /\ \A i \in 1 .. Len(c) : s[Len(a) + Len(b) + i] = c[i]
BY DEF Texts, Joins

\* A piece of a text is known by its characters.
LEMMA PieceIs ==
  ASSUME NEW s \in Texts, NEW t \in Texts, NEW k \in Nat, k + Len(t) <= Len(s),
         \A i \in 1 .. Len(t) : s[k + i] = t[i]
  PROVE  SubSeq(s, k + 1, k + Len(t)) = t
<1> DEFINE u == SubSeq(s, k + 1, k + Len(t))
<1>1. s \in Seq(Chars) /\ t \in Seq(Chars) /\ Len(t) \in Nat /\ Len(s) \in Nat
  BY DEF Texts
<1>2. \A i \in k + 1 .. k + Len(t) : s[i] \in Chars
  BY <1>1
<1>3. k + 1 \in Int /\ k + Len(t) \in Int
  BY <1>1
<1>4. /\ u \in Seq(Chars)
      /\ Len(u) = IF k + 1 <= k + Len(t) THEN k + Len(t) - (k + 1) + 1 ELSE 0
      /\ \A i \in 1 .. k + Len(t) - (k + 1) + 1 : u[i] = s[k + 1 + i - 1]
  BY <1>2, <1>3, SubSeqProperties
<1>5. Len(u) = Len(t)
  BY <1>1, <1>4
<1>6. ASSUME NEW i \in 1 .. Len(t) PROVE u[i] = t[i]
  <2>1. i \in 1 .. k + Len(t) - (k + 1) + 1 /\ k + 1 + i - 1 = k + i
    BY <1>1
  <2> QED BY <1>4, <2>1
<1> HIDE DEF u
<1>7. u = t
  BY <1>1, <1>4, <1>5, <1>6, SeqEqual
<1> QED BY <1>7 DEF u

\* The first word of a text that begins with blanks and a typed word, the text
\* ending or going on with a blank, is that word, and what is left is the rest,
\* maybe without that blank.
LEMMA FirstWordIs ==
  ASSUME NEW g \in Seq(Blanks), NEW ws \in Seq(Words), ws # << >>,
         NEW quoting \in BOOLEAN, NEW open \in BOOLEAN, NEW r \in Texts,
         r = << >> \/ r[1] \in Blanks, Tail(ws) = << >> => r = << >>,
         NEW s, Joins(s, g, Typed(ws, quoting, open), r)
  PROVE  /\ s \in Texts /\ Visible(s) # {} /\ FirstWord(s) = Head(ws)
         /\ Left(s) = r \/ (r # << >> /\ Left(s) = SubSeq(r, 2, Len(r)))
<1> DEFINE w == Head(ws)
           t == Typed(ws, quoting, open)
           i == Len(g) + 1
           n == Len(w)
<1>0. w \in Words
  BY HeadTailProperties
<1>1. g \in Texts /\ t \in Texts /\ w \in Texts /\ n \in Nat /\ Len(g) \in Nat
      /\ Len(r) \in Nat
  <2>1. t \in Texts
    BY TypedText, Zenon
  <2> HIDE DEF t
  <2> QED BY <1>0, <2>1, BlankTexts, WordsAssumption DEF Texts
<1>2. /\ t # << >> /\ t[1] \notin Blanks
      /\ \/ t = <<Quote>> \o w \o <<Quote>>
         \/ t = <<Quote>> \o w /\ Tail(ws) = << >>
         \/ t = w /\ w # << >> /\ Blank(w) = {}
  BY TypedIs, Zenon
<1>3. /\ s \in Texts /\ Len(s) = Len(g) + Len(t) + Len(r) /\ Len(t) \in Nat
      /\ \A k \in 1 .. Len(g) : s[k] = g[k]
      /\ \A k \in 1 .. Len(t) : s[Len(g) + k] = t[k]
      /\ \A k \in 1 .. Len(r) : s[Len(g) + Len(t) + k] = r[k]
  <2> HIDE DEF t
  <2>1. Joins(s, g, t, r)
    BY DEF t
  <2> HIDE DEF i, n
  <2> QED BY <1>1, <2>1, Thirds
<1> HIDE DEF t, w
<1>4. Len(t) >= 1
  BY <1>1, <1>2, <1>3 DEF Texts
<1>5. First(s, 1, Visible(s)) = i /\ s[i] = t[1] /\ i \in Visible(s)
  <2>1. s[i] = t[1] /\ i \in 1 .. Len(s)
    BY <1>1, <1>3, <1>4
  <2>2. DOMAIN s = 1 .. Len(s) /\ Visible(s) \subseteq 1 .. Len(s)
    BY <1>3, Places
  <2>3. i \in Visible(s)
    BY <1>2, <2>1, <2>2 DEF Visible, Blank
  <2>4. ASSUME NEW k \in Visible(s) PROVE i <= k
    <3>1. k \in 1 .. Len(s) /\ s[k] \notin Blanks
      BY <2>2 DEF Visible, Blank
    <3>2. ASSUME k < i PROVE FALSE
      <4>1. k \in 1 .. Len(g)
        BY <1>1, <3>1, <3>2
      <4>2. g[k] \in Blanks
        BY <4>1
      <4> QED BY <1>3, <3>1, <4>1, <4>2
    <3> QED BY <1>1, <3>1, <3>2
  <2>5. First(s, 1, Visible(s)) = i
    <3>1. i \in Nat /\ 1 <= i /\ i <= Len(s)
      BY <1>1, <2>1
    <3> HIDE DEF i
    <3> QED BY <1>3, <2>2, <2>3, <2>4, <3>1, FirstIs
  <2> QED BY <2>1, <2>3, <2>5
<1>6. CASE t = <<Quote>> \o w \o <<Quote>>
  <2>1. /\ Len(t) = n + 2 /\ t[1] = Quote /\ t[n + 2] = Quote
        /\ \A k \in 1 .. n : t[k + 1] = w[k]
    BY <1>1, <1>6, Characters DEF Texts
  <2>2. InQuotes(s) /\ From(s) = i + 1
    BY <1>5, <2>1 DEF InQuotes, From
  <2>3. \A k \in 1 .. n : s[i + k] = w[k]
    <3> TAKE k \in 1 .. n
    <3>1. k + 1 \in 1 .. Len(t) /\ Len(g) + (k + 1) = i + k
      BY <1>1, <2>1
    <3> QED BY <1>3, <2>1, <3>1
  <2>4. To(s) = i + n + 1
    <3> DEFINE e == i + n + 1
    <3>1. e \in Nat /\ e <= Len(s) /\ i + 1 <= e /\ Len(s) \in Nat
      BY <1>1, <1>3, <2>1
    <3>2. s[e] = Quote
      <4>1. n + 2 \in 1 .. Len(t) /\ Len(g) + (n + 2) = e
        BY <1>1, <2>1
      <4> QED BY <1>3, <2>1, <4>1
    <3>3. DOMAIN s = 1 .. Len(s) /\ Quotes(s) \subseteq 1 .. Len(s)
      BY <1>3, Places
    <3>4. e \in Quotes(s)
      BY <1>1, <3>1, <3>2, <3>3 DEF Quotes
    <3>5. ASSUME NEW k \in Quotes(s), i + 1 <= k PROVE e <= k
      <4>1. k \in 1 .. Len(s) /\ s[k] = Quote
        BY <3>3 DEF Quotes
      <4>2. ASSUME k < e PROVE FALSE
        <5>1. k - i \in 1 .. n /\ i + (k - i) = k
          BY <1>1, <3>5, <4>1, <4>2
        <5>2. w[k - i] = Quote
          BY <2>3, <4>1, <5>1
        <5>3. k - i \in Quotes(w)
          BY <1>1, <5>1, <5>2, Places DEF Quotes
        <5> QED BY <1>0, <5>3, WordsAssumption
      <4> QED BY <1>1, <4>1, <4>2
    <3>6. First(s, i + 1, Quotes(s)) = e
      <4> HIDE DEF e
      <4> QED BY <1>3, <3>1, <3>3, <3>4, <3>5, FirstIs
    <3> QED BY <2>2, <3>6 DEF To
  <2>5. FirstWord(s) = w
    <3>1. i \in Nat /\ i + n <= Len(s)
      BY <1>1, <1>3, <2>1
    <3>2. SubSeq(s, i + 1, i + n) = w
      <4> HIDE DEF i
      <4> QED BY <1>1, <1>3, <2>3, <3>1, PieceIs
    <3>3. To(s) - 1 = i + n
      BY <1>1, <2>4
    <3> QED BY <2>2, <3>2, <3>3, Zenon DEF FirstWord
  <2>6. Left(s) = r
    <3> DEFINE k == Len(g) + Len(t)
    <3>1. After(s, To(s)) = k + 1 /\ k \in Nat /\ Len(s) = k + Len(r)
      BY <1>1, <1>3, <2>1, <2>4 DEF After
    <3>2. SubSeq(s, k + 1, k + Len(r)) = r
      <4>1. k + Len(r) <= Len(s) /\ \A j \in 1 .. Len(r) : s[k + j] = r[j]
        BY <1>1, <1>3
      <4> HIDE DEF k
      <4> QED BY <1>1, <1>3, <3>1, <4>1, PieceIs
    <3> QED BY <3>1, <3>2, Zenon DEF Left
  <2> QED BY <1>3, <1>5, <2>5, <2>6 DEF w
<1>7. CASE t = <<Quote>> \o w /\ r = << >>
  <2>1. /\ Len(t) = n + 1 /\ t[1] = Quote
        /\ \A k \in 1 .. n : t[k + 1] = w[k]
    BY <1>1, <1>7, Characters DEF Texts
  <2>2. InQuotes(s) /\ From(s) = i + 1
    BY <1>5, <2>1 DEF InQuotes, From
  <2>3. \A k \in 1 .. n : s[i + k] = w[k]
    <3> TAKE k \in 1 .. n
    <3>1. k + 1 \in 1 .. Len(t) /\ Len(g) + (k + 1) = i + k
      BY <1>1, <2>1
    <3> QED BY <1>3, <2>1, <3>1
  <2>4. To(s) = i + n + 1 /\ Len(s) = i + n
    <3> DEFINE e == i + n + 1
    <3>1. Len(s) = i + n /\ Len(r) = 0
      BY <1>1, <1>3, <1>7, <2>1
    <3>2. e \in Nat /\ e = Len(s) + 1
      BY <1>1, <3>1
    <3>3. DOMAIN s = 1 .. Len(s) /\ Quotes(s) \subseteq 1 .. Len(s)
      BY <1>3, Places
    <3>4. ASSUME NEW k \in Quotes(s), i + 1 <= k PROVE e <= k
      <4>1. k \in 1 .. Len(s) /\ s[k] = Quote
        BY <3>3 DEF Quotes
      <4>2. k - i \in 1 .. n /\ i + (k - i) = k
        BY <1>1, <3>1, <3>4, <4>1
      <4>3. w[k - i] = Quote
        BY <2>3, <4>1, <4>2
      <4>4. k - i \in Quotes(w)
        BY <1>1, <4>2, <4>3, Places DEF Quotes
      <4> QED BY <1>0, <4>4, WordsAssumption
    <3>5. First(s, i + 1, Quotes(s)) = e
      <4> HIDE DEF e
      <4> QED BY <1>3, <3>2, <3>3, <3>4, FirstIs
    <3> QED BY <2>2, <3>1, <3>5 DEF To
  <2>5. FirstWord(s) = w
    <3>1. i \in Nat /\ i + n <= Len(s)
      BY <1>1, <1>3, <2>4
    <3>2. SubSeq(s, i + 1, i + n) = w
      <4> HIDE DEF i
      <4> QED BY <1>1, <1>3, <2>3, <3>1, PieceIs
    <3>3. To(s) - 1 = i + n
      BY <1>1, <2>4
    <3> QED BY <2>2, <3>2, <3>3, Zenon DEF FirstWord
  <2>6. Left(s) = r
    <3>1. Len(s) \in Nat /\ To(s) = Len(s) + 1
      BY <1>1, <2>4
    <3>2. After(s, To(s)) = Len(s) + 1
      BY <3>1 DEF After
    <3>3. SubSeq(s, Len(s) + 1, Len(s)) = << >>
      BY <1>3, <3>1, SubSeqEmpty
    <3> QED BY <1>7, <3>2, <3>3, Zenon DEF Left
  <2> QED BY <1>3, <1>5, <2>5, <2>6 DEF w
<1>8. CASE t = w /\ w # << >> /\ Blank(w) = {} /\ t # <<Quote>> \o w \o <<Quote>>
  <2>1. n >= 1 /\ \A k \in 1 .. n : w[k] \notin Blanks /\ w[k] # Quote
    <3>1. Quotes(w) = {}
      BY <1>0, WordsAssumption
    <3>2. DOMAIN w = 1 .. n
      BY <1>1, Places
    <3> QED BY <1>4, <1>8, <3>1, <3>2 DEF Blank, Quotes
  <2>2. ~InQuotes(s) /\ From(s) = i
    <3>1. 1 \in 1 .. n /\ t[1] = w[1]
      BY <1>1, <1>8, <2>1
    <3>2. s[i] # Quote
      BY <1>5, <2>1, <3>1
    <3>3. ~InQuotes(s)
      BY <1>5, <3>2 DEF InQuotes
    <3>4. From(s) = i + 0
      BY <1>5, <3>3, Zenon DEF From
    <3> QED BY <1>1, <3>3, <3>4
  <2>3. \A k \in 1 .. n : s[Len(g) + k] = w[k]
    BY <1>3, <1>8
  <2>4. To(s) = i + n
    <3> DEFINE e == i + n
    <3>1. e \in Nat /\ i <= e /\ Len(s) \in Nat /\ Len(s) = Len(g) + n + Len(r)
      BY <1>1, <1>3, <1>8
    <3>2. DOMAIN s = 1 .. Len(s) /\ Blank(s) \subseteq 1 .. Len(s)
      BY <1>3, Places
    <3>3. e = Len(s) + 1 \/ (e \in Blank(s) /\ e <= Len(s))
      <4>1. CASE r = << >>
        BY <1>1, <3>1, <4>1
      <4>2. CASE r # << >>
        <5>1. 1 \in 1 .. Len(r) /\ r[1] \in Blanks
          BY <1>1, <4>2 DEF Texts
        <5>2. Len(g) + Len(t) + 1 = e /\ e \in 1 .. Len(s)
          BY <1>1, <1>8, <3>1, <5>1
        <5>3. s[e] \in Blanks
          BY <1>3, <5>1, <5>2
        <5> QED BY <3>2, <5>2, <5>3 DEF Blank
      <4> QED BY <4>1, <4>2
    <3>4. ASSUME NEW k \in Blank(s), i <= k PROVE e <= k
      <4>1. k \in 1 .. Len(s) /\ s[k] \in Blanks
        BY <3>2 DEF Blank
      <4>2. ASSUME k < e PROVE FALSE
        <5>1. k - Len(g) \in 1 .. n /\ Len(g) + (k - Len(g)) = k
          BY <1>1, <3>4, <4>1, <4>2
        <5> QED BY <2>1, <2>3, <4>1, <5>1
      <4> QED BY <1>1, <4>1, <4>2
    <3>5. First(s, i, Blank(s)) = e
      <4>1. i \in Nat /\ i <= e
        BY <1>1, <3>1
      <4> HIDE DEF e, i
      <4>2. CASE e = Len(s) + 1
        <5>1. \A k \in Blank(s) : ~(k >= i)
          BY <3>1, <3>2, <3>4, <4>1, <4>2
        <5> QED BY <1>3, <4>2, <5>1, FirstIsEnd
      <4>3. CASE e \in Blank(s) /\ e <= Len(s)
        BY <1>3, <3>1, <3>2, <3>4, <4>1, <4>3, FirstIs
      <4> QED BY <3>3, <4>2, <4>3
    <3> QED BY <2>2, <3>5 DEF To
  <2>5. FirstWord(s) = w
    <3>1. Len(g) + n <= Len(s)
      BY <1>1, <1>3, <1>8
    <3>2. SubSeq(s, Len(g) + 1, Len(g) + n) = w
      BY <1>1, <1>3, <2>3, <3>1, PieceIs
    <3>3. To(s) - 1 = Len(g) + n
      BY <1>1, <2>4
    <3> QED BY <2>2, <3>2, <3>3, Zenon DEF FirstWord
  <2>6. Left(s) = r \/ (r # << >> /\ Left(s) = SubSeq(r, 2, Len(r)))
    <3> DEFINE k == Len(g) + n
    <3>1. k \in Nat /\ Len(s) = k + Len(r) /\ To(s) = k + 1
      BY <1>1, <1>3, <1>8, <2>4
    <3>2. \A j \in 1 .. Len(r) : s[k + j] = r[j]
      BY <1>3, <1>8
    <3>3. CASE r = << >>
      <4>1. Len(r) = 0 /\ After(s, To(s)) = k + 1
        BY <1>1, <3>1, <3>3 DEF After
      <4>2. SubSeq(s, k + 1, k + Len(r)) = r
        <5>1. k \in Nat /\ k + Len(r) <= Len(s) /\ s \in Texts
          BY <1>1, <1>3, <3>1
        <5> HIDE DEF k
        <5> QED BY <3>2, <5>1, PieceIs
      <4> QED BY <3>1, <4>1, <4>2, Zenon DEF Left
    <3>4. CASE r # << >>
      <4> DEFINE u == SubSeq(r, 2, Len(r))
      <4>1. Len(r) >= 1
        BY <1>1, <3>4 DEF Texts
      <4>2. After(s, To(s)) = (k + 1) + 1
        BY <1>1, <3>1, <4>1 DEF After
      <4>3. /\ u \in Texts /\ Len(u) = Len(r) - 1
            /\ \A j \in 1 .. Len(u) : u[j] = r[j + 1]
        <5>1. \A j \in 2 .. Len(r) : r[j] \in Chars
          BY <1>1 DEF Texts
        <5>2. /\ u \in Seq(Chars)
              /\ Len(u) = IF 2 <= Len(r) THEN Len(r) - 2 + 1 ELSE 0
              /\ \A j \in 1 .. Len(r) - 2 + 1 : u[j] = r[2 + j - 1]
          BY <1>1, <5>1, SubSeqProperties
        <5>3. Len(u) = Len(r) - 1
          <6>1. Len(u) = IF 2 <= Len(r) THEN Len(r) - 2 + 1 ELSE 0
            BY <5>2
          <6> DEFINE m == Len(r)
          <6>2. m \in Nat /\ m >= 1
            BY <1>1, <4>1
          <6> HIDE DEF u, m
          <6>3. Len(u) = IF 2 <= m THEN m - 2 + 1 ELSE 0
            BY <6>1 DEF m
          <6>4. Len(u) = m - 1
            BY <6>2, <6>3
          <6> QED BY <6>4 DEF m
        <5>4. ASSUME NEW j \in 1 .. Len(u) PROVE u[j] = r[j + 1]
          <6>1. j \in 1 .. Len(r) - 2 + 1 /\ 2 + j - 1 = j + 1
            BY <1>1, <5>3
          <6> QED BY <5>2, <6>1
        <5> QED BY <5>2, <5>3, <5>4 DEF Texts
      <4> HIDE DEF u
      <4>4. ASSUME NEW j \in 1 .. Len(u) PROVE s[(k + 1) + j] = u[j]
        <5>1. j + 1 \in 1 .. Len(r) /\ k + (j + 1) = (k + 1) + j
          BY <1>1, <3>1, <4>1, <4>3
        <5> QED BY <3>2, <4>3, <5>1
      <4>5. k + 1 \in Nat /\ (k + 1) + Len(u) = Len(s)
        BY <1>1, <3>1, <4>3
      <4>6. SubSeq(s, (k + 1) + 1, (k + 1) + Len(u)) = u
        <5> DEFINE l == k + 1
        <5>1. l \in Nat /\ l + Len(u) <= Len(s) /\ \A j \in 1 .. Len(u) : s[l + j] = u[j]
          BY <1>1, <1>3, <4>4, <4>5
        <5> HIDE DEF l, k
        <5>2. SubSeq(s, l + 1, l + Len(u)) = u
          BY <1>3, <4>3, <5>1, PieceIs
        <5> QED BY <5>2 DEF l
      <4>7. Left(s) = u
        BY <4>2, <4>5, <4>6, Zenon DEF Left
      <4> QED BY <3>4, <4>7 DEF u
    <3> QED BY <3>3, <3>4
  <2> QED BY <1>3, <1>5, <2>5, <2>6 DEF w
<1> QED BY <1>2, <1>6, <1>7, <1>8

\* As many words of ws as there is room for.
Taken(ws, n) == SubSeq(ws, 1, IF Len(ws) <= n THEN Len(ws) ELSE n)

\* If there is room, the first of them comes before what is taken of the others.
LEMMA TakenFirst ==
  ASSUME NEW ws \in Seq(Words), ws # << >>, NEW n \in Nat \ {0}
  PROVE  Taken(ws, n) = <<Head(ws)>> \o Taken(Tail(ws), n - 1)
<1> DEFINE tl == Tail(ws)
           l == Len(ws)
           m == IF l <= n THEN l ELSE n
           k == IF Len(tl) <= n - 1 THEN Len(tl) ELSE n - 1
           a == SubSeq(ws, 1, m)
           b == SubSeq(tl, 1, k)
           h == <<Head(ws)>>
<1>1. /\ l \in Nat \ {0} /\ tl \in Seq(Words) /\ Len(tl) = l - 1
      /\ Head(ws) \in Words /\ Head(ws) = ws[1]
      /\ \A i \in 1 .. Len(tl) : tl[i] = ws[i + 1]
      /\ \A i \in 1 .. l : ws[i] \in Words
  <2>1. l \in Nat \ {0} /\ \A i \in 1 .. l : ws[i] \in Words
    BY EmptySeq
  <2>2. Head(ws) = ws[1]
    OBVIOUS
  <2> QED BY <2>1, <2>2, HeadTailProperties
<1>2. m \in Nat \ {0} /\ m <= l /\ k \in Nat /\ k = m - 1 /\ k <= Len(tl)
  <2> HIDE DEF tl, l
  <2> QED BY <1>1
<1> HIDE DEF tl, l, m, k
<1>3. a \in Seq(Words) /\ Len(a) = m /\ \A i \in 1 .. m : a[i] = ws[i]
  <2>1. \A i \in 1 .. m : ws[i] \in Words
    BY <1>1, <1>2
  <2>2. /\ a \in Seq(Words) /\ Len(a) = IF 1 <= m THEN m - 1 + 1 ELSE 0
        /\ \A i \in 1 .. m - 1 + 1 : a[i] = ws[1 + i - 1]
    <3> HIDE DEF a
    <3> QED BY <1>2, <2>1, SubSeqProperties DEF a
  <2> HIDE DEF a
  <2> QED BY <1>2, <2>2
<1>4. b \in Seq(Words) /\ Len(b) = k /\ \A i \in 1 .. k : b[i] = ws[i + 1]
  <2>1. \A i \in 1 .. k : tl[i] \in Words /\ tl[i] = ws[i + 1]
    BY <1>1, <1>2
  <2>2. /\ b \in Seq(Words) /\ Len(b) = IF 1 <= k THEN k - 1 + 1 ELSE 0
        /\ \A i \in 1 .. k - 1 + 1 : b[i] = tl[1 + i - 1]
    <3> HIDE DEF b
    <3> QED BY <1>2, <2>1, SubSeqProperties DEF b
  <2> HIDE DEF b
  <2> QED BY <1>2, <2>1, <2>2
<1>5. h \in Seq(Words) /\ Len(h) = 1 /\ h[1] = ws[1]
  BY <1>1
<1> HIDE DEF a, b, h
<1>6. /\ h \o b \in Seq(Words) /\ Len(h \o b) = m
      /\ \A i \in 1 .. m : (h \o b)[i] = ws[i]
  <2>1. /\ h \o b \in Seq(Words) /\ Len(h \o b) = 1 + k
        /\ \A i \in 1 .. 1 + k : (h \o b)[i] = IF i <= 1 THEN h[i] ELSE b[i - 1]
    <3>1. h \in Seq(Words) /\ b \in Seq(Words)
      BY <1>4, <1>5
    <3>2. /\ h \o b \in Seq(Words) /\ Len(h \o b) = Len(h) + Len(b)
          /\ \A i \in 1 .. Len(h) + Len(b) :
                (h \o b)[i] = IF i <= Len(h) THEN h[i] ELSE b[i - Len(h)]
      BY <3>1, ConcatProperties, Zenon
    <3>3. Len(h) = 1 /\ Len(b) = k
      BY <1>4, <1>5
    <3> QED BY <3>2, <3>3, Zenon
  <2> DEFINE c == h \o b
  <2> HIDE DEF c
  <2>2. ASSUME NEW i \in 1 .. m PROVE c[i] = ws[i]
    <3>1. i \in 1 .. 1 + k /\ c[i] = IF i <= 1 THEN h[i] ELSE b[i - 1]
      BY <1>2, <2>1 DEF c
    <3>2. CASE i = 1
      BY <1>5, <3>1, <3>2
    <3>3. CASE i # 1
      <4>1. i - 1 \in 1 .. k /\ (i - 1) + 1 = i
        BY <1>2, <3>3
      <4> QED BY <1>4, <3>1, <3>3, <4>1
    <3> QED BY <3>2, <3>3
  <2> QED BY <1>2, <2>1, <2>2 DEF c
<1>7. a = h \o b
  <2> DEFINE c == h \o b
  <2> HIDE DEF c
  <2>1. c \in Seq(Words) /\ Len(c) = m /\ \A i \in 1 .. m : c[i] = ws[i]
    BY <1>6 DEF c
  <2>2. a = c
    BY <1>3, <2>1, SeqEqual
  <2> QED BY <2>2 DEF c
<1>8. Taken(ws, n) = a /\ Taken(Tail(ws), n - 1) = b
  BY DEF Taken, a, b, m, k, l, tl
<1> QED BY <1>7, <1>8, Zenon DEF h

\* A text without its first character, if that comes from its first third.
LEMMA TailOfJoin ==
  ASSUME NEW g \in Seq(Blanks), g # << >>, NEW t \in Texts, NEW r \in Texts,
         NEW s, Joins(s, g, t, r)
  PROVE  Tail(g) \in Seq(Blanks) /\ Joins(SubSeq(s, 2, Len(s)), Tail(g), t, r)
<1> DEFINE u == SubSeq(s, 2, Len(s))
           v == Tail(g) \o t \o r
<1>1. Tail(g) \in Seq(Blanks) /\ g \in Texts /\ Tail(g) \in Texts
      /\ Len(Tail(g)) = Len(g) - 1 /\ Len(g) \in Nat \ {0}
      /\ \A i \in 1 .. Len(Tail(g)) : Tail(g)[i] = g[i + 1]
  BY HeadTailProperties, BlankTexts, EmptySeq
<1>2. /\ s \in Texts /\ Len(s) = Len(g) + Len(t) + Len(r)
      /\ Len(t) \in Nat /\ Len(r) \in Nat
      /\ \A i \in 1 .. Len(g) : s[i] = g[i]
      /\ \A i \in 1 .. Len(t) : s[Len(g) + i] = t[i]
      /\ \A i \in 1 .. Len(r) : s[Len(g) + Len(t) + i] = r[i]
  BY <1>1, Thirds
<1> DEFINE e == Tail(g)
<1> HIDE DEF e
<1>3. Joins(v, e, t, r)
  BY DEF Joins, e
<1>4. /\ v \in Texts /\ Len(v) = Len(e) + Len(t) + Len(r)
      /\ \A i \in 1 .. Len(e) : v[i] = e[i]
      /\ \A i \in 1 .. Len(t) : v[Len(e) + i] = t[i]
      /\ \A i \in 1 .. Len(r) : v[Len(e) + Len(t) + i] = r[i]
  <2> HIDE DEF v
  <2>1. e \in Texts
    BY <1>1 DEF e
  <2> QED BY <1>3, <2>1, Thirds
<1> HIDE DEF v
<1>5. ASSUME NEW i \in 1 .. Len(v) PROVE s[1 + i] = v[i]
  <2>0. Len(e) = Len(g) - 1
    BY <1>1 DEF e
  <2>1. CASE i <= Len(e)
    <3>1. i \in 1 .. Len(e) /\ i + 1 \in 1 .. Len(g) /\ 1 + i = i + 1
      BY <1>1, <2>0, <2>1
    <3>2. e[i] = g[i + 1]
      BY <1>1, <3>1 DEF e
    <3> QED BY <1>2, <1>4, <3>1, <3>2
  <2>2. CASE Len(e) < i /\ i <= Len(e) + Len(t)
    <3> DEFINE j == i - Len(e)
    <3>1. j \in 1 .. Len(t) /\ Len(e) + j = i /\ Len(g) + j = 1 + i
      BY <1>1, <1>2, <2>0, <2>2
    <3> HIDE DEF j
    <3> QED BY <1>2, <1>4, <3>1
  <2>3. CASE Len(e) + Len(t) < i
    <3> DEFINE j == i - (Len(e) + Len(t))
    <3>1. j \in 1 .. Len(r) /\ Len(e) + Len(t) + j = i /\ Len(g) + Len(t) + j = 1 + i
      BY <1>1, <1>2, <1>4, <2>0, <2>3
    <3> HIDE DEF j
    <3> QED BY <1>2, <1>4, <3>1
  <2> QED BY <1>1, <1>2, <2>0, <2>1, <2>2, <2>3
<1>6. Len(s) = 1 + Len(v)
  BY <1>1, <1>2, <1>4 DEF e
<1>7. SubSeq(s, 1 + 1, 1 + Len(v)) = v
  <2>1. /\ s \in Texts /\ v \in Texts /\ 1 \in Nat /\ 1 + Len(v) <= Len(s)
        /\ \A i \in 1 .. Len(v) : s[1 + i] = v[i]
    <3> HIDE DEF u
    <3>1. Len(s) \in Nat
      BY <1>2 DEF Texts
    <3> QED BY <1>2, <1>4, <1>5, <1>6, <3>1
  <2> QED BY <2>1, PieceIs, Zenon
<1>8. u = v
  <2>1. 1 + 1 = 2
    OBVIOUS
  <2> QED BY <1>6, <1>7, <2>1, Zenon
<1> QED BY <1>1, <1>3, <1>8, Zenon DEF e

\* Of nothing, or where there is no room, nothing is taken.
LEMMA TakenNone ==
  ASSUME NEW ws \in Seq(Words), NEW n \in Nat, ws = << >> \/ n = 0
  PROVE  Taken(ws, n) = << >>
<1>1. (IF Len(ws) <= n THEN Len(ws) ELSE n) = 0
  OBVIOUS
<1>2. SubSeq(ws, 1, 0) = << >>
  BY SubSeqEmpty
<1> QED BY <1>1, <1>2, Zenon DEF Taken

\* What follows the first word as it was typed is nothing or begins with a gap.
LEMMA SpacedBegins ==
  ASSUME NEW gap \in Gaps, NEW quoting \in BOOLEAN, NEW open \in BOOLEAN, NEW ws \in Seq(Words)
  PROVE  /\ Spaced(gap, quoting, open)[ws] \in Texts
         /\ ws = << >> => Spaced(gap, quoting, open)[ws] = << >>
         /\ ws # << >> => /\ Joins(Spaced(gap, quoting, open)[ws], gap, Typed(ws, quoting, open),
                                   Spaced(gap, quoting, open)[Tail(ws)])
                          /\ Spaced(gap, quoting, open)[ws][1] \in Blanks
                          /\ Head(ws) \in Words /\ Tail(ws) \in Seq(Words)
<1> DEFINE f == Spaced(gap, quoting, open)
           r == f[ws]
<1>1. r \in Texts /\ (ws = << >> => r = << >>)
  BY SpacedDef
<1>2. CASE ws # << >>
  <2>1. Head(ws) \in Words /\ Tail(ws) \in Seq(Words)
    BY <1>2, HeadTailProperties
  <2> DEFINE t == Typed(ws, quoting, open)
             e == f[Tail(ws)]
  <2>2. r = gap \o t \o e
    BY <1>2, SpacedDef
  <2>3. gap \in Texts /\ t \in Texts /\ e \in Texts
    <3>1. t \in Texts
      BY <1>2, TypedText, Zenon
    <3> HIDE DEF t
    <3> QED BY <2>1, <3>1, BlankTexts, SpacedDef
  <2>4. Joins(r, gap, t, e)
    BY <2>2, Zenon DEF Joins
  <2>5. gap \in Seq(Blanks) /\ gap # << >>
    BY BlankTexts
  <2>6. 1 \in 1 .. Len(gap) /\ gap[1] \in Blanks
    BY <2>5, EmptySeq
  <2>7. r[1] = gap[1]
    <3> HIDE DEF r, t, e
    <3> QED BY <2>3, <2>4, <2>6, Thirds
  <2> QED BY <1>1, <1>2, <2>1, <2>4, <2>6, <2>7, Zenon
<1> QED BY <1>1, <1>2, Zenon

\* The text is the words as they were typed, after some blanks.
IsTyped(text, blanks, words, gap, quoting, open) ==
    Joins(text, blanks, Typed(words, quoting, open), Spaced(gap, quoting, open)[Tail(words)])

\* shell_parse finds the words of a text that begins, after blanks, with the
\* first of them.
LEMMA ParseWords ==
  ASSUME NEW gap \in Gaps, NEW quoting \in BOOLEAN, NEW open \in BOOLEAN,
         NEW words \in Seq(Words), words # << >>,
         NEW m \in Nat, NEW blanks \in Seq(Blanks), NEW text \in Texts,
         IsTyped(text, blanks, words, gap, quoting, open)
  PROVE  ParseInto[m][text] = Taken(words, m)
<1> DEFINE Begins(s, g, ws) ==
             Joins(s, g, Typed(ws, quoting, open), Spaced(gap, quoting, open)[Tail(ws)])
           Finds(ws) == \A n \in Nat, g \in Seq(Blanks), s \in Texts :
                           Begins(s, g, ws) => ParseInto[n][s] = Taken(ws, n)
           S == {ws \in Seq(Words) : ws # << >> => Finds(ws)}
<1>1. << >> \in S
  <2> HIDE DEF Finds
  <2> QED OBVIOUS
<1>2. ASSUME NEW ws \in Seq(Words), ws # << >>, Tail(ws) \in S PROVE ws \in S
  <2> DEFINE tl == Tail(ws)
             r == Spaced(gap, quoting, open)[tl]
  <2> HIDE DEF Finds
  <2>1. tl \in Seq(Words) /\ (tl # << >> => Finds(tl)) /\ Head(ws) \in Words
    BY <1>2, HeadTailProperties
  <2>2. /\ r \in Texts /\ (tl = << >> => r = << >>)
        /\ tl # << >> => Begins(r, gap, tl) /\ r[1] \in Blanks
    <3> HIDE DEF tl
    <3> QED BY <2>1, SpacedBegins
  <2> HIDE DEF r, tl
  <2>3. ASSUME NEW n \in Nat, NEW g \in Seq(Blanks), NEW s \in Texts, Begins(s, g, ws)
        PROVE  ParseInto[n][s] = Taken(ws, n)
    <3>1. CASE n = 0
      BY <3>1, ParseDef, TakenNone
    <3>2. CASE n # 0
      <4>1. Joins(s, g, Typed(ws, quoting, open), r)
        BY <2>3 DEF r, tl
      <4>2. /\ Visible(s) # {} /\ FirstWord(s) = Head(ws)
            /\ Left(s) = r \/ (r # << >> /\ Left(s) = SubSeq(r, 2, Len(r)))
        <5>1. r = << >> \/ r[1] \in Blanks
          BY <2>2
        <5>2. Tail(ws) = << >> => r = << >>
          BY <2>2 DEF tl
        <5> HIDE DEF Begins
        <5> QED BY <1>2, <2>1, <2>2, <4>1, <5>1, <5>2, FirstWordIs
      <4>3. ParseInto[n][s] = <<Head(ws)>> \o ParseInto[n - 1][Left(s)]
        BY <3>2, <4>2, ParseDef, Zenon
      <4>4. n - 1 \in Nat /\ n \in Nat \ {0}
        BY <3>2
      <4>5. ParseInto[n - 1][Left(s)] = Taken(tl, n - 1)
        <5>1. CASE tl = << >>
          <6>1. Left(s) = << >> /\ << >> \in Texts
            BY <2>2, <4>2, <5>1
          <6>2. Visible(<< >>) = {}
            BY DEF Visible
          <6>3. ParseInto[n - 1][<< >>] = << >>
            BY <4>4, <6>1, <6>2, ParseDef, Zenon
          <6> QED BY <2>1, <4>4, <5>1, <6>1, <6>3, TakenNone
        <5>2. CASE tl # << >>
          <6> DEFINE k == n - 1
          <6>1. Finds(tl) /\ k \in Nat
            BY <2>1, <4>4, <5>2
          <6>2. \E b \in Seq(Blanks) : Begins(Left(s), b, tl)
            <7>1. gap \in Seq(Blanks) /\ gap # << >>
              BY BlankTexts
            <7>2. CASE Left(s) = r
              BY <2>2, <5>2, <7>1, <7>2
            <7>3. CASE Left(s) = SubSeq(r, 2, Len(r))
              <8>1. Head(tl) \in Words /\ Tail(tl) \in Seq(Words)
                BY <2>1, <5>2, SpacedBegins
              <8> DEFINE t == Typed(tl, quoting, open)
                         e == Spaced(gap, quoting, open)[Tail(tl)]
              <8>2. t \in Texts /\ e \in Texts /\ Joins(r, gap, t, e)
                <9>1. t \in Texts
                  BY <2>1, <5>2, TypedText, Zenon
                <9>2. Joins(r, gap, t, e)
                  BY <2>2, <5>2, Zenon
                <9> HIDE DEF t
                <9> QED BY <8>1, <9>1, <9>2, SpacedDef
              <8> HIDE DEF t, e, Begins
              <8>3. Tail(gap) \in Seq(Blanks) /\ Joins(SubSeq(r, 2, Len(r)), Tail(gap), t, e)
                BY <7>1, <8>2, TailOfJoin
              <8>4. Begins(Left(s), Tail(gap), tl)
                BY <7>3, <8>3, Zenon DEF Begins, t, e
              <8> QED BY <8>3, <8>4, Zenon
            <7> QED BY <4>2, <7>2, <7>3
          <6>3. Left(s) \in Texts
            BY <4>2, WordType
          <6> HIDE DEF k, Begins
          <6>4. ParseInto[k][Left(s)] = Taken(tl, k)
            BY <6>1, <6>2, <6>3, Zenon DEF Finds
          <6> QED BY <6>4 DEF k
        <5> QED BY <5>1, <5>2
      <4>6. Taken(ws, n) = <<Head(ws)>> \o Taken(tl, n - 1)
        BY <1>2, <4>4, TakenFirst, Zenon DEF tl
      <4> QED BY <4>3, <4>5, <4>6, Zenon
    <3> QED BY <3>1, <3>2
  <2>4. Finds(ws)
    <3> HIDE DEF Begins
    <3> QED BY <2>3 DEF Finds
  <2> QED BY <1>2, <2>4
<1>3. S = Seq(Words)
  <2>1. S \in SUBSET Seq(Words)
    OBVIOUS
  <2> HIDE DEF S
  <2> QED BY <1>1, <1>2, <2>1, AllByHead
<1>4. Finds(words)
  <2> HIDE DEF Finds
  <2> QED BY <1>3
<1>5. Begins(text, blanks, words)
  BY DEF IsTyped
<1> HIDE DEF Begins
<1> QED BY <1>4, <1>5 DEF Finds

\* The line, spaced as it may be, ends visibly before its last gap.
LEMMA EndsVisibly ==
  ASSUME NEW gap \in Gaps, NEW quoting \in BOOLEAN, NEW open \in BOOLEAN,
         NEW words \in Seq(Words), words # << >>
  PROVE  /\ Len(Spaced(gap, quoting, open)[words]) \in Nat \ {0}
         /\ Spaced(gap, quoting, open)[words][Len(Spaced(gap, quoting, open)[words])] \notin Blanks
<1> DEFINE f == Spaced(gap, quoting, open)
           Ends(t) == Len(t) \in Nat \ {0} /\ t[Len(t)] \notin Blanks
           S == {ws \in Seq(Words) : ws # << >> => Ends(f[ws])}
<1>1. << >> \in S
  <2> HIDE DEF Ends, f
  <2> QED OBVIOUS
<1>2. ASSUME NEW ws \in Seq(Words), ws # << >>, Tail(ws) \in S PROVE ws \in S
  <2> DEFINE tl == Tail(ws)
             r == f[ws]
             t == Typed(ws, quoting, open)
             e == f[tl]
  <2>1. tl \in Seq(Words) /\ Head(ws) \in Words /\ Joins(r, gap, t, e)
    BY <1>2, SpacedBegins
  <2>2. gap \in Texts /\ t \in Texts /\ e \in Texts /\ t # << >> /\ t[Len(t)] \notin Blanks
    <3>1. t \in Texts /\ t # << >> /\ t[Len(t)] \notin Blanks
      BY <1>2, TypedIs, Zenon
    <3> HIDE DEF t
    <3> QED BY <2>1, <3>1, BlankTexts, SpacedBegins
  <2>3. tl = << >> => e = << >>
    BY <2>1, SpacedBegins
  <2>4. tl # << >> => Ends(e)
    <3> HIDE DEF Ends, f
    <3> QED BY <1>2, <2>1
  <2> HIDE DEF f, r, t, e, tl
  <2>5. /\ Len(r) = Len(gap) + Len(t) + Len(e)
        /\ Len(gap) \in Nat /\ Len(t) \in Nat \ {0} /\ Len(e) \in Nat
        /\ \A i \in 1 .. Len(t) : r[Len(gap) + i] = t[i]
        /\ \A i \in 1 .. Len(e) : r[Len(gap) + Len(t) + i] = e[i]
    <3>1. /\ Len(r) = Len(gap) + Len(t) + Len(e)
          /\ Len(gap) \in Nat /\ Len(t) \in Nat /\ Len(e) \in Nat
          /\ \A i \in 1 .. Len(t) : r[Len(gap) + i] = t[i]
          /\ \A i \in 1 .. Len(e) : r[Len(gap) + Len(t) + i] = e[i]
      BY <2>1, <2>2, Thirds
    <3>2. Len(t) # 0
      BY <2>2 DEF Texts
    <3> QED BY <3>1, <3>2
  <2>6. CASE tl = << >>
    <3>1. Len(e) = 0
      BY <2>3, <2>6
    <3>2. Len(r) = Len(gap) + Len(t) /\ Len(t) \in 1 .. Len(t)
      BY <2>5, <3>1
    <3>3. r[Len(r)] = t[Len(t)] /\ Len(r) \in Nat \ {0}
      <4>1. Len(t) \in Nat \ {0} /\ Len(gap) \in Nat
        BY <2>5
      <4>2. r[Len(gap) + Len(t)] = t[Len(t)]
        BY <2>5, <3>2, Zenon
      <4> QED BY <3>2, <4>1, <4>2
    <3>4. Ends(r)
      BY <2>2, <3>3
    <3> HIDE DEF Ends
    <3> QED BY <1>2, <3>4 DEF r
  <2>7. CASE tl # << >>
    <3>1. Len(e) \in 1 .. Len(e)
      BY <2>4, <2>7
    <3>2. Ends(r)
      BY <2>4, <2>5, <2>7, <3>1
    <3> HIDE DEF Ends
    <3> QED BY <1>2, <3>2 DEF r
  <2> QED BY <2>6, <2>7
<1>3. S = Seq(Words)
  <2>1. S \in SUBSET Seq(Words)
    OBVIOUS
  <2> HIDE DEF S
  <2> QED BY <1>1, <1>2, <2>1, AllByHead
<1>4. Ends(f[words])
  <2> HIDE DEF Ends, f
  <2> QED BY <1>3
<1> QED BY <1>4

\* str_trim takes the blanks off a text that is visible at both ends.
LEMMA TrimIs ==
  ASSUME NEW g \in Seq(Blanks), NEW m \in Texts, NEW h \in Seq(Blanks),
         m # << >>, m[1] \notin Blanks, m[Len(m)] \notin Blanks,
         NEW s, Joins(s, g, m, h)
  PROVE  Trim(s) = m
<1> DEFINE i == Len(g) + 1
           j == Len(g) + Len(m)
           S == Visible(s)
<1>1. g \in Texts /\ h \in Texts
  BY BlankTexts
<1>2. /\ s \in Texts /\ Len(s) = Len(g) + Len(m) + Len(h)
      /\ Len(g) \in Nat /\ Len(m) \in Nat /\ Len(h) \in Nat
      /\ \A k \in 1 .. Len(g) : s[k] = g[k]
      /\ \A k \in 1 .. Len(m) : s[Len(g) + k] = m[k]
      /\ \A k \in 1 .. Len(h) : s[Len(g) + Len(m) + k] = h[k]
  BY <1>1, Thirds
<1>3. Len(m) >= 1
  BY <1>2 DEF Texts
<1>4. S \subseteq 1 .. Len(s) /\ DOMAIN s = 1 .. Len(s)
  BY <1>2, Places
<1>5. i \in S /\ j \in S
  <2>1. 1 \in 1 .. Len(m) /\ Len(m) \in 1 .. Len(m) /\ i \in 1 .. Len(s) /\ j \in 1 .. Len(s)
    BY <1>2, <1>3
  <2>2. s[i] = m[1] /\ s[j] = m[Len(m)]
    BY <1>2, <2>1
  <2> QED BY <1>4, <2>1, <2>2 DEF Visible, Blank
<1>6. ASSUME NEW k \in S PROVE i <= k /\ k <= j
  <2>1. k \in 1 .. Len(s) /\ s[k] \notin Blanks
    BY <1>4 DEF Visible, Blank
  <2>2. ASSUME k < i PROVE FALSE
    <3>1. k \in 1 .. Len(g)
      BY <1>2, <2>1, <2>2
    <3>2. g[k] \in Blanks
      BY <3>1
    <3> QED BY <1>2, <2>1, <3>1, <3>2
  <2>3. ASSUME j < k PROVE FALSE
    <3> DEFINE l == k - (Len(g) + Len(m))
    <3>1. l \in 1 .. Len(h) /\ Len(g) + Len(m) + l = k
      BY <1>2, <2>1, <2>3
    <3> HIDE DEF l
    <3>2. h[l] \in Blanks
      BY <3>1
    <3> QED BY <1>2, <2>1, <3>1, <3>2
  <2> QED BY <1>2, <2>1, <2>2, <2>3
<1>7. i \in Nat /\ j \in Nat /\ S \subseteq Nat
  BY <1>2, <1>4
<1> HIDE DEF i, j, S
<1>8. Min(S) = i
  <2>1. ASSUME NEW k \in S, \A l \in S : k <= l PROVE k = i
    BY <1>5, <1>6, <1>7, <2>1
  <2> QED BY <1>5, <1>6, <2>1 DEF Min
<1>9. Max(S) = j
  <2>1. ASSUME NEW k \in S, \A l \in S : k >= l PROVE k = j
    BY <1>5, <1>6, <1>7, <2>1
  <2>2. \A l \in S : j >= l
    BY <1>6, <1>7
  <2> QED BY <1>5, <2>1, <2>2 DEF Max
<1>10. SubSeq(s, i, j) = m
  <2>1. Len(g) \in Nat /\ Len(g) + Len(m) <= Len(s)
    BY <1>2
  <2>2. SubSeq(s, Len(g) + 1, Len(g) + Len(m)) = m
    BY <1>2, <2>1, PieceIs
  <2> QED BY <2>2 DEF i, j
<1>11. S # {}
  BY <1>5
<1> QED BY <1>8, <1>9, <1>10, <1>11 DEF Trim, S

\* A line of words, however they were spaced and quoted, is understood.
LEMMA LineUnderstood ==
  ASSUME NEW ws \in Seq(Words), NEW gap \in Gaps, NEW quoting \in BOOLEAN, NEW open \in BOOLEAN
  PROVE  Parse(Trim(Line(ws, gap, quoting, open))) = Taken(ws, MaxArgs)
<1> DEFINE f == Spaced(gap, quoting, open)
           line == Line(ws, gap, quoting, open)
<1>1. MaxArgs \in Nat /\ gap \in Texts /\ gap \in Seq(Blanks) /\ gap # << >>
  BY LimitsAssumption, BlankTexts
<1>2. CASE ws = << >>
  <2>1. Line(ws, gap, quoting, open) = << >> \o gap
    BY <1>2, SpacedDef DEF Line
  <2>2. << >> \o gap = gap
    BY <1>1
  <2>3. Visible(gap) = {}
    <3>1. \A k \in DOMAIN gap : gap[k] \in Blanks
      BY <1>1
    <3> QED BY <3>1 DEF Visible, Blank
  <2>4. Trim(gap) = << >>
    BY <2>3 DEF Trim
  <2>5. << >> \in Texts /\ Visible(<< >>) = {}
    BY DEF Texts, Visible
  <2>6. ParseInto[MaxArgs][<< >>] = << >>
    BY <1>1, <2>5, ParseDef, Zenon
  <2>7. Taken(ws, MaxArgs) = << >>
    BY <1>1, <1>2, TakenNone
  <2>8. Trim(Line(ws, gap, quoting, open)) = << >>
    BY <2>1, <2>2, <2>4, Zenon
  <2> QED BY <2>6, <2>7, <2>8, Zenon DEF Parse
<1>3. CASE ws # << >>
  <2> DEFINE t == Typed(ws, quoting, open)
             e == f[Tail(ws)]
             m == t \o e
             r == f[ws]
  <2>1. Joins(r, gap, t, e) /\ Head(ws) \in Words /\ Tail(ws) \in Seq(Words)
    BY <1>3, SpacedBegins
  <2>2. /\ t \in Texts /\ e \in Texts /\ r \in Texts
        /\ t # << >> /\ t[1] \notin Blanks
    <3>1. t \in Texts /\ t # << >> /\ t[1] \notin Blanks
      BY <1>3, TypedIs, Zenon
    <3> HIDE DEF t
    <3> QED BY <2>1, <3>1, SpacedBegins
  <2>3. Len(r) \in Nat \ {0} /\ r[Len(r)] \notin Blanks
    BY <1>3, EndsVisibly
  <2> HIDE DEF t, e, r, m
  <2>4. Joins(m, << >>, t, e)
    <3>1. t \in Seq(Chars)
      BY <2>2 DEF Texts
    <3>2. << >> \o t = t
      BY <3>1
    <3> QED BY <3>2, Zenon DEF Joins, m
  <2>5. /\ m \in Texts /\ Len(m) = Len(t) + Len(e)
        /\ Len(t) \in Nat \ {0} /\ Len(e) \in Nat
        /\ m[1] = t[1]
    <3>1. << >> \in Texts /\ Len(<< >>) = 0
      BY DEF Texts
    <3>2. /\ m \in Texts /\ Len(m) = 0 + Len(t) + Len(e)
          /\ Len(t) \in Nat /\ Len(e) \in Nat
          /\ \A i \in 1 .. Len(t) : m[0 + i] = t[i]
      BY <2>2, <2>4, <3>1, Thirds
    <3>3. Len(t) # 0
      BY <2>2 DEF Texts
    <3>4. 1 \in 1 .. Len(t) /\ 0 + 1 = 1
      BY <3>2, <3>3
    <3> QED BY <3>2, <3>3, <3>4
  <2>6. r = gap \o m
    <3>1. gap \in Seq(Chars) /\ t \in Seq(Chars) /\ e \in Seq(Chars)
      BY <1>1, <2>2 DEF Texts
    <3>2. (gap \o t) \o e = gap \o (t \o e)
      BY <3>1, ConcatAssociative
    <3> QED BY <2>1, <3>2, Zenon DEF Joins, m
  <2>7. m[Len(m)] \notin Blanks
    <3>1. Joins(r, gap, m, << >>)
      <4>1. gap \o m \o << >> = gap \o m
        BY <1>1, <2>5 DEF Texts
      <4> QED BY <2>6, <4>1, Zenon DEF Joins
    <3>2. << >> \in Texts /\ Len(<< >>) = 0
      BY DEF Texts
    <3> DEFINE z == << >>
    <3> HIDE DEF z
    <3>3. gap \in Texts /\ m \in Texts /\ z \in Texts /\ Joins(r, gap, m, z) /\ Len(z) = 0
      BY <1>1, <2>5, <3>1, <3>2 DEF z
    <3>4. /\ Len(r) = Len(gap) + Len(m) + Len(z) /\ Len(gap) \in Nat /\ Len(m) \in Nat
          /\ \A i \in 1 .. Len(m) : r[Len(gap) + i] = m[i]
      BY <3>3, Thirds
    <3>5. /\ Len(r) = Len(gap) + Len(m) + 0 /\ Len(gap) \in Nat /\ Len(m) \in Nat
          /\ \A i \in 1 .. Len(m) : r[Len(gap) + i] = m[i]
      BY <3>3, <3>4
    <3>6. Len(m) \in 1 .. Len(m) /\ Len(r) = Len(gap) + Len(m)
      BY <2>5, <3>5
    <3> QED BY <2>3, <3>5, <3>6
  <2>8. Joins(line, gap, m, gap)
    <3>1. line = r \o gap
      BY DEF Line, r
    <3> QED BY <2>6, <3>1, Zenon DEF Joins
  <2>9. m # << >> /\ m[1] \notin Blanks
    BY <2>2, <2>5
  <2> HIDE DEF line
  <2>10. Trim(line) = m
    BY <1>1, <2>5, <2>7, <2>8, <2>9, TrimIs
  <2>11. << >> \in Seq(Blanks)
    OBVIOUS
  <2>12. ParseInto[MaxArgs][m] = Taken(ws, MaxArgs)
    <3>1. IsTyped(m, << >>, ws, gap, quoting, open)
      BY <2>4, Zenon DEF t, e, IsTyped
    <3>2. MaxArgs \in Nat /\ m \in Texts
      BY <1>1, <2>5
    <3> DEFINE z == << >>
    <3>3. ws # << >> /\ z \in Seq(Blanks) /\ IsTyped(m, z, ws, gap, quoting, open)
      BY <1>3, <2>11, <3>1
    <3> HIDE DEF z, f
    <3> QED BY <3>2, <3>3, ParseWords
  <2> QED BY <2>10, <2>12, Zenon DEF Parse, line
<1> QED BY <1>2, <1>3

\* What is taken are words, and no more than there is room for.
LEMMA TakenWords ==
  ASSUME NEW ws \in Seq(Words), NEW n \in Nat
  PROVE  /\ Taken(ws, n) \in Seq(Words) /\ Len(Taken(ws, n)) <= n
         /\ Taken(ws, n) = SubSeq(ws, 1, Min({Len(ws), n}))
<1> DEFINE k == IF Len(ws) <= n THEN Len(ws) ELSE n
<1>1. Len(ws) \in Nat /\ k \in Nat /\ k <= Len(ws) /\ k <= n
  OBVIOUS
<1>2. Min({Len(ws), n}) = k
  BY <1>1, MinOfTwo
<1> HIDE DEF k
<1>3. SubSeq(ws, 1, k) \in Seq(Words) /\ Len(SubSeq(ws, 1, k)) = k
  <2>1. \A i \in 1 .. k : ws[i] \in Words
    BY <1>1
  <2>2. /\ SubSeq(ws, 1, k) \in Seq(Words)
        /\ Len(SubSeq(ws, 1, k)) = IF 1 <= k THEN k - 1 + 1 ELSE 0
    BY <1>1, <2>1, SubSeqProperties
  <2> DEFINE u == SubSeq(ws, 1, k)
  <2> HIDE DEF u
  <2>3. Len(u) = IF 1 <= k THEN k - 1 + 1 ELSE 0
    BY <2>2 DEF u
  <2>4. Len(u) = k
    BY <1>1, <2>3
  <2> QED BY <2>2, <2>4 DEF u
<1>4. Taken(ws, n) = SubSeq(ws, 1, k)
  BY DEF Taken, k
<1> QED BY <1>1, <1>2, <1>3, <1>4, Zenon

-----------------------------------------------------------------------------
(***************************************************************************)
(* Lines that were cut.  What str_trim and shell_parse make of the start   *)
(* of a text is the start of what they make of the text.                   *)
(***************************************************************************)
\* The text u is how s starts.
Starts(u, s) ==
    /\ u \in Texts /\ s \in Texts /\ Len(u) <= Len(s)
    /\ \A k \in 1 .. Len(u) : u[k] = s[k]

\* The words a are those of b up to one, of which the last of a is the start.
StartsWords(a, b) ==
    /\ Len(a) <= Len(b)
    /\ \A k \in 1 .. Len(a) : IF k < Len(a) THEN a[k] = b[k] ELSE Starts(a[k], b[k])

\* A text starts with itself.
LEMMA StartsItself == ASSUME NEW s \in Texts PROVE Starts(s, s)
<1>1. Len(s) \in Nat
  BY DEF Texts
<1> QED BY <1>1 DEF Starts

\* And with nothing.
LEMMA StartsEmpty == ASSUME NEW s \in Texts PROVE << >> \in Texts /\ Starts(<< >>, s)
<1>1. Len(s) \in Nat /\ << >> \in Texts /\ Len(<< >>) = 0
  BY DEF Texts
<1> DEFINE z == << >>
<1> HIDE DEF z
<1>2. z \in Texts /\ Len(z) = 0
  BY <1>1 DEF z
<1>3. Starts(z, s)
  BY <1>1, <1>2 DEF Starts
<1> QED BY <1>1, <1>3 DEF z

\* A piece of a text.
LEMMA PieceAt ==
  ASSUME NEW s \in Texts, NEW m \in 1 .. Len(s) + 1, NEW n \in m - 1 .. Len(s)
  PROVE  /\ SubSeq(s, m, n) \in Texts /\ Len(SubSeq(s, m, n)) = n - m + 1
         /\ \A k \in 1 .. n - m + 1 : SubSeq(s, m, n)[k] = s[m + k - 1]
<1> DEFINE u == SubSeq(s, m, n)
<1>1. Len(s) \in Nat /\ m \in Int /\ n \in Int /\ m >= 1 /\ n >= m - 1 /\ n <= Len(s)
  BY DEF Texts
<1>2. \A i \in m .. n : s[i] \in Chars
  BY <1>1 DEF Texts
<1>3. /\ u \in Seq(Chars)
      /\ Len(u) = IF m <= n THEN n - m + 1 ELSE 0
      /\ \A i \in 1 .. n - m + 1 : u[i] = s[m + i - 1]
  BY <1>1, <1>2, SubSeqProperties
<1> HIDE DEF u
<1>4. Len(u) = n - m + 1
  BY <1>1, <1>3
<1>5. u \in Texts /\ Len(u) = n - m + 1 /\ \A i \in 1 .. n - m + 1 : u[i] = s[m + i - 1]
  BY <1>3, <1>4 DEF Texts
<1> QED BY <1>5 DEF u

\* Pieces that begin at one place start alike.
LEMMA StartOfPiece ==
  ASSUME NEW u, NEW s, Starts(u, s),
         NEW m \in 1 .. Len(u) + 1, NEW n \in m - 1 .. Len(u), NEW l \in n .. Len(s)
  PROVE  Starts(SubSeq(u, m, n), SubSeq(s, m, l))
<1> DEFINE a == SubSeq(u, m, n)
           b == SubSeq(s, m, l)
<1>1. /\ u \in Texts /\ s \in Texts /\ Len(u) \in Nat /\ Len(s) \in Nat /\ Len(u) <= Len(s)
      /\ \A k \in 1 .. Len(u) : u[k] = s[k]
  BY DEF Starts, Texts
<1>2. /\ m \in 1 .. Len(s) + 1 /\ l \in m - 1 .. Len(s)
      /\ m \in Int /\ n \in Int /\ l \in Int /\ n <= l /\ m >= 1 /\ n <= Len(u)
  BY <1>1
<1>3. /\ a \in Texts /\ Len(a) = n - m + 1
      /\ \A k \in 1 .. n - m + 1 : a[k] = u[m + k - 1]
  BY <1>1, PieceAt
<1>4. /\ b \in Texts /\ Len(b) = l - m + 1
      /\ \A k \in 1 .. l - m + 1 : b[k] = s[m + k - 1]
  BY <1>1, <1>2, PieceAt
<1> HIDE DEF a, b
<1>5. ASSUME NEW k \in 1 .. Len(a) PROVE a[k] = b[k]
  <2>1. k \in 1 .. n - m + 1 /\ k \in 1 .. l - m + 1 /\ m + k - 1 \in 1 .. Len(u)
    BY <1>2, <1>3
  <2> QED BY <1>1, <1>3, <1>4, <2>1
<1>6. Len(a) <= Len(b)
  BY <1>2, <1>3, <1>4
<1>7. Starts(a, b)
  BY <1>3, <1>4, <1>5, <1>6 DEF Starts
<1> QED BY <1>7 DEF a, b

\* What io_read_line keeps is the start of what was typed, or all of it.
LEMMA KeptIs ==
  ASSUME NEW s \in Texts
  PROVE  Starts(Kept(s), s) /\ (Len(s) <= MaxInput => Kept(s) = s)
<1> DEFINE n == Min({Len(s), MaxInput})
<1>1. s \in Seq(Chars) /\ Len(s) \in Nat /\ MaxInput \in Nat
  BY LimitsAssumption DEF Texts
<1>2. n \in Nat /\ n <= Len(s) /\ (Len(s) <= MaxInput => n = Len(s))
  BY <1>1, MinOfTwo
<1>3. Kept(s) = SubSeq(s, 1, n)
  BY DEF Kept
<1> HIDE DEF n
<1>4. SubSeq(s, 1, Len(s)) = s
  BY <1>1, SubSeqFull
<1>5. 1 \in 1 .. Len(s) + 1 /\ n \in 1 - 1 .. Len(s) /\ Len(s) \in n .. Len(s)
  BY <1>1, <1>2
<1>6. Starts(SubSeq(s, 1, n), SubSeq(s, 1, Len(s)))
  BY <1>5, StartsItself, StartOfPiece
<1>7. Starts(SubSeq(s, 1, n), s)
  BY <1>4, <1>6, Zenon
<1>8. Len(s) <= MaxInput => SubSeq(s, 1, n) = s
  BY <1>2, <1>4, Zenon
<1> QED BY <1>3, <1>7, <1>8, Zenon

\* The least and the greatest of some places.
LEMMA Ends ==
  ASSUME NEW n \in Nat, NEW T, T \subseteq 1 .. n, T # {}
  PROVE  /\ Min(T) \in T /\ \A k \in T : Min(T) <= k
         /\ Max(T) \in T /\ \A k \in T : k <= Max(T)
<1>1. PICK m \in T : \A k \in T : m <= k
  <2>1. T \subseteq Nat
    OBVIOUS
  <2> QED BY <2>1, LeastNumber
<1>2. Min(T) \in T /\ \A k \in T : Min(T) <= k
  BY <1>1 DEF Min
<1> DEFINE S == {n - k : k \in T}
<1>3. S \subseteq Nat /\ S # {}
  OBVIOUS
<1>4. PICK l \in S : \A k \in S : l <= k
  <2> HIDE DEF S
  <2> QED BY <1>3, LeastNumber
<1>5. PICK j \in T : l = n - j
  BY <1>4
<1>6. ASSUME NEW k \in T PROVE j >= k
  <2>1. n - k \in S
    OBVIOUS
  <2>2. l <= n - k
    BY <1>4, <2>1
  <2>3. j \in Nat /\ k \in Nat
    OBVIOUS
  <2> QED BY <1>5, <2>2, <2>3
<1>7. Max(T) \in T /\ \A k \in T : Max(T) >= k
  BY <1>6 DEF Max
<1>8. \A k \in T : k \in Nat
  OBVIOUS
<1> QED BY <1>2, <1>7, <1>8

\* Where a text is visible, and where its quotes and blanks are, the texts that
\* start with it are and have.
LEMMA StartsAlike ==
  ASSUME NEW u, NEW s, Starts(u, s), NEW k \in 1 .. Len(u)
  PROVE  /\ k \in Visible(u) <=> k \in Visible(s)
         /\ k \in Blank(u) <=> k \in Blank(s)
         /\ k \in Quotes(u) <=> k \in Quotes(s)
<1>1. /\ DOMAIN u = 1 .. Len(u) /\ DOMAIN s = 1 .. Len(s) /\ u[k] = s[k] /\ k \in 1 .. Len(s)
  <2>1. u \in Texts /\ s \in Texts /\ Len(u) <= Len(s) /\ u[k] = s[k]
    BY DEF Starts
  <2>2. Len(u) \in Nat /\ Len(s) \in Nat /\ DOMAIN u = 1 .. Len(u) /\ DOMAIN s = 1 .. Len(s)
    BY <2>1, Places
  <2> QED BY <2>1, <2>2
<1> QED BY <1>1 DEF Visible, Blank, Quotes

\* The start of a text, trimmed, is the start of the text, trimmed.
LEMMA StartOfTrim ==
  ASSUME NEW u, NEW s, Starts(u, s)
  PROVE  Starts(Trim(u), Trim(s))
<1>1. /\ u \in Texts /\ s \in Texts /\ Len(u) \in Nat /\ Len(s) \in Nat /\ Len(u) <= Len(s)
      /\ Visible(u) \subseteq 1 .. Len(u) /\ Visible(s) \subseteq 1 .. Len(s)
  BY Places DEF Starts
<1>2. Trim(s) \in Texts
  <2>1. CASE Visible(s) = {}
    BY <1>1, <2>1, StartsEmpty DEF Trim
  <2>2. CASE Visible(s) # {}
    <3> DEFINE i == Min(Visible(s))
               j == Max(Visible(s))
    <3>1. i \in Visible(s) /\ j \in Visible(s) /\ i <= j
      BY <1>1, <2>2, Ends
    <3> HIDE DEF i, j
    <3>2. i \in 1 .. Len(s) + 1 /\ j \in i - 1 .. Len(s)
      BY <1>1, <3>1
    <3>3. SubSeq(s, i, j) \in Texts
      BY <1>1, <3>2, PieceAt
    <3> QED BY <2>2, <3>3 DEF Trim, i, j
  <2> QED BY <2>1, <2>2
<1>3. CASE Visible(u) = {}
  <2>1. Trim(u) = << >>
    BY <1>3 DEF Trim
  <2> QED BY <1>2, <2>1, StartsEmpty
<1>4. CASE Visible(u) # {}
  <2> DEFINE i == Min(Visible(u))
             j == Max(Visible(u))
             p == Min(Visible(s))
             l == Max(Visible(s))
  <2>1. /\ i \in Visible(u) /\ j \in Visible(u) /\ i <= j
        /\ \A k \in Visible(u) : i <= k
    BY <1>1, <1>4, Ends
  <2>2. i \in Visible(s) /\ j \in Visible(s)
    BY <1>1, <2>1, StartsAlike
  <2>3. /\ p \in Visible(s) /\ \A k \in Visible(s) : p <= k
        /\ l \in Visible(s) /\ \A k \in Visible(s) : k <= l
    BY <1>1, <2>2, Ends
  <2> HIDE DEF i, j, p, l
  <2>4. p = i
    <3>1. p <= i /\ p \in 1 .. Len(u) /\ p \in Nat /\ i \in Nat
      BY <1>1, <2>1, <2>2, <2>3
    <3>2. p \in Visible(u)
      BY <2>3, <3>1, StartsAlike
    <3>3. i <= p
      BY <2>1, <3>2
    <3> QED BY <3>1, <3>3
  <2>5. i \in 1 .. Len(u) + 1 /\ j \in i - 1 .. Len(u) /\ l \in j .. Len(s)
    BY <1>1, <2>1, <2>2, <2>3
  <2>6. Starts(SubSeq(u, i, j), SubSeq(s, i, l))
    BY <2>5, StartOfPiece
  <2>7. Trim(u) = SubSeq(u, i, j) /\ Trim(s) = SubSeq(s, p, l)
    BY <1>4, <2>2 DEF Trim, i, j, p, l
  <2> QED BY <2>4, <2>6, <2>7, Zenon
<1> QED BY <1>3, <1>4

\* The places First chooses from.
LEMMA Candidates ==
  ASSUME NEW n \in Nat, NEW i, NEW T, T \subseteq 1 .. n
  PROVE  LET S == {j \in T : j >= i} \cup {n + 1}
         IN  S \subseteq 1 .. n + 1 /\ S # {} /\ n + 1 \in Nat
<1>1. \A j \in T : j \in 1 .. n + 1
  OBVIOUS
<1>2. n + 1 \in 1 .. n + 1 /\ n + 1 \in Nat
  OBVIOUS
<1> QED BY <1>1, <1>2, Zenon

\* A place found in the start of a text is the one found in the text; if there is
\* none, that is not before the start is over.
LEMMA StartOfFirst ==
  ASSUME NEW u, NEW s, Starts(u, s), NEW i \in 1 .. Len(u) + 1,
         NEW A, NEW B, A \subseteq 1 .. Len(u), B \subseteq 1 .. Len(s),
         \A k \in 1 .. Len(u) : k \in A <=> k \in B
  PROVE  /\ First(u, i, A) \in i .. Len(u) + 1 /\ First(s, i, B) \in i .. Len(s) + 1
         /\ First(u, i, A) <= Len(u) => First(s, i, B) = First(u, i, A)
         /\ First(u, i, A) = Len(u) + 1 => First(s, i, B) > Len(u)
<1>1. u \in Texts /\ s \in Texts /\ Len(u) \in Nat /\ Len(s) \in Nat /\ Len(u) <= Len(s)
  BY Places DEF Starts
<1> DEFINE SU == {j \in A : j >= i} \cup {Len(u) + 1}
           SS == {j \in B : j >= i} \cup {Len(s) + 1}
           e == First(u, i, A)
           f == First(s, i, B)
<1>2. i \in 1 .. Len(s) + 1
  BY <1>1
<1>3. e \in i .. Len(u) + 1 /\ f \in i .. Len(s) + 1
  BY <1>1, <1>2, FirstType
<1>4. e \in SU /\ \A k \in SU : e <= k
  <2>1. SU \subseteq 1 .. Len(u) + 1 /\ SU # {} /\ Len(u) + 1 \in Nat
    BY <1>1, Candidates, Zenon
  <2>2. e = Min(SU)
    BY DEF First
  <2> HIDE DEF SU, e
  <2> QED BY <2>1, <2>2, Ends
<1>5. f \in SS /\ \A k \in SS : f <= k
  <2>1. SS \subseteq 1 .. Len(s) + 1 /\ SS # {} /\ Len(s) + 1 \in Nat
    BY <1>1, Candidates, Zenon
  <2>2. f = Min(SS)
    BY DEF First
  <2> HIDE DEF SS, f
  <2> QED BY <2>1, <2>2, Ends
<1> HIDE DEF e, f
<1>6. ASSUME e <= Len(u) PROVE f = e
  <2>1. e \in A /\ e \in B /\ e >= i /\ f <= e
    BY <1>1, <1>3, <1>4, <1>5, <1>6
  <2>2. f \in B /\ f >= i /\ f \in 1 .. Len(u)
    BY <1>1, <1>3, <1>5, <1>6, <2>1
  <2>3. f \in A
    BY <2>2
  <2>4. e <= f
    BY <1>4, <2>2, <2>3
  <2> QED BY <1>3, <2>1, <2>4
<1>7. ASSUME e = Len(u) + 1, f <= Len(u) PROVE FALSE
  <2>1. f \in B /\ f >= i /\ f \in 1 .. Len(u)
    BY <1>1, <1>3, <1>5, <1>7
  <2>2. f \in A
    BY <2>1
  <2>3. e <= f
    BY <1>4, <2>1, <2>2
  <2> QED BY <1>1, <1>3, <1>7, <2>3
<1>8. e = Len(u) + 1 => f > Len(u)
  BY <1>1, <1>3, <1>7
<1> QED BY <1>3, <1>6, <1>8 DEF e, f

\* The first word of the start of a text is that of the text, if it ended before
\* the start did; else its start, with nothing left.
LEMMA StartOfWord ==
  ASSUME NEW u, NEW s, Starts(u, s), Visible(u) # {}
  PROVE  /\ Visible(s) # {} /\ Starts(FirstWord(u), FirstWord(s))
         /\ \/ FirstWord(u) = FirstWord(s) /\ Starts(Left(u), Left(s))
            \/ Left(u) = << >>
<1>1. /\ u \in Texts /\ s \in Texts /\ Len(u) \in Nat /\ Len(s) \in Nat /\ Len(u) <= Len(s)
      /\ Visible(u) \subseteq 1 .. Len(u) /\ Visible(s) \subseteq 1 .. Len(s)
      /\ Blank(u) \subseteq 1 .. Len(u) /\ Blank(s) \subseteq 1 .. Len(s)
      /\ Quotes(u) \subseteq 1 .. Len(u) /\ Quotes(s) \subseteq 1 .. Len(s)
  BY Places DEF Starts
<1>2. Visible(s) # {}
  BY <1>1, StartsAlike
<1> DEFINE i == First(u, 1, Visible(u))
<1>3. i \in 1 .. Len(u) /\ First(s, 1, Visible(s)) = i
  <2>1. PICK k \in Visible(u) : \A j \in Visible(u) : k <= j
    BY <1>1, LeastNumber
  <2>2. i = k
    BY <1>1, <2>1, FirstIs
  <2>3. 1 \in 1 .. Len(u) + 1 /\ i \in 1 .. Len(u)
    BY <1>1, <2>1, <2>2
  <2>4. \A j \in 1 .. Len(u) : j \in Visible(u) <=> j \in Visible(s)
    BY StartsAlike
  <2>5. i <= Len(u) => First(s, 1, Visible(s)) = i
    BY <1>1, <2>3, <2>4, StartOfFirst
  <2> QED BY <1>1, <2>3, <2>5
<1> HIDE DEF i
<1>4. InQuotes(s) <=> InQuotes(u)
  <2>1. u[i] = s[i]
    BY <1>3 DEF Starts
  <2> QED BY <1>3, <2>1 DEF InQuotes, i
<1> DEFINE m == From(u)
<1>5. m \in 1 .. Len(u) + 1 /\ From(s) = m /\ m \in Int
  BY <1>1, <1>3, <1>4 DEF From, i
<1> HIDE DEF m
<1> DEFINE e == To(u)
           f == To(s)
<1>6. /\ e \in m .. Len(u) + 1 /\ f \in m .. Len(s) + 1
      /\ e <= Len(u) => f = e
      /\ e = Len(u) + 1 => f > Len(u)
  <2>1. CASE InQuotes(u)
    <3>1. e = First(u, m, Quotes(u)) /\ f = First(s, m, Quotes(s))
      BY <1>4, <1>5, <2>1 DEF To, m
    <3>2. \A j \in 1 .. Len(u) : j \in Quotes(u) <=> j \in Quotes(s)
      BY StartsAlike
    <3> HIDE DEF e, f
    <3> QED BY <1>1, <1>5, <3>1, <3>2, StartOfFirst
  <2>2. CASE ~InQuotes(u)
    <3>1. e = First(u, m, Blank(u)) /\ f = First(s, m, Blank(s))
      BY <1>4, <1>5, <2>2 DEF To, m
    <3>2. \A j \in 1 .. Len(u) : j \in Blank(u) <=> j \in Blank(s)
      BY StartsAlike
    <3> HIDE DEF e, f
    <3> QED BY <1>1, <1>5, <3>1, <3>2, StartOfFirst
  <2> QED BY <2>1, <2>2
<1> HIDE DEF e, f
<1>7. e \in Int /\ f \in Int /\ m <= e /\ e <= f
  BY <1>1, <1>5, <1>6
<1>8. Starts(FirstWord(u), FirstWord(s))
  <2>1. e - 1 \in m - 1 .. Len(u) /\ f - 1 \in e - 1 .. Len(s)
    BY <1>1, <1>5, <1>6, <1>7
  <2>2. Starts(SubSeq(u, m, e - 1), SubSeq(s, m, f - 1))
    BY <1>5, <2>1, StartOfPiece
  <2> QED BY <1>5, <2>2, Zenon DEF FirstWord, m, e, f
<1>9. CASE e <= Len(u)
  <2>1. f = e
    BY <1>6, <1>9
  <2>2. After(u, e) = e + 1 /\ After(s, f) = e + 1
    BY <1>1, <1>7, <1>9, <2>1 DEF After
  <2>3. e + 1 \in 1 .. Len(u) + 1 /\ Len(u) \in (e + 1) - 1 .. Len(u) /\ Len(s) \in Len(u) .. Len(s)
    BY <1>1, <1>5, <1>7, <1>9
  <2>4. Starts(SubSeq(u, e + 1, Len(u)), SubSeq(s, e + 1, Len(s)))
    BY <2>3, StartOfPiece
  <2>5. Starts(Left(u), Left(s))
    BY <2>2, <2>4, Zenon DEF Left, e, f
  <2>6. FirstWord(u) = FirstWord(s)
    <3> DEFINE a == FirstWord(u)
               b == FirstWord(s)
    <3>1. a = SubSeq(u, m, e - 1) /\ b = SubSeq(s, m, e - 1)
      BY <1>5, <2>1, Zenon DEF FirstWord, m, e, f
    <3>2. e - 1 \in m - 1 .. Len(u) /\ e - 1 \in m - 1 .. Len(s) /\ m \in 1 .. Len(s) + 1
      BY <1>1, <1>5, <1>7, <1>9
    <3>3. Len(SubSeq(u, m, e - 1)) = e - 1 - m + 1 /\ Len(SubSeq(s, m, e - 1)) = e - 1 - m + 1
      BY <1>1, <1>5, <3>2, PieceAt
    <3>4. Len(a) = Len(b)
      BY <3>1, <3>3, Zenon
    <3>5. Starts(a, b)
      BY <1>8
    <3> HIDE DEF a, b
    <3>6. a \in Seq(Chars) /\ b \in Seq(Chars) /\ \A k \in 1 .. Len(a) : a[k] = b[k]
      BY <3>5 DEF Starts, Texts
    <3>7. a = b
      BY <3>4, <3>6, SeqEqual
    <3> QED BY <3>7 DEF a, b
  <2> QED BY <1>2, <1>8, <2>5, <2>6
<1>10. CASE ~(e <= Len(u))
  <2>1. e = Len(u) + 1
    BY <1>1, <1>6, <1>7, <1>10
  <2>2. After(u, e) = Len(u) + 1
    BY <1>1, <2>1 DEF After
  <2>3. SubSeq(u, Len(u) + 1, Len(u)) = << >>
    BY <1>1, SubSeqEmpty
  <2>4. Left(u) = << >>
    BY <2>2, <2>3, Zenon DEF Left, e
  <2> QED BY <1>2, <1>8, <2>4
<1> QED BY <1>9, <1>10

\* Before words that start like others, words of which one starts like the other.
LEMMA StartsWordsOn ==
  ASSUME NEW x, NEW y, NEW a \in Seq(Texts), NEW b \in Seq(Texts), Starts(x, y),
         a = << >> \/ (x = y /\ StartsWords(a, b))
  PROVE  StartsWords(<<x>> \o a, <<y>> \o b)
<1> DEFINE c == <<x>> \o a
           d == <<y>> \o b
<1>1. x \in Texts /\ y \in Texts /\ Len(a) \in Nat /\ Len(b) \in Nat
  BY DEF Starts
<1>2. /\ Len(c) = 1 + Len(a) /\ c[1] = x
      /\ \A k \in 1 .. Len(a) : c[k + 1] = a[k]
  BY <1>1
<1>3. /\ Len(d) = 1 + Len(b) /\ d[1] = y
      /\ \A k \in 1 .. Len(b) : d[k + 1] = b[k]
  BY <1>1
<1> HIDE DEF c, d
<1>4. CASE Len(a) = 0
  <2>1. Len(c) = 1 /\ Len(c) <= Len(d)
    BY <1>1, <1>2, <1>3, <1>4
  <2>2. \A k \in 1 .. Len(c) : k = 1 /\ ~(k < Len(c))
    BY <2>1
  <2>3. StartsWords(c, d)
    BY <1>2, <1>3, <2>1, <2>2 DEF StartsWords
  <2> QED BY <2>3 DEF c, d
<1>5. CASE Len(a) # 0
  <2>1. x = y /\ StartsWords(a, b)
    BY <1>5
  <2>2. Len(a) <= Len(b) /\ Len(c) <= Len(d)
    BY <1>1, <1>2, <1>3, <2>1 DEF StartsWords
  <2>3. ASSUME NEW k \in 1 .. Len(c)
        PROVE  IF k < Len(c) THEN c[k] = d[k] ELSE Starts(c[k], d[k])
    <3>1. CASE k = 1
      <4>1. k < Len(c)
        BY <1>1, <1>2, <1>5, <3>1
      <4> QED BY <1>2, <1>3, <2>1, <3>1, <4>1
    <3>2. CASE k # 1
      <4> DEFINE l == k - 1
      <4>1. l \in 1 .. Len(a) /\ l \in 1 .. Len(b) /\ l + 1 = k /\ (l < Len(a) <=> k < Len(c))
        BY <1>1, <1>2, <2>2, <3>2
      <4> HIDE DEF l
      <4>2. c[k] = a[l] /\ d[k] = b[l]
        BY <1>2, <1>3, <4>1
      <4>3. IF l < Len(a) THEN a[l] = b[l] ELSE Starts(a[l], b[l])
        BY <2>1, <4>1 DEF StartsWords
      <4> QED BY <4>1, <4>2, <4>3
    <3> QED BY <3>1, <3>2
  <2>4. StartsWords(c, d)
    BY <2>2, <2>3 DEF StartsWords
  <2> QED BY <2>4 DEF c, d
<1> QED BY <1>4, <1>5

\* The words of the start of a text are words of the text, the last maybe only
\* the start of one.
LEMMA StartOfParse ==
  ASSUME NEW m \in Nat, NEW text, NEW start, Starts(start, text)
  PROVE  StartsWords(ParseInto[m][start], ParseInto[m][text])
<1> DEFINE S == {n \in Nat : \A u, s \in Texts :
                    Starts(u, s) => StartsWords(ParseInto[n][u], ParseInto[n][s])}
<1>1. ASSUME NEW b \in Seq(Texts) PROVE StartsWords(<< >>, b)
  <2> DEFINE z == << >>
  <2>1. Len(z) = 0 /\ Len(b) \in Nat
    OBVIOUS
  <2> HIDE DEF z
  <2>2. StartsWords(z, b)
    BY <2>1 DEF StartsWords
  <2> QED BY <2>2 DEF z
<1>2. 0 \in S
  <2>1. ASSUME NEW u \in Texts, NEW s \in Texts
        PROVE  StartsWords(ParseInto[0][u], ParseInto[0][s])
    <3>1. ParseInto[0][u] = << >> /\ ParseInto[0][s] \in Seq(Texts)
      BY ParseDef
    <3> QED BY <1>1, <3>1
  <2> QED BY <2>1
<1>3. ASSUME NEW n \in S PROVE n + 1 \in S
  <2>1. n \in Nat /\ n + 1 \in Nat /\ n + 1 # 0 /\ (n + 1) - 1 = n
    OBVIOUS
  <2>2. ASSUME NEW u \in Texts, NEW s \in Texts, Starts(u, s)
        PROVE  StartsWords(ParseInto[n + 1][u], ParseInto[n + 1][s])
    <3>1. CASE Visible(u) = {}
      <4>1. ParseInto[n + 1][u] = << >> /\ ParseInto[n + 1][s] \in Seq(Texts)
        BY <2>1, <3>1, ParseDef
      <4> QED BY <1>1, <4>1
    <3>2. CASE Visible(u) # {}
      <4> DEFINE a == ParseInto[n][Left(u)]
                 b == ParseInto[n][Left(s)]
      <4>1. /\ Visible(s) # {} /\ Starts(FirstWord(u), FirstWord(s))
            /\ \/ FirstWord(u) = FirstWord(s) /\ Starts(Left(u), Left(s))
               \/ Left(u) = << >>
        BY <2>2, <3>2, StartOfWord
      <4>2. Left(u) \in Texts /\ Left(s) \in Texts
        BY <3>2, <4>1, WordType
      <4>3. a \in Seq(Texts) /\ b \in Seq(Texts)
        BY <2>1, <4>2, ParseDef
      <4>4. ParseInto[n + 1][u] = <<FirstWord(u)>> \o a
        BY <2>1, <3>2, ParseDef, Zenon
      <4>5. ParseInto[n + 1][s] = <<FirstWord(s)>> \o b
        BY <2>1, <4>1, ParseDef, Zenon
      <4>6. a = << >> \/ (FirstWord(u) = FirstWord(s) /\ StartsWords(a, b))
        <5>1. CASE Left(u) = << >>
          <6>1. Visible(<< >>) = {}
            BY DEF Visible
          <6>2. a = << >>
            BY <2>1, <4>2, <5>1, <6>1, ParseDef, Zenon
          <6> QED BY <6>2
        <5>2. CASE FirstWord(u) = FirstWord(s) /\ Starts(Left(u), Left(s))
          BY <4>2, <5>2
        <5> QED BY <4>1, <5>1, <5>2
      <4> HIDE DEF a, b
      <4>7. StartsWords(<<FirstWord(u)>> \o a, <<FirstWord(s)>> \o b)
        BY <4>1, <4>3, <4>6, StartsWordsOn
      <4> QED BY <4>4, <4>5, <4>7, Zenon
    <3> QED BY <3>1, <3>2
  <2> QED BY <2>1, <2>2
<1>4. S = Nat
  <2>1. S \in SUBSET Nat
    OBVIOUS
  <2> HIDE DEF S
  <2> QED BY <1>2, <1>3, <2>1, AllNumbers
<1>5. start \in Texts /\ text \in Texts
  BY DEF Starts
<1> QED BY <1>4, <1>5

\* The start of a text is a prefix of it.
LEMMA StartIsPrefix ==
  ASSUME NEW u, NEW s, Starts(u, s)
  PROVE  IsPrefix(u, s)
<1>1. u \in Texts /\ s \in Texts /\ Len(u) \in Nat /\ Len(u) <= Len(s) /\ u \in Seq(Chars)
  BY DEF Starts, Texts
<1>2. SubSeq(u, 1, Len(u)) = u
  BY <1>1, SubSeqFull
<1>3. SubSeq(s, 0 + 1, 0 + Len(u)) = u
  <2>1. 0 \in Nat /\ 0 + Len(u) <= Len(s) /\ \A i \in 1 .. Len(u) : s[0 + i] = u[i]
    BY <1>1 DEF Starts
  <2> QED BY <1>1, <2>1, PieceIs
<1>4. 0 + 1 = 1 /\ 0 + Len(u) = Len(u)
  BY <1>1
<1>5. SubSeq(s, 1, Len(u)) = u
  BY <1>3, <1>4, Zenon
<1> QED BY <1>1, <1>2, <1>5, Zenon DEF IsPrefix

\* A line of words, however they were spaced and quoted, is understood, and of a
\* line that was cut, what was kept.
LEMMA KeptUnderstood ==
  ASSUME NEW ws \in Seq(Words), NEW gap \in Gaps, NEW quoting \in BOOLEAN, NEW open \in BOOLEAN,
         NEW line, line = Line(ws, gap, quoting, open),
         NEW args, args = Parse(Trim(Kept(line)))
  PROVE  /\ args \in Seq(Texts) /\ StartsWords(args, Taken(ws, MaxArgs))
         /\ Len(line) <= MaxInput => args = Taken(ws, MaxArgs)
<1>1. line \in Texts
  <2>1. Spaced(gap, quoting, open)[ws] \in Texts /\ gap \in Texts
    BY SpacedBegins, BlankTexts
  <2> DEFINE r == Spaced(gap, quoting, open)[ws]
  <2> HIDE DEF r
  <2>2. r \o gap \in Texts
    BY <2>1 DEF r, Texts
  <2> QED BY <2>2 DEF r, Line
<1>2. Parse(Trim(line)) = Taken(ws, MaxArgs)
  BY LineUnderstood
<1>3. Starts(Trim(Kept(line)), Trim(line))
  BY <1>1, KeptIs, StartOfTrim
<1>4. MaxArgs \in Nat
  BY LimitsAssumption
<1>5. StartsWords(args, Parse(Trim(line)))
  BY <1>3, <1>4, StartOfParse DEF Parse
<1>6. Trim(Kept(line)) \in Texts
  BY <1>3 DEF Starts
<1>7. args \in Seq(Texts)
  BY <1>4, <1>6, ParseDef DEF Parse
<1>8. Len(line) <= MaxInput => args = Parse(Trim(line))
  BY <1>1, KeptIs, Zenon
<1> QED BY <1>2, <1>5, <1>7, <1>8, Zenon

-----------------------------------------------------------------------------
(***************************************************************************)
(* The invariant: a command has the words that were meant, and the shell   *)
(* is in a directory with the text of a path.                              *)
(***************************************************************************)
\* The parts of the current directory are the path that its text was made of.
Located ==
    /\ current_dir \in Texts /\ Len(current_dir) <= MaxText
    /\ Parts[current_dir] \in Canonical
    /\ current_dir = Text(Parts[current_dir])

\* The words of the command are the first of those that were meant, all that argv
\* holds if the line was kept whole.
Understood ==
    /\ meant \in Seq(Words) /\ argv \in Seq(Texts)
    /\ StartsWords(argv, Taken(meant, MaxArgs))
    /\ whole => argv = Taken(meant, MaxArgs)

IInv == Understood /\ running \in BOOLEAN /\ Located

\* The text of a path, where it fits, is a directory to be in.
LEMMA LocatedAt ==
  ASSUME NEW path \in Canonical, Len(Text(path)) <= MaxText, current_dir' = Text(path)
  PROVE  Located'
<1> DEFINE t == Text(path)
<1>1. t \in Texts /\ Parts[t] = path /\ Len(t) <= MaxText /\ current_dir' = t
  BY TextParts
<1>2. t = Text(Parts[t])
  BY <1>1, Zenon
<1> HIDE DEF t
<1> QED BY <1>1, <1>2 DEF Located

\* The root is one.
LEMMA RootIs ==
  << >> \in Canonical /\ Text(<< >>) = RootText /\ Len(RootText) = 1 /\ RootText \in Texts
  /\ Parts[RootText] = << >> /\ Len(RootText) <= MaxText
<1>1. << >> \in Canonical
  BY LimitsAssumption DEF Canonical
<1>2. Text(<< >>) = RootText
  BY DEF Text
<1>3. Len(RootText) = 1 /\ 1 <= MaxText
  BY LimitsAssumption DEF RootText
<1>4. RootText \in Texts /\ Parts[RootText] = << >>
  BY <1>1, <1>2, TextParts, Zenon
<1> QED BY <1>1, <1>2, <1>3, <1>4

\* Nothing typed is nothing understood.
LEMMA NothingUnderstood ==
  << >> \in Seq(Words) /\ << >> \in Seq(Texts) /\ << >> = Taken(<< >>, MaxArgs)
  /\ StartsWords(<< >>, Taken(<< >>, MaxArgs))
<1>1. << >> \in Seq(Words) /\ << >> \in Seq(Texts) /\ MaxArgs \in Nat
  BY LimitsAssumption
<1>2. << >> = Taken(<< >>, MaxArgs)
  BY <1>1, TakenNone
<1> DEFINE z == << >>
<1>3. Len(z) = 0
  OBVIOUS
<1> HIDE DEF z
<1>4. StartsWords(z, z)
  BY <1>3 DEF StartsWords
<1> QED BY <1>1, <1>2, <1>4 DEF z

\* The invariant holds when the shell starts.
LEMMA InitIInv == ASSUME Init PROVE IInv
<1>1. Located
  BY RootIs DEF Init, Located
<1>2. Understood
  BY NothingUnderstood DEF Init, Understood
<1> QED BY <1>1, <1>2 DEF Init, IInv

\* A command that is over leaves nothing to understand.
LEMMA ReturnsIInv ==
  ASSUME Returns, Located' PROVE IInv'
<1>1. Understood'
  BY NothingUnderstood DEF Returns, Understood
<1> QED BY <1>1 DEF Returns, IInv

\* Every step preserves the invariant.
LEMMA NextIInv == ASSUME IInv, [Next]_vars PROVE IInv'
<1>1. Located /\ Understood
  BY DEF IInv
<1>2. ASSUME UNCHANGED current_dir PROVE Located'
  BY <1>1, <1>2 DEF Located
<1>3. ASSUME NEW ws \in BoundedSeq(Words, MaxWords), NEW gap \in Gaps,
             NEW quoting \in BOOLEAN, NEW open \in BOOLEAN,
             ReadLine(ws, Line(ws, gap, quoting, open))
      PROVE  IInv'
  <2> DEFINE line == Line(ws, gap, quoting, open)
  <2>1. ws \in Seq(Words)
    BY DEF BoundedSeq, SeqOf
  <2>2. /\ argv' = Parse(Trim(Kept(line))) /\ meant' = ws /\ whole' = (Len(line) <= MaxInput)
        /\ running' \in BOOLEAN /\ UNCHANGED current_dir
    BY <1>3 DEF ReadLine
  <2>3. /\ argv' \in Seq(Texts) /\ StartsWords(argv', Taken(ws, MaxArgs))
        /\ Len(line) <= MaxInput => argv' = Taken(ws, MaxArgs)
    BY <2>1, <2>2, KeptUnderstood, Zenon
  <2> HIDE DEF line
  <2>4. Understood'
    BY <2>1, <2>2, <2>3, Zenon DEF Understood
  <2>5. Located'
    BY <1>2, <2>2
  <2> QED BY <2>2, <2>4, <2>5 DEF IInv
<1>4. CASE Cd
  <2> DEFINE input == IF Len(argv) < 2 THEN RootText ELSE argv[2]
  <2>1. input \in Texts
    <3>1. argv \in Seq(Texts)
      BY <1>1 DEF Understood
    <3>2. CASE Len(argv) < 2
      BY <3>2, RootIs
    <3>3. CASE ~(Len(argv) < 2)
      BY <3>1, <3>3
    <3> QED BY <3>2, <3>3
  <2> HIDE DEF input
  <2>2. CASE Fits(current_dir, input) /\ current_dir' = Resolve(current_dir, input)
    <3> DEFINE q == Resolved(current_dir, input)
    <3>1. q \in Canonical /\ Resolve(current_dir, input) = Text(q)
      BY <1>1, <2>1, ResolveIs DEF Located
    <3>2. Len(Text(q)) <= MaxText
      BY <2>2, <3>1 DEF Fits
    <3> HIDE DEF q
    <3>3. Located'
      BY <2>2, <3>1, <3>2, LocatedAt
    <3> QED BY <1>4, <3>3, ReturnsIInv DEF Cd
  <2>3. CASE UNCHANGED current_dir
    BY <1>2, <1>4, <2>3, ReturnsIInv DEF Cd
  <2> QED BY <1>4, <2>2, <2>3 DEF Cd, input
<1>5. CASE Load
  <2>1. CASE current_dir' = RootText
    <3>1. Located'
      BY <2>1, RootIs, LocatedAt
    <3> QED BY <1>5, <3>1, ReturnsIInv DEF Load
  <2>2. CASE UNCHANGED current_dir
    BY <1>2, <1>5, <2>2, ReturnsIInv DEF Load
  <2> QED BY <1>5, <2>1, <2>2 DEF Load
<1>6. CASE OtherCommand
  BY <1>2, <1>6, ReturnsIInv DEF OtherCommand
<1>7. CASE UNCHANGED vars
  <2>1. UNCHANGED <<argv, current_dir, running, meant, whole>>
    BY <1>7 DEF vars
  <2>2. Located'
    BY <1>2, <2>1
  <2> QED BY <1>1, <2>1, <2>2 DEF IInv, Understood
<1> QED BY <1>3, <1>4, <1>5, <1>6, <1>7 DEF Next

\* In every state of the shell a command has the words that were meant, and the
\* current directory is the text of a path within the limits.
THEOREM Invariance == Spec => []IInv
BY InitIInv, NextIInv, PTL DEF Spec

-----------------------------------------------------------------------------
(***************************************************************************)
(* What follows.                                                           *)
(***************************************************************************)
\* Whatever line is typed, shell_parse fills no more of argv than there is, and
\* the current directory, never empty, fits its array.
THEOREM TypeCorrect == Spec => []TypeOK
<1>1. ASSUME IInv PROVE TypeOK
  <2>1. Len(argv) <= MaxArgs
    <3>1. /\ MaxArgs \in Nat /\ meant \in Seq(Words) /\ argv \in Seq(Texts)
          /\ Len(argv) <= Len(Taken(meant, MaxArgs))
      BY <1>1, LimitsAssumption DEF IInv, Understood, StartsWords
    <3> DEFINE taken == Taken(meant, MaxArgs)
    <3>2. taken \in Seq(Words) /\ Len(taken) <= MaxArgs
      BY <3>1, TakenWords
    <3> HIDE DEF taken
    <3>3. Len(taken) \in Nat /\ Len(argv) \in Nat /\ Len(argv) <= Len(taken)
      BY <3>1, <3>2 DEF taken
    <3> QED BY <3>1, <3>2, <3>3
  <2>2. Len(current_dir) \in 1 .. MaxText
    <3>1. current_dir \in Texts /\ current_dir # << >> /\ Len(current_dir) <= MaxText
      BY <1>1, TextParts, Zenon DEF IInv, Located
    <3> QED BY <3>1, LimitsAssumption DEF Texts
  <2> QED BY <1>1, <2>1, <2>2 DEF TypeOK, IInv
<1> QED BY <1>1, Invariance, PTL

\* Keeping, trimming and parsing a line give a command the words that were meant,
\* however they were spaced and quoted, and if the line was too long, words that
\* were meant and the start of one.
THEOREM WordsCorrect == Spec => []WordsUnderstood
<1>1. ASSUME IInv PROVE WordsUnderstood
  <2> DEFINE taken == SubSeq(meant, 1, Min({Len(meant), MaxArgs}))
  <2>1. /\ MaxArgs \in Nat /\ meant \in Seq(Words) /\ argv \in Seq(Texts)
        /\ StartsWords(argv, Taken(meant, MaxArgs))
        /\ whole => argv = Taken(meant, MaxArgs)
    BY <1>1, LimitsAssumption DEF IInv, Understood
  <2>2. Taken(meant, MaxArgs) = taken
    BY <2>1, TakenWords
  <2> HIDE DEF taken
  <2>3. StartsWords(argv, taken) /\ (whole => argv = taken)
    BY <2>1, <2>2, Zenon
  <2>4. ASSUME NEW k \in DOMAIN argv
        PROVE  IF k < Len(argv) THEN argv[k] = taken[k] ELSE IsPrefix(argv[k], taken[k])
    <3>1. k \in 1 .. Len(argv)
      BY <2>1
    <3>2. IF k < Len(argv) THEN argv[k] = taken[k] ELSE Starts(argv[k], taken[k])
      BY <2>3, <3>1 DEF StartsWords
    <3> QED BY <3>2, StartIsPrefix
  <2>5. Len(argv) <= Len(taken)
    BY <2>3 DEF StartsWords
  <2> QED BY <2>3, <2>4, <2>5, Zenon DEF WordsUnderstood, taken
<1> QED BY <1>1, Invariance, PTL

\* The current directory is always the text of a path without "." and "..",
\* of names and of a depth within the limits.
THEOREM CanonicalCorrect == Spec => []CurrentDirCanonical
<1>1. ASSUME IInv PROVE CurrentDirCanonical
  <2> DEFINE p == Parts[current_dir]
  <2>1. p \in Seq(Components) /\ Len(p) <= MaxDepth /\ current_dir = Text(p)
    BY <1>1 DEF IInv, Located, Canonical
  <2>2. ASSUME NEW k \in DOMAIN p
        PROVE  p[k] \notin {<<Dot>>, <<Dot, Dot>>} /\ Len(p[k]) <= MaxName
    <3>1. p[k] \in Components
      BY <2>1
    <3> QED BY <3>1, LimitsAssumption DEF Components, Pieces
  <2> QED BY <2>1, <2>2 DEF CurrentDirCanonical
<1> QED BY <1>1, Invariance, PTL

\* Going to a and from there to b is going to a/b, for any words the command is
\* given and any directory the shell can be in.
THEOREM ComposeCorrect == Spec => []StepsCompose
<1>1. ASSUME IInv PROVE StepsCompose
  <2>1. current_dir \in Texts
    BY <1>1 DEF IInv, Located
  <2> SUFFICES ASSUME NEW a \in Words \ {<< >>}, NEW b \in Words \ {<< >>},
                      b[1] # Slash, Len(a \o <<Slash>> \o b) <= MaxText
               PROVE  Resolve(Resolve(current_dir, a), b)
                        = Resolve(current_dir, a \o <<Slash>> \o b)
    BY Zenon DEF StepsCompose
  <2>2. a \in Texts /\ b \in Texts /\ a # << >> /\ b # << >>
    BY WordsAssumption
  <2> QED BY <2>1, <2>2, Compose, Zenon
<1> QED BY <1>1, Invariance, PTL
=============================================================================
