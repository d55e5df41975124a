---------------------------- MODULE ConsoleProofs ----------------------------
(***************************************************************************)
(* Theorems about the terminal, for lines, screen, ring and input buffer   *)
(* of any size.                                                            *)
(***************************************************************************)
EXTENDS Console, SequenceTheorems, TLAPS

LEMMA Sizes ==
    /\ Width \in Nat \ {0} /\ Height \in Nat \ {0} /\ Lines \in Nat \ {0}
    /\ Lines >= Height /\ MaxLine \in Nat /\ MaxLen \in Nat \ {0}
BY SizesAssumption, MaxLenAssumption

-----------------------------------------------------------------------------
(***************************************************************************)
(* Numbers.                                                                *)
(***************************************************************************)
LEMMA Division ==
    ASSUME NEW n \in Nat \ {0}, NEW a \in Nat
    PROVE  /\ a \div n \in Nat /\ a % n \in 0 .. n - 1
           /\ a = (n * (a \div n)) + (a % n)
OBVIOUS

LEMMA Cancel ==
    ASSUME NEW n \in Nat \ {0}, NEW a \in Int, NEW b \in Int, n * a < n * b
    PROVE  a < b
OBVIOUS

LEMMA Scale ==
    ASSUME NEW n \in Nat \ {0}, NEW a \in Int, NEW b \in Int, a <= b
    PROVE  n * a <= n * b
OBVIOUS

LEMMA StillLess ==
    ASSUME NEW a \in Nat, NEW b \in Nat, NEW c \in Nat, NEW n \in Nat,
           a < b + n, b <= c
    PROVE  a < c + n
OBVIOUS

LEMMA NextTurn ==
    ASSUME NEW n \in Nat \ {0}, NEW a \in Nat
    PROVE  (a + n) % n = a % n
<1> DEFINE q == a \div n
           m == a % n
           r == (a + n) \div n
           k == (a + n) % n
<1>1. /\ q \in Nat /\ m \in 0 .. n - 1 /\ a = (n * q) + m
      /\ r \in Nat /\ k \in 0 .. n - 1 /\ a + n = (n * r) + k
  BY Division
<1> HIDE DEF q, m, r, k
<1>2. n * (q + 1) = (n * q) + n /\ n * q \in Nat /\ n * r \in Nat
  BY <1>1
<1>3. n * (r + 1) = (n * r) + n /\ n * (q + 2) = (n * q) + n + n
  BY <1>1
<1>4. r < q + 2 /\ q + 1 < r + 1
  <2>1. n * r < n * (q + 2) /\ n * (q + 1) < n * (r + 1)
    BY <1>1, <1>2, <1>3
  <2> QED BY <1>1, <2>1, Cancel
<1>5. r = q + 1
  BY <1>1, <1>4
<1> QED BY <1>1, <1>2, <1>5 DEF m, k

LEMMA SlotType == ASSUME NEW l \in Nat PROVE Slot(l) \in 0 .. Lines - 1
BY Sizes, Division DEF Slot

\* Two lines less than a turn of the ring apart have different slots.
LEMMA SlotsDiffer ==
    ASSUME NEW a \in Nat, NEW b \in Nat, a < b, b < a + Lines
    PROVE  Slot(a) # Slot(b)
<1> DEFINE q == a \div Lines
           r == b \div Lines
           m == Slot(a)
<1> SUFFICES ASSUME m = Slot(b) PROVE FALSE
  OBVIOUS
<1>1. /\ q \in Int /\ r \in Int /\ m \in Int
      /\ a = (Lines * q) + m /\ b = (Lines * r) + m
      /\ Lines \in Nat \ {0}
  BY Division, Sizes DEF Slot
<1> HIDE DEF q, r, m
<1>2. Lines * q < Lines * r
  BY <1>1
<1>3. q + 1 <= r
  BY <1>1, <1>2, Cancel
<1>4. Lines * (q + 1) <= Lines * r
  BY <1>1, <1>3, Scale
<1>5. Lines * (q + 1) = (Lines * q) + Lines
  BY <1>1
<1> QED BY <1>1, <1>4, <1>5

LEMMA OldestLine ==
    ASSUME NEW l \in Nat
    PROVE  /\ Oldest(l) \in Nat /\ Oldest(l) <= l /\ l < Oldest(l) + Lines
           /\ LatestViewTop(l) \in 0 .. l /\ Oldest(l) <= LatestViewTop(l)
BY Sizes DEF Oldest, LatestViewTop, Larger

LEMMA OldestGrows ==
    ASSUME NEW a \in Nat, NEW b \in Nat, a <= b
    PROVE  Oldest(a) <= Oldest(b)
BY Sizes DEF Oldest, Larger

LEMMA PositionType ==
    ASSUME NEW l \in Nat, NEW x \in Columns
    PROVE  /\ Position(l, x) \in Nat
           /\ Position(l, x) \div Width = l /\ Position(l, x) % Width = x
<1>1. l * Width \in Nat
  BY Sizes
<1>2. x \in Nat /\ x < Width
  BY Sizes DEF Columns
<1> QED BY <1>1, <1>2, Sizes DEF Position

\* A cell before the cursor, and not a whole ring before it, is in a line of
\* the ring that the cursor's line has not taken, or left of the cursor.
LEMMA Before ==
    ASSUME NEW p \in Nat, NEW l \in Nat, NEW x \in Columns,
           p < Position(l, x), Position(l, x) <= p + Width * (Lines - 1)
    PROVE  LET d == p \div Width
           IN  /\ d \in Nat /\ d <= l /\ l < d + Lines
               /\ p % Width \in Columns
               /\ d = l => p % Width < x
<1> DEFINE d == p \div Width
           y == p % Width
<1>1. /\ d \in Nat /\ y \in 0 .. Width - 1 /\ p = (Width * d) + y
      /\ Width \in Nat \ {0} /\ Lines \in Nat \ {0}
      /\ x \in 0 .. Width - 1 /\ Position(l, x) = (Width * l) + x
      /\ Width * l \in Nat
  <2>1. Width \in Nat \ {0} /\ Lines \in Nat \ {0}
    BY Sizes
  <2>2. d \in Nat /\ y \in 0 .. Width - 1 /\ p = (Width * d) + y
    BY <2>1, Division
  <2>3. x \in 0 .. Width - 1 /\ Position(l, x) = (l * Width) + x
    BY DEF Columns, Position
  <2>4. Width * l \in Nat /\ l * Width = Width * l
    BY <2>1
  <2> QED BY <2>1, <2>2, <2>3, <2>4
<1> HIDE DEF d, y
<1>2. Width * d < Width * (l + 1)
  <2>1. Width * (l + 1) = (Width * l) + Width
    BY <1>1
  <2> QED BY <1>1, <2>1
<1>3. d <= l
  BY <1>1, <1>2, Cancel
<1>4. Width * l < Width * (d + Lines)
  <2>1. Width * (d + Lines) = (Width * d) + (Width * Lines)
    BY <1>1
  <2>2. Width * (Lines - 1) = (Width * Lines) - Width
    BY <1>1
  <2>3. Width * Lines \in Nat /\ Width * d \in Nat
    BY <1>1
  <2> QED BY <1>1, <2>1, <2>2, <2>3
<1>5. l < d + Lines
  BY <1>1, <1>4, Cancel
<1>6. d = l => y < x
  BY <1>1
<1> QED BY <1>1, <1>3, <1>5, <1>6 DEF d, y, Columns

-----------------------------------------------------------------------------
(***************************************************************************)
(* Types.                                                                  *)
(***************************************************************************)
Ring  == [0 .. Lines - 1 -> Row]
Paper == [0 .. MaxLine -> Row]

\* One cell of a table of rows is written.
LEMMA RowWith ==
    ASSUME NEW D, NEW r \in [D -> Row], NEW s \in D, NEW x \in Columns,
           NEW c \in Chars \cup {Space}
    PROVE  LET w == [r EXCEPT ![s][x] = c]
           IN  /\ w \in [D -> Row]
               /\ \A t \in D : t # s => w[t] = r[t]
               /\ w[s] = [r[s] EXCEPT ![x] = c]
               /\ \A y \in Columns : w[s][y] = IF y = x THEN c ELSE r[s][y]
<1>1. r[s] \in Row
  OBVIOUS
<1>2. /\ [r[s] EXCEPT ![x] = c] \in Row
      /\ \A y \in Columns : [r[s] EXCEPT ![x] = c][y] = IF y = x THEN c ELSE r[s][y]
  BY <1>1 DEF Row
<1> QED BY <1>2

LEMMA ClearedRow == Cleared \in Row
BY DEF Cleared, Row

\* One row is cleared.
LEMMA RowCleared ==
    ASSUME NEW D, NEW r \in [D -> Row], NEW s \in D
    PROVE  LET w == [r EXCEPT ![s] = Cleared]
           IN  /\ w \in [D -> Row] /\ w[s] = Cleared
               /\ \A t \in D : t # s => w[t] = r[t]
BY ClearedRow

\* A text without its last character.
LEMMA Shorter ==
    ASSUME NEW s \in Seq(Chars), s # << >>
    PROVE  LET t == SubSeq(s, 1, Len(s) - 1)
           IN  /\ t \in Seq(Chars) /\ Len(t) = Len(s) - 1 /\ Len(t) \in Nat
               /\ \A k \in 1 .. Len(s) - 1 : t[k] = s[k]
<1>1. Len(s) \in Nat \ {0} /\ \A k \in 1 .. Len(s) - 1 : s[k] \in Chars
  BY EmptySeq, ElementOfSeq
<1> DEFINE n == Len(s) - 1
           t == SubSeq(s, 1, n)
<1>2. n \in Nat /\ \A k \in 1 .. n : s[k] \in Chars
  BY <1>1
<1> HIDE DEF n
<1>3. /\ t \in Seq(Chars) /\ Len(t) = IF 1 <= n THEN n - 1 + 1 ELSE 0
      /\ \A k \in 1 .. n - 1 + 1 : t[k] = s[1 + k - 1]
  BY <1>2, SubSeqProperties
<1> HIDE DEF t
<1>4. t \in Seq(Chars) /\ Len(t) = n /\ \A k \in 1 .. n : t[k] = s[k]
  BY <1>2, <1>3
<1> QED BY <1>2, <1>4 DEF n, t

LEMMA Facts ==
    ASSUME TypeOK
    PROVE  /\ terminal_line \in Nat /\ terminal_line <= MaxLine
           /\ terminal_column \in Columns /\ deepest \in Nat
           /\ terminal_line <= deepest /\ deepest <= MaxLine
           /\ Slot(terminal_line) \in 0 .. Lines - 1
           /\ Oldest(deepest) \in Nat /\ deepest < Oldest(deepest) + Lines
           /\ scrollback \in Ring /\ paper \in Paper
           /\ buffer \in Seq(Chars) /\ Len(buffer) \in Nat /\ start \in Nat
<1>1. /\ terminal_line \in Nat /\ terminal_line <= MaxLine
      /\ terminal_column \in Columns /\ deepest \in Nat
      /\ terminal_line <= deepest /\ deepest <= MaxLine
  BY Sizes DEF TypeOK
<1>2. Oldest(deepest) \in Nat /\ deepest < Oldest(deepest) + Lines
  BY <1>1, OldestLine
<1>3. scrollback \in Ring /\ paper \in Paper /\ start \in Nat
  BY DEF TypeOK, Ring, Paper
<1>4. buffer \in Seq(Chars) /\ Len(buffer) \in Nat
  BY LenProperties DEF TypeOK
<1> QED BY <1>1, <1>2, <1>3, <1>4, SlotType

LEMMA CellRing ==
    ASSUME TypeOK, NEW c \in Chars
    PROVE  Cell(c) \in Ring /\ Cell(c)[Slot(terminal_line)][terminal_column] = c
<1>1. /\ scrollback \in Ring /\ Slot(terminal_line) \in 0 .. Lines - 1
      /\ terminal_column \in Columns /\ c \in Chars \cup {Space}
  BY Facts
<1>2. /\ [scrollback[Slot(terminal_line)] EXCEPT ![terminal_column] = c] \in Row
      /\ [scrollback[Slot(terminal_line)] EXCEPT ![terminal_column] = c][terminal_column] = c
  BY <1>1 DEF Ring, Row
<1> QED BY <1>1, <1>2 DEF Cell, Ring

\* The part of TypeOK about the paper and the cursor.
Printing ==
    /\ scrollback \in Ring /\ paper \in Paper
    /\ terminal_line \in 0 .. MaxLine /\ terminal_column \in Columns
    /\ deepest \in terminal_line .. MaxLine

LEMMA FollowType ==
    ASSUME terminal_line \in 0 .. MaxLine, terminal_line' \in 0 .. MaxLine, Follow
    PROVE  viewport_top' \in 0 .. MaxLine
<1>1. terminal_line' \in Nat /\ terminal_line' <= MaxLine
  BY Sizes
<1> QED BY <1>1, OldestLine, Sizes DEF Follow

-----------------------------------------------------------------------------
(***************************************************************************)
(* The ring and the paper.                                                 *)
(***************************************************************************)

\* Ring and paper agree on the lines the ring still has, up to line l.
Same(ring, sheet, l) ==
    \A j \in Oldest(deepest) .. l : ring[Slot(j)] = sheet[j]

\* A character is put on both, in the cursor's line or the one above.
LEMMA Ink ==
    ASSUME TypeOK, HistoryIntact, NEW l \in Nat, l <= terminal_line,
           NEW x \in Columns, NEW c \in Chars \cup {Space}
    PROVE  LET ring  == [scrollback EXCEPT ![Slot(l)][x] = c]
               sheet == [paper EXCEPT ![l][x] = c]
           IN  ring \in Ring /\ sheet \in Paper /\ Same(ring, sheet, l)
<1> DEFINE ring  == [scrollback EXCEPT ![Slot(l)][x] = c]
           sheet == [paper EXCEPT ![l][x] = c]
<1>1. l \in 0 .. MaxLine /\ Slot(l) \in 0 .. Lines - 1
  BY Facts, SlotType, Sizes
<1>2. /\ ring \in Ring /\ ring[Slot(l)] = [scrollback[Slot(l)] EXCEPT ![x] = c]
      /\ \A t \in 0 .. Lines - 1 : t # Slot(l) => ring[t] = scrollback[t]
  BY <1>1, Facts, RowWith DEF Ring
<1>3. /\ sheet \in Paper /\ sheet[l] = [paper[l] EXCEPT ![x] = c]
      /\ \A t \in 0 .. MaxLine : t # l => sheet[t] = paper[t]
  BY <1>1, Facts, RowWith DEF Paper
<1> HIDE DEF ring, sheet
<1>4. ASSUME NEW j \in Oldest(deepest) .. l PROVE ring[Slot(j)] = sheet[j]
  <2>1. /\ j \in Nat /\ j <= l /\ j \in 0 .. MaxLine
        /\ j \in Oldest(deepest) .. terminal_line /\ l < j + Lines
    BY <1>1, Facts, Sizes
  <2>2. scrollback[Slot(j)] = paper[j] /\ Slot(j) \in 0 .. Lines - 1
    BY <2>1, SlotType DEF HistoryIntact
  <2>3. CASE j = l
    BY <1>2, <1>3, <2>2, <2>3
  <2>4. CASE j < l
    BY <1>2, <1>3, <2>1, <2>2, <2>4, SlotsDiffer
  <2> QED BY <2>1, <2>3, <2>4
<1> QED BY <1>2, <1>3, <1>4 DEF Same, ring, sheet

\* The cursor goes on to a new line.
LEMMA Fresh ==
    ASSUME TypeOK, NEW ring \in Ring, NEW sheet \in Paper,
           Same(ring, sheet, terminal_line), NextLine(ring, sheet)
    PROVE  Printing' /\ HistoryIntact'
<1> DEFINE l == terminal_line + 1
<1>1. /\ l \in Nat /\ l \in 0 .. MaxLine /\ Slot(l) \in 0 .. Lines - 1
      /\ terminal_line' = l /\ terminal_column' = 0 /\ deepest' = Larger(deepest, l)
      /\ scrollback' = [ring EXCEPT ![Slot(l)] = Cleared]
      /\ paper' = [sheet EXCEPT ![l] = Cleared]
  <2>1. l \in Nat /\ l \in 0 .. MaxLine
    BY Facts, Sizes DEF NextLine
  <2>2. Slot(l) \in 0 .. Lines - 1
    BY <2>1, SlotType
  <2> QED BY <2>1, <2>2 DEF NextLine, ClearLine
<1> HIDE DEF l
<1>2. /\ scrollback' \in Ring /\ scrollback'[Slot(l)] = Cleared
      /\ \A t \in 0 .. Lines - 1 : t # Slot(l) => scrollback'[t] = ring[t]
  BY <1>1, RowCleared DEF Ring
<1>3. /\ paper' \in Paper /\ paper'[l] = Cleared
      /\ \A t \in 0 .. MaxLine : t # l => paper'[t] = sheet[t]
  BY <1>1, RowCleared DEF Paper
<1>4. /\ deepest' \in Nat /\ deepest <= deepest' /\ l <= deepest' /\ deepest' <= MaxLine
  BY <1>1, Facts, Sizes DEF Larger
<1>5. /\ Oldest(deepest') \in Nat /\ deepest' < Oldest(deepest') + Lines
      /\ Oldest(deepest) <= Oldest(deepest')
  BY <1>4, Facts, OldestLine, OldestGrows
<1>6. Printing'
  BY <1>1, <1>2, <1>3, <1>4, Sizes DEF Printing, Columns
<1>7. ASSUME NEW j \in Oldest(deepest') .. l PROVE scrollback'[Slot(j)] = paper'[j]
  <2>1. j \in Nat /\ j <= l /\ j \in 0 .. MaxLine /\ l < j + Lines
    BY <1>1, <1>4, <1>5, Sizes
  <2>2. CASE j = l
    BY <1>2, <1>3, <2>2
  <2>3. CASE j < l
    <3>1. j \in Oldest(deepest) .. terminal_line
      BY <1>5, <2>1, <2>3, Facts DEF l
    <3>2. ring[Slot(j)] = sheet[j]
      BY <3>1 DEF Same
    <3>3. Slot(j) \in 0 .. Lines - 1 /\ Slot(j) # Slot(l)
      BY <1>1, <2>1, <2>3, SlotType, SlotsDiffer
    <3>4. scrollback'[Slot(j)] = ring[Slot(j)]
      BY <1>2, <3>3
    <3>5. paper'[j] = sheet[j]
      BY <1>1, <1>3, <2>1, <2>3
    <3> QED BY <3>2, <3>4, <3>5
  <2> QED BY <1>1, <2>1, <2>2, <2>3
<1>8. HistoryIntact'
  BY <1>1, <1>7 DEF HistoryIntact
<1> QED BY <1>6, <1>8

\* One character is printed or typed at the cursor.
LEMMA PutPrints ==
    ASSUME TypeOK, HistoryIntact, NEW c \in Chars, Put(c)
    PROVE  Printing' /\ HistoryIntact' /\ viewport_top' \in 0 .. MaxLine
<1> DEFINE l == terminal_line
           sheet == [paper EXCEPT ![l][terminal_column] = c]
<1>1. /\ Cell(c) \in Ring /\ sheet \in Paper /\ Same(Cell(c), sheet, l)
      /\ l \in 0 .. MaxLine
  <2>1. /\ l \in Nat /\ l <= terminal_line /\ l \in 0 .. MaxLine
        /\ terminal_column \in Columns /\ c \in Chars \cup {Space}
    BY Facts, Sizes
  <2> HIDE DEF l
  <2>2. LET ring == [scrollback EXCEPT ![Slot(l)][terminal_column] = c]
        IN  ring \in Ring /\ sheet \in Paper /\ Same(ring, sheet, l)
    BY <2>1, Ink
  <2> QED BY <2>1, <2>2 DEF Cell, l
<1>2. ASSUME terminal_column + 1 < Width,
             scrollback' = Cell(c), paper' = sheet,
             terminal_column' = terminal_column + 1,
             UNCHANGED <<terminal_line, deepest>>
      PROVE  Printing' /\ HistoryIntact'
  <2>1. terminal_column' \in Columns
    BY <1>2, Facts, Sizes DEF Columns
  <2>2. Printing'
    BY <1>1, <1>2, <2>1, Facts DEF Printing, TypeOK
  <2>3. HistoryIntact'
    BY <1>1, <1>2 DEF HistoryIntact, Same
  <2> QED BY <2>2, <2>3
<1>3. ASSUME NextLine(Cell(c), sheet) PROVE Printing' /\ HistoryIntact'
  BY <1>1, <1>3, Fresh
<1>4. Printing' /\ HistoryIntact' /\ Follow
  BY <1>2, <1>3, Zenon DEF Put, OnPaper
<1> QED BY <1>1, <1>4, FollowType DEF Printing

\* The cursor goes to a new line.
LEMMA NewLinePrints ==
    ASSUME TypeOK, HistoryIntact, NewLine
    PROVE  Printing' /\ HistoryIntact' /\ viewport_top' \in 0 .. MaxLine
<1>1. Same(scrollback, paper, terminal_line)
  BY DEF HistoryIntact, Same
<1>2. Printing' /\ HistoryIntact'
  BY <1>1, Facts, Fresh DEF NewLine
<1> QED BY <1>2, FollowType DEF NewLine, Printing, TypeOK

\* The cursor goes back and a blank is put there.
LEMMA BackspacePrints ==
    ASSUME TypeOK, HistoryIntact, Backspace
    PROVE  Printing' /\ HistoryIntact' /\ viewport_top' \in 0 .. MaxLine
<1> DEFINE l == Back[1]
           x == Back[2]
<1>1. /\ l \in Nat /\ x \in Columns
      /\ l <= terminal_line /\ l \in 0 .. MaxLine
  <2>1. CASE terminal_column = 0
    <3>1. l = terminal_line - 1 /\ x = Width - 1 /\ terminal_line # 0
      BY <2>1 DEF Back, Backspace
    <3> HIDE DEF l, x
    <3> QED BY <3>1, Facts, Sizes DEF Columns
  <2>2. CASE terminal_column # 0
    <3>1. l = terminal_line /\ x = terminal_column - 1
      BY <2>2 DEF Back
    <3> HIDE DEF l, x
    <3> QED BY <2>2, <3>1, Facts, Sizes DEF Columns
  <2> QED BY <2>1, <2>2
<1>2. /\ terminal_line' = l /\ terminal_column' = x
      /\ scrollback' = [scrollback EXCEPT ![Slot(l)][x] = Space]
      /\ paper' = [paper EXCEPT ![l][x] = Space]
      /\ UNCHANGED deepest /\ Follow
  BY DEF Backspace, OnPaper
<1> HIDE DEF l, x
<1>3. scrollback' \in Ring /\ paper' \in Paper /\ Same(scrollback', paper', l)
  BY <1>1, <1>2, Ink
<1>4. deepest' \in terminal_line' .. MaxLine
  BY <1>1, <1>2, Facts
<1>5. Printing'
  BY <1>1, <1>2, <1>3, <1>4 DEF Printing
<1>6. HistoryIntact'
  BY <1>2, <1>3 DEF HistoryIntact, Same
<1> QED BY <1>1, <1>2, <1>5, <1>6, FollowType DEF TypeOK

-----------------------------------------------------------------------------
(***************************************************************************)
(* What the cursor left when it was rubbed back.                           *)
(***************************************************************************)

\* From the cursor on everything is blank, as far as it ever was.
BlankAhead ==
    \A l \in terminal_line .. deepest : \A x \in Columns :
        l > terminal_line \/ x >= terminal_column => scrollback[Slot(l)][x] = Space

\* That is less than a turn of the ring.
Near == deepest < terminal_line + Lines

\* Every line behind the cursor's is blank in ring.
Blank(ring) ==
    \A l \in terminal_line + 1 .. deepest : \A x \in Columns : ring[Slot(l)][x] = Space

\* The cursor goes on to a new line.
LEMMA FreshBlank ==
    ASSUME TypeOK, Near, NEW ring \in Ring, NEW sheet, Blank(ring), NextLine(ring, sheet)
    PROVE  BlankAhead' /\ Near'
<1> DEFINE n == terminal_line + 1
<1>1. /\ n \in Nat /\ Slot(n) \in 0 .. Lines - 1 /\ deepest < n + Lines
      /\ terminal_line' = n /\ deepest' = Larger(deepest, n)
      /\ scrollback' = [ring EXCEPT ![Slot(n)] = Cleared]
      /\ deepest \in Nat
  <2>1. n \in Nat /\ deepest < n + Lines /\ deepest \in Nat
    BY Facts, Sizes DEF Near
  <2>2. Slot(n) \in 0 .. Lines - 1
    BY <2>1, SlotType
  <2> QED BY <2>1, <2>2 DEF NextLine, ClearLine
<1> HIDE DEF n
<1>2. /\ scrollback'[Slot(n)] = Cleared
      /\ \A t \in 0 .. Lines - 1 : t # Slot(n) => scrollback'[t] = ring[t]
  BY <1>1, RowCleared DEF Ring
<1>3. deepest' < n + Lines /\ (deepest' = deepest \/ deepest' = n)
  BY <1>1, Sizes DEF Larger
<1>4. ASSUME NEW l \in n .. deepest', NEW x \in Columns
      PROVE  scrollback'[Slot(l)][x] = Space
  <2>1. CASE l = n
    BY <1>2, <2>1 DEF Cleared
  <2>2. CASE l # n
    <3>1. l \in Nat /\ n < l /\ l < n + Lines /\ l <= deepest
      BY <1>1, <1>3, <2>2, Sizes
    <3>2. l \in terminal_line + 1 .. deepest
      BY <1>1, <3>1 DEF n
    <3>3. ring[Slot(l)][x] = Space
      BY <3>2 DEF Blank
    <3>4. Slot(l) \in 0 .. Lines - 1 /\ Slot(l) # Slot(n)
      BY <1>1, <3>1, SlotType, SlotsDiffer
    <3> QED BY <1>2, <3>3, <3>4
  <2> QED BY <2>1, <2>2
<1>5. BlankAhead'
  BY <1>1, <1>4 DEF BlankAhead
<1>6. Near'
  BY <1>1, <1>3 DEF Near
<1> QED BY <1>5, <1>6

\* One character is printed or typed at the cursor.
LEMMA PutBlank ==
    ASSUME TypeOK, BlankAhead, Near, NEW c \in Chars, Put(c)
    PROVE  BlankAhead' /\ Near'
<1> DEFINE t == terminal_line
           y == terminal_column
<1>1. /\ t \in Nat /\ Slot(t) \in 0 .. Lines - 1 /\ y \in Columns
      /\ deepest \in Nat /\ t <= deepest /\ deepest < t + Lines
      /\ scrollback \in Ring /\ Cell(c) \in Ring
  BY Facts, CellRing DEF Near
<1>2. /\ \A i \in 0 .. Lines - 1 : i # Slot(t) => Cell(c)[i] = scrollback[i]
      /\ \A x \in Columns : x # y => Cell(c)[Slot(t)][x] = scrollback[Slot(t)][x]
  <2>1. /\ scrollback \in [0 .. Lines - 1 -> Row] /\ Slot(t) \in 0 .. Lines - 1
        /\ y \in Columns /\ c \in Chars \cup {Space}
    BY <1>1 DEF Ring
  <2>2. Cell(c) = [scrollback EXCEPT ![Slot(t)][y] = c]
    BY DEF Cell
  <2> HIDE DEF t, y
  <2> QED BY <2>1, <2>2, RowWith
<1>3. ASSUME NEW l \in t + 1 .. deepest, NEW x \in Columns
      PROVE  Cell(c)[Slot(l)][x] = Space
  <2>1. l \in Nat /\ t < l /\ l < t + Lines /\ l \in t .. deepest
    <3>1. t \in Nat /\ deepest \in Nat /\ deepest < t + Lines /\ Lines \in Nat
      BY <1>1, Sizes
    <3> HIDE DEF t, y
    <3> QED BY <3>1
  <2>2. scrollback[Slot(l)][x] = Space
    BY <2>1 DEF BlankAhead
  <2>3. Slot(l) \in 0 .. Lines - 1 /\ Slot(l) # Slot(t)
    BY <1>1, <2>1, SlotType, SlotsDiffer
  <2> QED BY <1>2, <2>2, <2>3
<1>4. CASE /\ scrollback' = Cell(c) /\ terminal_column' = y + 1
           /\ UNCHANGED <<terminal_line, deepest>>
  <2>1. ASSUME NEW l \in t .. deepest, NEW x \in Columns, l > t \/ x >= y + 1
        PROVE  Cell(c)[Slot(l)][x] = Space
    <3>1. CASE l > t
      <4>1. l \in t + 1 .. deepest
        BY <1>1, <3>1
      <4> QED BY <1>3, <4>1
    <3>2. CASE l = t
      <4>1. x # y /\ x >= y
        BY <1>1, <2>1, <3>2, Sizes DEF Columns
      <4>2. scrollback[Slot(t)][x] = Space
        BY <2>1, <3>2, <4>1 DEF BlankAhead
      <4> QED BY <1>2, <3>2, <4>1, <4>2
    <3> QED BY <1>1, <3>1, <3>2
  <2> QED BY <1>4, <2>1 DEF BlankAhead, Near
<1>5. ASSUME NEW sheet, NextLine(Cell(c), sheet) PROVE BlankAhead' /\ Near'
  <2>1. Blank(Cell(c))
    BY <1>3 DEF Blank
  <2> QED BY <1>1, <1>5, <2>1, FreshBlank
<1> QED BY <1>4, <1>5, Zenon DEF Put

LEMMA NewLineBlank ==
    ASSUME TypeOK, BlankAhead, Near, NewLine
    PROVE  BlankAhead' /\ Near'
<1>1. Blank(scrollback)
  <2>1. ASSUME NEW l \in terminal_line + 1 .. deepest
        PROVE  l \in terminal_line .. deepest /\ l > terminal_line
    BY Facts
  <2> QED BY <2>1 DEF BlankAhead, Blank
<1> QED BY <1>1, Facts, FreshBlank DEF NewLine

\* The cell the cursor goes back to joins the blanks.
LEMMA BackspaceBlank ==
    ASSUME TypeOK, BlankAhead, Backspace
    PROVE  BlankAhead'
<1> DEFINE t == Back[1]
           y == Back[2]
           Joined(l, x) == \/ l = t /\ x = y
                           \/ /\ l \in terminal_line .. deepest
                              /\ l > terminal_line \/ x >= terminal_column
<1>1. /\ terminal_line' = t /\ terminal_column' = y /\ deepest' = deepest
      /\ scrollback' = [scrollback EXCEPT ![Slot(t)][y] = Space]
      /\ terminal_column # 0 \/ terminal_line # 0
  BY DEF Backspace
<1>2. /\ t \in Nat /\ y \in Columns /\ Slot(t) \in 0 .. Lines - 1
      /\ \A l \in t .. deepest : \A x \in Columns :
            l > t \/ x >= y => Joined(l, x)
  <2>1. CASE terminal_column = 0
    <3>1. t = terminal_line - 1 /\ y = Width - 1
      BY <2>1 DEF Back
    <3> HIDE DEF t, y
    <3>2. t \in Nat /\ y \in Columns
      BY <1>1, <2>1, <3>1, Facts, Sizes DEF Columns
    <3>3. /\ terminal_line \in Nat /\ deepest \in Nat /\ Width \in Nat
          /\ terminal_column \in Columns
      BY Facts, Sizes
    <3>4. ASSUME NEW l \in t .. deepest, NEW x \in Columns, l > t \/ x >= y
          PROVE  Joined(l, x)
      BY <2>1, <3>1, <3>2, <3>3, <3>4 DEF Columns
    <3> QED BY <3>2, <3>4, SlotType
  <2>2. CASE terminal_column # 0
    <3>1. t = terminal_line /\ y = terminal_column - 1
      BY <2>2 DEF Back
    <3> HIDE DEF t, y
    <3>2. t \in Nat /\ y \in Columns
      BY <2>2, <3>1, Facts, Sizes DEF Columns
    <3>3. /\ terminal_line \in Nat /\ deepest \in Nat /\ Width \in Nat
          /\ terminal_column \in Columns
      BY Facts, Sizes
    <3>4. ASSUME NEW l \in t .. deepest, NEW x \in Columns, l > t \/ x >= y
          PROVE  Joined(l, x)
      BY <3>1, <3>2, <3>3, <3>4 DEF Columns
    <3> QED BY <3>2, <3>4, SlotType
  <2> QED BY <2>1, <2>2
<1> HIDE DEF t, y
<1>3. /\ \A i \in 0 .. Lines - 1 : i # Slot(t) => scrollback'[i] = scrollback[i]
      /\ \A x \in Columns : scrollback'[Slot(t)][x] = IF x = y THEN Space
                                                     ELSE scrollback[Slot(t)][x]
  <2>1. /\ scrollback \in [0 .. Lines - 1 -> Row] /\ Slot(t) \in 0 .. Lines - 1
        /\ y \in Columns /\ Space \in Chars \cup {Space}
    BY <1>2, Facts DEF Ring
  <2> DEFINE w == [scrollback EXCEPT ![Slot(t)][y] = Space]
  <2>2. /\ \A i \in 0 .. Lines - 1 : i # Slot(t) => w[i] = scrollback[i]
        /\ \A x \in Columns : w[Slot(t)][x] = IF x = y THEN Space
                                              ELSE scrollback[Slot(t)][x]
    <3>1. w[Slot(t)] = [scrollback[Slot(t)] EXCEPT ![y] = Space]
      BY <2>1
    <3>2. scrollback[Slot(t)] \in Row
      BY <2>1
    <3> QED BY <2>1, <3>1, <3>2 DEF Row
  <2>3. scrollback' = w
    BY <1>1
  <2> HIDE DEF Joined, w
  <2> QED BY <2>2, <2>3
<1>4. ASSUME NEW l \in t .. deepest, NEW x \in Columns, l > t \/ x >= y
      PROVE  scrollback'[Slot(l)][x] = Space
  <2>1. CASE l = t /\ x = y
    BY <1>3, <2>1
  <2>2. CASE l \in terminal_line .. deepest /\ (l > terminal_line \/ x >= terminal_column)
    <3>1. scrollback[Slot(l)][x] = Space
      BY <2>2 DEF BlankAhead
    <3>2. Slot(l) \in 0 .. Lines - 1
      <4>1. l \in Nat
        BY <1>2, Facts
      <4> QED BY <4>1, SlotType
    <3> QED BY <1>3, <3>1, <3>2
  <2> QED BY <1>2, <1>4, <2>1, <2>2
<1> QED BY <1>1, <1>4 DEF BlankAhead

-----------------------------------------------------------------------------
(***************************************************************************)
(* The line being read.                                                    *)
(***************************************************************************)

\* What ring shows in cell p of the endless paper.
Seen(ring, p) == ring[Slot(p \div Width)][p % Width]

\* Where the characters read so far are.
LEMMA Placed ==
    ASSUME TypeOK, InputShown, reading, NEW k \in 1 .. Len(buffer)
    PROVE  /\ start + k - 1 \in Nat
           /\ start + k - 1 < Position(terminal_line, terminal_column)
           /\ Position(terminal_line, terminal_column) - (start + k - 1) <= Len(buffer)
           /\ Seen(scrollback, start + k - 1) = buffer[k]
BY Facts DEF InputShown, Seen

\* ring with character c in column x of line l.
Mark(ring, l, x, c) == [ring EXCEPT ![Slot(l)][x] = c]

\* A cell written at a place does not show before it.
LEMMA OtherCell ==
    ASSUME NEW ring \in Ring, NEW p \in Nat, NEW l \in Nat, NEW x \in Columns,
           NEW c \in Chars \cup {Space},
           p < Position(l, x), Position(l, x) <= p + Width * (Lines - 1)
    PROVE  Seen(Mark(ring, l, x, c), p) = Seen(ring, p)
<1> DEFINE d == p \div Width
           y == p % Width
           w == Mark(ring, l, x, c)
<1>1. /\ d \in Nat /\ d <= l /\ l < d + Lines /\ y \in Columns
      /\ d = l => y < x
  BY Before
<1>2. Slot(l) \in 0 .. Lines - 1 /\ Slot(d) \in 0 .. Lines - 1
  BY <1>1, SlotType
<1>3. ASSUME NEW t \in 0 .. Lines - 1, t # Slot(l) PROVE w[t] = ring[t]
  BY <1>3 DEF Ring, Mark
<1>6. ASSUME NEW z \in Columns, z # x PROVE w[Slot(l)][z] = ring[Slot(l)][z]
  <2>1. ring[Slot(l)] \in Row /\ w[Slot(l)] = [ring[Slot(l)] EXCEPT ![x] = c]
    BY <1>2 DEF Ring, Mark
  <2> QED BY <1>6, <2>1 DEF Row
<1> HIDE DEF d, y, w
<1>4. CASE d = l
  <2>1. y # x
    BY <1>1, <1>4, Sizes DEF Columns
  <2>2. w[Slot(l)][y] = ring[Slot(l)][y]
    BY <1>1, <1>6, <2>1
  <2> QED BY <1>4, <2>2 DEF Seen, d, y, w
<1>5. CASE d < l
  <2>1. Slot(d) # Slot(l)
    BY <1>1, <1>5, SlotsDiffer
  <2>2. w[Slot(d)] = ring[Slot(d)]
    BY <1>2, <1>3, <2>1
  <2> QED BY <2>2 DEF Seen, d, y, w
<1> QED BY <1>1, <1>4, <1>5

\* The line the cursor goes on to shows nothing of what is before it.
LEMMA OtherLine ==
    ASSUME NEW ring \in Ring, NEW p \in Nat, NEW l \in Nat,
           p < Position(l, 0), Position(l, 0) <= p + Width * (Lines - 1)
    PROVE  Seen(ClearLine(ring, l), p) = Seen(ring, p)
<1> DEFINE d == p \div Width
<1>1. 0 \in Columns
  BY Sizes DEF Columns
<1>2. /\ d \in Nat /\ d <= l /\ l < d + Lines
      /\ p % Width \in Columns /\ d = l => p % Width < 0
  BY <1>1, Before
<1>3. d # l
  BY <1>2, Sizes DEF Columns
<1> HIDE DEF d
<1>4. Slot(d) # Slot(l) /\ Slot(d) \in 0 .. Lines - 1 /\ Slot(l) \in 0 .. Lines - 1
  BY <1>2, <1>3, SlotsDiffer, SlotType
<1>5. ClearLine(ring, l)[Slot(d)] = ring[Slot(d)]
  BY <1>4 DEF ClearLine, Ring
<1> QED BY <1>5 DEF Seen, d

\* The place after the cursor's is one further on.
LEMMA NextPosition ==
    ASSUME NEW l \in Nat, NEW x \in Columns
    PROVE  /\ Position(l, x + 1) = Position(l, x) + 1
           /\ x + 1 >= Width => Position(l + 1, 0) = Position(l, x) + 1
<1>1. l * Width \in Nat /\ (l + 1) * Width = (l * Width) + Width
  BY Sizes
<1> QED BY <1>1, Sizes DEF Position, Columns

\* The driver's flag follows the prefix.
PrefixSeen == extended_scancode = prefixed

\* A character typed is shown after those before it.
LEMMA TypeShows ==
    ASSUME TypeOK, InputShown, PrefixSeen, NEW c \in Chars, Type(c)
    PROVE  InputShown'
<1> DEFINE q == Position(terminal_line, terminal_column)
           n == Len(buffer)
<1>1. /\ reading /\ reading' /\ start' = start /\ buffer' = Append(buffer, c)
      /\ n \in Nat /\ n + 1 < MaxLen /\ MaxLen \in Nat
      /\ MaxLen <= Width * (Lines - 1) /\ Width * (Lines - 1) \in Nat
  BY Facts, MaxLenAssumption, Sizes DEF Type, Room
<1>2. Len(buffer') = n + 1 /\ buffer'[n + 1] = c /\ \A k \in 1 .. n : buffer'[k] = buffer[k]
  BY <1>1, Facts, AppendProperties
<1>3. q = start + n /\ q \in Nat
  BY <1>1, Facts, PositionType DEF InputShown
<1>4. ASSUME NEW k \in 1 .. n + 1
      PROVE  /\ start + k - 1 \in Nat /\ start + k - 1 <= q
             /\ q + 1 <= (start + k - 1) + Width * (Lines - 1)
             /\ Seen(Cell(c), start + k - 1) = buffer'[k]
  <2>1. /\ start + k - 1 \in Nat /\ start + k - 1 <= q
        /\ q + 1 <= (start + k - 1) + Width * (Lines - 1)
    <3> HIDE DEF q, n
    <3>1. start \in Nat
      BY Facts
    <3> QED BY <1>1, <1>3, <3>1
  <2>2. CASE k = n + 1
    <3>1. start + k - 1 = q
      <4> HIDE DEF q, n
      <4> QED BY <1>1, <1>3, <2>2, Facts
    <3>2. Seen(Cell(c), q) = Cell(c)[Slot(terminal_line)][terminal_column]
      BY Facts, PositionType DEF Seen
    <3>3. Cell(c)[Slot(terminal_line)][terminal_column] = c
      BY CellRing, Facts
    <3> QED BY <1>2, <2>1, <2>2, <3>1, <3>2, <3>3
  <2>3. CASE k \in 1 .. n
    <3>1. start + k - 1 < q /\ Seen(scrollback, start + k - 1) = buffer[k]
      BY <1>1, <2>3, Placed
    <3>2. q <= (start + k - 1) + Width * (Lines - 1)
      <4> HIDE DEF q, n
      <4> QED BY <1>1, <1>3, <2>1
    <3>3. Seen(Cell(c), start + k - 1) = Seen(scrollback, start + k - 1)
      <4>1. Cell(c) = Mark(scrollback, terminal_line, terminal_column, c)
        BY DEF Cell, Mark
      <4> QED BY <2>1, <3>1, <3>2, <4>1, Facts, OtherCell
    <3> QED BY <1>2, <2>1, <2>3, <3>1, <3>3
  <2> QED BY <1>1, <2>2, <2>3
<1>5. /\ Position(terminal_line, terminal_column)' = q + 1
      /\ \A k \in 1 .. n + 1 : Seen(scrollback', start + k - 1) = buffer'[k]
  <2>1. CASE /\ scrollback' = Cell(c) /\ terminal_column' = terminal_column + 1
             /\ terminal_line' = terminal_line
    BY <1>4, <2>1, Facts, NextPosition
  <2>2. CASE /\ terminal_column + 1 >= Width /\ terminal_column' = 0
             /\ terminal_line' = terminal_line + 1
             /\ scrollback' = ClearLine(Cell(c), terminal_line + 1)
    <3>1. /\ Position(terminal_line + 1, 0) = q + 1
          /\ terminal_line + 1 \in Nat /\ Cell(c) \in Ring
      <4>1. Cell(c) \in Ring
        BY CellRing
      <4>2. terminal_line \in Nat /\ terminal_column \in Columns
        BY Facts
      <4> HIDE DEF n
      <4> QED BY <2>2, <4>1, <4>2, NextPosition
    <3>2. ASSUME NEW k \in 1 .. n + 1
          PROVE  Seen(scrollback', start + k - 1) = buffer'[k]
      <4>1. /\ start + k - 1 \in Nat /\ start + k - 1 < q + 1
            /\ q + 1 <= (start + k - 1) + Width * (Lines - 1)
        <5> HIDE DEF q, n
        <5> QED BY <1>3, <1>4
      <4>2. Seen(scrollback', start + k - 1) = Seen(Cell(c), start + k - 1)
        BY <2>2, <3>1, <4>1, OtherLine
      <4> QED BY <1>4, <4>2
    <3> QED BY <2>2, <3>1, <3>2
  <2> QED BY <2>1, <2>2, Zenon DEF Type, Put, NextLine
<1>6. Position(terminal_line, terminal_column)' = start + Len(buffer')
  <2> HIDE DEF q, n
  <2> QED BY <1>1, <1>2, <1>3, <1>5, Facts
<1>7. \A k \in 1 .. Len(buffer') : Seen(scrollback', start + k - 1) = buffer'[k]
  BY <1>2, <1>5
<1>8. typed' = buffer'
  <2>1. buffer = typed /\ Room(buffer) /\ ~prefixed /\ Pressed(c)
    BY <1>1 DEF InputShown, PrefixSeen, Type
  <2>2. c # "backspace"
    BY KeysAssumption DEF OtherKeys
  <2>3. Edited(buffer, c) = Append(buffer, c)
    BY <2>1, <2>2 DEF Edited
  <2> QED BY <1>1, <2>1, <2>3 DEF Pressed
<1> QED BY <1>1, <1>6, <1>7, <1>8 DEF InputShown, Seen

\* What is rubbed out is the last character read, and only that.
LEMMA RuboutShows ==
    ASSUME TypeOK, InputShown, PrefixSeen, Rubout
    PROVE  InputShown'
<1> DEFINE q == Position(terminal_line, terminal_column)
           n == Len(buffer)
           l == Back[1]
           x == Back[2]
<1>1. /\ reading /\ reading' /\ start' = start
      /\ terminal_line' = l /\ terminal_column' = x
      /\ scrollback' = Mark(scrollback, l, x, Space)
      /\ buffer # << >> /\ buffer' = SubSeq(buffer, 1, n - 1)
      /\ terminal_column # 0 \/ terminal_line # 0
  BY DEF Rubout, Backspace, Mark
<1>2. /\ l \in Nat /\ x \in Columns
      /\ q = Position(l, x) + 1
  <2>1. /\ terminal_line \in Nat /\ terminal_column \in Columns
    BY Facts
  <2>2. CASE terminal_column = 0
    <3>1. l = terminal_line - 1 /\ x = Width - 1
      BY <2>2 DEF Back
    <3> HIDE DEF l, x
    <3>2. l \in Nat /\ x \in Columns /\ x + 1 >= Width /\ terminal_line = l + 1
      BY <1>1, <2>1, <2>2, <3>1, Sizes DEF Columns
    <3> QED BY <2>2, <3>2, NextPosition
  <2>3. CASE terminal_column # 0
    <3>1. l = terminal_line /\ x = terminal_column - 1
      BY <2>3 DEF Back
    <3> HIDE DEF l, x
    <3>2. l \in Nat /\ x \in Columns /\ terminal_column = x + 1
      BY <2>1, <2>3, <3>1, Sizes DEF Columns
    <3> QED BY <3>1, <3>2, NextPosition
  <2> QED BY <2>2, <2>3
<1>3. /\ n \in Nat \ {0} /\ n < MaxLen /\ MaxLen \in Nat
      /\ MaxLen <= Width * (Lines - 1) /\ Width * (Lines - 1) \in Nat
  <2>1. n \in Nat /\ n <= MaxLen - 1 /\ n # 0
    BY <1>1, Facts, EmptySeq DEF TypeOK
  <2> QED BY <2>1, Sizes, MaxLenAssumption
<1>4. /\ Len(buffer') = n - 1
      /\ \A k \in 1 .. n - 1 : buffer'[k] = buffer[k]
  BY <1>1, <1>3, Facts, Shorter
<1>5. q = start + n /\ start \in Nat /\ Position(l, x) = start + n - 1
  <2>1. Position(l, x) \in Nat
    BY <1>2, PositionType
  <2>2. q = start + n /\ start \in Nat
    BY <1>1, Facts DEF InputShown
  <2> HIDE DEF q, n, l, x
  <2> QED BY <1>2, <1>3, <2>1, <2>2
<1>6. ASSUME NEW k \in 1 .. n - 1
      PROVE  Seen(scrollback', start + k - 1) = buffer'[k]
  <2>1. k \in 1 .. n
    BY <1>3
  <2>2. start + k - 1 \in Nat /\ Seen(scrollback, start + k - 1) = buffer[k]
    BY <1>1, <2>1, Placed
  <2>3. /\ start + k - 1 < Position(l, x)
        /\ Position(l, x) <= (start + k - 1) + Width * (Lines - 1)
    <3> HIDE DEF q, n, l, x
    <3> QED BY <1>3, <1>5
  <2>4. Seen(scrollback', start + k - 1) = Seen(scrollback, start + k - 1)
    <3> HIDE DEF q, n, l, x
    <3> QED BY <1>1, <1>2, <2>2, <2>3, Facts, OtherCell
  <2> QED BY <1>4, <2>2, <2>4
<1>7. Position(terminal_line, terminal_column)' = start + Len(buffer')
  <2> HIDE DEF q, n, l, x
  <2> QED BY <1>1, <1>3, <1>4, <1>5
<1>8. \A k \in 1 .. Len(buffer') : Seen(scrollback', start + k - 1) = buffer'[k]
  BY <1>4, <1>6
<1>9. typed' = buffer'
  <2>1. buffer = typed /\ ~prefixed /\ Pressed("backspace")
    BY <1>1 DEF InputShown, PrefixSeen, Rubout
  <2>2. "backspace" \notin Chars
    BY KeysAssumption DEF OtherKeys
  <2>3. Edited(buffer, "backspace") = SubSeq(buffer, 1, n - 1)
    BY <1>1, <2>2 DEF Edited
  <2> QED BY <1>1, <2>1, <2>3 DEF Pressed
<1> QED BY <1>1, <1>7, <1>8, <1>9 DEF InputShown, Seen

\* Other keys leave the line as it is.
LEMMA KeysPassed ==
    ASSUME NEW key \in Keys, Pressed(key), prefixed \/ key = "enter"
    PROVE  typed' = typed
BY KeysAssumption DEF Pressed, Edited, OtherKeys

\* While a line is read the cursor is less than a turn of the ring away from
\* the line it began in, wherever it went since.
NearStart == reading => deepest < (start \div Width) + Lines

LEMMA StartLine ==
    ASSUME NEW p \in Nat, NEW n \in Nat, NEW l \in Nat, NEW x \in Columns,
           Position(l, x) = p + n
    PROVE  p \div Width \in Nat /\ p \div Width <= l
<1> DEFINE d == p \div Width
<1>1. /\ d \in Nat /\ p = (Width * d) + (p % Width)
      /\ p % Width \in 0 .. Width - 1 /\ Width \in Nat \ {0}
      /\ x \in 0 .. Width - 1
  BY Sizes, Division DEF Columns
<1>2. (Width * l) + x = p + n
  <2>1. l * Width = Width * l
    BY <1>1
  <2> QED BY <2>1 DEF Position
<1> HIDE DEF d
<1>3. Width * d < Width * (l + 1)
  <2>1. Width * (l + 1) = (Width * l) + Width
    BY <1>1
  <2>2. Width * d \in Nat /\ Width * l \in Nat
    BY <1>1
  <2> QED BY <1>1, <1>2, <2>1, <2>2
<1>4. d < l + 1
  BY <1>1, <1>3, Cancel
<1> QED BY <1>1, <1>4 DEF d

\* What is typed does not outrun the ring, as the buffer is too short for it.
LEMMA TypeNear ==
    ASSUME TypeOK, InputShown, NearStart, NEW c \in Chars, Type(c)
    PROVE  NearStart'
<1> DEFINE d == start \div Width
           n == Len(buffer)
           l == terminal_line
<1>1. /\ d \in Nat /\ start = (Width * d) + (start % Width)
      /\ start % Width \in 0 .. Width - 1
      /\ start \in Nat /\ n \in Nat /\ Width \in Nat \ {0} /\ Lines \in Nat \ {0}
      /\ l \in Nat /\ terminal_column \in 0 .. Width - 1
      /\ n + 1 < MaxLen /\ MaxLen <= Width * (Lines - 1) /\ MaxLen \in Nat
      /\ reading /\ start' = start /\ deepest < d + Lines /\ deepest \in Nat
  <2>1. n + 1 < MaxLen /\ reading /\ start' = start
    BY DEF Type, Room
  <2>2. deepest < d + Lines
    BY <2>1 DEF NearStart
  <2> QED BY <2>1, <2>2, Facts, Sizes, Division, MaxLenAssumption DEF Columns
<1>2. (Width * l) + terminal_column = start + n
  <2>1. Position(l, terminal_column) = start + n
    BY <1>1 DEF InputShown
  <2>2. l * Width = Width * l
    BY <1>1
  <2> QED BY <2>1, <2>2 DEF Position
<1>3. ASSUME terminal_column + 1 >= Width PROVE l + 1 < d + Lines
  <2> HIDE DEF d, n, l
  <2>1. /\ Width * (l + 1) = (Width * l) + Width
        /\ Width * (d + Lines) = (Width * d) + (Width * Lines)
        /\ Width * (Lines - 1) = (Width * Lines) - Width
    BY <1>1
  <2>2. /\ Width * l \in Nat /\ Width * d \in Nat /\ Width * Lines \in Nat
        /\ Width * (l + 1) \in Nat /\ Width * (d + Lines) \in Nat
    BY <1>1
  <2>3. Width * (l + 1) < Width * (d + Lines)
    BY <1>1, <1>2, <1>3, <2>1, <2>2
  <2> QED BY <1>1, <2>3, Cancel
<1>4. \/ deepest' = deepest
      \/ terminal_column + 1 >= Width /\ deepest' = Larger(deepest, l + 1)
  BY Zenon DEF Type, Put, NextLine
<1>5. deepest' < d + Lines
  <2> HIDE DEF d, n, l
  <2> QED BY <1>1, <1>3, <1>4 DEF Larger
<1> QED BY <1>1, <1>5 DEF NearStart

-----------------------------------------------------------------------------
(***************************************************************************)
(* The invariant.                                                          *)
(***************************************************************************)
IInv == /\ TypeOK /\ HistoryIntact /\ InputShown
        /\ PrefixSeen /\ BlankAhead /\ Near /\ NearStart

LEMMA InitIInv == Init => IInv
<1> SUFFICES ASSUME Init PROVE IInv
  OBVIOUS
<1>1. scrollback \in Ring /\ paper \in Paper
  BY ClearedRow DEF Init, Ring, Paper
<1>2. terminal_column \in Columns /\ deepest \in terminal_line .. MaxLine
  BY Sizes DEF Init, Columns
<1>3. buffer \in Seq(Chars) /\ Len(buffer) <= MaxLen - 1 /\ typed \in Seq(Chars)
  BY Sizes, EmptySeq DEF Init
<1>4. TypeOK
  BY <1>1, <1>2, <1>3, Sizes DEF Init, TypeOK, Ring, Paper
<1>5. BlankAhead
  <2>1. ASSUME NEW l \in terminal_line .. deepest, NEW x \in Columns
        PROVE  scrollback[Slot(l)][x] = Space
    <3>1. l \in Nat
      BY <1>4, Facts
    <3> QED BY <3>1, SlotType DEF Init, Cleared
  <2> QED BY <2>1 DEF BlankAhead
<1>6. HistoryIntact
  <2>1. ASSUME NEW j \in Oldest(deepest) .. terminal_line
        PROVE  scrollback[Slot(j)] = paper[j]
    <3>1. j \in Nat /\ j \in 0 .. MaxLine
      BY <1>4, Facts, Sizes
    <3> QED BY <3>1, SlotType DEF Init
  <2> QED BY <2>1 DEF HistoryIntact
<1>7. InputShown
  BY DEF Init, InputShown
<1>8. PrefixSeen /\ Near /\ NearStart
  <2>1. 0 < 0 + Lines
    BY Sizes
  <2> QED BY <2>1 DEF Init, PrefixSeen, Near, NearStart
<1> QED BY <1>4, <1>5, <1>6, <1>7, <1>8 DEF IInv

\* A scroll key keeps the top of the screen among the lines.
LEMMA ScrollInRange ==
    ASSUME TypeOK, NEW key, Scroll(key)
    PROVE  viewport_top' \in 0 .. MaxLine
<1> DEFINE low  == Oldest(terminal_line)
           high == LatestViewTop(terminal_line)
<1>1. /\ low \in Nat /\ high \in Nat /\ low <= high /\ high <= MaxLine
      /\ viewport_top \in Nat /\ viewport_top <= MaxLine
      /\ Height - 1 \in Nat /\ MaxLine \in Nat
  <2>1. low \in Nat /\ high \in 0 .. terminal_line /\ low <= high
    BY Facts, OldestLine
  <2>2. /\ terminal_line \in Nat /\ terminal_line <= MaxLine /\ MaxLine \in Nat
        /\ viewport_top \in Nat /\ viewport_top <= MaxLine /\ Height - 1 \in Nat
    BY Facts, Sizes DEF TypeOK
  <2> HIDE DEF low, high
  <2> QED BY <2>1, <2>2
<1> HIDE DEF low, high
<1>2. ASSUME NEW n \in Nat
      PROVE  Up(n) \in 0 .. MaxLine /\ Down(n) \in 0 .. MaxLine
  BY <1>1 DEF Up, Down, Larger, Smaller, low, high
<1>3. \/ \E n \in {1, Height - 1} : viewport_top' = Up(n) \/ viewport_top' = Down(n)
      \/ viewport_top' = high \/ viewport_top' = viewport_top
  BY DEF Scroll, high
<1> QED BY <1>1, <1>2, <1>3

\* Every step keeps the invariant.
LEMMA NextIInv == IInv /\ [Next]_vars => IInv'
<1> SUFFICES ASSUME IInv, [Next]_vars PROVE IInv'
  OBVIOUS
<1> USE DEF IInv
<1> DEFINE Printed == /\ Printing' /\ HistoryIntact' /\ viewport_top' \in 0 .. MaxLine
                      /\ BlankAhead' /\ Near'
           Reads   == /\ extended_scancode' \in BOOLEAN /\ reading' \in BOOLEAN
                      /\ buffer' \in Seq(Chars) /\ Len(buffer') <= MaxLen - 1
                      /\ start' \in Nat /\ prefixed' \in BOOLEAN
                      /\ typed' \in Seq(Chars)
                      /\ PrefixSeen'
<1>1. ASSUME Printed, Reads, InputShown', NearStart' PROVE IInv'
  BY <1>1 DEF Printing, TypeOK, Ring, Paper
<1>2. ASSUME Printed, Reads, ~reading' PROVE IInv'
  BY <1>1, <1>2 DEF InputShown, NearStart
<1>3. CASE PrintChar
  <2>1. Printed
    BY <1>3, NewLinePrints, PutPrints, NewLineBlank, PutBlank DEF PrintChar
  <2>2. Reads /\ ~reading'
    BY <1>3 DEF PrintChar, keyboard, TypeOK, PrefixSeen
  <2> QED BY <1>2, <2>1, <2>2
<1>4. CASE Clear
  <2>1. scrollback' \in Ring /\ paper' \in Paper
    BY <1>4, ClearedRow DEF Clear, Ring, Paper
  <2>2. Printing' /\ viewport_top' \in 0 .. MaxLine /\ Near'
    BY <1>4, <2>1, Sizes DEF Clear, Printing, Columns, Near
  <2>3. ASSUME NEW j \in Oldest(deepest') .. terminal_line'
        PROVE  scrollback'[Slot(j)] = paper'[j]
    <3>1. j \in Nat /\ j \in 0 .. MaxLine
      BY <1>4, <2>3, OldestLine, Sizes DEF Clear
    <3> QED BY <1>4, <3>1, SlotType DEF Clear
  <2>4. ASSUME NEW j \in terminal_line' .. deepest', NEW x \in Columns
        PROVE  scrollback'[Slot(j)][x] = Space
    <3>1. j \in Nat
      BY <1>4 DEF Clear
    <3> QED BY <1>4, <3>1, SlotType DEF Clear, Cleared
  <2>5. Reads /\ ~reading'
    BY <1>4 DEF Clear, keyboard, TypeOK, PrefixSeen
  <2> QED BY <1>2, <2>2, <2>3, <2>4, <2>5 DEF HistoryIntact, BlankAhead
<1>5. CASE Enter
  <2>1. Printed
    BY <1>5, NewLinePrints, NewLineBlank DEF Enter
  <2>2. typed' = typed
    BY <1>5, KeysPassed DEF Enter, Keys, OtherKeys
  <2>3. Reads /\ ~reading'
    BY <1>5, <2>2 DEF Enter, Pressed, TypeOK, PrefixSeen
  <2> QED BY <1>2, <2>1, <2>3
<1>6. CASE BeginRead
  <2>1. /\ UNCHANGED <<scrollback, terminal_line, terminal_column, viewport_top,
                       extended_scancode, prefixed, paper, deepest>>
        /\ buffer' = << >> /\ typed' = << >>
        /\ start' = Position(terminal_line, terminal_column)
        /\ reading' = TRUE
    BY <1>6 DEF BeginRead, terminal
  <2>2. start' \in Nat /\ start' \div Width = terminal_line
    BY <2>1, Facts, PositionType
  <2>3. buffer' \in Seq(Chars) /\ Len(buffer') = 0 /\ Len(buffer') <= MaxLen - 1
    BY <2>1, EmptySeq, Sizes
  <2>4. Reads
    BY <2>1, <2>2, <2>3 DEF TypeOK, PrefixSeen
  <2>5. Printed
    BY <2>1 DEF Printing, HistoryIntact, BlankAhead, Near, TypeOK, Ring, Paper
  <2>6. InputShown'
    BY <2>1, <2>2, <2>3 DEF InputShown
  <2>7. NearStart'
    BY <2>1, <2>2 DEF Near, NearStart
  <2> QED BY <1>1, <2>4, <2>5, <2>6, <2>7
<1>7. ASSUME UNCHANGED <<scrollback, terminal_line, terminal_column, reading, buffer,
                         paper, deepest, start, typed>>,
             extended_scancode' \in BOOLEAN, prefixed' \in BOOLEAN, PrefixSeen',
             viewport_top' \in 0 .. MaxLine
      PROVE  IInv'
  BY <1>7 DEF TypeOK, HistoryIntact, InputShown, BlankAhead, Near, NearStart
<1>8. CASE Prefix
  BY <1>7, <1>8 DEF Prefix, terminal, TypeOK, PrefixSeen
<1>9. CASE Release
  BY <1>7, <1>9 DEF Release, Released, terminal, TypeOK, PrefixSeen
<1>10. ASSUME NEW key \in Keys, ExtendedKey(key) PROVE IInv'
  <2>1. viewport_top' \in 0 .. MaxLine
    BY <1>10, ScrollInRange DEF ExtendedKey
  <2>2. typed' = typed
    BY <1>10, KeysPassed DEF ExtendedKey, PrefixSeen
  <2>3. extended_scancode' = FALSE /\ prefixed' = FALSE
    BY <1>10 DEF ExtendedKey, Pressed
  <2> QED BY <1>7, <1>10, <2>1, <2>2, <2>3 DEF ExtendedKey, PrefixSeen
<1>11. CASE Rubout
  <2>1. Printing' /\ HistoryIntact' /\ viewport_top' \in 0 .. MaxLine /\ BlankAhead'
    BY <1>11, BackspacePrints, BackspaceBlank DEF Rubout
  <2>2. InputShown'
    BY <1>11, RuboutShows
  <2>3. Reads
    <3>1. buffer' \in Seq(Chars) /\ Len(buffer') <= MaxLen - 1
      BY <1>11, Facts, Shorter, Sizes DEF Rubout, TypeOK
    <3>2. typed' = buffer'
      BY <1>11, <2>2 DEF Rubout, InputShown
    <3>3. extended_scancode' = FALSE /\ prefixed' = FALSE /\ reading' = reading
          /\ start' = start
      BY <1>11 DEF Rubout, Pressed, TypeOK
    <3> QED BY <3>1, <3>2, <3>3 DEF TypeOK, PrefixSeen
  <2>4. NearStart'
    BY <1>11 DEF Rubout, Backspace, NearStart
  <2>5. TypeOK'
    BY <2>1, <2>3 DEF Printing, TypeOK, Ring, Paper
  <2>6. start' \div Width \in Nat /\ start' \div Width <= terminal_line' /\ reading'
    <3>1. /\ start' \in Nat /\ terminal_line' \in Nat /\ terminal_column' \in Columns
          /\ Len(buffer') \in Nat
      BY <2>5, LenProperties, Sizes DEF TypeOK
    <3>2. reading' /\ Position(terminal_line', terminal_column') = start' + Len(buffer')
      BY <1>11, <2>2 DEF Rubout, InputShown, Position
    <3> QED BY <3>1, <3>2, StartLine
  <2>7. Near'
    <3>1. deepest' < (start' \div Width) + Lines
      BY <2>4, <2>6 DEF NearStart
    <3>2. deepest' \in Nat /\ terminal_line' \in Nat
      BY <2>5, Sizes DEF TypeOK
    <3>3. PICK d \in Nat : d <= terminal_line' /\ deepest' < d + Lines
      BY <2>6, <3>1
    <3>4. deepest' < terminal_line' + Lines
      BY <3>2, <3>3, Sizes, StillLess
    <3> QED BY <3>4 DEF Near
  <2> QED BY <1>1, <2>1, <2>2, <2>3, <2>4, <2>7
<1>12. ASSUME NEW c \in Chars, Type(c) PROVE IInv'
  <2>1. Printed
    BY <1>12, PutPrints, PutBlank DEF Type
  <2>2. InputShown'
    BY <1>12, TypeShows
  <2>3. Reads
    <3>1. buffer' \in Seq(Chars) /\ Len(buffer') <= MaxLen - 1
      BY <1>12, Facts, AppendProperties, Sizes DEF Type, Room
    <3>2. typed' = buffer'
      BY <1>12, <2>2 DEF Type, InputShown
    <3>3. extended_scancode' = FALSE /\ prefixed' = FALSE /\ reading' = reading
          /\ start' = start
      BY <1>12 DEF Type, Pressed, TypeOK
    <3> QED BY <3>1, <3>2, <3>3 DEF TypeOK, PrefixSeen
  <2> QED BY <1>1, <1>12, <2>1, <2>2, <2>3, TypeNear
<1>13. CASE UNCHANGED vars
  BY <1>7, <1>13 DEF vars, terminal, keyboard, TypeOK, PrefixSeen
<1> QED
  BY <1>3, <1>4, <1>5, <1>6, <1>8, <1>9, <1>10, <1>11, <1>12, <1>13 DEF Next

\* The lines that a turn of the ring took and a rub-out left are blank.
LEMMA ScreenFollows == IInv => ScreenReadsPaper
<1> SUFFICES ASSUME IInv, NEW y \in 0 .. Height - 1
             PROVE  LET l == viewport_top + y
                    IN  Screen[y] = IF l \in Oldest(deepest) .. terminal_line
                                    THEN paper[l] ELSE Cleared
  BY DEF ScreenReadsPaper
<1> DEFINE l == viewport_top + y
<1>1. /\ l \in Nat /\ terminal_line \in Nat /\ deepest \in Nat /\ Lines \in Nat
      /\ terminal_line <= deepest /\ deepest < terminal_line + Lines
      /\ Oldest(terminal_line) \in Nat /\ Oldest(deepest) \in Nat
      /\ Oldest(terminal_line) <= Oldest(deepest)
  <2>1. viewport_top \in Nat /\ y \in Nat
    BY Sizes DEF IInv, TypeOK
  <2>2. /\ terminal_line \in Nat /\ deepest \in Nat /\ terminal_line <= deepest
        /\ deepest < terminal_line + Lines /\ Lines \in Nat
    BY Facts, Sizes DEF IInv, Near
  <2>3. /\ Oldest(terminal_line) \in Nat /\ Oldest(deepest) \in Nat
        /\ Oldest(terminal_line) <= Oldest(deepest)
    BY <2>2, OldestLine, OldestGrows
  <2> QED BY <2>1, <2>2, <2>3
<1>2. Screen[y] = IF l \in Oldest(terminal_line) .. terminal_line
                  THEN scrollback[Slot(l)] ELSE Cleared
  BY DEF Screen
<1> HIDE DEF l
<1>3. CASE l \in Oldest(deepest) .. terminal_line
  BY <1>1, <1>2, <1>3 DEF IInv, HistoryIntact, l
<1>4. CASE l \notin Oldest(terminal_line) .. terminal_line
  BY <1>1, <1>2, <1>4 DEF l
<1>5. CASE l \in Oldest(terminal_line) .. terminal_line /\ l < Oldest(deepest)
  <2>1. l + Lines \in terminal_line .. deepest /\ l + Lines > terminal_line
    BY <1>1, <1>5, Sizes DEF Oldest, Larger
  <2>2. Slot(l + Lines) = Slot(l)
    BY <1>1, Sizes, NextTurn DEF Slot
  <2>3. \A x \in Columns : scrollback[Slot(l)][x] = Space
    BY <2>1, <2>2 DEF IInv, BlankAhead
  <2>4. scrollback[Slot(l)] \in Row
    BY <1>1, SlotType DEF IInv, TypeOK
  <2>5. scrollback[Slot(l)] = Cleared
    BY <2>3, <2>4 DEF Row, Cleared
  <2> QED BY <1>1, <1>2, <1>5, <2>5 DEF l
<1> QED BY <1>1, <1>3, <1>4, <1>5

THEOREM Invariance == Spec => []IInv
BY InitIInv, NextIInv, PTL DEF Spec

\* Cursor, ring and input buffer stay within their arrays, whatever is printed,
\* typed, rubbed out and scrolled, for arrays of any size.
THEOREM TypeCorrect == Spec => []TypeOK
BY Invariance, PTL DEF IInv

\* Wherever it is scrolled, the screen shows each line as it was printed or
\* blank, blank where a rub-out left the line that had taken its slot; and
\* every line the ring was not turned past reads as it was printed.
THEOREM ScreenCorrect == Spec => []ScreenReadsPaper /\ []HistoryIntact
BY Invariance, ScreenFollows, PTL DEF IInv

\* What io_read_line returns is the line that was typed, whatever prefixes and
\* releases came between, and what the user sees behind the prompt, for any
\* buffer that does not fill the whole ring.
THEOREM InputCorrect == Spec => []InputShown
BY Invariance, PTL DEF IInv
=============================================================================
