------------------------------- MODULE Console -------------------------------
(***************************************************************************)
(* The terminal of kernel/io.c: what is printed goes into a ring of        *)
(* SCROLLBACK_LINES lines, the screen shows VGA_HEIGHT of them from        *)
(* viewport_top on, and io_read_line edits a line of input in place, among *)
(* them scroll keys that move the screen over the ring.                    *)
(*                                                                         *)
(* A cell is its character; colours are left out.  The screen itself is    *)
(* not a variable: every operation ends in render, which draws it anew     *)
(* from the rest, as Screen does.  Programs print characters and ends of   *)
(* lines; no command prints the two other control characters that          *)
(* io_print_char knows.                                                    *)
(***************************************************************************)
EXTENDS Integers, Sequences

CONSTANTS
    Width, Height,  \* VGA_WIDTH, VGA_HEIGHT
    Lines,          \* SCROLLBACK_LINES
    MaxLen,         \* the size of the caller's buffer
    Chars,          \* what can be typed and printed
    MaxLine         \* bound of the model: lines printed since a clear

ASSUME SizesAssumption ==
    /\ Width \in Nat \ {0} /\ Height \in Nat \ {0}
    /\ Lines \in Nat /\ Lines >= Height
    /\ MaxLine \in Nat
\* A line of input never wraps around the whole ring.
ASSUME MaxLenAssumption == MaxLen \in Nat \ {0} /\ MaxLen <= Width * (Lines - 1)

VARIABLES
    scrollback,     \* the ring of lines
    terminal_line, terminal_column,
    viewport_top,
    extended_scancode,
    reading,        \* io_read_line is active
    buffer          \* what it has read so far

\* History, which no action depends on.
VARIABLES
    paper,          \* each line as it would be on endless paper
    deepest,        \* the last line reached since the screen was cleared
    start,          \* where the input begins, in cells from line 0
    prefixed,       \* the last scancode was the prefix 0xE0
    typed           \* the line of input, as its keys were pressed

terminal == <<scrollback, terminal_line, terminal_column, viewport_top>>
keyboard == <<extended_scancode, reading, buffer, start, prefixed, typed>>
vars == <<terminal, keyboard, paper, deepest>>

Columns == 0 .. Width - 1
Space   == " "
Row     == [Columns -> Chars \cup {Space}]
Cleared == [x \in Columns |-> Space]
Slot(l) == l % Lines

Larger(a, b)  == IF a >= b THEN a ELSE b
Smaller(a, b) == IF a <= b THEN a ELSE b

\* Mutant of Oldest: the ring is taken to be one line longer.
OldestOfMore(l) == Larger(0, l - Lines)

\* The oldest line the ring has, and the screen's top line when it shows the
\* last one, with the cursor in line l.
Oldest(l)        == Larger(0, l - Lines + 1)
LatestViewTop(l) == Larger(0, l - Height + 1)

Position(l, x) == l * Width + x

Init ==
    /\ scrollback = [s \in 0 .. Lines - 1 |-> Cleared]
    /\ terminal_line = 0 /\ terminal_column = 0 /\ viewport_top = 0
    /\ extended_scancode = FALSE
    /\ reading = FALSE /\ buffer = << >>
    /\ paper = [l \in 0 .. MaxLine |-> Cleared]
    /\ deepest = 0 /\ start = 0 /\ prefixed = FALSE /\ typed = << >>

-----------------------------------------------------------------------------
(***************************************************************************)
(* Output.                                                                 *)
(***************************************************************************)

\* follow_output and render: the top of the screen is brought in range.
Follow == viewport_top' = LatestViewTop(terminal_line')

\* The cell the cursor is on gets character c.
Cell(c) == [scrollback EXCEPT ![Slot(terminal_line)][terminal_column] = c]

OnPaper(l, x, c) == paper' = [paper EXCEPT ![l][x] = c]

\* Mutant of ClearLine: what the line held one turn of the ring ago stays.
KeepLine(ring, l) == ring

\* clear_history_line.
ClearLine(ring, l) == [ring EXCEPT ![Slot(l)] = Cleared]

\* The cursor goes to the start of the next line, which is cleared in ring.
NextLine(ring, sheet) ==
    /\ terminal_line < MaxLine
    /\ terminal_line' = terminal_line + 1
    /\ terminal_column' = 0
    /\ scrollback' = ClearLine(ring, terminal_line + 1)
    /\ paper' = [sheet EXCEPT ![terminal_line + 1] = Cleared]
    /\ deepest' = Larger(deepest, terminal_line + 1)

NewLine == NextLine(scrollback, paper) /\ Follow

Put(c) ==
    /\ \/ /\ terminal_column + 1 < Width
          /\ scrollback' = Cell(c)
          /\ OnPaper(terminal_line, terminal_column, c)
          /\ terminal_column' = terminal_column + 1
          /\ UNCHANGED <<terminal_line, deepest>>
       \/ /\ terminal_column + 1 >= Width
          /\ NextLine(Cell(c),
                      [paper EXCEPT ![terminal_line][terminal_column] = c])
    /\ Follow

\* Mutant of Back: the line above is not gone back to.
BackInLine == <<terminal_line, Larger(0, terminal_column - 1)>>

\* The place before the cursor.
Back ==
    IF terminal_column = 0 THEN <<terminal_line - 1, Width - 1>>
                           ELSE <<terminal_line, terminal_column - 1>>

Backspace ==
    LET l == Back[1]
        x == Back[2]
    IN  /\ terminal_column # 0 \/ terminal_line # 0
        /\ terminal_line' = l /\ terminal_column' = x
        /\ scrollback' = [scrollback EXCEPT ![Slot(l)][x] = Space]
        /\ OnPaper(l, x, Space)
        /\ UNCHANGED deepest
        /\ Follow

PrintChar ==
    /\ ~reading
    /\ NewLine \/ \E c \in Chars : Put(c)
    /\ UNCHANGED keyboard

Clear ==
    /\ ~reading
    /\ terminal_line' = 0 /\ terminal_column' = 0 /\ viewport_top' = 0
    /\ scrollback' = [s \in 0 .. Lines - 1 |-> Cleared]
    /\ paper' = [l \in 0 .. MaxLine |-> Cleared]
    /\ deepest' = 0
    /\ UNCHANGED keyboard

-----------------------------------------------------------------------------
(***************************************************************************)
(* The screen over the ring.                                               *)
(***************************************************************************)

\* What render draws: the lines from the top of the screen on, a blank one
\* for a line the ring does not have.
Screen ==
    [y \in 0 .. Height - 1 |->
        LET l == viewport_top + y
        IN  IF l \in Oldest(terminal_line) .. terminal_line
            THEN scrollback[Slot(l)] ELSE Cleared]

\* n turns of io_scroll_up, or of io_scroll_down.
Up(n)   == Larger(Oldest(terminal_line), viewport_top - n)
Down(n) == Smaller(LatestViewTop(terminal_line), viewport_top + n)

ScrollKeys == {"up", "down", "page up", "page down", "home"}

Scroll(key) ==
    viewport_top' =
        CASE key = "up"        -> Up(1)
          [] key = "down"      -> Down(1)
          [] key = "page up"   -> Up(Height - 1)
          [] key = "page down" -> Down(Height - 1)
          [] key = "home"      -> LatestViewTop(terminal_line)
          [] OTHER             -> viewport_top

-----------------------------------------------------------------------------
(***************************************************************************)
(* Input: io_read_line, a scancode at a time.                              *)
(***************************************************************************)
BeginRead ==
    /\ ~reading
    /\ reading' = TRUE
    /\ buffer' = << >> /\ typed' = << >>
    /\ start' = Position(terminal_line, terminal_column)
    /\ UNCHANGED <<terminal, extended_scancode, prefixed, paper, deepest>>

\* The prefix 0xE0.
Prefix ==
    /\ reading
    /\ extended_scancode' = TRUE /\ prefixed' = TRUE
    /\ UNCHANGED <<terminal, reading, buffer, start, typed, paper, deepest>>

\* Mutant of Released: a key let go is passed over.
AsBefore == extended_scancode

\* The flag after a key was let go, whose code has the top bit set.
Released == FALSE

Release ==
    /\ reading
    /\ extended_scancode' = Released /\ prefixed' = FALSE
    /\ UNCHANGED <<terminal, reading, buffer, start, typed, paper, deepest>>

\* Mutant of Room: the terminating zero is forgotten.
RoomForOneMore(text) == Len(text) < MaxLen

Room(text) == Len(text) + 1 < MaxLen

OtherKeys == ScrollKeys \cup {"enter", "backspace", "other"}
Keys      == Chars \cup OtherKeys

ASSUME KeysAssumption == Chars \cap OtherKeys = {}

\* A line of input after a key that no prefix goes before.
Edited(text, key) ==
    CASE key \in Chars /\ Room(text)           -> Append(text, key)
      [] key = "backspace" /\ text # << >>     -> SubSeq(text, 1, Len(text) - 1)
      [] OTHER                                 -> text

Pressed(key) ==
    /\ typed' = IF prefixed THEN typed ELSE Edited(typed, key)
    /\ prefixed' = FALSE

\* A key that is taken to come after the prefix: a scroll key, or one that
\* does nothing, such as the other Enter.
ExtendedKey(key) ==
    /\ reading /\ extended_scancode
    /\ Pressed(key)
    /\ extended_scancode' = FALSE
    /\ Scroll(key)
    /\ UNCHANGED <<scrollback, terminal_line, terminal_column, reading, buffer,
                   paper, deepest, start>>

Enter ==
    /\ reading /\ ~extended_scancode
    /\ Pressed("enter")
    /\ NewLine
    /\ reading' = FALSE
    /\ UNCHANGED <<extended_scancode, buffer, start>>

Rubout ==
    /\ reading /\ ~extended_scancode
    /\ Pressed("backspace")
    /\ buffer # << >>
    /\ buffer' = SubSeq(buffer, 1, Len(buffer) - 1)
    /\ Backspace
    /\ UNCHANGED <<extended_scancode, reading, start>>

\* A character for which there is no room is not echoed either.
Type(c) ==
    /\ reading /\ ~extended_scancode
    /\ Pressed(c)
    /\ Room(buffer)
    /\ buffer' = Append(buffer, c)
    /\ Put(c)
    /\ UNCHANGED <<extended_scancode, reading, start>>

Next ==
    \/ PrintChar \/ Clear \/ BeginRead
    \/ Prefix \/ Release
    \/ \E key \in Keys : ExtendedKey(key)
    \/ Enter \/ Rubout
    \/ \E c \in Chars : Type(c)

Spec == Init /\ [][Next]_vars

-----------------------------------------------------------------------------
(***************************************************************************)
(* What must hold.                                                         *)
(***************************************************************************)

\* Cursor, ring and buffer stay within their arrays: the buffer keeps a place
\* for its terminating zero.
TypeOK ==
    /\ scrollback \in [0 .. Lines - 1 -> Row]
    /\ terminal_line \in 0 .. MaxLine /\ terminal_column \in Columns
    /\ viewport_top \in 0 .. MaxLine
    /\ extended_scancode \in BOOLEAN /\ reading \in BOOLEAN
    /\ buffer \in Seq(Chars) /\ Len(buffer) <= MaxLen - 1
    /\ paper \in [0 .. MaxLine -> Row]
    /\ deepest \in terminal_line .. MaxLine
    /\ start \in Nat /\ prefixed \in BOOLEAN
    /\ typed \in Seq(Chars)

\* The screen shows what was printed or nothing, wherever it was scrolled:
\* a line the ring was never turned past as it was printed; any other, among
\* them one that comes back into range when a rub-out leaves the line that
\* took its slot, and all behind the cursor, blank and not as another line.
ScreenReadsPaper ==
    \A y \in 0 .. Height - 1 :
        LET l == viewport_top + y
        IN  Screen[y] = IF l \in Oldest(deepest) .. terminal_line
                        THEN paper[l] ELSE Cleared

\* Every line that the ring has not been turned past still reads as printed,
\* whatever was typed, rubbed out across the end of a line, or scrolled.
HistoryIntact ==
    \A l \in Oldest(deepest) .. terminal_line :
        scrollback[Slot(l)] = paper[l]

\* What io_read_line will return is the line that was typed, whatever
\* prefixes and releases came between its keys, and is what the user sees
\* between the prompt and the cursor, across ends of lines and the ring's end.
InputShown ==
    reading =>
        /\ buffer = typed
        /\ Position(terminal_line, terminal_column) = start + Len(buffer)
        /\ \A k \in 1 .. Len(buffer) :
              LET p == start + k - 1
              IN  scrollback[Slot(p \div Width)][p % Width] = buffer[k]
=============================================================================
