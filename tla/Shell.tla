-------------------------------- MODULE Shell --------------------------------
(***************************************************************************)
(* From a typed line to a command's arguments, and from an argument to a   *)
(* path: shell_run and shell_parse of kernel/kernel.c, str_trim of         *)
(* kernel/string.c, fs_resolve_path and fs_change_dir of                   *)
(* kernel/filesystem.c.  Texts are sequences of characters here, because   *)
(* the code is about them: where Filesystem and Users start from paths and *)
(* names, this module says which ones a line can mean.                     *)
(*                                                                         *)
(* Which directories there are is Filesystem's business: fs_change_dir may *)
(* or may not find the one it looks for.                                   *)
(***************************************************************************)
EXTENDS Integers, Sequences, SequencesExt

CONSTANTS
    Chars,          \* what a key can type
    Words,          \* what users type, as they mean it
    MaxWords,       \* bound of the model: words in a line
    MaxInput,       \* characters io_read_line keeps of a line (255)
    MaxArgs,        \* max_args of shell_parse (16)
    MaxName,        \* characters FS_MAX_NAME holds (31)
    MaxText,        \* characters FS_MAX_PATH holds (127)
    MaxDepth,       \* components fs_resolve_path keeps (16)
    CdName, LoadName    \* the two commands that change the current directory

Blanks == {" ", "\t"}
Quote  == "\""
Slash  == "/"
Dot    == "."

\* The places of s that hold such a character.
Blank(s)   == {k \in DOMAIN s : s[k] \in Blanks}
Visible(s) == DOMAIN s \ Blank(s)
Quotes(s)  == {k \in DOMAIN s : s[k] = Quote}

Texts == Seq(Chars)

ASSUME LimitsAssumption ==
    /\ MaxArgs \in Nat \ {0} /\ MaxName \in Nat \ {0}
    /\ MaxText \in Nat \ {0} /\ MaxDepth \in Nat
    /\ MaxWords \in Nat /\ MaxInput \in Nat

\* Words with a quote in them are left out: typed bare shell_parse lets them
\* through, but in quotes they cannot be typed.
ASSUME WordsAssumption ==
    /\ Blanks \cup {Quote, Slash, Dot} \subseteq Chars
    /\ {CdName, LoadName} \subseteq Words
    /\ Words \subseteq Texts
    /\ \A w \in Words : Quotes(w) = {}

VARIABLES
    argv,           \* what shell_parse made of the line, while it runs
    current_dir,    \* the text of the current directory
    running         \* a command is

\* History: the words the user meant by the line, and whether io_read_line kept
\* all of it.
VARIABLES meant, whole

vars == <<argv, current_dir, running, meant, whole>>

RootText == <<Slash>>

Init ==
    /\ argv = << >> /\ meant = << >> /\ whole = TRUE
    /\ current_dir = RootText
    /\ running = FALSE

-----------------------------------------------------------------------------
(***************************************************************************)
(* Lines.                                                                  *)
(***************************************************************************)

\* The first of these places of s from i on, or the end of s.
First(s, i, places) == Min({k \in places : k >= i} \cup {Len(s) + 1})

\* str_trim; io_read_line lets no end of line through.
Trim(s) ==
    IF Visible(s) = {} THEN << >> ELSE SubSeq(s, Min(Visible(s)), Max(Visible(s)))

\* Mutant of After: the character that ended the word is looked at again.
AfterNothing(s, e) == e

\* Where the search for the next word starts: after the character that ended
\* the last one, which became a zero.
After(s, e) == IF e > Len(s) THEN e ELSE e + 1

\* Where the first word of s starts, and where the character is that ends it.
InQuotes(s) == s[First(s, 1, Visible(s))] = Quote
From(s)     == First(s, 1, Visible(s)) + (IF InQuotes(s) THEN 1 ELSE 0)
To(s)       == First(s, From(s), IF InQuotes(s) THEN Quotes(s) ELSE Blank(s))

\* The first n words of a text.
ParseInto[n \in Nat] ==
    [s \in Texts |->
        IF n = 0 \/ Visible(s) = {} THEN << >>
        ELSE <<SubSeq(s, From(s), To(s) - 1)>>
                 \o ParseInto[n - 1][SubSeq(s, After(s, To(s)), Len(s))]]

\* Mutant of Parse: one word too many for argv.
ParseOneMore(line) == ParseInto[MaxArgs + 1][line]

\* shell_parse.
Parse(line) == ParseInto[MaxArgs][line]

-----------------------------------------------------------------------------
(***************************************************************************)
(* Paths.                                                                  *)
(***************************************************************************)

\* The last character of raw goes on with the last part of what is before it:
\* no slash ended that part, and it has room.
GoesOn(raw, parts) ==
    parts # << >> /\ raw[Len(raw) - 1] # Slash /\ Len(Last(parts)) < MaxName

\* The parts between the slashes, a long name being cut into several.
Parts[raw \in Texts] ==
    IF raw = << >> THEN << >>
    ELSE LET parts == Parts[Front(raw)]
             c     == Last(raw)
         IN  CASE c = Slash -> parts
               [] c # Slash /\ GoesOn(raw, parts) ->
                      Append(Front(parts), Append(Last(parts), c))
               [] OTHER -> Append(parts, <<c>>)

\* Mutant of Walk: "." is a name like any other.
WalkDots(path, part) ==
    CASE part = <<Dot, Dot>> -> SubSeq(path, 1, Len(path) - 1)
      [] part # <<Dot, Dot>> /\ Len(path) < MaxDepth -> Append(path, part)
      [] OTHER -> path

\* What one part does to the components gathered so far.
Walk(path, part) ==
    CASE part = <<Dot>> -> path
      [] part = <<Dot, Dot>> -> SubSeq(path, 1, Len(path) - 1)
      [] part \notin {<<Dot>>, <<Dot, Dot>>} /\ Len(path) < MaxDepth ->
             Append(path, part)
      [] OTHER -> path

\* The components that all the parts come to.
Walked[parts \in Seq(Texts)] ==
    IF parts = << >> THEN << >> ELSE Walk(Walked[Front(parts)], Last(parts))

Slashed[path \in Seq(Texts)] ==
    IF path = << >> THEN << >> ELSE Slashed[Front(path)] \o <<Slash>> \o Last(path)

Text(path) == IF path = << >> THEN RootText ELSE Slashed[path]

\* Mutant of Joined: no slash is put between directory and input.
JoinedBare(dir, input) == dir \o input

Joined(dir, input) ==
    (IF dir = RootText THEN dir ELSE dir \o <<Slash>>) \o input

\* The text fs_resolve_path works on.
Raw(dir, input) ==
    CASE input = << >> -> dir
      [] input # << >> /\ input[1] = Slash ->
             SubSeq(input, 1, Min({Len(input), MaxText}))
      [] OTHER -> Joined(dir, input)

Resolve(dir, input) == Text(Walked[Parts[Raw(dir, input)]])

\* The buffers raw and result of fs_resolve_path hold what is put there.
Fits(dir, input) ==
    Len(Raw(dir, input)) <= MaxText /\ Len(Resolve(dir, input)) <= MaxText

-----------------------------------------------------------------------------
(***************************************************************************)
(* The shell.                                                              *)
(***************************************************************************)

\* The first of the words ws as it is typed: in quotes if it has to be, or if
\* the user likes to.  The quotes of the last word may stay open, unless blanks
\* end it.
Typed(ws, quoting, open) ==
    LET w      == Head(ws)
        quoted == quoting \/ w = << >> \/ Blank(w) # {}
        closed == ~open \/ Tail(ws) # << >> \/ Len(w) \in Blank(w)
    IN  CASE quoted /\ closed  -> <<Quote>> \o w \o <<Quote>>
          [] quoted /\ ~closed -> <<Quote>> \o w
          [] ~quoted           -> w

\* The words, a gap before each.
Spaced(gap, quoting, open) ==
    LET spaced[ws \in Seq(Words)] ==
            IF ws = << >> THEN << >>
            ELSE gap \o Typed(ws, quoting, open) \o spaced[Tail(ws)]
    IN  spaced

Line(ws, gap, quoting, open) == Spaced(gap, quoting, open)[ws] \o gap

\* io_read_line, which shows no more of what is typed than it keeps.
Kept(line) == SubSeq(line, 1, Min({Len(line), MaxInput}))

ReadLine(ws, line) ==
    /\ ~running
    /\ argv' = Parse(Trim(Kept(line)))
    /\ running' = (argv' # << >>)
    /\ meant' = ws /\ whole' = (Len(line) <= MaxInput)
    /\ UNCHANGED current_dir

\* The command is over; argv is filled anew for the next one.
Returns ==
    /\ running' = FALSE /\ argv' = << >>
    /\ meant' = << >> /\ whole' = TRUE

\* An argument too long for the buffers is left out: what C does then is
\* undefined.
Cd ==
    /\ running /\ argv[1] = CdName
    /\ LET input == IF Len(argv) < 2 THEN RootText ELSE argv[2]
       IN  \/ Fits(current_dir, input) /\ current_dir' = Resolve(current_dir, input)
           \/ UNCHANGED current_dir
    /\ Returns

\* fs_disk_load leaves the current directory alone unless it succeeds.
Load ==
    /\ running /\ argv[1] = LoadName
    /\ current_dir' \in {RootText, current_dir}
    /\ Returns

OtherCommand ==
    /\ running /\ argv[1] \notin {CdName, LoadName}
    /\ UNCHANGED current_dir
    /\ Returns

Gaps == {<<" ">>, <<" ", "\t">>}

Next ==
    \/ \E ws \in BoundedSeq(Words, MaxWords), gap \in Gaps,
          quoting, open \in BOOLEAN :
          ReadLine(ws, Line(ws, gap, quoting, open))
    \/ Cd \/ Load \/ OtherCommand

Spec == Init /\ [][Next]_vars

-----------------------------------------------------------------------------
(***************************************************************************)
(* What must hold.                                                         *)
(***************************************************************************)

\* shell_parse fills no more of argv than there is, and the current directory
\* fits its array.
TypeOK ==
    /\ Len(argv) <= MaxArgs
    /\ Len(current_dir) \in 1 .. MaxText
    /\ running \in BOOLEAN

\* A command is given the words the user meant, as many as argv holds, with
\* their blanks if quoted, however many blanks are around them, whatever was
\* between the quotes and whether or not the last of these was typed.  Of a
\* line too long for io_read_line it is given words the user meant, the last
\* maybe cut short, and none that were not.
WordsUnderstood ==
    LET taken == SubSeq(meant, 1, Min({Len(meant), MaxArgs}))
    IN  /\ whole => argv = taken
        /\ Len(argv) <= Len(taken)
        /\ \A k \in DOMAIN argv :
              IF k < Len(argv) THEN argv[k] = taken[k]
              ELSE IsPrefix(argv[k], taken[k])

\* The current directory is always the text that the nodes of the directory's
\* table carry: no "." or "..", no doubled or last slash, no name or depth
\* beyond the limits, whatever line led to it.  find_node compares texts.
CurrentDirCanonical ==
    LET path == Parts[current_dir]
    IN  /\ current_dir = Text(path)
        /\ Len(path) <= MaxDepth
        /\ \A k \in DOMAIN path :
              path[k] \notin {<<Dot>>, <<Dot, Dot>>} /\ Len(path[k]) <= MaxName

\* Going to a and from there to b is going to a/b, for any two arguments and
\* from any directory one can be in, even where the limits cut names and paths.
StepsCompose ==
    ~running =>
        \A a, b \in Words \ {<< >>} :
            LET there == Resolve(current_dir, a)
                both  == a \o <<Slash>> \o b
            IN  /\ b[1] # Slash /\ Len(both) <= MaxText
                /\ Fits(current_dir, a) /\ Fits(there, b)
                /\ Fits(current_dir, both)
                => Resolve(there, b) = Resolve(current_dir, both)
=============================================================================
