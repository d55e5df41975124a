# plDOS in TLA+

Models of plDOS, the properties that make it correct, the runs that check them
with TLC on small instances and the proofs that TLAPS checks for every value of
the constants. File names below are relative to the repository.

## 1. The system

plDOS is a 32-bit kernel with the commands linked in. It has one thread and no
interrupts: `kmain` initialises the parts, then `shell_run` reads a line, runs
the command to its end and prompts again. What makes it hard is not threads but

- state kept twice (parent indices and cached paths; memory and disk; the ring
  of lines and the screen), changed in several steps;
- slots of fixed tables, freed and reused in any order;
- a disk that fails, answers late, or loses power between two sectors;
- limits (16 components, 128 bytes, 4096 bytes, 16 words) met after a long
  sequence of commands that were each legal.

| Part | Source | State | Operations | Used by |
|---|---|---|---|---|
| filesystem | `kernel/filesystem.c` | `nodes[128]`, `current_dir` | cd, create, delete, move, copy, write, append, list | commands, through the connector |
| persistence | `kernel/filesystem.c`, `progs/disk.c` | `persistence_enabled`, `fs_booting`, the disk's sectors | boot, save, load, initdisk, auto-save after every change | filesystem operations, commands |
| ATA driver | `kernel/disk.c` | `has_disk`, the drive's ports | probe, read and write a sector by polling | persistence |
| users | `kernel/users.c` | `users[16]`, `current_user` | add, remove, login, logout, list | commands, prompt |
| terminal | `kernel/io.c` | ring `scrollback[200]`, cursor, `viewport_top`, prefix flag | print, backspace, scroll, read a line | everything |
| shell and texts | `kernel/kernel.c`, `kernel/string.c`, `fs_resolve_path` | `line`, `argv` | trim, split, resolve | user |
| connector | `kernel/kernel_connector.c` | none | passes a request on to the kernel function | commands |
| commands | `progs/*.c` | none | mostly one request each; `write` makes two | shell |
| heap | `kernel/memory.c` | `heap_used` | `kmalloc`, never freed | nobody yet |
| boot and help files | `kernel/kernel.c`, `progs/programs.c` | the index of `programs_init`'s loop | initialise the parts, make the help files that are missing, prompt | |
| entry | `boot/` | none | jump to `kmain` | |
| hosted prototype | `src/*.c`, `include/` | its own flat filesystem | not built any more | |

What makes each part correct, and how it could fail to be, is the list
`hazards` of `PROJECT.json`: every entry has its line in the source and the
properties that catch it, or a note why none does yet.

## 2. Modules

| Module | What it is |
|---|---|
| `Filesystem` | the table of nodes, one action per operation |
| `FileTree` | the abstract tree `Filesystem` implements |
| `FilesystemProofs` | theorems about `Filesystem` |
| `FileTreeProofs` | theorems about the tree as a whole, its refinement of `FileTree` included |
| `Persistence` | save, load, boot and loss of power, sector by sector |
| `PersistenceProofs` | theorems about `Persistence` |
| `Ata` | the driver, and the drive as the driver sees it |
| `SectorStore` | the contract between driver and persistence |
| `Users`, `UsersProofs` | the user table and the session, and their theorems |
| `AtaProofs` | theorems about `Ata`, its refinement of `SectorStore` included |
| `Console`, `ConsoleProofs` | the terminal, and its theorems |
| `Kernel`, `KernelProofs` | boot, help files, commands, saves and loss of power over `Filesystem`, and its theorems |
| `Shell`, `ShellProofs` | lines to words, words to paths, and the theorems |
| `MC*` | values of the constants and refinement mappings for TLC |

The modules meet where the code does. `Persistence` takes `SectorStore`'s
promise for granted, and `Ata` implements it. `Persistence!Operation` is any
table-changing action of `Filesystem`. `Filesystem` starts from paths; `Shell`
shows which paths a line can lead to. `Kernel` INSTANCEs `Filesystem`, takes its
actions as they are and puts around them what `kernel.c` and `programs.c` do:
when they run, which of them a command is made of, and the save each starts.
The connector has no state: the choice among its requests is the disjunction in
`Command` and `Next`.

Some definitions are marked "Mutant of": plausible bugs in the definition that
follows them. No specification uses them. Each property is shown to fail when
one of them takes the place of the right definition.

### Filesystem

`nodes`, `current_dir` are the code's. A path is the sequence of its components
and a byte limit on its text is a limit on their number. `frames` is the call
stack of the recursive `rebuild_child_paths`, one record per active call with
the directory and the loop's index, so that a move is as many steps as nodes
it rewrites. `pending` is the second call a `copy` or `write` has still to
make. `overrun` is set when a path outgrows the buffer `next[FS_MAX_PATH]`;
the model stops there, because what C does next is undefined. That is why the
filesystem runs say `CHECK_DEADLOCK FALSE`.

`LineTexts` are contents typed in a line of at most 255 characters, which are
always below `FS_MAX_FILE_SIZE`; `Texts` are those that any caller of
`fs_write_file` and `fs_append_file` may pass. A freed slot keeps its `data`
and `size` in the code and in the model.

`FileTree` is a map from paths to entries on which each command acts in one
step, all or nothing. It states one hole instead of hiding it: moving a
directory below itself or too deep does not return. The mapping in
`MCFileTree` finds a node's place by its parent indices, which a move changes
for a whole subtree in one assignment; the cached paths catch up later, and the
file a command has made but not yet written is not there yet.

### Persistence

The table is `NumSectors` sectors; the content of a sector is the number of the
operation that last changed it, which tells apart all that the properties need.
`Operation` changes any non-empty set of sectors and, as `persist_if_enabled`
does, starts a save if `persistence_enabled` and not `fs_booting`. Every
transfer may fail, and `PowerLoss` may come between any two. `durable`, `held`,
`failed` and `hurt` are history: the last whole image, the tables the machine
had at its prompt, whether a transfer failed since the last whole save or load,
and whether a save or load was cut short past its point of no return. A read
that fails in the middle of a boot leaves what was read and makes the default
tree over it, which may change nothing.

What the properties do not promise is as telling. `AutoSaveHolds` says nothing
between a failed transfer and the next whole save or load, since the code then
promises nothing: a save that fails is not reported
(`kernel/filesystem.c:542`), and a first save that fails turns auto-save off
(`kernel/filesystem.c:53`). `BootRestores` holds of a boot that can read the
disk; one that cannot saves the default tree over it
(`kernel/filesystem.c:47`), which is the only way it says a boot may overwrite a
whole image.

### Ata

Driver and drive interleave at every poll. The drive is external: what it does
is what the driver relies on (BSY, then DRQ or ERR, then the data). It may
answer at any time or never. A command sent while DRQ of an older one is up may
be taken or not. `broken` is history: the driver gave up on a command the drive
was at, or the drive failed after it had taken the words. Until then `Ata`
implements `SectorStore`; afterwards nothing is promised, and `ata_success`
shows that the driver's result is then wrong.

### Users

The table, the session and what the last command answered. `began` remembers
how the session began. The `users` command is what it prints: `Indices` are the
indices it asks `users_get` for, `Gets` says which slot answers to one, and
`Marked` which line it marks as current. It does that by name, so that
`ListsEveryUser` depends on names being unique in the table as it is.

### Console

The ring, the cursor, the top of the screen, the prefix flag and the line being
read. `paper`, `deepest`, `start`, `prefixed` and `typed` are history: what the
lines would be on endless paper, the last line reached, where the input begins,
whether the last scancode was the prefix 0xE0, and the line as its keys were
pressed. The screen is not a variable: every operation redraws it from these, as
`Screen` says.

When a rub-out goes back over the start of a line, `render` takes the oldest
line from the cursor's line, which has moved back, while the oldest line's slot
was cleared for the line that was left (`kernel/io.c:97-104`, `194-196`,
`232-236`). So a line comes back into range whose text is gone.
`ScreenReadsPaper` says what is seen of it: blank, and never another line's
text.

### Kernel

`phase` is where the machine is between power on and the prompt: `Boot` is
`fs_init` up to the load or the default tree, then its first save ("tree"),
`programs_init` ("programs", with `next_program` as its loop's index) and
`shell_run` ("prompt"). A command is one action of `Filesystem`, or a refusal
for want of words; `Continue` is what is left of a move, a copy or a write, and
the write that `programs_init` makes whether or not the file could be made.
Each ends in `Persists`, which is `persist_if_enabled`, and the save runs sector
by sector while nothing else does.

`Persistence` knows sectors and not what is in them, and lets them fail.
`Kernel` looks into them: a sector is a part of a node, in the order of the
fields of `fs_node_t`, of which `used` is the last. Between them the two models
split the question: the disk here is there and never fails, but the power does,
between any two sectors. A sector whose content is on the disk already is left
out of the save, since writing it changes nothing; names and paths are never
cut within; the content of a file is, after its first byte. The first disk is
blank. All programs have one help text, and the paths of the commands are any
of the resolved ones.

`before`, `moved`, `loaded`, `expected` and `cut` are history: the table when
the operation in progress began, whether that was a move, the table the boot
found, the tables the next boot may find, and whether the power went while a
help file was made.

### Shell

Texts are sequences of characters here (`Texts`, over the constant `Chars`),
since the code is about them. The loops of `shell_parse` and `fs_resolve_path`
are recursive functions: `ParseInto[n]` takes up to `n` words off the front of a
text, `Parts` reads the text to resolve one character after the other, `Walked`
takes the parts one by one, and `Slashed` puts a path's text together. A line is
typed from words: in quotes if a word needs them or the user likes to, those of
the last one closed or left open (`Typed`), and `io_read_line` keeps its first
`MaxInput` characters (`Kept`). `meant` and `whole` are history: the words the
user had in mind, and whether all of the line was kept.

## 3. Runs

| Run | Expect | Properties | Bounds |
|---|---|---|---|
| `fs_tree` | pass | `TypeOK`, `TreeConsistent`, `SiblingsDistinct`, `ListingAgrees`, `StrandedEmpty`, `Reachable`, `OverrunCause`; `RebuildReturns` | 5 slots, 2 names, inputs of up to 2 components, 3 in a path |
| `fs_implements` | pass | `OwedWriteFindsFile`; `ImplementsFileTree` | 4 slots, files of up to 1 byte, texts of 1 and 2 |
| `users` | pass | `TypeOK`, `RootStays`, `NamesUnique`, `SessionHasUser`, `NobodyHasNoRights`, `ListsEveryUser`; `SessionStable` | 4 slots, 4 names and a bad one |
| `persistence` | pass | `TypeOK`, `AutoSaveHolds`, `DurableKept`, `HeldUnlessHurt`, `SavedIsSaved`; `BootRestores`, `TransfersEnd` | 3 sectors, 2 operations |
| `ata` | pass | `TypeOK`; `CallReturns`, `ImplementsSectorStore` | 2 sectors of 2 words, 2 polls |
| `kernel` | pass | `TypeOK`, `BootKeeps`, `HelpsReady`; `CrashAtomic`, `PromptReturns` | 7 slots, 2 programs, 2 names, 2 commands, 2 losses of power |
| `console` | pass | `TypeOK`, `ScreenReadsPaper`, `HistoryIntact`, `InputShown` | lines of 2 cells, screen of 2, ring of 3, 5 lines in all |
| `shell` | pass | `TypeOK`, `WordsUnderstood`, `CurrentDirCanonical`, `StepsCompose` | 12 words, 3 in a line, 12 characters of it kept, 2 words in `argv`, names of 2, paths of 2 |
| `fs_move` | violation | `MovesEveryFolder` | as `fs_tree` |
| `users_logout` | violation | `LogoutReturnsToGuest` | as `users` |
| `persist_torn` | violation | `LoadedIsWhole` | 2 sectors, 1 operation |
| `ata_success` | violation | `SuccessIsTrue` | as `ata` |

Why the bounds are enough. Five slots hold the default tree and one more node,
or, after deletions, any tree of five nodes: a directory moved with a child and
a grandchild, a cycle of two, a full table, a slot before and after its
parent's. Paths of three components with inputs of two let a move make a path
that no input can name and one that does not fit. Contents are left out of
`fs_tree` and present in `fs_implements`, where a byte limit of 1 puts both
sides of the boundary within reach. Three sectors give a save or load a first, a
middle and a last one; with two operations disk and memory can hold sectors of
three tables. Seven slots hold the default tree, the help files of two programs
and one node more, so that a command can fill the table before the next boot's
`programs_init`; two losses let the second boot meet what the first one left and
be cut short in turn; two commands are a change and another that builds on it,
or one on either side of a boot; a help text of two bytes has a first byte and a
rest. Two words and two polls are a first and a last one. A ring of three lines
under a screen of two turns over with the fourth line, and an input of three
characters crosses the end of a line of two, and the fifth line takes the slot
of the second, so that a rub-out into the fourth brings the second back. Every
limit of `Shell` is below what its words can ask for; lines are cut within a
word, within a gap, within quotes and behind the words that `argv` holds.

Bounds that only the model has: `MaxOps` (operations that change the table),
`MaxLine` (lines printed since a clear), `MaxWords` (words in a line),
`MaxCommands` and `MaxLosses` (commands typed and losses of power, in all). Each
is in the guard of the action that counts.

Fairness. `Filesystem!FairSpec`: a command that has begun goes on
(`RebuildStep`, `PendingWrite`), since nothing else runs.
`Persistence!FairSpec`: a transfer begun is answered, since the driver's loops
are bounded, which `CallReturns` shows. `Kernel!FairSpec`: the kernel's own
steps go on, since it has no other thread and waits for nobody but the user;
neither the user nor the power is fair. `Ata!FairSpec`: only the driver is fair,
the drive may be dead. No fairness is put on users, failures, power or calls.

### What the violations show

- `fs_move` (`kernel/filesystem.c:249`): `fs_move` lets a directory be moved
  below itself, and into places too deep for its descendants' paths.
  `OverrunCause` and `RebuildReturns` show that nothing else goes wrong.
- `users_logout` (`kernel/users.c:92`): "return to guest" after the guest was
  deleted is nobody, or the next user added.
- `persist_torn` (`kernel/filesystem.c:424`): the header comes before the data
  it vouches for. `HeldUnlessHurt` shows that only interrupted transfers lead
  there.
- `ata_success` (`kernel/disk.c:149`): success is returned without a look at
  what became of the sector.

One disagreement has no run of its own. The repository's README says "plDOS
auto-saves filesystem changes when an ATA disk is attached" (README.md:86), but
a first save that fails at boot leaves auto-save off for the session, and a
first read that fails is taken for an empty disk (`kernel/filesystem.c:47-57`).
`AutoSaveHolds` states what the code does keep.

## 4. Proofs

All theorems are for every value of the constants allowed by the named
assumptions of the modules, and each follows from an inductive invariant that
TLC's invariants only sample.

**FilesystemProofs.** `TableConsistent`, `ListingCorrect`, `StrandedCorrect`,
`OwedWriteSafe`, `SizesCorrect`, `TypeCorrect`. None of the properties is
inductive alone. The hard part is the middle of a move: a node's cached path is
wrong exactly while an active call of `rebuild_child_paths` has its parent as
directory and has not passed its slot (`Stale`). The invariant adds that the
root keeps its slot (`RootOK`), that no file outgrows its array (`SizesOK`),
that the calls on the stack have used directories of the table, that names are
names, that the owed write's file exists and that a rebuild and an owed write
are never both there. It holds even for a tree with a cycle. `ListingCorrect`
then goes from the cached paths, with no call active, to the agreement of
listing and lookup, and `StrandedCorrect` by the paths' lengths to the empty
place below a current directory that is gone.

**FileTreeProofs.** `ReachableCorrect`, `OverrunCauseCorrect`, `Implements`.
Here the properties are about `Ancestor` and `TruePath`, functions that follow
the parent indices to the root, so the module first proves that they satisfy the
equations they are declared with, and replaces induction by the least number of
a set (`LeastNumber`, `AllNumbers`, `Recursion`). `Labels` is the way to read
such a function off a table: whatever gives each slot of a set the label of its
parent and its own name is the true path of those slots, leads to the root in as
many steps as the label is long, and differs from slot to slot. The invariant
`TInv` adds to that of `FilesystemProofs` what a running rebuild owes to the
tree: each call's directory is at least as deep below the root as its path is
long (`StackDeep`). So a path that does not fit is one of a node that is too
deep, or in a ring (`OverrunCauseCorrect`). With no call active the cached paths
are labels, so every node reaches the root (`ReachableCorrect`).

`Implements` is the refinement: under the mapping of `MCFileTree` every step of
`Filesystem` is a step of `FileTree` or none. A creation, deletion or write
changes the map at one path; a creation that owes a write changes nothing, and
the write then does both. A move is the hard one, because one assignment of a
parent index changes the true paths of a whole subtree: the paths the move will
have given to every node when it is done are labels of the table already
(`NewLabels`, `MoveElsewhere`), and the rebuild's steps that follow change
nothing that `FileTree` sees. A move below itself or one too deep is the step in
which `FileTree` gives its promise up (`MoveIntoItself`, `Doomed`).

**UsersProofs.** `TableCorrect`, `SessionsStable`, `NobodyHarmless`,
`ListsCorrect`, `TypeCorrect`. The strengthening is that a free slot is blank:
this is why a session left on a freed slot has no rights, and why that slot
cannot be given away by its own session. `ListsCorrect` rests on counting: an
active slot has fewer active ones before it than there are in all
(`IndexBelowCount`), and the count grows from 0 to `users_count` by one at a
time, so that every index is passed at an active slot (`EveryIndexAnswers`).
That no name has two lines and that only the session's user is marked rests on
the invariant: on unique names, and on a freed slot having no name
(`MarkedIsCurrent`).

**PersistenceProofs.** `DiskCorrect`, `TablesAreHeld`, `BootsRestore`,
`TypeCorrect`, for any number of sectors and operations. The strengthening
describes the inside of a transfer: the sectors passed are equal on both sides
(`Prefix`), a load the user asked for does not disturb a saved table
(`Synced`), what is saved or loaded is a table the machine held (`Origin`),
`fs_booting` is set only during a boot (`Callers`), and once it is over
auto-save is off only without a disk or after a failed transfer (`Attached`).
`BootsRestore` says of each boot both what it brings back and that without a
failed transfer it saves over no whole image.

**AtaProofs.** `TypeCorrect`, `DriverCorrect`. The second is the refinement:
`Ata`, at every poll interleaved with the drive, implements `SectorStore` under
the mapping of `MCAta`. Its invariant is the contract between the two sides
(`Contract`): until one of them gives the other up, the drive is at the command
and the word the driver believes it is at, and what the drive has taken or
handed out so far is what is in the driver's buffer. Each step of driver or
drive is then a step of the store or none.

**ConsoleProofs.** `ScreenCorrect`, `InputCorrect`, `TypeCorrect`, for a ring,
screen and line buffer of any size. The invariant compares the ring with
endless paper: the lines the ring was never turned past are in it as printed
(`HistoryIntact`), and all that lies ahead of the cursor, up to the deepest line
reached, is blank (`BlankAhead`), which is why a line that comes back over such
a slot is shown blank. That only needs the cursor to stay within one turn of the
ring of the deepest line (`Near`), which holds because a rub-out never goes
behind the start of the input (`NearStart`) and an input is shorter than the
ring. The screen's top is not part of it: `ScreenReadsPaper` holds wherever the
screen stands. `InputCorrect` adds that the prefix flag is that of the last
scancode (`PrefixSeen`), so that the keys taken for text are those that were
pressed as text. The arithmetic of the ring (`%`) is in lemmas of its own.

**KernelProofs.** `CrashesAtomic`, `BootKeepsFiles`, `HelpsReadyCorrect`,
`TypeCorrect`. The first is
that a create, delete, write or copy cut short by a loss of power leaves the
table of before or of after it, but for a text written in part, whatever the
size of the table and wherever in the save the power went. `MachineInv`
describes the disk at every moment: it holds the table when nothing is under
way (`Clean`); during a save it is between two tables that differ in one node,
and that node is torn in a way a load cannot mistake for a third table, because
`used` is its last part and because a write changes no other part than the text
(`Halfway`, `Between`, `Torn`); and while the machine is off a load finds one of
the tables `expected` (`Found`). A move is outside of it, as it is outside of
`CrashAtomic`; of the tables it leaves torn only their shape is known
(`Shaped`), and the proof shows that boot, help files and saves are at home
with those too. `BootKeepsFiles`: a boot makes help files for whatever table it
finds and changes nothing in it. The strengthening is that the write
`programs_init` owes is for a path that the loaded table had not, which holds
also when the creation was refused and the write is made all the same.
`HelpsReadyCorrect` follows the help files over any number of boots (`HelpInv`):
the first image holds nodes of the default tree only, however little of it was
written (`FirstImage`); programs before `next_program` have their file or
cannot have one (`AllTried`), which nothing that `programs_init` does can undo
(`Grows`); and every node with a program's path has the text, in memory while
the machine runs and on the disk while it is off (`WholeInMemory`,
`WholeOnDisk`), but for the one whose write is owed (`OwedHelp`). It assumes
that the help text fits a file, which those of `programs[]` do, and that `Progs`
and `Home` are two names.

**ShellProofs.** `WordsCorrect`, `CanonicalCorrect`, `ComposeCorrect`,
`TypeCorrect`, for any characters, words and limits. The invariant (`IInv`) is
short: the words of a command are those that were meant, and the current
directory is the text of its own parts, which are a path within the limits
(`Located`). The work is in the functions of texts. That each is what its
definition says is proved from `Recursion`, and what holds of all sequences from
sets of them that are closed under one more element, at the end (`AllByLast`) or
at the front (`AllByHead`). On the way to a directory, `PartsJoin` says that the
parts of two texts with a slash between them are those of the one and then those
of the other, `TextParts` that the parts of a path's text are the path, and
`WalkedOn` that a walk over two lists of parts is a walk over the second from
where the first leads. `Compose` is then algebra: going to `a` and then to `b`
is going to `a/b`, also where names are cut or the depth runs out. On the way to
a command, `FirstWordIs` finds the first word of a text, typed with quotes or
without, and what is left after it, `ParseWords` all of them, and `TrimIs` that
trimming takes the first and the last gap off. Quotes left open at the end of
the line are in the same lemmas. For a line that was cut, `StartOfParse` says
that the words of the start of a text are those of the text, the last of them
maybe cut, and `KeptUnderstood` applies it to what `io_read_line` kept. The
assumptions are that a user can type the characters the code looks for, that the
limits are not zero, and that no meant word holds a quote, for which
`shell_parse` has no escape.

Only model-checked: liveness (`RebuildReturns`, `CallReturns`, `TransfersEnd`,
`PromptReturns`), which is outside the prover's reach. Every invariant and every
action property of a passing run, and both refinements, are theorems.

## 5. Not modelled

- Colours, layout, number formatting, the table of scancodes, carriage return.
- Texts that overflow the buffers of `fs_resolve_path`: undefined in C.
- Commands that only print (`ls`, `cat`, `pwd`, `help`, ...): they change no
  state, and the lookups they rely on are properties of `Filesystem`, `Users`
  and `Shell`.
- The heap: nothing in the kernel or the programs calls `kmalloc`, so that no
  state of the system reaches it. `kmemcpy` and `kmemset` are assignments.
- Failing transfers and loss of power in one model with the tables' content:
  `Persistence` has failures over sectors without content, `Kernel` content
  without failures.
- Entry code and build files; the hosted prototype in `src/` and `include/`,
  which the Makefile does not build.

## 6. Plan

1. A lemma on the buffers of `fs_resolve_path`: a bound on directory and
   argument under which `Fits` holds. It has to count the slash that a name
   gains wherever it is cut.
2. `Memory`, with its 32-bit arithmetic, and the hosted prototype's flat
   filesystem, if they come into use.
