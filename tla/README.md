# Verification of Plexlog

Plexlog (`src/plexlog-*.ad[bs]`, `src/plexlog_posix.c`) is an Ada library that
writes log lines to a directory of rotated files.  Any number of processes may
use the same directory; they share nothing but its files and an `fcntl` lock.
This directory holds TLA+ models of the library, the TLC configurations that
check them on small instances, and proofs of their main properties for every
instance.

## The system

| component | state | operations | status |
|---|---|---|---|
| `Plexlog.API` | a context `Plexlog_t` per process: limits, three descriptors, the size of `current`, a directory stack; the log directory | `Open`, `Close`, three setters, `Write` (lock, open, split, rotate, remove, unlock, handler) | modelled: `Plexlog` |
| its text filter and splitter | locals of `Write_With_Rotate` and `Write_Message` | `Filter_Character`, `Filtered_Message_Length`, `Write_Message` | modelled: `Filter` |
| `Plexlog.Dir_Stack` | an array of descriptors and an index; the working directory | `Push_FD`, `Push`, `Pop`, `Pop_All`, `Size` | modelled: `Dir_Stack` |
| `Plexlog.POSIX`, `plexlog_posix.c` | none of its own | open, close, fchdir, rename, `F_SETLKW` | by effect and failure, in `Plexlog` and `Dir_Stack` |
| installer (`install-core.c`, `install-posix.c`, the mains, `insthier.c`) | the installed tree; a loop index, an error count; static buffers for names; user and group ids | install, check, deinstall, over a table | modelled: the tree in `Installer`, names and ids in `Items` |
| its Windows layer (`install-win32.c`) | allocated ids | look up, read, compare and free ids; links that are copies | partly: `Items` |
| error texts, `plexlog-ada-conf.c`, build system, tests | none | | not modelled: stateless, generated, or statements about the rest |

How they interact.  `Write` asserts that its context is at rest, enters the
directory through `Dir_Stack.Push_FD`, opens `lock` and waits for the write
lock; it opens `current` and reads its size; a message that does not fit makes
it close `current`, delete the saved files (`@<label>`) over `Files_Max - 1`,
rename `current` to a label taken from the clock, and open a new one, as often
as the message needs; then it closes the file, pops the directory, unlocks, and
closes `lock`.  An exception anywhere runs one handler, which gives the
directory back if it is held.  All shared state is the directory; the only
synchronisation is the lock, which the kernel releases when its holder dies.

The installer is independent of the library: three programs, `installer`,
`instchk` and `deinstaller`, meet only in the tree they leave to each other.  Each
translates the names of an item (library names from `.vlb` files, the last part
of a path, suffixes) by a chain of functions that hand each other pointers to
static arrays, then calls an operator, which looks up the owner, works on the
files, and frees what it has looked up.

What is hard: the interleaving of writers; state read once and used later
(`Log_Size`, the list of files to delete); a process that dies in the middle of
a line or of a rotation; each of a dozen system calls failing, and the handler
cleaning up after exactly what was done; limits that differ between the
processes; the byte counts at the boundary (45, 50, `<`, `>=`).  For the installer: a
program that fails or dies in the middle of an item and is run again, by the
same or by another user; static buffers that two names, or two items, share; ids
that have to be given back on every path, by the one who holds them.
`PROJECT.json` lists these hazards with their lines and the properties for them.

## Modules

| module | what it is |
|---|---|
| `Plexlog` | `Plexlog.API`, one context per process, with the directory, the lock, failures, death and restart |
| `PlexlogProperties` | its type invariant, safety, action and liveness properties |
| `SerialLog` | abstract: one log with one writer at a time, appended at the end and cut at the front |
| `PlexlogLog` | the files read as one log: the refinement mapping to `SerialLog`, and the room they take |
| `PlexlogMC` | values of the constants |
| `PlexlogProofs` | theorems about `Plexlog`: types, lock, sizes, progress, complete messages, what is given back |
| `PlexlogFilesProofs` | theorems about its files: how many there are, which go, which stay |
| `PlexlogLogProofs` | theorems about `PlexlogLog`: the refinement of `SerialLog`, and the room |
| `Filter` | the text of a message, byte by byte, cut into lines |
| `FilterProofs` | theorems about `Filter` |
| `Dir_Stack`, `Dir_StackMC` | the directory stack with descriptor numbers |
| `DirectoryStack` | abstract: enter a directory, return over one or more |
| `Dir_StackProofs` | theorems about `Dir_Stack`, the refinement included |
| `Installer`, `InstallerMC` | the three programs of the installer on one tree |
| `InstallerProofs` | theorems about `Installer` |
| `Items`, `ItemsMC` | one program of the installer from within: names and ids |
| `ItemsProofs` | theorems about `Items` |
| `Induction` | induction over numbers, sequences and finite sets, for the proofs |

### Plexlog

The variables are those of the context (`Size_Limited`, `Size_Max`,
`Files_Max`, `Log_Dir_FD`, `Lock_FD`, `Log_File`, `Log_Size`, `Dir_Stack`), the
directory (`current`, `saved`), the lock (`lock_owner`), and the call in
progress (`pc`, `exc`, `data`, `Current_Offset`, `label`, `doomed`).
`rotations` and the lines kept in each file are history.

Between two calls that other processes can observe, what a process does is one
action:

| `pc` | action | code (`plexlog-api.adb`) |
|---|---|---|
| idle | `Open`, `Close`, `Set_*`, `Write`, `Write_Refused` | 549-597, 639-648 |
| push | `Lock_Directory`, `Push_Fails`, `Create_Fails` | 34-42, 48-54 |
| lock | `Set_Lock`, `Set_Lock_Fails` | 44-54, `plexlog_posix.c` 18-30 |
| open, reopen | `Open_Current` and its failure | 343-360 |
| fit | `Fit`: write, split or rotate first | 471-484 |
| loop | `Exit_Loop`, `Write_Chunk`, `Write_Fails` | 487-515 |
| rotate | `Rotate`: clock, listing, sorting | 173-188, 109-157 |
| remove | `Remove_Log`, `Rename_Current` and their failures | 158-165, 190-196 |
| rest | `Write_Rest`, `Write_Fails` | 523-542, 607-626 |
| unlock | `Unlock` | 60-78, 628 |
| handler | `Handler` | 630-637 |
| any | `Kill`, and `Restart` of a dead process | the operating system |

The listing and sorting of the saved files is one step although it reads them
one by one: only the holder of the lock changes them, which is what
`LockHeldInside` states and `ListedFilesExist` would show to be wrong.

Abstractions.  A message is its level and the filtered widths of its prefixes
(`upto`), which `Filter` justifies; a process number is its number of digits;
time is an integer, and a modification time is that integer divided by `Grain`.
A descriptor is invalid, open, or stale (its number is still in the context
after `close`).  Buffering by the C library appears as `Tear_Line`: when a
process fails or dies while it writes a line, nothing or a part of the line is
in the file.  An I/O error leaves the stream open; what its buffer may still
hold when the program ends later is not modelled.  Every process holds one
context and one task uses it: `fcntl` locks and the working directory belong to
the process.  `-gnata` and `-gnato` (`conf-adacflags`) are in force: assertions
and range checks raise.

### Dir_Stack

Descriptors are numbers, and `open` returns the lowest free one, because the
danger is a number that is closed too early and comes back as another
directory.  `owned` and `leaked` are history: descriptors the caller has opened
for itself (`Log_Dir_FD`), and those that a successful `Push` forgets.
Every call may fail; `close` frees the descriptor even then.

### Filter

Filtering and splitting are loops over characters here, with the escapes as
bytes, and a reader (no part of the library) that undoes them.
`StopsAsModelled` ties the loop to the relation `Write_Message_Stops` and the
lengths that `Plexlog` uses.

### Installer

| action | code (`install-core.c`) |
|---|---|
| `Start` | `install_init` 1282-1334 and the start of a `main` |
| `Mkdir`, `Rmkdir` | `inst_mkdir` 834-875, `install_rmkdir` 581-630 |
| `Open_Files`, `Copy_Data`, `Set_Attributes`, `Rename_Tmp` and their failures | `inst_copy` 746-785, `install_file_copy` 306-391 |
| `Link` | `inst_link` 788-831 |
| `Check`, `File_Check` | `instchk_*` 1069-1138, `install_file_check` 426-533 |
| `Remove_File`, `Remove_Directory` | `deinst_*` 1145-1221 |
| `Lookup_Fails`, `Dry_Run` | what the operations do before, or instead of, a change |
| `Ends`, `Exits` | the loops of the mains and their exit status |
| `Kill`, `Rebuild`, `Add_Stranger` | from outside |

The tree is a function from paths to nodes.  A copy is four steps, and a program
may die between any two; the other operations are one step, and what a death in
the middle of one leaves, a failure in the middle leaves as well.  A mode is a
set of three bits: writable by the owner, by the group, and open to others.  A
user may change what is his own; `root` may do anything.  Groups are treated as
users are and left out.  Where the code closes a null stream, or one that is
closed already, the model lets the program crash or go on.  Names are those of
the table here; `Items` is about their translation, and about Windows.

The model shows three weaknesses that no text of the repository denies, and
which its properties therefore exclude by name.  An installer that is killed in
the middle of a copy leaves its temporary file; if that belongs to another user
than the next one, or has got the mode 0444 already, an ordinary user cannot
open it, and then the installer closes a null stream (`RetrySucceeds`).  A
directory that exists already keeps its mode, and `instchk` complains of it
(`InstalledItemsPass`).  A user that is not known is an error that `instchk`
does not count (`CheckFindsDamage`).  Two more are in the code and outside the
runs: types are not compared on POSIX (:486), and a failing `mkdir` goes
unnoticed until `chown` fails (:615).

### Items

| action | code (`install-core.c` unless named) |
|---|---|
| `Install_Init` | `install_init` 1281-1334 with the shared library suffix, `install_suffix_sanitize` 1263-1279 |
| `Begin`, `Begin_Fails` | the start of `ntran_*`: fields that are missing are fatal |
| `Translate`, `Translate_Overruns`, `Translate_Fails`, `Translated` | one call of `libname`, `base_name`, `snprintf` or `memcpy` each, in the order of `ntran_copy`, `ntran_copy_exec`, `ntran_liblink`, `ntran_chk_link`, `ntran_chk_liblink` 887-1062 |
| `Look_Up_User`, `Look_Up_Group` and their failures | `install_uidgid_lookup` 404-424, `iposix_*_lookup`, `iwin32_get_sid` (`install-win32.c` 14-31) |
| `Install`, `Operate` | `inst_copy`, `inst_mkdir`; `inst_link`, `deinst_*` |
| `Link_By_Copy`, `End_Link` | `iwin32_file_link` (`install-win32.c` 192-211) |
| `Check`, `Get_Ownership`, `Compare`, `End_Check` | `install_file_check` 426-556 |
| `Release` | the end of an operator |

A text is a sequence of the characters that the code looks for (`/`, blank,
`.vlb`) and of words.  `ins` says which buffer each field of an item points to,
`buf` what is in the buffers: they are never cleared, and a result that is
handed on without a copy is a second pointer to the same array.
`Listed_Source` and `Listed_Place` say what the table means without any of this,
and `OperandsAsListed` compares the two where the operator is called.

An id has an account and, on Windows, an allocated object; `live` is the heap,
and `lost` the objects that nobody can free any more, which the code loses in
two places: `iwin32_get_sid` when the account does not exist, and
`iwin32_file_link` always.  `install_file_check` frees the two ids of the file
also if they could not be read, when on Windows they may have no value:
`undefined_freed` marks this, and the program may then crash, free something
else, or go on.  The properties about ids hold up to that point.

`libname` (:708-736) reads as many characters of a `.vlb` file as its own array
holds and puts a 0 behind the first word, in an array of the same size, without
asking whether there is room.  `Translate_Overruns` is this call where there is
none.  Which object the 0 falls on is up to the build: the model lets it empty
any other array, or the suffix, or hit nothing that matters here, or end the
program, and `overrun` keeps the array that was too short.  `TypeOK` bounds the
damage: only the three arrays that `libname` is given can be overrun, by one
character each, and in no run whose `.vlb` files all begin with a shorter word;
the copy in `base_name` and every `snprintf` always have room.  After an overrun
the other two properties about names claim nothing.

Three more weaknesses are outside of the properties.  A path longer than
`INSTALL_MAX_PATHLEN` is cut without an error (`Fits` excludes such items from
`OperandsAsListed`).  `install_file_check` compares types only on systems without
symbolic links (`have_symlinks`, :486), which `AcceptedMatches` states as it is.
And it does not look whether the size of the source could be read (:460): if not
it wants an empty file, so that `AcceptedMatches` allows one once a call has
failed.  `Installer` has the source that does not exist, and leaves the failure
for another reason to `Items`.

Left out are the formatting and scanning of ids, `install_umask` and the other
functions that nothing calls, and what is read behind a text whose end has been
overwritten.

## Runs

| run | what it shows | instance |
|---|---|---|
| `crash` | lines and rotations are those of one serial log, through the death of a writer anywhere; the list of doomed files is never stale; the lock discipline; `Files_Max`; `Space_Requirement`; the oldest files go first | 2 processes, 2 writes each, 1 kill, limits of 50 bytes and 2 files, a message of 1 and one of 11 filtered bytes (4 lines, each in its own file) |
| `limits` | `Size_Max`, `Files_Max`, progress of the loop, delivery, and which files go, when each process changes its limits between writes and a deletion may fail | 2 processes, 2 writes each; sizes 50 and 90, files 3 and 2 |
| `faults` | types, lock discipline, both limits and delivery when every system call may fail, the limit on size may be lifted, and contexts are used on after an exception | 2 processes, 1 write each, also of an empty message; `Natural_Last` = 60 |
| `returns` | every call of `Write` ends and gives back what it took | 2 processes, 1 write each, 1 kill, recoverable failures |
| `filter` | printable, readable, fitting lines that end where `Plexlog` says | all messages of up to 4 characters out of 6; limits 5, 6, 9 and none |
| `dir_stack` | remembered descriptors are open and unshared, nothing else is lost, and the stack behaves as one | 3 directories, 5 descriptors, an array of 3 |
| `installer` | files appear whole; the installer repairs what earlier programs left; what is installed passes the check and damage does not; deinstalling removes ours and nothing else; programs end | a table of 5 items, 3 programs by `root` or a user with 2 umasks, 2 events out of failure, kill, rebuilt source and foreign file |
| `items` | operators work on the files that the table names, whatever buffers the names went through; `instchk` accepts what matches and nothing else; ids are not used too early or too late, and are given back | POSIX and Windows, each program, every table of 1 or 2 out of 12 items, 10 trees, 4 sets of `.vlb` files, 2 suffix files, arrays of 9 characters, 2 failures |

Bounds.  Two processes suffice for every race on the lock: it admits one
holder, and the others differ only in waiting.  Two writes per process with a
message of four files give up to sixteen rotations, well over both limits on
files, so that removal happens in every run that is about it.  50 is the least
size the code admits, where the boundary of the loop is tight; the
widths 4, 2, 4, 1 of the long message meet both sides of `>=`.  The
characters of `filter` are one of each class and the neighbours of its bounds:
LF, US, backslash, `x`, DEL and one above.  `faults` shrinks `Natural'Last` so
that a size beyond it is within TLC's integers.  The array of `Dir_Stack` has 3
elements in its passing run because with 2, as in the source, the off-by-one
below leaves room for a single directory, and no second entry could ever be
confused with the first.  Processes are interchangeable (symmetry), and so are
directories; `returns` checks liveness and uses no symmetry.  Three programs are
enough for an installation that is interrupted, repeated, and then checked or
removed, and two events for one that goes wrong twice; the table has one item of
each kind, a directory inside another, the modes 0755 and 0444, and an owner who
does not exist.  In `items` two items are enough for one to find what another has
left in a buffer, and the twelve take every path of the translation, with and
without `.vlb` names, and fail in each way: a missing field, an account that
does not exist, a `.vlb` file that is missing or empty or whose word fills its array (of 9 characters here, so that a
word of 10 is too long and the names of the other items fit), a path that is cut,
a suffix file that is longer than what is read of it.  For each item that fails
in none of these ways, and on both systems, there is a tree in which `instchk`
accepts it.

Fairness.  `FairSpec` asks of every process inside `Write` that it goes on
(weak fairness of `Step`).  It asks nothing of callers, of death or restart,
and no strong fairness of the lock: `fcntl` promises no order among those who
wait.  A call returns nevertheless because the calls are bounded, so that the
lock is free for good in the end; without that bound a waiting writer could be
overtaken for ever.  In `Installer` a program that runs goes on (weak fairness of
its steps), and nothing obliges anyone to start one.

### Disagreements with the text of the repository

Four runs end in a violation, one property each, of something an assertion,
a type, a comment or a test states:

* `write_error`: an I/O error reaches the handler of `Write` with the file open,
  so its assertion (`plexlog-api.adb:632`) replaces the error, and the directory
  stays locked.  The same happens with every size that `File_Size_t`
  (`plexlog-api.ads:29`) admits and `Natural` (:472) does not.
* `lock_error`: a failing `fcntl` leaves a closed descriptor in `Lock_FD` (:51),
  and the handler fails the assertion of `Unlock_Directory` (:62).
* `same_second`: "Remove oldest log files" (:106) is decided by modification
  times alone, and files rotated within their granularity go in any order.
* `two_directories`: the second push, which `UNIT_TESTS/t_dir1.adb:21-28`
  expects to succeed, overflows an array of two (`plexlog-dir_stack.adb:17`).

`same_second` is why the passing runs of `SavedFilesAreTheLatest` and
`RemovedAreOld` set `Grain` to 1 and let the clock move between rotations.  If a
deletion fails, or the process dies, while several files have to go, the older
ones of them stay and younger ones are gone, because the loop (:158-164) starts
with the youngest: so `SavedFilesAreTheLatest` is checked, and proved, where all
processes keep the same number of files, so that one file has to go at a time,
and `RemovedAreOld` also where they do not.  The failures of
`write_error` and `lock_error` are left out of the run `returns`.

## Proofs

Of `Plexlog`, for every set of processes, of messages, of sizes and numbers of
files, every set of failing calls and every behaviour of the clock:

| theorem | property | assuming |
|---|---|---|
| `TypeCorrect` | `TypeOK` | |
| `LockHeld` | `LockHeldInside` | |
| `SizeLimit` | `SizeLimitKept` | |
| `LoopProgress` | `ChunkProgress` | |
| `ListedFiles` | `ListedFilesExist` | |
| `SavedFiles` | `SavedFilesBounded` | |
| `FilesMaxKept` | `RotationKeepsFilesMax` | |
| `Delivery` | `Delivered` | |
| `Recovery` | `AtRestBetweenCalls` | `Recoverable` |
| `OldFirst` | `RemovedAreOld` | `Spread_Clock` |
| `TheLatest` | `SavedFilesAreTheLatest` | `Spread_Clock`, `One_Limit` |
| `SerialLogImplemented` | `ImplementsSerialLog` | `Spread_Clock`, `One_Limit`, `"write" \notin Faults` |
| `Space` | `SpaceRequirementHolds` | (the property asks for default limits) |

The assumptions on the constants are those that `Plexlog` names: messages whose
filtered widths grow by 1, 2 or 4 a character, process numbers of at most ten
digits, sizes of type `File_Size_t`.  Four more restrict some theorems.
`Spread_Clock` says that the clock moves from one rotation to the next by at
least the granularity of modification times; the run `same_second` shows what
happens without it.  `One_Limit` says that all processes keep the same number
of files; with different numbers a removal that is cut short leaves a gap, as
said above.  `"write" \notin Faults`: a failed write may leave a part of a line
in `current` although its writer goes on, which `SerialLog` allows only a writer
that dies.  `Recoverable` leaves out the failures of `write_error` and
`lock_error`.  All other failures, and death anywhere, are in every theorem.

The argument.  `LockInv` adds to `LockHeldInside` what leads up to it: a process
that waits for the lock is inside the directory with an open descriptor, and
its file is closed.  It and `TypeOK` are inductive only together, since the
type of `Dir_Stack` (0 or 1) depends on pushing from outside and popping from
inside.  `OthersUnchanged` and `OnlyOwnerWrites` say once what a step of one
process can do to another, so that every further invariant is proved for the
process that moves.  `SizeInv` says that `Log_Size` is the size of `current`
wherever it is relied upon, that the loop starts with an empty file and that
the last piece fits; `LineFits` adds that 45 bounds the prefix and the LF,
whence `SizeLimit`; with `Size_Min` = 50 there is always room for one character
of four, whence `LoopProgress`.  `RotationInv` says that the list of doomed
files is a part of the directory that leaves `Files_Max - 1` files.  It is
needed because the bound on the files is not inductive without the plan of the
process in the middle of a removal.  `DeliveryInv` says that the loop never
takes the last character: a piece that takes all that is left would have fitted
into the empty file the loop starts with.  So something is left for
`Write_Rest`, which is the only way to `unlock`.  `OrderInv` says that the order
of modification times is that of rotations, that `current` is younger than all
saved files, and that what is not on the list of a removal is younger than what
is; the files that stay are then numbered between the one that goes and the last,
and counting them gives `OldFirst`.  `LatestInv` says that the saved files are
numbered without a gap up to the last rotation, also during a removal, and that
no label is later than the clock: with one limit the list holds one file at most,
and that is the oldest.  `RestInv` says that at the handler a process has all of
its resources or none; this is exactly what the excluded failures break.

`SerialLogImplemented`.  The log is the concatenation of the saved files in the
order of rotation, then `current`.  `LogInv` says that the owner of the lock has
written its message up to `Current_Offset`, which is where the last line of the
log ends if that line is of this call, and 0 otherwise; that no line is of a call
whose process still waits for the lock; and that a file that is not empty has
lines, so that a rotation moves the end of the log and does not lose it.  With
`LatestInv` a removal takes off the file at the front, so that the rest of the
concatenation is unchanged (`FlattenFirst`).  Each action of `Plexlog` is then one
of `SerialLog` or a stutter.  `Space` adds the sizes up: every file has at most
`Size_Default` bytes (`SpaceInv`, with `SizeLimit`), there are at most
`Files_Default` of them (`RotationInv`), and a sum over a finite set is bounded by
its size times the bound on the elements (`SumBounded`).

Induction.  The library's induction theorems take the property as an operator,
which none of the provers instantiates.  `Induction` states them with the property
as a set (`InductiveSet`, `InductiveSequences`): a set of numbers that holds 0 and
the successor of each of its numbers holds all of them, which follows from the
well-foundedness of `<`.  From that come the recursive functions of the community
modules, `FlattenSeq` and the folds: that the function their definition chooses
exists, is unique, and obeys its equation.  So what these operators compute is
proved, for every input.

Of the other modules:

| theorem | property | for every |
|---|---|---|
| `Printables`, `Readable`, `Fit` | `LinesArePrintable`, `LinesAreReadable`, `LinesFit` of `Filter` | message over any alphabet of bytes, and limit of at least 5 |
| `Stops` | `StopsAsModelled` of `Filter` | the same |
| `StackTypes`, `StackDescriptors`, `NoneElseOpen` | `TypeOK`, `SavedAreOpen`, `NothingElseOpen` of `Dir_Stack` | set of directories, number of descriptors, length of the array |
| `StackImplements` | `ImplementsDirectoryStack` | the same |
| `Types`, `WholeFiles`, `ForeignFiles` | `TypeOK`, `FinalNamesAreWhole`, `ForeignSurvives` of `Installer` | table, trees, set of users and of masks, number of failures |
| `Installs`, `Retries` | `InstalledAsListed`, `RetrySucceeds` | the same |
| `DamageIsFound`, `InstalledPasses` | `CheckFindsDamage`, `InstalledItemsPass` | the same |
| `Deinstalls` | `DeinstallLeavesOnlyForeign` | the same |
| `AsListed`, `ItemTypes` | `OperandsAsListed`, `TypeOK` of `Items` | set of tables, libraries and suffix files, length of a path |
| `AcceptedIs` | `AcceptedMatches` of `Items` | table, tree and system |
| `LiveIds`, `IdsGivenBack` | `IdsAreLive`, `IdsAreGivenBack` of `Items` | the same |

`Filter`.  `FilterInv` says that the lines written so far, each read back and then
joined, are the first `Current_Offset` characters of the message, that the line
in work reads as the `Index` characters after them and has their width, and that
it fits: it is shorter than the limit when the loop looks again, so that an
escape of four that would not fit is not begun.  The reader undoes an escape only
where all four bytes are there; that what is read from a text and from one more
escape after it is the one followed by the other (`Reads`) is the induction over
sequences.  `Stops` compares the loop over characters with the sums of widths that
`Plexlog` uses, and so ties the two models together for every message.

`Dir_Stack`.  `DescriptorInv` adds to the two invariants that what `Push` forgets
is open and belongs to nobody else: without it a new descriptor could be one of
those.  That a step of the array is one of the abstract stack is shown with it,
because the directory of a remembered descriptor must not change under the stack
when a number is closed and used again.

`Installer`.  `WholeInv` follows a copy: from `copy` to `rename` the temporary file
is there, a file of the item's source, then with its contents, then with its
mode, so that what is renamed is whole.  `ForeignFiles` follows from it because it
says that an item in work is one of the table.  `SoundInv` adds the loop
(`LoopOK`) and the tree (`Sound`): every node is in a directory, there is no
directory under the name of a file and no file under that of a directory.  For
`Rmkdir` this is an argument about the shortest prefix that is missing.  On top
of it are four invariants of a program that has gone through `Passed`, the items
before the one in work, or all when it has ended:

* `InstalledInv`: each of them that is not reported is in place, and the copy in
  work has the version of the source as it is now.  No later item undoes an
  earlier one since items of one name agree (`TableAssumption`).
* `CheckedInv`: each of them that is not reported has been found right, and what
  is reported is wrong unless a call failed.  `DamageIsFound` follows from the
  count of failures, which is 0 only if none was counted.
* `RemovedInv`: each of them is gone, or is a directory that holds what is not of
  the table, unless somewhere there is an entry in a directory that the user may
  not change (`Stuck`), which excludes `All_May` at the end, since a deinstaller
  gives no directory away.  That everything below a directory has had its turn is
  `OrderAssumption`.
* `RetryInv`: if no call has failed, then unless some directory is another user's
  (`Locked`, which again lasts to the end) each of them that makes a directory
  has made one that the user may change, each that is reported has one of the
  excuses of `RetrySucceeds`, and for the others no temporary file is left but
  the one in work.  So the directory of the next item is there, the temporary
  file opens, and `ERR` is not reached with a null stream.  It needs `Open_Ways`:
  on the way to the directories of the table there are only directories.

What they assume of the table and of the trees, and how `insthier.c` meets it:
`TableAssumption`, a name stands for one thing (no temporary name is a
destination, and two items of one name install the same); `OrderAssumption`,
directories are listed before what is in them; `LinksAssumption`, a link leads to
a file that the table installs with the mode and owner that the link asks for;
`PlacesAssumption`, the table makes the directories it installs into, for
whoever runs it; `TreesAssumption`, nothing but directories lies under the
table's names to begin with; `AccountsAssumption`, `root` is a user and the modes
0755 and 0666 are modes.  `insthier.c` lists its `mkdir` items first, names no
owner, uses the modes 0755, 0644 and 0444, and has no links.  It is such a table
as long as the directories of its context differ (it installs the `.ali` files in
two of them with different modes), and none of them lies in one that is listed
later; the defaults of the `conf-*` files are such.

`Items`. `NamesInv` says for each kind of item and each statement of its
translation which field points to which buffer and what that buffer holds, in
terms of the table alone (`Stage`): what earlier items have left in the buffers
does not occur in it, and that is why they do no harm. It also says that no
buffer holds more than it has room for, one in `overrun` one character more.
`CountInv` bounds the count of failures. `AcceptInv` keeps, from lookup to the
end of a check, what the comparisons so far have shown (`Found`). They rest on
`PathLenAssumption`, `SuffixAssumption` and two assumptions about the data:
`TablesAssumption`, a table has items of the five kinds whose fields are texts,
and `FilesAssumption`, what files hold are texts. The length of a word in a
`.vlb` file is not limited: `ReadWordIs` shows that what `libname` takes for the
word is the word or fills the array, and then `NamesInv` keeps only which arrays
were overrun, and that a word is to blame (`A_Word_Fills`); `Stage` is claimed
as long as there is none. `HeapInv` says which ids exist at each place of an
item's life (none before the lookup, the owner's between lookup and release,
those of the file during a comparison), that all of them are live, and that what
else is live has been lost in one of the two known ways; all of it up to the
point where `install_file_check` gives back what it could not read. It assumes
that a system is one of the two and a tree gives an account to every id it
answers (`SystemsAssumption`, `WorldsAssumption`).

Checked by TLC only: the liveness properties `WriteReturns` and `RunsEnd`, because
the prover has no rule for fairness and `ENABLED`.  Every other property of a
passing run is a theorem.

## What comes next

1. The life of descriptors in a context that is opened, closed and reused with
   their numbers, as `Dir_Stack` has them.
2. Trees with a file in the place of a directory, in `Installer`.
3. The refinement of `SerialLog` where writes fail, which needs an abstract
   writer that tears a line and keeps the lock, and where limits differ.

## Not modelled

`install-error.c` is a table of texts, and `plexlog-ada-conf.c` prints what the
compiler was given; `SYSDEPS` and the build files probe the host.  None of them
keeps a state that a later step reads.  Of `install-win32.c`, permissions and the
text of accounts are left out; of `install-core.c`, functions that nothing calls
and the wording of reports.
