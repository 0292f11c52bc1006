# ext2p: models, checks and proofs

`ext2p` is a shell over an ext2 image: it reads the image file into memory,
walks its metadata with a cursor, lists directories, prints files, deletes files
in memory and writes the memory back to a file. It is one thread with no
signal handling; what makes it hard is not concurrency but **two or more pieces
of state that must agree and are updated apart**: a cursor and a running offset,
a list in memory and the block it was read from, a block and the inode bitmap, a
current directory and the path in the prompt, a file and the stdio buffer of a
stream that nobody closes.

## 1. Inventory

| Component | State | Operations | Used by / uses |
|---|---|---|---|
| Shell (`shell.c`, `main.c`) | `Shell.fs`, `cd`, `path`/`pathLevel`, `err`, `run` | `shellOpen`, `shellRun`, dispatch (`_checkCommands`, `_getArgs`), 14 commands, `_tryLevenshtein` | calls `ext2*`; each command that names a file first reads the whole directory (`_getFile`) |
| Filesystem (`ext2.c`) | `Ext2.disk`, `bgs`, `bgCount` | open, free, dispatch to a block group, `ext2DeleteFile`, save | shell above, block groups below |
| Block group (`bg.c`, `superblock.c`, `inode.c`) | superblock, descriptor, bitmaps and inodes (copies), `data` (a cursor), `blocksRead` | `bgRead`, `bgGetDir`, `bgReadFile`, `bgDeleteFile`, `bgOffsetBlock` | shares the image bytes with `Ext2.disk` through the cloned cursor |
| Directory list (`dir.c`) | linked list of `Dir` | `dirReadLinkedList`, `dirFreeLinkedList` | built by `bgGetDir`, consumed by `rm`, `ls`, `cd`, `cat`, `stat` |
| Disk cursor (`disk.c`, `util.c`) | start, position and size over the image bytes | open, clone, bounds check, read, write, skip, copy, rewind, seek, save | everything |
| Dump (`ext2dump.c`) | none | prints superblock, descriptors, inodes | `fsdump` |
| Edit distance (`util.c`) | none | `_levenshtein` | unknown commands |

What must hold, by component:

* *Directory list*: what is read is a chain of entries, each as it lies in the
  block, and reading ends.
* *Deletion*: the other entries survive word for word and in order; the deleted
  one goes; `.` is not touched, and the next block only where a name ran into it
  already; bitmap, inode table and entries agree.
* *Disk cursor / mounting*: no cursor leaves the image whatever the image says;
  a block number leads to that block; what is refused is past the end.
* *Reading a file*: what is printed is the file; the buffer is not overrun; no
  block is taken for another.
* *Save*: the file, mounted again, shows what memory showed, or nothing.
* *Shell*: the path names the current directory; a session's saved files are
  whole when it ends.
* *Prompt*: a line that fits the buffer reaches its command whole, as the words
  that were typed; what is suggested for an unknown word is the nearest command;
  every line is answered.
* *Arrays of a mounted image*: a command touches only groups and inodes that
  mounting read; `fsdump` dumps what its letters say, nothing twice.

## 2. Modules

| Module | What it is |
|---|---|
| `Directory` | Abstract specification: a sequence of entries and the inodes in use; `rm` removes the first entry of a name if it is a file. |
| `DirBlock` | The directory block word by word: `dirReadLinkedList` and `bgDeleteFile`, one action per loop iteration. |
| `DirRefinement` | The mapping from `DirBlock` to `Directory`, and properties stated on what a listing shows. |
| `MCDir`, `MCDirRoomy`, `MCDirTight` | Directory layouts for TLC. |
| `RoomyDirectory` | The directories for which the mapping holds, as an assumption on images (`RoomyAssumption`). |
| `DirBlockProofs` | Proofs about `DirBlock`, for every image. |
| `DirRefinementProofs` | That `DirBlock` implements `Directory` on roomy images, and what follows. |
| `Disk` | `disk.c` as operators on a cursor (start, position, size; sums modulo `SizeT`). |
| `Image` | Mounting (the walk of `bgRead` cursor move by cursor move), seeking to blocks, reading, `rm`'s effect, `save`, `umount`, mounting again. |
| `MCImage` | Image files for TLC. |
| `ImageProofs` | Proofs about `Image`. |
| `FileRead` | `cat`: `bgReadFile`'s loop over an inode's blocks into a buffer, and the printing of it. |
| `MCFileRead` | Files for TLC. |
| `FileReadProofs` | Proofs about `FileRead`. |
| `Shell` | A session: mount, umount, `cd` and the path, `rm`, `save`, the ways it can end and the flushing of streams at exit. |
| `MCShell` | Images (directory trees) and files for TLC. |
| `ShellProofs` | Proofs about `Shell`. |
| `Levenshtein` | `utilLevenshtein` as a recursive function, and what a distance of up to two means, told by edits. |
| `Prompt` | Abstract specification of the commands under the prompt in full: lines through `fgets`, words through `strtok`, look-up, suggestion; what a command does is its result and `Shell.fs`. |
| `Console` | The commands of `Prompt` in steps, as far as they go through the arrays of an image: groups, inodes, suffixes of sizes, `fsdump`'s letters. |
| `MCConsole` | Commands, lines and images for TLC. |
| `LevenshteinProofs` | Proof that the distance counts edits. |
| `ConsoleProofs` | Proofs about `Prompt` and `Console`, and that the second refines the first. |
| `Arithmetic` | Lemmas on quotients, remainders and products, least elements, and induction. |

How they compose: `Image` walks `Disk`'s cursors; `DirRefinement` relates
`DirBlock` to `Directory`, and `RoomyDirectory` says for which images; `Console`
extends `Prompt`, which extends `Levenshtein`. `Shell`, `DirBlock`, `FileRead`
and `Image` each look at the commands from one side (session, block, buffer,
image), and `Console` at all of them at once, with names, block contents and
bytes left out.

Beside some operators stands a second one that nothing uses (`PastEndByOne`
beside `Past`, `EndAtOnce` beside `End`). It is the slip the operator could have
had; `PROJECT.json` pairs it with the property that notices it.

### DirBlock

A block is an array of 4-byte words, which is how ext2 aligns entries. The code
gives a word its meaning from where it finds it, and after a deletion it finds
old words in new places; so a word is a record of what each reading makes of it
(inode number, length, name length, type, text). Lengths count words.

| Code | Model |
|---|---|
| bytes of the block in `Disk.fp` | `block`, with `TextWords` words of the next block after it |
| `inodeBitmap`, `inodes`, `size_lo` of the directory | `bitmap`, `inodes`, `dirSize` (wraps as an `int32_t` of the build) |
| list of `Dir`, cursor position, `sentinel` | `list`, `at`, `sentinel` |
| `ls` / `rm n` typed | `TypeCommand` |
| one iteration of `dirReadLinkedList` | `ReadEntry`; `EndOfList` (zero inode number); `OutOfMemory` (`dirNew` unchecked); `ReadFatal` |
| `diskCheckBounds` in a read or a skip, and the end of the image | `CanReadInode`, `CanReadText`, `CanSkipTo`; `ImageWords`; `pc = "exit"` |
| `_findInode`, type checks | guards of `Refuse`, `DeleteFile`, `DeleteNowhere` |
| `bgDeleteFile` up to its loop, one iteration of it | `DeleteFile`, `ShiftEntry` |
| `dirFreeLinkedList` | `FreeList` |

A read of four bytes asks for thirty-two and a read of one for eight, so an
inode number needs eight words before the end of the image and a character two.
The writes of `bgDeleteFile` ask for none: `ShiftEntry` writes an entry first,
and is refused, if at all, at the skip behind it, with the entry written.

`DeleteNowhere` is a deletion whose inode number belongs to no inode of the
group, which ends in undefined behaviour; the model ends the session there.
Names are one word of text; a name read as a header claims `TextWords` words.
Reading past `Span` is excluded by the image assumption (no text longer than
`TextWords`).

### Disk and Image

Mounting is a list of moves of the main cursor (`walk`): superblock, magic,
rest, descriptor, bitmaps, and for each inode a copy of 128 bytes and a skip of
`inodeSize - 128`, in `size_t` arithmetic. A move is allowed when
`diskCheckBounds` allows it and otherwise is `Fatal`. `FinishMount` clones the
cursor and records `blocksRead`. `SeekBlock` is `bgGetDir` or the seek of
`bgReadFile`, by `bgOffsetBlock` modulo 2^32. `Save` writes the bytes in memory,
of which all but the last partial stdio buffer reach the file (`Written`). An
image has one block group, and of a file only its first block.

Of the directory the model keeps where in the image its block lies (`place`),
and each entry with its offset, its length and how far its name reaches. What a
listing finds is what lies at the clone's cursor and within the file
(`Lying`, `Present`): a directory that a cut or stdio's tail has ended early has
lost the entries behind. `Accesses` are the reads and skips with which
`dirReadLinkedList` goes through it, each with the bytes it asks for; `Refused`
are those that end the program.

| Code | Model |
|---|---|
| `bgGetDir`, any command on a name | `SeekBlock(DirIno)`, then `ReadDir`, or `ReadDirFatal`, or `ReadNoDir` when the first inode number is zero |
| `bgReadFile` of a name | `SeekBlock` of the file's inode, and `ReadFile`, byte by byte, of which only the last check matters |
| `bgDeleteFile` | `Delete`: seek, skip to the entry (`EntryCursor`), unchecked writes, and the cursor where they leave it; `DeleteFatal` when a skip behind a moved entry is refused (`Stuck`) |
| what `ls` would print now | `Shown`, if it comes to an end (`CanShow`) |

The entries change in the bytes that both cursors share, as one set; bitmap and
inode change in copies. What the moves uncover behind the last entry is
`DirBlock`'s; here the bytes there are zeros.

### FileRead

| Code | Model |
|---|---|
| the file as ext2 keeps it | a member of `File`: length, blocks (0 for a hole), the three blocks of pointers, sectors |
| `bgGetInodeSize`, with the sign of `size_lo` | `InodeSize`, modulo `U32` |
| `bgReadFile` up to its loop | `StartRead`; `CatNoFile` when the inode is no file, which `cat` does not look at |
| one iteration of the outer loop, all of the inner one | `ReadBlock`: `CopyBlock`, or `Fatal` in `diskSeek`/`diskRead8`, or `Corrupt` when a byte is written outside the buffer |
| the buffer | `runs`: from where in the image, and how many bytes |
| `cat`'s loop and `utilFreeFile` | `PrintBuffer` |

A byte written past the buffer may harm or not: `Corrupt` and `CopyBlock` are
then both possible. `Inode.block` past its fifteenth cell is whatever lies there
(`Stray`). The clone is taken to start at a block of the image, which is what
`Image`'s `ReachesBlock` needs too.

### Shell

`fs`, `cd`, `path`, `err` are the fields of `Shell`. Contents are versions
(image and number of deletions), split in the body and the tail that stays in a
stdio buffer. `streams` are the streams `diskSave` opened; `Flush` is what
`exit(3)` does with them, in any order, since the C standard gives none (glibc
flushes the newest first). `Fatal` and `Exit` end through `exit(3)`; `Crash`
does not. `Report` stands for commands that only print or fail; a command
refused because nothing is mounted changes nothing and is no action.

### Prompt and Console

| Code | Model |
|---|---|
| what is typed, up to the end of the input | `rest`, `closed`; `Type`, which the user may never do |
| `fgets` into `buf[1024]`, and what it leaves for the next call | `Taken`, `ReadLine`; `EndOfInput` when there is nothing to give |
| `*buf == '\n'` | `IsEmptyLine` |
| one call of `strtok` | `NextArg`, which picks the next word by what it is; `ArgsDone` |
| `argv` | `argv`, places in `buf` |
| `_checkCommands` | `Call`, `Refuse`, `Unknown`, `NoCommand` (a null pointer for `strcmp`) |
| one iteration of `_tryLevenshtein`, on the buffer as `strtok` left it (`Cut`) | `Consider`; `Suggest` |
| `cmd->fn` | in `Prompt`: `Return`, `Fatal`, `Break`, as far as `MayReturn` lets each command; in `Console`: `Work` |
| `ext2->bgs[g]`, `bg->inodes[i]`, `SUFFIX[k]` | cells `<<"group", g>>`, `<<"inode", g, i>>`, `<<"suffix", k>>`; `touched` are those the command has used |
| `bgRead(0, ...)` and the `realloc` after it | `HasBeenRead`, `BgCount` |
| `_inodeToBG`, `_inodeToIndex` | `InodeToBG`, `InodeToIndex` |
| `_getFile`, then what the command does | `GetDir`, then `NotFound`, `Ls`, `CdOrRmdir`, or `TouchFile` or `RemoveFile`, and `FileDone` |
| mode and size of an inode | `inodes`: `bits`, `hi` and `lo`, the last an `int32_t`; `Size` is `bgGetInodeSize` |
| `memset` of the inode, `rootInode->size_lo -= 4 + dir->nextEntry` | `After`, with `Shrunk`, which wraps |
| `fsdump`'s loop over its format; `ext2Dump` | `ReadLetter`, `BadLetter`; `Dump`, by `Dumped` |

A command that touches a cell that was never read goes on with what lies there
or ends the program (`Breaks`): both are possible, at every step from then on.
`Console` keeps no names and no blocks: which entry a command means is any one
of `Listed`. An entry that `rm` deleted may still be meant, because a second
name of the inode or its old copy (finding 1) leads to it. Once `rm` has moved
entries (`moved`), so may one of `Stale`: what lies behind the last entry read
as entries, with any inode number and type. `rm` takes the entry's length and
four bytes from the size of the inode that the first entry names, which is the
directory's own unless the directory is one that only stale bytes name
(`Firsts`), and which it looks up in the group of the *file's* inode
(`DirCell`). An image that `save` wrote is, when mounted, another member of
`Image`, with its own `Stored`, `Entries` and `Stale`.

## 3. Runs

| Run | Shows | Bounds |
|---|---|---|
| `dir_roomy` | `DirBlock` implements `Directory`; nothing dangles; every command ends | 33 words, 3 removable files behind the dots, lengths of 3 to 5 words |
| `dir_tight` | chain, faithful list, constant shift, survivors, `.`, writes into the next block | 19 words (up to 4 files), every layout, clean or stale slack, two names of one inode; the image ends 6 words behind the block |
| `dir_ghost` (violated) | a removed name may stay listed | as `dir_tight` |
| `image_pass` | cursors inside, blocks found, a saved file shows what was there or ends the listing | eleven images of real small sizes, two files |
| `image_end` (violated) | end of the image cannot be read | one image whose last block is full |
| `image_features` (violated) | incompatible features are mounted | one image |
| `image_resave` (violated) | bitmap and inodes are not saved | as `image_pass` |
| `file_pass` | plain files are printed as they are and never end the session; no direct cell is misread | 16 files, one after another in any order; 3 direct cells, one block per block of pointers |
| `file_long` (violated) | files with blocks of pointers are not displayed | two files |
| `shell_pass` | path leads to `cd`; single saves are whole | 3 trees (one deeper than the path has cells), 2 files, 2 streams, 1 deletion, path of 2 |
| `shell_resave` (violated) | two saves of one file may mix | as `shell_pass` |
| `console` | lines reach their commands whole, words are arguments, hints are nearest, what strays from what was read and what crashes is known, letters count, `Console` refines `Prompt`, lines are answered | 12 commands, 34 lines, a buffer of 12 bytes, 3 cells of `argv`, 4 images, a unit of 4 for sizes, 16 for 2^31, stale entries in one image |

**Why the bounds are enough.** `dir_tight` has room for a deleted entry with two
entries to move after it and one before, at every combination of lengths that
fits, and stale entries in every gap long enough to hold one: all that
`bgDeleteFile` tells apart is present. The image of `dir_tight` ends so soon
that reads and moves are refused. `dir_roomy` has to be roomy: the refinement is
*false* in `dir_tight`'s directories, as `dir_ghost` shows. Its layouts satisfy
`RoomyAssumption`, which TLC evaluates on them: the slack of the last entry is
clean, and so long that the lowered last entry still reaches behind where its
text was. There each of the three files is deleted, in each order. In `MCImage`
only the spans of `size_t` and `uint32_t` are shrunk, and they stay above every
image size, so that a sum wraps exactly when it does in 64 or 32 bits (negative
skips, blocks before the clone). The directory lies early, late, in the last
partial `IoBuf` as a whole, or across its start, with the last entry beginning
before or at the cut; and in one image the last entry's length leads past the
end. In `MCFileRead` the inode has three direct cells instead of twelve and each
block of pointers stands for one block, so that files of six blocks use all of
the cells and run past them; block size and offsets are real, `U32` is 32768,
which one file exceeds, and half of which is the length of another. The theorems
of `FileReadProofs` hold for twelve cells as for three. In `MCShell` a path of
two cells meets trees of depth one, two and three: shorter, equal and longer.
`MallocLimit`, `MaxOpen`, `MaxEdits` are guards' bounds; `OutOfMemory` and
`Fatal` are what the code does at the first two.

In `MCConsole` the buffer takes eleven characters and there are lines of ten,
eleven, twelve and more, ended or cut by the end of the input; `argv` has three
cells and there are lines of two, three and five words; the unit of
`_humanizeSize` is 4 and 2^31 is 16 so that a size can have no suffix, at once
or when an `rm` has taken 16 bytes from a directory of 15; two more wrap or
raise it again. The table lacks the aliases, which only repeat a function. The
images have one group with fewer and with more than 32 inodes, one group and one
block more, and two groups; entries name the first and last inode of a group and
inodes past it. Behind the last entry of one of them lie a directory's inode
called a file, a file's called a directory, and a number past all inodes.
Misspelt words are at distance one, two and more, some with blanks before them.
The theorems of `ConsoleProofs` hold for 1024 bytes, 64 cells and a unit of 1024
as well.

**Deadlock** is not checked where the program really stops: after `crash` or
`exit` in `dir_tight`, after `fatal` or `crash` in `MCImage`, after `fatal` or
`crashed` in `MCFileRead`, after `ended` or `crashed` in `MCShell`, and after
`left` or `crashed` in `MCConsole`.

**Fairness.** `FairSpec` of `DirBlock` is weak fairness of the steps of a
command (`Step`), not of the user's typing: the program is one thread, a command
blocks on nothing, so it runs on while it can. `ConsoleSpec` is weakly fair to
`Shell`, all that the program does by itself, for the same reason; `Type` is the
user's and has no fairness. The other modules claim no liveness.

## 4. Findings

1. *Ghost entries* (`dir_ghost`). `bgDeleteFile` moves entries down and leaves
   what is behind the last of them; when the moved last entry's length does not
   reach the end of the block any more, the next listing goes on into the old
   copy. A removed name can stay, be removed again, and never go.
2. *End of the image* (`image_end`). `diskRead8` checks for eight bytes.
3. *Features* (`image_features`). The header says such an image should be
   refused; `sbRead` does not look.
4. *Inodes not saved* (`image_resave`). Only the directory block is changed in
   the image; bitmap and inode are changed in copies.
5. *Long files* (`file_long`). `bgReadFile` copies the block of pointers as the
   thirteenth block, takes the empty cell behind it for a block, and the program
   exits; a file of twelve blocks and less is displayed.
6. *Mixed saves* (`shell_resave`). `save f`, `rm x`, `save f`, `exit` can leave
   `f` with the tail of the first save; when the directory block lies in the
   tail, `x` is back.

## 5. Proofs

All theorems hold for every value of the constants under the named `ASSUME`s of
the modules, which TLC evaluates on the instances.

* **DirBlock.** `TypeCorrect`, `ChainRead`, `MovesByVictim`, `KeepsSurvivors`,
  `KeepsDot`, `ReadFaithfully`, `NeighbourReached`. The invariant `IInv` adds to
  these what makes them inductive: cells are in list order and do not overlap
  (`ListIsOrdered`), a cell has as many words as its header says, the block
  holds no text longer than `TextWords`, the cursor and `sentinel` agree while
  reading, and the victim lies past `.` — the last because the first entry is a
  directory and is refused. The central step is `ShiftEntry`: the cursor is
  short of the entry to move by the victim's length, the moved entry ends before
  the next begins, hence moves do not damage each other and the distance does
  not drift. A moved entry only ever goes down, so what it writes past the block
  lies before where its text ended when it was listed (`NeighbourReached`).
  Assumed: `.` is the first entry, its length is at least 3 words, and texts are
  bounded. `CommandsRunOut` is the half of `CommandsEnd` that is not fairness,
  and holds on every block, entries of no length included: `StepsLeft`, a
  number, falls with every step of a command and is 0 only at its end. The list
  cannot outgrow `MallocLimit` (`ListFits`), and each move takes the loop one
  cell on.
* **Directory, implemented.** `DirBlockImplementsDirectory`, `NothingDangles`,
  `KeepsNeighbour`, `NeverFatal`, for images under `RoomyAssumption`; see below.
* **Image.** `CursorsStayInside`, `TypeCorrect`: invariant `TypeOK`,
  `CursorsInside`, and that while a block is being read its cursor is on that
  block (`OnBlock`), so that `Delete`'s seek goes where one has been allowed,
  and that entries follow one another from `.` on (`Chained`), so that its skip
  and its unchecked writes stay before the end that the listing has met. Each
  allowed move lands on a byte of the image because the check is the wrapped sum
  the move uses.
* **Image, entries kept.** `EntriesKept`, an action property: where a file is
  mounted again whose last content was saved, a listing shows what `ls` showed
  then, or ends the program. What `ls` showed at the save is what the file holds
  as far as the file goes (`SavedListing`); its end may be missing. If an entry
  begins in the missing part, the one before it leads there, and the skip or the
  read of the inode number, which ask for as much and more, is refused; so a
  listing that is not refused has met each entry (`ListsWhole`). That the clone
  finds the same block is `DirReached`. Assumed of the image: `IsRegular`, as
  below, and that it is `IoBuf` short of 2^32 bytes.
* **Image, blocks reached.** `ReachesTheBlock`. The invariant `RInv` adds two
  facts to the last: the moves that are left of the walk end with a seek to the
  inode table and its rows, and from that seek on the cursor is as many bytes
  behind the table's start as rows and halves of rows are done (`WalkInv`);
  hence, at the end of the walk, the clone starts where the table ends, and
  `blocksRead` is that place in blocks (`Landed`). Then `bgOffsetBlock`, modulo
  2^32, gives the distance to a block behind the clone, and for one before it a
  number past the end of the image, which the seek has refused. Assumed of the
  image (`IsRegular`): the table fills whole blocks, an inode has at least 128
  bytes, image and block numbers in bytes fit 32 bits; and of the build, that
  `size_t` is no narrower than `uint32_t`.
* **FileRead.** `PrintsPlain`, `SurvivesPlain`, `MisreadsNever`, `TypeCorrect`.
  The invariant adds how far the loop is: up to the end of the file `bytesRead`
  is `i` blocks, or the length if that is less, and `i` runs have been copied,
  each direct one from its place; behind it nothing is kept. It rests on
  arithmetic proved first: an offset modulo 2^32 is that of the block when the
  block is in the clone, and lies past the clone when the block is before it or
  is 0. Assumed: the image is shorter than 2^32 bytes and the blocks that inodes
  name lie in it; `malloc` does not give 2^63 bytes.
* **Shell.** `PathIsTrue`: each directory along the path lies as deep as the
  path is long there (`Leads`), so a tree no deeper than `MaxPath` never meets a
  full path. Assumed: the directories of an image are a tree in which `..` leads
  up. `SavesOnce`: what a file saved once lacks is in a stream still open
  (`SaveInv`), for any number of streams and any order of flushing.
  `TypeCorrect`: from the same invariant.

* **Prompt.** `TypeCorrect`, `WholeLines`, `WordsAreArguments`, for any table of
  commands, any lines, any size of buffer of two bytes or more. The invariant
  says of what is not yet taken that only its last character ends a line
  (`EndIsLast`) and that of a short line it is all or at most that end
  (`LineKept`); and of each place in the program what is then true of the buffer
  and of where `strtok` goes on (`Progress`).
  `HintsAreNearest`: while commands are gone through, `best` is the first of the
  nearest so far, or still `INT_MAX` (`BestSoFar`). The code compares distances;
  `HintIsNearest` speaks of edits, and the next theorem is what links the two.
  Assumed: `INT_MAX` is above 2.
* **Edit distance.** `DistanceCountsEdits`: for words of any length, `Distance`
  is at most `n` exactly when `n` edits make one word of the other, `n` up to
  two. One way, an edit of a word changes no cell of its table by more than one;
  the other way, each cell comes from a neighbour by an edit, so that a distance
  of one or two gives the edits themselves. Both are inductions over the cells,
  by `Induction` of `Arithmetic`: a set of numbers that holds each number whose
  predecessors it holds, holds them all. A set in place of a predicate is what
  makes an induction theorem of use to the provers here.
* **Console.** `ConsoleImplementsPrompt`: `Console` implements `Prompt`, both
  initial states and steps; each step of a command is a stutter but the last,
  which is `Return`, `Fatal`, `Break` or `Leave`. What holds of the prompt then
  holds of the console (`ConsoleLines`). `CommandsStayWithinRead`,
  `LettersCount`, `CrashesKnown`: the invariant `CInv` adds which command can be
  at which step (`StepInv`); what the inodes have become since the mount
  (`Worn`: as they were stored but for the low word, or zeroed); that while no
  entry has been moved the current directory is the root or an entry's
  (`PlaceInv`), and the inode a command has found is an entry's (`FoundInv`). On
  a *plain* image (one group, entries that name its inodes by their true type,
  no file so large that it lacks a suffix) four kinds of commands are excepted,
  all of which the code does get wrong: `stat` of a directory whose size `rm`
  has taken below zero (`Sunk`); `cat` of an inode that `rm` released
  (`Released`); what follows an inode number of stale bytes, or is done after
  one was followed (`Misled`); and `fsdump` of more than the image has. TLC
  fails the run when any one exception is left out. `GeometryAssumption` says
  that `Unit ^ 5` is a number, since the provers know no powers.

**The refinement of `Directory`.** On which images `bgDeleteFile` does what a
user means by `rm` was shown by examples; `RoomyAssumption` says it in general:
each entry has room for its text and lies in the block; the last entry is none
that rm is asked for; the last entry's length, counted from any removable entry,
still reaches behind where its text was at first; no word from there on looks
like an inode number; and no two names lead to one file. A fresh directory that
is half empty is like that, because the last entry's length runs to the end of
the block. The assumption is on what is mounted only; that `rm` keeps it is
proved. Without it the refinement is false: finding 1 is the counterexample.

* At all times there is a list of cells `cs` which is the directory (`RoomInv`):
  the cells follow each other, each with room for its text (`Fits`), lie in the
  block (`InBlock`), and from `h` on, behind the last one's text, the block is
  clean. While a listing is read it is the first cells of `cs`; during the moves
  it is `cs`, and after them `cs` without the victim, the later cells lower by
  its length (`Lowered`), is the directory. `h` stays: the text of the last
  entry ends lower each time, and its length keeps reaching `h`.
* The mapping reads the block by a recursive function. That it finds just the
  cells of `cs` is an induction over the places in the block, from its end down
  (`ChainIsOffsets`).
* `DirBlockImplementsDirectory`: the step that removes the abstract entry is
  `DeleteFile`, before any word has been written, because while entries move the
  mapping shows the list without its victim (`DeleteRefines`). The end of the
  moves must then be a stutter, and is, by `LoweredViews` (`OthersStutter`).
* `KeepsNeighbour`: every word that a move writes lies before `h`
  (`ShiftWrites`). In a tight directory the text of a stale entry may not, and
  only `NeighbourReached` holds.
* `NeverFatal`: all that is read or skipped to lies in the block, and behind it
  the image has the eight words that a read of an inode number asks for, which
  `RoomyAssumption` says.
* `NothingDangles`: no two names lead to one file, which a removal keeps
  (`FilesKept`), so the inode released was the removed entry's alone.

**Only model-checked.** Liveness: `CommandsEnd` and `LineAnswered`. Both rest on
fairness, which is out of the proof system's reach, as `ENABLED` is; of the
first the part that is not fairness is `CommandsRunOut`. All other properties of
the passing runs are theorems.

## 6. Not modelled

* Formatting and printing: what `ext2dump.c` shows of each field,
  `dirGetFiletype`, times, colours. Read beside the models, and of no run: the
  text of `_sbMountCheckDump` is assigned to its parameter and never reaches the
  caller when the counts are equal (`ext2dump.c:285`); `_sbTimeCheckDump`
  subtracts the present from the last check, so that the answer is no
  (`ext2dump.c:299`); `fsdump r` shows the inode after the root's
  (`ext2dump.c:81`); `rmdir` reports success and removes nothing (`ext2.c:105`).
* Time: a step has no duration. `_levenshtein` calls itself three times for each
  letter, so that in fact a misspelt line of sixty letters does not come back,
  while `LineAnswered` holds.
* Functions nobody calls: `diskOpenAsFile`, `utilWrite*`, `diskWrite64`,
  `bgReadAll`, `bgDeleteDir`; the stub `ext2DeleteDir` is a step without effect.
* The contents of block groups other than the first, which the code never reads.
* Words of a directory beyond its first block: the code reads only `block[0]`.
* Byte by byte, what a saved image shows when it is mounted again: `Image` has
  no stale entries, `DirBlock` no second mount.
* The prompt's colour (`Shell.err` after a refused command) is in the models'
  state, but nothing in the repository says what it promises; that each save
  keeps a descriptor is in `Shell`, as a save that ends the session.

## 7. Plan

Done: 1. `Directory`, `DirBlock`, their refinement and proofs; 2. `Disk`,
`Image` and proofs; 3. `Shell` and proofs; 4. `FileRead` and proofs;
5. `Levenshtein`, `Prompt`, `Console` and proofs; 6. `ReachesBlock` and
   `EntriesSurviveSave` for every image; 7. several block groups, as far as the
   code touches them (`Console`); 8. the refinement of `Directory`, `NoDangling`
   and `NeverFatal` for roomy layouts, `NeighbourIntact` for all; 9. what the
   edit distance counts, and `HintIsNearest`; 10. the bounds checks of listing
   and deletion (`DirBlock`, `Image`), and what `rm` does to sizes and brings to
   light (`Console`).

Next: a number that falls with each step of the console, as `StepsLeft` does in
a directory, for the part of `LineAnswered` that is not fairness; and what rm
keeps of the listing on layouts that are not roomy.
