------------------------------ MODULE Console ------------------------------
(***************************************************************************)
(* The prompt with the commands behind it, as far as they go through the   *)
(* arrays of a mounted image (shell.c over ext2.c, bg.c and ext2dump.c):   *)
(* the block groups, of which mounting reads the first, and the inodes of  *)
(* a group.  A cell of an array is <<"group", g>> or <<"inode", g, i>>; a  *)
(* command touches cells, and one that was never read, or is no cell, may  *)
(* end the program or be taken for what happens to lie there.              *)
(***************************************************************************)
EXTENDS Prompt, Integers, FiniteSets

CONSTANTS
  Geometry,  \* of an image: what its superblock says of blocks and inodes
  Ino,       \* inode numbers
  Stored,    \* of an image: its inodes as mounting reads them, [bits, hi, lo]
  Entries,   \* of an image: what its directories list, [ino, type, len]
  Stale,     \* of an image: what else they list, the same, once rm has moved
             \* entries and what lies behind the last of them is read
  Root,      \* INODE_RES_ROOT_DIR
  Unit,      \* what _humanizeSize divides by (1024)
  U31, U64   \* 2^31 and 2^64

\* An inode: the bits of its mode that are looked at, which in a file's and a
\* directory's are one, and the words of its size, the low one an int32_t.
InodeType == [bits : SUBSET {"file", "dir"}, hi : Nat, lo : -U31 .. U31 - 1]
Dirent == [ino : Ino, type : {"file", "dir"}, len : Nat]

\* (That a power is a number is said for the provers, who know none.)
ASSUME GeometryAssumption ==
  /\ Geometry \in [Image -> [blocks : Nat \ {0}, blocksPerGroup : Nat \ {0},
                             inodesPerGroup : Nat \ {0}, logBlockSize : Nat]]
  /\ Ino \subseteq Nat \ {0} /\ Root \in Ino
  /\ Stored \in [Image -> [Ino -> InodeType]]
  /\ \A i \in Image : Entries[i] \subseteq Dirent /\ Stale[i] \subseteq Dirent
  /\ Unit \in Nat \ {0} /\ Unit ^ 5 \in Nat
  /\ U31 \in Nat \ {0} /\ U64 \in Nat /\ U64 >= Unit ^ 5 + U31

VARIABLES
  step,     \* how far the command is that runs
  cd,       \* Shell.cd
  inodes,   \* BlockGroup.inodes
  moved,    \* history: rm has moved entries since the image was mounted
  found,    \* the inode that the command's argument names, or 0
  flags,    \* what fsdump's format string asks for
  next,     \* the character of it to look at
  touched   \* the cells that the command has touched

place   == <<cd, inodes, moved>>
session == <<step, place, found, flags, next, touched>>
allVars == <<vars, session>>

\* ext2dump.h
DUMP_SUPERBLOCK       == "superblock"
DUMP_BGDESCRIPTOR     == "descriptors"
DUMP_ALL_BGDESCRIPTOR == "all descriptors"
DUMP_INODE            == "inodes"
DUMP_INODE_ALL        == "all inodes"
DUMP_INODE_ROOT       == "root inode"
DUMP_ALL == {DUMP_SUPERBLOCK, DUMP_BGDESCRIPTOR, DUMP_INODE}

Steps == {"start", "listed", "parsing", "parsed", "done"}

\* memset, of an inode.
Zeroed == [bits |-> {}, hi |-> 0, lo |-> 0]

NoInodes == [n \in Ino |-> Zeroed]

\* What bgRead leaves of i in memory.
InodesOf(i) == IF i = Nothing THEN NoInodes ELSE Stored[i]

ConsoleInit ==
  /\ Init
  /\ step = "start" /\ cd = Root /\ inodes = InodesOf(fs) /\ moved = FALSE
  /\ found = 0 /\ flags = {} /\ next = 1 /\ touched = {}

-----------------------------------------------------------------------------
(* Groups and inodes.                                                      *)

\* ext2Open: Ext2.bgCount, rounded up.
BgCount(i) ==
  (Geometry[i].blocks + Geometry[i].blocksPerGroup - 1)
    \div Geometry[i].blocksPerGroup

InodeToBGFromZero(i, n) == n \div Geometry[i].inodesPerGroup

\* _inodeToBG, _inodeToIndex.
InodeToBG(i, n) == (n - 1) \div Geometry[i].inodesPerGroup
InodeToIndex(i, n) == (n - 1) % Geometry[i].inodesPerGroup

\* What is touched to get at inode n.
Inode(i, n) ==
  { <<"group", InodeToBG(i, n)>>,
    <<"inode", InodeToBG(i, n), InodeToIndex(i, n)>> }

\* ext2Free goes through all groups.
AllGroups(i) == { <<"group", g>> : g \in 0 .. BgCount(i) - 1 }

\* bgGetInodeSize: the low word's sign fills the upper half.
Size(inode) == IF inode.lo < 0 THEN U64 + inode.lo ELSE 2 * U31 * inode.hi + inode.lo

\* stat: the suffix that _humanizeSize comes to, of an array of five.
Reaches(inode, k) == Size(inode) >= Unit ^ k
Suffix(inode) == <<"suffix", Cardinality({k \in 1 .. 5 : Reaches(inode, k)})>>

\* What mounting reads, and the constant array of suffixes.
HasBeenRead(i) ==
  {<<"group", 0>>}
    \cup { <<"inode", 0, k>> : k \in 0 .. Geometry[i].inodesPerGroup - 1 }
    \cup { <<"suffix", k>> : k \in 0 .. 4 }

\* What a command has touched was never read.
Stray ==
  /\ pc \in {"running", "closing"} /\ step # "start"
  /\ ~ touched \subseteq HasBeenRead(fs)

-----------------------------------------------------------------------------
(* The commands.                                                           *)

Running(fns) == pc = "running" /\ Fn \in fns

Finish(e, f) ==
  /\ pc' = IF Fn = "exit" THEN "closing" ELSE "prompt"
  /\ err' = e /\ fs' = f
  /\ step' = "start" /\ found' = 0 /\ flags' = {} /\ next' = 1 /\ touched' = {}
  /\ UNCHANGED <<input, words, reply>>

\* A command that has begun goes on to s.
GoOn(s) == step' = s /\ UNCHANGED vars

Usage ==
  /\ Running(OneArg) /\ step = "start" /\ Len(argv) # 2
  /\ Finish(TRUE, fs)
  /\ UNCHANGED place

TalkOrExit ==
  /\ Running(Talk \cup {"exit"})
  /\ Finish(FALSE, fs)
  /\ UNCHANGED place

MountOver == TRUE

\* mount, when nothing is mounted; the image may not be one that opens.
MountFree == fs = Nothing

Mount ==
  /\ Running({"mount"}) /\ Len(argv) = 2
  /\ \/ /\ MountFree
        /\ \E i \in Image : Finish(FALSE, i) /\ inodes' = Stored[i]
        /\ cd' = cd /\ moved' = FALSE
     \/ /\ Finish(TRUE, fs)
        /\ UNCHANGED place

\* ext2Free comes before Shell.fs is reset.
FreeGroups ==
  /\ fs # Nothing /\ step = "start"
  /\ Running({"umount"}) \/ pc = "closing"
  /\ touched' = AllGroups(fs)
  /\ GoOn("done")
  /\ UNCHANGED <<place, found, flags, next>>

Umount ==
  /\ Running({"umount"}) /\ step = "done"
  /\ Finish(FALSE, Nothing)
  /\ cd' = Root /\ inodes' = NoInodes /\ moved' = FALSE

Save ==
  /\ Running({"save"}) /\ Len(argv) = 2
  /\ Finish(FALSE, fs)
  /\ UNCHANGED place

\* cd . looks at nothing.
Here == <<".">>

CdHere ==
  /\ Running({"cd"}) /\ step = "start" /\ Len(argv) = 2 /\ Arg(2) = Here
  /\ Finish(FALSE, fs)
  /\ UNCHANGED place

\* ext2GetDir of the current directory, with which ls and all commands on a
\* file begin.
GetDir ==
  /\ Running({"ls", "cat", "cd", "rm", "rmdir", "stat"}) /\ step = "start"
  /\ Fn \in OneArg => Len(argv) = 2
  /\ Fn = "cd" => Arg(2) # Here
  /\ touched' = Inode(fs, cd)
  /\ GoOn("listed")
  /\ UNCHANGED <<place, found, flags, next>>

\* The inode is a directory's; or it was never read, and may pass for one.
IsDir == Stray \/ "dir" \in inodes[cd].bits
NoDir == Stray \/ "dir" \notin inodes[cd].bits

\* What may be listed, and what may come first: "." unless the directory itself
\* is one that only stale bytes name.
Listed == Entries[fs] \cup (IF moved THEN Stale[fs] ELSE {})
Directories(i) == {Root} \cup {e.ino : e \in {d \in Entries[i] : d.type = "dir"}}
Firsts == IF cd \in Directories(fs) THEN {cd} ELSE {e.ino : e \in Listed}

\* No entry has the name, or its type is not what the command wants; or there
\* is no directory to list.
NotFound ==
  /\ pc = "running" /\ step = "listed"
  /\ Fn = "ls" => NoDir
  /\ Finish(TRUE, fs)
  /\ UNCHANGED place

Ls ==
  /\ Running({"ls"}) /\ step = "listed" /\ IsDir
  /\ Finish(FALSE, fs)
  /\ UNCHANGED place

\* rmdir removes nothing: ext2DeleteDir returns true.
CdOrRmdir ==
  /\ Running({"cd", "rmdir"}) /\ step = "listed" /\ Len(argv) >= 2 /\ IsDir
  /\ \E e \in Listed :
       /\ e.type = "dir"
       /\ cd' = IF Fn = "cd" THEN e.ino ELSE cd
  /\ UNCHANGED <<inodes, moved>>
  /\ Finish(FALSE, fs)

\* cat and stat look at the inode that the entry names, which after an rm may be
\* a released one, if it had another name or the old one is still read.
TouchFile ==
  /\ Running({"cat", "stat"}) /\ step = "listed" /\ IsDir
  /\ \E e \in Listed :
       /\ Fn = "cat" => e.type = "file"
       /\ found' = e.ino
       /\ touched' = touched \cup Inode(fs, e.ino)
                       \cup (IF Fn = "stat" THEN {Suffix(inodes[e.ino])} ELSE {})
  /\ GoOn("done")
  /\ UNCHANGED <<place, flags, next>>

\* bgDeleteFile counts the directory's inode within the group of the file's.
DirCell(e, d) == <<"inode", InodeToBG(fs, e.ino), InodeToIndex(fs, d)>>

\* int32_t, which wraps.
Int32(n) == ((n + U31) % (2 * U31)) - U31

\* rootInode->size_lo -= 4 + dir->nextEntry, whatever inode that is.
Shrunk(inode, e) == [inode EXCEPT !.lo = Int32(@ - 4 - e.len)]

\* The inodes after e was removed from the directory of which d is the first
\* entry's.
After(e, d) ==
  LET zeroed == [inodes EXCEPT ![e.ino] = Zeroed]
  IN  [n \in Ino |-> IF DirCell(e, d) \in Inode(fs, n) THEN Shrunk(zeroed[n], e)
                                                      ELSE zeroed[n]]

\* rm.  Unless the entry was the last, those behind it move down.
RemoveFile ==
  /\ Running({"rm"}) /\ step = "listed" /\ IsDir
  /\ \E e \in Listed, d \in Firsts :
       /\ e.type = "file"
       /\ found' = e.ino
       /\ touched' = touched \cup Inode(fs, e.ino) \cup {DirCell(e, d)}
       /\ inodes' = After(e, d)
  /\ moved' \in {moved, TRUE}
  /\ GoOn("done")
  /\ UNCHANGED <<cd, flags, next>>

FileDone ==
  /\ Running({"cat", "rm", "stat"}) /\ step = "done"
  /\ Finish(FALSE, fs)
  /\ UNCHANGED place

-----------------------------------------------------------------------------
(* fsdump.                                                                 *)

Format == Arg(2)

\* The characters of a format string that are known.
Letter == {"a", "b", "B", "i", "I", "r", "s"}

StartFormat ==
  /\ Running({"fsdump"}) /\ step = "start" /\ Len(argv) = 2
  /\ GoOn("parsing")
  /\ UNCHANGED <<place, found, flags, next, touched>>

Descriptors == {DUMP_BGDESCRIPTOR, DUMP_ALL_BGDESCRIPTOR}
Inodes      == {DUMP_INODE, DUMP_INODE_ALL, DUMP_INODE_ROOT}

\* (As if 'a' only added to what is there.)
WithLetterAdded(c) == IF c = "a" THEN flags \cup DUMP_ALL ELSE
  CASE c = "b" -> (flags \ Descriptors) \cup {DUMP_BGDESCRIPTOR}
    [] c = "B" -> (flags \ Descriptors) \cup {DUMP_ALL_BGDESCRIPTOR}
    [] c = "i" -> (flags \ Inodes) \cup {DUMP_INODE}
    [] c = "I" -> (flags \ Inodes) \cup {DUMP_INODE_ALL}
    [] c = "r" -> (flags \ Inodes) \cup {DUMP_INODE_ROOT}
    [] c = "s" -> flags \cup {DUMP_SUPERBLOCK}

\* What the flags are after letter c.
WithLetter(c) ==
  CASE c = "a" -> DUMP_ALL
    [] c = "b" -> (flags \ Descriptors) \cup {DUMP_BGDESCRIPTOR}
    [] c = "B" -> (flags \ Descriptors) \cup {DUMP_ALL_BGDESCRIPTOR}
    [] c = "i" -> (flags \ Inodes) \cup {DUMP_INODE}
    [] c = "I" -> (flags \ Inodes) \cup {DUMP_INODE_ALL}
    [] c = "r" -> (flags \ Inodes) \cup {DUMP_INODE_ROOT}
    [] c = "s" -> flags \cup {DUMP_SUPERBLOCK}

SameLetter == next

\* c = *fmt++
NextLetter == next + 1

ReadLetter ==
  /\ pc = "running" /\ step = "parsing" /\ next <= Len(Format) /\ Format[next] \in Letter
  /\ flags' = WithLetter(Format[next])
  /\ next' = NextLetter
  /\ UNCHANGED <<vars, step, place, found, touched>>

BadLetter ==
  /\ pc = "running" /\ step = "parsing" /\ next <= Len(Format) /\ Format[next] \notin Letter
  /\ Finish(TRUE, fs)
  /\ UNCHANGED place

\* What ext2Dump goes through: 32 descriptors, or a block of them; 32 inodes,
\* all of the first group, or the one behind the root's.
Dumped(i) ==
  { <<"group", 0>> }
    \cup { <<"group", g>> : g \in
             (IF DUMP_BGDESCRIPTOR \in flags THEN 0 .. 31 ELSE {})
               \cup (IF DUMP_ALL_BGDESCRIPTOR \in flags
                       THEN 0 .. (1024 * 2 ^ Geometry[i].logBlockSize) \div 32 - 1
                       ELSE {}) }
    \cup { <<"inode", 0, k>> : k \in
             (IF DUMP_INODE \in flags THEN 0 .. 31 ELSE {})
               \cup (IF DUMP_INODE_ALL \in flags
                       THEN 0 .. Geometry[i].inodesPerGroup - 1 ELSE {})
               \cup (IF DUMP_INODE_ROOT \in flags THEN {Root} ELSE {}) }

Dump ==
  /\ pc = "running" /\ step = "parsing" /\ next > Len(Format)
  /\ touched' = Dumped(fs)
  /\ GoOn("parsed")
  /\ UNCHANGED <<place, found, flags, next>>

DumpDone ==
  /\ pc = "running" /\ step = "parsed"
  /\ Finish(FALSE, fs)
  /\ UNCHANGED place

-----------------------------------------------------------------------------
(* The ends.                                                               *)

\* cat found an inode that is no file's.
NoFile == "file" \notin inodes[found].bits

\* What was touched was never read; rmdir compares names with none; no directory
\* is there, or one that begins with no entry, and a list never made is freed;
\* or cat, which does not look whether anything was read, frees what was not.
Breaks ==
  /\ \/ Stray
     \/ Running({"rmdir"}) /\ step = "listed" /\ Len(argv) = 1
     \/ pc = "running" /\ step = "listed" /\ (NoDir \/ cd \notin Directories(fs))
     \/ Running({"cat"}) /\ step = "done" /\ NoFile
  /\ pc' = "crashed"
  /\ UNCHANGED <<input, words, reply, err, fs, session>>

\* The image ends too soon for what is read, or the file cannot be opened.
FatalError ==
  /\ \/ step = "listed"
     \/ Running({"mount"}) /\ Len(argv) = 2 /\ fs = Nothing
     \/ Running({"save"}) /\ Len(argv) = 2
  /\ Fatal
  /\ UNCHANGED session

LeaveShell ==
  /\ fs = Nothing \/ step = "done"
  /\ Leave
  /\ UNCHANGED session

Work ==
  \/ Usage \/ TalkOrExit \/ Mount \/ Umount \/ FreeGroups \/ Save
  \/ CdHere \/ GetDir \/ NotFound \/ Ls \/ CdOrRmdir
  \/ TouchFile \/ RemoveFile \/ FileDone
  \/ StartFormat \/ ReadLetter \/ BadLetter \/ Dump \/ DumpDone
  \/ Breaks \/ FatalError \/ LeaveShell

Shell == (Dispatch /\ UNCHANGED session) \/ Work

ConsoleNext == (\E l \in Line : Type(l) /\ UNCHANGED session) \/ Shell

\* The program, one thread, goes on while it can; the user need not.
ConsoleSpec == ConsoleInit /\ [][ConsoleNext]_allVars /\ WF_allVars(Shell)

-----------------------------------------------------------------------------
\* The commands do what the prompt counts on: they return what they may, and
\* Shell.fs changes by mount and umount alone.
ImplementsPrompt == Spec

\* An image of one group, as ext2Open counts them, with entries that name
\* inodes of it, of the type they say and of a size that has a suffix whatever
\* its low word is.
Plain(i) ==
  /\ BgCount(i) = 1
  /\ \A e \in Entries[i] :
       /\ e.ino <= Geometry[i].inodesPerGroup
       /\ Stored[i][e.ino].bits = {e.type}
       /\ Stored[i][e.ino].lo >= 0
       /\ ~ Reaches([Stored[i][e.ino] EXCEPT !.lo = U31 - 1], 5)
  /\ Root < Geometry[i].inodesPerGroup /\ Stored[i][Root].bits = {"dir"}

\* What a format asks for that such an image has.
Served(i) ==
  /\ flags \cap Descriptors = {}
  /\ DUMP_INODE \in flags => Geometry[i].inodesPerGroup >= 32

\* stat found an inode from whose size rm has taken more than it was.
Sunk == Fn = "stat" /\ found # 0 /\ inodes[found].lo < 0

\* Once rm has moved entries: the command goes by an inode number that no true
\* entry gives it.
Misled ==
  /\ moved
  /\ \/ cd \notin Directories(fs)
     \/ /\ found # 0
        /\ \A e \in Entries[fs] : e.ino = found => Fn # "stat" /\ e.type # "file"

\* What rm released, it zeroed.
Released(n) == inodes[n].bits = {}

\* No command on a plain image looks at what was not read when it was mounted,
\* whatever was removed before it, but for fsdump asked for more than there is,
\* stat of a directory whose size has sunk below zero, and a command that
\* follows stale bytes.
StaysWithinRead ==
  step # "start" /\ pc \in {"running", "closing"} /\ Plain(fs) =>
    \/ touched \subseteq HasBeenRead(fs)
    \/ step = "parsed" /\ ~ Served(fs)
    \/ Sunk \/ Misled

\* As far as pointers and arrays go (cat's buffer is FileRead's, and the moves
\* of rm are DirBlock's), the session is lost by a blank line, by rmdir without
\* a name, by cat of what rm released, by stat of a directory that has lost more
\* than it had, by what stale bytes name or made rm release, and otherwise by
\* an image that is not plain or by a dump of what it has not: whatever line was
\* typed, if it is shorter than the buffer.
OnlyKnownCrashes ==
  pc = "crashed" /\ Len(line) < BufSize =>
    \/ line # <<>> /\ \A k \in DOMAIN line : line[k] = Blank
    \/ said = "called" /\ Fn = "rmdir" /\ Len(argv) = 1
    \/ said = "called" /\ Fn = "cat" /\ found # 0 /\ Released(found)
    \/ said = "called" /\ (Sunk \/ Misled)
    \/ said = "called" /\ moved /\ Released(cd)
    \/ fs # Nothing /\ (Plain(fs) => step = "parsed" /\ ~ Served(fs))

\* The letters read, from the last of S on: is c the last of them?
LastOf(S, c) ==
  \E k \in 1 .. next - 1 :
    Format[k] = c /\ \A m \in k + 1 .. next - 1 : Format[m] \notin S

\* Of letters that exclude each other the last one counts, 'a' being one of
\* both kinds, so that nothing is dumped twice.
LastLetterWins ==
  step \in {"parsing", "parsed"} =>
    LET D == {"a", "b", "B"}
        I == {"a", "i", "I", "r"}
    IN  /\ DUMP_BGDESCRIPTOR \in flags <=> LastOf(D, "a") \/ LastOf(D, "b")
        /\ DUMP_ALL_BGDESCRIPTOR \in flags <=> LastOf(D, "B")
        /\ DUMP_INODE \in flags <=> LastOf(I, "a") \/ LastOf(I, "i")
        /\ DUMP_INODE_ALL \in flags <=> LastOf(I, "I")
        /\ DUMP_INODE_ROOT \in flags <=> LastOf(I, "r")
        /\ DUMP_SUPERBLOCK \in flags <=>
             \E k \in 1 .. next - 1 : Format[k] \in {"a", "s"}

\* What was typed is taken and comes to an end, whatever it makes of the
\* session: the prompt is back, or the program has ended.
LineAnswered ==
  rest # <<>> ~> (rest = <<>> /\ pc = "prompt") \/ pc \in {"left", "crashed"}
=============================================================================
