------------------------------ MODULE DirBlock ------------------------------
(***************************************************************************)
(* One directory of a mounted image under the commands `ls' and `rm': how  *)
(* dirReadLinkedList (dir.c) reads the directory's block into a linked     *)
(* list of entries, and how bgDeleteFile (bg.c) takes an entry out of the  *)
(* block by moving the later entries down over it.                         *)
(*                                                                         *)
(* The block is an array of 4-byte words, the alignment of ext2 directory  *)
(* entries.  An entry is its inode word, its header word (rec_len,         *)
(* name_len, file_type) and its text.  The code gives a word its meaning   *)
(* by where it finds it, so a word carries each reading the code may make  *)
(* of it.  Lengths and offsets count words.  A name is three characters    *)
(* and a NUL, one word; the third character is what name_len is when a     *)
(* name is misread as a header, and TextWords stands for it.               *)
(***************************************************************************)
EXTENDS Integers, Sequences

CONSTANTS
  BlockWords,   \* words in a block (256 in a block of 1 KiB)
  ImageWords,   \* words from the start of the block to the end of the image
  TextWords,    \* words of text a name claims when it is misread as a header
  Name, NoName, \* the names in the directory, and none
  Inode,        \* inode numbers of the entries other than "."
  DirIno,       \* inode number of the directory: Shell.cd
  Images,       \* directories a session may mount: [block, used] records
  Removable,    \* names the user ever gives to rm
  MallocLimit,  \* list cells that fit in memory: dirNew checks no malloc
  SizeHalf      \* 2^31 bytes: size_lo, an int32_t, lies between - it and it

-----------------------------------------------------------------------------
(* Words of the block, and the entries of the list read from it.           *)

DIR_FT_FILE == 1
DIR_FT_DIR  == 2

\* A word as an inode number, as rec_len, name_len and file_type, as text.
Word == [num : Nat, len : Nat, nl : Nat, ft : Nat, txt : Name \cup {NoName}]

Zero == [num |-> 0, len |-> 0, nl |-> 0, ft |-> 0, txt |-> NoName]

\* Past the block: the longest text may be read from, and moved into, the
\* words of the block that follows on the disk.
Span == 0 .. BlockWords + TextWords

\* A cell of the list (struct Dir): where the entry was found, and its words
\* as they were read: inode, header and nl words of text.
Cell == [off : Nat, words : Seq(Word)]

Ino(e)  == e.words[1].num
RecLen(e) == e.words[2].len
TextLen(e) == e.words[2].nl
Type(e) == e.words[2].ft

\* strcmp stops at the NUL that ends the first word of text.  (ls looks for no
\* name.)
IsNamed(e, n) == n # NoName /\ TextLen(e) > 0 /\ e.words[3].txt = n

\* The words of the entry at p, taken for one whatever is there.
EntryAt(b, p) == [k \in 1 .. 2 + b[p + 1].nl |-> b[p + k - 1]]

\* The directory's own entry ".", which bgDeleteFile's caller hands over as
\* the root of the list.
IsDot(b) ==
  /\ b[0].num = DirIno
  /\ b[1].ft = DIR_FT_DIR
  /\ b[1].nl = 1
  /\ b[1].len >= 3

ASSUME SizeAssumption ==
  /\ BlockWords \in Nat /\ BlockWords >= 3
  /\ TextWords \in Nat /\ TextWords >= 1
  /\ ImageWords \in Nat
  /\ MallocLimit \in Nat
  /\ SizeHalf \in Nat /\ SizeHalf > BlockWords

ASSUME NameAssumption ==
  /\ NoName \notin Name
  /\ Removable \subseteq Name

ASSUME InodeAssumption ==
  /\ Inode \subseteq Nat \ {0}
  /\ DirIno \in Nat \ {0}

\* A mounted directory begins with ".", and no name is longer than TextWords.
ASSUME ImageAssumption ==
  \A i \in Images :
    /\ i.block \in [Span -> Word]
    /\ \A p \in Span : i.block[p].nl <= TextWords
    /\ IsDot(i.block)
    /\ i.used \subseteq Inode

-----------------------------------------------------------------------------
VARIABLES
  block,     \* the words of the directory's block, in the shared disk buffer
  bitmap,    \* inode numbers whose bit is set in the inode bitmap (in memory)
  inodes,    \* inode numbers whose inode is not zeroed (in memory)
  dirSize,   \* size_lo of the directory's inode, in words
  pc,        \* where the command under way has got to
  target,    \* the name given to rm; NoName for ls
  list,      \* the linked list of struct Dir read so far
  at,        \* the disk cursor, from the start of the block
  sentinel,  \* dirReadLinkedList's running offset
  victim,    \* index in the list of the entry being deleted
  next       \* index in the list of the entry to move down next

disk == <<block, bitmap, inodes, dirSize>>
vars == <<disk, pc, target, list, at, sentinel, victim, next>>

\* After "exit", a FATAL, and "crash" there is no program any more.
Phases == {"prompt", "read", "find", "shift", "free", "exit", "crash"}

TypeOK ==
  /\ block \in [Span -> Word]
  /\ bitmap \subseteq Inode
  /\ inodes \subseteq Inode
  /\ dirSize \in -SizeHalf .. SizeHalf - 1
  /\ pc \in Phases
  /\ target \in Name \cup {NoName}
  /\ list \in Seq(Cell)
  /\ at \in Nat
  /\ sentinel \in Nat
  /\ victim \in 0 .. Len(list)
  /\ next \in 0 .. Len(list) + 1

Init ==
  /\ \E i \in Images : block = i.block /\ bitmap = i.used /\ inodes = i.used
  /\ dirSize = BlockWords
  /\ pc = "prompt"
  /\ target = NoName
  /\ list = <<>>
  /\ at = 0 /\ sentinel = 0 /\ victim = 0 /\ next = 0

-----------------------------------------------------------------------------
(* What the steps compute.  Beside an operator stands, named for what it    *)
(* gets wrong, the form a slip would give it.                              *)

\* dirReadLinkedList: the running offset has reached the end of the block.
PastEndByOne(s) == s > BlockWords
Past(s) == s >= BlockWords

\* What the bounds checks of disk.c let through.  A read asks for as many bytes
\* as it reads bits: diskRead32 of the inode number for eight words, diskRead8
\* of the last character for two.
CanReadInode(p) == p + 8 < ImageWords
CanReadText(p, e) == p + 2 + TextLen(e) + 1 < ImageWords
CanSkipTo(p) == p < ImageWords

\* The cursor, having read e's words, goes back over them and then on to where
\* the next entry begins.
FollowingNoRewind(e) == at + 2 + TextLen(e) + RecLen(e)
Following(e) == at + RecLen(e)

\* _findInode: the first entry of that name.
Finds(v) ==
  /\ IsNamed(list[v], target)
  /\ \A j \in 1 .. v - 1 : ~ IsNamed(list[j], target)

\* The inode that goes with entry v (_inodeToIndex counts from 0).
ReleasedOneOff(v) == {Ino(list[v]) + 1}
Released(v) == {Ino(list[v])}

\* bgDeleteFile seeks to the directory's block and skips to entry v.
CursorNoSeek(v) == at + list[v].off
CursorNoSkip(v) == 0
CursorOf(v) == list[v].off

\* The directory's size, signed, less the entry's length and four bytes, as
\* the build wraps it.  It may well fall below zero.
SizeUnwrapped(v) == dirSize - (1 + RecLen(list[v]))
Wrapped(n) == ((n + SizeHalf) % (2 * SizeHalf)) - SizeHalf
SizeWithout(v) == Wrapped(dirSize - (1 + RecLen(list[v])))

\* The words bgDeleteFile writes for an entry, and the cursor after it.
WrittenNoName(e) == SubSeq(e.words, 1, 2)
Written(e) == e.words

AfterMoveByVictim(e) == at + RecLen(list[victim])
AfterMoveNoRewind(e) == at + 2 + TextLen(e) + RecLen(e)
AfterMove(e) == at + RecLen(e)

\* The block with the words ws written from word p on.
Overwrite(b, p, ws) ==
  [q \in Span |-> IF q - p + 1 \in DOMAIN ws THEN ws[q - p + 1] ELSE b[q]]

-----------------------------------------------------------------------------
(* The steps of a command.                                                 *)

\* `ls' or `rm n': bgGetDir seeks the cursor to the directory's block.
TypeCommand(n) ==
  /\ pc = "prompt"
  /\ pc' = "read"
  /\ target' = n
  /\ UNCHANGED <<disk, list, at, sentinel, victim, next>>

\* What dirReadLinkedList finds at the cursor, when it is not the end.
EntryHere == [off |-> sentinel, words |-> EntryAt(block, at)]

\* dirReadLinkedList: one entry is appended, and the cursor is put where the
\* next one begins, unless this one reaches the end of the block.
ReadEntry ==
  /\ pc = "read"
  /\ CanReadInode(at)
  /\ block[at].num # 0
  /\ Len(list) < MallocLimit
  /\ CanReadText(at, EntryHere)
  /\ list' = Append(list, EntryHere)
  /\ sentinel' = sentinel + RecLen(EntryHere)
  /\ \/ /\ Past(sentinel')
        /\ pc' = "find"
        /\ at' = at + 2 + TextLen(EntryHere)
     \/ /\ ~ Past(sentinel')
        /\ CanSkipTo(Following(EntryHere))
        /\ pc' = pc
        /\ at' = Following(EntryHere)
  /\ UNCHANGED <<disk, target, victim, next>>

\* The inode number, the text or the next entry lies where the bounds check
\* lets nothing be read or skipped: the program exits.
ReadFatal ==
  /\ pc = "read"
  /\ \/ ~ CanReadInode(at)
     \/ /\ block[at].num # 0
        /\ Len(list) < MallocLimit
        /\ \/ ~ CanReadText(at, EntryHere)
           \/ /\ ~ Past(sentinel + RecLen(EntryHere))
              /\ ~ CanSkipTo(Following(EntryHere))
  /\ pc' = "exit"
  /\ UNCHANGED <<disk, target, list, at, sentinel, victim, next>>

\* (To take a zero inode number for an unused entry, and skip it.)
SkipUnused ==
  /\ pc = "read"
  /\ CanReadInode(at)
  /\ block[at].num = 0
  /\ at' = at + block[at + 1].len
  /\ sentinel' = sentinel + block[at + 1].len
  /\ UNCHANGED <<disk, pc, target, list, victim, next>>

\* An inode number of zero ends the list.  The cell allocated for it is freed
\* through the one before; there is none when the first entry is zero.
EndOfList ==
  /\ pc = "read"
  /\ CanReadInode(at)
  /\ block[at].num = 0
  /\ pc' = IF list = <<>> THEN "crash" ELSE "find"
  /\ UNCHANGED <<disk, target, list, at, sentinel, victim, next>>

\* dirNew found no memory; the next entry is written through a null pointer.
OutOfMemory ==
  /\ pc = "read"
  /\ CanReadInode(at)
  /\ block[at].num # 0
  /\ Len(list) >= MallocLimit
  /\ pc' = "crash"
  /\ UNCHANGED <<disk, target, list, at, sentinel, victim, next>>

\* ls has listed; or rm found no such name, or found something not a file.
Refuse ==
  /\ pc = "find"
  /\ \A v \in DOMAIN list : Finds(v) => Type(list[v]) # DIR_FT_FILE
  /\ pc' = "free"
  /\ UNCHANGED <<disk, target, list, at, sentinel, victim, next>>

\* bgDeleteFile up to its loop.  The inode is released whatever else links to
\* it.  The skip to the entry stays where it was read from, so is never FATAL.
\* The last entry goes by having its inode word zeroed.
DeleteFile(v) ==
  /\ pc = "find"
  /\ Finds(v)
  /\ Type(list[v]) = DIR_FT_FILE
  /\ Ino(list[v]) \in Inode
  /\ bitmap' = bitmap \ Released(v)
  /\ inodes' = inodes \ Released(v)
  /\ dirSize' = SizeWithout(v)
  /\ victim' = v
  /\ next' = v + 1
  /\ at' = CursorOf(v)
  /\ IF v = Len(list)
       THEN /\ block' = [block EXCEPT ![at'] = Zero]
            /\ pc' = "free"
       ELSE /\ block' = block
            /\ pc' = "shift"
  /\ UNCHANGED <<target, list, sentinel>>

\* A number that is no inode's of the group selects a block group past the
\* array of them; the directory's own, zeroed, makes the seek to its first
\* block fatal.
DeleteNowhere(v) ==
  /\ pc = "find"
  /\ Finds(v)
  /\ Type(list[v]) = DIR_FT_FILE
  /\ Ino(list[v]) \notin Inode
  /\ pc' = "crash"
  /\ UNCHANGED <<disk, target, list, at, sentinel, victim, next>>

\* bgDeleteFile's loop: the next entry is written at the cursor, unchecked; the
\* cursor then moves on by that entry's own length, after the last one too, and
\* that is checked.
ShiftEntry ==
  /\ pc = "shift"
  /\ block' = Overwrite(block, at, Written(list[next]))
  /\ next' = next + 1
  /\ \/ /\ CanSkipTo(AfterMove(list[next]))
        /\ at' = AfterMove(list[next])
        /\ pc' = IF next = Len(list) THEN "free" ELSE pc
     \/ /\ ~ CanSkipTo(AfterMove(list[next]))
        /\ at' = at
        /\ pc' = "exit"
  /\ UNCHANGED <<bitmap, inodes, dirSize, target, list, sentinel, victim>>

\* dirFreeLinkedList, and back to the prompt.
FreeList ==
  /\ pc = "free"
  /\ pc' = "prompt"
  /\ list' = <<>>
  /\ target' = NoName
  /\ at' = 0 /\ sentinel' = 0 /\ victim' = 0 /\ next' = 0
  /\ UNCHANGED disk

Step ==
  \/ ReadEntry \/ ReadFatal \/ EndOfList \/ OutOfMemory
  \/ Refuse
  \/ \E v \in DOMAIN list : DeleteFile(v) \/ DeleteNowhere(v)
  \/ ShiftEntry
  \/ FreeList

Next == (\E n \in Removable \cup {NoName} : TypeCommand(n)) \/ Step

Spec == Init /\ [][Next]_vars

\* The program is one thread and a command is not interrupted: it runs on.
FairSpec == Spec /\ WF_vars(Step)

-----------------------------------------------------------------------------
(* What the code relies on.  Up to NeighbourIntact none asks for a certain  *)
(* layout of the image: they hold whatever follows "." in the block.       *)

\* Each cell's offset is where the cell before it says the next entry is, and
\* lies in the block.
CellsChain ==
  /\ \A i \in DOMAIN list : list[i].off < BlockWords
  /\ \A i \in DOMAIN list : i > 1 =>
       list[i].off = list[i - 1].off + RecLen(list[i - 1])
  /\ list # <<>> => list[1].off = 0

\* The cells of the list form a chain, and the next one will be read where the
\* last one says: sentinel, which cells get their offsets from, and the disk
\* cursor, which they are read at, are advanced apart by dirReadLinkedList and
\* never part.
ListIsChain ==
  /\ CellsChain
  /\ pc = "read" =>
       /\ at = sentinel /\ at < BlockWords
       /\ list # <<>> =>
            at = list[Len(list)].off + RecLen(list[Len(list)])

\* Until a command writes, each cell holds the words that lie at its offset:
\* what rm later moves is what the block held.
ListIsFaithful ==
  pc \in {"read", "find"} =>
    \A i \in DOMAIN list : list[i].words = EntryAt(block, list[i].off)

\* The cells lie in the block in list order, without overlap.
ListIsOrdered ==
  \A i, j \in DOMAIN list :
    i < j => list[i].off + RecLen(list[i]) <= list[j].off

\* While entries are moved down, the cursor is short of the entry it moves by
\* the length of the deleted one, never more or less: bgDeleteFile advances by
\* the length of what it moved, and the distance must not drift.
ShiftMovesDown ==
  pc = "shift" =>
    /\ victim < next /\ next <= Len(list)
    /\ at + RecLen(list[victim]) = list[next].off

\* Where rm puts entry j.
NewOff(j) ==
  IF j < victim THEN list[j].off ELSE list[j].off - RecLen(list[victim])

\* An entry whose text its own length leaves room for, or the last.
IsWhole(j) == j < Len(list) => 2 + TextLen(list[j]) <= RecLen(list[j])

\* rm keeps every other entry, word for word: those before the deleted one
\* where they were, those after it, as far as they have been moved, lower by
\* its length.  Later moves of the same rm do not damage earlier ones.
SurvivorsKept ==
  pc \in {"shift", "free"} /\ victim # 0 =>
    \A j \in DOMAIN list \ {victim} :
      j < next /\ IsWhole(j) =>
        \A k \in DOMAIN list[j].words :
          block[NewOff(j) + k - 1] = list[j].words[k]

\* No rm touches ".": bgDeleteFile finds the directory's inode through it, and
\* dirReadLinkedList frees an uninitialised pointer when the first entry is
\* zero.
DotStays == IsDot(block)

\* rm changes a word past the directory's block, another file's, only where
\* the text of an entry that was listed ran on into it; and a directory without
\* such an entry keeps to its block.
NeighbourIntact ==
  [][\A p \in Span :
       p >= BlockWords /\ block'[p] # block[p] =>
         \E i \in DOMAIN list : p < list[i].off + 2 + TextLen(list[i])]_vars

\* A command ends: the list has an end and the moves have one.
CommandsEnd == pc # "prompt" ~> pc = "prompt"
=============================================================================
