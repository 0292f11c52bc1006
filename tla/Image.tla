------------------------------- MODULE Image -------------------------------
(***************************************************************************)
(* Mounting an image, reaching its blocks, and saving it (ext2.c, bg.c,    *)
(* superblock.c, inode.c over disk.c).  Mounting is one walk of the main   *)
(* cursor over superblock, descriptor, bitmaps and inode table; where it   *)
(* ends, the cursor is cloned, and every block is reached through the      *)
(* clone, by an offset from the number of blocks the walk had read.        *)
(*                                                                         *)
(* An image has one block group.  Of its contents a model keeps the inode  *)
(* bitmap, the first block and length of each inode, and at one place the  *)
(* entries of a directory, each at its offset and none behind the last; a  *)
(* listing that is led to another place finds zeros there.  What rm brings *)
(* to light behind the last entry, word by word, is DirBlock.tla's.        *)
(***************************************************************************)
EXTENDS Integers, Sequences, Disk

CONSTANTS
  U32,             \* the span of uint32_t
  IoBuf,           \* what stdio keeps back of a file that is not closed
  File, NoFile,    \* names of image files, and none
  Inode, DirIno,   \* the inodes of files, and the directory's
  Starts           \* what the files may hold at first: [File -> Img] functions

ASSUME SpanAssumption == U32 \in 1 .. SizeT /\ IoBuf \in Nat \ {0}
ASSUME FileAssumption == NoFile \notin File

Inodes == Inode \cup {DirIno}

\* An entry: its inode, its offset in the block, its own length (rec_len), and
\* the bytes of its eight-byte head and its name.
Entry == [ino : Inodes, off : Nat, len : Nat, text : Nat \ {0}]

\* An image: its size; what the superblock says of itself, of incompatible
\* features, block size, inodes in the group and the bytes of each; the blocks
\* of the bitmaps and the inode table; the inode bitmap; for each inode its
\* first block, and for a file the bytes read from it; the directory's
\* entries, and at which byte of the image they begin.
Img == [ size : 0 .. SizeT - 1, magic : BOOLEAN, incompat : BOOLEAN,
         bs : Nat \ {0}, ipg : Nat, isize : Nat, bb : Nat, ib : Nat, it : Nat,
         bits : SUBSET Inode, table : [Inodes -> Nat], len : [Inode -> Nat],
         place : Nat, entries : SUBSET Entry ]

\* The entries lie one after the other from the start of the block: each
\* begins in it, where one before it says, and none begins in another.
IsChain(es, bs) ==
  \A e \in es :
    /\ e.off < bs
    /\ e.off # 0 => \E d \in es : d.off < e.off /\ d.off + d.len = e.off
    /\ \A d \in es : d.off < e.off => d.off + d.len <= e.off
    /\ \A d \in es : d.off = e.off => d = e

\* The first entry is the directory's own.
ASSUME StartsAssumption ==
  /\ Starts \subseteq [File -> Img]
  /\ \A s \in Starts, f \in File : IsChain(s[f].entries, s[f].bs)
  /\ DirIno \notin Inode
  /\ \A s \in Starts, f \in File : \A e \in s[f].entries :
       e.off = 0 => e.ino = DirIno

VARIABLES
  files,       \* the image files
  mode,        \* what the program is at
  mounted,     \* the file that is mounted or being mounted
  buffer,      \* the image in memory, which both cursors walk
  cur,         \* Ext2.disk, the main cursor
  walk,        \* the moves of bgRead still to make
  data,        \* BlockGroup.data, the clone
  blocksRead,  \* BlockGroup.blocksRead
  bitmap,      \* BlockGroup.inodeBitmap, as a set
  inodes,      \* BlockGroup.inodes: the first block of each, 0 when zeroed
  target,      \* the inode whose block is being read
  wanted,      \* where the access that was refused would have ended
  atSave       \* history: what ls showed and bitmap when a file was saved

memory == <<buffer, cur, data, blocksRead, bitmap, inodes>>
vars == <<files, mode, mounted, memory, walk, target, wanted, atSave>>

Modes == {"unmounted", "mounting", "mounted", "reading", "fatal", "crash"}

-----------------------------------------------------------------------------
(* The walk.                                                               *)

Times32(a, b) == (a * b) % U32

Skipping(n) == [op |-> "skip", n |-> n]
Copying(n)  == [op |-> "copy", n |-> n]
Seeking(n)  == [op |-> "seek", n |-> n]

\* inodeRead copies 128 bytes of each row of the inode table.
InodeTable(img) ==
  [i \in 1 .. 2 * img.ipg |->
     IF i % 2 = 1 THEN Copying(128) ELSE Skipping((SizeT + img.isize - 128) % SizeT)]

\* bgRead(0): the superblock, its magic, the descriptor, which with 1 KiB
\* blocks comes right after, the two bitmaps and the inode table.
Walk(img) ==
  << Copying(264), [op |-> "magic", n |-> 0], Skipping(760) >>
  \o (IF img.bs # 1024 THEN << Seeking(img.bs) >> ELSE <<>>)
  \o << Skipping(0), Copying(32),
        Seeking(Times32(img.bs, img.bb)), Copying(img.bs),
        Seeking(Times32(img.bs, img.ib)), Copying(img.bs),
        Seeking(Times32(img.bs, img.it)) >>
  \o InodeTable(img)

\* bgOffsetBlock: the offset of a block from the start of the clone.
OffsetBlock(b) == Times32((U32 + b - blocksRead) % U32, buffer.bs)

\* FATAL: the program exits.
Fatal(end) ==
  /\ mode' = "fatal"
  /\ wanted' = end
  /\ UNCHANGED <<files, mounted, memory, walk, target, atSave>>

-----------------------------------------------------------------------------
Init ==
  /\ files \in Starts
  /\ mode = "unmounted"
  /\ mounted = NoFile
  /\ \E f \in File : buffer = files[f]
  /\ cur = Opened(0) /\ data = Opened(0)
  /\ blocksRead = 0 /\ bitmap = {} /\ inodes = [i \in Inodes |-> 0]
  /\ walk = <<>>
  /\ target = DirIno
  /\ wanted = 0
  /\ atSave = [f \in File |-> <<>>]

\* ext2Open: the file is read as a whole, and its boot block skipped.
Mount(f) ==
  /\ mode = "unmounted"
  /\ mounted' = f
  /\ buffer' = files[f]
  /\ walk' = Walk(files[f])
  /\ LET c == Opened(files[f].size)
     IN  IF InBounds(c, 1024)
           THEN mode' = "mounting" /\ cur' = Skip(c, 1024) /\ wanted' = wanted
           ELSE mode' = "fatal" /\ cur' = c /\ wanted' = 1024
  /\ UNCHANGED <<files, data, blocksRead, bitmap, inodes, target, atSave>>

\* The next move of the walk puts the main cursor at c.
Walking(op) == mode = "mounting" /\ walk # <<>> /\ Head(walk).op = op

Move(c) ==
  /\ cur' = c
  /\ walk' = Tail(walk)
  /\ UNCHANGED <<files, mode, mounted, buffer, data, blocksRead, bitmap, inodes,
                 target, wanted, atSave>>

\* diskSkip, diskCopy, diskSeek.
WalkOn ==
  /\ Walking("skip") \/ Walking("copy")
  /\ LET n == Head(walk).n
     IN  IF InBounds(cur, n) THEN Move(Skip(cur, n)) ELSE Fatal(cur.pos + n)

WalkSeek ==
  /\ Walking("seek")
  /\ LET n == Head(walk).n
     IN  IF CanSeek(cur, n) THEN Move(Seek(cur, n)) ELSE Fatal(n)

\* sbRead: what is not an ext2 image is not mounted.  The feature words are
\* not looked at.
CheckMagic ==
  /\ Walking("magic")
  /\ buffer.magic
  /\ Move(cur)

BadMagic ==
  /\ Walking("magic")
  /\ ~ buffer.magic
  /\ mode' = "unmounted"
  /\ mounted' = NoFile
  /\ walk' = <<>>
  /\ UNCHANGED <<files, memory, target, wanted, atSave>>

\* The end of bgRead: the cursor, past the inode table, is cloned.
ReadSoFarUp(c) == (c.pos + buffer.bs) \div buffer.bs
ReadSoFar(c) == c.pos \div buffer.bs

FinishMount ==
  /\ mode = "mounting"
  /\ walk = <<>>
  /\ mode' = "mounted"
  /\ data' = Clone(cur)
  /\ blocksRead' = ReadSoFar(cur)
  /\ bitmap' = buffer.bits
  /\ inodes' = buffer.table
  /\ UNCHANGED <<files, mounted, buffer, cur, walk, target, wanted, atSave>>

-----------------------------------------------------------------------------
(* Reading and changing blocks through the clone.                          *)

\* The entries of img whose inode word lies in it: those a reader may find.
Present(img) == {e \in img.entries : img.place + e.off + 4 <= img.size}

\* What a directory's listing finds from the cursor c on.
Lying(c) == IF Address(c) = buffer.place THEN Present(buffer) ELSE {}

IsLast(e, es) == \A d \in es : d.off <= e.off

\* An access k bytes long, from p bytes behind the cursor, for which the bounds
\* check asks n bytes: disk.c asks as many bytes as it reads bits.
Access(p, n, k) == [from |-> p, asks |-> n, ends |-> p + k]

\* dirReadLinkedList's accesses: an inode number at the start of the block; of
\* each entry the name to its last byte, and, unless the entry ends the block,
\* the skip to where the next begins and the inode number there.
Accesses(c) ==
  {Access(0, 32, 4)} \cup
  UNION { {Access(e.off + e.text - 1, 8, 1)} \cup
          ( IF e.off + e.len < buffer.bs
              THEN {Access(e.off, e.len, e.len), Access(e.off + e.len, 32, 4)}
              ELSE {} ) : e \in Lying(c) }

\* Those that are FATAL.  (Were only the names read with a check...)
RefusedNames(c) ==
  {a \in Accesses(c) : a.asks = 8 /\ c.pos + a.from + a.asks >= c.size}
Refused(c) == {a \in Accesses(c) : c.pos + a.from + a.asks >= c.size}

\* A FATAL in the first of the accesses as, from the address p.
FatalIn(as, p) ==
  \E a \in as : (\A b \in as : a.ends <= b.ends) /\ Fatal(p + a.ends)

\* A directory has been listed: nothing refused, and something found.
CanList == mode = "reading" /\ target = DirIno /\ Refused(data) = {}

\* bgGetDir, before any command on a file, and bgReadFile on what it listed:
\* the cursor is put on the first block of i.
SeekBlock(i) ==
  /\ IF i = DirIno THEN mode = "mounted"
                   ELSE CanList /\ \E e \in Lying(data) : e.ino = i
  /\ LET o == OffsetBlock(inodes[i])
     IN  IF CanSeek(data, o)
           THEN /\ data' = Seek(data, o)
                /\ mode' = "reading"
                /\ target' = i
                /\ UNCHANGED <<files, mounted, buffer, cur, walk, blocksRead,
                               bitmap, inodes, wanted, atSave>>
           ELSE Fatal(data.start + o)

\* The block goes on being read, and the cursor is left at c.
ReadTo(c) ==
  /\ data' = c
  /\ mode' = "mounted"
  /\ UNCHANGED <<files, mounted, buffer, cur, walk, blocksRead, bitmap, inodes,
                 target, wanted, atSave>>

\* bgReadFile: the block is read byte by byte.
ReadFile ==
  /\ mode = "reading" /\ target # DirIno
  /\ LET n == buffer.len[target]
     IN  IF CanRead(data, n) THEN ReadTo(Advance(data, n))
                             ELSE Fatal(Address(data) + n)

\* dirReadLinkedList: the cursor is left behind the name of an entry that ends
\* the block, or behind the zero that ends the list.
ReadDir ==
  /\ CanList
  /\ \E z \in Lying(data) :
       /\ IsLast(z, Lying(data))
       /\ ReadTo(Advance(data, IF z.off + z.len < buffer.bs
                                 THEN z.off + z.len + 4
                                 ELSE z.off + z.text))

ReadDirFatal ==
  /\ mode = "reading" /\ target = DirIno
  /\ FatalIn(Refused(data), Address(data))

\* A list that ends before it begins is freed through a pointer never set.
ReadNoDir ==
  /\ CanList /\ Lying(data) = {}
  /\ mode' = "crash"
  /\ UNCHANGED <<files, mounted, memory, walk, target, wanted, atSave>>

\* bgDeleteFile seeks the directory's block again and skips to the entry, which
\* no check can refuse where the listing has been.
EntryCursor(v) == Skip(Seek(data, OffsetBlock(inodes[DirIno])), v.off)

Later(v) == {e \in Lying(data) : e.off > v.off}

\* What the loop skips, once it has moved an entry down: where the entry lies
\* now, from there its length.
Skips(v) == {Access(e.off - v.off - v.len, e.len, e.len) : e \in Later(v)}
Stuck(v) ==
  {a \in Skips(v) : ~ InBounds(Advance(EntryCursor(v), a.from), a.asks)}

\* The entries when v has gone and those behind it have moved down.
Without(v) ==
  {e \in buffer.entries : e.off < v.off} \cup
  {[e EXCEPT !.off = @ - v.len] : e \in {d \in buffer.entries : d.off > v.off}}

\* bgDeleteFile: the inode is released in memory only; the entries are changed,
\* unchecked, in the bytes that both cursors share.  The cursor is left behind
\* the zero that takes the place of a last entry, or where the last of the
\* moved entries ends now.
Delete(v) ==
  /\ CanList /\ v \in Lying(data) /\ v.ino \in Inode
  /\ Stuck(v) = {}
  /\ \/ /\ Later(v) = {}
        /\ data' = Advance(EntryCursor(v), 4)
     \/ \E z \in Later(v) :
          /\ IsLast(z, Later(v))
          /\ data' = Skip(Advance(EntryCursor(v), z.off - v.off - v.len), z.len)
  /\ mode' = "mounted"
  /\ buffer' = [buffer EXCEPT !.entries = Without(v)]
  /\ bitmap' = bitmap \ {v.ino}
  /\ inodes' = [inodes EXCEPT ![v.ino] = 0]
  /\ UNCHANGED <<files, mounted, cur, walk, blocksRead, target, wanted, atSave>>

\* A moved entry's length leads past the image: the program exits with some of
\* the entries moved, in memory that is gone.
DeleteFatal(v) ==
  /\ CanList /\ v \in Lying(data) /\ v.ino \in Inode
  /\ FatalIn(Stuck(v), Address(EntryCursor(v)))

\* What ls would show of the directory, and whether it would come to an end.
DirCursor == Seek(data, OffsetBlock(inodes[DirIno]))
Shown == {e.ino : e \in Lying(DirCursor)}
CanShow ==
  CanSeek(data, OffsetBlock(inodes[DirIno])) /\ Refused(DirCursor) = {}

\* What of the image is in the file while the program runs: the file is never
\* closed, so the end of it stays in stdio's buffer.
Written(img) == [img EXCEPT !.size = @ - (@ % IoBuf)]

\* diskSave: the bytes are written from the start, and the cursor put back.
Save(f) ==
  /\ mode = "mounted"
  /\ IF CanSeek(cur, cur.pos)
       THEN /\ files' = [files EXCEPT ![f] = Written(buffer)]
            /\ cur' = Seek(cur, cur.pos)
            /\ atSave' = [atSave EXCEPT ![f] =
                            [entries |-> Shown, bitmap |-> bitmap]]
            /\ UNCHANGED <<mode, mounted, buffer, walk, data, blocksRead, bitmap,
                           inodes, target, wanted>>
       ELSE Fatal(cur.pos)

\* ext2Free.
Umount ==
  /\ mode = "mounted"
  /\ mode' = "unmounted"
  /\ mounted' = NoFile
  /\ UNCHANGED <<files, memory, walk, target, wanted, atSave>>

Next ==
  \/ \E f \in File : Mount(f) \/ Save(f)
  \/ WalkOn \/ WalkSeek \/ CheckMagic \/ BadMagic \/ FinishMount
  \/ \E i \in Inodes : SeekBlock(i)
  \/ ReadFile \/ ReadDir \/ ReadDirFatal \/ ReadNoDir
  \/ \E v \in buffer.entries : Delete(v) \/ DeleteFatal(v)
  \/ Umount

Spec == Init /\ [][Next]_vars

-----------------------------------------------------------------------------
Content == [entries : SUBSET Inodes, bitmap : SUBSET Inode]

TypeOK ==
  /\ files \in [File -> Img]
  /\ mode \in Modes
  /\ mounted \in File \cup {NoFile}
  /\ buffer \in Img
  /\ cur \in Cursor /\ data \in Cursor
  /\ walk \in Seq([op : {"skip", "copy", "seek", "magic"}, n : Nat])
  /\ blocksRead \in Nat
  /\ bitmap \subseteq Inode
  /\ inodes \in [Inodes -> Nat]
  /\ target \in Inodes
  /\ wanted \in Nat
  /\ atSave \in [File -> Content \cup {<<>>}]

\* Neither cursor stands past the last byte of the image, so that the seek
\* with which diskSave puts the main one back is never refused, and a seek of
\* the clone stays in the image: no matter what lengths the image names, and
\* with sums that wrap.
CursorsInside ==
  /\ mode \in {"mounting", "mounted", "reading"} =>
       cur.start = 0 /\ cur.size = buffer.size /\ cur.pos < cur.size
  /\ mode \in {"mounted", "reading"} =>
       Address(data) < buffer.size /\ data.start + data.size = buffer.size

\* An image whose inode table fills whole blocks, as mke2fs makes them, and
\* whose offsets in bytes fit 32 bits.
IsRegular(img) ==
  /\ img.it * img.bs + img.ipg * img.isize < U32
  /\ (img.ipg * img.isize) % img.bs = 0
  /\ img.isize >= 128
  /\ img.size < U32
  /\ \A i \in Inodes : img.table[i] * img.bs < U32

\* The clone reaches the block it is asked for: what bgOffsetBlock subtracts
\* in blocks is what the walk put behind the clone in bytes, and a block
\* before the clone is refused rather than misread.
ReachesBlock ==
  mode = "reading" /\ IsRegular(buffer) =>
    Address(data) = inodes[target] * buffer.bs

\* A saved file, mounted again, lists exactly what ls showed when it was
\* saved, or the listing ends the program: no deleted entry is there again,
\* moved entries are found where the clone now begins to look, and a
\* directory of which stdio kept the end back is never shown in part.
EntriesSurviveSave ==
  [][FinishMount /\ atSave[mounted] # <<>>
       /\ IsRegular(buffer) /\ buffer.size + IoBuf <= U32 /\ CanShow' =>
         Shown' = atSave[mounted].entries]_vars

\* Mounted again, the file has in use the inodes that were when it was saved.
InodesSurviveSave ==
  [][FinishMount /\ atSave[mounted] # <<>> =>
       bitmap' = atSave[mounted].bitmap]_vars

\* The program gives up only on an access past the end of the image.
OnlyPastEnd == mode = "fatal" => wanted > buffer.size

\* An image with incompatible features is not mounted.
RefusesIncompatible == mode \in {"mounted", "reading"} => ~ buffer.incompat
=============================================================================
