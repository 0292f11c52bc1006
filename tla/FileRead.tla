------------------------------ MODULE FileRead ------------------------------
(***************************************************************************)
(* cat: bgReadFile copies the blocks of a file into a buffer of the file's *)
(* size, and the shell prints the buffer.  One action is one block, the    *)
(* inner loop over its bytes included.  What was copied is kept as a       *)
(* sequence of runs: where in the image a run starts and how long it is.   *)
(***************************************************************************)
EXTENDS Integers, Sequences, Disk

CONSTANTS
  BlockSize,    \* 1024 << logBlockSize
  NDirect,      \* how many of Inode.block are blocks of the file: 12
  U32,          \* the span of uint32_t
  Base,         \* BlockGroup.blocksRead
  CloneSize,    \* the size of BlockGroup.data, which starts at block Base
  MallocLimit,  \* the most malloc gives
  Stray,        \* the words that lie behind Inode.block
  File, NoFile  \* the files, and none

\* A file: its length; the block that holds each part of it, 0 for a hole; the
\* blocks of pointers in the three cells behind the direct ones, 0 for none;
\* the 512-byte sectors it occupies, those of pointers and attributes too; and
\* whether the inode is that of a file, which after an rm it is not.
ASSUME FileAssumption ==
  NoFile \notin File /\ \A f \in File :
    /\ f \in [ size : Nat, data : Seq(Nat), indirect : [1 .. 3 -> Nat],
               sectors : Nat, isFile : BOOLEAN ]
    /\ f.size <= Len(f.data) * BlockSize
    /\ \A k \in DOMAIN f.data : (k - 1) * BlockSize < f.size

\* The clone starts at a block of an image of less than 2^32 bytes.
ASSUME ImageAssumption ==
  /\ BlockSize \in Nat \ {0} /\ BlockSize \div 512 # 0 /\ U32 \in Nat \ {0} /\ NDirect \in Nat
  /\ Base \in Nat \ {0} /\ CloneSize \in Nat
  /\ Base * BlockSize + CloneSize <= U32 /\ U32 <= SizeT
  /\ Stray \subseteq Nat
  /\ \A f \in File : \A k \in DOMAIN f.data :
       f.data[k] < Base \/ (f.data[k] - Base) * BlockSize < CloneSize

\* No malloc gives the 2^63 bytes that a length with its sign extended asks for.
ASSUME MallocAssumption == MallocLimit \in Nat /\ MallocLimit < U32 * (U32 - 1)

VARIABLES
  dynamic,    \* whether Superblock.revLevel is SB_REV_DYNAMIC
  pc,         \* what the program is at
  file,       \* the file cat was given
  size,       \* bgReadFile's size
  i,          \* the block to be read
  bytesRead,  \* bgReadFile's bytesRead
  runs,       \* what has been copied
  cursor,     \* BlockGroup.data
  shown       \* what the last cat printed: a file and its runs

vars == <<dynamic, pc, file, size, i, bytesRead, runs, cursor, shown>>

Printed == [file : File, runs : Seq([at : Nat, n : Nat])]

-----------------------------------------------------------------------------
\* bgGetInodeSize: size_lo is an int32_t, whose sign goes into the upper half.
SizeSigned(f) ==
  IF 2 * (f.size % U32) >= U32 THEN (f.size % U32) - U32 ELSE f.size
InodeSize(f) ==
  LET lo == f.size % U32
      hi == f.size \div U32
  IN  IF 2 * lo >= U32 THEN U32 * (U32 - 1) + lo
      ELSE IF dynamic THEN U32 * hi + lo ELSE lo

\* Blocks to be read: sectors, in those of a block.
MaxBlockOfSize(f) == f.size \div BlockSize
MaxBlock(f) == f.sectors \div (BlockSize \div 512)

\* What Inode.block[j] holds; past its 15 cells, anything.
Pointer(f, j) ==
  IF j < NDirect
    THEN IF j < Len(f.data) THEN {f.data[j + 1]} ELSE {0}
    ELSE IF j < NDirect + 3 THEN {f.indirect[j - NDirect + 1]} ELSE Stray

\* bgOffsetBlock.
OffsetNoWrap(b) == IF b < Base THEN 0 ELSE (b - Base) * BlockSize
Offset(b) == (((U32 + b - Base) % U32) * BlockSize) % U32

\* The inner loop ends with the block or, once a byte was copied, with size.
PortionWhole == BlockSize
Portion ==
  IF bytesRead + BlockSize <= size THEN BlockSize
  ELSE IF bytesRead < size THEN size - bytesRead ELSE 1

HasBuffer == size <= MallocLimit

-----------------------------------------------------------------------------
Init ==
  /\ dynamic \in BOOLEAN
  /\ pc = "idle"
  /\ file = NoFile /\ shown = NoFile
  /\ size = 0 /\ i = 0 /\ bytesRead = 0 /\ runs = <<>>
  /\ cursor \in [start : {Base * BlockSize}, pos : {0}, size : {CloneSize}]

\* bgReadFile up to its loop.
StartRead(f) ==
  /\ pc = "idle"
  /\ f.isFile
  /\ pc' = "reading"
  /\ file' = f
  /\ size' = InodeSize(f)
  /\ i' = 0 /\ bytesRead' = 0 /\ runs' = <<>>
  /\ UNCHANGED <<dynamic, cursor, shown>>

\* bgReadFile fails, which cat does not look at: it prints from an FP nobody
\* set, and frees what that points to.
CatNoFile(f) ==
  /\ pc = "idle"
  /\ ~ f.isFile
  /\ file' = f
  /\ \/ pc' = "crashed" /\ UNCHANGED shown
     \/ pc' = "idle" /\ shown' = [file |-> f, runs |-> <<>>]
  /\ UNCHANGED <<dynamic, size, i, bytesRead, runs, cursor>>

\* A block is copied.  Bytes past the buffer, if there are any, do no harm.
CopyBlock(b) ==
  /\ HasBuffer
  /\ CanSeek(cursor, Offset(b))
  /\ LET c == Seek(cursor, Offset(b))
     IN  /\ CanRead(c, Portion)
         /\ cursor' = Advance(c, Portion)
         /\ runs' = IF bytesRead < size
                      THEN Append(runs, [at |-> Address(c), n |-> Portion])
                      ELSE runs
  /\ bytesRead' = bytesRead + Portion
  /\ i' = i + 1
  /\ UNCHANGED <<dynamic, pc, file, size, shown>>

\* FATAL, in diskSeek or in diskRead8.
Fatal(b) ==
  /\ CanSeek(cursor, Offset(b)) =>
       ~ CanRead(Seek(cursor, Offset(b)), IF HasBuffer THEN Portion ELSE 1)
  /\ pc' = "fatal"
  /\ UNCHANGED <<dynamic, file, size, i, bytesRead, runs, cursor, shown>>

\* A byte is written where there is no buffer, or past its end with harm.
Corrupt(b) ==
  /\ CanSeek(cursor, Offset(b))
  /\ CanRead(Seek(cursor, Offset(b)), IF HasBuffer THEN Portion ELSE 1)
  /\ HasBuffer => bytesRead + Portion > size
  /\ pc' = "crashed"
  /\ UNCHANGED <<dynamic, file, size, i, bytesRead, runs, cursor, shown>>

\* An iteration of the loop over blocks.
ReadBlock ==
  /\ pc = "reading"
  /\ i < MaxBlock(file)
  /\ \E b \in Pointer(file, i) : CopyBlock(b) \/ Fatal(b) \/ Corrupt(b)

\* The buffer is printed and freed; with none, cat reads from a null pointer.
PrintBuffer ==
  /\ pc = "reading"
  /\ i >= MaxBlock(file)
  /\ IF HasBuffer
       THEN pc' = "idle" /\ shown' = [file |-> file, runs |-> runs]
       ELSE pc' = "crashed" /\ UNCHANGED shown
  /\ UNCHANGED <<dynamic, file, size, i, bytesRead, runs, cursor>>

Next ==
  \/ \E f \in File : StartRead(f) \/ CatNoFile(f)
  \/ ReadBlock
  \/ PrintBuffer

Spec == Init /\ [][Next]_vars

-----------------------------------------------------------------------------
TypeOK ==
  /\ dynamic \in BOOLEAN
  /\ pc \in {"idle", "reading", "fatal", "crashed"}
  /\ file \in File \cup {NoFile}
  /\ size \in Nat /\ i \in Nat /\ bytesRead \in Nat
  /\ runs \in Seq([at : Nat, n : Nat])
  /\ cursor \in Cursor
  /\ shown \in Printed \cup {NoFile}
  /\ pc = "reading" => file # NoFile

\* What a file holds, in runs: where each part of it starts, which for a hole
\* is nowhere in the image, and how long it is.
Content(f) ==
  [k \in DOMAIN f.data |->
     LET rest == f.size - (k - 1) * BlockSize
     IN  [at |-> IF f.data[k] = 0 THEN -1 ELSE f.data[k] * BlockSize,
          n  |-> IF rest < BlockSize THEN rest ELSE BlockSize]]

\* A file without holes whose blocks lie in the image, not at its very end.
IsStored(f) ==
  /\ f.isFile
  /\ 2 * f.size < U32 /\ f.size <= MallocLimit
  /\ \A k \in DOMAIN f.data :
       f.data[k] >= Base /\ (f.data[k] - Base + 1) * BlockSize + 8 <= CloneSize

\* One that occupies nothing else, each of its blocks named in the inode.
IsPlain(f) ==
  /\ IsStored(f)
  /\ Len(f.data) <= NDirect
  /\ f.sectors = Len(f.data) * (BlockSize \div 512)

\* A plain file is printed as it is, neither short nor from another block,
\* whichever files were printed before: the loop ends with the last block, and
\* the last block with the last byte.
ReadsWhole ==
  shown # NoFile =>
    (IsPlain(shown.file) => shown.runs = Content(shown.file))

\* cat of a plain file neither writes past its buffer nor ends the session.
PlainIsShown == pc \in {"fatal", "crashed"} => ~ IsPlain(file)

\* Of any file, with holes, with blocks of pointers, of any length, what the
\* direct cells name is copied to its place or the session ends: the bytes of
\* a hole are never taken from some other block of the image.
NeverMisread ==
  pc = "reading" /\ (dynamic \/ file.size < U32) =>
    \A k \in DOMAIN runs : k <= NDirect /\ k <= Len(file.data) =>
      runs[k] = Content(file)[k]

\* cat displays a file.
DisplaysContents == pc \in {"fatal", "crashed"} => ~ IsStored(file)
=============================================================================
