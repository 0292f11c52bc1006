--------------------------- MODULE FileReadProofs ---------------------------
(***************************************************************************)
(* Proofs about FileRead: what cat shows of a plain file, that it shows    *)
(* it, and that it never takes a block for another.                        *)
(***************************************************************************)
EXTENDS FileRead, Arithmetic, TLAPS

\* The smaller of two numbers.
Least(a, b) == IF a < b THEN a ELSE b

\* A length that bgGetInodeSize can tell.
IsTold(f) == dynamic \/ f.size < U32

CursorFixed == cursor.start = Base * BlockSize /\ cursor.size = CloneSize

\* How far the loop is, in its three variables: before the end of the file
\* bytesRead is i blocks, and i runs have been copied, each from its place.
Counted(f) ==
  /\ bytesRead = Least(i * BlockSize, f.size) \/ i > Len(f.data)
  /\ i > Len(f.data) => bytesRead >= f.size

Copied(f) ==
  /\ Len(runs) = Least(i, Len(f.data))
  /\ \A k \in DOMAIN runs : k <= NDirect => runs[k] = Content(f)[k]

Progress ==
  pc = "reading" =>
    /\ file \in File /\ file.isFile
    /\ size = InodeSize(file)
    /\ ~ HasBuffer => runs = <<>>
    /\ HasBuffer /\ IsTold(file) => Counted(file) /\ Copied(file)

IInv == TypeOK /\ CursorFixed /\ Progress /\ PlainIsShown /\ ReadsWhole

-----------------------------------------------------------------------------
(* Arithmetic.                                                             *)

\* Products with BlockSize, which the provers do not expand on their own.
LEMMA BlockProducts ==
  ASSUME NEW a \in Nat
  PROVE  /\ a * BlockSize \in Nat
         /\ (a + 1) * BlockSize = a * BlockSize + BlockSize
         /\ a <= a * BlockSize
         /\ \A b \in Nat : a <= b => a * BlockSize <= b * BlockSize
  BY ImageAssumption

\* bgOffsetBlock: the offset of a block of the clone is where it is.
LEMMA OffsetInside ==
  ASSUME NEW b \in Nat, b >= Base, (b - Base) * BlockSize < CloneSize
  PROVE  Offset(b) = (b - Base) * BlockSize
  <1> DEFINE d == b - Base
  <1>1. /\ d \in Nat /\ Base \in Nat /\ U32 \in Nat \ {0} /\ CloneSize \in Nat
        /\ U32 + b - Base = 1 * U32 + d
    BY ImageAssumption
  <1>2. d * BlockSize \in Nat /\ d <= d * BlockSize
    BY <1>1, BlockProducts
  <1>3. d * BlockSize < U32
    BY <1>2, <1>1, ImageAssumption, BlockProducts
  <1>4. (1 * U32 + d) % U32 = d
    BY <1>1, <1>2, <1>3, ModIs
  <1>5. (0 * U32 + d * BlockSize) % U32 = d * BlockSize
    BY <1>1, <1>2, <1>3, ModIs
  <1> QED
    BY <1>1, <1>2, <1>4, <1>5 DEF Offset

\* Of a block before the clone, and of block 0, it is past the clone's end.
LEMMA OffsetOutside ==
  ASSUME NEW b \in Nat, b < Base
  PROVE  Offset(b) >= CloneSize /\ Offset(b) < U32
  <1> DEFINE e == Base - b
             r == U32 - e * BlockSize
  <1>1. /\ e \in Nat /\ e > 0 /\ e <= Base
        /\ Base \in Nat /\ U32 \in Nat \ {0} /\ CloneSize \in Nat
        /\ BlockSize \in Nat \ {0}
        /\ U32 + b - Base = U32 - e
    BY ImageAssumption
  <1>2. /\ e * BlockSize \in Nat /\ e <= e * BlockSize
        /\ e * BlockSize <= Base * BlockSize /\ Base * BlockSize \in Nat
    BY <1>1, BlockProducts
  <1>3. /\ r \in Nat /\ r < U32 /\ r >= CloneSize
        /\ U32 - e \in Nat /\ U32 - e < U32
    BY <1>1, <1>2, ImageAssumption
  <1>4. (0 * U32 + (U32 - e)) % U32 = U32 - e
    BY <1>1, <1>3, ModIs
  <1>5. (U32 - e) * BlockSize = (BlockSize - 1) * U32 + r
    BY <1>1
  <1>6. ((BlockSize - 1) * U32 + r) % U32 = r
    BY <1>1, <1>3, ModIs
  <1>7. (U32 + b - Base) % U32 = U32 - e
    BY <1>1, <1>3, <1>4
  <1>8. Offset(b) = r
    BY <1>5, <1>6, <1>7 DEF Offset
  <1> QED
    BY <1>3, <1>8

\* The clone's cursor, sought to an offset of 32 bits.
LEMMA SeekTo ==
  ASSUME TypeOK, CursorFixed, NEW o \in Nat, o < U32
  PROVE  /\ CanSeek(cursor, o) <=> o < CloneSize
         /\ Seek(cursor, o) = [cursor EXCEPT !.pos = o]
         /\ Seek(cursor, o) \in Cursor
         /\ Seek(cursor, o).pos = o
         /\ Seek(cursor, o).start = Base * BlockSize
         /\ Seek(cursor, o).size = CloneSize
  <1>1. o \in 0 .. SizeT - 1 /\ o % SizeT = o
    BY SizeTAssumption, ImageAssumption
  <1>2. cursor \in Cursor
    BY DEF TypeOK
  <1>3. SeekStart(cursor).pos = 0 /\ SeekStart(cursor).size = CloneSize
    BY <1>2 DEF SeekStart, Cursor, CursorFixed
  <1>4. (0 + o) % SizeT = o
    BY <1>1
  <1>5. CanSeek(cursor, o) <=> o < CloneSize
    BY <1>3, <1>4 DEF CanSeek, InBounds
  <1>6. Seek(cursor, o) = [SeekStart(cursor) EXCEPT !.pos = o]
    BY <1>3, <1>4 DEF Seek, Skip
  <1>7. Seek(cursor, o) = [cursor EXCEPT !.pos = o]
    BY <1>2, <1>6 DEF SeekStart, Cursor
  <1> QED
    BY <1>1, <1>2, <1>5, <1>7 DEF CursorFixed, Cursor

\* An offset is a number of 32 bits.
LEMMA OffsetType ==
  ASSUME NEW b \in Nat
  PROVE  Offset(b) \in Nat /\ Offset(b) < U32
  <1>1. U32 \in Nat \ {0} /\ U32 + b - Base \in Int /\ BlockSize \in Nat
    BY ImageAssumption
  <1>2. (U32 + b - Base) % U32 \in Nat
    BY <1>1
  <1>3. ((U32 + b - Base) % U32) * BlockSize \in Nat
    BY <1>1, <1>2
  <1> QED
    BY <1>1, <1>3 DEF Offset

\* What a file has, each with its type.
LEMMA FileFacts ==
  ASSUME NEW f \in File
  PROVE  /\ f.size \in Nat /\ f.data \in Seq(Nat) /\ Len(f.data) \in Nat
         /\ DOMAIN f.data = 1 .. Len(f.data)
         /\ f.sectors \in Nat /\ f.indirect \in [1 .. 3 -> Nat]
         /\ f.size <= Len(f.data) * BlockSize
         /\ \A j \in Nat : j < Len(f.data) =>
              j + 1 \in DOMAIN f.data /\ f.data[j + 1] \in Nat
              /\ j * BlockSize < f.size
  <1>1. /\ f \in [ size : Nat, data : Seq(Nat), indirect : [1 .. 3 -> Nat],
                   sectors : Nat, isFile : BOOLEAN ]
        /\ f.size <= Len(f.data) * BlockSize
        /\ \A k \in DOMAIN f.data : (k - 1) * BlockSize < f.size
    BY FileAssumption
  <1>2. /\ f.size \in Nat /\ f.data \in Seq(Nat) /\ Len(f.data) \in Nat
        /\ f.sectors \in Nat /\ f.indirect \in [1 .. 3 -> Nat]
        /\ DOMAIN f.data = 1 .. Len(f.data)
    BY <1>1
  <1>3. ASSUME NEW j \in Nat, j < Len(f.data)
        PROVE  j + 1 \in DOMAIN f.data /\ f.data[j + 1] \in Nat
               /\ j * BlockSize < f.size
    <2>1. j + 1 \in DOMAIN f.data /\ (j + 1) - 1 = j
      BY <1>2, <1>3
    <2>2. ((j + 1) - 1) * BlockSize < f.size
      BY <1>1, <2>1
    <2> QED
      BY SMTT(20), <1>2, <2>1, <2>2
  <1> QED
    BY <1>1, <1>2, <1>3

\* bgGetInodeSize: a length malloc can give is the file's.
LEMMA SizeTold ==
  ASSUME NEW f \in File, dynamic \in BOOLEAN
  PROVE  /\ InodeSize(f) \in Nat
         /\ IsTold(f) /\ InodeSize(f) <= MallocLimit => InodeSize(f) = f.size
         /\ 2 * f.size < U32 => InodeSize(f) = f.size /\ IsTold(f)
  <1> DEFINE lo == f.size % U32
             hi == f.size \div U32
  <1>1. f.size \in Nat /\ U32 \in Nat \ {0} /\ MallocLimit \in Nat
        /\ MallocLimit < U32 * (U32 - 1)
    BY FileFacts, ImageAssumption, MallocAssumption
  <1>2. lo \in Nat /\ lo < U32 /\ hi \in Nat /\ f.size = U32 * hi + lo
    BY <1>1
  <1>3. U32 * (U32 - 1) \in Nat /\ U32 * hi \in Nat
    BY <1>1, <1>2
  <1>4. f.size < U32 => lo = f.size
    BY <1>1
  <1>5. InodeSize(f) = IF 2 * lo >= U32 THEN U32 * (U32 - 1) + lo
                       ELSE IF dynamic THEN U32 * hi + lo ELSE lo
    BY DEF InodeSize
  <1> HIDE DEF lo, hi
  <1>6. InodeSize(f) \in Nat
    BY <1>1, <1>2, <1>3, <1>5
  <1>7. ASSUME IsTold(f), InodeSize(f) <= MallocLimit PROVE InodeSize(f) = f.size
    BY <1>7, <1>1, <1>2, <1>3, <1>4, <1>5 DEF IsTold
  <1>8. ASSUME 2 * f.size < U32 PROVE InodeSize(f) = f.size /\ IsTold(f)
    BY <1>8, <1>1, <1>2, <1>3, <1>4, <1>5 DEF IsTold
  <1> QED
    BY <1>6, <1>7, <1>8

\* What a cell of an inode can name is a number.
LEMMA PointerType ==
  ASSUME NEW f \in File, NEW j \in Nat, NEW b \in Pointer(f, j)
  PROVE  b \in Nat
  <1>1. CASE j < NDirect
    BY <1>1, FileFacts DEF Pointer
  <1>2. CASE j >= NDirect
    <2>1. j - NDirect + 1 \in Nat /\ j - NDirect + 1 >= 1 /\ NDirect \in Nat
      BY <1>2, ImageAssumption
    <2>2. CASE j < NDirect + 3
      <3>1. j - NDirect + 1 \in 1 .. 3
        BY <2>1, <2>2
      <3>2. b = f.indirect[j - NDirect + 1]
        BY <1>2, <2>1, <2>2 DEF Pointer
      <3> QED
        BY <3>1, <3>2, FileFacts
    <2>3. CASE ~ (j < NDirect + 3)
      <3>1. b \in Stray
        BY <1>2, <2>1, <2>3 DEF Pointer
      <3> QED
        BY <3>1, ImageAssumption
    <2> QED
      BY <2>2, <2>3
  <1> QED
    BY <1>1, <1>2, ImageAssumption

\* At least one byte is copied of each block.
LEMMA PortionType ==
  ASSUME TypeOK
  PROVE  Portion \in Nat /\ Portion >= 1
  BY ImageAssumption DEF TypeOK, Portion

\* While the file lasts, the loop stands at a block's start, and what it copies
\* next is what is left of the file in that block.
LEMMA PortionInFile ==
  ASSUME TypeOK, NEW f \in File, size = f.size, Counted(f), i < Len(f.data)
  PROVE  /\ bytesRead = i * BlockSize /\ bytesRead < size
         /\ Portion = Content(f)[i + 1].n
         /\ bytesRead + Portion = Least((i + 1) * BlockSize, f.size)
  <1>1. /\ i \in Nat /\ f.size \in Nat /\ Len(f.data) \in Nat
        /\ BlockSize \in Nat \ {0}
        /\ i + 1 \in DOMAIN f.data /\ i * BlockSize < f.size
    BY FileFacts, ImageAssumption DEF TypeOK
  <1>2. /\ i * BlockSize \in Nat
        /\ (i + 1) * BlockSize = i * BlockSize + BlockSize
    BY <1>1, BlockProducts
  <1>3. bytesRead = i * BlockSize
    BY <1>1, <1>2 DEF Counted, Least
  <1>4. (i + 1) - 1 = i
    BY <1>1
  <1>5. Content(f)[i + 1].n = LET rest == f.size - i * BlockSize
                             IN  IF rest < BlockSize THEN rest ELSE BlockSize
    BY <1>1, <1>4 DEF Content
  <1> DEFINE x == i * BlockSize
             y == (i + 1) * BlockSize
  <1>6. /\ x \in Nat /\ y = x + BlockSize /\ bytesRead = x /\ x < f.size
        /\ Content(f)[i + 1].n = IF f.size - x < BlockSize THEN f.size - x
                                                         ELSE BlockSize
    BY <1>1, <1>2, <1>3, <1>5
  <1> HIDE DEF x, y
  <1>7. /\ bytesRead < size
        /\ Portion = Content(f)[i + 1].n
        /\ bytesRead + Portion = Least(y, f.size)
    <2> DEFINE part == Content(f)[i + 1].n
    <2>1. /\ x \in Nat /\ y = x + BlockSize /\ bytesRead = x /\ x < f.size
          /\ part = IF f.size - x < BlockSize THEN f.size - x ELSE BlockSize
          /\ BlockSize \in Nat /\ f.size \in Nat /\ size = f.size
      BY <1>6, <1>1
    <2>2. Portion = IF x + BlockSize <= size THEN BlockSize
                    ELSE IF x < size THEN size - x ELSE 1
      BY ONLY <2>1 DEF Portion
    <2> HIDE DEF part
    <2>3. CASE f.size - x < BlockSize
      BY ONLY <2>1, <2>2, <2>3 DEF Least, part
    <2>4. CASE ~ (f.size - x < BlockSize)
      BY ONLY <2>1, <2>2, <2>4 DEF Least, part
    <2> QED
      BY <2>3, <2>4
  <1> QED
    BY <1>3, <1>7 DEF y

\* Behind the file nothing more is kept.
LEMMA PastFile ==
  ASSUME TypeOK, NEW f \in File, Counted(f), i >= Len(f.data)
  PROVE  bytesRead >= f.size
  <1>1. /\ i \in Nat /\ f.size \in Nat /\ Len(f.data) \in Nat
        /\ f.size <= Len(f.data) * BlockSize /\ bytesRead \in Nat
    BY FileFacts DEF TypeOK
  <1>2. CASE i = Len(f.data)
    <2>1. i * BlockSize \in Nat /\ f.size <= i * BlockSize
      BY <1>1, <1>2, BlockProducts
    <2> QED
      BY <1>1, <1>2, <2>1 DEF Counted, Least
  <1>3. CASE i > Len(f.data)
    BY <1>3 DEF Counted
  <1> QED
    BY <1>1, <1>2, <1>3

\* What a direct cell names is found where it is, or not at all.
LEMMA DirectBlock ==
  ASSUME TypeOK, CursorFixed, NEW f \in File, i < Len(f.data), i < NDirect,
         NEW b \in Pointer(f, i), CanSeek(cursor, Offset(b))
  PROVE  Address(Seek(cursor, Offset(b))) = Content(f)[i + 1].at
  <1>1. i \in Nat /\ i + 1 \in DOMAIN f.data /\ b = f.data[i + 1] /\ b \in Nat
    BY FileFacts DEF TypeOK, Pointer
  <1>2. Offset(b) \in Nat /\ Offset(b) < U32 /\ CloneSize \in Nat
        /\ Base \in Nat \ {0} /\ BlockSize \in Nat
    BY <1>1, OffsetType, ImageAssumption
  <1>3. Offset(b) < CloneSize
    BY <1>2, SeekTo
  <1>4. b >= Base
    BY <1>1, <1>2, <1>3, OffsetOutside
  <1>5. (b - Base) * BlockSize < CloneSize
    BY <1>1, <1>2, <1>4, ImageAssumption
  <1>6. Offset(b) = (b - Base) * BlockSize
    BY <1>1, <1>4, <1>5, OffsetInside
  <1>7. Address(Seek(cursor, Offset(b))) = Base * BlockSize + Offset(b)
    BY <1>2, SeekTo DEF Address
  <1>8. Base * BlockSize + (b - Base) * BlockSize = b * BlockSize
    BY <1>1, <1>2
  <1>9. Content(f)[i + 1].at = b * BlockSize
    BY <1>1, <1>2, <1>4 DEF Content
  <1> QED
    BY <1>6, <1>7, <1>8, <1>9

-----------------------------------------------------------------------------
(* The loop.                                                               *)

\* Copying a block of a file that is told counts on and copies on.
LEMMA CopyProgress ==
  ASSUME TypeOK, CursorFixed, NEW f \in File, size = f.size,
         Counted(f), Copied(f), NEW b \in Pointer(f, i), CopyBlock(b)
  PROVE  Counted(f)' /\ Copied(f)'
  <1> DEFINE L == Len(f.data)
             run == [at |-> Address(Seek(cursor, Offset(b))), n |-> Portion]
  <1>1. /\ i \in Nat /\ i' = i + 1 /\ L \in Nat /\ f.size \in Nat
        /\ bytesRead \in Nat /\ bytesRead' = bytesRead + Portion
        /\ Portion \in Nat /\ Portion >= 1
        /\ runs \in Seq([at : Nat, n : Nat])
        /\ runs' = IF bytesRead < size THEN Append(runs, run) ELSE runs
        /\ CanSeek(cursor, Offset(b))
        /\ NDirect \in Nat
    BY FileFacts, PortionType, ImageAssumption DEF CopyBlock, TypeOK
  <1>2. CASE i < L
    <2>1. /\ bytesRead < size /\ Portion = Content(f)[i + 1].n
          /\ bytesRead + Portion = Least((i + 1) * BlockSize, f.size)
      BY <1>2, PortionInFile
    <2>2. Counted(f)'
      <3>1. bytesRead' = Least(i' * BlockSize, f.size)
        BY <1>1, <2>1
      <3>2. ~ (i' > L)
        BY <1>1, <1>2
      <3> QED
        BY <3>1, <3>2 DEF Counted
    <2>3. Len(runs) = i /\ runs' = Append(runs, run) /\ Len(runs') = i + 1
      BY <1>1, <1>2, <2>1 DEF Copied, Least
    <2>4. ASSUME i < NDirect PROVE run = Content(f)[i + 1]
      <3>1. run.at = Content(f)[i + 1].at
        BY <1>1, <1>2, <2>4, DirectBlock
      <3>2. i + 1 \in DOMAIN f.data
        BY <1>1, <1>2, FileFacts
      <3> QED
        BY <3>1, <3>2, <2>1 DEF Content
    <2>5. ASSUME NEW k \in DOMAIN runs', k <= NDirect
          PROVE  runs'[k] = Content(f)[k]
      <3>1. k \in 1 .. i + 1
        BY <1>1, <2>3, <2>5
      <3>2. CASE k = i + 1
        <4>1. runs'[k] = run
          BY <1>1, <2>3, <3>2
        <4> QED
          BY <4>1, <3>2, <2>4, <2>5, <1>1
      <3>3. CASE k \in 1 .. i
        <4>1. runs'[k] = runs[k] /\ k \in DOMAIN runs
          BY <1>1, <2>3, <3>3
        <4> QED
          BY <4>1, <2>5 DEF Copied
      <3> QED
        BY <3>1, <3>2, <3>3, <1>1
    <2>6. Len(runs') = Least(i', L)
      BY <1>1, <1>2, <2>3 DEF Least
    <2> QED
      BY <2>2, <2>5, <2>6 DEF Copied
  <1>3. CASE i >= L
    <2>1. bytesRead >= f.size
      BY <1>3, PastFile
    <2>2. Counted(f)'
      BY <1>1, <1>3, <2>1 DEF Counted
    <2>3. runs' = runs
      BY <1>1, <2>1
    <2>4. Len(runs') = Least(i', L)
      BY <1>1, <1>3, <2>3 DEF Copied, Least
    <2> QED
      BY <2>2, <2>3, <2>4 DEF Copied
  <1> QED
    BY <1>1, <1>2, <1>3

\* A plain file's next block can be read, and fits the buffer.
LEMMA PlainFits ==
  ASSUME TypeOK, CursorFixed, NEW f \in File, size = f.size, Counted(f),
         IsPlain(f), i < MaxBlock(f), NEW b \in Pointer(f, i)
  PROVE  /\ CanSeek(cursor, Offset(b))
         /\ CanRead(Seek(cursor, Offset(b)), Portion)
         /\ bytesRead + Portion <= size
  <1>1. /\ i \in Nat /\ Len(f.data) \in Nat /\ f.size \in Nat /\ NDirect \in Nat
        /\ BlockSize \in Nat \ {0} /\ Base \in Nat /\ U32 \in Nat
        /\ CloneSize \in Nat /\ CloneSize <= U32
    <2>1. Base * BlockSize \in Nat
      BY BlockProducts, ImageAssumption
    <2>2. i \in Nat /\ Len(f.data) \in Nat /\ f.size \in Nat
      BY FileFacts DEF TypeOK
    <2> QED
      BY <2>1, <2>2, ImageAssumption
  <1>2. MaxBlock(f) = Len(f.data)
    <2> DEFINE s == BlockSize \div 512
    <2>1. s \in Nat \ {0}
      BY ImageAssumption
    <2>2. MaxBlock(f) = (Len(f.data) * s) \div s
      BY DEF IsPlain, MaxBlock
    <2> HIDE DEF s
    <2> QED
      BY <2>1, <2>2, <1>1, DivIs
  <1>3. /\ i < Len(f.data) /\ i < NDirect
    BY <1>1, <1>2 DEF IsPlain
  <1>4. /\ i + 1 \in DOMAIN f.data /\ b = f.data[i + 1] /\ b \in Nat
    BY <1>1, <1>3, FileFacts DEF Pointer
  <1>5. b >= Base /\ (b - Base + 1) * BlockSize + 8 <= CloneSize
    BY <1>4 DEF IsPlain, IsStored
  <1> DEFINE o == (b - Base) * BlockSize
  <1>6. o \in Nat /\ o + BlockSize + 8 <= CloneSize
    <2>1. b - Base \in Nat
      BY SMTT(20), <1>1, <1>4, <1>5
    <2>2. o \in Nat /\ (b - Base + 1) * BlockSize = o + BlockSize
      BY <2>1, BlockProducts
    <2> HIDE DEF o
    <2> QED
      BY <2>2, <1>5, <1>1
  <1>7. Offset(b) = o
    BY SMTT(20), <1>1, <1>4, <1>5, <1>6, OffsetInside
  <1>8. Portion <= BlockSize /\ Portion \in Nat /\ bytesRead + Portion <= size
    <2>1. /\ Portion = Content(f)[i + 1].n
          /\ bytesRead + Portion = Least((i + 1) * BlockSize, f.size)
      BY <1>3, PortionInFile
    <2>2. (i + 1) * BlockSize \in Nat
      BY <1>1
    <2>3. Portion \in Nat /\ Portion <= BlockSize
      BY <1>1, <1>4, <2>1, PortionType DEF Content
    <2> QED
      BY <1>1, <2>1, <2>2, <2>3 DEF Least
  <1> HIDE DEF o
  <1>9. o < U32 /\ o < CloneSize
    BY <1>1, <1>6
  <1>10. CanSeek(cursor, o) /\ Seek(cursor, o).pos = o
         /\ Seek(cursor, o).size = CloneSize
    BY <1>6, <1>9, SeekTo
  <1>11. CanRead(Seek(cursor, o), Portion)
    BY <1>1, <1>6, <1>8, <1>10 DEF CanRead
  <1> QED
    BY <1>7, <1>8, <1>10, <1>11

-----------------------------------------------------------------------------
(* The actions.                                                            *)

\* No file has been read yet.
LEMMA InitIInv == ASSUME Init PROVE IInv
  <1>1. cursor \in Cursor /\ CursorFixed
    <2>1. /\ Base * BlockSize \in Nat /\ CloneSize \in 0 .. SizeT - 1
          /\ 0 \in 0 .. SizeT - 1
      <3>1. Base \in Nat \ {0} /\ BlockSize \in Nat \ {0} /\ CloneSize \in Nat
            /\ Base * BlockSize + CloneSize <= SizeT
        BY ImageAssumption, SizeTAssumption
      <3>2. Base * BlockSize \in Nat /\ Base * BlockSize >= 1
        BY <3>1, BlockProducts
      <3> QED
        BY <3>1, <3>2, SizeTAssumption
    <2> QED
      BY <2>1 DEF Init, Cursor, CursorFixed
  <1> QED
    BY <1>1, FileAssumption
       DEF Init, IInv, TypeOK, Progress, PlainIsShown, ReadsWhole

\* The loop starts at the first block with nothing copied.
LEMMA StartReadIInv ==
  ASSUME IInv, NEW f \in File, StartRead(f) PROVE IInv'
  <1>1. /\ pc' = "reading" /\ file' = f /\ f.isFile /\ size' = InodeSize(f)
        /\ i' = 0 /\ bytesRead' = 0 /\ runs' = <<>>
        /\ UNCHANGED <<dynamic, cursor, shown>>
    BY DEF StartRead
  <1>2. TypeOK'
    BY <1>1, SizeTold, FileAssumption DEF IInv, TypeOK
  <1>3. Progress'
    <2>1. /\ Len(f.data) \in Nat /\ f.size \in Nat /\ 0 * BlockSize = 0
      BY FileFacts, ImageAssumption
    <2>2. Counted(f)'
      BY <1>1, <2>1 DEF Counted, Least
    <2>3. Copied(f)'
      BY <1>1, <2>1 DEF Copied, Least
    <2>4. size' = InodeSize(f)'
      BY <1>1 DEF InodeSize
    <2> QED
      BY <1>1, <2>2, <2>3, <2>4 DEF Progress, Counted, Copied, Content
  <1>4. CursorFixed' /\ PlainIsShown' /\ ReadsWhole'
    BY <1>1 DEF IInv, CursorFixed, PlainIsShown, ReadsWhole
  <1> QED
    BY <1>2, <1>3, <1>4 DEF IInv

\* An inode that is no file is not read.
LEMMA CatNoFileIInv ==
  ASSUME IInv, NEW f \in File, CatNoFile(f) PROVE IInv'
  <1>1. /\ file' = f /\ ~ f.isFile /\ ~ IsPlain(f) /\ pc' \in {"crashed", "idle"}
        /\ UNCHANGED <<dynamic, size, i, bytesRead, runs, cursor>>
        /\ shown' = shown \/ shown' = [file |-> f, runs |-> <<>>]
    BY DEF CatNoFile, IsPlain, IsStored
  <1>2. TypeOK'
    <2>1. shown' \in Printed \cup {NoFile}
      <3>1. [file |-> f, runs |-> <<>>] \in Printed
        BY DEF Printed
      <3>2. shown \in Printed \cup {NoFile}
        BY DEF IInv, TypeOK
      <3> QED
        BY <1>1, <3>1, <3>2
    <2> QED
      BY <1>1, <2>1 DEF IInv, TypeOK
  <1>3. ReadsWhole'
    BY <1>1 DEF IInv, ReadsWhole
  <1>4. CursorFixed' /\ PlainIsShown' /\ Progress'
    BY <1>1 DEF IInv, CursorFixed, PlainIsShown, Progress
  <1> QED
    BY <1>2, <1>3, <1>4 DEF IInv

\* One more block is copied, from its place if it is a direct one.
LEMMA CopyBlockIInv ==
  ASSUME IInv, pc = "reading", NEW b \in Pointer(file, i), CopyBlock(b)
  PROVE  IInv'
  <1> DEFINE c == Seek(cursor, Offset(b))
             run == [at |-> Address(c), n |-> Portion]
  <1>1. /\ HasBuffer /\ CanSeek(cursor, Offset(b)) /\ CanRead(c, Portion)
        /\ cursor' = Advance(c, Portion)
        /\ runs' = IF bytesRead < size THEN Append(runs, run) ELSE runs
        /\ bytesRead' = bytesRead + Portion /\ i' = i + 1
        /\ UNCHANGED <<dynamic, pc, file, size, shown>>
    BY DEF CopyBlock
  <1>2. /\ TypeOK /\ CursorFixed /\ file \in File /\ file.isFile
        /\ size = InodeSize(file)
        /\ IsTold(file) => Counted(file) /\ Copied(file)
    BY <1>1 DEF IInv, Progress
  <1>3. /\ Offset(b) \in Nat /\ Offset(b) < U32 /\ Portion \in Nat /\ Portion >= 1
    BY <1>2, PointerType, OffsetType, PortionType DEF TypeOK
  <1>4. /\ c \in Cursor /\ c.start = Base * BlockSize /\ c.size = CloneSize
        /\ c.pos = Offset(b) /\ CloneSize \in Nat /\ Base * BlockSize \in Nat
        /\ CloneSize <= SizeT
    <2>1. Base * BlockSize \in Nat /\ CloneSize \in Nat /\ CloneSize <= SizeT
      BY ImageAssumption, SizeTAssumption, BlockProducts
    <2> QED
      BY <1>2, <1>3, <2>1, SeekTo
  <1>5. cursor' \in Cursor /\ CursorFixed'
    <2> HIDE DEF c
    <2>1. c.pos + (Portion - 1) + 8 < CloneSize
      BY <1>1, <1>3, <1>4 DEF CanRead
    <2>2. c.pos + Portion \in 0 .. SizeT - 1
      BY <1>3, <1>4, <2>1, SizeTAssumption
    <2> QED
      BY <1>1, <1>4, <2>2 DEF Advance, Cursor, CursorFixed
  <1>6. run \in [at : Nat, n : Nat]
    <2> HIDE DEF c
    <2> QED
      BY <1>3, <1>4 DEF Address
  <1>7. TypeOK'
    <2> HIDE DEF run
    <2>1. runs' \in Seq([at : Nat, n : Nat])
      <3> DEFINE Run == [at : Nat, n : Nat]
      <3>1. runs \in Seq(Run)
        BY <1>2 DEF TypeOK
      <3>2. run \in Run
        BY <1>6
      <3> HIDE DEF Run
      <3>3. Append(runs, run) \in Seq(Run)
        BY <3>1, <3>2
      <3> QED
        BY <1>1, <3>1, <3>3 DEF Run
    <2>2. bytesRead' \in Nat /\ i' \in Nat
      BY <1>1, <1>2, <1>3 DEF TypeOK
    <2> QED
      BY <1>1, <1>2, <1>5, <2>1, <2>2 DEF TypeOK
  <1>8. Progress'
    <2>1. size' = InodeSize(file)' /\ (IsTold(file)' <=> IsTold(file))
          /\ (HasBuffer' <=> HasBuffer)
      BY <1>1, <1>2 DEF InodeSize, IsTold, HasBuffer
    <2>2. ASSUME IsTold(file) PROVE Counted(file)' /\ Copied(file)'
      <3>0. PICK f \in File : f = file
        BY <1>2
      <3>1. size = f.size
        BY <1>1, <1>2, <2>2, <3>0, SizeTold DEF TypeOK, HasBuffer
      <3>2. Counted(f) /\ Copied(f)
        BY <1>2, <2>2, <3>0
      <3>3. Counted(f)' /\ Copied(f)'
        BY <1>2, <3>0, <3>1, <3>2, CopyProgress
      <3>4. file' = f
        BY <1>1, <3>0
      <3> QED
        BY <3>3, <3>4 DEF Counted, Copied, Content
    <2> QED
      BY <1>1, <1>2, <2>1, <2>2 DEF Progress
  <1>9. PlainIsShown' /\ ReadsWhole'
    BY <1>1 DEF IInv, PlainIsShown, ReadsWhole
  <1> QED
    BY <1>5, <1>7, <1>8, <1>9 DEF IInv

\* The two ways a read fails are not open to a plain file.
LEMMA EndIInv ==
  ASSUME IInv, pc = "reading", i < MaxBlock(file), NEW b \in Pointer(file, i),
         Fatal(b) \/ Corrupt(b)
  PROVE  IInv'
  <1>1. /\ pc' \in {"fatal", "crashed"}
        /\ UNCHANGED <<dynamic, file, size, i, bytesRead, runs, cursor, shown>>
    BY DEF Fatal, Corrupt
  <1>2. ~ IsPlain(file)
    <2> SUFFICES ASSUME IsPlain(file) PROVE FALSE
      OBVIOUS
    <2>0. PICK f \in File : f = file
      BY DEF IInv, Progress
    <2>1. /\ TypeOK /\ CursorFixed
          /\ size = f.size /\ IsTold(f) /\ f.size <= MallocLimit
      BY <2>0, SizeTold DEF IInv, Progress, TypeOK, IsPlain, IsStored
    <2>2. HasBuffer /\ Counted(f)
      BY <2>0, <2>1 DEF IInv, Progress, HasBuffer
    <2>3. /\ CanSeek(cursor, Offset(b))
          /\ CanRead(Seek(cursor, Offset(b)), Portion)
          /\ bytesRead + Portion <= size
      BY <2>0, <2>1, <2>2, PlainFits
    <2>4. ~ (bytesRead + Portion > size)
      BY <2>1, <2>3, PortionType DEF TypeOK
    <2> QED
      BY <2>2, <2>3, <2>4 DEF Fatal, Corrupt
  <1>3. TypeOK' /\ CursorFixed' /\ Progress'
    BY <1>1 DEF IInv, TypeOK, CursorFixed, Progress
  <1>4. PlainIsShown' /\ ReadsWhole'
    BY <1>1, <1>2 DEF IInv, PlainIsShown, ReadsWhole
  <1> QED
    BY <1>3, <1>4 DEF IInv

\* Printing ends the command and copies nothing.
LEMMA PrintBufferIInv == ASSUME IInv, PrintBuffer PROVE IInv'
  <1>1. /\ pc = "reading" /\ i >= MaxBlock(file)
        /\ IF HasBuffer
             THEN pc' = "idle" /\ shown' = [file |-> file, runs |-> runs]
             ELSE pc' = "crashed" /\ shown' = shown
        /\ UNCHANGED <<dynamic, file, size, i, bytesRead, runs, cursor>>
    BY DEF PrintBuffer
  <1>2. PICK f \in File : f = file
    BY <1>1 DEF IInv, Progress
  <1>3. /\ TypeOK /\ dynamic \in BOOLEAN /\ size = InodeSize(f)
        /\ runs \in Seq([at : Nat, n : Nat]) /\ i \in Nat
        /\ HasBuffer /\ IsTold(f) => Counted(f) /\ Copied(f)
    BY <1>1, <1>2 DEF IInv, Progress, TypeOK
  <1>4. IsPlain(f) => HasBuffer /\ IsTold(f)
    BY <1>3, SizeTold DEF IsPlain, IsStored, HasBuffer
  <1>5. ASSUME IsPlain(f) PROVE runs = Content(f)
    <2>1. Copied(f) /\ Len(f.data) <= NDirect
      BY <1>3, <1>4, <1>5 DEF IsPlain
    <2>2. Len(f.data) \in Nat /\ DOMAIN f.data = 1 .. Len(f.data)
          /\ NDirect \in Nat
      BY FileFacts, ImageAssumption
    <2>3. i >= Len(f.data)
      <3> DEFINE s == BlockSize \div 512
      <3>1. s \in Nat \ {0}
        BY ImageAssumption
      <3>2. MaxBlock(f) = (Len(f.data) * s) \div s
        BY <1>5 DEF IsPlain, MaxBlock
      <3> HIDE DEF s
      <3> QED
        BY <1>1, <1>2, <2>2, <3>1, <3>2, DivIs
    <2>4. Len(runs) = Len(f.data) /\ DOMAIN runs = 1 .. Len(f.data)
      BY <1>3, <2>1, <2>2, <2>3 DEF Copied, Least
    <2>5. \A k \in 1 .. Len(f.data) : runs[k] = Content(f)[k]
      BY <2>1, <2>2, <2>4 DEF Copied
    <2>6. /\ runs = [k \in 1 .. Len(f.data) |-> runs[k]]
          /\ Content(f) = [k \in 1 .. Len(f.data) |-> Content(f)[k]]
      BY <1>3, <2>2, <2>4 DEF Content
    <2> QED
      BY <2>5, <2>6
  <1>6. CASE HasBuffer
    <2>1. shown' = [file |-> f, runs |-> runs] /\ pc' = "idle"
      BY <1>1, <1>2, <1>6
    <2>2. shown' \in Printed
      BY <1>3, <2>1 DEF Printed
    <2>3. TypeOK' /\ CursorFixed' /\ Progress' /\ PlainIsShown'
      BY <1>1, <2>1, <2>2
         DEF IInv, TypeOK, CursorFixed, Progress, PlainIsShown
    <2>4. ReadsWhole'
      <3>1. shown'.file = f /\ shown'.runs = runs
        BY <2>1
      <3> QED
        BY <1>5, <3>1
           DEF ReadsWhole, IsPlain, IsStored, Content
    <2> QED
      BY <2>3, <2>4 DEF IInv
  <1>7. CASE ~ HasBuffer
    <2>1. ~ IsPlain(file) /\ pc' = "crashed" /\ shown' = shown
      BY <1>1, <1>2, <1>4, <1>7
    <2> QED
      BY <1>1, <2>1
         DEF IInv, TypeOK, CursorFixed, Progress, PlainIsShown, ReadsWhole
  <1> QED
    BY <1>6, <1>7

-----------------------------------------------------------------------------
(* The specification.                                                      *)

\* Every step of cat, on whatever file, keeps the invariant.
THEOREM Invariance == Spec => []IInv
  <1>1. Init => IInv
    BY InitIInv
  <1>2. IInv /\ [Next]_vars => IInv'
    <2> SUFFICES ASSUME IInv, [Next]_vars PROVE IInv'
      OBVIOUS
    <2>1. ASSUME NEW f \in File, StartRead(f) PROVE IInv'
      BY <2>1, StartReadIInv
    <2>2. ASSUME NEW f \in File, CatNoFile(f) PROVE IInv'
      BY <2>2, CatNoFileIInv
    <2>3. CASE ReadBlock
      <3>1. PICK b \in Pointer(file, i) : CopyBlock(b) \/ Fatal(b) \/ Corrupt(b)
        BY <2>3 DEF ReadBlock
      <3>2. pc = "reading" /\ i < MaxBlock(file)
        BY <2>3 DEF ReadBlock
      <3> QED
        BY <3>1, <3>2, CopyBlockIInv, EndIInv
    <2>4. CASE PrintBuffer
      BY <2>4, PrintBufferIInv
    <2>5. CASE UNCHANGED vars
      BY <2>5 DEF vars, IInv, TypeOK, CursorFixed, Progress, PlainIsShown,
         ReadsWhole, InodeSize, HasBuffer, IsTold, Counted, Copied, Content
    <2> QED
      BY <2>1, <2>2, <2>3, <2>4, <2>5 DEF Next
  <1> QED
    BY <1>1, <1>2, PTL DEF Spec

\* For every block size, number of direct cells and set of files: a plain file
\* is printed as it is.
THEOREM PrintsPlain == Spec => []ReadsWhole
  <1>1. IInv => ReadsWhole
    BY DEF IInv
  <1> QED
    BY Invariance, <1>1, PTL

\* cat of a plain file neither writes past the buffer nor ends the session.
THEOREM SurvivesPlain == Spec => []PlainIsShown
  <1>1. IInv => PlainIsShown
    BY DEF IInv
  <1> QED
    BY Invariance, <1>1, PTL

\* Whatever the file, what its direct cells name is copied from there.
THEOREM MisreadsNever == Spec => []NeverMisread
  <1>1. IInv => NeverMisread
    <2> SUFFICES ASSUME IInv, pc = "reading", IsTold(file), NEW k \in DOMAIN runs,
                        k <= NDirect
                 PROVE  runs[k] = Content(file)[k]
      BY DEF NeverMisread, IsTold
    <2>1. CASE HasBuffer
      BY <2>1 DEF IInv, Progress, Copied
    <2>2. CASE ~ HasBuffer
      BY <2>2 DEF IInv, Progress
    <2> QED
      BY <2>1, <2>2
  <1> QED
    BY Invariance, <1>1, PTL

\* The variables keep their types.
THEOREM TypeCorrect == Spec => []TypeOK
  <1>1. IInv => TypeOK
    BY DEF IInv
  <1> QED
    BY Invariance, <1>1, PTL
=============================================================================
