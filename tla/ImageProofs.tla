---------------------------- MODULE ImageProofs ----------------------------
(***************************************************************************)
(* Whatever sizes and block numbers an image holds, the cursors of a       *)
(* mounted image stay on it: TypeOK and CursorsInside are invariants of    *)
(* Image's Spec.  And the clone reaches the block it is asked for in every *)
(* regular image: the walk over the inode table leaves the main cursor     *)
(* right behind the table, where the clone begins, and bgOffsetBlock,      *)
(* which counts in blocks and wraps, leads from there to the block.        *)
(* From both follows what a saved file shows: a listing of which nothing   *)
(* is refused meets every entry, so that none can be missing at its end.   *)
(***************************************************************************)
EXTENDS Image, Arithmetic, SequenceTheorems

\* The clone stands on the block that is being read.
OnBlock ==
  mode = "reading" => data = Seek(data, OffsetBlock(inodes[target]))

\* A directory's entries follow one another, the directory's own first.
IsDirectory(img) ==
  /\ IsChain(img.entries, img.bs)
  /\ \A e \in img.entries : e.off = 0 => e.ino = DirIno

Chained == IsDirectory(buffer) /\ \A f \in File : IsDirectory(files[f])

IInv == TypeOK /\ CursorsInside /\ OnBlock /\ Chained

MoveSet == [op : {"skip", "copy", "seek", "magic"}, n : Nat]

-----------------------------------------------------------------------------
(* Disk's operators.                                                       *)

\* diskSkip and diskCopy: a skip that the check lets pass ends short of the
\* end, even when the sum wraps.
LEMMA SkipInside ==
  ASSUME NEW c \in Cursor, NEW n \in Nat, InBounds(c, n)
  PROVE  /\ Skip(c, n) \in Cursor
         /\ Skip(c, n).start = c.start
         /\ Skip(c, n).size = c.size
         /\ Skip(c, n).pos < c.size
  <1>1. (c.pos + n) % SizeT \in 0 .. SizeT - 1
    BY SizeTAssumption DEF Cursor
  <1> QED
    BY <1>1 DEF InBounds, Skip, Cursor

\* diskSeek: likewise.
LEMMA SeekInside ==
  ASSUME NEW c \in Cursor, NEW n \in Nat, CanSeek(c, n)
  PROVE  /\ Seek(c, n) \in Cursor
         /\ Seek(c, n).start = c.start
         /\ Seek(c, n).size = c.size
         /\ Seek(c, n).pos < c.size
  <1>1. /\ SeekStart(c) \in Cursor
        /\ SeekStart(c).start = c.start
        /\ SeekStart(c).size = c.size
    BY SizeTAssumption DEF SeekStart, Cursor
  <1> QED
    BY <1>1, SkipInside DEF CanSeek, Seek

\* diskRead8, n times: likewise.
LEMMA ReadInside ==
  ASSUME NEW c \in Cursor, NEW n \in Nat, CanRead(c, n), c.pos < c.size
  PROVE  /\ Advance(c, n) \in Cursor
         /\ Advance(c, n).start = c.start
         /\ Advance(c, n).size = c.size
         /\ Advance(c, n).pos < c.size
  BY SizeTAssumption DEF CanRead, Advance, Cursor

\* diskClone: the clone of a cursor short of the end is at the same place.
LEMMA CloneInside ==
  ASSUME NEW c \in Cursor, c.pos < c.size
  PROVE  /\ Clone(c) \in Cursor
         /\ Clone(c).pos < Clone(c).size
         /\ Address(Clone(c)) = Address(c)
         /\ Clone(c).start + Clone(c).size = c.start + c.size
  BY SizeTAssumption DEF Clone, Cursor, Address

\* The moves from the descriptor to the inode table.
ToTable(img) ==
  << Skipping(0), Copying(32),
     Seeking(Times32(img.bs, img.bb)), Copying(img.bs),
     Seeking(Times32(img.bs, img.ib)), Copying(img.bs),
     Seeking(Times32(img.bs, img.it)) >>

\* The walk is made of moves by natural numbers: those over the inode table
\* are the last.
LEMMA WalkParts ==
  ASSUME NEW img \in Img
  PROVE  /\ ToTable(img) \in Seq(MoveSet)
         /\ InodeTable(img) \in Seq(MoveSet)
         /\ \E h \in Seq(MoveSet) : Walk(img) = h \o ToTable(img) \o InodeTable(img)
  <1>1. \A a, b \in Nat : Times32(a, b) \in Nat
    BY SpanAssumption DEF Times32
  <1>2. /\ img.bs \in Nat /\ img.bb \in Nat /\ img.ib \in Nat /\ img.it \in Nat
        /\ img.isize \in Nat /\ img.ipg \in Nat
    BY DEF Img
  <1>3. (SizeT + img.isize - 128) % SizeT \in Nat
    BY <1>2, SizeTAssumption
  <1>4. \A n \in Nat : /\ Skipping(n) \in MoveSet
                       /\ Copying(n) \in MoveSet
                       /\ Seeking(n) \in MoveSet
    BY DEF Skipping, Copying, Seeking, MoveSet
  <1>5. InodeTable(img) \in Seq(MoveSet)
    <2>1. \A i \in 1 .. 2 * img.ipg :
            (IF i % 2 = 1 THEN Copying(128)
             ELSE Skipping((SizeT + img.isize - 128) % SizeT)) \in MoveSet
      BY <1>3, <1>4
    <2>2. 2 * img.ipg \in Nat
      BY <1>2
    <2> QED
      BY <2>1, <2>2 DEF InodeTable
  <1> DEFINE head == << Copying(264), [op |-> "magic", n |-> 0],
                        Skipping(760) >>
             second == IF img.bs # 1024 THEN << Seeking(img.bs) >> ELSE << >>
  <1>6. head \in Seq(MoveSet)
    BY <1>4 DEF MoveSet
  <1>7. second \in Seq(MoveSet)
    BY <1>2, <1>4
  <1>8. ToTable(img) \in Seq(MoveSet)
    <2>1. /\ Skipping(0) \in MoveSet /\ Copying(32) \in MoveSet
          /\ Copying(img.bs) \in MoveSet
          /\ Seeking(Times32(img.bs, img.bb)) \in MoveSet
          /\ Seeking(Times32(img.bs, img.ib)) \in MoveSet
          /\ Seeking(Times32(img.bs, img.it)) \in MoveSet
      BY <1>1, <1>2, <1>4
    <2> QED
      BY <2>1 DEF ToTable
  <1>9. Walk(img) = head \o second \o ToTable(img) \o InodeTable(img)
    BY DEF Walk, ToTable
  <1> HIDE DEF head, second
  <1>10. head \o second \in Seq(MoveSet)
    BY <1>6, <1>7
  <1> QED
    BY <1>5, <1>8, <1>9, <1>10

\* The walk is a list of moves.
LEMMA WalkType == ASSUME NEW img \in Img PROVE Walk(img) \in Seq(MoveSet)
  <1>1. PICK h \in Seq(MoveSet) : Walk(img) = h \o ToTable(img) \o InodeTable(img)
    BY WalkParts
  <1>2. ToTable(img) \in Seq(MoveSet) /\ InodeTable(img) \in Seq(MoveSet)
    BY WalkParts
  <1>3. h \o ToTable(img) \in Seq(MoveSet)
    BY <1>2
  <1> QED
    BY <1>1, <1>2, <1>3

-----------------------------------------------------------------------------
(* The invariant.                                                          *)

\* Before anything is mounted there is nothing to say of the cursors.
LEMMA InitIInv == Init => IInv
  <1> SUFFICES ASSUME Init PROVE IInv
    OBVIOUS
  <1>1. files \in [File -> Img]
    BY StartsAssumption DEF Init
  <1>2. buffer \in Img
    BY <1>1 DEF Init
  <1>3. Opened(0) \in Cursor
    BY SizeTAssumption DEF Opened, Cursor
  <1>4. TypeOK
    BY <1>1, <1>2, <1>3 DEF Init, TypeOK, Modes, Inodes, Content
  <1>5. CursorsInside /\ OnBlock
    BY DEF Init, CursorsInside, OnBlock
  <1>6. Chained
    BY StartsAssumption DEF Init, Chained, IsDirectory
  <1> QED
    BY <1>4, <1>5, <1>6 DEF IInv

\* Nothing is asked of the cursors once the program has given up.
LEMMA FatalIInv ==
  ASSUME IInv, NEW end \in Nat, Fatal(end)
  PROVE  IInv'
  <1>1. TypeOK' /\ CursorsInside' /\ OnBlock'
    BY DEF IInv, TypeOK, CursorsInside, OnBlock, Fatal, memory, Modes, Address
  <1>2. Chained'
    BY DEF IInv, Chained, IsDirectory, Fatal, memory
  <1> QED
    BY <1>1, <1>2 DEF IInv

\* The directory in memory and in the files stays as it is.
LEMMA SameChains ==
  ASSUME Chained, UNCHANGED <<files, buffer>>
  PROVE  Chained'
  BY DEF Chained, IsDirectory

\* A move of the main cursor that stays on the image.
LEMMA MoveIInv ==
  ASSUME IInv, mode = "mounting", walk # <<>>, NEW c \in Cursor, Move(c),
         c.start = 0, c.size = buffer.size, c.pos < buffer.size
  PROVE  IInv'
  <1>1. Tail(walk) \in Seq(MoveSet)
    BY DEF IInv, TypeOK, MoveSet
  <1>2. TypeOK'
    BY <1>1 DEF IInv, TypeOK, Move, MoveSet
  <1>3. CursorsInside' /\ OnBlock'
    BY DEF IInv, CursorsInside, OnBlock, Move
  <1>4. Chained'
    BY SameChains DEF IInv, Move
  <1> QED
    BY <1>2, <1>3, <1>4 DEF IInv

\* bgDeleteFile: with an entry gone, those behind it moved down by its length
\* follow one another as they did.
LEMMA WithoutDirectory ==
  ASSUME buffer \in Img, IsDirectory(buffer), NEW v \in buffer.entries, v.ino \in Inode
  PROVE  /\ [buffer EXCEPT !.entries = Without(v)] \in Img
         /\ IsDirectory([buffer EXCEPT !.entries = Without(v)])
  <1> DEFINE es == buffer.entries
             low == {e \in es : e.off < v.off}
             high == {d \in es : d.off > v.off}
             Down(e) == [e EXCEPT !.off = @ - v.len]
             img == [buffer EXCEPT !.entries = Without(v)]
  <1>1. /\ es \subseteq Entry /\ buffer.bs \in Nat
        /\ \A e \in es : e.off \in Nat /\ e.len \in Nat /\ e.ino \in Inodes
    BY DEF Img, Entry
  <1>2. /\ \A e \in es : e.off < buffer.bs
        /\ \A e \in es : e.off # 0 => \E d \in es : d.off < e.off /\ d.off + d.len = e.off
        /\ \A e, d \in es : d.off < e.off => d.off + d.len <= e.off
        /\ \A e, d \in es : d.off = e.off => d = e
        /\ \A e \in es : e.off = 0 => e.ino = DirIno
    BY DEF IsDirectory, IsChain
  <1>3. v.off # 0
    BY <1>2, StartsAssumption
  <1>4. ASSUME NEW e \in high
        PROVE  /\ Down(e) \in Entry /\ e.off - v.len \in Nat
               /\ Down(e).off = e.off - v.len /\ Down(e).len = e.len
               /\ Down(e).ino = e.ino /\ v.off <= e.off - v.len
               /\ e.off - v.len <= e.off
    <2>1. v.off + v.len <= e.off
      BY <1>2
    <2>2. e.off - v.len \in Nat /\ v.off <= e.off - v.len /\ e.off - v.len <= e.off
      BY <1>1, <2>1
    <2>3. e \in Entry
      BY <1>1
    <2> QED
      BY <2>2, <2>3 DEF Entry
  <1>5. Without(v) = low \cup {Down(e) : e \in high}
    BY DEF Without
  <1>6. Without(v) \subseteq Entry
    BY <1>1, <1>4, <1>5
  <1>7. img \in Img /\ img.entries = Without(v) /\ img.bs = buffer.bs
    BY <1>6 DEF Img
  <1> DEFINE ws == Without(v)
  <1>8. \A e \in ws : e \in low \/ \E d \in high : e = Down(d)
    BY <1>5
  <1>9. /\ \A e \in low : e \in ws
        /\ \A d \in high : Down(d) \in ws
    BY <1>5
  <1> HIDE DEF ws, img, Down
  <1>10. ASSUME NEW e \in ws PROVE e.off < buffer.bs
    BY <1>1, <1>2, <1>4, <1>8
  <1>11. ASSUME NEW e \in ws, e.off # 0
         PROVE  \E d \in ws : d.off < e.off /\ d.off + d.len = e.off
    <2>1. CASE e \in low
      <3>1. PICK d \in es : d.off < e.off /\ d.off + d.len = e.off
        BY <1>2, <1>11, <2>1
      <3>2. d \in low
        BY <1>1, <2>1, <3>1
      <3> QED
        BY <1>9, <3>1, <3>2
    <2>2. ASSUME NEW h \in high, e = Down(h)
          PROVE  \E d \in ws : d.off < e.off /\ d.off + d.len = e.off
      <3>1. h \in es /\ h.off # 0 /\ h.off > v.off
        BY <1>1
      <3>2. PICK d \in es : d.off < h.off /\ d.off + d.len = h.off
        BY <1>2, <3>1
      <3>3. CASE d.off > v.off
        <4>1. d \in high /\ Down(d) \in ws
          BY <1>9, <3>3
        <4>2. /\ Down(d).off = d.off - v.len /\ Down(d).len = d.len
              /\ e.off = h.off - v.len
          BY <1>4, <2>2, <4>1
        <4>3. Down(d).off < e.off /\ Down(d).off + Down(d).len = e.off
          BY <1>1, <3>2, <4>2
        <4> QED
          BY <4>1, <4>3
      <3>4. CASE d.off = v.off
        <4>1. d = v /\ e.off = v.off
          <5>1. d = v
            BY <1>2, <3>4
          <5> QED
            BY <1>1, <1>4, <2>2, <3>2, <5>1
        <4>2. PICK p \in es : p.off < v.off /\ p.off + p.len = v.off
          BY <1>2, <1>3
        <4>3. p \in ws
          BY <1>9, <4>2
        <4> QED
          BY <4>1, <4>2, <4>3
      <3>5. CASE d.off < v.off
        <4>1. d.off + d.len <= v.off
          BY <1>2, <3>5
        <4> QED
          BY <1>1, <3>1, <3>2, <4>1
      <3> QED
        BY <1>1, <3>3, <3>4, <3>5
    <2> QED
      BY <1>8, <2>1, <2>2
  <1>12. ASSUME NEW e \in ws, NEW d \in ws
         PROVE  /\ d.off < e.off => d.off + d.len <= e.off
                /\ d.off = e.off => d = e
    <2>1. CASE e \in low /\ d \in low
      BY <1>2, <2>1
    <2>2. ASSUME e \in low, NEW g \in high, d = Down(g)
          PROVE  e.off < d.off
      BY <1>1, <1>4, <2>2
    <2>3. ASSUME d \in low, NEW h \in high, e = Down(h)
          PROVE  d.off < e.off /\ d.off + d.len <= e.off
      <3>1. d.off + d.len <= v.off
        BY <1>2, <2>3
      <3> QED
        BY <1>1, <1>4, <2>3, <3>1
    <2>4. ASSUME NEW h \in high, e = Down(h), NEW g \in high, d = Down(g)
          PROVE  /\ d.off < e.off => d.off + d.len <= e.off
                 /\ d.off = e.off => d = e
      <3>1. /\ e.off = h.off - v.len /\ d.off = g.off - v.len /\ d.len = g.len
        BY <1>4, <2>4
      <3>2. /\ g.off < h.off => g.off + g.len <= h.off
            /\ g.off = h.off => g = h
        BY <1>2
      <3> QED
        BY <1>1, <2>4, <3>1, <3>2
    <2>5. e.off \in Nat /\ d.off \in Nat
      BY <1>6, <1>12 DEF Entry, ws
    <2> QED
      BY <1>8, <2>1, <2>2, <2>3, <2>4, <2>5
  <1>13. ASSUME NEW e \in ws, e.off = 0 PROVE e.ino = DirIno
    <2>1. CASE e \in low
      BY <1>2, <1>13, <2>1
    <2>2. ASSUME NEW h \in high, e = Down(h) PROVE FALSE
      BY <1>1, <1>3, <1>4, <1>13, <2>2
    <2> QED
      BY <1>8, <2>1, <2>2
  <1>14. IsDirectory(img)
    BY <1>7, <1>10, <1>11, <1>12, <1>13 DEF IsDirectory, IsChain, ws
  <1> QED
    BY <1>7, <1>14 DEF img

\* The entries from which a reader takes what it shows are the directory's.
LEMMA LyingIn ==
  ASSUME buffer \in Img, NEW c, NEW e \in Lying(c)
  PROVE  e \in buffer.entries /\ e \in Entry
  BY DEF Lying, Present, Img

\* dirReadLinkedList: where nothing is refused, the cursor may be put behind
\* the last name, or behind the zero that follows the last entry.
LEMMA ListedInside ==
  ASSUME IInv, CanList, NEW e \in Lying(data)
  PROVE  /\ data.pos + e.off + e.text + 7 < data.size
         /\ e.off + e.len < buffer.bs =>
              data.pos + e.off + e.len + 32 < data.size
  <1>1. data \in Cursor /\ data.pos \in Nat /\ data.size \in Nat
    BY SizeTAssumption DEF IInv, TypeOK, Cursor
  <1>2. e.off \in Nat /\ e.len \in Nat /\ e.text \in Nat \ {0}
    BY LyingIn DEF IInv, TypeOK, Entry
  <1>3. Refused(data) = {}
    BY DEF CanList
  <1>4. \A a \in Accesses(data) : ~ data.pos + a.from + a.asks >= data.size
    BY <1>3 DEF Refused
  <1>5. /\ Access(e.off + e.text - 1, 8, 1) \in Accesses(data)
        /\ e.off + e.len < buffer.bs =>
             Access(e.off + e.len, 32, 4) \in Accesses(data)
    BY DEF Accesses
  <1>6. ~ data.pos + (e.off + e.text - 1) + 8 >= data.size
    BY <1>4, <1>5 DEF Access
  <1>7. e.off + e.len < buffer.bs => ~ data.pos + (e.off + e.len) + 32 >= data.size
    BY <1>4, <1>5 DEF Access
  <1> QED
    BY <1>1, <1>2, <1>6, <1>7

\* A move of the clone that stays on the image.
LEMMA CloneIInv ==
  ASSUME IInv, mode \in {"mounted", "reading"}, NEW c \in Cursor, ReadTo(c),
         c.start = data.start, c.size = data.size, c.pos < data.size
  PROVE  IInv'
  <1>1. /\ data' = c /\ mode' = "mounted"
        /\ UNCHANGED <<files, mounted, buffer, cur, walk, blocksRead,
                       bitmap, inodes, target, wanted, atSave>>
    BY DEF ReadTo
  <1>2. /\ buffer.size \in Nat /\ data.start \in Nat /\ data.size \in Nat
        /\ c.pos \in Nat
    BY SizeTAssumption DEF IInv, TypeOK, Img, Cursor
  <1>3. TypeOK' /\ OnBlock'
    BY <1>1 DEF IInv, TypeOK, Modes, OnBlock
  <1>4. CursorsInside'
    BY <1>1, <1>2 DEF IInv, CursorsInside, Address
  <1>5. Chained'
    BY <1>1, SameChains DEF IInv
  <1> QED
    BY <1>3, <1>4, <1>5 DEF IInv

\* What a FATAL in a listing or a deletion notes is a number.
LEMMA AccessEnds ==
  ASSUME IInv, NEW v \in Lying(data), NEW a \in Accesses(data) \cup Skips(v)
  PROVE  a.ends \in Nat
  <1>1. \A e \in buffer.entries :
          e.off \in Nat /\ e.len \in Nat /\ e.text \in Nat \ {0}
    BY DEF IInv, TypeOK, Img, Entry
  <1>2. \A e \in Lying(data) : e \in buffer.entries
    BY LyingIn DEF IInv, TypeOK
  <1>3. CASE a \in Accesses(data)
    <2>1. \/ a = Access(0, 32, 4)
          \/ \E e \in Lying(data) :
               \/ a = Access(e.off + e.text - 1, 8, 1)
               \/ a = Access(e.off, e.len, e.len)
               \/ a = Access(e.off + e.len, 32, 4)
      BY <1>3 DEF Accesses
    <2> QED
      BY <1>1, <1>2, <2>1 DEF Access
  <1>4. CASE a \in Skips(v)
    <2>1. PICK e \in Later(v) : a = Access(e.off - v.off - v.len, e.len, e.len)
      BY <1>4 DEF Skips
    <2>2. e \in Lying(data) /\ v.off < e.off
      BY <1>1, <1>2, <2>1 DEF Later
    <2>3. v.off + v.len <= e.off
      BY <1>2, <2>2 DEF IInv, Chained, IsDirectory, IsChain
    <2>4. a.ends = e.off - v.off - v.len + e.len
      BY <2>1 DEF Access
    <2> QED
      BY <1>1, <1>2, <2>2, <2>3, <2>4
  <1> QED
    BY <1>3, <1>4

\* bgDeleteFile's seek and skip put the cursor on the entry.
LEMMA EntryCursorInside ==
  ASSUME IInv, CanList, NEW v \in Lying(data)
  PROVE  /\ EntryCursor(v) \in Cursor
         /\ EntryCursor(v).start = data.start
         /\ EntryCursor(v).size = data.size
         /\ EntryCursor(v).pos = data.pos + v.off
  <1>1. data \in Cursor /\ data.pos \in Nat /\ data.size \in Nat /\ data.size < SizeT
    BY SizeTAssumption DEF IInv, TypeOK, Cursor
  <1>2. v.off \in Nat /\ v.text \in Nat \ {0}
    BY LyingIn DEF IInv, TypeOK, Entry
  <1>3. Seek(data, OffsetBlock(inodes[DirIno])) = data
    BY DEF IInv, OnBlock, CanList
  <1>4. data.pos + v.off \in 0 .. SizeT - 1
    BY <1>1, <1>2, ListedInside, SizeTAssumption
  <1>5. (data.pos + v.off) % SizeT = data.pos + v.off
    BY <1>4, SizeTAssumption
  <1>6. EntryCursor(v) = [data EXCEPT !.pos = data.pos + v.off]
    BY <1>3, <1>5 DEF EntryCursor, Skip
  <1> QED
    BY <1>1, <1>4, <1>6 DEF Cursor

\* bgDeleteFile: the cursor is left on the image.
LEMMA DeletedInside ==
  ASSUME IInv, NEW v \in buffer.entries, Delete(v)
  PROVE  /\ data' \in Cursor /\ data'.start = data.start
         /\ data'.size = data.size /\ data'.pos < data.size
  <1>1. CanList /\ v \in Lying(data) /\ Stuck(v) = {}
    BY DEF Delete
  <1> DEFINE c == EntryCursor(v)
  <1>2. /\ c \in Cursor /\ c.start = data.start /\ c.size = data.size
        /\ c.pos = data.pos + v.off /\ c.pos \in Nat
    BY <1>1, EntryCursorInside, SizeTAssumption DEF Cursor
  <1>3. /\ data \in Cursor /\ data.pos \in Nat /\ data.size \in Nat /\ data.size < SizeT
        /\ v.off \in Nat /\ v.len \in Nat /\ v.text \in Nat \ {0}
        /\ SizeT \in Nat
    <2>1. data \in Cursor /\ v \in Entry
      BY <1>1, LyingIn DEF IInv, TypeOK
    <2> QED
      BY <2>1, SizeTAssumption DEF Cursor, Entry
  <1>4. \/ data' = Advance(c, 4)
        \/ \E z \in Later(v) :
             data' = Skip(Advance(c, z.off - v.off - v.len), z.len)
    BY DEF Delete
  <1> HIDE DEF c
  <1>5. CASE data' = Advance(c, 4)
    <2>1. c.pos + 4 \in Nat /\ c.pos + 4 < data.size
      BY <1>1, <1>2, <1>3, ListedInside
    <2> QED
      BY <1>2, <1>3, <1>5, <2>1 DEF Advance, Cursor
  <1>6. ASSUME NEW z \in Later(v), data' = Skip(Advance(c, z.off - v.off - v.len), z.len)
        PROVE  /\ data' \in Cursor /\ data'.start = data.start
               /\ data'.size = data.size /\ data'.pos < data.size
    <2>1. z \in Lying(data) /\ v.off < z.off /\ z \in buffer.entries
      BY <1>6, LyingIn DEF Later, IInv, TypeOK
    <2>2. z.off \in Nat /\ z.len \in Nat /\ z.text \in Nat \ {0}
      BY <2>1 DEF IInv, TypeOK, Img, Entry
    <2>3. v.off + v.len <= z.off
      BY <2>1 DEF IInv, Chained, IsDirectory, IsChain
    <2> DEFINE n == z.off - v.off - v.len
    <2>4. /\ n \in Nat /\ c.pos + n \in Nat
          /\ c.pos + n <= data.pos + z.off /\ data.pos + z.off < data.size
      BY <1>1, <1>2, <1>3, <2>1, <2>2, <2>3, ListedInside
    <2> HIDE DEF n
    <2>5. Advance(c, n) \in Cursor /\ Advance(c, n).start = data.start
          /\ Advance(c, n).size = data.size
      <3>1. c.pos + n \in 0 .. SizeT - 1
        BY <1>2, <1>3, <2>2, <2>4
      <3>2. Advance(c, n) = [c EXCEPT !.pos = c.pos + n]
        BY DEF Advance
      <3> QED
        BY <1>2, <3>1, <3>2 DEF Cursor
    <2>6. InBounds(Advance(c, n), z.len)
      <3>1. Access(n, z.len, z.len) \in Skips(v)
        BY <1>6 DEF Skips, n
      <3>2. Access(n, z.len, z.len).from = n /\ Access(n, z.len, z.len).asks = z.len
        BY DEF Access
      <3> QED
        BY <1>1, <3>1, <3>2 DEF Stuck, c
    <2> QED
      BY <1>6, <2>2, <2>5, <2>6, SkipInside DEF n
  <1> QED
    BY <1>4, <1>5, <1>6

\* Every step keeps both cursors on the image.
LEMMA NextIInv == IInv /\ [Next]_vars => IInv'
  <1> SUFFICES ASSUME IInv, [Next]_vars PROVE IInv'
    OBVIOUS
  <1> USE DEF IInv
  <1>0. /\ buffer.size \in 0 .. SizeT - 1 /\ buffer.size \in Nat
        /\ buffer.bs \in Nat \ {0}
        /\ buffer.len \in [Inode -> Nat]
        /\ cur \in Cursor /\ data \in Cursor
        /\ cur.pos \in Nat /\ data.start \in Nat /\ data.pos \in Nat
        /\ data.size \in Nat
        /\ target \in Inodes /\ inodes \in [Inodes -> Nat]
    <2>1. buffer \in Img /\ cur \in Cursor /\ data \in Cursor
      BY DEF TypeOK
    <2>2. /\ buffer.size \in 0 .. SizeT - 1 /\ buffer.bs \in Nat \ {0}
          /\ buffer.len \in [Inode -> Nat]
      BY <2>1 DEF Img
    <2>3. buffer.size \in Nat
      BY <2>2, SizeTAssumption
    <2>4. /\ cur.pos \in Nat /\ data.start \in Nat /\ data.pos \in Nat
          /\ data.size \in Nat
      BY <2>1, SizeTAssumption DEF Cursor
    <2> QED
      BY <2>1, <2>2, <2>3, <2>4 DEF TypeOK
  <1>a. \A b \in Nat : OffsetBlock(b) \in Nat
    <2>1. buffer.bs \in Nat
      BY <1>0
    <2>2. U32 \in Nat \ {0} /\ blocksRead \in Nat
      BY SizeTAssumption, SpanAssumption DEF TypeOK
    <2>3. ASSUME NEW n \in Int PROVE n % U32 \in Nat
      BY <2>2
    <2>4. \A b \in Nat : OffsetBlock(b) = (((U32 + b - blocksRead) % U32) * buffer.bs) % U32
      BY DEF OffsetBlock, Times32
    <2>5. \A b \in Nat : ((U32 + b - blocksRead) % U32) * buffer.bs \in Nat
      BY <2>1, <2>2, <2>3
    <2> QED
      BY <2>3, <2>4, <2>5
  <1>1. ASSUME NEW f \in File, Mount(f) PROVE IInv'
    <2> DEFINE c == Opened(files[f].size)
    <2>1. files[f] \in Img /\ files[f].size \in 0 .. SizeT - 1
      BY DEF TypeOK, Img
    <2>2. c \in Cursor /\ c.start = 0 /\ c.size = files[f].size
      BY <2>1, SizeTAssumption DEF Opened, Cursor
    <2>a. InBounds(c, 1024) =>
            Skip(c, 1024) \in Cursor /\ Skip(c, 1024).start = 0
            /\ Skip(c, 1024).size = c.size /\ Skip(c, 1024).pos < c.size
      BY <2>2, SkipInside
    <2>b. /\ buffer' = files[f]
          /\ \/ mode' = "mounting" /\ InBounds(c, 1024) /\ cur' = Skip(c, 1024)
                /\ wanted' = wanted
             \/ mode' = "fatal" /\ cur' = c /\ wanted' = 1024
      BY <1>1 DEF Mount
    <2> HIDE DEF c
    <2>3. Walk(files[f]) \in Seq(MoveSet)
      BY <2>1, WalkType
    <2>4. TypeOK'
      BY <1>1, <2>1, <2>2, <2>3, <2>a, <2>b DEF TypeOK, Mount, Modes, MoveSet
    <2>5. CursorsInside' /\ OnBlock'
      BY <2>2, <2>a, <2>b DEF CursorsInside, OnBlock
    <2>6. Chained'
      <3>1. files' = files /\ buffer' = files[f]
        BY <1>1 DEF Mount
      <3> QED
        BY <3>1 DEF Chained, IsDirectory
    <2> QED
      BY <2>4, <2>5, <2>6
  <1>2. CASE WalkOn
    <2>1. mode = "mounting" /\ walk # <<>>
      BY <1>2 DEF WalkOn, Walking
    <2> DEFINE n == Head(walk).n
    <2>2. n \in Nat
      <3>1. walk \in Seq(MoveSet)
        BY DEF TypeOK, MoveSet
      <3>2. Head(walk) \in MoveSet
        BY <3>1, <2>1
      <3> QED
        BY <3>2 DEF MoveSet
    <2>3. CASE InBounds(cur, n)
      <3>1. Move(Skip(cur, n))
        BY <1>2, <2>3 DEF WalkOn
      <3> QED
        BY <3>1, <2>1, <2>2, <2>3, <1>0, SkipInside, MoveIInv DEF CursorsInside
    <2>4. CASE ~ InBounds(cur, n)
      <3>1. Fatal(cur.pos + n)
        BY <1>2, <2>4 DEF WalkOn
      <3>2. cur.pos + n \in Nat
        BY <1>0, <2>2
      <3> QED
        BY <3>1, <3>2, FatalIInv
    <2> QED
      BY <2>3, <2>4
  <1>3. CASE WalkSeek
    <2>1. mode = "mounting" /\ walk # <<>>
      BY <1>3 DEF WalkSeek, Walking
    <2> DEFINE n == Head(walk).n
    <2>2. n \in Nat
      <3>1. walk \in Seq(MoveSet)
        BY DEF TypeOK, MoveSet
      <3>2. Head(walk) \in MoveSet
        BY <3>1, <2>1
      <3> QED
        BY <3>2 DEF MoveSet
    <2>3. CASE CanSeek(cur, n)
      <3>1. Move(Seek(cur, n))
        BY <1>3, <2>3 DEF WalkSeek
      <3> QED
        BY <3>1, <2>1, <2>2, <2>3, <1>0, SeekInside, MoveIInv DEF CursorsInside
    <2>4. CASE ~ CanSeek(cur, n)
      <3>1. Fatal(n)
        BY <1>3, <2>4 DEF WalkSeek
      <3> QED
        BY <3>1, <2>2, FatalIInv
    <2> QED
      BY <2>3, <2>4
  <1>4. CASE CheckMagic
    <2>1. mode = "mounting" /\ walk # <<>> /\ Move(cur)
      BY <1>4 DEF CheckMagic, Walking
    <2> QED
      BY <2>1, <1>0, MoveIInv DEF CursorsInside
  <1>5. CASE BadMagic
    <2>1. TypeOK' /\ CursorsInside' /\ OnBlock'
      BY <1>5 DEF BadMagic, memory, TypeOK, CursorsInside, OnBlock, Modes
    <2>2. Chained'
      BY <1>5, SameChains DEF BadMagic, memory
    <2> QED
      BY <2>1, <2>2
  <1>6. CASE FinishMount
    <2>1. mode = "mounting" /\ mode' = "mounted" /\ data' = Clone(cur)
          /\ UNCHANGED <<files, mounted, buffer, cur, walk, target, wanted, atSave>>
          /\ blocksRead' = cur.pos \div buffer.bs
          /\ bitmap' = buffer.bits /\ inodes' = buffer.table
      BY <1>6 DEF FinishMount, ReadSoFar
    <2>2. /\ data' \in Cursor /\ data'.pos < data'.size
          /\ Address(data') = Address(cur)
          /\ data'.start + data'.size = cur.start + cur.size
      BY <2>1, <1>0, CloneInside DEF CursorsInside
    <2>3. blocksRead' \in Nat
      BY <2>1, <1>0
    <2>4. TypeOK'
      BY <2>1, <2>2, <2>3 DEF TypeOK, Img, Modes
    <2>5. CursorsInside' /\ OnBlock'
      BY <2>1, <2>2, <1>0 DEF CursorsInside, OnBlock, Address
    <2>6. Chained'
      BY <2>1, SameChains
    <2> QED
      BY <2>4, <2>5, <2>6
  <1>7. ASSUME NEW i \in Inodes, SeekBlock(i) PROVE IInv'
    <2> DEFINE o == OffsetBlock(inodes[i])
    <2>1. o \in Nat /\ mode \in {"mounted", "reading"}
      BY <1>0, <1>a, <1>7 DEF SeekBlock, CanList
    <2> HIDE DEF o
    <2>2. CASE CanSeek(data, o)
      <3>1. data' = Seek(data, o) /\ mode' = "reading" /\ target' = i
            /\ UNCHANGED <<files, mounted, buffer, cur, walk, blocksRead,
                           bitmap, inodes, wanted, atSave>>
        BY <1>7, <2>2 DEF SeekBlock, o
      <3>2. /\ data' \in Cursor /\ data'.start = data.start
            /\ data'.size = data.size /\ data'.pos < data.size
        BY <3>1, <2>1, <2>2, <1>0, SeekInside
      <3>3. TypeOK'
        BY <3>1, <3>2 DEF TypeOK, Modes
      <3>4. data'.pos \in Nat
        BY <3>2, SizeTAssumption DEF Cursor
      <3>5. CursorsInside'
        BY <3>1, <3>2, <3>4, <2>1, <1>0 DEF CursorsInside, Address
      <3>6. OnBlock'
        <4>1. o = Times32((U32 + inodes'[target'] - blocksRead') % U32, buffer'.bs)
          BY <3>1 DEF OffsetBlock, o
        <4>2. Seek(data', o) = data'
          BY <3>1, <1>0 DEF Seek, Skip, SeekStart, Cursor
        <4> HIDE DEF o
        <4>3. data' = Seek(data', Times32((U32 + inodes'[target'] - blocksRead') % U32,
                                          buffer'.bs))
          BY <4>1, <4>2
        <4> QED
          BY <4>3 DEF OnBlock, OffsetBlock, Seek, Skip, SeekStart, Times32
      <3>7. Chained'
        BY <3>1, SameChains
      <3> QED
        BY <3>3, <3>5, <3>6, <3>7
    <2>3. CASE ~ CanSeek(data, o)
      <3>1. Fatal(data.start + o) /\ data.start + o \in Nat
        BY <1>7, <2>1, <2>3, <1>0 DEF SeekBlock, o
      <3> QED
        BY <3>1, FatalIInv
    <2> QED
      BY <2>2, <2>3
  <1>8. CASE ReadFile
    <2> DEFINE n == buffer.len[target]
    <2>1. n \in Nat /\ mode = "reading"
      BY <1>8, <1>0 DEF ReadFile, Inodes
    <2>2. \/ CanRead(data, n) /\ ReadTo(Advance(data, n))
          \/ Fatal(Address(data) + n)
      BY <1>8 DEF ReadFile
    <2>3. data.pos < data.size /\ Address(data) + n \in Nat
      BY <2>1, <1>0 DEF CursorsInside, Address
    <2> HIDE DEF n
    <2> QED
      BY <2>1, <2>2, <2>3, <1>0, ReadInside, CloneIInv, FatalIInv
  <1>9. CASE ReadDir
    <2>1. CanList /\ mode = "reading"
      BY <1>9 DEF ReadDir, CanList
    <2>2. PICK z \in Lying(data) :
            ReadTo(Advance(data, IF z.off + z.len < buffer.bs
                                   THEN z.off + z.len + 4 ELSE z.off + z.text))
      BY <1>9 DEF ReadDir
    <2> DEFINE n == IF z.off + z.len < buffer.bs
                      THEN z.off + z.len + 4 ELSE z.off + z.text
    <2>3. z.off \in Nat /\ z.len \in Nat /\ z.text \in Nat
      BY LyingIn DEF TypeOK, Entry
    <2>4. n \in Nat /\ data.pos + n \in Nat /\ data.pos + n < data.size
      BY <2>1, <2>3, <1>0, ListedInside
    <2> HIDE DEF n
    <2>5. /\ Advance(data, n) \in Cursor /\ Advance(data, n).start = data.start
          /\ Advance(data, n).size = data.size /\ Advance(data, n).pos < data.size
      <3>1. data.size < SizeT /\ SizeT \in Nat
        BY <1>0, SizeTAssumption DEF Cursor
      <3>2. data.pos + n \in 0 .. SizeT - 1
        BY <1>0, <2>4, <3>1
      <3> QED
        BY <1>0, <2>4, <3>2 DEF Advance, Cursor
    <2>6. ReadTo(Advance(data, n))
      BY <2>2 DEF n
    <2> QED
      BY <2>1, <2>5, <2>6, CloneIInv
  <1>13. CASE ReadDirFatal
    <2>1. PICK a \in Refused(data) : Fatal(Address(data) + a.ends)
      BY <1>13 DEF ReadDirFatal, FatalIn
    <2>2. a \in Accesses(data)
      BY <2>1 DEF Refused
    <2>3. a.ends \in Nat
      <3>1. CASE Lying(data) = {}
        BY <2>2, <3>1 DEF Accesses, Access
      <3>2. CASE Lying(data) # {}
        BY <2>2, <3>2, AccessEnds
      <3> QED
        BY <3>1, <3>2
    <2>4. Address(data) + a.ends \in Nat
      BY <1>0, <2>3 DEF Address
    <2> QED
      BY <2>1, <2>4, FatalIInv
  <1>14. CASE ReadNoDir
    <2>1. TypeOK' /\ CursorsInside' /\ OnBlock'
      BY <1>14 DEF ReadNoDir, memory, TypeOK, CursorsInside, OnBlock, Modes
    <2>2. Chained'
      BY <1>14, SameChains DEF ReadNoDir, memory
    <2> QED
      BY <2>1, <2>2
  <1>15. ASSUME NEW v \in buffer.entries, Delete(v) PROVE IInv'
    <2>1. mode = "reading" /\ mode' = "mounted" /\ v.ino \in Inode
          /\ buffer' = [buffer EXCEPT !.entries = Without(v)]
          /\ bitmap' = bitmap \ {v.ino}
          /\ inodes' = [inodes EXCEPT ![v.ino] = 0]
          /\ UNCHANGED <<files, mounted, cur, walk, blocksRead, target, wanted,
                         atSave>>
      BY <1>15 DEF Delete, CanList
    <2>2. /\ data' \in Cursor /\ data'.start = data.start
          /\ data'.size = data.size /\ data'.pos < data.size
      BY <1>15, DeletedInside
    <2>3. buffer \in Img /\ IsDirectory(buffer)
      BY DEF TypeOK, Chained
    <2>4. buffer' \in Img /\ IsDirectory(buffer')
      BY <2>1, <2>3, WithoutDirectory
    <2>5. buffer'.size = buffer.size
      BY <2>1, <2>3 DEF Img
    <2>6. bitmap' \subseteq Inode /\ inodes' \in [Inodes -> Nat]
      BY <2>1 DEF TypeOK, Inodes
    <2>7. TypeOK'
      BY <2>1, <2>2, <2>4, <2>6 DEF TypeOK, Modes
    <2>8. data'.pos \in Nat
      BY <2>2, SizeTAssumption DEF Cursor
    <2>9. CursorsInside' /\ OnBlock'
      BY <2>1, <2>2, <2>5, <2>8, <1>0 DEF CursorsInside, OnBlock, Address
    <2>10. Chained'
      BY <2>1, <2>4 DEF Chained, IsDirectory
    <2> QED
      BY <2>7, <2>9, <2>10
  <1>16. ASSUME NEW v \in buffer.entries, DeleteFatal(v) PROVE IInv'
    <2>1. PICK a \in Stuck(v) : Fatal(Address(EntryCursor(v)) + a.ends)
      BY <1>16 DEF DeleteFatal, FatalIn
    <2>2. a \in Skips(v) /\ CanList /\ v \in Lying(data)
      BY <1>16, <2>1 DEF Stuck, DeleteFatal
    <2>3. a.ends \in Nat /\ EntryCursor(v) \in Cursor
      BY <2>2, AccessEnds, EntryCursorInside
    <2>4. Address(EntryCursor(v)) + a.ends \in Nat
      BY <2>3, SizeTAssumption DEF Address, Cursor
    <2> QED
      BY <2>1, <2>4, FatalIInv
  <1>10. ASSUME NEW f \in File, Save(f) PROVE IInv'
    <2>1. mode = "mounted" /\ cur.pos < cur.size /\ cur.pos \in Nat
      BY <1>10, <1>0 DEF Save, CursorsInside
    <2>2. CASE CanSeek(cur, cur.pos)
      <3>1. /\ files' = [files EXCEPT ![f] = Written(buffer)]
            /\ cur' = Seek(cur, cur.pos)
            /\ atSave' = [atSave EXCEPT ![f] =
                            [entries |-> Shown, bitmap |-> bitmap]]
            /\ UNCHANGED <<mode, mounted, buffer, walk, data, blocksRead, bitmap,
                           inodes, target, wanted>>
        BY <1>10, <2>2 DEF Save
      <3>2. /\ cur' \in Cursor /\ cur'.start = cur.start
            /\ cur'.size = cur.size /\ cur'.pos < cur.size
        BY <3>1, <2>1, <2>2, <1>0, SeekInside
      <3>3. Written(buffer) \in Img
        <4>1. buffer.size - (buffer.size % IoBuf) \in 0 .. SizeT - 1
          <5>1. buffer.size % IoBuf \in 0 .. buffer.size
            BY <1>0, SpanAssumption
          <5> QED
            BY <5>1, <1>0, SizeTAssumption
        <4> QED
          BY <4>1 DEF TypeOK, Img, Written
      <3>4. [entries |-> Shown, bitmap |-> bitmap] \in Content
        <4>1. \A e \in Lying(DirCursor) : e.ino \in Inodes
          BY LyingIn DEF TypeOK, Entry
        <4> QED
          BY <4>1 DEF TypeOK, Shown, Content
      <3>5. TypeOK'
        BY <3>1, <3>2, <3>3, <3>4 DEF TypeOK
      <3>6. CursorsInside' /\ OnBlock'
        BY <3>1, <3>2, <2>1 DEF CursorsInside, OnBlock, Address
      <3>7. IsDirectory(Written(buffer))
        <4>1. /\ Written(buffer).entries = buffer.entries
              /\ Written(buffer).bs = buffer.bs
          BY DEF Written, TypeOK, Img
        <4> QED
          BY <4>1 DEF Chained, IsDirectory
      <3>8. Chained'
        BY <3>1, <3>7 DEF Chained, TypeOK, IsDirectory
      <3> QED
        BY <3>5, <3>6, <3>8
    <2>3. CASE ~ CanSeek(cur, cur.pos)
      <3>1. Fatal(cur.pos)
        BY <1>10, <2>3 DEF Save
      <3> QED
        BY <3>1, <2>1, FatalIInv
    <2> QED
      BY <2>2, <2>3
  <1>11. CASE Umount
    <2>1. TypeOK' /\ CursorsInside' /\ OnBlock'
      BY <1>11 DEF Umount, memory, TypeOK, CursorsInside, OnBlock, Modes
    <2>2. Chained'
      BY <1>11, SameChains DEF Umount, memory
    <2> QED
      BY <2>1, <2>2
  <1>12. CASE UNCHANGED vars
    <2>1. TypeOK' /\ CursorsInside' /\ OnBlock'
      BY <1>12 DEF vars, memory, TypeOK, CursorsInside, OnBlock, OffsetBlock, Address
    <2>2. Chained'
      BY <1>12, SameChains DEF vars, memory
    <2> QED
      BY <2>1, <2>2
  <1> QED
    BY <1>1, <1>2, <1>3, <1>4, <1>5, <1>6, <1>7, <1>8, <1>9, <1>10, <1>11, <1>12,
       <1>13, <1>14, <1>15, <1>16 DEF Next

\* Each variable keeps its type, and neither cursor leaves the image.
THEOREM CursorsStayInside == Spec => [](TypeOK /\ CursorsInside)
  BY InitIInv, NextIInv, PTL DEF Spec, IInv

\* Each variable keeps its type.
THEOREM TypeCorrect == Spec => []TypeOK
  BY CursorsStayInside, PTL

-----------------------------------------------------------------------------
(* ReachesBlock: the clone reaches the block it is asked for.               *)

\* Where the inode table ends, in bytes.
TableEnd(img) == img.it * img.bs + img.ipg * img.isize

\* The bytes of the inode table behind the cursor after n of its moves.
Walked(img, n) == (n \div 2) * img.isize + (n % 2) * 128

\* The last moves of the walk are those over the inode table; the one before
\* seeks its start; and the cursor is as far in the table as the moves made.
WalkInv ==
  mode = "mounting" /\ IsRegular(buffer) =>
    LET m == 2 * buffer.ipg
        n == Len(walk)
    IN  /\ \A j \in 1 .. n : n - j < m => walk[j] = InodeTable(buffer)[m - (n - j)]
        /\ n > m => walk[n - m] = Seeking(Times32(buffer.bs, buffer.it))
        /\ n <= m => cur.pos = buffer.it * buffer.bs + Walked(buffer, m - n)

\* The clone begins where the table ends, and no block number leads further
\* than 32 bits.
Landed ==
  mode \in {"mounted", "reading"} /\ IsRegular(buffer) =>
    /\ data.start = TableEnd(buffer)
    /\ blocksRead = TableEnd(buffer) \div buffer.bs
    /\ \A i \in Inodes : inodes[i] * buffer.bs < U32

RInv == IInv /\ WalkInv /\ Landed

-----------------------------------------------------------------------------
(* Regular images.                                                         *)

\* What an image has, each with its type and bound.
LEMMA ImgFacts ==
  ASSUME NEW img \in Img
  PROVE  /\ img.bs \in Nat \ {0} /\ img.it \in Nat /\ img.ipg \in Nat /\ img.isize \in Nat
         /\ img.size \in Nat /\ img.size < SizeT
         /\ img.table \in [Inodes -> Nat]
         /\ SizeT \in Nat \ {0} /\ U32 \in Nat \ {0} /\ U32 <= SizeT
         /\ img.it * img.bs \in Nat /\ img.ipg * img.isize \in Nat
         /\ TableEnd(img) \in Nat
  <1>1. /\ img.bs \in Nat \ {0} /\ img.it \in Nat /\ img.ipg \in Nat /\ img.isize \in Nat
        /\ img.size \in 0 .. SizeT - 1 /\ img.table \in [Inodes -> Nat]
    BY DEF Img
  <1>2. SizeT \in Nat \ {0} /\ U32 \in Nat \ {0} /\ U32 <= SizeT
    BY SizeTAssumption, SpanAssumption
  <1>3. img.it * img.bs \in Nat /\ img.ipg * img.isize \in Nat
    BY <1>1, Products
  <1> QED
    BY <1>1, <1>2, <1>3 DEF TableEnd

\* The table ends at the end of a block.
LEMMA TableEndsBlock ==
  ASSUME NEW img \in Img, IsRegular(img)
  PROVE  /\ TableEnd(img) \div img.bs \in Nat
         /\ TableEnd(img) = (TableEnd(img) \div img.bs) * img.bs
         /\ TableEnd(img) < U32
  <1> DEFINE t == img.ipg * img.isize
             q == t \div img.bs
  <1>1. t \in Nat /\ t % img.bs = 0 /\ img.bs \in Nat \ {0} /\ img.it \in Nat
    BY ImgFacts DEF IsRegular
  <1>2. TableEnd(img) = img.it * img.bs + t /\ TableEnd(img) < U32
    BY DEF TableEnd, IsRegular
  <1> HIDE DEF t
  <1>3. q \in Nat /\ t = q * img.bs
    BY <1>1
  <1> HIDE DEF q
  <1>4. TableEnd(img) = (img.it + q) * img.bs
    BY <1>1, <1>2, <1>3, Products
  <1>a. img.it + q \in Nat
    BY <1>1, <1>3
  <1>5. ((img.it + q) * img.bs) \div img.bs = img.it + q
    BY <1>1, <1>a, DivIs
  <1> QED
    BY <1>2, <1>4, <1>5, <1>a

\* A row of the inode table is two moves: a copy and a skip.
LEMMA Halves ==
  ASSUME NEW p \in Nat, NEW n \in Nat, n < 2 * p
  PROVE  /\ n \div 2 \in Nat /\ n \div 2 < p
         /\ \/ n = 2 * (n \div 2) /\ n % 2 = 0
            \/ n = 2 * (n \div 2) + 1 /\ n % 2 = 1
         /\ n % 2 = 0 => (n + 1) \div 2 = n \div 2 /\ (n + 1) % 2 = 1
         /\ n % 2 = 1 => (n + 1) \div 2 = (n \div 2) + 1 /\ (n + 1) % 2 = 0
  OBVIOUS

\* The sums of the walk do not wrap: before each move over a row there is room
\* for it.
LEMMA RowFits ==
  ASSUME NEW img \in Img, IsRegular(img), NEW n \in Nat, n < 2 * img.ipg
  PROVE  /\ Walked(img, n) \in Nat
         /\ n % 2 = 0 => Walked(img, n + 1) = Walked(img, n) + 128
         /\ n % 2 = 1 => Walked(img, n + 1) = Walked(img, n) + (img.isize - 128)
         /\ img.it * img.bs + Walked(img, n + 1) < U32
         /\ img.isize < U32 /\ img.isize >= 128
  <1> DEFINE h == n \div 2
  <1>1. /\ img.ipg \in Nat /\ img.isize \in Nat /\ img.isize >= 128
        /\ img.it * img.bs \in Nat /\ img.it * img.bs + img.ipg * img.isize < U32
        /\ U32 \in Nat
    BY ImgFacts DEF IsRegular
  <1>2. h \in Nat /\ h < img.ipg /\ ((n = 2 * h /\ n % 2 = 0) \/ (n = 2 * h + 1 /\ n % 2 = 1))
    BY <1>1, Halves
  <1>3. /\ n % 2 = 0 => (n + 1) \div 2 = h /\ (n + 1) % 2 = 1
        /\ n % 2 = 1 => (n + 1) \div 2 = h + 1 /\ (n + 1) % 2 = 0
    BY <1>1, Halves
  <1> HIDE DEF h
  <1>4. /\ h * img.isize \in Nat /\ (h + 1) * img.isize = h * img.isize + img.isize
        /\ (h + 1) * img.isize <= img.ipg * img.isize
        /\ 1 * img.isize <= img.ipg * img.isize
    BY <1>1, <1>2, Products
  <1>5. Walked(img, n) = h * img.isize + (n % 2) * 128
    BY DEF Walked, h
  <1>6. CASE n % 2 = 0
    <2>1. Walked(img, n) = h * img.isize /\ Walked(img, n + 1) = h * img.isize + 128
      BY <1>3, <1>4, <1>5, <1>6 DEF Walked
    <2> QED
      BY <1>1, <1>4, <1>6, <2>1
  <1>7. CASE n % 2 = 1
    <2>1. Walked(img, n) = h * img.isize + 128 /\ Walked(img, n + 1) = h * img.isize + img.isize
      BY <1>1, <1>3, <1>4, <1>5, <1>7 DEF Walked
    <2> QED
      BY <1>1, <1>4, <1>7, <2>1
  <1> QED
    BY <1>2, <1>6, <1>7

\* bgOffsetBlock: a block behind the table is reached, and one before it lies,
\* by its wrapped offset, past the end of the image.
LEMMA OffsetReaches ==
  ASSUME NEW bs \in Nat \ {0}, NEW e \in Nat, NEW b \in Nat, e * bs < U32, b * bs < U32
  PROVE  LET o == Times32((U32 + b - e) % U32, bs)
         IN  /\ o \in Nat /\ o < U32
             /\ b >= e => e * bs + o = b * bs
             /\ b < e => e * bs + o >= U32
  <1> DEFINE o == Times32((U32 + b - e) % U32, bs)
  <1>1. U32 \in Nat \ {0}
    BY SpanAssumption
  <1>2. e * bs \in Nat /\ b * bs \in Nat /\ e <= e * bs /\ b <= b * bs
    BY Products
  <1>3. CASE b >= e
    <2> DEFINE d == b - e
    <2>1. d \in Nat /\ d < U32 /\ U32 + b - e = 1 * U32 + d
      BY <1>1, <1>2, <1>3
    <2>2. (1 * U32 + d) % U32 = d
      BY <1>1, <2>1, ModIs
    <2>3. (e + d) * bs = e * bs + d * bs /\ d * bs \in Nat /\ e + d = b
      BY <1>3, <2>1, Products
    <2>4. d * bs < U32
      BY <1>1, <1>2, <2>3
    <2> HIDE DEF d
    <2>5. (0 * U32 + d * bs) % U32 = d * bs
      BY <1>1, <2>3, <2>4, ModIs
    <2>6. 0 * U32 + d * bs = d * bs
      BY <1>1, <2>3
    <2>7. o = d * bs
      BY <2>1, <2>2, <2>5, <2>6 DEF Times32
    <2> HIDE DEF o
    <2>8. o \in Nat /\ o < U32 /\ e * bs + o = b * bs /\ ~ b < e
      BY <1>3, <2>3, <2>4, <2>7
    <2> QED
      BY <2>8 DEF o
  <1>4. CASE b < e
    <2> DEFINE k == e - b
    <2>1. k \in Nat \ {0} /\ k <= e /\ k < U32
      BY <1>1, <1>2, <1>4
    <2>2. b + k = e /\ U32 + b - e = 0 * U32 + (U32 - k) /\ U32 - k \in Nat /\ U32 - k < U32
      BY <1>1, <1>4, <2>1
    <2> HIDE DEF k
    <2>3. k * bs \in Nat /\ k * bs <= e * bs /\ e * bs = b * bs + k * bs /\ k <= k * bs
      BY <2>1, <2>2, Products
    <2>4. k * bs < U32
      BY <1>1, <1>2, <2>3
    <2>5. (0 * U32 + (U32 - k)) % U32 = U32 - k
      BY <1>1, <2>2, ModIs
    <2>6. ((U32 - k) * bs) % U32 = U32 - k * bs
      BY <1>1, <2>1, <2>4, ModLess
    <2>7. o = U32 - k * bs
      BY <2>2, <2>5, <2>6 DEF Times32
    <2> HIDE DEF o
    <2>8. o \in Nat /\ o < U32 /\ e * bs + o >= U32 /\ ~ b >= e
      BY <1>1, <1>2, <1>4, <2>1, <2>3, <2>4, <2>7
    <2> QED
      BY <2>8 DEF o
  <1> QED
    BY <1>3, <1>4

-----------------------------------------------------------------------------
(* The walk.                                                               *)

\* The moves over the inode table are the last ones, behind the seek to it.
LEMMA WalkEnds ==
  ASSUME NEW img \in Img
  PROVE  LET w == Walk(img)
             m == 2 * img.ipg
             n == Len(w)
         IN  /\ n \in Nat /\ n > m
             /\ \A j \in 1 .. n : n - j < m => w[j] = InodeTable(img)[m - (n - j)]
             /\ w[n - m] = Seeking(Times32(img.bs, img.it))
  <1> DEFINE m == 2 * img.ipg
             T == InodeTable(img)
             third == ToTable(img)
             s == Seeking(Times32(img.bs, img.it))
  <1>1. m \in Nat
    BY ImgFacts
  <1>2. PICK h \in Seq(MoveSet) : Walk(img) = (h \o third) \o T
    BY WalkParts
  <1>3. T \in Seq(MoveSet) /\ third \in Seq(MoveSet) /\ Len(T) \in Nat
    BY WalkParts, LenProperties
  <1>4. Len(T) = m
    <2>1. DOMAIN T = 1 .. m
      BY DEF InodeTable
    <2>2. DOMAIN T = 1 .. Len(T)
      BY <1>3, LenProperties
    <2> HIDE DEF T, m
    <2> QED
      BY <1>1, <1>3, <2>1, <2>2
  <1>5. Len(third) = 7 /\ third[7] = s
    BY DEF ToTable
  <1> HIDE DEF T, third, s
  <1> DEFINE front == h \o third
             k == Len(front)
  <1>6. front \in Seq(MoveSet) /\ k \in Nat /\ k >= 7 /\ front[k] = s
    <2>1. Len(h) \in Nat
      BY LenProperties
    <2>2. /\ front \in Seq(MoveSet) /\ k = Len(h) + Len(third)
          /\ \A i \in 1 .. Len(h) + Len(third) :
               front[i] = IF i <= Len(h) THEN h[i] ELSE third[i - Len(h)]
      BY <1>3, ConcatProperties
    <2> HIDE DEF front, k
    <2>3. /\ Len(h) + 7 \in 1 .. Len(h) + Len(third)
          /\ ~ Len(h) + 7 <= Len(h) /\ Len(h) + 7 - Len(h) = 7 /\ k = Len(h) + 7
      BY <1>5, <2>1, <2>2
    <2>4. front[Len(h) + 7] = s
      BY <1>5, <2>2, <2>3
    <2> QED
      BY <2>1, <2>2, <2>3, <2>4
  <1> HIDE DEF front, k
  <1>7. /\ Len(front \o T) = k + m
        /\ \A i \in 1 .. k + m : (front \o T)[i] = IF i <= k THEN front[i] ELSE T[i - k]
    <2>1. /\ Len(front \o T) = Len(front) + Len(T)
          /\ \A i \in 1 .. Len(front) + Len(T) :
               (front \o T)[i] = IF i <= Len(front) THEN front[i] ELSE T[i - Len(front)]
      BY <1>3, <1>6, ConcatProperties
    <2> HIDE DEF m
    <2> QED
      BY <1>4, <2>1 DEF k
  <1>8. Walk(img) = front \o T
    BY <1>2 DEF front
  <1> DEFINE w == Walk(img)
  <1>9. \A j \in 1 .. k + m : (k + m) - j < m => w[j] = T[m - ((k + m) - j)]
    <2>1. SUFFICES ASSUME NEW j \in 1 .. k + m, (k + m) - j < m
                   PROVE  w[j] = T[m - ((k + m) - j)]
      OBVIOUS
    <2> HIDE DEF m
    <2>2. ~ j <= k /\ m - ((k + m) - j) = j - k
      BY <1>1, <1>6, <2>1
    <2> QED
      BY <1>7, <1>8, <2>2
  <1>10. w[(k + m) - m] = s
    <2> HIDE DEF m
    <2>1. (k + m) - m = k /\ k \in 1 .. k + m /\ k <= k
      BY <1>1, <1>6
    <2> QED
      BY <1>6, <1>7, <1>8, <2>1
  <1>11. Len(w) = k + m /\ k + m \in Nat /\ k + m > m
    <2> HIDE DEF m
    <2> QED
      BY <1>1, <1>6, <1>7, <1>8
  <1> HIDE DEF w, m
  <1> QED
    BY <1>9, <1>10, <1>11 DEF w, m, T, s

\* What is left of the walk, after one move of it, ends as it did.
LEMMA TailEnds ==
  ASSUME NEW S, NEW w \in Seq(S), w # <<>>
  PROVE  /\ Len(w) \in Nat /\ Len(w) >= 1 /\ Len(Tail(w)) = Len(w) - 1
         /\ \A j \in 1 .. Len(w) - 1 : Tail(w)[j] = w[j + 1]
         /\ Head(w) = w[1]
  OBVIOUS

\* A move of the main cursor that is the next of the walk.
LEMMA MoveWalks ==
  ASSUME IInv, WalkInv, mode = "mounting", walk # <<>>, NEW c, Move(c),
         IsRegular(buffer),
         LET m == 2 * buffer.ipg
             n == Len(walk)
         IN  /\ n = m + 1 => c.pos = buffer.it * buffer.bs + Walked(buffer, 0)
             /\ n <= m => c.pos = buffer.it * buffer.bs + Walked(buffer, m - n + 1)
  PROVE  WalkInv'
  <1> DEFINE m == 2 * buffer.ipg
             n == Len(walk)
  <1>1. walk \in Seq(MoveSet) /\ m \in Nat
    <2>1. walk \in Seq(MoveSet) /\ buffer \in Img
      BY DEF IInv, TypeOK, MoveSet
    <2>2. buffer.ipg \in Nat
      BY <2>1, ImgFacts
    <2> QED
      BY <2>1, <2>2
  <1>2. /\ n \in Nat /\ n >= 1 /\ Len(Tail(walk)) = n - 1
        /\ \A j \in 1 .. n - 1 : Tail(walk)[j] = walk[j + 1]
    BY <1>1, TailEnds
  <1>3. buffer' = buffer /\ walk' = Tail(walk) /\ cur' = c
    BY DEF Move
  <1>4. /\ \A j \in 1 .. n : n - j < m => walk[j] = InodeTable(buffer)[m - (n - j)]
        /\ n > m => walk[n - m] = Seeking(Times32(buffer.bs, buffer.it))
    BY DEF WalkInv
  <1>5. /\ n = m + 1 => c.pos = buffer.it * buffer.bs + Walked(buffer, 0)
        /\ n <= m => c.pos = buffer.it * buffer.bs + Walked(buffer, m - n + 1)
    OBVIOUS
  <1>6. m' = m /\ Len(walk') = n - 1
    BY <1>2, <1>3
  <1>7. InodeTable(buffer') = InodeTable(buffer)
    BY <1>3
  <1> HIDE DEF m, n
  <1>8. \A j \in 1 .. n - 1 : (n - 1) - j < m => walk'[j] = InodeTable(buffer)[m - ((n - 1) - j)]
    <2>1. SUFFICES ASSUME NEW j \in 1 .. n - 1, (n - 1) - j < m
                   PROVE  walk'[j] = InodeTable(buffer)[m - ((n - 1) - j)]
      OBVIOUS
    <2>2. j + 1 \in 1 .. n /\ n - (j + 1) < m /\ m - (n - (j + 1)) = m - ((n - 1) - j)
      BY <1>1, <1>2, <2>1
    <2> QED
      BY <1>2, <1>3, <1>4, <2>2
  <1>9. n - 1 > m => walk'[(n - 1) - m] = Seeking(Times32(buffer.bs, buffer.it))
    <2>1. SUFFICES ASSUME n - 1 > m
                   PROVE  walk'[(n - 1) - m] = Seeking(Times32(buffer.bs, buffer.it))
      OBVIOUS
    <2>2. (n - 1) - m \in 1 .. n - 1 /\ (n - 1) - m + 1 = n - m /\ n > m
      BY <1>1, <1>2, <2>1
    <2> QED
      BY <1>2, <1>3, <1>4, <2>2
  <1>10. n - 1 <= m => c.pos = buffer.it * buffer.bs + Walked(buffer, m - (n - 1))
    <2>1. CASE n = m + 1
      <3>1. m - (n - 1) = 0
        BY <1>1, <1>2, <2>1
      <3> QED
        BY <1>5, <2>1, <3>1
    <2>2. CASE n # m + 1
      <3>1. n - 1 <= m => n <= m
        BY <1>1, <1>2, <2>2
      <3>2. m - (n - 1) = m - n + 1
        BY <1>1, <1>2
      <3> QED
        BY <1>5, <3>1, <3>2
    <2> QED
      BY <2>1, <2>2
  <1> QED
    BY <1>3, <1>6, <1>7, <1>8, <1>9, <1>10 DEF WalkInv, m, n

\* What the next move of the walk is, once the table is reached or is next.
LEMMA NextMove ==
  ASSUME IInv, WalkInv, mode = "mounting", walk # <<>>, IsRegular(buffer)
  PROVE  LET m == 2 * buffer.ipg
             n == Len(walk)
         IN  /\ m \in Nat /\ n \in Nat /\ n >= 1
             /\ n = m + 1 => Head(walk) = Seeking(Times32(buffer.bs, buffer.it))
             /\ n <= m =>
                  /\ m - n \in Nat /\ m - n < m
                  /\ cur.pos = buffer.it * buffer.bs + Walked(buffer, m - n)
                  /\ Head(walk) = IF (m - n) % 2 = 0 THEN Copying(128)
                                  ELSE Skipping((SizeT + buffer.isize - 128) % SizeT)
  <1> DEFINE m == 2 * buffer.ipg
             n == Len(walk)
  <1>1. walk \in Seq(MoveSet) /\ buffer \in Img
    BY DEF IInv, TypeOK, MoveSet
  <1>2. m \in Nat
    <2>1. buffer.ipg \in Nat
      BY <1>1, ImgFacts
    <2> QED
      BY <2>1
  <1>3. n \in Nat /\ n >= 1 /\ Head(walk) = walk[1]
    BY <1>1, TailEnds
  <1>4. /\ \A j \in 1 .. n : n - j < m => walk[j] = InodeTable(buffer)[m - (n - j)]
        /\ n > m => walk[n - m] = Seeking(Times32(buffer.bs, buffer.it))
        /\ n <= m => cur.pos = buffer.it * buffer.bs + Walked(buffer, m - n)
    BY DEF WalkInv
  <1>5. \A j \in 1 .. m : InodeTable(buffer)[j] =
          IF j % 2 = 1 THEN Copying(128) ELSE Skipping((SizeT + buffer.isize - 128) % SizeT)
    BY DEF InodeTable
  <1> HIDE DEF m, n
  <1>6. n = m + 1 => Head(walk) = Seeking(Times32(buffer.bs, buffer.it))
    <2>1. n = m + 1 => n - m = 1 /\ n > m
      BY <1>2, <1>3
    <2> QED
      BY <1>3, <1>4, <2>1
  <1>7. ASSUME n <= m
        PROVE  /\ m - n \in Nat /\ m - n < m
               /\ Head(walk) = IF (m - n) % 2 = 0 THEN Copying(128)
                               ELSE Skipping((SizeT + buffer.isize - 128) % SizeT)
    <2>1. m - n \in Nat /\ m - n < m /\ 1 \in 1 .. n /\ n - 1 < m /\ m - (n - 1) = m - n + 1
      BY <1>2, <1>3, <1>7
    <2>2. walk[1] = InodeTable(buffer)[m - n + 1]
      BY <1>4, <2>1
    <2>3. m - n + 1 \in 1 .. m /\ ((m - n + 1) % 2 = 1 <=> (m - n) % 2 = 0)
      BY <1>2, <1>3, <1>7, <2>1
    <2> QED
      BY <1>3, <1>5, <2>1, <2>2, <2>3
  <1> QED
    BY <1>2, <1>3, <1>4, <1>6, <1>7 DEF m, n

\* A move takes the cursor as far as the walk says.
LEMMA StepWalk ==
  ASSUME IInv, WalkInv, [Next]_vars
  PROVE  WalkInv'
  <1>1. CASE mode' # "mounting"
    BY <1>1 DEF WalkInv
  <1>2. CASE mode' = mode /\ buffer' = buffer /\ walk' = walk /\ cur' = cur
    BY <1>2 DEF WalkInv
  <1>3. ASSUME NEW f \in File, Mount(f) PROVE WalkInv'
    <2>1. files[f] \in Img /\ buffer' = files[f] /\ walk' = Walk(files[f])
      BY <1>3 DEF Mount, IInv, TypeOK
    <2> DEFINE img == files[f]
               m == 2 * img.ipg
               n == Len(Walk(img))
    <2>2. m \in Nat
      <3>1. img.ipg \in Nat
        BY <2>1, ImgFacts
      <3> QED
        BY <3>1
    <2>3. /\ n \in Nat /\ n > m
          /\ \A j \in 1 .. n : n - j < m => Walk(img)[j] = InodeTable(img)[m - (n - j)]
          /\ Walk(img)[n - m] = Seeking(Times32(img.bs, img.it))
      BY <2>1, WalkEnds
    <2>4. ~ n <= m
      <3> HIDE DEF n, m
      <3> QED
        BY <2>2, <2>3
    <2> QED
      BY <2>1, <2>3, <2>4 DEF WalkInv
  <1>4. CASE WalkOn \/ WalkSeek \/ CheckMagic
    <2> SUFFICES ASSUME mode' = "mounting", IsRegular(buffer)'
                 PROVE  WalkInv'
      BY DEF WalkInv
    <2> DEFINE v == Head(walk).n
               m == 2 * buffer.ipg
               n == Len(walk)
               k == m - n
               base == buffer.it * buffer.bs
    <2>1. mode = "mounting" /\ walk # <<>>
      BY <1>4 DEF WalkOn, WalkSeek, CheckMagic, Walking
    <2>2. \/ WalkOn /\ Move(Skip(cur, v)) /\ Head(walk).op \in {"skip", "copy"}
          \/ WalkSeek /\ Move(Seek(cur, v)) /\ Head(walk).op = "seek"
          \/ CheckMagic /\ Move(cur) /\ Head(walk).op = "magic"
      BY <1>4 DEF WalkOn, WalkSeek, CheckMagic, Walking, Fatal
    <2>3. IsRegular(buffer)
      BY <2>2 DEF Move
    <2>4. /\ m \in Nat /\ n \in Nat /\ n >= 1
          /\ n = m + 1 => Head(walk) = Seeking(Times32(buffer.bs, buffer.it))
          /\ n <= m =>
               /\ k \in Nat /\ k < m
               /\ cur.pos = base + Walked(buffer, k)
               /\ Head(walk) = IF k % 2 = 0 THEN Copying(128)
                               ELSE Skipping((SizeT + buffer.isize - 128) % SizeT)
      BY <2>1, <2>3, NextMove
    <2>5. /\ buffer \in Img /\ cur \in Cursor
          /\ base \in Nat /\ buffer.it \in Nat /\ buffer.bs \in Nat /\ buffer.isize \in Nat
          /\ SizeT \in Nat \ {0} /\ U32 \in Nat /\ U32 <= SizeT
          /\ TableEnd(buffer) < U32 /\ buffer.ipg * buffer.isize \in Nat
      BY <2>3, ImgFacts, TableEndsBlock DEF IInv, TypeOK
    <2>6. ASSUME NEW c, n = m + 1, WalkSeek, c = Seek(cur, v)
          PROVE  c.pos = base + Walked(buffer, 0)
      <3>1. v = Times32(buffer.bs, buffer.it)
        BY <2>4, <2>6 DEF Seeking
      <3>2. buffer.bs * buffer.it = base
        BY <2>5
      <3>3. base < U32
        BY <2>5 DEF TableEnd
      <3> HIDE DEF base, v
      <3>4. v = base
        <4>1. (0 * U32 + base) % U32 = base
          BY <2>5, <3>3, ModIs, SpanAssumption
        <4>2. 0 * U32 + base = base
          BY <2>5
        <4> QED
          BY <3>1, <3>2, <4>1, <4>2 DEF Times32
      <3>5. (0 + v) % SizeT = base
        <4>1. (0 * SizeT + base) % SizeT = base
          BY <2>5, <3>3, ModIs
        <4>2. 0 * SizeT + base = base /\ 0 + base = base
          BY <2>5
        <4> QED
          BY <3>4, <4>1, <4>2
      <3>6. Seek(cur, v).pos = (0 + v) % SizeT
        BY <2>5 DEF Seek, SeekStart, Skip, Cursor
      <3>7. Walked(buffer, 0) = 0
        <4>1. 0 \div 2 = 0 /\ 0 % 2 = 0 /\ 0 * buffer.isize = 0
          BY <2>5
        <4> QED
          BY <4>1 DEF Walked
      <3> QED
        BY <2>5, <2>6, <3>5, <3>6, <3>7
    <2>7. ASSUME NEW c, n <= m, WalkOn, c = Skip(cur, v)
          PROVE  c.pos = base + Walked(buffer, k + 1)
      <3>1. k \in Nat /\ k < m /\ cur.pos = base + Walked(buffer, k)
        BY <2>4, <2>7
      <3>2. /\ Walked(buffer, k) \in Nat
            /\ k % 2 = 0 => Walked(buffer, k + 1) = Walked(buffer, k) + 128
            /\ k % 2 = 1 => Walked(buffer, k + 1) = Walked(buffer, k) + (buffer.isize - 128)
            /\ base + Walked(buffer, k + 1) < U32
            /\ buffer.isize < U32 /\ buffer.isize >= 128
        <4> HIDE DEF k
        <4> QED
          BY <2>3, <2>5, <3>1, RowFits
      <3>3. v \in Nat /\ Walked(buffer, k + 1) = Walked(buffer, k) + v
        <4>1. CASE k % 2 = 0
          BY <2>4, <2>7, <3>2, <4>1 DEF Copying
        <4>2. CASE k % 2 # 0
          <5> DEFINE d == buffer.isize - 128
          <5>1. d \in Nat /\ d < SizeT /\ SizeT + buffer.isize - 128 = 1 * SizeT + d
            BY <2>5, <3>2
          <5>2. (1 * SizeT + d) % SizeT = d
            BY <2>5, <5>1, ModIs
          <5>3. v = d
            BY <2>4, <2>7, <4>2, <5>1, <5>2 DEF Skipping
          <5>4. k % 2 = 1
            BY <3>1, <4>2
          <5> QED
            BY <3>2, <5>1, <5>3, <5>4
        <4> QED
          BY <4>1, <4>2
      <3> HIDE DEF v, k
      <3>4. cur.pos + v = base + Walked(buffer, k + 1) /\ cur.pos + v \in Nat /\ cur.pos + v < SizeT
        BY <2>5, <3>1, <3>2, <3>3
      <3>5. (cur.pos + v) % SizeT = cur.pos + v
        <4> DEFINE x == cur.pos + v
        <4>1. x \in Nat /\ x < SizeT
          BY <3>4
        <4> HIDE DEF x
        <4>2. (0 * SizeT + x) % SizeT = x /\ 0 * SizeT + x = x
          BY <2>5, <4>1, ModIs
        <4> QED
          BY <4>2 DEF x
      <3>6. Skip(cur, v).pos = (cur.pos + v) % SizeT
        BY <2>5 DEF Skip, Cursor
      <3> QED
        BY <2>7, <3>4, <3>5, <3>6
    <2>8. PICK c : Move(c) /\ (n = m + 1 => c.pos = base + Walked(buffer, 0))
                   /\ (n <= m => c.pos = base + Walked(buffer, m - n + 1))
      <3>1. n = m + 1 => Head(walk).op = "seek"
        BY <2>4 DEF Seeking
      <3>2. n <= m => Head(walk).op \in {"skip", "copy"}
        BY <2>4 DEF Copying, Skipping
      <3> HIDE DEF v, m, n, base
      <3> QED
        BY <2>2, <2>6, <2>7, <3>1, <3>2 DEF k
    <2> QED
      BY <2>1, <2>3, <2>8, MoveWalks
  <1>5. CASE BadMagic \/ FinishMount \/ Umount
    BY <1>1, <1>5 DEF BadMagic, FinishMount, Umount
  <1>6. ASSUME NEW i, SeekBlock(i) \/ Delete(i) \/ DeleteFatal(i) PROVE WalkInv'
    BY <1>1, <1>6 DEF SeekBlock, Delete, DeleteFatal, FatalIn, Fatal
  <1>7. CASE ReadFile \/ ReadDir \/ ReadDirFatal \/ ReadNoDir
    BY <1>1, <1>7 DEF ReadFile, ReadDir, ReadDirFatal, ReadNoDir, ReadTo, FatalIn, Fatal
  <1>8. ASSUME NEW f \in File, Save(f) PROVE WalkInv'
    BY <1>1, <1>8 DEF Save, Fatal
  <1>9. CASE UNCHANGED vars
    BY <1>2, <1>9 DEF vars, memory
  <1> QED
    BY <1>3, <1>4, <1>5, <1>6, <1>7, <1>8, <1>9 DEF Next

-----------------------------------------------------------------------------
(* The clone.                                                              *)

\* The walk is over with the cursor right behind the table.
LEMMA FinishLands ==
  ASSUME IInv, WalkInv, FinishMount
  PROVE  Landed'
  <1>1. /\ mode = "mounting" /\ walk = <<>> /\ data' = Clone(cur)
        /\ blocksRead' = cur.pos \div buffer.bs
        /\ buffer' = buffer /\ inodes' = buffer.table
    BY DEF FinishMount, ReadSoFar
  <1> SUFFICES ASSUME IsRegular(buffer)
               PROVE  /\ data'.start = TableEnd(buffer)
                      /\ blocksRead' = TableEnd(buffer) \div buffer.bs
                      /\ \A i \in Inodes : buffer.table[i] * buffer.bs < U32
    BY <1>1 DEF Landed
  <1> DEFINE m == 2 * buffer.ipg
  <1>2. /\ buffer.ipg \in Nat /\ buffer.isize \in Nat
        /\ buffer.ipg * buffer.isize \in Nat /\ buffer.it * buffer.bs \in Nat
    BY ImgFacts DEF IInv, TypeOK
  <1>3. cur.pos = buffer.it * buffer.bs + Walked(buffer, m)
    <2>1. Len(walk) = 0 /\ 0 <= m /\ m - 0 = m
      BY <1>1, <1>2
    <2>2. Len(walk) <= m => cur.pos = buffer.it * buffer.bs + Walked(buffer, m - Len(walk))
      BY <1>1 DEF WalkInv
    <2> HIDE DEF m
    <2> QED
      BY <2>1, <2>2
  <1>4. Walked(buffer, m) = buffer.ipg * buffer.isize
    <2>1. m \div 2 = buffer.ipg /\ m % 2 = 0
      BY <1>2
    <2> QED
      BY <1>2, <2>1 DEF Walked
  <1>5. cur.start = 0
    BY <1>1 DEF IInv, CursorsInside
  <1>6. cur.pos = TableEnd(buffer)
    BY <1>3, <1>4 DEF TableEnd
  <1>7. data'.start = TableEnd(buffer)
    <2>1. data'.start = cur.start + cur.pos /\ TableEnd(buffer) \in Nat
      BY <1>1, ImgFacts DEF Clone, IInv, TypeOK
    <2> QED
      BY <1>5, <1>6, <2>1
  <1> QED
    BY <1>1, <1>6, <1>7 DEF IsRegular

\* What a deletion changes of the image is only what its directory lists.
LEMMA DeleteLands ==
  ASSUME IInv, Landed, NEW v \in buffer.entries, Delete(v)
  PROVE  Landed'
  <1>1. /\ mode = "reading" /\ blocksRead' = blocksRead
        /\ buffer' = [buffer EXCEPT !.entries = Without(v)]
        /\ inodes' = [inodes EXCEPT ![v.ino] = 0]
    BY DEF Delete, CanList
  <1>2. /\ buffer \in Img /\ inodes \in [Inodes -> Nat]
    BY DEF IInv, TypeOK
  <1>3. /\ buffer'.it = buffer.it /\ buffer'.bs = buffer.bs /\ buffer'.ipg = buffer.ipg
        /\ buffer'.isize = buffer.isize /\ buffer'.size = buffer.size
        /\ buffer'.table = buffer.table
    BY <1>1, <1>2 DEF Img
  <1>4. IsRegular(buffer') <=> IsRegular(buffer)
    BY <1>3 DEF IsRegular
  <1>5. TableEnd(buffer') = TableEnd(buffer)
    BY <1>3 DEF TableEnd
  <1>6. data'.start = data.start
    BY DeletedInside
  <1>7. \A i \in Inodes : inodes'[i] = inodes[i] \/ inodes'[i] = 0
    BY <1>1, <1>2
  <1>8. 0 * buffer.bs = 0 /\ 0 < U32
    BY <1>2, ImgFacts
  <1> QED
    BY <1>1, <1>3, <1>4, <1>5, <1>6, <1>7, <1>8 DEF Landed

\* Every other step leaves the start of the clone.
LEMMA StepLanded ==
  ASSUME IInv, WalkInv, Landed, [Next]_vars
  PROVE  Landed'
  <1>1. data \in Cursor
    BY DEF IInv, TypeOK
  <1>2. ASSUME NEW f \in File, Mount(f) PROVE Landed'
    BY <1>2 DEF Mount, Landed
  <1>3. CASE WalkOn \/ WalkSeek \/ CheckMagic
    BY <1>3 DEF WalkOn, WalkSeek, CheckMagic, Walking, Move, Fatal, Landed
  <1>4. CASE BadMagic \/ Umount
    BY <1>4 DEF BadMagic, Umount, Landed
  <1>5. CASE FinishMount
    BY <1>5, FinishLands
  <1>6. ASSUME NEW i, SeekBlock(i) PROVE Landed'
    <2>1. \/ Fatal(data.start + OffsetBlock(inodes[i]))
          \/ /\ data' = Seek(data, OffsetBlock(inodes[i]))
             /\ UNCHANGED <<buffer, blocksRead, inodes>>
      BY <1>6 DEF SeekBlock
    <2>2. Seek(data, OffsetBlock(inodes[i])).start = data.start
      BY <1>1 DEF Seek, Skip, SeekStart, Cursor
    <2>3. mode \in {"mounted", "reading"}
      BY <1>6 DEF SeekBlock, CanList
    <2> QED
      BY <2>1, <2>2, <2>3 DEF Fatal, Landed
  <1>7. ASSUME NEW v \in buffer.entries, Delete(v) \/ DeleteFatal(v) PROVE Landed'
    <2>1. CASE Delete(v)
      BY <2>1, DeleteLands
    <2>2. CASE DeleteFatal(v)
      BY <2>2 DEF DeleteFatal, FatalIn, Fatal, Landed
    <2> QED
      BY <1>7, <2>1, <2>2
  <1>8. CASE ReadFile \/ ReadDir
    <2>1. mode = "reading" /\ ((\E end : Fatal(end)) \/ (\E n : ReadTo(Advance(data, n))))
      BY <1>8 DEF ReadFile, ReadDir, CanList
    <2>2. \A n : Advance(data, n).start = data.start
      BY <1>1 DEF Advance, Cursor
    <2> QED
      BY <2>1, <2>2 DEF Fatal, ReadTo, Landed
  <1>11. CASE ReadDirFatal \/ ReadNoDir
    BY <1>11 DEF ReadDirFatal, ReadNoDir, FatalIn, Fatal, Landed
  <1>9. ASSUME NEW f \in File, Save(f) PROVE Landed'
    BY <1>9 DEF Save, Fatal, Landed
  <1>10. CASE UNCHANGED vars
    BY <1>10 DEF vars, memory, Landed
  <1> QED
    BY <1>2, <1>3, <1>4, <1>5, <1>6, <1>7, <1>8, <1>9, <1>10, <1>11 DEF Next

\* Nothing is mounted at first.
LEMMA InitRInv == Init => RInv
  <1> SUFFICES ASSUME Init PROVE RInv
    OBVIOUS
  <1>1. IInv
    BY InitIInv
  <1>2. WalkInv /\ Landed
    BY DEF Init, WalkInv, Landed
  <1> QED
    BY <1>1, <1>2 DEF RInv

\* No step breaks the invariant.
LEMMA StepRInv == RInv /\ [Next]_vars => RInv'
  BY NextIInv, StepWalk, StepLanded DEF RInv

-----------------------------------------------------------------------------
(* What follows.                                                           *)

\* What the invariant says of the cursor is the block that was asked for.
LEMMA RInvReaches == RInv => ReachesBlock
  <1> SUFFICES ASSUME RInv, mode = "reading", IsRegular(buffer)
               PROVE  Address(data) = inodes[target] * buffer.bs
    BY DEF ReachesBlock
  <1> DEFINE b == inodes[target]
             e == blocksRead
             bs == buffer.bs
             o == Times32((U32 + b - e) % U32, bs)
  <1>1. /\ buffer \in Img /\ data \in Cursor /\ b \in Nat /\ e \in Nat
    BY DEF RInv, IInv, TypeOK
  <1>2. /\ bs \in Nat \ {0} /\ SizeT \in Nat \ {0} /\ U32 \in Nat \ {0} /\ U32 <= SizeT
        /\ buffer.size \in Nat /\ buffer.size < U32
    BY <1>1, ImgFacts DEF IsRegular
  <1>3. /\ data.start = TableEnd(buffer) /\ e = TableEnd(buffer) \div bs /\ b * bs < U32
    BY DEF RInv, Landed, IInv, TypeOK
  <1>4. data.start = e * bs /\ e * bs < U32 /\ e * bs \in Nat
    BY <1>1, <1>3, TableEndsBlock, ImgFacts
  <1>5. /\ o \in Nat /\ o < U32
        /\ b >= e => e * bs + o = b * bs
        /\ b < e => e * bs + o >= U32
    <2> HIDE DEF b, e, bs
    <2> QED
      BY <1>1, <1>2, <1>3, <1>4, OffsetReaches DEF o
  <1>6. data.pos = (0 + o) % SizeT
    <2>1. data = Seek(data, OffsetBlock(inodes[target]))
      BY DEF RInv, IInv, OnBlock
    <2>2. OffsetBlock(inodes[target]) = o
      BY DEF OffsetBlock
    <2> HIDE DEF o
    <2>3. Seek(data, o).pos = (0 + o) % SizeT
      BY <1>1 DEF Seek, Skip, SeekStart, Cursor
    <2> QED
      BY <2>1, <2>2, <2>3
  <1> HIDE DEF o
  <1>7. data.pos = o
    <2>1. (0 * SizeT + o) % SizeT = o
      BY <1>2, <1>5, ModIs
    <2>2. 0 * SizeT + o = 0 + o
      BY <1>2, <1>5
    <2> QED
      BY <1>6, <2>1, <2>2
  <1>8. Address(data) < buffer.size /\ Address(data) = e * bs + o
    BY <1>4, <1>7 DEF RInv, IInv, CursorsInside, Address
  <1> HIDE DEF b, e, bs
  <1>9. b >= e
    BY <1>1, <1>2, <1>4, <1>5, <1>8
  <1> QED
    BY <1>5, <1>8, <1>9 DEF b, bs

\* bgOffsetBlock: in every image whose inode table fills whole blocks and whose
\* offsets fit 32 bits, whatever its block numbers, the block that a command
\* reads is the one the inode names: a block before the clone, whose offset
\* wraps, is refused.
THEOREM ReachesTheBlock == Spec => []ReachesBlock
  <1>1. Init => RInv
    BY InitRInv
  <1>2. RInv /\ [Next]_vars => RInv'
    BY StepRInv
  <1>3. RInv => ReachesBlock
    BY RInvReaches
  <1> QED
    BY <1>1, <1>2, <1>3, PTL DEF Spec
-----------------------------------------------------------------------------
(* What a saved file keeps.                                                *)

\* All inode words of a directory lie in the image.
Whole(img) == \A e \in img.entries : e \in Present(img)

\* The directory's first block, in bytes.
DirAt(img) == img.table[DirIno] * img.bs

\* The clone of a mounted img would reach its directory's block.
CanReach(img) ==
  /\ IsRegular(img) /\ img.size + IoBuf <= U32
  /\ TableEnd(img) \div img.bs <= img.table[DirIno]

\* What was shown when a file was saved is what the file holds, unless the end
\* of the directory was kept back; and rm releases no directory.
SavedListing ==
  /\ mode \in {"mounted", "reading"} => inodes[DirIno] = buffer.table[DirIno]
  /\ mode = "mounting" => mounted \in File /\ buffer = files[mounted]
  /\ \A f \in File :
       atSave[f] # <<>> /\ CanReach(files[f]) =>
         /\ files[f].place # DirAt(files[f]) => atSave[f].entries = {}
         /\ files[f].place = DirAt(files[f]) /\ Whole(files[f]) =>
              atSave[f].entries = {e.ino : e \in files[f].entries}

ReachesDir ==
  IInv /\ Landed /\ mode \in {"mounted", "reading"} /\ IsRegular(buffer) =>
    /\ blocksRead = TableEnd(buffer) \div buffer.bs
    /\ blocksRead <= inodes[DirIno] =>
         Address(DirCursor) = inodes[DirIno] * buffer.bs
    /\ CanSeek(data, OffsetBlock(inodes[DirIno])) => blocksRead <= inodes[DirIno]
    /\ DirCursor.start + DirCursor.size = buffer.size
    /\ DirCursor.start \in Nat /\ DirCursor.pos \in Nat /\ DirCursor.size \in Nat

\* Where the clone looks for the directory, and that a seek there which is not
\* refused has not wrapped.
LEMMA DirReached == ReachesDir
  <1> SUFFICES ASSUME IInv, Landed, mode \in {"mounted", "reading"}, IsRegular(buffer)
               PROVE  /\ blocksRead = TableEnd(buffer) \div buffer.bs
                      /\ blocksRead <= inodes[DirIno] =>
                           Address(DirCursor) = inodes[DirIno] * buffer.bs
                      /\ CanSeek(data, OffsetBlock(inodes[DirIno])) =>
                           blocksRead <= inodes[DirIno]
                      /\ DirCursor.start + DirCursor.size = buffer.size
                      /\ DirCursor.start \in Nat /\ DirCursor.pos \in Nat
                      /\ DirCursor.size \in Nat
    BY DEF ReachesDir
  <1> DEFINE b == inodes[DirIno]
             e == blocksRead
             bs == buffer.bs
             o == Times32((U32 + b - e) % U32, bs)
  <1>1. buffer \in Img /\ data \in Cursor /\ b \in Nat /\ e \in Nat
    BY DEF IInv, TypeOK, Inodes
  <1>2. /\ bs \in Nat \ {0} /\ SizeT \in Nat \ {0} /\ U32 \in Nat \ {0} /\ U32 <= SizeT
        /\ buffer.size \in Nat /\ buffer.size < U32
    BY <1>1, ImgFacts DEF IsRegular
  <1>3. /\ data.start = TableEnd(buffer) /\ e = TableEnd(buffer) \div bs /\ b * bs < U32
    BY DEF Landed, Inodes
  <1>4. data.start = e * bs /\ e * bs < U32 /\ e * bs \in Nat
    BY <1>1, <1>3, TableEndsBlock, ImgFacts
  <1>5. /\ o \in Nat /\ o < U32
        /\ b >= e => e * bs + o = b * bs
        /\ b < e => e * bs + o >= U32
    <2> HIDE DEF b, e, bs
    <2> QED
      BY <1>1, <1>2, <1>3, <1>4, OffsetReaches DEF o
  <1>6. OffsetBlock(inodes[DirIno]) = o
    BY DEF OffsetBlock
  <1> HIDE DEF o
  <1>7. (0 + o) % SizeT = o
    <2>1. (0 * SizeT + o) % SizeT = o
      BY <1>2, <1>5, ModIs
    <2>2. 0 * SizeT + o = 0 + o
      BY <1>2, <1>5
    <2> QED
      BY <2>1, <2>2
  <1>8. /\ DirCursor.pos = o /\ DirCursor.start = data.start
        /\ DirCursor.size = data.size
    BY <1>1, <1>6, <1>7 DEF DirCursor, Seek, Skip, SeekStart, Cursor
  <1>9. /\ data.start + data.size = buffer.size
        /\ data.size \in Nat /\ data.start \in Nat
    BY <1>1, SizeTAssumption DEF IInv, CursorsInside, Cursor
  <1>10. CanSeek(data, o) => o < data.size
    BY <1>1, <1>7 DEF CanSeek, InBounds, SeekStart, Cursor
  <1> HIDE DEF b, e, bs
  <1>11. CanSeek(data, o) => e <= b
    BY <1>1, <1>2, <1>4, <1>5, <1>9, <1>10
  <1>12. e <= b => Address(DirCursor) = b * bs
    BY <1>1, <1>4, <1>5, <1>8 DEF Address
  <1> QED
    BY <1>3, <1>5, <1>6, <1>8, <1>9, <1>11, <1>12 DEF b, e, bs

ListsWhole ==
  IInv /\ mode \in {"mounted", "reading"} /\ Refused(DirCursor) = {}
    /\ Address(DirCursor) = buffer.place
    /\ DirCursor.start + DirCursor.size = buffer.size
    /\ DirCursor.pos \in Nat /\ DirCursor.start \in Nat /\ DirCursor.size \in Nat =>
      Whole(buffer)

\* A listing of which nothing is refused meets every entry: the first at the
\* start of the block, every other where the one before it leads.
LEMMA ListedWhole == ListsWhole
  <1> DEFINE c == DirCursor
             es == buffer.entries
  <1> SUFFICES ASSUME IInv, Refused(c) = {}, Address(c) = buffer.place,
                      c.start + c.size = buffer.size,
                      c.pos \in Nat, c.start \in Nat, c.size \in Nat
               PROVE  Whole(buffer)
    BY DEF ListsWhole
  <1> HIDE DEF c
  <1>1. /\ buffer.place \in Nat /\ buffer.size \in Nat /\ buffer.bs \in Nat
        /\ \A e \in es : e.off \in Nat /\ e.len \in Nat
    <2>1. buffer \in Img
      BY DEF IInv, TypeOK
    <2> QED
      BY <2>1, ImgFacts DEF Img, Entry
  <1>2. Lying(c) = Present(buffer)
    BY DEF Lying
  <1>3. /\ \A e \in es : e.off < buffer.bs
        /\ \A e \in es : e.off # 0 => \E d \in es : d.off < e.off /\ d.off + d.len = e.off
    BY DEF IInv, Chained, IsDirectory, IsChain
  <1>4. \A a \in Accesses(c) : ~ c.pos + a.from + a.asks >= c.size
    BY DEF Refused
  <1>5. buffer.place = c.start + c.pos
    BY DEF Address
  <1> DEFINE missed == {n \in Nat : \E e \in es : e.off = n /\ e \notin Present(buffer)}
  <1> SUFFICES ASSUME missed # {} PROVE FALSE
    BY <1>1 DEF Whole
  <1>6. PICK n \in missed : \A m \in missed : n <= m
    <2>1. missed \in SUBSET Nat
      OBVIOUS
    <2> HIDE DEF missed
    <2> QED
      BY <2>1, LeastMember
  <1>7. PICK e \in es : e.off = n /\ e \notin Present(buffer)
    BY <1>6
  <1>8. e.off + 4 > c.size - c.pos
    BY <1>1, <1>5, <1>7 DEF Present
  <1>9. CASE e.off = 0
    <2>1. Access(0, 32, 4) \in Accesses(c)
      BY DEF Accesses
    <2>2. ~ c.pos + 0 + 32 >= c.size
      BY <1>4, <2>1 DEF Access
    <2> QED
      BY <1>8, <1>9, <2>2
  <1>10. CASE e.off # 0
    <2>1. PICK d \in es : d.off < e.off /\ d.off + d.len = e.off
      BY <1>3, <1>7, <1>10
    <2>2. d \in Present(buffer)
      BY <1>1, <1>6, <1>7, <2>1
    <2>3. Access(d.off + d.len, 32, 4) \in Accesses(c)
      BY <1>2, <1>3, <2>1, <2>2 DEF Accesses
    <2>4. ~ c.pos + (d.off + d.len) + 32 >= c.size
      BY <1>4, <2>3 DEF Access
    <2> QED
      BY <1>1, <1>8, <2>1, <2>4
  <1> QED
    BY <1>9, <1>10
\* What stdio has let through of an image differs from it in size alone.
LEMMA WrittenIs ==
  ASSUME IInv
  PROVE  LET img == Written(buffer)
         IN  /\ img.size \in Nat /\ img.size <= buffer.size
             /\ buffer.size < img.size + IoBuf
             /\ img = [buffer EXCEPT !.size = img.size]
             /\ img.entries = buffer.entries /\ img.place = buffer.place
             /\ img.table = buffer.table /\ img.bs = buffer.bs
             /\ TableEnd(img) = TableEnd(buffer)
             /\ IsRegular(img) /\ img.size + IoBuf <= U32 => IsRegular(buffer)
             /\ Whole(img) => Whole(buffer)
  <1> DEFINE img == Written(buffer)
  <1>1. buffer \in Img /\ buffer.size \in Nat /\ U32 \in Nat
    BY ImgFacts DEF IInv, TypeOK
  <1>2. buffer.size % IoBuf \in 0 .. buffer.size /\ buffer.size % IoBuf < IoBuf
    BY <1>1, SpanAssumption
  <1>3. /\ img = [buffer EXCEPT !.size = img.size]
        /\ img.size = buffer.size - (buffer.size % IoBuf)
        /\ img.entries = buffer.entries /\ img.place = buffer.place
        /\ img.table = buffer.table /\ img.bs = buffer.bs
        /\ img.it = buffer.it /\ img.ipg = buffer.ipg /\ img.isize = buffer.isize
    BY <1>1 DEF Written, Img
  <1>4. img.size \in Nat /\ img.size <= buffer.size /\ buffer.size < img.size + IoBuf
    BY <1>1, <1>2, <1>3, SpanAssumption
  <1>5. TableEnd(img) = TableEnd(buffer)
    BY <1>3 DEF TableEnd
  <1> HIDE DEF img
  <1>6. IsRegular(img) /\ img.size + IoBuf <= U32 => IsRegular(buffer)
    BY <1>1, <1>3, <1>4, SpanAssumption DEF IsRegular
  <1>7. Whole(img) => Whole(buffer)
    <2>1. \A e \in buffer.entries : e.off \in Nat /\ buffer.place \in Nat
      BY <1>1 DEF Img, Entry
    <2>2. \A e \in buffer.entries : e \in Present(img) => e \in Present(buffer)
      BY <1>1, <1>3, <1>4, <2>1 DEF Present
    <2> QED
      BY <1>3, <2>2 DEF Whole
  <1> QED
    BY <1>3, <1>4, <1>5, <1>6, <1>7 DEF img

\* A save notes what memory holds and what of it the file can show again; no
\* other step changes a file.
LEMMA StepListing ==
  ASSUME RInv, SavedListing, [Next]_vars
  PROVE  SavedListing'
  <1>1. CASE /\ files' = files /\ atSave' = atSave
             /\ mode' \notin {"mounting", "mounted", "reading"}
    BY <1>1 DEF SavedListing
  <1>2. CASE /\ files' = files /\ atSave' = atSave /\ mode' # "mounting"
             /\ mode \in {"mounted", "reading"} /\ inodes' = inodes
             /\ buffer' = buffer
    BY <1>2 DEF SavedListing
  <1>3. ASSUME NEW f \in File, Mount(f) PROVE SavedListing'
    <2>1. /\ files' = files /\ atSave' = atSave /\ mounted' = f
          /\ mode' \in {"mounting", "fatal"} /\ buffer' = files[f]
      BY <1>3 DEF Mount
    <2> QED
      BY <2>1 DEF SavedListing
  <1>4. ASSUME NEW f \in File, Save(f) PROVE SavedListing'
    <2>1. CASE CanSeek(cur, cur.pos)
      <3>1. /\ files' = [files EXCEPT ![f] = Written(buffer)]
            /\ atSave' = [atSave EXCEPT ![f] = [entries |-> Shown, bitmap |-> bitmap]]
            /\ mode = "mounted" /\ mode' = "mounted" /\ buffer' = buffer /\ inodes' = inodes
        BY <1>4, <2>1 DEF Save
      <3> DEFINE img == Written(buffer)
      <3>2. files'[f] = img /\ atSave'[f].entries = Shown
        BY <3>1 DEF RInv, IInv, TypeOK
      <3>3. /\ img.entries = buffer.entries /\ img.place = buffer.place
            /\ img.table = buffer.table /\ img.bs = buffer.bs
            /\ TableEnd(img) = TableEnd(buffer)
            /\ IsRegular(img) /\ img.size + IoBuf <= U32 => IsRegular(buffer)
            /\ Whole(img) => Whole(buffer)
        BY WrittenIs DEF RInv
      <3> HIDE DEF img
      <3>4. ASSUME CanReach(img)
            PROVE  /\ img.place # DirAt(img) => Shown = {}
                   /\ img.place = DirAt(img) /\ Whole(img) =>
                        Shown = {e.ino : e \in img.entries}
        <4>1. IsRegular(buffer) /\ TableEnd(buffer) \div buffer.bs <= buffer.table[DirIno]
          BY <3>3, <3>4 DEF CanReach
        <4>2. inodes[DirIno] = buffer.table[DirIno]
          BY <3>1 DEF SavedListing
        <4>3. Address(DirCursor) = DirAt(img)
          BY <3>1, <3>3, <4>1, <4>2, DirReached DEF RInv, DirAt, ReachesDir
        <4>4. img.place # DirAt(img) => Shown = {}
          BY <3>3, <4>3 DEF Shown, Lying
        <4>5. Whole(buffer) => Present(buffer) = buffer.entries
          BY DEF Whole, Present
        <4> QED
          BY <3>3, <4>3, <4>4, <4>5 DEF Shown, Lying
      <3>5. \A g \in File : g # f => files'[g] = files[g] /\ atSave'[g] = atSave[g]
        BY <3>1 DEF RInv, IInv, TypeOK
      <3> QED
        BY <3>1, <3>2, <3>4, <3>5 DEF SavedListing
    <2>2. CASE ~ CanSeek(cur, cur.pos)
      BY <1>1, <1>4, <2>2 DEF Save, Fatal
    <2> QED
      BY <2>1, <2>2
  <1>5. CASE WalkOn \/ WalkSeek \/ CheckMagic
    <2>1. mode = "mounting" /\ ((\E end : Fatal(end)) \/ (\E c : Move(c)))
      BY <1>5 DEF WalkOn, WalkSeek, CheckMagic, Walking
    <2> QED
      BY <1>1, <2>1 DEF Fatal, Move, SavedListing
  <1>6. CASE BadMagic \/ Umount
    BY <1>1, <1>6 DEF BadMagic, Umount
  <1>7. CASE FinishMount
    BY <1>7 DEF FinishMount, SavedListing
  <1>8. ASSUME NEW i, SeekBlock(i) PROVE SavedListing'
    <2>1. mode \in {"mounted", "reading"}
      BY <1>8 DEF SeekBlock, CanList
    <2> QED
      BY <1>1, <1>2, <1>8, <2>1 DEF SeekBlock, Fatal
  <1>9. CASE ReadFile \/ ReadDir \/ ReadDirFatal \/ ReadNoDir
    <2>1. mode = "reading"
      BY <1>9 DEF ReadFile, ReadDir, ReadDirFatal, ReadNoDir, CanList
    <2> QED
      BY <1>1, <1>2, <1>9, <2>1
         DEF ReadFile, ReadDir, ReadDirFatal, ReadNoDir, ReadTo, FatalIn, Fatal
  <1>10. ASSUME NEW v \in buffer.entries, Delete(v) PROVE SavedListing'
    <2>1. /\ files' = files /\ atSave' = atSave /\ mode' = "mounted" /\ mode = "reading"
          /\ buffer' = [buffer EXCEPT !.entries = Without(v)]
          /\ inodes' = [inodes EXCEPT ![v.ino] = 0] /\ v.ino \in Inode
      BY <1>10 DEF Delete, CanList
    <2>2. v.ino # DirIno
      BY <2>1, StartsAssumption
    <2>3. inodes'[DirIno] = inodes[DirIno] /\ buffer'.table = buffer.table
      BY <2>1, <2>2 DEF RInv, IInv, TypeOK, Inodes, Img
    <2> QED
      BY <2>1, <2>3 DEF SavedListing
  <1>11. ASSUME NEW v, DeleteFatal(v) PROVE SavedListing'
    BY <1>1, <1>11 DEF DeleteFatal, FatalIn, Fatal
  <1>12. CASE UNCHANGED vars
    BY <1>12 DEF vars, memory, SavedListing
  <1> QED
    BY <1>3, <1>4, <1>5, <1>6, <1>7, <1>8, <1>9, <1>10, <1>11, <1>12 DEF Next

\* ext2Open, when the walk is over: what can be shown is what was.
LEMMA MountShows ==
  ASSUME RInv, RInv', SavedListing, FinishMount, atSave[mounted] # <<>>,
         IsRegular(buffer), buffer.size + IoBuf <= U32, CanShow'
  PROVE  Shown' = atSave[mounted].entries
  <1>1. /\ mode = "mounting" /\ mode' = "mounted" /\ buffer' = buffer
        /\ inodes' = buffer.table
    BY DEF FinishMount
  <1>2. mounted \in File /\ buffer = files[mounted]
    BY <1>1 DEF SavedListing
  <1>3. IsRegular(buffer)'
    BY <1>1 DEF IsRegular
  <1>4. /\ blocksRead' = TableEnd(buffer) \div buffer.bs
        /\ blocksRead' <= buffer.table[DirIno]
        /\ Address(DirCursor)' = DirAt(buffer)
        /\ DirCursor.start' + DirCursor.size' = buffer.size
        /\ DirCursor.start' \in Nat /\ DirCursor.pos' \in Nat /\ DirCursor.size' \in Nat
    <2>1. ReachesDir'
      BY DirReached, PTL
    <2>2. CanSeek(data, OffsetBlock(inodes[DirIno]))'
      BY DEF CanShow
    <2> QED
      BY <1>1, <1>3, <2>1, <2>2 DEF ReachesDir, RInv, DirAt, TableEnd
  <1>5. CanReach(buffer)
    BY <1>4 DEF CanReach
  <1>6. Present(buffer)' = Present(buffer)
    BY <1>1 DEF Present
  <1>7. CASE buffer.place # DirAt(buffer)
    <2>1. Shown' = {}
      BY <1>1, <1>4, <1>7 DEF Shown, Lying
    <2> QED
      BY <1>2, <1>5, <1>7, <2>1 DEF SavedListing
  <1>8. CASE buffer.place = DirAt(buffer)
    <2>1. Whole(buffer)'
      <3>1. ListsWhole'
        BY ListedWhole, PTL
      <3>2. Refused(DirCursor)' = {}
        BY DEF CanShow
      <3> QED
        BY <1>1, <1>4, <1>8, <3>1, <3>2 DEF ListsWhole, RInv
    <2>2. Whole(buffer) /\ Present(buffer) = buffer.entries
      BY <1>1, <2>1 DEF Whole, Present
    <2>3. Shown' = {e.ino : e \in buffer.entries}
      BY <1>1, <1>4, <1>6, <1>8, <2>2 DEF Shown, Lying
    <2> QED
      BY <1>2, <1>5, <1>8, <2>2, <2>3 DEF SavedListing
  <1> QED
    BY <1>7, <1>8

\* A file that is mounted again shows what ls showed when it was saved, or the
\* program exits in the listing: whatever was deleted, wherever the directory
\* lies, and however much of it was never written.
THEOREM EntriesKept == Spec => EntriesSurviveSave
  <1>1. Init => SavedListing
    BY DEF Init, SavedListing
  <1>2. RInv /\ SavedListing /\ [Next]_vars => SavedListing'
    BY StepListing
  <1>3. RInv /\ RInv' /\ SavedListing /\ [Next]_vars =>
          [FinishMount /\ atSave[mounted] # <<>>
             /\ IsRegular(buffer) /\ buffer.size + IoBuf <= U32 /\ CanShow' =>
               Shown' = atSave[mounted].entries]_vars
    BY MountShows
  <1>4. Init => RInv
    BY InitRInv
  <1>5. RInv /\ [Next]_vars => RInv'
    BY StepRInv
  <1> QED
    BY <1>1, <1>2, <1>3, <1>4, <1>5, PTL DEF Spec, EntriesSurviveSave
=============================================================================
