------------------------------ MODULE MCImage ------------------------------
(***************************************************************************)
(* Image files for TLC.  Sizes are those of small real images, only the    *)
(* spans of size_t and uint32_t are shrunk, to numbers larger than every   *)
(* image.                                                                  *)
(***************************************************************************)
EXTENDS Image, TLC

\* ".", "..", and two names in a block of n bytes, to whose end the last leads.
E(i, o, l, t) == [ino |-> i, off |-> o, len |-> l, text |-> t]
Entries(n) ==
  {E(DirIno, 0, 12, 9), E(DirIno, 12, 12, 10), E(12, 24, 16, 13),
   E(13, 40, n - 40, 12)}

\* 1 KiB blocks, a table of 8 inodes of 256 bytes in blocks 5 and 6, the
\* directory in block 7, one file in block 8, one with a hole for its first
\* block, 11 blocks in all: the last 3 KiB are not a multiple of IoBuf.
Small ==
  [ size |-> 11 * 1024, magic |-> TRUE, incompat |-> FALSE, bs |-> 1024,
    ipg |-> 8, isize |-> 256, bb |-> 3, ib |-> 4, it |-> 5, bits |-> Inode,
    table |-> (DirIno :> 7) @@ (12 :> 8) @@ (13 :> 0),
    len |-> (12 :> 1024) @@ (13 :> 1024),
    place |-> 7 * 1024, entries |-> Entries(1024) ]

\* 2 KiB blocks, 8 inodes of 256 bytes in block 4; the first file's block is the
\* first past the table, the directory's follows it and the second file's is
\* the last of the image.
Coarse ==
  [ Small EXCEPT !.size = 8 * 2048, !.bs = 2048, !.bb = 2, !.ib = 3, !.it = 4,
                 !.table = (DirIno :> 6) @@ (12 :> 5) @@ (13 :> 7),
                 !.len = (12 :> 10) @@ (13 :> 2040),
                 !.place = 6 * 2048, !.entries = Entries(2048) ]

\* The last block is used to its end.
Full == [Coarse EXCEPT !.len[13] = 2048]

\* An inode size of zero, which revision 0 allows.
Old == [Small EXCEPT !.isize = 0, !.bits = {12}]

\* A table that ends within a block: no directory lies where one is looked for.
Odd == [Small EXCEPT !.ipg = 6]

\* The directory in the block that stdio keeps back.
Late ==
  [Small EXCEPT !.table[DirIno] = 9, !.table[12] = 7, !.place = 9 * 1024]

\* 8 KiB blocks, cut off within the directory's, of which stdio keeps back the
\* end: there the second name begins, or ends.
Split(o) ==
  [ Small EXCEPT !.size = 7 * 8192 + 4096 + 200, !.bs = 8192, !.bb = 1,
      !.ib = 2, !.it = 3, !.ipg = 32, !.table = (DirIno :> 7) @@ (12 :> 4) @@ (13 :> 5),
      !.place = 7 * 8192,
      !.entries = {E(DirIno, 0, 12, 9), E(DirIno, 12, 12, 10),
                   E(12, 24, o - 24, 13), E(13, o, 8192 - o, 28)} ]

\* The last entry's length leads past the image.
Wild ==
  [ Coarse EXCEPT !.entries = {E(DirIno, 0, 12, 9), E(12, 12, 12, 12),
                               E(13, 24, 9000, 12)} ]

\* Cut off after the superblock; not ext2 at all; needing what is not there.
Cut == [Small EXCEPT !.size = 2048]
Alien == [Small EXCEPT !.magic = FALSE, !.size = 5000]
Newer == [Coarse EXCEPT !.incompat = TRUE]

Images == {Small, Coarse, Old, Odd, Late, Wild, Cut, Alien}
            \cup {Split(o) : o \in {4080, 4092, 4096}}

MCStarts == {[f \in File |-> IF f = "a" THEN i ELSE j] : i \in Images, j \in {Alien}}

\* One image in every file.
FullStart == {[f \in File |-> Full]}
NewerStart == {[f \in File |-> Newer]}
=============================================================================
