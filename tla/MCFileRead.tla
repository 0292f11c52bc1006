----------------------------- MODULE MCFileRead -----------------------------
(***************************************************************************)
(* Files for TLC, with three direct cells instead of twelve and one block  *)
(* per block of pointers.  32-bit numbers span 32768.                      *)
(***************************************************************************)
EXTENDS FileRead

A(length, data, pointers, blocks) ==
  [size |-> length, data |-> data, indirect |-> pointers, sectors |-> 2 * blocks,
   isFile |-> TRUE]

Nothing == <<0, 0, 0>>

Empty  == A(0, <<>>, Nothing, 0)
Short  == A(10, <<9>>, Nothing, 1)
Exact  == A(2048, <<10, 9>>, Nothing, 2)
Ragged == A(2049, <<11, 12, 7>>, Nothing, 3)
Direct == A(3072, <<11, 12, 13>>, Nothing, 3)

\* One block of attributes; a hole before, within, and at the end of a file.
Labelled == A(1024, <<9>>, Nothing, 2)
HoleFirst == A(1500, <<0, 9>>, Nothing, 1)
HoleWithin == A(3000, <<9, 0, 11>>, Nothing, 2)
HoleLast == A(1500, <<9, 0>>, Nothing, 1)

\* Blocks of pointers: one, and all three, of one, two and three blocks.
Single == A(4000, <<9, 10, 11, 12>>, <<13, 0, 0>>, 5)
Triple == A(6000, <<9, 10, 11, 12, 13, 14>>, <<15, 16, 17>>, 12)

\* The last block of the image; more than 2^31 and more than 2^32 bytes, mostly
\* holes; room set aside behind the end; and an inode that rm has zeroed.
AtEnd == A(1024, <<26>>, Nothing, 1)
Half == A(16384, [k \in 1 .. 16 |-> IF k = 1 THEN 9 ELSE 0], Nothing, 1)
Large == A(33000, [k \in 1 .. 33 |-> IF k = 33 THEN 9 ELSE 0], <<10, 0, 0>>, 2)
Ahead == A(10, <<9>>, Nothing, 2)
Gone == [A(0, <<>>, Nothing, 0) EXCEPT !.isFile = FALSE]

MCFiles ==
  {Empty, Short, Exact, Ragged, Direct, Labelled, HoleFirst, HoleWithin, HoleLast,
   Single, Triple, AtEnd, Half, Large, Ahead, Gone}

LongFiles == {Short, Single}
=============================================================================
