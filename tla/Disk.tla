-------------------------------- MODULE Disk --------------------------------
(***************************************************************************)
(* disk.c: a cursor over the bytes of an image in memory.  A clone walks   *)
(* the same bytes: its start is where the cursor it was made from stood.   *)
(* Lengths are size_t, so sums wrap at SizeT; a call of exit through FATAL *)
(* is the caller's: here an operator says when a move is allowed, another  *)
(* what it does.                                                           *)
(***************************************************************************)
EXTENDS Naturals

CONSTANT SizeT  \* the span of size_t

ASSUME SizeTAssumption == SizeT \in Nat \ {0}

Cursor == [start : Nat, pos : 0 .. SizeT - 1, size : 0 .. SizeT - 1]

\* diskOpen, once the file has been read.
Opened(n) == [start |-> 0, pos |-> 0, size |-> n]

\* diskClone: the rest of the bytes.
Clone(c) == [start |-> c.start + c.pos, pos |-> 0, size |-> c.size - c.pos]

\* diskCheckBounds.
InBoundsLoose(c, n) == (c.pos + n) % SizeT <= c.size
InBounds(c, n) == (c.pos + n) % SizeT < c.size

\* diskSkip, and diskCopy, which skips what it has copied.
SkipUnwrapped(c, n) == [c EXCEPT !.pos = c.pos + n]
Skip(c, n) == [c EXCEPT !.pos = (c.pos + n) % SizeT]

\* diskSeekStart, diskSeek.
SeekStart(c) == [c EXCEPT !.pos = 0]
CanSeek(c, n) == InBounds(SeekStart(c), n)
Seek(c, n) == Skip(SeekStart(c), n)

\* diskRead8, which checks for as many bytes as it reads bits.
\* n bytes read one at a time pass when the last does: short of the size no sum
\* wraps.
CanRead(c, n) == n = 0 \/ c.pos + (n - 1) + 8 < c.size
Advance(c, n) == [c EXCEPT !.pos = c.pos + n]

\* Where in the image the cursor is.
Address(c) == c.start + c.pos
=============================================================================
