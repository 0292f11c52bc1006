----------------------------- MODULE MCDirRoomy -----------------------------
(***************************************************************************)
(* Directories as a fresh image has them: the last entry's slack is clean  *)
(* and at least as long as all that rm is going to take out, each inode    *)
(* has one name, and the last entry is never removed.                      *)
(***************************************************************************)
EXTENDS MCDir, RoomyDirectory

\* Entries of 3, 4 or 3 words (a length may leave a word to spare), files or
\* not, and "end", whose length runs to the end of the block.
MCImages ==
  { ImageOf(Dots \cup
      { E(6, l, "a", 4, t), E(6 + l, m, "b", 5, DIR_FT_FILE),
        E(6 + l + m, 3, "c", 6, u),
        E(9 + l + m, BlockWords - (9 + l + m), "end", 7, DIR_FT_FILE) }) :
    l \in {3, 4}, m \in {3, 5}, t, u \in {DIR_FT_FILE, DIR_FT_DIR} }
=============================================================================
