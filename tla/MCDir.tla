------------------------------- MODULE MCDir -------------------------------
(***************************************************************************)
(* Directories for TLC.  A layout is a set of entries, each with its       *)
(* offset and length; entries that another one's length covers are what    *)
(* earlier deletions by other programs left behind in its slack.           *)
(***************************************************************************)
EXTENDS DirRefinement

Garbage == 1000

\* The words an entry is made of, and what the code makes of each when it
\* takes it for another: an inode number (counted in fours) for a length, a
\* header or a name for an inode number, a name for a length past the block.
InodeWord(i) == [num |-> i, len |-> i, nl |-> 0, ft |-> 0, txt |-> NoName]
HeaderWord(l, t) ==
  [num |-> Garbage, len |-> l, nl |-> 1, ft |-> t, txt |-> NoName]
NameWord(n) ==
  [num |-> Garbage, len |-> BlockWords, nl |-> TextWords, ft |-> 0, txt |-> n]

\* The words of the next block on the disk, all different.
DataWord(p) ==
  [num |-> Garbage + p, len |-> BlockWords, nl |-> 0, ft |-> 0, txt |-> NoName]

WordsOf(e) == <<InodeWord(e.ino), HeaderWord(e.len, e.ft), NameWord(e.name)>>

BlockOf(layout) ==
  [p \in Span |->
     IF p >= BlockWords THEN DataWord(p)
     ELSE IF \E e \in layout : p \in e.off .. e.off + 2
       THEN LET e == CHOOSE x \in layout : p \in x.off .. x.off + 2
            IN  WordsOf(e)[p - e.off + 1]
       ELSE Zero]

ImageOf(layout) ==
  [ block |-> BlockOf(layout),
    used  |-> {e.ino : e \in layout} \cap Inode ]

\* An entry, and the two every directory begins with.
E(o, l, n, i, t) == [off |-> o, len |-> l, name |-> n, ino |-> i, ft |-> t]
Dots == {E(0, 3, "dot", DirIno, DIR_FT_DIR), E(3, 3, "dotdot", 20, DIR_FT_DIR)}
=============================================================================
