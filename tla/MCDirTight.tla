----------------------------- MODULE MCDirTight -----------------------------
(***************************************************************************)
(* Directories as any ext2 image may have them: entries up to the end of   *)
(* the block, slack of any length, what deletions left in the slack, two   *)
(* names of one inode.                                                     *)
(***************************************************************************)
EXTENDS MCDir

\* Where the entries after the dots begin: three words apart at least.
Places ==
  { s \in SUBSET (6 .. BlockWords - 3) :
      /\ 6 \in s
      /\ \A p, q \in s : p < q => q - p >= 3 }

LengthAt(s, p) == Min({q \in s : q > p} \cup {BlockWords}) - p

Names == <<"a", "b", "c", "d">>
Order(s, p) == Cardinality({q \in s : q <= p})

\* The first entry's inode is the third's as well when linked; what is left in
\* the slack after an entry names an inode that is free, or one in use.
LiveAt(s, linked) ==
  { E(p, LengthAt(s, p), Names[Order(s, p)],
      IF linked /\ Order(s, p) = 3 THEN 3 ELSE 2 + Order(s, p),
      DIR_FT_FILE) : p \in s }

StaleAt(s, i) ==
  { E(p + 3, LengthAt(s, p) - 3, "s", i, DIR_FT_FILE) :
      p \in {q \in s : LengthAt(s, q) >= 6} }

Mounted(live, stale) ==
  [block |-> BlockOf(live \cup stale), used |-> {e.ino : e \in live} \cap Inode]

MCImages ==
  UNION { { Mounted(Dots \cup LiveAt(s, l), {}),
            Mounted(Dots \cup LiveAt(s, l), StaleAt(s, 7)),
            Mounted(Dots \cup LiveAt(s, l), StaleAt(s, 4)) } :
          s \in Places, l \in BOOLEAN }
=============================================================================
