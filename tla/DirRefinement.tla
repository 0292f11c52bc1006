--------------------------- MODULE DirRefinement ---------------------------
(***************************************************************************)
(* DirBlock implements Directory: what ls would list from the block, and   *)
(* the inode bitmap, change as the abstract directory does, for the images *)
(* on which the code works (MCDirRoomy.tla) and not for all of them        *)
(* (MCDirTight.tla).                                                       *)
(***************************************************************************)
EXTENDS DirBlock, FiniteSetsExt, SequencesExt

\* What a user sees of an entry.
View(words) ==
  [ name |-> IF words[2].nl > 0 THEN words[3].txt ELSE NoName,
    ino  |-> words[1].num,
    ft   |-> words[2].ft ]

\* Where the entries of the block b lie, from its word p on, as
\* dirReadLinkedList finds them.  An entry without length ends them here; the
\* code would find it for ever.
OffsetsFrom(b) ==
  LET from[p \in 0 .. BlockWords] ==
        IF p = BlockWords \/ b[p].num = 0 \/ b[p + 1].len = 0
          THEN <<>>
          ELSE <<p>> \o from[Min({p + b[p + 1].len, BlockWords})]
  IN  from

Offsets(b) == OffsetsFrom(b)[0]

\* The entries of the block b, from its start.
Listed(b) ==
  LET s == Offsets(b)
  IN  [i \in DOMAIN s |-> View(EntryAt(b, s[i]))]

\* While entries move the block is neither old nor new: the directory is the
\* list that is being written.
Entries ==
  IF pc = "shift"
    THEN RemoveAt([i \in DOMAIN list |-> View(list[i].words)], victim)
    ELSE Listed(block)

Starting == {[entries |-> Listed(i.block), used |-> i.used] : i \in Images}

Dir == INSTANCE Directory
         WITH Starts <- Starting, FileType <- DIR_FT_FILE,
              entries <- Entries, used <- bitmap

\* An entry is listed until rm removes it, no entry appears, none is lost or
\* reordered by the removal of another, and the inode bitmap follows.
ImplementsDirectory == Dir!Spec

\* Every listed entry names an inode that is there, in the table as in the
\* bitmap: a cat of it finds a file.
NoDangling ==
  pc = "prompt" =>
    \A i \in DOMAIN Entries :
      Entries[i].ft = DIR_FT_FILE => Entries[i].ino \in inodes \cap bitmap

\* Once rm has deleted a file its name is no longer listed.
RemovedIsGone ==
  pc = "free" /\ victim # 0 =>
    \A i \in DOMAIN Entries : Entries[i].name # target
=============================================================================
