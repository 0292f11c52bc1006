----------------------------- MODULE Directory -----------------------------
(***************************************************************************)
(* What the shell promises about one directory: it lists a sequence of     *)
(* entries, and `rm name' takes away the first entry of that name, when it *)
(* is a file, together with the inode it names.  Every other entry stays,  *)
(* in the order it had.  How the entries lie in a directory block, and how *)
(* they are moved when one goes, is DirBlock.tla's matter.                 *)
(***************************************************************************)
EXTENDS Naturals, Sequences, SequencesExt

CONSTANTS
  Starts,   \* the directories a session may find: [entries, used] records
  FileType  \* the type of the entries that rm takes away

VARIABLES
  entries,  \* what a listing shows: a sequence of [name, ino, ft] records
  used      \* the inode numbers in use

vars == <<entries, used>>

Init == \E s \in Starts : entries = s.entries /\ used = s.used

\* Entry i is the one its name finds: the first of that name.
Found(i) == \A j \in 1 .. i - 1 : entries[j].name # entries[i].name

\* rm of entry i's name (bgDeleteFile as its caller sees it).
RemoveFile(i) ==
  /\ Found(i)
  /\ entries[i].ft = FileType
  /\ entries' = RemoveAt(entries, i)
  /\ used' = used \ {entries[i].ino}

Next == \E i \in DOMAIN entries : RemoveFile(i)

Spec == Init /\ [][Next]_vars
=============================================================================
