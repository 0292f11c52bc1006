--------------------------- MODULE RoomyDirectory ---------------------------
(***************************************************************************)
(* The directories on which DirBlock does what Directory says.  In others  *)
(* bgDeleteFile leaves words behind that the next command lists            *)
(* (DirRefinement's RemovedIsGone, in MCDirTight's directories).           *)
(***************************************************************************)
EXTENDS DirRefinement

\* rm can take the entry of these words away.
Goes(words) == View(words).ft = DIR_FT_FILE /\ View(words).name \in Removable

\* Behind the last entry's text nothing looks like an entry.
Clean(b, h) == \A p \in h .. BlockWords - 1 : b[p].num = 0

\* Each entry has room for its own text and lies in the block; the last is
\* not taken away; and however much is, the last one's length still leads
\* behind where its text was at first, to words that are clean.
Roomy(b) ==
  LET s    == Offsets(b)
      last == s[Len(s)]
      h    == last + 2 + b[last + 1].nl
  IN  /\ \A i \in DOMAIN s :
           /\ 2 + b[s[i] + 1].nl <= b[s[i] + 1].len
           /\ s[i] + b[s[i] + 1].len <= BlockWords
           /\ Goes(EntryAt(b, s[i])) => s[i] + b[last + 1].len >= h
      /\ ~ Goes(EntryAt(b, last))
      /\ Clean(b, h)

\* No two names lead to one file, and each file's inode is in use.
FilesApart(es, used) ==
  \A i \in DOMAIN es :
    es[i].ft = DIR_FT_FILE =>
      /\ es[i].ino \in used
      /\ \A j \in DOMAIN es \ {i} :
           es[j].ft = DIR_FT_FILE => es[j].ino # es[i].ino

\* The block is not the image's last one (a block is far longer than the eight
\* words that a read of an inode number asks for).
ASSUME RoomyAssumption ==
  /\ ImageWords >= BlockWords + 8
  /\ \A i \in Images : Roomy(i.block) /\ FilesApart(Listed(i.block), i.used)
=============================================================================
