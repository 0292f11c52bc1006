----------------------------- MODULE MCConsole -----------------------------
(***************************************************************************)
(* The commands of shell.c less their aliases, a buffer of eleven          *)
(* characters and three cells of arguments, and lines about those limits.  *)
(* Images with one group and few or many inodes, with two groups, and one  *)
(* whose blocks are one more than a group holds.                           *)
(***************************************************************************)
EXTENDS Console, TLC

C(s) == [k \in 1 .. Len(s) |-> SubSeq(s, k, k)]
Row(name, fn, needsMount) == [name |-> C(name), fn |-> fn, needsMount |-> needsMount]

MCNewLine == "\n"

MCCommands ==
  << Row("cat", "cat", TRUE), Row("cd", "cd", TRUE), Row("exit", "exit", FALSE),
     Row("fsdump", "fsdump", TRUE), Row("ls", "ls", TRUE),
     Row("man", "man", FALSE), Row("mnt", "mount", FALSE),
     Row("rm", "rm", TRUE), Row("rmdir", "rmdir", TRUE),
     Row("save", "save", TRUE), Row("stat", "stat", TRUE),
     Row("umnt", "umount", TRUE) >>

\* Eleven characters fill the buffer.
MCLine == { C(s) : s \in
  { "", " ", "   ", "ls", " ls", "lz", " lz", "mnt", "mnt a", "umnt",
    "exit", "man a b c d", "cat a", "cat a b", "cd a", "cd .", "rm  a ", "rmdir", "rmdir a",
    "stat a", "save a", "qqq", "cta x", "um",
    "fsdump", "fsdump sIa", "fsdump Bi", "fsdump aiI", "fsdump rb", "fsdump x",
    "cat 234567a", "cat 234567aa", "man        ls", "man         " } }

MCChar ==
  UNION { {w[k] : k \in DOMAIN w} :
            w \in MCLine \cup {MCCommands[i].name : i \in DOMAIN MCCommands} }

MCGeometry == [
  small |-> [blocks |-> 60, blocksPerGroup |-> 8192, inodesPerGroup |-> 16, logBlockSize |-> 0],
  full  |-> [blocks |-> 8192, blocksPerGroup |-> 8192, inodesPerGroup |-> 40, logBlockSize |-> 0],
  over  |-> [blocks |-> 8193, blocksPerGroup |-> 8192, inodesPerGroup |-> 40, logBlockSize |-> 0],
  two   |-> [blocks |-> 12000, blocksPerGroup |-> 8192, inodesPerGroup |-> 32, logBlockSize |-> 1] ]

Entry(n, t) == [ino |-> n, type |-> t, len |-> 12]

MCEntries == [
  small |-> {Entry(2, "dir"), Entry(12, "file")},
  full  |-> {Entry(2, "dir"), Entry(40, "file")},
  over  |-> {Entry(2, "dir"), Entry(40, "file")},
  two   |-> {Entry(2, "dir"), Entry(33, "dir"), Entry(64, "file")} ]

\* What lies behind the last entry of one image names a directory as a file, a
\* file as a directory, and an inode that is none.
MCStale == [
  small |-> {Entry(2, "file"), Entry(12, "dir"), Entry(99, "file")},
  full |-> {}, over |-> {}, two |-> {} ]

MCIno == {2, 12, 33, 40, 64, 99}

\* A directory's size sinks by 16 with each rm, and is below zero after one; with
\* the next it comes up again.  Files have the last of the suffixes, or are just
\* too large for it.
Of(type, hi, lo) == [bits |-> {type}, hi |-> hi, lo |-> lo]
Unused == [bits |-> {}, hi |-> 0, lo |-> 0]

MCStored == [
  small |-> [n \in MCIno |-> CASE n = 2 -> Of("dir", 0, 15)
                               [] n = 12 -> Of("file", 0, 0) [] OTHER -> Unused],
  full  |-> [n \in MCIno |-> CASE n = 2 -> Of("dir", 0, 15)
                               [] n = 40 -> Of("file", 31, 15) [] OTHER -> Unused],
  over  |-> [n \in MCIno |-> CASE n = 2 -> Of("dir", 0, 15)
                               [] n = 40 -> Of("file", 32, 0) [] OTHER -> Unused],
  two   |-> [n \in MCIno |-> CASE n = 2 -> Of("dir", 0, 15) [] n = 33 -> Of("dir", 0, 7)
                               [] n = 64 -> Of("file", 0, -3) [] OTHER -> Unused] ]
=============================================================================
