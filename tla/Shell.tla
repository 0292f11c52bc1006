------------------------------- MODULE Shell -------------------------------
(***************************************************************************)
(* A session (shell.c, over ext2.c and diskSave): which image is mounted,  *)
(* which directory the commands work in and which path the prompt shows,   *)
(* what goes into the files that are saved, and how the session ends.      *)
(*                                                                         *)
(* An image's contents are a version of it: the image it was and how many  *)
(* deletions it has seen.  A file has a body and a tail, the bytes after   *)
(* the last whole buffer of stdio, since diskSave never closes the stream  *)
(* it writes to, and what is left in the buffer is written when the        *)
(* program exits.  Commands that only print are Report, those that a       *)
(* missing mount refuses change nothing and are no action.                 *)
(***************************************************************************)
EXTENDS Naturals, Sequences

CONSTANTS
  File, Image,   \* files, and the images they may hold
  Dir, Root,     \* inode numbers of directories; INODE_RES_ROOT_DIR
  Name, Up,      \* names of directories; ".." is one of them
  Sub,           \* Sub[i][d][n]: the directory n leads to from d in image i
  Level,         \* Level[i][d]: how deep d lies in image i
  NoDir,         \* where a name leads that names no directory
  Ragged,        \* those whose length is no multiple of stdio's buffer
  Nothing,       \* no image, no bytes
  Starts,        \* what the files hold at first: [File -> Content] functions
  MaxPath,       \* cells of Shell.path in use at most (127)
  MaxOpen,       \* streams a process may have open
  MaxEdits       \* bound on the deletions the model looks at

Version == [img : Image, edits : 0 .. MaxEdits]
Bytes   == Version \cup {Nothing}
Content == [body : Bytes, tail : Bytes]

ASSUME BoundAssumption == MaxPath \in Nat /\ MaxOpen \in Nat /\ MaxEdits \in Nat

ASSUME ImageAssumption ==
  /\ Nothing \notin Version /\ Nothing \notin Content
  /\ Ragged \subseteq Image
  /\ Starts \subseteq [File -> Content]

\* The directories of an image are a tree, ".." leads up in it, and from the
\* root to the root.
ASSUME TreeAssumption ==
  /\ Root \in Dir /\ NoDir \notin Dir /\ Up \in Name
  /\ Sub \in [Image -> [Dir -> [Name -> Dir \cup {NoDir}]]]
  /\ Level \in [Image -> [Dir -> Nat]]
  /\ \A i \in Image :
       /\ Level[i][Root] = 0
       /\ Sub[i][Root][Up] = Root
       /\ \A d \in Dir, n \in Name \ {Up} : Sub[i][d][n] # NoDir =>
            /\ Level[i][Sub[i][d][n]] = Level[i][d] + 1
            /\ Sub[i][Sub[i][d][n]][Up] = d

VARIABLES
  files,     \* what is in the files
  mode,      \* what the program is at
  fs,        \* Shell.fs: the image in memory, or Nothing
  cd,        \* Shell.cd: inode number of the current directory
  path,      \* Shell.path, up to pathLevel
  err,       \* Shell.err: whether the prompt is red
  streams,   \* the streams diskSave has left open: their file, and its tail
  lastSave,  \* history: what was saved last to each file
  again      \* history: files that were saved more than once

shell == <<fs, cd, path, err>>
saved == <<files, streams, lastSave, again>>
vars == <<mode, shell, saved>>

Modes == {"start", "prompt", "closing", "ended", "crashed"}

Init ==
  /\ files \in Starts
  /\ mode = "start"
  /\ fs = Nothing
  /\ cd = Root /\ path = <<>> /\ err = FALSE
  /\ streams = <<>>
  /\ lastSave = [f \in File |-> Nothing]
  /\ again = {}

-----------------------------------------------------------------------------
(* What the commands compute, beside slips they might have.                *)

\* There is a cell left for another directory's name.
RoomByOne == Len(path) <= MaxPath
Room == Len(path) < MaxPath

\* Where the last umount leaves the path.
PathLeft == path
PathReset == <<>>

\* mount goes ahead only when nothing is mounted.
MountFree == fs = Nothing

\* Shell.path after cd has gone through n to d.
PathAfter(n, d) ==
  CASE n = Up /\ path # <<>> -> SubSeq(path, 1, Len(path) - 1)
    [] n # Up /\ Room -> Append(path, [name |-> n, inode |-> d])
    [] OTHER -> path

\* A file has an image in it that ext2Open takes.
Opens(f) == files[f].body # Nothing

\* A saved file that lacks its tail may end before what mounting reads of it.
MayBeCut(f) == files[f].tail = Nothing /\ files[f].body.img \in Ragged

Truncated(m) == [body |-> m.body, tail |-> Nothing]

-----------------------------------------------------------------------------
(* The session.                                                            *)

\* shellOpen, with an image or without.
Start ==
  /\ mode = "start"
  /\ \/ mode' = "prompt" /\ fs' = fs
     \/ \E f \in File : Opens(f) /\ mode' = "prompt" /\ fs' = files[f]
  /\ UNCHANGED <<cd, path, err, saved>>

Mount(f) ==
  /\ mode = "prompt"
  /\ \/ /\ MountFree /\ Opens(f)
        /\ fs' = files[f] /\ err' = FALSE /\ mode' = mode
     \/ /\ ~ (MountFree /\ Opens(f))
        /\ err' = TRUE /\ UNCHANGED <<fs, mode>>
     \/ /\ MountFree /\ Opens(f) /\ MayBeCut(f)
        /\ mode' = "closing" /\ UNCHANGED <<fs, err>>
  /\ UNCHANGED <<cd, path, saved>>

Umount ==
  /\ mode = "prompt" /\ fs # Nothing
  /\ mode' = mode
  /\ fs' = Nothing
  /\ cd' = Root /\ path' = PathReset /\ err' = FALSE
  /\ UNCHANGED saved

\* cd into what n names, if that is a directory.
Cd(n) ==
  /\ mode = "prompt" /\ fs # Nothing
  /\ LET d == Sub[fs.body.img][cd][n]
     IN  IF d = NoDir
           THEN err' = TRUE /\ UNCHANGED <<cd, path>>
           ELSE err' = FALSE /\ cd' = d /\ path' = PathAfter(n, d)
  /\ UNCHANGED <<mode, fs, saved>>

\* rm of a file: bytes of the directory's block change, wherever it lies.
Rm ==
  /\ mode = "prompt" /\ fs # Nothing
  /\ fs.body.edits < MaxEdits
  /\ fs' = [ body |-> [fs.body EXCEPT !.edits = @ + 1],
             tail |-> IF fs.tail = Nothing \/ fs.tail.edits = MaxEdits
                        THEN fs.tail ELSE [fs.tail EXCEPT !.edits = @ + 1] ]
  /\ err' = FALSE
  /\ UNCHANGED <<mode, cd, path, saved>>

\* ls, cat, stat, fsdump, rmdir, help...; and any command that fails.
Report ==
  /\ mode = "prompt"
  /\ err' \in BOOLEAN
  /\ UNCHANGED <<mode, fs, cd, path, saved>>

\* diskSave: the file is cut to nothing, and all but the tail written.
Save(f) ==
  /\ mode = "prompt" /\ fs # Nothing
  /\ Len(streams) < MaxOpen
  /\ files' = [files EXCEPT ![f] = Truncated(fs)]
  /\ streams' = Append(streams, [file |-> f, tail |-> fs.tail])
  /\ again' = IF lastSave[f] = Nothing THEN again ELSE again \cup {f}
  /\ lastSave' = [lastSave EXCEPT ![f] = fs]
  /\ err' = FALSE
  /\ UNCHANGED <<mode, fs, cd, path>>

\* FATAL: the file cannot be opened, or the image has an end too soon.
Fatal ==
  /\ mode = "prompt" /\ fs # Nothing
  /\ mode' = "closing"
  /\ UNCHANGED <<shell, saved>>

\* A line of blanks; rmdir without a name; umount or exit, when ext2Free frees
\* block groups that were never read.
Crash ==
  /\ mode = "prompt"
  /\ mode' = "crashed"
  /\ UNCHANGED <<shell, saved>>

\* exit, or the end of the input.
Exit ==
  /\ mode = "prompt"
  /\ mode' = "closing"
  /\ UNCHANGED <<shell, saved>>

\* exit(3) writes what the streams still hold, in no order it promises.  A
\* tail lands where its own image had it.
Flush(i) ==
  /\ mode = "closing"
  /\ LET s == streams[i]
     IN  files' = IF s.tail = Nothing THEN files
                  ELSE [files EXCEPT ![s.file].tail = s.tail]
  /\ streams' = SubSeq(streams, 1, i - 1) \o SubSeq(streams, i + 1, Len(streams))
  /\ UNCHANGED <<mode, shell, lastSave, again>>

\* (To end without exit(3).)
EndAtOnce ==
  /\ mode = "closing"
  /\ mode' = "ended"
  /\ UNCHANGED <<shell, saved>>

End ==
  /\ mode = "closing"
  /\ streams = <<>>
  /\ mode' = "ended"
  /\ UNCHANGED <<shell, saved>>

Next ==
  \/ Start
  \/ \E f \in File : Mount(f) \/ Save(f)
  \/ \E n \in Name : Cd(n)
  \/ Umount \/ Rm \/ Report
  \/ Fatal \/ Crash \/ Exit
  \/ \E i \in DOMAIN streams : Flush(i)
  \/ End

Spec == Init /\ [][Next]_vars

-----------------------------------------------------------------------------
TypeOK ==
  /\ files \in [File -> Content]
  /\ mode \in Modes
  /\ fs \in Content \cup {Nothing}
  /\ fs # Nothing => fs.body # Nothing
  /\ cd \in Dir
  /\ path \in Seq([name : Name \ {Up}, inode : Dir]) /\ Len(path) <= MaxPath
  /\ err \in BOOLEAN
  /\ streams \in Seq([file : File, tail : Bytes])
  /\ lastSave \in [File -> Content \cup {Nothing}]
  /\ again \subseteq File

\* The directory after the first k names of the path.
Along(k) == IF k = 0 THEN Root ELSE path[k].inode

\* No directory lies deeper than the path has cells.
Shallow(i) == \A d \in Dir : Level[i][d] <= MaxPath

\* The path in the prompt leads to the directory that the commands work in,
\* after any walk, and after one image is left for another: cd and path are
\* updated apart, and the user goes by the one while rm goes by the other.
PathLeadsToCd ==
  /\ cd = Along(Len(path))
  /\ \A k \in DOMAIN path :
       Sub[fs.body.img][Along(k - 1)][path[k].name] = path[k].inode

PathShown == fs # Nothing /\ Shallow(fs.body.img) => PathLeadsToCd

\* A file that was saved once is, when the session has ended, what it was
\* saved as, though it never was while the session lasted.
SavedOnceIsWhole ==
  mode = "ended" =>
    \A f \in File \ again : lastSave[f] # Nothing => files[f] = lastSave[f]

\* The file is what the last save made it.
LastSaveStands ==
  mode = "ended" =>
    \A f \in File : lastSave[f] # Nothing => files[f] = lastSave[f]
=============================================================================
