---------------------------- MODULE ShellProofs ----------------------------
(***************************************************************************)
(* Proofs about a session: the path in the prompt leads to the current     *)
(* directory in every image whose tree is no deeper than Shell.path, and a *)
(* file saved once is whole when the session has ended, for any images,    *)
(* any number of files and streams.                                        *)
(***************************************************************************)
EXTENDS Shell, SequenceTheorems, TLAPS

Step == [name : Name \ {Up}, inode : Dir]

\* The directory after the first k names of a path p.
After(p, k) == IF k = 0 THEN Root ELSE p[k].inode

\* The path p leads to the directory c of image i, and each directory along it
\* lies as deep as the path is long there: in a shallow tree cd never finds
\* Shell.path full.
Leads(i, p, c) ==
  /\ c = After(p, Len(p))
  /\ \A k \in DOMAIN p : Sub[i][After(p, k - 1)][p[k].name] = p[k].inode
  /\ \A k \in 0 .. Len(p) : Level[i][After(p, k)] = k

PathInv ==
  fs # Nothing /\ Shallow(fs.body.img) => Leads(fs.body.img, path, cd)

\* With nothing mounted the next image will be entered at its root.
RootNext == fs = Nothing => cd = Root /\ path = <<>>

\* What is missing of a file saved once is in a stream that is still open.
SaveInv ==
  \A f \in File \ again :
    /\ lastSave[f] = Nothing => \A i \in DOMAIN streams : streams[i].file # f
    /\ lastSave[f] # Nothing =>
         /\ files[f].body = lastSave[f].body
         /\ files[f].tail \in {Nothing, lastSave[f].tail}
         /\ \A i \in DOMAIN streams :
              streams[i].file = f => streams[i].tail = lastSave[f].tail
         /\ \/ files[f].tail = lastSave[f].tail
            \/ \E i \in DOMAIN streams : streams[i].file = f

\* A session begins with nothing mounted, and when it has ended it has flushed
\* its streams.
ModeInv ==
  /\ mode = "start" => fs = Nothing
  /\ mode = "ended" => streams = <<>>

IInv == TypeOK /\ RootNext /\ PathInv /\ SaveInv /\ ModeInv

-----------------------------------------------------------------------------
(* Lemmas about sequences and paths.                                       *)

\* A sequence without its i-th element.
LEMMA WithoutOne ==
  ASSUME NEW S, NEW s \in Seq(S), NEW i \in 1 .. Len(s)
  PROVE  LET t == SubSeq(s, 1, i - 1) \o SubSeq(s, i + 1, Len(s))
         IN  /\ t \in Seq(S)
             /\ Len(t) = Len(s) - 1
             /\ \A k \in 1 .. Len(s) - 1 :
                  t[k] = IF k < i THEN s[k] ELSE s[k + 1]
  <1> DEFINE a == SubSeq(s, 1, i - 1)
             b == SubSeq(s, i + 1, Len(s))
  <1>1. a \in Seq(S) /\ Len(a) = i - 1 /\ \A k \in 1 .. i - 1 : a[k] = s[k]
    BY SubSeqProperties
  <1>2. /\ b \in Seq(S) /\ Len(b) = Len(s) - i
        /\ \A k \in 1 .. Len(s) - i : b[k] = s[k + i]
    BY SubSeqProperties
  <1> HIDE DEF a, b
  <1>3. /\ a \o b \in Seq(S) /\ Len(a \o b) = Len(s) - 1
        /\ \A k \in 1 .. Len(s) - 1 :
             (a \o b)[k] = IF k <= i - 1 THEN a[k] ELSE b[k - (i - 1)]
    <2>1. /\ a \o b \in Seq(S) /\ Len(a \o b) = Len(a) + Len(b)
          /\ \A k \in 1 .. Len(a) + Len(b) :
               (a \o b)[k] = IF k <= Len(a) THEN a[k] ELSE b[k - Len(a)]
      BY <1>1, <1>2, ConcatProperties
    <2>2. Len(a) = i - 1 /\ Len(a) + Len(b) = Len(s) - 1
      BY <1>1, <1>2
    <2> QED
      BY <2>1, <2>2
  <1>4. \A k \in 1 .. Len(s) - 1 :
          (a \o b)[k] = IF k < i THEN s[k] ELSE s[k + 1]
    BY <1>1, <1>2, <1>3
  <1> QED
    BY <1>3, <1>4 DEF a, b

\* The directory a path leads to is one of the tree.
LEMMA AfterIsDir ==
  ASSUME NEW p \in Seq(Step), NEW k \in 0 .. Len(p)
  PROVE  After(p, k) \in Dir
  <1>1. CASE k = 0
    BY <1>1, TreeAssumption DEF After
  <1>2. CASE k # 0
    <2>1. p[k] \in Step
      BY <1>2
    <2> QED
      BY <1>2, <2>1 DEF After, Step
  <1> QED
    BY <1>1, <1>2

\* A path without its last name.
LEMMA ShorterPath ==
  ASSUME NEW p \in Seq(Step), p # <<>>, NEW q, q = SubSeq(p, 1, Len(p) - 1)
  PROVE  /\ Len(p) \in Nat /\ Len(p) >= 1
         /\ q \in Seq(Step) /\ Len(q) = Len(p) - 1
         /\ \A k \in 1 .. Len(p) - 1 : q[k] = p[k]
  <1> DEFINE m == Len(p)
  <1>1. m \in Nat /\ m >= 1
    BY EmptySeq
  <1>2. \A k \in 1 .. m - 1 : p[k] \in Step
    BY <1>1
  <1>3. /\ SubSeq(p, 1, m - 1) \in Seq(Step)
        /\ Len(SubSeq(p, 1, m - 1)) =
             IF 1 <= m - 1 THEN (m - 1) - 1 + 1 ELSE 0
        /\ \A k \in 1 .. (m - 1) - 1 + 1 :
             SubSeq(p, 1, m - 1)[k] = p[1 + k - 1]
    <2> HIDE DEF m
    <2> QED
      BY <1>1, <1>2, SubSeqProperties
  <1>4. q = SubSeq(p, 1, m - 1)
    OBVIOUS
  <1>5. /\ q \in Seq(Step) /\ Len(q) = m - 1
        /\ \A k \in 1 .. m - 1 : q[k] = p[k]
    <2> HIDE DEF m
    <2>1. (m - 1) - 1 + 1 = m - 1 /\ \A k \in 1 .. m - 1 : 1 + k - 1 = k
      BY <1>1
    <2> QED
      BY <1>1, <1>3, <1>4, <2>1
  <1> QED
    BY <1>1, <1>5

\* Up one level, and the path without its last name.
LEMMA LeadsUp ==
  ASSUME NEW i \in Image, NEW p \in Seq(Step), p # <<>>, NEW c \in Dir,
         Leads(i, p, c),
         NEW q, q = SubSeq(p, 1, Len(p) - 1)
  PROVE  q \in Seq(Step) /\ Len(q) = Len(p) - 1 /\ Leads(i, q, Sub[i][c][Up])
  <1> DEFINE m == Len(p)
  <1>1. /\ m \in Nat /\ m >= 1
        /\ q \in Seq(Step) /\ Len(q) = m - 1
        /\ \A k \in 1 .. m - 1 : q[k] = p[k]
    BY ShorterPath
  <1>2. \A k \in 0 .. m - 1 : After(q, k) = After(p, k)
    BY <1>1 DEF After
  <1>3. After(p, m - 1) \in Dir
    BY <1>1, AfterIsDir
  <1>4. p[m] \in Step /\ c = p[m].inode
    BY <1>1 DEF Leads, After
  <1>5. Sub[i][After(p, m - 1)][p[m].name] = c
    BY <1>1, <1>4 DEF Leads
  <1>6. Sub[i][c][Up] = After(p, m - 1)
    <2>1. p[m].name \in Name \ {Up} /\ c # NoDir
      BY <1>4, TreeAssumption DEF Step
    <2> QED
      BY <1>3, <1>5, <2>1, TreeAssumption
  <1>7. \A k \in 1 .. m - 1 : Sub[i][After(q, k - 1)][q[k].name] = q[k].inode
    BY <1>1, <1>2 DEF Leads
  <1>8. \A k \in 0 .. m - 1 : Level[i][After(q, k)] = k
    BY <1>1, <1>2 DEF Leads
  <1> QED
    BY SMTT(20), <1>1, <1>2, <1>6, <1>7, <1>8 DEF Leads

\* Down into a directory, and the path with its name.
LEMMA LeadsDown ==
  ASSUME NEW i \in Image, NEW p \in Seq(Step), NEW c \in Dir, Leads(i, p, c),
         NEW n \in Name \ {Up}, Sub[i][c][n] # NoDir,
         NEW q, q = Append(p, [name |-> n, inode |-> Sub[i][c][n]])
  PROVE  /\ Level[i][Sub[i][c][n]] = Len(p) + 1
         /\ Leads(i, q, Sub[i][c][n])
  <1> DEFINE m == Len(p)
             d == Sub[i][c][n]
             e == [name |-> n, inode |-> d]
  <1>1. d \in Dir /\ e \in Step
    BY TreeAssumption DEF Step
  <1>2. e.name = n /\ e.inode = d
    OBVIOUS
  <1> HIDE DEF e
  <1>3. /\ m \in Nat /\ q = Append(p, e)
    BY DEF e
  <1>4. /\ q \in Seq(Step) /\ Len(q) = m + 1
        /\ \A k \in 1 .. m : q[k] = p[k]
        /\ q[m + 1] = e
    BY <1>1, <1>3, AppendProperties
  <1>5. \A k \in 0 .. m : After(q, k) = After(p, k)
    BY <1>3, <1>4 DEF After
  <1>6. After(q, m + 1) = d
    BY <1>2, <1>3, <1>4 DEF After
  <1>7. Level[i][d] = m + 1
    <2>1. Level[i][c] = m
      BY <1>3 DEF Leads
    <2> QED
      BY <2>1, TreeAssumption
  <1>8. \A k \in 1 .. m + 1 : Sub[i][After(q, k - 1)][q[k].name] = q[k].inode
    <2> TAKE k \in 1 .. m + 1
    <2>1. CASE k = m + 1
      BY <2>1, <1>2, <1>3, <1>4, <1>5 DEF Leads
    <2>2. CASE k # m + 1
      BY SMTT(20), <2>2, <1>3, <1>4, <1>5 DEF Leads
    <2> QED
      BY <2>1, <2>2
  <1>9. \A k \in 0 .. m + 1 : Level[i][After(q, k)] = k
    BY <1>3, <1>5, <1>6, <1>7 DEF Leads
  <1>10. Len(q) = m + 1 /\ DOMAIN q = 1 .. m + 1 /\ d = After(q, m + 1)
    BY <1>4, <1>6
  <1>11. Leads(i, q, d)
    <2> HIDE DEF d, m
    <2> QED
      BY <1>8, <1>9, <1>10 DEF Leads
  <1> QED
    BY <1>7, <1>11

-----------------------------------------------------------------------------
(* The commands.                                                           *)

\* A session starts in the root, with nothing mounted and nothing saved.
LEMMA InitIInv ==
  ASSUME Init
  PROVE  IInv
  <1>1. files \in [File -> Content]
    BY ImageAssumption DEF Init
  <1>2. TypeOK
    <2>1. lastSave \in [File -> Content \cup {Nothing}]
      BY DEF Init
    <2>2. <<>> \in Seq(Step) /\ Len(<<>>) = 0
      BY EmptySeq
    <2>3. <<>> \in Seq([file : File, tail : Bytes])
      BY EmptySeq
    <2>4. cd \in Dir /\ path = <<>> /\ streams = <<>>
      BY TreeAssumption DEF Init
    <2>5. path \in Seq([name : Name \ {Up}, inode : Dir]) /\ Len(path) <= MaxPath
      BY <2>2, <2>4, BoundAssumption DEF Step
    <2>6. streams \in Seq([file : File, tail : Bytes])
      BY <2>3, <2>4
    <2>7. /\ mode \in Modes /\ fs = Nothing
          /\ err \in BOOLEAN /\ again \subseteq File
      BY DEF Init, Modes
    <2> QED
      BY <1>1, <2>1, <2>4, <2>5, <2>6, <2>7 DEF TypeOK
  <1> QED
    BY <1>2 DEF Init, IInv, RootNext, PathInv, SaveInv, ModeInv

\* cd keeps the path true.
LEMMA CdPath ==
  ASSUME IInv, NEW n \in Name, Cd(n)
  PROVE  /\ cd' \in Dir /\ path' \in Seq(Step) /\ Len(path') <= MaxPath
         /\ PathInv'
  <1> DEFINE i == fs.body.img
             d == Sub[i][cd][n]
  <1>1. /\ fs # Nothing /\ fs' = fs /\ i \in Image
        /\ cd \in Dir /\ path \in Seq(Step)
        /\ Len(path) \in Nat /\ Len(path) <= MaxPath
    BY DEF Cd, IInv, TypeOK, Content, Bytes, Version, Step
  <1>2. Shallow(i)' <=> Shallow(i)
    BY <1>1 DEF Shallow
  <1>3. Shallow(i) => Leads(i, path, cd)
    BY <1>1 DEF IInv, PathInv
  <1>4. SUFFICES ASSUME d # NoDir
                 PROVE  /\ cd' \in Dir /\ path' \in Seq(Step)
                        /\ Len(path') <= MaxPath
                        /\ Shallow(i) => Leads(i, path', cd')
    BY <1>1, <1>2, <1>3 DEF Cd, PathInv
  <1>5. d \in Dir
    BY <1>1, <1>4, TreeAssumption
  <1>6. cd' = d /\ path' = PathAfter(n, d)
    BY <1>4 DEF Cd
  <1>7. CASE n = Up /\ path # <<>>
    <2>1. path' = SubSeq(path, 1, Len(path) - 1)
      BY <1>6, <1>7 DEF PathAfter
    <2>2. path' \in Seq(Step) /\ Len(path') <= MaxPath
      <3>1. path' \in Seq(Step) /\ Len(path') = Len(path) - 1
        BY <2>1, <1>1, <1>7, ShorterPath
      <3> QED
        BY <3>1, <1>1, BoundAssumption
    <2>3. Shallow(i) => Leads(i, path', d)
      BY <2>1, <1>1, <1>3, <1>7, LeadsUp
    <2> QED
      BY <2>2, <2>3, <1>5, <1>6
  <1>8. CASE n = Up /\ path = <<>>
    <2>1. path' = path
      BY <1>6, <1>8 DEF PathAfter
    <2>2. Shallow(i) => d = cd
      BY <1>1, <1>3, <1>8, TreeAssumption DEF Leads, After
    <2> QED
      BY <2>1, <2>2, <1>1, <1>3, <1>5, <1>6
  <1>9. CASE n # Up
    <2> DEFINE e == [name |-> n, inode |-> d]
    <2>1. Shallow(i) => Room /\ Leads(i, Append(path, e), d)
      <3> SUFFICES ASSUME Shallow(i)
                   PROVE  Room /\ Leads(i, Append(path, e), d)
        OBVIOUS
      <3>1. /\ Level[i][d] = Len(path) + 1
            /\ Leads(i, Append(path, e), d)
        BY <1>1, <1>3, <1>4, <1>9, LeadsDown
      <3>2. Level[i][d] <= MaxPath
        BY <1>5 DEF Shallow
      <3> QED
        BY <3>1, <3>2, <1>1, BoundAssumption DEF Room
    <2>2. CASE Room
      <3>1. path' = Append(path, e) /\ e \in Step
        BY <2>2, <1>5, <1>6, <1>9 DEF PathAfter, Step
      <3> HIDE DEF e
      <3>2. path' \in Seq(Step) /\ Len(path') = Len(path) + 1
        BY <3>1, <1>1, AppendProperties
      <3> QED
        BY SMTT(20), <3>1, <3>2, <2>1, <2>2, <1>1, <1>5, <1>6, BoundAssumption DEF Room
    <2>3. CASE ~ Room
      BY <2>1, <2>3, <1>1, <1>5, <1>6, <1>9 DEF PathAfter
    <2> QED
      BY <2>2, <2>3
  <1> QED
    BY <1>7, <1>8, <1>9

Stream == [file : File, tail : Bytes]

\* Actions that leave files and streams alone keep what is known of them.
LEMMA SavedAlone ==
  ASSUME SaveInv, UNCHANGED saved
  PROVE  SaveInv'
  BY DEF SaveInv, saved

\* Actions that leave the walk alone keep what is known of it.
LEMMA WalkAlone ==
  ASSUME PathInv, RootNext, UNCHANGED <<cd, path>>,
         fs # Nothing <=> fs' # Nothing,
         fs # Nothing => fs'.body.img = fs.body.img
  PROVE  PathInv' /\ RootNext'
  BY DEF PathInv, RootNext, Leads, After, Shallow

\* An image is entered at its root.
LEMMA EnterRoot ==
  ASSUME NEW i \in Image
  PROVE  Leads(i, <<>>, Root)
  BY TreeAssumption DEF Leads, After

\* A mount takes the image from its file and leaves path and directory alone.
LEMMA MountStart ==
  ASSUME IInv, Start \/ \E f \in File : Mount(f)
  PROVE  IInv'
  <1>1. /\ UNCHANGED <<cd, path, saved>> /\ mode' \in Modes \ {"start", "ended"}
        /\ err' \in BOOLEAN
        /\ \/ fs' = fs
           \/ fs = Nothing /\ \E f \in File : Opens(f) /\ fs' = files[f]
    <2>1. CASE Start
      <3>1. fs = Nothing
        BY <2>1 DEF Start, IInv, ModeInv
      <3> QED
        BY <2>1, <3>1 DEF Start, IInv, TypeOK, Modes
    <2>2. CASE \E f \in File : Mount(f)
      BY <2>2 DEF Mount, MountFree, IInv, TypeOK, Modes
    <2> QED
      BY <2>1, <2>2
  <1>2. SaveInv' /\ ModeInv'
    BY <1>1, SavedAlone DEF IInv, ModeInv
  <1>3. CASE fs' = fs
    <2>1. PathInv' /\ RootNext'
      BY <1>1, <1>3, WalkAlone DEF IInv
    <2> QED
      BY <1>1, <1>2, <1>3, <2>1 DEF IInv, TypeOK, saved
  <1>4. CASE fs = Nothing /\ \E f \in File : Opens(f) /\ fs' = files[f]
    <2>1. /\ fs' \in Content /\ fs'.body # Nothing /\ fs'.body.img \in Image
          /\ fs' # Nothing
      BY <1>4, ImageAssumption
         DEF Opens, IInv, TypeOK, Content, Bytes, Version
    <2>2. cd' = Root /\ path' = <<>>
      BY <1>1, <1>4 DEF IInv, RootNext
    <2>3. PathInv' /\ RootNext'
      BY <2>1, <2>2, EnterRoot DEF PathInv, RootNext
    <2> QED
      BY <1>1, <1>2, <2>1, <2>3 DEF IInv, TypeOK, saved
  <1> QED
    BY <1>1, <1>3, <1>4

\* umount goes back to the root, in the path too.
LEMMA UmountIInv ==
  ASSUME IInv, Umount
  PROVE  IInv'
  <1>1. /\ UNCHANGED saved /\ mode = "prompt" /\ mode' = mode
        /\ fs' = Nothing /\ cd' = Root /\ path' = <<>> /\ err' = FALSE
    BY DEF Umount, PathReset
  <1>2. SaveInv'
    BY <1>1, SavedAlone DEF IInv
  <1>3. <<>> \in Seq([name : Name \ {Up}, inode : Dir]) /\ Len(<<>>) = 0
    BY EmptySeq
  <1>4. TypeOK'
    <2>1. /\ path' \in Seq([name : Name \ {Up}, inode : Dir])
          /\ Len(path') <= MaxPath
      BY <1>1, <1>3, BoundAssumption
    <2>2. cd' \in Dir /\ err' \in BOOLEAN /\ fs' = Nothing
      BY <1>1, TreeAssumption
    <2> QED
      BY <1>1, <2>1, <2>2 DEF IInv, TypeOK, saved
  <1> QED
    BY <1>1, <1>2, <1>4 DEF IInv, RootNext, PathInv, ModeInv

\* cd changes directory and path together, as long as the path has room.
LEMMA CdIInv ==
  ASSUME IInv, NEW n \in Name, Cd(n)
  PROVE  IInv'
  <1>1. UNCHANGED <<mode, fs, saved>> /\ fs # Nothing /\ mode = "prompt"
    BY DEF Cd
  <1>2. err' \in BOOLEAN
    BY DEF Cd
  <1>3. SaveInv'
    BY <1>1, SavedAlone DEF IInv
  <1>4. TypeOK'
    BY <1>1, <1>2, CdPath DEF IInv, TypeOK, Step, saved
  <1> QED
    BY <1>1, <1>3, <1>4, CdPath DEF IInv, RootNext, ModeInv, saved

\* rm makes a later version of the image in memory, and of no other image.
LEMMA RmIInv ==
  ASSUME IInv, Rm
  PROVE  IInv'
  <1> DEFINE b == [fs.body EXCEPT !.edits = @ + 1]
             t == IF fs.tail = Nothing \/ fs.tail.edits = MaxEdits
                    THEN fs.tail ELSE [fs.tail EXCEPT !.edits = @ + 1]
  <1>1. /\ UNCHANGED <<mode, cd, path, saved>> /\ mode = "prompt"
        /\ fs # Nothing /\ fs.body.edits < MaxEdits
        /\ fs' = [body |-> b, tail |-> t]
        /\ err' = FALSE
    BY DEF Rm
  <1>2. fs.body \in Version /\ fs.tail \in Bytes
    BY <1>1 DEF IInv, TypeOK, Content, Bytes
  <1>3. b \in Version /\ b.img = fs.body.img
    BY <1>1, <1>2, BoundAssumption DEF Version
  <1>4. t \in Bytes
    BY <1>2, BoundAssumption DEF Bytes, Version
  <1> HIDE DEF b, t
  <1>5. fs' \in Content /\ fs' # Nothing /\ fs'.body = b /\ b # Nothing
    BY <1>1, <1>3, <1>4, ImageAssumption DEF Content, Bytes
  <1>6. PathInv' /\ RootNext'
    BY <1>1, <1>3, <1>5, WalkAlone DEF IInv
  <1>7. TypeOK'
    BY <1>1, <1>5 DEF IInv, TypeOK, saved
  <1>8. SaveInv' /\ ModeInv'
    BY <1>1, SavedAlone DEF IInv, ModeInv
  <1> QED
    BY <1>3, <1>5, <1>6, <1>7, <1>8 DEF IInv

\* Report, Fatal, Crash, Exit and End change neither memory nor files.
LEMMA QuietIInv ==
  ASSUME IInv, Report \/ Fatal \/ Crash \/ Exit \/ End \/ UNCHANGED vars
  PROVE  IInv'
  <1>1. /\ UNCHANGED <<fs, cd, path, saved>> /\ mode' \in Modes /\ err' \in BOOLEAN
        /\ mode' # mode => mode' # "start"
        /\ mode' = "ended" => mode = "ended" \/ streams = <<>>
    BY DEF Report, Fatal, Crash, Exit, End, vars, shell, saved, IInv, TypeOK, Modes
  <1>2. PathInv' /\ RootNext'
    BY <1>1, WalkAlone DEF IInv
  <1>3. SaveInv' /\ ModeInv'
    BY <1>1, SavedAlone DEF IInv, ModeInv, saved
  <1>4. TypeOK'
    BY <1>1 DEF IInv, TypeOK, saved
  <1> QED
    BY <1>2, <1>3, <1>4 DEF IInv

\* A save leaves the tail in a stream.
LEMMA SaveIInv ==
  ASSUME IInv, NEW f \in File, Save(f)
  PROVE  IInv'
  <1> DEFINE s == [file |-> f, tail |-> fs.tail]
  <1>1. /\ UNCHANGED <<mode, fs, cd, path>> /\ mode = "prompt"
        /\ fs # Nothing /\ err' = FALSE
        /\ files' = [files EXCEPT ![f] = Truncated(fs)]
        /\ streams' = Append(streams, s)
        /\ again' = IF lastSave[f] = Nothing THEN again ELSE again \cup {f}
        /\ lastSave' = [lastSave EXCEPT ![f] = fs]
    BY DEF Save
  <1>2. fs \in Content /\ s \in Stream /\ Truncated(fs) \in Content
    BY <1>1 DEF IInv, TypeOK, Content, Bytes, Stream, Truncated
  <1>3. s.file = f /\ s.tail = fs.tail
    OBVIOUS
  <1> HIDE DEF s
  <1>4. streams \in Seq(Stream) /\ DOMAIN streams = 1 .. Len(streams)
        /\ Len(streams) \in Nat
    BY DEF IInv, TypeOK, Stream
  <1>5. /\ streams' \in Seq(Stream) /\ DOMAIN streams' = 1 .. Len(streams) + 1
        /\ \A k \in DOMAIN streams : streams'[k] = streams[k]
        /\ streams'[Len(streams) + 1] = s
    BY <1>1, <1>2, <1>4, AppendProperties
  <1>6. TypeOK'
    BY <1>1, <1>2, <1>5 DEF IInv, TypeOK, Stream
  <1>7. SaveInv'
    <2> SUFFICES ASSUME NEW g \in File \ again'
                 PROVE  /\ lastSave'[g] = Nothing =>
                             \A k \in DOMAIN streams' : streams'[k].file # g
                        /\ lastSave'[g] # Nothing =>
                             /\ files'[g].body = lastSave'[g].body
                             /\ files'[g].tail \in {Nothing, lastSave'[g].tail}
                             /\ \A k \in DOMAIN streams' :
                                  streams'[k].file = g =>
                                    streams'[k].tail = lastSave'[g].tail
                             /\ \/ files'[g].tail = lastSave'[g].tail
                                \/ \E k \in DOMAIN streams' : streams'[k].file = g
      BY DEF SaveInv
    <2>1. g \in File \ again
      BY <1>1
    <2>2. CASE g = f
      <3>1. lastSave[f] = Nothing
        BY <2>2, <1>1
      <3>2. \A k \in DOMAIN streams : streams[k].file # f
        BY <3>1, <2>1, <2>2 DEF IInv, SaveInv
      <3>3. lastSave'[f] = fs /\ files'[f] = Truncated(fs)
        BY <1>1 DEF IInv, TypeOK
      <3>4. \A k \in DOMAIN streams' :
              streams'[k].file = f => k = Len(streams) + 1
        BY <3>2, <1>4, <1>5
      <3>5. Len(streams) + 1 \in DOMAIN streams'
        BY <1>4, <1>5
      <3> QED
        BY <3>3, <3>4, <3>5, <2>2, <1>1, <1>3, <1>5 DEF Truncated
    <2>3. CASE g # f
      <3>1. lastSave'[g] = lastSave[g] /\ files'[g] = files[g]
        BY <2>3, <1>1 DEF IInv, TypeOK
      <3>2. \A k \in DOMAIN streams' :
              streams'[k].file = g =>
                k \in DOMAIN streams /\ streams'[k] = streams[k]
        BY <2>3, <1>3, <1>4, <1>5
      <3>3. \A k \in DOMAIN streams :
              k \in DOMAIN streams' /\ streams'[k] = streams[k]
        BY <1>4, <1>5
      <3> QED
        BY <3>1, <3>2, <3>3, <2>1 DEF IInv, SaveInv
    <2> QED
      BY <2>2, <2>3
  <1>8. PathInv' /\ RootNext'
    BY <1>1, WalkAlone DEF IInv
  <1> QED
    BY <1>1, <1>6, <1>7, <1>8 DEF IInv, ModeInv

\* What a flush takes out of the streams is in the file.
LEMMA FlushIInv ==
  ASSUME IInv, NEW i \in DOMAIN streams, Flush(i)
  PROVE  IInv'
  <1> DEFINE s == streams[i]
             n == Len(streams)
  <1>1. /\ UNCHANGED <<mode, fs, cd, path, err, lastSave, again>>
        /\ mode = "closing"
        /\ files' = IF s.tail = Nothing THEN files
                    ELSE [files EXCEPT ![s.file].tail = s.tail]
        /\ streams' = SubSeq(streams, 1, i - 1)
                        \o SubSeq(streams, i + 1, Len(streams))
    BY DEF Flush, shell
  <1>2. /\ streams \in Seq(Stream) /\ DOMAIN streams = 1 .. n
        /\ n \in Nat /\ i \in 1 .. n /\ s \in Stream
    <2>1. streams \in Seq(Stream)
      BY DEF IInv, TypeOK, Stream
    <2>2. DOMAIN streams = 1 .. n /\ n \in Nat
      BY <2>1
    <2> QED
      BY <2>1, <2>2
  <1>3. /\ streams' \in Seq(Stream) /\ DOMAIN streams' = 1 .. n - 1
        /\ \A k \in 1 .. n - 1 :
             streams'[k] = IF k < i THEN streams[k] ELSE streams[k + 1]
    <2>1. /\ streams' \in Seq(Stream) /\ Len(streams') = n - 1
          /\ \A k \in 1 .. n - 1 :
               streams'[k] = IF k < i THEN streams[k] ELSE streams[k + 1]
      BY <1>1, <1>2, WithoutOne
    <2> QED
      BY <2>1
  <1> HIDE DEF s, n
  \* Every stream left was there, every stream but the flushed one is left.
  <1>4. \A k \in DOMAIN streams' : \E j \in DOMAIN streams : streams'[k] = streams[j]
    <2> TAKE k \in DOMAIN streams'
    <2>1. k \in DOMAIN streams /\ (k >= i => k + 1 \in DOMAIN streams)
      BY <1>2, <1>3
    <2> QED
      BY <2>1, <1>2, <1>3
  <1>5. \A j \in DOMAIN streams \ {i} :
          \E k \in DOMAIN streams' : streams'[k] = streams[j]
    <2> TAKE j \in DOMAIN streams \ {i}
    <2>1. CASE j < i
      <3>1. j \in DOMAIN streams' /\ streams'[j] = streams[j]
        BY <2>1, <1>2, <1>3
      <3> QED
        BY <3>1
    <2>2. CASE j > i
      <3>1. /\ j - 1 \in DOMAIN streams' /\ ~ (j - 1 < i) /\ (j - 1) + 1 = j
        BY <2>2, <1>2, <1>3
      <3>2. streams'[j - 1] = streams[(j - 1) + 1]
        BY <3>1, <1>2, <1>3
      <3> QED
        BY <3>1, <3>2
    <2> QED
      BY <2>1, <2>2, <1>2
  <1>6. files' \in [File -> Content]
    BY <1>1, <1>2 DEF IInv, TypeOK, Content, Bytes, Stream
  <1>7. TypeOK'
    BY <1>1, <1>3, <1>6 DEF IInv, TypeOK, Stream
  <1>8. SaveInv'
    <2> SUFFICES ASSUME NEW g \in File \ again
                 PROVE  /\ lastSave[g] = Nothing =>
                             \A k \in DOMAIN streams' : streams'[k].file # g
                        /\ lastSave[g] # Nothing =>
                             /\ files'[g].body = lastSave[g].body
                             /\ files'[g].tail \in {Nothing, lastSave[g].tail}
                             /\ \A k \in DOMAIN streams' :
                                  streams'[k].file = g =>
                                    streams'[k].tail = lastSave[g].tail
                             /\ \/ files'[g].tail = lastSave[g].tail
                                \/ \E k \in DOMAIN streams' : streams'[k].file = g
      BY ZenonT(20), <1>1 DEF SaveInv
    <2>1. /\ lastSave[g] = Nothing => \A k \in DOMAIN streams : streams[k].file # g
          /\ lastSave[g] # Nothing =>
               /\ files[g].body = lastSave[g].body
               /\ files[g].tail \in {Nothing, lastSave[g].tail}
               /\ \A k \in DOMAIN streams :
                    streams[k].file = g => streams[k].tail = lastSave[g].tail
               /\ \/ files[g].tail = lastSave[g].tail
                  \/ \E k \in DOMAIN streams : streams[k].file = g
      BY DEF IInv, SaveInv
    <2>2. CASE g = s.file
      <3>1. lastSave[g] # Nothing /\ s.tail = lastSave[g].tail
        BY <2>1, <2>2 DEF s
      <3>2. files'[g].body = files[g].body /\ files'[g].tail = lastSave[g].tail
        <4>1. CASE s.tail = Nothing
          BY <4>1, <3>1, <2>1, <1>1
        <4>2. CASE s.tail # Nothing
          BY <4>2, <3>1, <2>2, <1>1 DEF IInv, TypeOK, Content
        <4> QED
          BY <4>1, <4>2
      <3> QED
        BY <3>1, <3>2, <2>1, <1>4
    <2>3. CASE g # s.file
      <3>1. files'[g] = files[g]
        BY <2>3, <1>1 DEF IInv, TypeOK
      <3>2. (\E k \in DOMAIN streams : streams[k].file = g) =>
              \E k \in DOMAIN streams' : streams'[k].file = g
        BY <2>3, <1>5 DEF s
      <3> QED
        BY <3>1, <3>2, <2>1, <1>4
    <2> QED
      BY <2>2, <2>3
  <1>9. PathInv' /\ RootNext'
    BY <1>1, WalkAlone DEF IInv
  <1> QED
    BY <1>1, <1>7, <1>8, <1>9 DEF IInv, ModeInv

\* No step breaks the invariant.
LEMMA NextIInv ==
  ASSUME IInv, [Next]_vars
  PROVE  IInv'
  <1>1. CASE Start \/ \E f \in File : Mount(f)
    BY <1>1, MountStart
  <1>2. CASE \E f \in File : Save(f)
    BY <1>2, SaveIInv
  <1>3. CASE \E n \in Name : Cd(n)
    BY <1>3, CdIInv
  <1>4. CASE Umount
    BY <1>4, UmountIInv
  <1>5. CASE Rm
    BY <1>5, RmIInv
  <1>6. CASE Report \/ Fatal \/ Crash \/ Exit \/ End \/ UNCHANGED vars
    BY <1>6, QuietIInv
  <1>7. CASE \E i \in DOMAIN streams : Flush(i)
    BY <1>7, FlushIInv
  <1> QED
    BY <1>1, <1>2, <1>3, <1>4, <1>5, <1>6, <1>7 DEF Next

\* The invariant of the session holds at all times.
THEOREM Invariance == Spec => []IInv
  <1>1. Init => IInv
    BY InitIInv
  <1>2. IInv /\ [Next]_vars => IInv'
    BY NextIInv
  <1> QED
    BY <1>1, <1>2, PTL DEF Spec

-----------------------------------------------------------------------------
(* What a session shows and leaves.                                        *)

\* The path in the prompt leads to the directory the commands work in, in any
\* image whose directories lie no deeper than Shell.path has cells.
THEOREM PathIsTrue == Spec => []PathShown
  <1>1. IInv => PathShown
    BY DEF IInv, PathInv, PathShown, PathLeadsToCd, Leads, Along, After
  <1> QED
    BY <1>1, Invariance, PTL

\* A file saved once is whole at the end of the session, in whatever order the
\* streams are flushed, whether the end was exit or a fatal error.
THEOREM SavesOnce == Spec => []SavedOnceIsWhole
  <1>1. ASSUME IInv, mode = "ended", NEW f \in File \ again, lastSave[f] # Nothing
        PROVE  files[f] = lastSave[f]
    <2>1. files[f] \in Content /\ lastSave[f] \in Content
      BY <1>1 DEF IInv, TypeOK
    <2>2. files[f].body = lastSave[f].body
      BY <1>1 DEF IInv, SaveInv
    <2>3. files[f].tail = lastSave[f].tail
      <3>1. DOMAIN streams = {}
        BY <1>1, EmptySeq DEF IInv, ModeInv
      <3> QED
        BY <3>1, <1>1 DEF IInv, SaveInv
    <2> QED
      BY <2>1, <2>2, <2>3 DEF Content
  <1>2. IInv => SavedOnceIsWhole
    BY <1>1 DEF SavedOnceIsWhole
  <1> QED
    BY <1>2, Invariance, PTL

\* Every variable keeps its type, for any images and any number of streams.
THEOREM TypeCorrect == Spec => []TypeOK
  <1>1. IInv => TypeOK
    BY DEF IInv
  <1> QED
    BY <1>1, Invariance, PTL
=============================================================================
