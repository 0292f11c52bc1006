------------------------------- MODULE Prompt -------------------------------
(***************************************************************************)
(* The shell's prompt (shell.c): how a line that was typed becomes a       *)
(* command with arguments, or a suggestion of one.  fgets takes what fits  *)
(* in a buffer, strtok cuts words out of it one call at a time, the table  *)
(* of commands is searched for the first of them.  What a command does is  *)
(* narrowed down here to its result and to Shell.fs; module Console says   *)
(* more of the commands that look at the image.                            *)
(***************************************************************************)
EXTENDS Levenshtein

CONSTANTS
  Char, Blank,  \* what lines are made of; the character that parts words
  NewLine,
  Line,         \* lines that may be typed, without what ends them
  Commands,     \* _shellCommands: [name, fn, needsMount] records in a sequence
  Image,        \* what can be mounted
  Nothing,
  INT_MAX,
  BufSize,      \* bytes of shellRun's buffer (1024)
  MaxArgs       \* cells of argv (64)

\* The commands that want one argument and no more.
OneArg == {"cat", "cd", "rm", "stat", "mount", "save", "fsdump"}

\* Those that say something and always succeed.
Talk == {"clear", "help", "man"}

Functions == OneArg \cup Talk \cup {"exit", "ls", "rmdir", "umount"}

ASSUME BufferAssumption ==
  /\ BufSize \in Nat /\ BufSize >= 2
  /\ MaxArgs \in Nat /\ MaxArgs >= 1

\* The largest distance that is suggested is less than an int can be.
ASSUME IntAssumption == INT_MAX \in Nat /\ INT_MAX > 2

ASSUME LineAssumption ==
  /\ Blank \in Char /\ NewLine \notin Char
  /\ Line \subseteq Seq(Char)

ASSUME TableAssumption ==
  /\ Commands \in Seq([name : Seq(Char), fn : Functions, needsMount : BOOLEAN])
  /\ \A i \in DOMAIN Commands :
       Commands[i].fn \notin Talk \cup {"exit", "mount"} => Commands[i].needsMount
  /\ Nothing \notin Image

VARIABLES
  pc,      \* what the program is at
  rest,    \* typed, and not yet taken by fgets
  closed,  \* the input has ended
  buf,     \* what fgets took, up to the new-line character
  at,      \* where in buf strtok goes on
  argv,    \* the words found: from where to where in buf
  call,    \* the command that runs, by its place in the table
  said,    \* what came of the last line that was looked up
  best,    \* the command that is nearest so far, and its distance
  hint,    \* the command suggested, or 0
  err,     \* Shell.err
  fs,      \* Shell.fs
  line     \* history: the line that was typed last

input == <<rest, closed, line>>
words == <<buf, at, argv>>
reply == <<call, said, hint, best>>
vars  == <<pc, input, words, reply, err, fs>>

States == {"prompt", "splitting", "split", "suggesting", "running", "closing", "left", "crashed"}

\* What _tryLevenshtein starts from.
NoneYet == [tried |-> 0, cmd |-> 0, dist |-> INT_MAX]

Init ==
  /\ pc = "prompt"
  /\ rest = <<>> /\ closed = FALSE /\ line = <<>>
  /\ buf = <<>> /\ at = 1 /\ argv = <<>>
  /\ call = 0 /\ said = "nothing" /\ hint = 0
  /\ best = NoneYet
  /\ err = FALSE
  /\ fs \in Image \cup {Nothing}

-----------------------------------------------------------------------------
(* Lines.                                                                  *)

NewWords(b) ==
  /\ buf' = b /\ at' = 1 /\ argv' = <<>>
  /\ call' = 0 /\ said' = "nothing" /\ hint' = 0 /\ best' = best

\* The user types a line and ends it; or ends the input, in a line or after.
\* What the line before it came to is forgotten, which fgets need not look at.
Type(l) ==
  /\ pc = "prompt" /\ rest = <<>> /\ ~ closed
  /\ line' = l
  /\ \/ rest' = Append(l, NewLine) /\ closed' = FALSE
     \/ rest' = l /\ closed' = TRUE
  /\ NewWords(<<>>)
  /\ UNCHANGED <<pc, err, fs>>

TakenWithNoEnd == IF Len(rest) < BufSize - 1 THEN Len(rest) ELSE BufSize - 2

\* How many characters fgets takes: a byte is kept for the end of the string.
Taken == IF Len(rest) < BufSize THEN Len(rest) ELSE BufSize - 1

\* Up to the new-line character, if fgets took one.
UpToEnd(s) == IF s[Len(s)] = NewLine THEN SubSeq(s, 1, Len(s) - 1) ELSE s

NeverEmpty  == FALSE

IsEmptyLine == Head(rest) = NewLine

\* A line with nothing in it is passed over, as is the end of a line that just
\* fills the buffer.
ReadLine ==
  /\ pc = "prompt" /\ rest # <<>>
  /\ rest' = SubSeq(rest, Taken + 1, Len(rest))
  /\ IF IsEmptyLine
       THEN UNCHANGED <<pc, words, reply>>
       ELSE /\ pc' = "splitting"
            /\ NewWords(UpToEnd(SubSeq(rest, 1, Taken)))
  /\ UNCHANGED <<closed, line, err, fs>>

\* shellRun's loop ends when fgets has nothing to give.
EndOfInput ==
  /\ pc = "prompt" /\ rest = <<>> /\ closed
  /\ pc' = "closing"
  /\ UNCHANGED <<input, words, reply, err, fs>>

-----------------------------------------------------------------------------
(* Words: _getArgs.                                                        *)

BlankFrom(i, j) == \A k \in i .. j : buf[k] = Blank

\* (A word that ends with the line, whatever is in it.)
IsRestOfLine(i, j) ==
  BlankFrom(at, i - 1) /\ buf[i] # Blank /\ j = Len(buf)

\* buf[i .. j] is the first word from `at` on.
IsNextWord(i, j) ==
  /\ BlankFrom(at, i - 1)
  /\ \A k \in i .. j : buf[k] # Blank
  /\ j < Len(buf) => buf[j + 1] = Blank

MoreArgsByOne == Len(argv) <= MaxArgs

MoreArgs == Len(argv) < MaxArgs

\* strtok finds a word, and goes on behind the blank that ended it.
NextArg ==
  /\ pc = "splitting" /\ MoreArgs
  /\ \E i \in at .. Len(buf) : \E j \in i .. Len(buf) :
       /\ IsNextWord(i, j)
       /\ argv' = Append(argv, [from |-> i, to |-> j])
       /\ at' = j + 2
  /\ UNCHANGED <<pc, buf, input, reply, err, fs>>

\* strtok finds no more, or argv is full.
ArgsDone ==
  /\ pc = "splitting"
  /\ MoreArgs => BlankFrom(at, Len(buf))
  /\ pc' = "split"
  /\ UNCHANGED <<input, words, reply, err, fs>>

Arg(n) == SubSeq(buf, argv[n].from, argv[n].to)

\* The buffer as a string, once strtok has ended the first word with a zero.
Cut == SubSeq(buf, 1, argv[1].to)

-----------------------------------------------------------------------------
(* Commands: _checkCommands, _tryLevenshtein.                              *)

IsCommand(i) ==
  Commands[i].name = Arg(1) /\ \A j \in 1 .. i - 1 : Commands[j].name # Arg(1)

Refused(i) == Commands[i].needsMount /\ fs = Nothing

\* A line of blanks has no first argument, and strcmp is given a null pointer.
NoCommand ==
  /\ pc = "split" /\ argv = <<>>
  /\ pc' = "crashed"
  /\ UNCHANGED <<input, words, reply, err, fs>>

Call(i) ==
  /\ pc = "split" /\ argv # <<>> /\ IsCommand(i) /\ ~ Refused(i)
  /\ pc' = "running"
  /\ call' = i /\ said' = "called"
  /\ UNCHANGED <<input, words, hint, best, err, fs>>

\* Shell.err stays what the command before it made it.
Refuse(i) ==
  /\ pc = "split" /\ argv # <<>> /\ IsCommand(i) /\ Refused(i)
  /\ pc' = "prompt"
  /\ said' = "refused"
  /\ UNCHANGED <<input, words, call, hint, best, err, fs>>

Unknown ==
  /\ pc = "split" /\ argv # <<>>
  /\ \A i \in DOMAIN Commands : Commands[i].name # Arg(1)
  /\ pc' = "suggesting"
  /\ said' = "unknown"
  /\ UNCHANGED <<input, words, call, hint, best, err, fs>>

AsNear(dist) == dist <= best.dist

Nearer(dist) == dist < best.dist

\* One iteration of _tryLevenshtein.
Consider ==
  /\ pc = "suggesting" /\ best.tried < Len(Commands)
  /\ LET i == best.tried + 1
     IN  \E dist \in {Distance(Cut, Commands[i].name)} :
           best' = [tried |-> i,
                    cmd   |-> IF Nearer(dist) THEN i ELSE best.cmd,
                    dist  |-> IF Nearer(dist) THEN dist ELSE best.dist]
  /\ UNCHANGED <<pc, input, words, call, said, hint, err, fs>>

Suggest ==
  /\ pc = "suggesting" /\ best.tried = Len(Commands)
  /\ pc' = "prompt"
  /\ hint' = IF best.dist > 2 THEN 0 ELSE best.cmd
  /\ best' = NoneYet
  /\ UNCHANGED <<input, words, call, said, err, fs>>

-----------------------------------------------------------------------------
(* What the commands leave behind.                                         *)

Fn == Commands[call].fn

\* They return e, and Shell.fs is f then.
MayReturn(e, f) ==
  /\ Fn \in OneArg /\ Len(argv) # 2 => e
  /\ Fn \in Talk \cup {"exit", "umount"} => ~ e
  /\ Fn = "save" /\ Len(argv) = 2 => ~ e
  /\ Fn = "mount" /\ fs # Nothing => e
  /\ IF Fn = "umount" THEN f = Nothing
     ELSE IF Fn = "mount" /\ ~ e THEN f \in Image
     ELSE f = fs

Return(e, f) ==
  /\ pc = "running" /\ MayReturn(e, f)
  /\ pc' = IF Fn = "exit" THEN "closing" ELSE "prompt"
  /\ err' = e /\ fs' = f
  /\ UNCHANGED <<input, words, reply>>

\* FATAL, in what reads the image or opens a file.
Fatal ==
  /\ pc = "running" /\ Fn \notin Talk \cup {"exit"}
  /\ pc' = "left"
  /\ UNCHANGED <<input, words, reply, err, fs>>

\* Undefined behaviour in what looks at the image.
Break ==
  /\ \/ pc = "running" /\ Commands[call].needsMount
     \/ pc = "closing" /\ fs # Nothing
  /\ pc' = "crashed"
  /\ UNCHANGED <<input, words, reply, err, fs>>

\* shellFree.
Leave ==
  /\ pc = "closing"
  /\ pc' = "left" /\ fs' = Nothing
  /\ UNCHANGED <<input, words, reply, err>>

\* What the program does, up to the command's own work.
Dispatch ==
  \/ ReadLine \/ EndOfInput \/ NextArg \/ ArgsDone \/ NoCommand
  \/ Unknown \/ Consider \/ Suggest
  \/ \E i \in DOMAIN Commands : Call(i) \/ Refuse(i)

Run ==
  \/ \E e \in BOOLEAN, f \in Image \cup {Nothing} : Return(e, f)
  \/ Fatal \/ Break \/ Leave

Next == (\E l \in Line : Type(l)) \/ Dispatch \/ Run

Spec == Init /\ [][Next]_vars

-----------------------------------------------------------------------------
TypeOK ==
  /\ pc \in States
  /\ rest \in Seq(Char \cup {NewLine}) /\ closed \in BOOLEAN /\ line \in Seq(Char)
  /\ buf \in Seq(Char) /\ Len(buf) < BufSize
  /\ at \in 1 .. Len(buf) + 2
  /\ argv \in Seq([from : 1 .. Len(buf), to : 1 .. Len(buf)])
  /\ Len(argv) <= MaxArgs
  /\ call \in 0 .. Len(Commands) /\ hint \in 0 .. Len(Commands)
  /\ best.tried \in 0 .. Len(Commands) /\ best.cmd \in 0 .. Len(Commands)
  /\ said \in {"nothing", "unknown", "refused", "called"}
  /\ err \in BOOLEAN /\ fs \in Image \cup {Nothing}

\* A line shorter than the buffer reaches its command whole, and nothing of it
\* is left to be taken for another line; one that just fills the buffer is not
\* followed by an empty one.
LineIsWhole ==
  /\ pc \in {"splitting", "split", "running"} /\ Len(line) < BufSize => buf = line
  /\ pc = "prompt" /\ Len(line) < BufSize =>
       rest \in {<<>>, line, Append(line, NewLine), <<NewLine>>}

IsWordOf(s, i, j) ==
  /\ \A k \in i .. j : s[k] # Blank
  /\ i > 1 => s[i - 1] = Blank
  /\ j < Len(s) => s[j + 1] = Blank

\* The arguments are words of the line, none is passed over, and any that lie
\* behind the last were too many.
ArgsAreWords ==
  /\ \A n \in DOMAIN argv :
       /\ argv[n].from <= argv[n].to
       /\ IsWordOf(buf, argv[n].from, argv[n].to)
  /\ \A n \in DOMAIN argv :
       BlankFrom(IF n = 1 THEN 1 ELSE argv[n - 1].to + 1, argv[n].from - 1)
  /\ pc \in {"split", "running"} /\ Len(argv) < MaxArgs =>
       BlankFrom(IF argv = <<>> THEN 1 ELSE argv[Len(argv)].to + 1, Len(buf))

\* What is suggested for a word that names no command is as near to it as any
\* command is, by counting edits, and nothing is suggested if none is near; the
\* blanks before the word count as letters of it.
HintIsNearest ==
  pc = "prompt" /\ said = "unknown" =>
    IF hint = 0
      THEN \A i \in DOMAIN Commands : ~ Within(2, Cut, Commands[i].name)
      ELSE \E n \in 0 .. 2 :
             /\ Within(n, Cut, Commands[hint].name)
             /\ \A i \in DOMAIN Commands, m \in 0 .. 2 :
                  Within(m, Cut, Commands[i].name) =>
                    n <= m /\ (i < hint => n < m)
=============================================================================
