---------------------------- MODULE ConsoleProofs ----------------------------
(***************************************************************************)
(* Proofs about the prompt and the commands under it, for buffers and      *)
(* argument lists of any length, any lines, any table of commands and      *)
(* images of any geometry.                                                 *)
(*                                                                         *)
(* The prompt: a line that is shorter than the buffer reaches its command  *)
(* whole, the arguments are the words of it, and what is suggested for an  *)
(* unknown word is the nearest command.                                    *)
(*                                                                         *)
(* The console: the commands do to the session what the prompt counts on   *)
(* (a refinement), they stay within what was read when an image of one     *)
(* group was mounted, fsdump's letters mean what they say, and what is     *)
(* left that ends the session is known.                                    *)
(***************************************************************************)
EXTENDS Console, LevenshteinProofs, FiniteSetTheorems

-----------------------------------------------------------------------------
(* THE PROMPT. What is true at each place of its program.                  *)

\* fgets stops at a new-line character, which only ends what was typed.
EndIsLast == \A k \in 1 .. Len(rest) - 1 : rest[k] # NewLine

\* What is left of a line that is shorter than the buffer: all of it, as long
\* as the prompt waits, or at most its end.
LineKept ==
  Len(line) < BufSize =>
    \/ rest \in {<<>>, <<NewLine>>}
    \/ pc = "prompt" /\ rest \in {line, Append(line, NewLine)}

LineInBuffer ==
  Len(line) < BufSize /\ pc \in {"splitting", "split", "running"} => buf = line

\* There is something to split, and strtok goes on two characters behind the
\* end of the last word: past it and the blank that followed.
Progress ==
  /\ pc \in {"splitting", "split"} => buf # <<>>
  /\ pc \in {"suggesting", "running"} => argv # <<>>
  /\ pc = "running" => call \in DOMAIN Commands /\ said = "called"
  /\ at = IF argv = <<>> THEN 1 ELSE argv[Len(argv)].to + 2

IInv == TypeOK /\ EndIsLast /\ LineKept /\ LineInBuffer /\ Progress /\ ArgsAreWords

-----------------------------------------------------------------------------
(* Lemmas about the lines.                                                 *)

\* A part of a sequence.
LEMMA Part ==
  ASSUME NEW S, NEW s \in Seq(S), NEW m \in 1 .. Len(s) + 1, NEW n \in 0 .. Len(s), m <= n + 1
  PROVE  /\ SubSeq(s, m, n) \in Seq(S)
         /\ Len(SubSeq(s, m, n)) = n - m + 1
         /\ \A k \in 1 .. n - m + 1 : SubSeq(s, m, n)[k] = s[m + k - 1]
  BY SubSeqProperties

\* A sequence of the elements of S, if its elements are.
LEMMA ElementsIn ==
  ASSUME NEW S, NEW T, NEW s \in Seq(T), \A k \in 1 .. Len(s) : s[k] \in S
  PROVE  s \in Seq(S)
  BY SeqDef, LenProperties

\* What fgets takes and what it leaves.
LEMMA Split ==
  ASSUME TypeOK, EndIsLast, rest # <<>>
  PROVE  LET s == SubSeq(rest, 1, Taken)
             r == SubSeq(rest, Taken + 1, Len(rest))
         IN  /\ Taken \in 1 .. Len(rest) /\ Taken < BufSize
             /\ s \in Seq(Char \cup {NewLine}) /\ Len(s) = Taken
             /\ \A k \in 1 .. Taken : s[k] = rest[k]
             /\ r \in Seq(Char \cup {NewLine}) /\ Len(r) = Len(rest) - Taken
             /\ \A k \in 1 .. Len(rest) - Taken : r[k] = rest[Taken + k]
  <1>1. rest \in Seq(Char \cup {NewLine}) /\ Len(rest) \in Nat /\ Len(rest) >= 1
    BY LenProperties, EmptySeq DEF TypeOK
  <1>2. Taken \in 1 .. Len(rest) /\ Taken < BufSize
    BY <1>1, BufferAssumption DEF Taken
  <1> HIDE DEF Taken
  <1>3. Len(rest) - (Taken + 1) + 1 = Len(rest) - Taken /\ Taken - 1 + 1 = Taken
    BY <1>1, <1>2
  <1>4. \A k \in 1 .. Len(rest) - Taken : Taken + 1 + k - 1 = Taken + k
    BY <1>1, <1>2
  <1>5. \A k \in 1 .. Taken : 1 + k - 1 = k
    BY <1>1, <1>2
  <1>6. LET s == SubSeq(rest, 1, Taken)
        IN  /\ s \in Seq(Char \cup {NewLine}) /\ Len(s) = Taken
            /\ \A k \in 1 .. Taken : s[k] = rest[k]
    BY <1>1, <1>2, <1>3, <1>5, Part
  <1>7. LET r == SubSeq(rest, Taken + 1, Len(rest))
        IN  /\ r \in Seq(Char \cup {NewLine}) /\ Len(r) = Len(rest) - Taken
            /\ \A k \in 1 .. Len(rest) - Taken : r[k] = rest[Taken + k]
    <2>1. /\ Taken + 1 \in 1 .. Len(rest) + 1 /\ Len(rest) \in 0 .. Len(rest)
          /\ Taken + 1 <= Len(rest) + 1
      BY <1>1, <1>2
    <2> QED
      BY <1>1, <1>3, <1>4, <2>1, Part
  <1> QED
    BY <1>2, <1>6, <1>7

\* The buffer holds characters of the line, and some, unless the line was empty.
LEMMA Buffered ==
  ASSUME TypeOK, EndIsLast, rest # <<>>, ~ IsEmptyLine
  PROVE  LET s == SubSeq(rest, 1, Taken)
             b == UpToEnd(s)
         IN  /\ b \in Seq(Char) /\ Len(b) < BufSize /\ b # <<>>
             /\ Len(b) = IF rest[Taken] = NewLine THEN Taken - 1 ELSE Taken
             /\ \A k \in 1 .. Len(b) : b[k] = rest[k]
  <1> DEFINE s == SubSeq(rest, 1, Taken)
             n == IF rest[Taken] = NewLine THEN Taken - 1 ELSE Taken
  <1>1. /\ rest \in Seq(Char \cup {NewLine}) /\ Len(rest) \in Nat
        /\ rest[1] # NewLine /\ BufSize \in Nat
    BY HeadTailProperties, LenProperties, BufferAssumption DEF TypeOK, IsEmptyLine
  <1>2. /\ Taken \in 1 .. Len(rest) /\ Taken < BufSize
        /\ s \in Seq(Char \cup {NewLine}) /\ Len(s) = Taken
        /\ \A k \in 1 .. Taken : s[k] = rest[k]
    BY Split
  <1>3. \A k \in 1 .. Len(rest) : rest[k] \in Char \cup {NewLine}
    BY <1>1, ElementOfSeq
  <1> HIDE DEF Taken, s
  <1>4. n \in 1 .. Taken /\ (n = Taken - 1 \/ n = Taken)
    BY <1>1, <1>2
  <1>5. \A k \in 1 .. n : rest[k] \in Char
    BY <1>1, <1>2, <1>3, <1>4 DEF EndIsLast
  <1>6. /\ UpToEnd(s) \in Seq(Char \cup {NewLine}) /\ Len(UpToEnd(s)) = n
        /\ \A k \in 1 .. n : UpToEnd(s)[k] = rest[k]
    <2>1. CASE rest[Taken] = NewLine
      <3>1. UpToEnd(s) = SubSeq(s, 1, n) /\ n = Taken - 1
        BY <1>2, <2>1 DEF UpToEnd
      <3>2. 1 \in 1 .. Len(s) + 1 /\ n \in 0 .. Len(s) /\ 1 <= n + 1 /\ n - 1 + 1 = n
        BY <1>2, <1>4
      <3>3. \A k \in 1 .. n : 1 + k - 1 = k /\ k \in 1 .. Taken
        BY <1>2, <1>4
      <3>4. /\ SubSeq(s, 1, n) \in Seq(Char \cup {NewLine}) /\ Len(SubSeq(s, 1, n)) = n
            /\ \A k \in 1 .. n : SubSeq(s, 1, n)[k] = s[k]
        BY <1>2, <3>2, <3>3, Part
      <3> QED
        BY <1>2, <3>1, <3>3, <3>4
    <2>2. CASE rest[Taken] # NewLine
      BY <1>2, <2>2 DEF UpToEnd
    <2> QED
      BY <2>1, <2>2
  <1> HIDE DEF n
  <1>7. UpToEnd(s) \in Seq(Char)
    BY <1>5, <1>6, ElementsIn
  <1>8. UpToEnd(s) # <<>>
    BY <1>4, <1>6, EmptySeq
  <1> QED
    BY <1>1, <1>2, <1>4, <1>6, <1>7, <1>8 DEF n, s

\* A line that is shorter than the buffer is all taken, but for its end.
LEMMA WholeLine ==
  ASSUME TypeOK, EndIsLast, rest # <<>>, Len(line) < BufSize,
         rest \in {line, Append(line, NewLine)}
  PROVE  LET s == SubSeq(rest, 1, Taken)
             r == SubSeq(rest, Taken + 1, Len(rest))
         IN  /\ ~ IsEmptyLine => UpToEnd(s) = line
             /\ r \in {<<>>, <<NewLine>>}
             /\ IsEmptyLine => r = <<>>
  <1> DEFINE s == SubSeq(rest, 1, Taken)
             r == SubSeq(rest, Taken + 1, Len(rest))
             b == UpToEnd(s)
  <1>1. /\ Taken \in 1 .. Len(rest) /\ Taken < BufSize
        /\ r \in Seq(Char \cup {NewLine}) /\ Len(r) = Len(rest) - Taken
        /\ \A k \in 1 .. Len(rest) - Taken : r[k] = rest[Taken + k]
    BY Split
  <1>2. ~ IsEmptyLine =>
          /\ b \in Seq(Char)
          /\ Len(b) = IF rest[Taken] = NewLine THEN Taken - 1 ELSE Taken
          /\ \A k \in 1 .. Len(b) : b[k] = rest[k]
    BY Buffered
  <1>3. /\ rest \in Seq(Char \cup {NewLine}) /\ Len(rest) \in Nat
        /\ line \in Seq(Char) /\ Len(line) \in Nat
        /\ BufSize \in Nat /\ BufSize >= 2 /\ NewLine \notin Char
        /\ \A k \in 1 .. Len(line) : line[k] \in Char
    BY LenProperties, ElementOfSeq, BufferAssumption, LineAssumption DEF TypeOK
  <1>4. IsEmptyLine <=> rest[1] = NewLine
    BY <1>3, HeadTailProperties DEF IsEmptyLine
  <1>5. Len(rest) < BufSize => Taken = Len(rest)
    BY <1>3 DEF Taken
  <1>6. Len(rest) >= BufSize => Taken = BufSize - 1
    BY <1>3 DEF Taken
  <1> HIDE DEF Taken, s, r, b
  <1>7. CASE rest = line
    <2>1. Taken = Len(line) /\ Len(r) = 0
      BY <1>1, <1>3, <1>5, <1>7
    <2>2. r = <<>>
      BY <1>1, <2>1, EmptySeq
    <2>3. ASSUME ~ IsEmptyLine PROVE b = line
      <3>1. Len(b) = Len(line) /\ \A k \in 1 .. Len(line) : b[k] = line[k]
        BY <1>1, <1>2, <1>3, <1>7, <2>1, <2>3
      <3> QED
        BY <1>2, <1>3, <2>3, <3>1, SeqEqual
    <2> QED
      BY <2>2, <2>3 DEF s, r, b
  <1>8. CASE rest = Append(line, NewLine)
    <2>1. /\ Len(rest) = Len(line) + 1 /\ rest[Len(line) + 1] = NewLine
          /\ \A k \in 1 .. Len(line) : rest[k] = line[k]
      BY <1>3, <1>8, AppendProperties
    <2>2. CASE Len(rest) < BufSize
      <3>1. Taken = Len(line) + 1 /\ Len(r) = 0 /\ rest[Taken] = NewLine
        BY <1>1, <1>3, <1>5, <2>1, <2>2
      <3>2. r = <<>>
        BY <1>1, <3>1, EmptySeq
      <3>3. ASSUME ~ IsEmptyLine PROVE b = line
        <4>1. Len(b) = Len(line) /\ \A k \in 1 .. Len(line) : b[k] = line[k]
          BY <1>2, <1>3, <2>1, <3>1, <3>3
        <4> QED
          BY <1>2, <1>3, <3>3, <4>1, SeqEqual
      <3> QED
        BY <3>2, <3>3 DEF s, r, b
    <2>3. CASE Len(rest) >= BufSize
      <3>1. /\ Taken = Len(line) /\ Taken >= 1 /\ Len(r) = 1 /\ r[1] = NewLine
            /\ rest[Taken] # NewLine /\ rest[1] # NewLine
        <4>1. Taken = Len(line) /\ Taken >= 1
          BY <1>1, <1>3, <1>6, <2>1, <2>3
        <4> QED
          BY <1>1, <1>3, <2>1, <4>1
      <3>2. r = <<NewLine>>
        BY <1>1, <3>1, SeqEqual
      <3>3. Len(b) = Len(line) /\ \A k \in 1 .. Len(line) : b[k] = line[k]
        BY <1>2, <1>3, <1>4, <2>1, <3>1
      <3>4. b = line
        BY <1>2, <1>3, <1>4, <3>1, <3>3, SeqEqual
      <3> QED
        BY <1>4, <3>1, <3>2, <3>4 DEF s, r, b
    <2> QED
      BY <1>3, <2>2, <2>3
  <1> QED
    BY <1>7, <1>8

-----------------------------------------------------------------------------
(* The initial states and the steps.                                       *)

\* At the first prompt nothing is typed yet.
LEMMA InitIInv == Init => IInv
  <1> SUFFICES ASSUME Init PROVE IInv
    OBVIOUS
  <1>1. TypeOK
    <2>1. /\ <<>> \in Seq(Char \cup {NewLine}) /\ <<>> \in Seq(Char)
          /\ <<>> \in Seq([from : 1 .. Len(buf), to : 1 .. Len(buf)])
          /\ Len(<<>>) = 0 /\ Len(Commands) \in Nat
      BY EmptySeq, LenProperties, TableAssumption
    <2>2. at \in 1 .. Len(buf) + 2 /\ Len(buf) < BufSize /\ Len(argv) <= MaxArgs
      BY <2>1, BufferAssumption DEF Init
    <2>3. best.tried \in 0 .. Len(Commands) /\ best.cmd \in 0 .. Len(Commands)
      BY <2>1 DEF Init, NoneYet
    <2>4. /\ rest \in Seq(Char \cup {NewLine}) /\ line \in Seq(Char) /\ buf \in Seq(Char)
          /\ argv \in Seq([from : 1 .. Len(buf), to : 1 .. Len(buf)])
      BY <2>1, Zenon DEF Init
    <2>5. /\ pc \in States /\ closed \in BOOLEAN
          /\ said \in {"nothing", "unknown", "refused", "called"}
          /\ err \in BOOLEAN /\ fs \in Image \cup {Nothing}
      BY DEF Init, States
    <2>6. call \in 0 .. Len(Commands) /\ hint \in 0 .. Len(Commands)
      BY <2>1 DEF Init
    <2> QED
      BY <2>2, <2>3, <2>4, <2>5, <2>6 DEF TypeOK
  <1>2. EndIsLast /\ LineKept /\ LineInBuffer /\ Progress
    BY DEF Init, EndIsLast, LineKept, LineInBuffer, Progress
  <1>3. ArgsAreWords
    BY DEF Init, ArgsAreWords
  <1> QED
    BY <1>1, <1>2, <1>3 DEF IInv

\* A step that neither takes from the line nor splits it, and that runs a
\* command only after it was looked up, keeps the invariant if what it replies
\* is of the right type.
LEMMA Quiet ==
  ASSUME IInv, UNCHANGED <<input, words>>,
         pc' \in States \ {"splitting", "split"},
         pc = "prompt" => rest = <<>>,
         pc' \in {"suggesting", "running"} => pc \in {"split", "suggesting", "running"} /\ argv # <<>>,
         pc' = "running" => pc \in {"split", "running"} /\ call' \in DOMAIN Commands /\ said' = "called",
         call' \in 0 .. Len(Commands), hint' \in 0 .. Len(Commands),
         best'.tried \in 0 .. Len(Commands), best'.cmd \in 0 .. Len(Commands),
         said' \in {"nothing", "unknown", "refused", "called"},
         err' \in BOOLEAN, fs' \in Image \cup {Nothing}
  PROVE  IInv'
  <1>1. /\ rest' = rest /\ closed' = closed /\ line' = line
        /\ buf' = buf /\ at' = at /\ argv' = argv
    BY DEF input, words
  <1>2. TypeOK'
    BY <1>1 DEF IInv, TypeOK
  <1>3. EndIsLast' /\ LineKept' /\ LineInBuffer'
    BY <1>1 DEF IInv, EndIsLast, LineKept, LineInBuffer
  <1>4. Progress'
    BY <1>1 DEF IInv, Progress
  <1>5. ArgsAreWords'
    BY <1>1 DEF IInv, ArgsAreWords, IsWordOf, BlankFrom
  <1> QED
    BY <1>2, <1>3, <1>4, <1>5 DEF IInv

\* NewWords leaves no word and no reply.
LEMMA Cleared ==
  ASSUME TypeOK, NEW b \in Seq(Char), Len(b) < BufSize, NewWords(b)
  PROVE  /\ buf' \in Seq(Char) /\ Len(buf') < BufSize
         /\ at' = 1 /\ at' \in 1 .. Len(buf') + 2
         /\ argv' = <<>> /\ Len(argv') <= MaxArgs
         /\ argv' \in Seq([from : 1 .. Len(buf'), to : 1 .. Len(buf')])
         /\ call' \in 0 .. Len(Commands) /\ hint' \in 0 .. Len(Commands)
         /\ best'.tried \in 0 .. Len(Commands) /\ best'.cmd \in 0 .. Len(Commands)
         /\ said' \in {"nothing", "unknown", "refused", "called"}
  <1>1. Len(b) \in Nat /\ Len(Commands) \in Nat /\ Len(<<>>) = 0
    BY LenProperties, EmptySeq, TableAssumption
  <1>2. <<>> \in Seq([from : 1 .. Len(buf'), to : 1 .. Len(buf')])
    BY EmptySeq
  <1>3. /\ buf' = b /\ at' = 1 /\ argv' = <<>> /\ best' = best
        /\ call' = 0 /\ hint' = 0 /\ said' = "nothing"
    BY DEF NewWords
  <1>4. at' \in 1 .. Len(buf') + 2
    BY <1>1, <1>3
  <1>5. Len(argv') <= MaxArgs
    BY <1>1, <1>3, BufferAssumption
  <1>6. best'.tried \in 0 .. Len(Commands) /\ best'.cmd \in 0 .. Len(Commands)
    BY <1>3 DEF TypeOK
  <1>7. call' \in 0 .. Len(Commands) /\ hint' \in 0 .. Len(Commands)
    BY <1>1, <1>3
  <1>8. argv' \in Seq([from : 1 .. Len(buf'), to : 1 .. Len(buf')])
    BY <1>2, <1>3, Zenon
  <1> QED
    BY <1>3, <1>4, <1>5, <1>6, <1>7, <1>8

\* What is typed is taken whole and changes nothing else.
LEMMA TypeKeeps ==
  ASSUME IInv, NEW l \in Line, Type(l)
  PROVE  IInv'
  <1>1. l \in Seq(Char) /\ l \in Seq(Char \cup {NewLine}) /\ Len(l) \in Nat
    BY LineAssumption, SeqMonotonic, LenProperties
  <1>2. /\ Append(l, NewLine) \in Seq(Char \cup {NewLine})
        /\ Len(Append(l, NewLine)) = Len(l) + 1
        /\ \A k \in 1 .. Len(l) : Append(l, NewLine)[k] = l[k]
    BY <1>1, AppendProperties
  <1>3. rest' \in {l, Append(l, NewLine)} /\ closed' \in BOOLEAN /\ line' = l
    BY DEF Type
  <1>4. pc' = "prompt" /\ pc' \in States /\ err' = err /\ fs' = fs /\ NewWords(<<>>)
    BY DEF Type, States
  <1>5. <<>> \in Seq(Char) /\ Len(<<>>) < BufSize
    BY EmptySeq, BufferAssumption
  <1>6. TypeOK'
    BY <1>1, <1>2, <1>3, <1>4, <1>5, Cleared DEF IInv, TypeOK
  <1>7. EndIsLast'
    BY <1>1, <1>2, <1>3, ElementOfSeq, LineAssumption DEF EndIsLast
  <1>8. LineKept' /\ LineInBuffer'
    BY <1>3, <1>4 DEF LineKept, LineInBuffer
  <1>9. Progress' /\ ArgsAreWords'
    BY <1>4 DEF NewWords, Progress, ArgsAreWords
  <1> QED
    BY <1>6, <1>7, <1>8, <1>9 DEF IInv

\* fgets takes a short line whole; of a longer one the rest stays for the next
\* call.
LEMMA ReadLineKeeps ==
  ASSUME IInv, ReadLine
  PROVE  IInv'
  <1>1. /\ TypeOK /\ EndIsLast /\ rest # <<>> /\ pc = "prompt"
        /\ closed' = closed /\ line' = line /\ err' = err /\ fs' = fs
        /\ rest' = SubSeq(rest, Taken + 1, Len(rest))
    BY DEF IInv, ReadLine
  <1>2. /\ Taken \in 1 .. Len(rest) /\ Len(rest) \in Nat
        /\ rest' \in Seq(Char \cup {NewLine}) /\ Len(rest') = Len(rest) - Taken
        /\ \A k \in 1 .. Len(rest) - Taken : rest'[k] = rest[Taken + k]
    BY <1>1, Split, LenProperties DEF TypeOK
  <1>3. EndIsLast'
    BY <1>1, <1>2 DEF EndIsLast
  <1>4. /\ Len(line) < BufSize => rest' \in {<<>>, <<NewLine>>}
        /\ Len(line) < BufSize /\ ~ IsEmptyLine =>
             UpToEnd(SubSeq(rest, 1, Taken)) = line
    <2> SUFFICES ASSUME Len(line) < BufSize
                 PROVE  /\ rest' \in {<<>>, <<NewLine>>}
                        /\ ~ IsEmptyLine => UpToEnd(SubSeq(rest, 1, Taken)) = line
      OBVIOUS
    <2>1. rest = <<NewLine>> \/ rest \in {line, Append(line, NewLine)}
      BY <1>1 DEF IInv, LineKept
    <2>2. CASE rest = <<NewLine>>
      <3>1. Len(rest) = 1 /\ Head(rest) = NewLine
        BY <2>2
      <3>2. IsEmptyLine /\ Len(rest') = 0
        BY <1>2, <3>1 DEF IsEmptyLine
      <3>3. rest' = <<>>
        BY <1>2, <3>2, EmptySeq
      <3> QED
        BY <3>2, <3>3
    <2>3. CASE rest \in {line, Append(line, NewLine)}
      BY <1>1, <2>3, WholeLine
    <2> QED
      BY <2>1, <2>2, <2>3
  <1>5. CASE IsEmptyLine
    <2>1. UNCHANGED <<pc, words, reply>>
      BY <1>5 DEF ReadLine
    <2>2. TypeOK'
      BY <1>1, <1>2, <2>1 DEF TypeOK, words, reply
    <2>3. LineKept' /\ LineInBuffer' /\ Progress' /\ ArgsAreWords'
      BY <1>1, <1>4, <2>1 DEF IInv, LineKept, LineInBuffer, Progress, ArgsAreWords, IsWordOf, BlankFrom, words, reply
    <2> QED
      BY <1>3, <2>2, <2>3 DEF IInv
  <1>6. CASE ~ IsEmptyLine
    <2> DEFINE b == UpToEnd(SubSeq(rest, 1, Taken))
    <2>1. pc' = "splitting" /\ NewWords(b)
      BY <1>6 DEF ReadLine
    <2>2. b \in Seq(Char) /\ Len(b) < BufSize /\ b # <<>>
      BY <1>1, <1>6, Buffered
    <2>3. Len(line) < BufSize => b = line
      BY <1>4, <1>6
    <2> HIDE DEF b
    <2>4. TypeOK'
      BY <1>1, <1>2, <2>1, <2>2, Cleared DEF TypeOK, States
    <2>5. LineKept' /\ LineInBuffer'
      BY <1>1, <1>4, <2>1, <2>3 DEF LineKept, LineInBuffer, NewWords
    <2>6. Progress' /\ ArgsAreWords'
      BY <2>1, <2>2 DEF Progress, ArgsAreWords, NewWords
    <2> QED
      BY <1>3, <2>4, <2>5, <2>6 DEF IInv
  <1> QED
    BY <1>5, <1>6

\* The last word lies in the buffer.
LEMMA LastWord ==
  ASSUME TypeOK, argv # <<>>
  PROVE  /\ Len(argv) \in Nat \ {0} /\ Len(argv) \in DOMAIN argv
         /\ argv[Len(argv)].to \in 1 .. Len(buf)
  <1> DEFINE Cell == [from : 1 .. Len(buf), to : 1 .. Len(buf)]
  <1>1. argv \in Seq(Cell)
    BY DEF TypeOK
  <1> HIDE DEF Cell
  <1>2. Len(argv) \in Nat \ {0}
    BY <1>1, EmptySeq
  <1>3. Len(argv) \in 1 .. Len(argv) /\ DOMAIN argv = 1 .. Len(argv)
    BY <1>1, <1>2, LenProperties
  <1>4. argv[Len(argv)] \in Cell
    BY <1>1, <1>3, ElementOfSeq
  <1>5. argv[Len(argv)].to \in 1 .. Len(buf)
    BY <1>4 DEF Cell
  <1> QED
    BY <1>2, <1>3, <1>5

\* What lies between the last word and `at` is one blank, if anything does.
LEMMA BlankAfterLast ==
  ASSUME IInv, argv # <<>>, NEW i \in 1 .. Len(buf), i >= argv[Len(argv)].to + 1,
         BlankFrom(at, i)
  PROVE  BlankFrom(argv[Len(argv)].to + 1, i)
  <1> DEFINE w == argv[Len(argv)]
  <1>1. Len(buf) \in Nat
    BY LenProperties DEF IInv, TypeOK
  <1>2. Len(argv) \in DOMAIN argv
    BY LastWord DEF IInv
  <1>3. w.to \in 1 .. Len(buf) /\ at = w.to + 2
    BY LastWord DEF IInv, Progress
  <1>4. w.to < Len(buf) => buf[w.to + 1] = Blank
    BY <1>2 DEF IInv, ArgsAreWords, IsWordOf
  <1> HIDE DEF w
  <1>5. BlankFrom(w.to + 1, i)
    <2>1. SUFFICES ASSUME NEW k \in w.to + 1 .. i PROVE buf[k] = Blank
      BY DEF BlankFrom
    <2>2. CASE k = w.to + 1
      BY <1>1, <1>3, <1>4, <2>2
    <2>3. CASE k # w.to + 1
      <3>1. k \in at .. i
        BY <1>1, <1>3, <2>3
      <3> QED
        BY <3>1 DEF BlankFrom
    <2> QED
      BY <2>2, <2>3
  <1> QED
    BY <1>5 DEF w

\* strtok gives the next word and goes on behind it.
LEMMA NextArgKeeps ==
  ASSUME IInv, NextArg
  PROVE  IInv'
  <1>1. /\ UNCHANGED <<pc, buf, input, reply, err, fs>>
        /\ pc = "splitting" /\ Len(argv) < MaxArgs
    BY DEF NextArg, MoreArgs
  <1>i. PICK i \in at .. Len(buf) : \E j \in i .. Len(buf) :
          /\ IsNextWord(i, j)
          /\ argv' = Append(argv, [from |-> i, to |-> j])
          /\ at' = j + 2
    BY DEF NextArg
  <1>2. PICK j \in i .. Len(buf) :
          /\ IsNextWord(i, j)
          /\ argv' = Append(argv, [from |-> i, to |-> j])
          /\ at' = j + 2
    BY <1>i
  <1> DEFINE Cell == [from : 1 .. Len(buf), to : 1 .. Len(buf)]
             w == [from |-> i, to |-> j]
             n == Len(argv)
  <1>3. /\ buf \in Seq(Char) /\ Len(buf) \in Nat /\ at \in 1 .. Len(buf) + 2
        /\ argv \in Seq(Cell) /\ n \in Nat /\ MaxArgs \in Nat
    BY LenProperties, BufferAssumption DEF IInv, TypeOK
  <1>4. i \in 1 .. Len(buf) /\ j \in 1 .. Len(buf) /\ i <= j /\ w \in Cell
    BY <1>2, <1>3
  <1>5. /\ argv' \in Seq(Cell) /\ Len(argv') = n + 1 /\ argv'[n + 1] = w
        /\ \A k \in 1 .. n : argv'[k] = argv[k]
        /\ DOMAIN argv' = 1 .. n + 1 /\ DOMAIN argv = 1 .. n
    <2> HIDE DEF w, Cell
    <2>1. argv' = Append(argv, w)
      BY <1>2 DEF w
    <2> QED
      BY <1>3, <1>4, <2>1, AppendProperties, LenProperties
  <1>6. at' \in 1 .. Len(buf) + 2 /\ Len(argv') <= MaxArgs /\ argv' # <<>>
    <2> HIDE DEF w, Cell
    <2>1. at' \in 1 .. Len(buf) + 2
      BY <1>2, <1>3, <1>4
    <2>2. Len(argv') <= MaxArgs /\ Len(argv') # 0
      BY <1>1, <1>3, <1>5
    <2> QED
      BY <2>1, <2>2, EmptySeq
  <1>7. TypeOK'
    <2> HIDE DEF Cell, n
    <2>1. /\ rest' = rest /\ closed' = closed /\ line' = line /\ buf' = buf
          /\ pc' = pc /\ call' = call /\ hint' = hint /\ said' = said
          /\ best' = best /\ err' = err /\ fs' = fs
      BY <1>1 DEF input, reply
    <2>2. argv' \in Seq([from : 1 .. Len(buf'), to : 1 .. Len(buf')])
      BY <1>5, <2>1 DEF Cell
    <2> QED
      BY <1>6, <2>1, <2>2 DEF IInv, TypeOK
  <1>8. EndIsLast' /\ LineKept' /\ LineInBuffer'
    BY <1>1 DEF IInv, EndIsLast, LineKept, LineInBuffer, input
  <1>9. Progress'
    BY <1>1, <1>2, <1>5, <1>6 DEF IInv, Progress, reply
  <1>10. /\ \A k \in i .. j : buf[k] # Blank
         /\ j < Len(buf) => buf[j + 1] = Blank
         /\ BlankFrom(at, i - 1)
    BY <1>2 DEF IsNextWord
  <1>11. argv # <<>> => /\ n >= 1 /\ argv[n].to \in 1 .. Len(buf) /\ at = argv[n].to + 2
                        /\ BlankFrom(argv[n].to + 1, i - 1)
    <2>1. SUFFICES ASSUME argv # <<>>
                   PROVE  /\ n >= 1 /\ argv[n].to \in 1 .. Len(buf) /\ at = argv[n].to + 2
                          /\ BlankFrom(argv[n].to + 1, i - 1)
      OBVIOUS
    <2>2. n >= 1 /\ argv[n].to \in 1 .. Len(buf)
      BY <2>1, LastWord DEF IInv
    <2>3. at = argv[n].to + 2
      BY <2>1 DEF IInv, Progress
    <2>4. i - 1 \in 1 .. Len(buf) /\ i - 1 >= argv[n].to + 1
      BY SMTT(20), <1>2, <1>3, <1>4, <2>2, <2>3
    <2> QED
      BY <1>10, <2>1, <2>2, <2>3, <2>4, BlankAfterLast
  <1>12. i > 1 => buf[i - 1] = Blank
    <2>1. CASE argv = <<>>
      <3>1. at = 1
        BY <2>1 DEF IInv, Progress
      <3> QED
        BY <1>3, <1>4, <1>10, <3>1 DEF BlankFrom
    <2>2. CASE argv # <<>>
      <3>1. argv[n].to + 1 <= i - 1
        BY SMTT(20), <1>2, <1>3, <1>4, <1>11, <2>2
      <3> QED
        BY <1>3, <1>4, <1>11, <2>2, <3>1 DEF BlankFrom
    <2> QED
      BY <2>1, <2>2
  <1>13. ArgsAreWords'
    <2>1. \A k \in DOMAIN argv' :
            /\ argv'[k].from <= argv'[k].to
            /\ IsWordOf(buf, argv'[k].from, argv'[k].to)
      <3>1. SUFFICES ASSUME NEW k \in 1 .. n + 1
                     PROVE  /\ argv'[k].from <= argv'[k].to
                            /\ IsWordOf(buf, argv'[k].from, argv'[k].to)
        BY <1>5
      <3>2. CASE k = n + 1
        BY <1>4, <1>5, <1>10, <1>12, <3>2 DEF IsWordOf
      <3>3. CASE k # n + 1
        <4> HIDE DEF w, Cell
        <4>1. k \in 1 .. n /\ (k # 1 => k - 1 \in 1 .. n)
          BY <1>3, <3>3
        <4>2. k \in DOMAIN argv /\ argv'[k] = argv[k]
          BY <1>5, <4>1
        <4> QED
          BY <4>2 DEF IInv, ArgsAreWords
      <3> QED
        BY <3>2, <3>3
    <2>2. \A k \in DOMAIN argv' :
            BlankFrom(IF k = 1 THEN 1 ELSE argv'[k - 1].to + 1, argv'[k].from - 1)
      <3>1. SUFFICES ASSUME NEW k \in 1 .. n + 1
                     PROVE  BlankFrom(IF k = 1 THEN 1 ELSE argv'[k - 1].to + 1, argv'[k].from - 1)
        BY <1>5
      <3>2. CASE k = n + 1
        <4>1. CASE argv = <<>>
          <5>1. n = 0 /\ at = 1
            BY <4>1, EmptySeq DEF IInv, Progress
          <5> QED
            BY <1>5, <1>10, <3>2, <5>1
        <4>2. CASE argv # <<>>
          <5>1. k # 1 /\ argv'[k - 1] = argv[n] /\ argv'[k].from = i
            BY SMTT(20), <1>3, <1>5, <1>11, <3>2, <4>2
          <5> QED
            BY <1>11, <4>2, <5>1
        <4> QED
          BY <4>1, <4>2
      <3>3. CASE k # n + 1
        <4> HIDE DEF w, Cell
        <4>1. k \in 1 .. n /\ (k # 1 => k - 1 \in 1 .. n)
          BY <1>3, <3>3
        <4>2. k \in DOMAIN argv /\ argv'[k] = argv[k] /\ (k # 1 => argv'[k - 1] = argv[k - 1])
          BY <1>5, <4>1
        <4> QED
          BY <4>2 DEF IInv, ArgsAreWords
      <3> QED
        BY <3>2, <3>3
    <2> QED
      BY <1>1, <2>1, <2>2 DEF ArgsAreWords, BlankFrom, IsWordOf
  <1> QED
    BY <1>7, <1>8, <1>9, <1>13 DEF IInv

\* When no argument is stored any more, all words are, or argv is full.
LEMMA ArgsDoneKeeps ==
  ASSUME IInv, ArgsDone
  PROVE  IInv'
  <1>1. /\ UNCHANGED <<input, words, reply, err, fs>> /\ pc = "splitting" /\ pc' = "split"
        /\ Len(argv) < MaxArgs => BlankFrom(at, Len(buf))
    BY DEF ArgsDone, MoreArgs
  <1>2. /\ rest' = rest /\ closed' = closed /\ line' = line
        /\ buf' = buf /\ at' = at /\ argv' = argv
        /\ call' = call /\ hint' = hint /\ said' = said /\ best' = best
        /\ err' = err /\ fs' = fs
    BY <1>1 DEF input, words, reply
  <1>3. TypeOK'
    BY <1>1, <1>2 DEF IInv, TypeOK, States
  <1>4. EndIsLast' /\ LineKept' /\ LineInBuffer' /\ Progress'
    BY <1>1, <1>2 DEF IInv, EndIsLast, LineKept, LineInBuffer, Progress
  <1>5. Len(argv) < MaxArgs =>
          BlankFrom(IF argv = <<>> THEN 1 ELSE argv[Len(argv)].to + 1, Len(buf))
    <2>1. SUFFICES ASSUME Len(argv) < MaxArgs
                   PROVE  BlankFrom(IF argv = <<>> THEN 1 ELSE argv[Len(argv)].to + 1, Len(buf))
      OBVIOUS
    <2>2. BlankFrom(at, Len(buf))
      BY <1>1, <2>1
    <2>3. CASE argv = <<>>
      BY <2>2, <2>3 DEF IInv, Progress
    <2>4. CASE argv # <<>>
      <3>1. Len(buf) \in Nat
        BY LenProperties DEF IInv, TypeOK
      <3>2. argv[Len(argv)].to \in 1 .. Len(buf)
        BY <2>4, LastWord DEF IInv
      <3>3. CASE argv[Len(argv)].to = Len(buf)
        BY <2>4, <3>1, <3>3 DEF BlankFrom
      <3>4. CASE argv[Len(argv)].to # Len(buf)
        <4>1. Len(buf) \in 1 .. Len(buf) /\ Len(buf) >= argv[Len(argv)].to + 1
          BY <3>1, <3>2, <3>4
        <4> QED
          BY <2>2, <2>4, <4>1, BlankAfterLast
      <3> QED
        BY <3>3, <3>4
    <2> QED
      BY <2>3, <2>4
  <1>6. ArgsAreWords'
    BY <1>1, <1>2, <1>5 DEF IInv, ArgsAreWords, IsWordOf, BlankFrom
  <1> QED
    BY <1>3, <1>4, <1>6 DEF IInv

\* Looking the first word up.
LEMMA LookUpKeeps ==
  ASSUME IInv,
         \/ NoCommand \/ Unknown \/ Consider \/ Suggest
         \/ \E i \in DOMAIN Commands : Call(i) \/ Refuse(i)
  PROVE  IInv'
  <1>1. Len(Commands) \in Nat /\ DOMAIN Commands = 1 .. Len(Commands)
    BY LenProperties, TableAssumption
  <1>2. /\ call \in 0 .. Len(Commands) /\ hint \in 0 .. Len(Commands)
        /\ best.tried \in 0 .. Len(Commands) /\ best.cmd \in 0 .. Len(Commands)
        /\ said \in {"nothing", "unknown", "refused", "called"}
        /\ err \in BOOLEAN /\ fs \in Image \cup {Nothing}
    BY DEF IInv, TypeOK
  <1>3. CASE NoCommand
    BY <1>2, <1>3, Quiet DEF NoCommand, reply, States
  <1>4. CASE Unknown
    BY <1>2, <1>4, Quiet DEF Unknown, States
  <1>5. CASE Consider
    <2>1. /\ best.tried + 1 \in 0 .. Len(Commands)
          /\ best'.tried \in 0 .. Len(Commands) /\ best'.cmd \in 0 .. Len(Commands)
      BY <1>1, <1>2, <1>5 DEF Consider
    <2>2. pc = "suggesting" /\ pc' = "suggesting" /\ argv # <<>>
      BY <1>5 DEF Consider, IInv, Progress
    <2>3. /\ UNCHANGED <<input, words>> /\ call' = call /\ hint' = hint
          /\ said' = said /\ err' = err /\ fs' = fs
      BY <1>5 DEF Consider
    <2> QED
      BY <1>2, <2>1, <2>2, <2>3, Quiet DEF States
  <1>6. CASE Suggest
    <2>1. /\ hint' \in 0 .. Len(Commands)
          /\ best'.tried \in 0 .. Len(Commands) /\ best'.cmd \in 0 .. Len(Commands)
      BY <1>1, <1>2, <1>6 DEF Suggest, NoneYet
    <2>2. /\ pc = "suggesting" /\ pc' = "prompt"
          /\ UNCHANGED <<input, words>> /\ call' = call
          /\ said' = said /\ err' = err /\ fs' = fs
      BY <1>6 DEF Suggest
    <2> QED
      BY <1>2, <2>1, <2>2, Quiet DEF States
  <1>7. ASSUME NEW i \in DOMAIN Commands, Call(i) PROVE IInv'
    BY <1>1, <1>2, <1>7, Quiet DEF Call, States
  <1>8. ASSUME NEW i \in DOMAIN Commands, Refuse(i) PROVE IInv'
    BY <1>2, <1>8, Quiet DEF Refuse, States
  <1> QED
    BY <1>3, <1>4, <1>5, <1>6, <1>7, <1>8

\* The command's work, and the end.
LEMMA RunKeeps ==
  ASSUME IInv, EndOfInput \/ Run
  PROVE  IInv'
  <1>1. /\ call \in 0 .. Len(Commands) /\ hint \in 0 .. Len(Commands)
        /\ best.tried \in 0 .. Len(Commands) /\ best.cmd \in 0 .. Len(Commands)
        /\ said \in {"nothing", "unknown", "refused", "called"}
        /\ err \in BOOLEAN /\ fs \in Image \cup {Nothing}
    BY DEF IInv, TypeOK
  <1>2. CASE EndOfInput
    BY <1>1, <1>2, Quiet DEF EndOfInput, reply, States
  <1>3. ASSUME NEW e \in BOOLEAN, NEW f \in Image \cup {Nothing}, Return(e, f)
        PROVE  IInv'
    <2>1. pc' \in {"closing", "prompt"} /\ err' = e /\ fs' = f /\ pc = "running"
      BY <1>3 DEF Return
    <2>2. /\ UNCHANGED <<input, words>> /\ call' = call /\ hint' = hint
          /\ said' = said /\ best' = best
      BY <1>3 DEF Return, reply
    <2> QED
      BY <1>1, <2>1, <2>2, Quiet DEF States
  <1>4. CASE Fatal
    BY <1>1, <1>4, Quiet DEF Fatal, reply, States
  <1>5. CASE Break
    BY <1>1, <1>5, Quiet DEF Break, reply, States
  <1>6. CASE Leave
    BY <1>1, <1>6, Quiet DEF Leave, reply, States
  <1> QED
    BY <1>2, <1>3, <1>4, <1>5, <1>6 DEF Run

\* What changes none of the variables breaks nothing.
LEMMA StutterKeeps ==
  ASSUME IInv, UNCHANGED vars
  PROVE  IInv'
  BY DEF IInv, TypeOK, EndIsLast, LineKept, LineInBuffer, Progress, ArgsAreWords,
         IsWordOf, BlankFrom, vars, input, words, reply

\* No step breaks the invariant.
LEMMA StepIInv == IInv /\ [Next]_vars => IInv'
  <1> SUFFICES ASSUME IInv, [Next]_vars PROVE IInv'
    OBVIOUS
  <1>1. ASSUME NEW l \in Line, Type(l) PROVE IInv'
    BY <1>1, TypeKeeps
  <1>2. CASE Dispatch
    BY <1>2, ReadLineKeeps, RunKeeps, NextArgKeeps, ArgsDoneKeeps, LookUpKeeps DEF Dispatch
  <1>3. CASE Run
    BY <1>3, RunKeeps
  <1>4. CASE UNCHANGED vars
    BY <1>4, StutterKeeps
  <1> QED
    BY <1>1, <1>2, <1>3, <1>4 DEF Next

-----------------------------------------------------------------------------
(* The theorems.                                                           *)

\* The invariant of the prompt holds at all times.
THEOREM Invariance == Spec => []IInv
  BY InitIInv, StepIInv, PTL DEF Spec

\* The buffer and argv hold what they may, and strtok stays behind their ends:
\* no line, however long, is written past them.
THEOREM TypeCorrect == Spec => []TypeOK
  <1>1. IInv => TypeOK
    BY DEF IInv
  <1> QED
    BY <1>1, Invariance, PTL

\* A line that is shorter than the buffer is one command line, at every prompt
\* and for every command.
THEOREM WholeLines == Spec => []LineIsWhole
  <1>1. IInv => LineIsWhole
    <2>1. SUFFICES ASSUME IInv PROVE LineIsWhole
      OBVIOUS
    <2> QED
      BY <2>1 DEF IInv, LineKept, LineInBuffer, LineIsWhole
  <1> QED
    BY <1>1, Invariance, PTL

\* The arguments are the words of the line, in order.
THEOREM WordsAreArguments == Spec => []ArgsAreWords
  <1>1. IInv => ArgsAreWords
    BY DEF IInv
  <1> QED
    BY <1>1, Invariance, PTL

-----------------------------------------------------------------------------
(* What is suggested.                                                      *)

\* How far command i is from what was typed.
Far(i) == Distance(Cut, Commands[i].name)

\* Of the commands that were looked at, the first of the nearest is kept.
BestSoFar ==
  IF best.cmd = 0
    THEN best.dist = INT_MAX /\ \A i \in 1 .. best.tried : Far(i) >= INT_MAX
    ELSE /\ best.cmd \in 1 .. best.tried
         /\ best.dist = Far(best.cmd)
         /\ \A i \in 1 .. best.tried :
              best.dist <= Far(i) /\ (i < best.cmd => best.dist < Far(i))

HintInv ==
  /\ pc = "suggesting" => said = "unknown" /\ BestSoFar
  /\ pc # "suggesting" => best = NoneYet
  /\ HintIsNearest

\* What was typed and the commands are words of characters, and their distance
\* counts the edits.
LEMMA FarIs ==
  ASSUME IInv, argv # <<>>
  PROVE  \A i \in 1 .. Len(Commands) :
           /\ Far(i) \in Nat
           /\ \A n \in 0 .. 2 : Far(i) <= n <=> Within(n, Cut, Commands[i].name)
  <1> SUFFICES ASSUME NEW i \in 1 .. Len(Commands)
               PROVE  /\ Far(i) \in Nat
                      /\ \A n \in 0 .. 2 : Far(i) <= n <=> Within(n, Cut, Commands[i].name)
    OBVIOUS
  <1>1. Commands[i].name \in Seq(Char)
    <2>1. Commands[i] \in [name : Seq(Char), fn : Functions, needsMount : BOOLEAN]
      BY TableAssumption, ElementOfSeq
    <2> QED
      BY <2>1
  <1>2. Cut \in Seq(Char)
    <2>1. buf \in Seq(Char) /\ Len(buf) \in Nat
      BY LenProperties DEF IInv, TypeOK
    <2>2. argv[1].to \in 1 .. Len(buf)
      <3>1. Len(argv) \in Nat \ {0}
        BY LastWord DEF IInv
      <3>2. 1 \in 1 .. Len(argv)
        BY <3>1
      <3>3. argv[1] \in [from : 1 .. Len(buf), to : 1 .. Len(buf)]
        BY <3>2, ElementOfSeq DEF IInv, TypeOK
      <3> QED
        BY <3>3
    <2>3. 1 \in 1 .. Len(buf) + 1 /\ argv[1].to \in 0 .. Len(buf) /\ 1 <= argv[1].to + 1
      BY <2>1, <2>2
    <2> QED
      BY <2>1, <2>3, Part DEF Cut
  <1>3. Len(Commands[i].name) \in Nat /\ Len(Cut) \in Nat
    BY <1>1, <1>2, LenProperties
  <1>4. Far(i) \in Nat
    BY <1>3, DistanceIs DEF Far
  <1> QED
    BY <1>1, <1>2, <1>4, DistanceCountsEdits DEF Far

\* One more command is looked at.
LEMMA ConsiderKeepsHint ==
  ASSUME IInv, HintInv, Consider
  PROVE  HintInv'
  <1>1. /\ pc = "suggesting" /\ pc' = pc /\ said' = said /\ buf' = buf /\ argv' = argv
        /\ best.tried < Len(Commands) /\ argv # <<>>
    BY DEF Consider, words, IInv, Progress
  <1>2. /\ Len(Commands) \in Nat
        /\ best.tried \in 0 .. Len(Commands) /\ best.cmd \in 0 .. Len(Commands)
    BY TableAssumption, LenProperties DEF IInv, TypeOK
  <1> DEFINE t == best.tried
             i == t + 1
             f == Far(i)
  <1>3. /\ best'.tried = i
        /\ best'.cmd = IF f < best.dist THEN i ELSE best.cmd
        /\ best'.dist = IF f < best.dist THEN f ELSE best.dist
    BY DEF Consider, Nearer, Far
  <1>4. t \in Nat /\ i \in 1 .. Len(Commands) /\ \A k \in 1 .. i : k \in 1 .. t \/ k = i
    BY <1>1, <1>2
  <1>5. \A k \in 1 .. i : Far(k) \in Nat
    <2>1. \A k \in 1 .. i : k \in 1 .. Len(Commands)
      BY <1>4, <1>2
    <2> QED
      BY <1>1, <2>1, FarIs
  <1>6. \A k : Far(k)' = Far(k)
    BY <1>1 DEF Far, Cut
  <1>7. BestSoFar
    BY <1>1 DEF HintInv
  <1>8. best.dist \in Nat
    <2>1. CASE best.cmd = 0
      BY <1>7, <2>1, IntAssumption DEF BestSoFar
    <2>2. CASE best.cmd # 0
      <3>1. best.cmd \in 1 .. t /\ best.dist = Far(best.cmd)
        BY <1>7, <2>2 DEF BestSoFar
      <3>2. best.cmd \in 1 .. i
        BY <1>4, <3>1
      <3> QED
        BY <1>5, <3>1, <3>2
    <2> QED
      BY <2>1, <2>2
  <1>9. i \in 1 .. i /\ f \in Nat
    BY <1>4, <1>5
  <1>10. BestSoFar'
    <2>1. CASE f < best.dist
      <3>1. best'.cmd = i /\ best'.dist = f /\ i # 0
        BY <1>3, <1>4, <2>1
      <3>2. ASSUME NEW k \in 1 .. i
            PROVE  f <= Far(k) /\ (k < i => f < Far(k))
        <4>1. CASE k = i
          BY <1>9, <4>1
        <4>2. CASE k \in 1 .. t
          <5>1. best.dist <= Far(k)
            <6>1. CASE best.cmd = 0
              BY <1>7, <4>2, <6>1 DEF BestSoFar
            <6>2. CASE best.cmd # 0
              BY <1>7, <4>2, <6>2 DEF BestSoFar
            <6> QED
              BY <6>1, <6>2
          <5> QED
            BY <1>5, <1>8, <1>9, <2>1, <5>1
        <4> QED
          BY <1>4, <4>1, <4>2
      <3> HIDE DEF f, i
      <3> QED
        BY <1>3, <1>6, <1>9, <3>1, <3>2 DEF BestSoFar, f
    <2>2. CASE ~ (f < best.dist) /\ best.cmd = 0
      <3>1. best'.cmd = 0 /\ best'.dist = INT_MAX /\ best.dist = INT_MAX
        BY <1>3, <1>7, <2>2 DEF BestSoFar
      <3>2. ASSUME NEW k \in 1 .. i PROVE Far(k) >= INT_MAX
        <4>1. CASE k = i
          BY <1>8, <1>9, <2>2, <3>1, <4>1
        <4>2. CASE k \in 1 .. t
          BY <1>7, <2>2, <4>2 DEF BestSoFar
        <4> QED
          BY <1>4, <4>1, <4>2
      <3> HIDE DEF f, i
      <3> QED
        BY <1>3, <1>6, <3>1, <3>2 DEF BestSoFar
    <2>3. CASE ~ (f < best.dist) /\ best.cmd # 0
      <3>1. best'.cmd = best.cmd /\ best'.dist = best.dist
        BY <1>3, <2>3
      <3>2. best.cmd \in 1 .. t /\ best.dist = Far(best.cmd)
        BY <1>7, <2>3 DEF BestSoFar
      <3>3. best.cmd \in 1 .. i
        BY <1>4, <3>2
      <3>4. ASSUME NEW k \in 1 .. i
            PROVE  best.dist <= Far(k) /\ (k < best.cmd => best.dist < Far(k))
        <4>1. CASE k = i
          BY <1>4, <1>8, <1>9, <2>3, <3>2, <4>1
        <4>2. CASE k \in 1 .. t
          BY <1>7, <2>3, <4>2 DEF BestSoFar
        <4> QED
          BY <1>4, <4>1, <4>2
      <3> HIDE DEF f, i
      <3> QED
        BY <1>3, <1>6, <2>3, <3>1, <3>2, <3>3, <3>4 DEF BestSoFar
    <2> QED
      BY <2>1, <2>2, <2>3
  <1> QED
    BY <1>1, <1>10 DEF HintInv, HintIsNearest

\* All have been looked at.
LEMMA SuggestKeepsHint ==
  ASSUME IInv, HintInv, Suggest
  PROVE  HintInv'
  <1>1. /\ pc = "suggesting" /\ pc' = "prompt" /\ buf' = buf /\ argv' = argv
        /\ best.tried = Len(Commands) /\ argv # <<>> /\ best' = NoneYet
        /\ hint' = IF best.dist > 2 THEN 0 ELSE best.cmd
    BY DEF Suggest, words, IInv, Progress
  <1>2. BestSoFar
    BY <1>1 DEF HintInv
  <1>3. /\ Len(Commands) \in Nat /\ DOMAIN Commands = 1 .. Len(Commands)
    BY TableAssumption, LenProperties
  <1>4. \A i \in 1 .. Len(Commands) :
          /\ Far(i) \in Nat
          /\ \A n \in 0 .. 2 : Far(i) <= n <=> Within(n, Cut, Commands[i].name)
    BY <1>1, FarIs
  <1>5. Cut' = Cut
    BY <1>1 DEF Cut
  <1>6. CASE hint' = 0
    <2>1. ASSUME NEW i \in DOMAIN Commands PROVE ~ (Far(i) <= 2)
      <3>1. CASE best.cmd = 0
        BY <1>1, <1>2, <1>3, <1>4, <3>1, IntAssumption DEF BestSoFar
      <3>2. CASE best.cmd # 0
        <4>1. best.dist > 2
          BY <1>1, <1>6, <3>2
        <4>2. best.dist \in Nat /\ best.dist <= Far(i)
          BY <1>1, <1>2, <1>3, <1>4, <3>2 DEF BestSoFar
        <4> QED
          BY <1>3, <1>4, <4>1, <4>2
      <3> QED
        BY <3>1, <3>2
    <2>2. \A i \in DOMAIN Commands : ~ Within(2, Cut, Commands[i].name)
      BY <1>3, <1>4, <2>1
    <2> QED
      BY <1>1, <1>5, <1>6, <2>2 DEF HintInv, HintIsNearest
  <1>7. CASE hint' # 0
    <2>1. hint' = best.cmd /\ best.cmd # 0 /\ ~ (best.dist > 2)
      BY <1>1, <1>7
    <2>2. /\ best.cmd \in 1 .. Len(Commands) /\ best.dist = Far(best.cmd)
          /\ \A i \in 1 .. Len(Commands) :
               best.dist <= Far(i) /\ (i < best.cmd => best.dist < Far(i))
      BY <1>1, <1>2, <2>1 DEF BestSoFar
    <2> DEFINE n == best.dist
    <2>3. n \in Nat /\ n \in 0 .. 2
      BY <1>4, <2>1, <2>2
    <2>4. Within(n, Cut, Commands[best.cmd].name)
      <3>1. Far(best.cmd) <= n
        BY <2>2, <2>3
      <3> HIDE DEF n
      <3> QED
        BY <1>4, <2>2, <2>3, <3>1
    <2>5. ASSUME NEW i \in DOMAIN Commands, NEW m \in 0 .. 2,
                 Within(m, Cut, Commands[i].name)
          PROVE  n <= m /\ (i < best.cmd => n < m)
      <3>1. Far(i) \in Nat /\ Far(i) <= m
        BY <1>3, <1>4, <2>5
      <3>2. n <= Far(i) /\ (i < best.cmd => n < Far(i))
        BY <1>3, <2>2
      <3> HIDE DEF n
      <3> QED
        BY <2>3, <3>1, <3>2
    <2> HIDE DEF n
    <2>6. \E l \in 0 .. 2 :
            /\ Within(l, Cut, Commands[best.cmd].name)
            /\ \A i \in DOMAIN Commands, m \in 0 .. 2 :
                 Within(m, Cut, Commands[i].name) => l <= m /\ (i < best.cmd => l < m)
      BY <2>3, <2>4, <2>5
    <2> QED
      BY <1>1, <1>5, <2>1, <2>6 DEF HintInv, HintIsNearest
  <1> QED
    BY <1>6, <1>7

\* No other step suggests anything.
LEMMA StepHintInv == IInv /\ HintInv /\ [Next]_vars => HintInv'
  <1> SUFFICES ASSUME IInv, HintInv, [Next]_vars PROVE HintInv'
    OBVIOUS
  <1>1. CASE Consider
    BY <1>1, ConsiderKeepsHint
  <1>2. CASE Suggest
    BY <1>2, SuggestKeepsHint
  <1>3. CASE Unknown
    <2>1. pc = "split" /\ pc' = "suggesting" /\ said' = "unknown" /\ best' = best
      BY <1>3 DEF Unknown
    <2>2. best' = NoneYet
      BY <2>1 DEF HintInv
    <2>3. BestSoFar'
      BY <2>2 DEF BestSoFar, NoneYet
    <2> QED
      BY <2>1, <2>3 DEF HintInv, HintIsNearest
  <1>4. CASE /\ pc = "prompt" /\ pc' = "prompt" /\ best' = best
             /\ said' = said /\ hint' = hint /\ argv' = argv /\ buf' = buf
    BY <1>4 DEF HintInv, HintIsNearest, Cut
  <1>5. CASE /\ pc # "suggesting" /\ pc' # "suggesting" /\ best' = best
             /\ pc' # "prompt" \/ said' # "unknown"
    BY <1>5 DEF HintInv, HintIsNearest
  <1>6. ASSUME NEW l \in Line, Type(l) PROVE HintInv'
    BY <1>5, <1>6 DEF Type, NewWords
  <1>7. CASE ReadLine
    BY <1>4, <1>5, <1>7 DEF ReadLine, NewWords, words, reply
  <1>8. CASE EndOfInput \/ NextArg \/ ArgsDone \/ NoCommand
    BY <1>5, <1>8 DEF EndOfInput, NextArg, ArgsDone, NoCommand, words, reply
  <1>9. ASSUME NEW i \in DOMAIN Commands, Call(i) \/ Refuse(i) PROVE HintInv'
    BY <1>5, <1>9 DEF Call, Refuse
  <1>10. CASE Run
    <2>1. pc = "running" => said = "called"
      BY DEF IInv, Progress
    <2> QED
      BY <1>5, <1>10, <2>1 DEF Run, Return, Fatal, Break, Leave, reply
  <1>11. CASE UNCHANGED vars
    BY <1>11 DEF vars, reply, words, HintInv, HintIsNearest, BestSoFar, Far, Cut
  <1> QED
    BY <1>1, <1>2, <1>3, <1>6, <1>7, <1>8, <1>9, <1>10, <1>11 DEF Next, Dispatch

\* Whatever word was typed and whatever the table of commands is: what is
\* suggested for it is the first of the commands that the fewest edits, two at
\* most, make of it, and nothing is if two edits make none.
THEOREM HintsAreNearest == Spec => []HintIsNearest
  <1>1. Init => HintInv
    BY DEF Init, HintInv, HintIsNearest
  <1>2. IInv /\ IInv' /\ HintInv /\ [Next]_vars => HintInv'
    BY StepHintInv
  <1>3. HintInv => HintIsNearest
    BY DEF HintInv
  <1> QED
    BY <1>1, <1>2, <1>3, Invariance, PTL DEF Spec

-----------------------------------------------------------------------------
(* THE CONSOLE. What is true at each step of a command.                    *)

\* How far a command can be that runs, and what it has touched, found and parsed;
\* nothing when none does.
StepInv ==
  /\ step \in Steps /\ next \in Nat \ {0}
  /\ step = "start" => flags = {} /\ next = 1
  /\ step \in {"start", "parsing"} => touched = {}
  /\ step # "done" => found = 0
  /\ pc \in {"prompt", "splitting", "split", "suggesting"} => step = "start"
  /\ pc = "running" =>
       /\ Commands[call].needsMount => fs # Nothing
       /\ step # "start" /\ Fn \in OneArg => Len(argv) = 2
       /\ step = "done" /\ Fn # "umount" => found \in Ino
       /\ \/ step = "start"
          \/ step = "listed" /\ Fn \in {"ls", "cat", "cd", "rm", "rmdir", "stat"}
          \/ step = "done" /\ Fn \in {"umount", "cat", "rm", "stat"}
          \/ step \in {"parsing", "parsed"} /\ Fn = "fsdump"
  /\ pc = "closing" /\ step # "start" =>
       step = "done" /\ fs # Nothing /\ touched = AllGroups(fs)

\* What rm makes of the inodes of the image: it may clear one and lower its low
\* word, and leaves the upper one alone.
Worn ==
  \A n \in Ino : /\ inodes[n].bits \in {Stored[fs][n].bits, {}}
                 /\ inodes[n].hi \in {Stored[fs][n].hi, 0}

\* The current directory is one that the mounted image has, and is there, until
\* stale bytes are followed.
PlaceInv ==
  pc # "left" =>
    /\ cd \in Ino /\ inodes \in [Ino -> InodeType]
    /\ fs = Nothing => cd = Root
    /\ fs # Nothing =>
         /\ Worn
         /\ ~ moved =>
              /\ cd \in Directories(fs)
              /\ Plain(fs) => \A n \in Directories(fs) : inodes[n].bits = {"dir"}

\* A true entry names what the command found.
Known == \E e \in Entries[fs] : e.ino = found /\ (Fn = "stat" \/ e.type = "file")

FoundInv == pc = "running" /\ found # 0 /\ ~ moved => Known

CInv ==
  /\ IInv /\ StepInv /\ PlaceInv /\ FoundInv
  /\ StaysWithinRead /\ LastLetterWins /\ OnlyKnownCrashes

-----------------------------------------------------------------------------
(* The refinement.                                                         *)

\* A command that runs is one of the table, and has what it needs.
LEMMA Runs ==
  ASSUME IInv, StepInv, pc = "running"
  PROVE  /\ call \in DOMAIN Commands /\ Fn \in Functions
         /\ Fn \notin Talk \cup {"exit", "mount"} => Commands[call].needsMount /\ fs # Nothing
  <1>1. call \in DOMAIN Commands
    BY DEF IInv, Progress
  <1> DEFINE Cell == [name : Seq(Char), fn : Functions, needsMount : BOOLEAN]
  <1>2. Commands \in Seq(Cell)
    BY TableAssumption
  <1> HIDE DEF Cell
  <1>a. Commands[call] \in Cell
    BY <1>1, <1>2, ElementOfSeq, LenProperties
  <1>3. Fn \in Functions
    BY <1>a DEF Fn, Cell
  <1>4. Fn \notin Talk \cup {"exit", "mount"} => Commands[call].needsMount
    BY <1>1, TableAssumption DEF Fn
  <1> QED
    BY <1>1, <1>3, <1>4 DEF StepInv

\* Each step of a command is a step of the prompt's, or none of it.
LEMMA WorkRefines ==
  ASSUME IInv, StepInv, Work
  PROVE  [Next]_vars
  <1>1. fs \in Image \cup {Nothing}
    BY DEF IInv, TypeOK
  <1>2. ASSUME NEW e \in BOOLEAN, NEW f \in Image \cup {Nothing},
               pc = "running", Finish(e, f), MayReturn(e, f)
        PROVE  Run
    <2>1. Return(e, f)
      BY <1>2 DEF Finish, Return
    <2> QED
      BY <2>1 DEF Run
  <1>3. ASSUME NEW s, GoOn(s) PROVE UNCHANGED vars
    BY <1>3 DEF GoOn
  <1>4. CASE Usage
    <2>1. pc = "running" /\ Finish(TRUE, fs) /\ MayReturn(TRUE, fs)
      BY <1>4 DEF Usage, Running, MayReturn, OneArg, Talk
    <2> QED
      BY <1>1, <1>2, <2>1 DEF Next
  <1>5. CASE TalkOrExit
    <2>1. pc = "running" /\ Finish(FALSE, fs) /\ MayReturn(FALSE, fs)
      BY <1>5 DEF TalkOrExit, Running, MayReturn, OneArg, Talk
    <2> QED
      BY <1>1, <1>2, <2>1 DEF Next
  <1>6. CASE Mount
    <2>1. pc = "running" /\ Fn = "mount" /\ Len(argv) = 2
      BY <1>6 DEF Mount, Running
    <2>2. CASE Finish(TRUE, fs)
      <3>1. MayReturn(TRUE, fs)
        BY <2>1 DEF MayReturn, OneArg, Talk
      <3> QED
        BY <1>1, <1>2, <2>1, <2>2, <3>1 DEF Next
    <2>3. ASSUME NEW i \in Image, fs = Nothing, Finish(FALSE, i) PROVE Next
      <3>1. MayReturn(FALSE, i)
        BY <2>1, <2>3 DEF MayReturn, OneArg, Talk
      <3> QED
        BY <1>2, <2>1, <2>3, <3>1 DEF Next
    <2> QED
      BY <1>6, <2>2, <2>3 DEF Mount, MountFree
  <1>7. CASE Umount
    <2>1. pc = "running" /\ Finish(FALSE, Nothing) /\ MayReturn(FALSE, Nothing)
      BY <1>7 DEF Umount, Running, MayReturn, OneArg, Talk
    <2> QED
      BY <1>2, <2>1 DEF Next
  <1>8. CASE Save
    <2>1. pc = "running" /\ Finish(FALSE, fs) /\ MayReturn(FALSE, fs)
      BY <1>8 DEF Save, Running, MayReturn, OneArg, Talk
    <2> QED
      BY <1>1, <1>2, <2>1 DEF Next
  <1>9. CASE FreeGroups \/ GetDir \/ TouchFile \/ RemoveFile \/ StartFormat \/ ReadLetter \/ Dump
    BY <1>3, <1>9 DEF FreeGroups, GetDir, TouchFile, RemoveFile, StartFormat, ReadLetter, Dump
  <1>10. CASE NotFound
    <2>1. pc = "running" /\ Fn \in {"ls", "cat", "cd", "rm", "rmdir", "stat"} /\ Finish(TRUE, fs)
      BY <1>10 DEF NotFound, StepInv
    <2>2. MayReturn(TRUE, fs)
      BY <2>1 DEF MayReturn, OneArg, Talk
    <2> QED
      BY <1>1, <1>2, <2>1, <2>2 DEF Next
  <1>11. CASE Ls \/ CdHere \/ CdOrRmdir \/ FileDone
    <2>1. /\ pc = "running" /\ Fn \in {"ls", "cat", "cd", "rm", "rmdir", "stat"}
          /\ Finish(FALSE, fs) /\ (Fn \in OneArg => Len(argv) = 2)
      BY <1>11 DEF Ls, CdHere, CdOrRmdir, FileDone, Running, StepInv
    <2>2. MayReturn(FALSE, fs)
      BY <2>1 DEF MayReturn, OneArg, Talk
    <2> QED
      BY <1>1, <1>2, <2>1, <2>2 DEF Next
  <1>12. CASE BadLetter
    <2>1. pc = "running" /\ Fn = "fsdump" /\ Finish(TRUE, fs)
      BY <1>12 DEF BadLetter, StepInv
    <2>2. MayReturn(TRUE, fs)
      BY <2>1 DEF MayReturn, OneArg, Talk
    <2> QED
      BY <1>1, <1>2, <2>1, <2>2 DEF Next
  <1>13. CASE DumpDone
    <2>1. pc = "running" /\ Fn = "fsdump" /\ Len(argv) = 2 /\ Finish(FALSE, fs)
      BY <1>13 DEF DumpDone, StepInv, OneArg
    <2>2. MayReturn(FALSE, fs)
      BY <2>1 DEF MayReturn, OneArg, Talk
    <2> QED
      BY <1>1, <1>2, <2>1, <2>2 DEF Next
  <1>14. CASE Breaks
    <2>1. \/ pc = "running" /\ Commands[call].needsMount
          \/ pc = "closing" /\ fs # Nothing
      <3>1. CASE pc = "running"
        <4>1. Fn \notin Talk \cup {"exit", "mount"}
          BY <1>14, <3>1 DEF Breaks, Stray, Running, StepInv, Talk
        <4> QED
          BY <3>1, <4>1, Runs
      <3>2. CASE pc # "running"
        BY <1>14, <3>2 DEF Breaks, Stray, Running, StepInv
      <3> QED
        BY <3>1, <3>2
    <2>2. Break
      BY <1>14, <2>1 DEF Breaks, Break
    <2> QED
      BY <2>2 DEF Next, Run
  <1>15. CASE FatalError \/ LeaveShell
    BY <1>15 DEF FatalError, LeaveShell, Next, Run
  <1> QED
    BY <1>4, <1>5, <1>6, <1>7, <1>8, <1>9, <1>10, <1>11, <1>12, <1>13, <1>14, <1>15 DEF Work

\* A step of the console is a step of the prompt, or none.
LEMMA NextRefines ==
  ASSUME IInv, StepInv, [ConsoleNext]_allVars
  PROVE  [Next]_vars
  <1>1. CASE \E l \in Line : Type(l) /\ UNCHANGED session
    BY <1>1 DEF Next
  <1>2. CASE Dispatch /\ UNCHANGED session
    BY <1>2 DEF Next
  <1>3. CASE Work
    BY <1>3, WorkRefines
  <1>4. CASE UNCHANGED allVars
    BY <1>4 DEF allVars
  <1> QED
    BY <1>1, <1>2, <1>3, <1>4 DEF ConsoleNext, Shell

-----------------------------------------------------------------------------
(* The steps of a command.                                                 *)

\* Between commands nothing is begun.
LEMMA FinishSteps ==
  ASSUME NEW e, NEW f, Finish(e, f)
  PROVE  StepInv'
  <1>1. /\ pc' \in {"closing", "prompt"} /\ step' = "start"
        /\ found' = 0 /\ flags' = {} /\ next' = 1 /\ touched' = {}
    BY DEF Finish
  <1> QED
    BY <1>1 DEF StepInv, Steps

\* An entry that is listed, and what the first one names.
LEMMA ListedIs ==
  ASSUME fs \in Image
  PROVE  /\ Listed \subseteq Dirent /\ Entries[fs] \subseteq Listed
         /\ ~ moved => Listed = Entries[fs]
         /\ \A d \in Firsts : d = cd \/ d \in Ino
  <1>1. Entries[fs] \subseteq Dirent /\ Stale[fs] \subseteq Dirent
    BY GeometryAssumption
  <1>2. Listed \subseteq Dirent /\ Entries[fs] \subseteq Listed /\ (~ moved => Listed = Entries[fs])
    BY <1>1 DEF Listed
  <1> QED
    BY <1>2 DEF Firsts, Dirent

\* A command goes on to a step that it has.
LEMMA GoOnSteps ==
  ASSUME StepInv, NEW s \in Steps \ {"start"}, GoOn(s), next' \in Nat \ {0},
         s # "done" => found' = 0, s = "parsing" => touched' = {},
         \/ /\ pc = "running" /\ (Fn \in OneArg => Len(argv) = 2)
            /\ \/ s = "listed" /\ Fn \in {"ls", "cat", "cd", "rm", "rmdir", "stat"}
               \/ s = "done" /\ Fn = "umount"
               \/ s = "done" /\ Fn \in {"cat", "rm", "stat"} /\ found' \in Ino
               \/ s \in {"parsing", "parsed"} /\ Fn = "fsdump"
         \/ pc = "closing" /\ s = "done" /\ fs # Nothing /\ touched' = AllGroups(fs)
  PROVE  StepInv'
  <1>1. /\ step' = s /\ pc' = pc /\ fs' = fs /\ call' = call /\ argv' = argv
        /\ Fn' = Fn
    BY DEF GoOn, vars, reply, words, Fn
  <1>2. AllGroups(fs)' = AllGroups(fs)
    BY <1>1 DEF AllGroups, BgCount
  <1> QED
    BY <1>1, <1>2 DEF StepInv

\* A step of a command leaves it at a place that this command has.
LEMMA WorkSteps ==
  ASSUME IInv, StepInv, Work
  PROVE  StepInv'
  <1>1. ASSUME NEW e, NEW f, Finish(e, f) PROVE StepInv'
    BY <1>1, FinishSteps
  <1>2. CASE Usage \/ TalkOrExit \/ Mount \/ Umount \/ Save \/ CdHere \/ NotFound \/ Ls
             \/ CdOrRmdir \/ FileDone \/ BadLetter \/ DumpDone
    BY <1>1, <1>2 DEF Usage, TalkOrExit, Mount, Umount, Save, CdHere, NotFound, Ls, CdOrRmdir,
                      FileDone, BadLetter, DumpDone
  <1>3. next \in Nat \ {0} /\ (step # "done" => found = 0)
    BY DEF StepInv
  <1>4. CASE FreeGroups
    <2>1. GoOn("done") /\ next' = next /\ fs # Nothing /\ touched' = AllGroups(fs)
      BY <1>4 DEF FreeGroups
    <2>2. (pc = "running" /\ Fn = "umount") \/ pc = "closing"
      BY <1>4 DEF FreeGroups, Running
    <2> QED
      BY <1>3, <2>1, <2>2, GoOnSteps DEF Steps, OneArg
  <1>5. CASE GetDir
    <2>1. /\ pc = "running" /\ Fn \in {"ls", "cat", "cd", "rm", "rmdir", "stat"}
          /\ step = "start" /\ (Fn \in OneArg => Len(argv) = 2)
          /\ GoOn("listed") /\ next' = next /\ found' = found
      BY <1>5 DEF GetDir, Running
    <2> QED
      BY <1>3, <2>1, GoOnSteps DEF Steps
  <1>6. CASE TouchFile \/ RemoveFile
    <2>1. /\ pc = "running" /\ Fn \in {"cat", "rm", "stat"} /\ step = "listed"
          /\ GoOn("done") /\ next' = next
      BY <1>6 DEF TouchFile, RemoveFile, Running
    <2>2. fs \in Image
      BY <2>1, Runs DEF Talk, IInv, TypeOK
    <2>3. found' \in Ino
      BY <1>6, <2>2, ListedIs DEF TouchFile, RemoveFile, Dirent
    <2> QED
      BY <1>3, <2>1, <2>3, GoOnSteps DEF Steps, StepInv
  <1>7. CASE StartFormat
    <2>1. /\ pc = "running" /\ Fn = "fsdump" /\ step = "start" /\ Len(argv) = 2
          /\ GoOn("parsing") /\ next' = next /\ found' = found /\ touched' = touched
      BY <1>7 DEF StartFormat, Running
    <2>2. touched = {}
      BY <2>1 DEF StepInv
    <2> QED
      BY <1>3, <2>1, <2>2, GoOnSteps DEF Steps
  <1>8. CASE ReadLetter
    <2>1. /\ UNCHANGED <<vars, step, found, touched>> /\ next' = next + 1 /\ step = "parsing"
          /\ pc = "running" /\ Fn' = Fn
      BY <1>8 DEF ReadLetter, NextLetter, vars, reply, Fn
    <2> QED
      BY <1>3, <2>1 DEF StepInv, vars, words, reply
  <1>9. CASE Dump
    <2>1. /\ pc = "running" /\ step = "parsing"
          /\ GoOn("parsed") /\ next' = next /\ found' = found
      BY <1>9 DEF Dump
    <2> QED
      BY <1>3, <2>1, GoOnSteps DEF Steps, StepInv
  <1>10. CASE Breaks \/ FatalError
    <2>1. pc' \in {"crashed", "left"} /\ UNCHANGED session
      BY <1>10 DEF Breaks, FatalError, Fatal
    <2> QED
      BY <2>1 DEF StepInv, session, place
  <1>11. CASE LeaveShell
    <2>1. pc' = "left" /\ UNCHANGED session
      BY <1>11 DEF LeaveShell, Leave
    <2> QED
      BY <2>1 DEF StepInv, session, place
  <1> QED
    BY <1>2, <1>4, <1>5, <1>6, <1>7, <1>8, <1>9, <1>10, <1>11 DEF Work

\* So does any step.
LEMMA StepSteps ==
  ASSUME IInv, StepInv, [ConsoleNext]_allVars
  PROVE  StepInv'
  <1>1. CASE \E l \in Line : Type(l) /\ UNCHANGED session
    BY <1>1 DEF Type, StepInv, session, place
  <1>2. CASE Dispatch /\ UNCHANGED session
    <2>1. ASSUME NEW i \in DOMAIN Commands, Call(i) PROVE StepInv'
      <3>1. /\ pc = "split" /\ pc' = "running" /\ call' = i /\ fs' = fs
            /\ Commands[i].needsMount => fs # Nothing
        BY <2>1 DEF Call, Refused
      <3> QED
        BY <1>2, <3>1 DEF StepInv, session, place
    <2>2. ASSUME NEW i \in DOMAIN Commands, Refuse(i) PROVE StepInv'
      BY <1>2, <2>2 DEF Refuse, StepInv, session, place
    <2>3. CASE ReadLine
      BY <1>2, <2>3 DEF ReadLine, StepInv, session, place
    <2>4. CASE EndOfInput \/ NextArg \/ ArgsDone \/ NoCommand
      BY <1>2, <2>4 DEF EndOfInput, NextArg, ArgsDone, NoCommand, StepInv, session, place
    <2>5. CASE Unknown \/ Consider \/ Suggest
      BY <1>2, <2>5 DEF Unknown, Consider, Suggest, StepInv, session, place
    <2> QED
      BY <1>2, <2>1, <2>2, <2>3, <2>4, <2>5 DEF Dispatch
  <1>3. CASE Work
    BY <1>3, WorkSteps
  <1>4. CASE UNCHANGED allVars
    <2>1. UNCHANGED <<pc, call, fs, argv>> /\ UNCHANGED session
      BY <1>4 DEF allVars, vars, words, reply
    <2> QED
      BY <2>1 DEF StepInv, session, place, Fn, AllGroups, BgCount
  <1> QED
    BY <1>1, <1>2, <1>3, <1>4 DEF ConsoleNext, Shell

-----------------------------------------------------------------------------
(* The current directory, and the inodes.                                  *)

\* An int32_t stays one, by wrapping.
LEMMA WrapsAround ==
  ASSUME NEW n \in Int
  PROVE  Int32(n) \in -U31 .. U31 - 1
  <1> DEFINE w == 2 * U31
             m == n + U31
  <1>1. U31 \in Nat \ {0}
    BY GeometryAssumption
  <1>2. w \in Nat \ {0} /\ m \in Int
    BY <1>1
  <1>3. m % w \in 0 .. w - 1
    <2> HIDE DEF w, m
    <2> QED
      BY <1>2
  <1>4. Int32(n) = (m % w) - U31
    BY DEF Int32
  <1> HIDE DEF m
  <1> QED
    BY <1>1, <1>3, <1>4

\* The inodes after an entry was removed: of its own the bits are cleared, the
\* low word of one is lowered, and no upper word grows.
LEMMA AfterIs ==
  ASSUME fs \in Image, inodes \in [Ino -> InodeType], NEW e \in Dirent, NEW d
  PROVE  /\ After(e, d) \in [Ino -> InodeType]
         /\ \A n \in Ino : /\ After(e, d)[n].bits \in {inodes[n].bits, {}}
                           /\ After(e, d)[n].hi \in {inodes[n].hi, 0}
                           /\ n # e.ino => After(e, d)[n].bits = inodes[n].bits
  <1> DEFINE Z == [inodes EXCEPT ![e.ino] = Zeroed]
  <1>1. U31 \in Nat \ {0} /\ e.ino \in Ino /\ e.len \in Nat
    BY GeometryAssumption DEF Dirent
  <1>2. Zeroed \in InodeType
    BY <1>1 DEF Zeroed, InodeType
  <1>3. Z \in [Ino -> InodeType]
    BY <1>1, <1>2
  <1>4. \A n \in Ino : /\ Z[n].bits \in {inodes[n].bits, {}}
                       /\ Z[n].hi \in {inodes[n].hi, 0}
                       /\ n # e.ino => Z[n].bits = inodes[n].bits
    BY <1>1 DEF Zeroed
  <1> HIDE DEF Z
  <1>5. ASSUME NEW x \in InodeType
        PROVE  Shrunk(x, e) \in InodeType /\ Shrunk(x, e).bits = x.bits /\ Shrunk(x, e).hi = x.hi
    <2>1. x.lo \in Int
      BY <1>1 DEF InodeType
    <2>2. x.lo - 4 - e.len \in Int
      BY <1>1, <2>1
    <2>3. Int32(x.lo - 4 - e.len) \in -U31 .. U31 - 1
      BY <2>2, WrapsAround
    <2>4. Shrunk(x, e) = [bits |-> x.bits, hi |-> x.hi, lo |-> Int32(x.lo - 4 - e.len)]
      BY DEF Shrunk, InodeType
    <2> QED
      BY <2>3, <2>4 DEF InodeType
  <1>6. After(e, d) = [n \in Ino |-> IF DirCell(e, d) \in Inode(fs, n) THEN Shrunk(Z[n], e)
                                                                      ELSE Z[n]]
    BY DEF After, Z
  <1>7. ASSUME NEW n \in Ino
        PROVE  /\ After(e, d)[n] \in InodeType
               /\ After(e, d)[n].bits = Z[n].bits /\ After(e, d)[n].hi = Z[n].hi
    <2>1. Z[n] \in InodeType
      BY <1>3
    <2> QED
      BY <1>5, <1>6, <2>1
  <1> QED
    BY <1>4, <1>6, <1>7

\* What mounting reads.
LEMMA StoredIs ==
  ASSUME NEW i \in Image
  PROVE  Stored[i] \in [Ino -> InodeType] /\ Directories(i) \subseteq Ino /\ Root \in Directories(i)
  <1>1. Entries[i] \subseteq Dirent /\ Root \in Ino
    BY GeometryAssumption
  <1>2. Stored[i] \in [Ino -> InodeType]
    BY GeometryAssumption
  <1>3. \A e \in Entries[i] : e.ino \in Ino
    BY <1>1 DEF Dirent
  <1> QED
    BY <1>1, <1>2, <1>3 DEF Directories

\* On a plain image a directory's inode has a directory's bits, and an entry's
\* has what its type says.
LEMMA PlainIs ==
  ASSUME NEW i \in Image, Plain(i)
  PROVE  /\ \A n \in Directories(i) : Stored[i][n].bits = {"dir"}
         /\ \A e \in Entries[i] : Stored[i][e.ino].bits = {e.type}
  BY DEF Plain, Directories

\* Mounting finds the root.
LEMMA MountPlace ==
  ASSUME NEW i \in Image, fs' = i, cd' = Root, inodes' = Stored[i], moved' = FALSE
  PROVE  PlaceInv'
  <1>1. Worn'
    BY DEF Worn
  <1>2. Directories(fs)' = Directories(i) /\ (Plain(fs)' <=> Plain(i))
    BY DEF Directories, Plain, BgCount, Reaches, Size
  <1>3. fs' # Nothing /\ Root \in Ino
    BY GeometryAssumption, TableAssumption
  <1> QED
    BY <1>1, <1>2, <1>3, StoredIs, PlainIs DEF PlaceInv

\* rm clears no directory's inode until stale bytes are followed.
LEMMA RemovePlace ==
  ASSUME IInv, StepInv, PlaceInv, RemoveFile
  PROVE  PlaceInv'
  <1>1. pc = "running" /\ Fn = "rm" /\ fs' = fs /\ cd' = cd /\ moved' \in {moved, TRUE}
    BY DEF RemoveFile, Running, GoOn, vars
  <1>2. fs \in Image /\ fs # Nothing
    BY <1>1, Runs DEF Talk, IInv, TypeOK
  <1>3. PICK e \in Listed, d \in Firsts : e.type = "file" /\ inodes' = After(e, d)
    BY DEF RemoveFile
  <1>4. e \in Dirent
    BY <1>2, ListedIs
  <1>5. cd \in Ino /\ inodes \in [Ino -> InodeType] /\ Worn
    BY <1>1, <1>2 DEF PlaceInv
  <1>6. /\ inodes' \in [Ino -> InodeType]
        /\ \A n \in Ino : /\ inodes'[n].bits \in {inodes[n].bits, {}}
                          /\ inodes'[n].hi \in {inodes[n].hi, 0}
                          /\ n # e.ino => inodes'[n].bits = inodes[n].bits
    BY <1>2, <1>3, <1>4, <1>5, AfterIs
  <1>7. Worn'
    BY <1>1, <1>5, <1>6 DEF Worn
  <1>8. Directories(fs)' = Directories(fs) /\ (Plain(fs)' <=> Plain(fs))
    BY <1>1 DEF Directories, Plain, BgCount, Reaches, Size
  <1>9. ASSUME ~ moved, Plain(fs), NEW n \in Directories(fs) PROVE inodes'[n].bits = {"dir"}
    <2>1. n \in Ino /\ Stored[fs][n].bits = {"dir"} /\ inodes[n].bits = {"dir"}
      BY <1>1, <1>2, <1>9, StoredIs, PlainIs DEF PlaceInv
    <2>2. e \in Entries[fs]
      BY <1>2, <1>9, ListedIs
    <2>3. Stored[fs][e.ino].bits = {"file"}
      BY <1>2, <1>3, <1>9, <2>2, PlainIs
    <2>4. n # e.ino
      BY <2>1, <2>3
    <2> QED
      BY <1>6, <2>1, <2>4
  <1>10. ~ moved => cd \in Directories(fs)
    BY <1>1, <1>2 DEF PlaceInv
  <1>11. moved' = moved \/ moved' = TRUE
    BY <1>1
  <1>12. ~ moved' => ~ moved
    BY <1>11, Zenon
  <1>13. ~ moved' =>
           /\ cd' \in Directories(fs)'
           /\ Plain(fs)' => \A n \in Directories(fs)' : inodes'[n].bits = {"dir"}
    BY <1>1, <1>8, <1>9, <1>10, <1>12
  <1> QED
    BY <1>1, <1>2, <1>5, <1>6, <1>7, <1>13 DEF PlaceInv

\* cd goes to an entry of the mounted image, and umount back to the root.
LEMMA StepPlace ==
  ASSUME IInv, StepInv, PlaceInv, [ConsoleNext]_allVars
  PROVE  PlaceInv'
  <1>1. ASSUME UNCHANGED place, fs' = fs, pc' = "left" \/ pc # "left" PROVE PlaceInv'
    <2>1. (Plain(fs)' <=> Plain(fs)) /\ Directories(fs)' = Directories(fs)
      BY <1>1 DEF Directories, Plain, BgCount, Reaches, Size
    <2> QED
      BY <1>1, <2>1 DEF PlaceInv, Worn, place
  <1>2. CASE pc' = "left"
    BY <1>2 DEF PlaceInv
  <1>3. CASE \E l \in Line : Type(l) /\ UNCHANGED session
    BY <1>1, <1>3 DEF Type, session
  <1>4. CASE Dispatch /\ UNCHANGED session
    <2>1. fs' = fs /\ pc # "left"
      <3>1. CASE ReadLine \/ EndOfInput \/ NextArg \/ ArgsDone \/ NoCommand
        BY <3>1 DEF ReadLine, EndOfInput, NextArg, ArgsDone, NoCommand
      <3>2. CASE Unknown \/ Consider \/ Suggest
        BY <3>2 DEF Unknown, Consider, Suggest
      <3>3. CASE \E i \in DOMAIN Commands : Call(i) \/ Refuse(i)
        BY <3>3 DEF Call, Refuse
      <3> QED
        BY <1>4, <3>1, <3>2, <3>3 DEF Dispatch
    <2> QED
      BY <1>1, <1>4, <2>1 DEF session
  <1>5. CASE UNCHANGED allVars
    <2>1. UNCHANGED place /\ fs' = fs /\ pc' = pc
      BY <1>5 DEF allVars, vars, session
    <2> QED
      BY <1>1, <1>2, <2>1
  <1>6. CASE Work
    <2>1. ASSUME NEW e, Finish(e, fs), UNCHANGED place, pc = "running" PROVE PlaceInv'
      BY <1>1, <2>1 DEF Finish
    <2>2. CASE Usage \/ TalkOrExit \/ Save \/ CdHere \/ NotFound \/ Ls \/ FileDone
             \/ BadLetter \/ DumpDone
      BY <2>1, <2>2 DEF Usage, TalkOrExit, Save, CdHere, NotFound, Ls, FileDone, BadLetter,
                        DumpDone, Running
    <2>3. CASE Mount
      <3>1. pc = "running"
        BY <2>3 DEF Mount, Running
      <3>2. ASSUME NEW i \in Image, fs = Nothing, Finish(FALSE, i), inodes' = Stored[i],
                   cd' = cd, moved' = FALSE
            PROVE  PlaceInv'
        <4>1. cd = Root /\ fs' = i
          BY <3>1, <3>2 DEF PlaceInv, Finish
        <4> QED
          BY <3>2, <4>1, MountPlace
      <3> QED
        BY <2>1, <2>3, <3>1, <3>2 DEF Mount, MountFree
    <2>4. CASE Umount
      <3>1. fs' = Nothing /\ cd' = Root /\ inodes' = NoInodes
        BY <2>4 DEF Umount, Finish
      <3>2. NoInodes \in [Ino -> InodeType] /\ Root \in Ino
        BY GeometryAssumption DEF NoInodes, Zeroed, InodeType
      <3> QED
        BY <3>1, <3>2 DEF PlaceInv
    <2>5. CASE CdOrRmdir
      <3>1. PICK e \in Listed : e.type = "dir" /\ cd' = IF Fn = "cd" THEN e.ino ELSE cd
        BY <2>5 DEF CdOrRmdir
      <3>2. fs' = fs /\ pc = "running" /\ Fn \in {"cd", "rmdir"} /\ UNCHANGED <<inodes, moved>>
        BY <2>5 DEF CdOrRmdir, Finish, Running
      <3>3. fs \in Image /\ fs # Nothing
        BY <3>2, Runs DEF Talk, IInv, TypeOK
      <3>4. cd' \in Ino
        BY <3>1, <3>2, <3>3, ListedIs DEF Dirent, PlaceInv
      <3>5. ~ moved => cd' \in Directories(fs)
        <4>1. CASE cd' = cd
          BY <3>2, <3>3, <4>1 DEF PlaceInv
        <4>2. CASE cd' = e.ino /\ ~ moved
          BY <3>1, <3>3, <4>2, ListedIs DEF Directories
        <4> QED
          BY <3>1, <4>1, <4>2
      <3>6. (Plain(fs)' <=> Plain(fs)) /\ Directories(fs)' = Directories(fs)
        BY <3>2 DEF Directories, Plain, BgCount, Reaches, Size
      <3> QED
        BY <3>2, <3>3, <3>4, <3>5, <3>6 DEF PlaceInv, Worn
    <2>6. CASE FreeGroups \/ GetDir \/ TouchFile \/ StartFormat \/ ReadLetter \/ Dump
      <3>1. fs' = fs /\ UNCHANGED place /\ pc' = pc
        BY <2>6 DEF FreeGroups, GetDir, TouchFile, StartFormat, ReadLetter, Dump, GoOn, vars
      <3> QED
        BY <1>1, <1>2, <3>1
    <2>7. CASE Breaks
      BY <1>1, <2>7 DEF Breaks, Stray, Running, session
    <2>8. CASE FatalError \/ LeaveShell
      BY <1>2, <2>8 DEF FatalError, Fatal, LeaveShell, Leave
    <2> QED
      BY <1>6, <2>2, <2>3, <2>4, <2>5, <2>6, <2>7, <2>8, RemovePlace DEF Work
  <1> QED
    BY <1>3, <1>4, <1>5, <1>6 DEF ConsoleNext, Shell

\* What cat and stat find, a true entry names until stale bytes are followed.
LEMMA StepFound ==
  ASSUME IInv, StepInv, FoundInv, [ConsoleNext]_allVars
  PROVE  FoundInv'
  <1>1. CASE step' # "done" \/ pc' # "running"
    <2>1. StepInv'
      BY StepSteps
    <2> QED
      BY <1>1, <2>1 DEF StepInv, FoundInv
  <1>2. CASE pc' = pc /\ fs' = fs /\ found' = found /\ moved' = moved /\ Fn' = Fn
    BY <1>2 DEF FoundInv, Known
  <1>3. CASE \E l \in Line : Type(l) /\ UNCHANGED session
    <2>1. step' = "start"
      BY <1>3 DEF Type, StepInv, session
    <2> QED
      BY <1>1, <2>1
  <1>4. CASE Dispatch /\ UNCHANGED session
    <2>1. pc \in {"prompt", "splitting", "split", "suggesting"}
      <3>1. CASE ReadLine \/ EndOfInput \/ NextArg \/ ArgsDone \/ NoCommand
        BY <3>1 DEF ReadLine, EndOfInput, NextArg, ArgsDone, NoCommand
      <3>2. CASE Unknown \/ Consider \/ Suggest
        BY <3>2 DEF Unknown, Consider, Suggest
      <3>3. CASE \E i \in DOMAIN Commands : Call(i) \/ Refuse(i)
        BY <3>3 DEF Call, Refuse
      <3> QED
        BY <1>4, <3>1, <3>2, <3>3 DEF Dispatch
    <2>2. step' = "start"
      BY <1>4, <2>1 DEF StepInv, session
    <2> QED
      BY <1>1, <2>2
  <1>5. CASE UNCHANGED allVars
    <2>1. pc' = pc /\ fs' = fs /\ found' = found /\ moved' = moved /\ Fn' = Fn
      BY <1>5 DEF allVars, vars, reply, session, place, Fn
    <2> QED
      BY <1>2, <2>1
  <1>6. CASE Work
    <2>1. CASE Usage \/ TalkOrExit \/ Mount \/ Umount \/ Save \/ CdHere \/ NotFound \/ Ls
               \/ CdOrRmdir \/ FileDone \/ BadLetter \/ DumpDone
      <3>1. step' = "start"
        BY <2>1 DEF Usage, TalkOrExit, Mount, Umount, Save, CdHere, NotFound, Ls, CdOrRmdir,
                    FileDone, BadLetter, DumpDone, Finish
      <3> QED
        BY <1>1, <3>1
    <2>2. CASE GetDir \/ StartFormat \/ Dump
      <3>1. step' # "done"
        BY <2>2 DEF GetDir, StartFormat, Dump, GoOn
      <3> QED
        BY <1>1, <3>1
    <2>3. CASE FreeGroups \/ ReadLetter
      <3>1. pc' = pc /\ fs' = fs /\ found' = found /\ moved' = moved /\ Fn' = Fn
        BY <2>3 DEF FreeGroups, ReadLetter, GoOn, vars, reply, place, Fn
      <3> QED
        BY <1>2, <3>1
    <2>4. CASE TouchFile \/ RemoveFile
      <3>1. /\ pc = "running" /\ Fn \in {"cat", "rm", "stat"} /\ fs' = fs /\ Fn' = Fn
            /\ moved' \in {moved, TRUE}
        BY <2>4 DEF TouchFile, RemoveFile, Running, GoOn, vars, reply, place, Fn
      <3>2. fs \in Image
        BY <3>1, Runs DEF Talk, IInv, TypeOK
      <3>3. PICK e \in Listed : found' = e.ino /\ (Fn = "stat" \/ e.type = "file")
        BY <2>4, <3>1 DEF TouchFile, RemoveFile, Running
      <3>4. ~ moved => e \in Entries[fs]
        BY <3>2, <3>3, ListedIs
      <3>5. ~ moved => Known'
        BY <3>1, <3>3, <3>4 DEF Known
      <3>6. moved' = moved \/ moved' = TRUE
        BY <3>1
      <3>7. ~ moved' => ~ moved
        BY <3>6, Zenon
      <3> QED
        BY <3>5, <3>7 DEF FoundInv
    <2>5. CASE Breaks \/ FatalError \/ LeaveShell
      <3>1. pc' # "running"
        BY <2>5 DEF Breaks, FatalError, Fatal, LeaveShell, Leave
      <3> QED
        BY <1>1, <3>1
    <2> QED
      BY <1>6, <2>1, <2>2, <2>3, <2>4, <2>5 DEF Work
  <1> QED
    BY <1>3, <1>4, <1>5, <1>6 DEF ConsoleNext, Shell

-----------------------------------------------------------------------------
(* What a command touches.                                                 *)

\* On a plain image, what leads to an inode of the image was read.
LEMMA InodeRead ==
  ASSUME NEW i \in Image, Plain(i), NEW n \in Nat \ {0}, n <= Geometry[i].inodesPerGroup
  PROVE  Inode(i, n) \subseteq HasBeenRead(i)
  <1> DEFINE p == Geometry[i].inodesPerGroup
  <1>1. p \in Nat \ {0}
    BY GeometryAssumption
  <1>2. n <= p
    OBVIOUS
  <1> HIDE DEF p
  <1>3. (n - 1) \div p = 0 /\ (n - 1) % p = n - 1 /\ n - 1 \in 0 .. p - 1
    BY <1>1, <1>2
  <1> QED
    BY <1>3 DEF Inode, InodeToBG, InodeToIndex, HasBeenRead, p

\* An image of one group has no groups but the one that was read.
LEMMA GroupsRead ==
  ASSUME NEW i \in Image, Plain(i)
  PROVE  AllGroups(i) \subseteq HasBeenRead(i)
  <1>1. BgCount(i) = 1
    BY DEF Plain
  <1>2. 0 .. BgCount(i) - 1 = {0}
    BY <1>1
  <1> QED
    BY <1>2 DEF AllGroups, HasBeenRead

\* An entry's number leads to an inode that was read, if the image is plain.
LEMMA EntryRead ==
  ASSUME NEW i \in Image, Plain(i)
  PROVE  /\ \A e \in Entries[i] : Inode(i, e.ino) \subseteq HasBeenRead(i)
         /\ \A n \in Directories(i) : Inode(i, n) \subseteq HasBeenRead(i)
  <1>1. Entries[i] \subseteq Dirent /\ Ino \subseteq Nat \ {0} /\ Root \in Nat \ {0}
    BY GeometryAssumption
  <1>2. ASSUME NEW e \in Entries[i] PROVE Inode(i, e.ino) \subseteq HasBeenRead(i)
    <2>1. e.ino \in Nat \ {0} /\ e.ino <= Geometry[i].inodesPerGroup
      BY <1>1 DEF Plain, Dirent
    <2> QED
      BY <2>1, InodeRead
  <1>3. Inode(i, Root) \subseteq HasBeenRead(i)
    <2>1. Geometry[i].inodesPerGroup \in Nat
      BY GeometryAssumption
    <2>2. Root <= Geometry[i].inodesPerGroup
      BY <1>1, <2>1 DEF Plain
    <2> QED
      BY <1>1, <2>2, InodeRead
  <1> QED
    BY <1>2, <1>3 DEF Directories

\* The place of the directory's inode in the group that was read is read.
LEMMA DirCellRead ==
  ASSUME fs \in Image, NEW e, Inode(fs, e.ino) \subseteq HasBeenRead(fs), NEW d \in Ino
  PROVE  DirCell(e, d) \in HasBeenRead(fs)
  <1> DEFINE p == Geometry[fs].inodesPerGroup
             m == d - 1
  <1>1. p \in Nat \ {0} /\ m \in Nat
    BY GeometryAssumption
  <1>2. m % p \in 0 .. p - 1
    <2> HIDE DEF p, m
    <2> QED
      BY <1>1
  <1>3. InodeToIndex(fs, d) \in 0 .. p - 1
    BY <1>2 DEF InodeToIndex
  <1>4. <<"group", InodeToBG(fs, e.ino)>> \in HasBeenRead(fs)
    BY DEF Inode
  <1>5. InodeToBG(fs, e.ino) = 0
    BY <1>4 DEF HasBeenRead
  <1> QED
    BY <1>3, <1>5 DEF DirCell, HasBeenRead

\* A size that has not sunk below zero has a suffix, if it had one and its upper
\* word is no larger than it was.
LEMMA SuffixKnown ==
  ASSUME NEW i \in Image, Plain(i), NEW e \in Entries[i], NEW x \in InodeType,
         x.lo >= 0, x.hi \in {Stored[i][e.ino].hi, 0}
  PROVE  Suffix(x) \in HasBeenRead(i)
  <1> DEFINE K == {k \in 1 .. 5 : Reaches(x, k)}
             h == Stored[i][e.ino].hi
  <1>1. ~ Reaches(x, 5)
    <2> DEFINE top  == [Stored[i][e.ino] EXCEPT !.lo = U31 - 1]
               unit == Unit ^ 5
    <2>1. /\ U31 \in Nat \ {0} /\ unit \in Nat
          /\ Stored[i][e.ino] \in InodeType /\ h \in Nat
          /\ x.hi \in Nat /\ x.lo \in 0 .. U31 - 1
      <3>1. e.ino \in Ino /\ U31 \in Nat \ {0}
        BY GeometryAssumption DEF Dirent
      <3>2. Stored[i][e.ino] \in InodeType
        BY <3>1, StoredIs
      <3>3. h \in Nat /\ x.hi \in Nat /\ x.lo \in 0 .. U31 - 1
        BY <3>1, <3>2 DEF InodeType
      <3>4. unit \in Nat
        BY GeometryAssumption
      <3> QED
        BY <3>1, <3>2, <3>3, <3>4
    <2>2. Size(top) = 2 * U31 * h + (U31 - 1)
      <3>1. top.lo = U31 - 1 /\ top.hi = h
        BY <2>1 DEF InodeType
      <3>2. ~ top.lo < 0
        BY <2>1, <3>1
      <3> QED
        BY <3>1, <3>2 DEF Size
    <2>3. ~ Size(top) >= unit
      BY DEF Plain, Reaches
    <2>4. Size(x) = 2 * U31 * x.hi + x.lo
      BY <2>1 DEF Size
    <2>5. 2 * U31 * h \in Nat /\ 2 * U31 * x.hi \in Nat /\ 2 * U31 * x.hi <= 2 * U31 * h
      <3>1. 2 * U31 * h \in Nat
        BY <2>1
      <3>2. CASE x.hi = h
        BY <3>1, <3>2
      <3>3. CASE x.hi = 0
        <4>1. 2 * U31 * x.hi = 0
          BY <2>1, <3>3
        <4> QED
          BY <3>1, <4>1
      <3> QED
        BY <3>2, <3>3
    <2> DEFINE a == 2 * U31 * h
               b == 2 * U31 * x.hi
    <2>6. ~ Size(x) >= unit
      <3>1. Size(x) = b + x.lo /\ ~ (a + (U31 - 1) >= unit) /\ a \in Nat /\ b \in Nat /\ b <= a
        BY <2>2, <2>3, <2>4, <2>5
      <3> HIDE DEF a, b, unit
      <3> QED
        BY <2>1, <3>1
    <2> QED
      BY <2>6 DEF Reaches
  <1>2. K \subseteq 1 .. 4
    <2>1. SUFFICES ASSUME NEW k \in 1 .. 5, Reaches(x, k) PROVE k \in 1 .. 4
      OBVIOUS
    <2>2. k # 5
      BY <1>1, <2>1
    <2> QED
      BY <2>2
  <1>3. IsFiniteSet(1 .. 4) /\ Cardinality(1 .. 4) = 4
    <2>1. 1 \in Int /\ 4 \in Int /\ ~ 1 > 4 /\ 4 - 1 + 1 = 4
      OBVIOUS
    <2> QED
      BY <2>1, FS_Interval, Zenon
  <1>4. Cardinality(K) \in 0 .. 4
    <2> HIDE DEF K
    <2>1. IsFiniteSet(K) /\ Cardinality(K) <= 4 /\ Cardinality(K) \in Nat
      BY <1>2, <1>3, FS_Subset, FS_CardinalityType
    <2> QED
      BY <2>1
  <1> HIDE DEF K
  <1> QED
    BY <1>4 DEF Suffix, HasBeenRead, K

\* A dump that asks for what a plain image has goes through what was read.
LEMMA DumpRead ==
  ASSUME NEW i \in Image, Plain(i), Served(i)
  PROVE  Dumped(i) \subseteq HasBeenRead(i)
  <1> DEFINE p == Geometry[i].inodesPerGroup
  <1>1. p \in Nat \ {0} /\ Root \in Nat \ {0}
    BY GeometryAssumption
  <1>2. Root \in 0 .. p - 1
    BY <1>1 DEF Plain
  <1>3. DUMP_BGDESCRIPTOR \notin flags /\ DUMP_ALL_BGDESCRIPTOR \notin flags
    BY DEF Served, Descriptors
  <1>4. DUMP_INODE \in flags => 0 .. 31 \subseteq 0 .. p - 1
    <2>1. DUMP_INODE \in flags => p >= 32
      BY DEF Served
    <2> HIDE DEF p
    <2> QED
      BY <1>1, <2>1
  <1> HIDE DEF p
  <1>5. ASSUME NEW c \in Dumped(i) PROVE c \in HasBeenRead(i)
    <2>1. \/ c = <<"group", 0>>
          \/ \E k \in 0 .. p - 1 : c = <<"inode", 0, k>>
      BY <1>2, <1>3, <1>4, <1>5 DEF Dumped, p
    <2> QED
      BY <2>1 DEF HasBeenRead, p
  <1> QED
    BY <1>5

\* A command on a file stays within what was read, unless it sank or was misled.
LEMMA FileTouched ==
  ASSUME IInv, StepInv, PlaceInv, StaysWithinRead, TouchFile \/ RemoveFile
  PROVE  StaysWithinRead'
  <1>1. /\ pc = "running" /\ Fn \in {"cat", "rm", "stat"} /\ step = "listed"
        /\ fs' = fs /\ cd' = cd /\ Fn' = Fn /\ moved' \in {moved, TRUE} /\ step' = "done"
    BY DEF TouchFile, RemoveFile, Running, GoOn, vars, reply, place, Fn
  <1>2. fs \in Image /\ fs # Nothing /\ found = 0
    BY <1>1, Runs DEF Talk, IInv, TypeOK, StepInv
  <1>3. SUFFICES ASSUME Plain(fs), ~ Sunk', ~ Misled' PROVE touched' \subseteq HasBeenRead(fs)
    BY <1>1, <1>2 DEF StaysWithinRead, Plain, BgCount, Reaches, Size, HasBeenRead
  <1>4. PICK e \in Listed, d \in Firsts :
          /\ found' = e.ino
          /\ TouchFile => touched' = touched \cup Inode(fs, e.ino)
                            \cup (IF Fn = "stat" THEN {Suffix(inodes[e.ino])} ELSE {})
          /\ RemoveFile => touched' = touched \cup Inode(fs, e.ino) \cup {DirCell(e, d)}
    <2>1. CASE RemoveFile
      <3>1. ~ TouchFile
        BY <2>1 DEF RemoveFile, TouchFile, Running
      <3> QED
        BY <2>1, <3>1 DEF RemoveFile
    <2>2. CASE TouchFile
      <3>1. ~ RemoveFile
        BY <2>2 DEF RemoveFile, TouchFile, Running
      <3>2. PICK e \in Listed :
              /\ found' = e.ino
              /\ touched' = touched \cup Inode(fs, e.ino)
                              \cup (IF Fn = "stat" THEN {Suffix(inodes[e.ino])} ELSE {})
        BY <2>2 DEF TouchFile
      <3>3. Firsts # {}
        BY <3>2 DEF Firsts
      <3> QED
        BY <3>1, <3>2, <3>3
    <2> QED
      BY <2>1, <2>2
  <1>5. e \in Dirent /\ d \in Ino /\ cd \in Ino
    BY <1>1, <1>2, ListedIs DEF PlaceInv
  <1>6. e.ino \in Ino /\ e.ino # 0
    BY <1>5, GeometryAssumption DEF Dirent
  <1>7. PICK t \in Entries[fs] : t.ino = e.ino
    <2>1. CASE ~ moved
      BY <1>2, <2>1, ListedIs
    <2>2. CASE moved
      <3>1. moved' /\ found' # 0
        BY <1>1, <1>4, <1>6, <2>2
      <3>2. \E t \in Entries[fs] : t.ino = found'
        BY <1>1, <1>3, <3>1 DEF Misled
      <3> QED
        BY <1>4, <3>2
    <2> QED
      BY <2>1, <2>2
  <1>8. Inode(fs, e.ino) \subseteq HasBeenRead(fs)
    BY <1>2, <1>3, <1>7, EntryRead
  <1>9. touched \subseteq HasBeenRead(fs)
    <2>1. ~ Sunk /\ ~ Misled
      <3>1. ~ Misled
        <4>1. CASE ~ moved
          BY <4>1 DEF Misled
        <4>2. CASE moved
          <5>1. cd \in Directories(fs)
            BY <1>1, <1>3, <4>2 DEF Misled, Directories
          <5> QED
            BY <1>2, <5>1 DEF Misled
        <4> QED
          BY <4>1, <4>2
      <3> QED
        BY <1>2, <3>1 DEF Sunk
    <2> QED
      BY <1>1, <1>3, <2>1 DEF StaysWithinRead
  <1>10. CASE RemoveFile
    <2>1. DirCell(e, d) \in HasBeenRead(fs)
      BY <1>2, <1>5, <1>8, DirCellRead
    <2> QED
      BY <1>4, <1>8, <1>9, <1>10, <2>1
  <1>11. CASE TouchFile
    <2>1. ASSUME Fn = "stat" PROVE Suffix(inodes[e.ino]) \in HasBeenRead(fs)
      <3>1. inodes' = inodes
        BY <1>11 DEF TouchFile, place
      <3>2. inodes[e.ino] \in InodeType /\ inodes[e.ino].hi \in {Stored[fs][t.ino].hi, 0}
        BY <1>1, <1>2, <1>6, <1>7 DEF PlaceInv, Worn
      <3>3. ~ inodes[e.ino].lo < 0
        BY <1>1, <1>3, <1>4, <1>6, <2>1, <3>1 DEF Sunk
      <3>4. inodes[e.ino].lo \in Int
        BY <3>2, GeometryAssumption DEF InodeType
      <3>5. inodes[e.ino].lo >= 0
        BY <3>3, <3>4
      <3> QED
        BY <1>2, <1>3, <3>2, <3>5, SuffixKnown
    <2> QED
      BY <1>4, <1>8, <1>9, <1>11, <2>1
  <1> QED
    BY <1>10, <1>11

\* A step touches only cells that were read, on a plain image, but for a dump
\* of more, a size that has sunk and stale bytes.
LEMMA StepTouched ==
  ASSUME IInv, StepInv, PlaceInv, StaysWithinRead, [ConsoleNext]_allVars
  PROVE  StaysWithinRead'
  <1>1. CASE step' = "start" \/ pc' \notin {"running", "closing"} \/ touched' = {}
    BY <1>1 DEF StaysWithinRead
  <1>2. CASE \E l \in Line : Type(l) /\ UNCHANGED session
    BY <1>1, <1>2 DEF Type
  <1>3. CASE Dispatch /\ UNCHANGED session
    <2>1. pc \in {"prompt", "splitting", "split", "suggesting"}
      <3>1. CASE ReadLine \/ EndOfInput \/ NextArg \/ ArgsDone \/ NoCommand
        BY <3>1 DEF ReadLine, EndOfInput, NextArg, ArgsDone, NoCommand
      <3>2. CASE Unknown \/ Consider \/ Suggest
        BY <3>2 DEF Unknown, Consider, Suggest
      <3>3. CASE \E i \in DOMAIN Commands : Call(i) \/ Refuse(i)
        BY <3>3 DEF Call, Refuse
      <3> QED
        BY <1>3, <3>1, <3>2, <3>3 DEF Dispatch
    <2>2. step' = "start"
      BY <1>3, <2>1 DEF StepInv, session, place
    <2> QED
      BY <1>1, <2>2
  <1>4. CASE UNCHANGED allVars
    <2>1. fs' = fs /\ pc' = pc /\ Fn' = Fn /\ UNCHANGED session
      BY <1>4 DEF allVars, vars, reply, Fn
    <2> QED
      BY <2>1 DEF StaysWithinRead, Served, Sunk, Misled, session, place
  <1>5. CASE Work
    <2>1. CASE Usage \/ TalkOrExit \/ Mount \/ Umount \/ Save \/ CdHere \/ NotFound \/ Ls
               \/ CdOrRmdir \/ FileDone \/ BadLetter \/ DumpDone
      BY <1>1, <2>1 DEF Usage, TalkOrExit, Mount, Umount, Save, CdHere, NotFound, Ls, CdOrRmdir,
                        FileDone, BadLetter, DumpDone, Finish
    <2>2. CASE Breaks \/ FatalError \/ LeaveShell
      BY <1>1, <2>2 DEF Breaks, FatalError, Fatal, LeaveShell, Leave
    <2>3. ASSUME fs' = fs, fs \in Image,
                 Plain(fs) => touched' \subseteq HasBeenRead(fs) \/ Misled'
          PROVE  StaysWithinRead'
      BY <2>3 DEF StaysWithinRead
    <2>4. fs \in Image \cup {Nothing}
      BY DEF IInv, TypeOK
    <2>5. pc = "running" /\ Fn \notin Talk \cup {"exit", "mount"} => fs \in Image /\ fs # Nothing
      BY <2>4, Runs
    <2>6. CASE FreeGroups
      <3>1. fs' = fs /\ fs \in Image /\ touched' = AllGroups(fs)
        BY <2>4, <2>6 DEF FreeGroups, GoOn, vars
      <3> QED
        BY <2>3, <3>1, GroupsRead
    <2>8. CASE GetDir
      <3>1. pc = "running" /\ Fn \in {"ls", "cat", "cd", "rm", "rmdir", "stat"}
            /\ fs' = fs /\ touched' = Inode(fs, cd) /\ UNCHANGED place
        BY <2>8 DEF GetDir, Running, GoOn, vars
      <3>2. fs \in Image /\ fs # Nothing
        BY <2>5, <3>1 DEF Talk
      <3>3. CASE cd \in Directories(fs)
        BY <2>3, <3>1, <3>2, <3>3, EntryRead
      <3>4. CASE cd \notin Directories(fs)
        <4>1. moved
          BY <3>1, <3>2, <3>4 DEF PlaceInv
        <4>2. Misled'
          BY <3>1, <3>4, <4>1 DEF Misled, Directories, place
        <4> QED
          BY <2>3, <3>1, <3>2, <4>2
      <3> QED
        BY <3>3, <3>4
    <2>10. CASE StartFormat \/ ReadLetter
      <3>1. touched' = {}
        BY <2>10 DEF StartFormat, ReadLetter, StepInv
      <3> QED
        BY <1>1, <3>1
    <2>11. CASE Dump
      <3>1. pc = "running" /\ Fn = "fsdump" /\ fs' = fs /\ touched' = Dumped(fs)
            /\ step' = "parsed" /\ flags' = flags
        BY <2>11 DEF Dump, GoOn, vars, StepInv
      <3>2. fs \in Image
        BY <2>5, <3>1 DEF Talk
      <3>3. Plain(fs) /\ Served(fs) => touched' \subseteq HasBeenRead(fs)
        BY <3>1, <3>2, DumpRead
      <3> QED
        BY <3>1, <3>3 DEF StaysWithinRead, Served
    <2> QED
      BY <1>5, <2>1, <2>2, <2>6, <2>8, <2>10, <2>11, FileTouched DEF Work
  <1> QED
    BY <1>2, <1>3, <1>4, <1>5 DEF ConsoleNext, Shell

-----------------------------------------------------------------------------
(* The letters of fsdump.                                                  *)

\* The last letter of S is the one just read, or what it was before.
LEMMA OneMoreLetter ==
  ASSUME next \in Nat \ {0}, next' = next + 1, UNCHANGED words, NEW S, NEW c
  PROVE  LastOf(S, c)' <=> Format[next] = c \/ (Format[next] \notin S /\ LastOf(S, c))
  <1>1. Format' = Format
    BY DEF Format, Arg, words
  <1>2. next' - 1 = next /\ next \in 1 .. next
    OBVIOUS
  <1>3. LastOf(S, c)' <=>
          \E k \in 1 .. next : Format[k] = c /\ \A m \in k + 1 .. next : Format[m] \notin S
    BY <1>1, <1>2 DEF LastOf
  <1>4. CASE Format[next] = c
    <2>1. \A m \in next + 1 .. next : Format[m] \notin S
      OBVIOUS
    <2> QED
      BY <1>2, <1>3, <1>4, <2>1
  <1>5. CASE Format[next] # c /\ Format[next] \in S
    <2>1. ASSUME NEW k \in 1 .. next, Format[k] = c,
                 \A m \in k + 1 .. next : Format[m] \notin S
          PROVE  FALSE
      <3>1. k # next
        BY <1>5, <2>1
      <3>2. next \in k + 1 .. next
        BY <3>1
      <3> QED
        BY <1>5, <2>1, <3>2
    <2> QED
      BY <1>3, <1>5, <2>1
  <1>6. CASE Format[next] # c /\ Format[next] \notin S
    <2>1. ASSUME NEW k \in 1 .. next, Format[k] = c,
                 \A m \in k + 1 .. next : Format[m] \notin S
          PROVE  LastOf(S, c)
      <3>1. k \in 1 .. next - 1
        BY <1>6, <2>1
      <3>2. \A m \in k + 1 .. next - 1 : Format[m] \notin S
        BY <2>1
      <3> QED
        BY <2>1, <3>1, <3>2 DEF LastOf
    <2>2. ASSUME NEW k \in 1 .. next - 1, Format[k] = c,
                 \A m \in k + 1 .. next - 1 : Format[m] \notin S
          PROVE  \A m \in k + 1 .. next : Format[m] \notin S
      <3>1. SUFFICES ASSUME NEW m \in k + 1 .. next PROVE Format[m] \notin S
        OBVIOUS
      <3>2. m = next \/ m \in k + 1 .. next - 1
        OBVIOUS
      <3> QED
        BY <1>6, <2>2, <3>2
    <2>3. LastOf(S, c) => LastOf(S, c)'
      BY <1>3, <2>2 DEF LastOf
    <2> QED
      BY <1>3, <1>6, <2>1, <2>3
  <1> QED
    BY <1>4, <1>5, <1>6

\* A letter was met up to here when it is this one or was met before.
LEMMA SomeLetter ==
  ASSUME next \in Nat \ {0}, next' = next + 1, UNCHANGED words, NEW S
  PROVE  (\E k \in 1 .. next' - 1 : Format'[k] \in S) <=>
           Format[next] \in S \/ \E k \in 1 .. next - 1 : Format[k] \in S
  <1>1. Format' = Format
    BY DEF Format, Arg, words
  <1>2. \A k : k \in 1 .. next' - 1 <=> k = next \/ k \in 1 .. next - 1
    OBVIOUS
  <1> QED
    BY <1>1, <1>2

\* Each letter sets its flag and clears what it excludes.
LEMMA StepLetters ==
  ASSUME IInv, StepInv, LastLetterWins, [ConsoleNext]_allVars
  PROVE  LastLetterWins'
  <1>1. CASE step' \notin {"parsing", "parsed"}
    BY <1>1 DEF LastLetterWins
  <1>2. CASE step \in {"parsing", "parsed"} /\ flags' = flags /\ next' = next /\ UNCHANGED words
    <2>1. Format' = Format
      BY <1>2 DEF Format, Arg, words
    <2> QED
      BY <1>2, <2>1 DEF LastLetterWins, LastOf
  <1>3. CASE ReadLetter
    <2> DEFINE c == Format[next]
               D == {"a", "b", "B"}
               I == {"a", "i", "I", "r"}
               A == {"a", "s"}
    <2>1. /\ c \in Letter /\ flags' = WithLetter(c) /\ next' = next + 1
          /\ next \in Nat \ {0} /\ UNCHANGED words /\ step = "parsing"
      BY <1>3 DEF ReadLetter, NextLetter, StepInv, vars
    <2>2. /\ DUMP_BGDESCRIPTOR \in flags <=> LastOf(D, "a") \/ LastOf(D, "b")
          /\ DUMP_ALL_BGDESCRIPTOR \in flags <=> LastOf(D, "B")
          /\ DUMP_INODE \in flags <=> LastOf(I, "a") \/ LastOf(I, "i")
          /\ DUMP_INODE_ALL \in flags <=> LastOf(I, "I")
          /\ DUMP_INODE_ROOT \in flags <=> LastOf(I, "r")
          /\ DUMP_SUPERBLOCK \in flags <=> \E k \in 1 .. next - 1 : Format[k] \in A
      BY <2>1 DEF LastLetterWins
    <2>3. \A x \in {"a", "b", "B"} :
            LastOf(D, x)' <=> c = x \/ (c \notin D /\ LastOf(D, x))
      BY <2>1, OneMoreLetter
    <2>4. \A x \in {"a", "i", "I", "r"} :
            LastOf(I, x)' <=> c = x \/ (c \notin I /\ LastOf(I, x))
      BY <2>1, OneMoreLetter
    <2>5. (\E k \in 1 .. next' - 1 : Format'[k] \in A) <=>
            c \in A \/ \E k \in 1 .. next - 1 : Format[k] \in A
      BY <2>1, SomeLetter
    <2> DEFINE Some == \E k \in 1 .. next - 1 : Format[k] \in A
    <2>6. /\ DUMP_BGDESCRIPTOR \in flags' <=> c \in {"a", "b"} \/ (c # "B" /\ DUMP_BGDESCRIPTOR \in flags)
          /\ DUMP_ALL_BGDESCRIPTOR \in flags' <=>
               c = "B" \/ (c \notin {"a", "b"} /\ DUMP_ALL_BGDESCRIPTOR \in flags)
          /\ DUMP_INODE \in flags' <=> c \in {"a", "i"} \/ (c \notin {"I", "r"} /\ DUMP_INODE \in flags)
          /\ DUMP_INODE_ALL \in flags' <=>
               c = "I" \/ (c \notin {"a", "i", "r"} /\ DUMP_INODE_ALL \in flags)
          /\ DUMP_INODE_ROOT \in flags' <=>
               c = "r" \/ (c \notin {"a", "i", "I"} /\ DUMP_INODE_ROOT \in flags)
          /\ DUMP_SUPERBLOCK \in flags' <=> c \in A \/ DUMP_SUPERBLOCK \in flags
      <3> HIDE DEF c
      <3> USE DEF WithLetter, DUMP_ALL, Descriptors, Inodes, DUMP_SUPERBLOCK, DUMP_BGDESCRIPTOR,
                  DUMP_ALL_BGDESCRIPTOR, DUMP_INODE, DUMP_INODE_ALL, DUMP_INODE_ROOT
      <3>1. CASE c = "a"
        BY <2>1, <3>1
      <3>2. CASE c = "b"
        BY <2>1, <3>2
      <3>3. CASE c = "B"
        BY <2>1, <3>3
      <3>4. CASE c = "i"
        BY <2>1, <3>4
      <3>5. CASE c = "I"
        BY <2>1, <3>5
      <3>6. CASE c = "r"
        BY <2>1, <3>6
      <3>7. CASE c = "s"
        BY <2>1, <3>7
      <3> QED
        BY <2>1, <3>1, <3>2, <3>3, <3>4, <3>5, <3>6, <3>7 DEF Letter
    <2>7. /\ (DUMP_BGDESCRIPTOR \in flags)' <=> LastOf(D, "a")' \/ LastOf(D, "b")'
          /\ (DUMP_ALL_BGDESCRIPTOR \in flags)' <=> LastOf(D, "B")'
      <3> HIDE DEF c, I, A
      <3> QED
        BY <2>2, <2>3, <2>6 DEF DUMP_BGDESCRIPTOR, DUMP_ALL_BGDESCRIPTOR
    <2>8. /\ (DUMP_INODE \in flags)' <=> LastOf(I, "a")' \/ LastOf(I, "i")'
          /\ (DUMP_INODE_ALL \in flags)' <=> LastOf(I, "I")'
          /\ (DUMP_INODE_ROOT \in flags)' <=> LastOf(I, "r")'
      <3> HIDE DEF c, D, A
      <3> QED
        BY <2>2, <2>4, <2>6 DEF DUMP_INODE, DUMP_INODE_ALL, DUMP_INODE_ROOT
    <2>9. (DUMP_SUPERBLOCK \in flags)' <=> \E k \in 1 .. next' - 1 : Format'[k] \in A
      <3> HIDE DEF c, A
      <3> QED
        BY <2>2, <2>5, <2>6 DEF DUMP_SUPERBLOCK
    <2> QED
      BY <2>7, <2>8, <2>9 DEF LastLetterWins
  <1>4. CASE StartFormat
    <2>1. flags' = {} /\ next' = 1
      BY <1>4 DEF StartFormat, StepInv
    <2>2. \A k : k \notin 1 .. next' - 1
      BY <2>1
    <2> QED
      BY <2>1, <2>2 DEF LastLetterWins, LastOf
  <1>5. CASE \E l \in Line : Type(l) /\ UNCHANGED session
    BY <1>1, <1>5 DEF Type, session, place, StepInv
  <1>6. CASE Dispatch /\ UNCHANGED session
    <2>1. pc \in {"prompt", "splitting", "split", "suggesting"}
      <3>1. CASE ReadLine \/ EndOfInput \/ NextArg \/ ArgsDone \/ NoCommand
        BY <3>1 DEF ReadLine, EndOfInput, NextArg, ArgsDone, NoCommand
      <3>2. CASE Unknown \/ Consider \/ Suggest
        BY <3>2 DEF Unknown, Consider, Suggest
      <3>3. CASE \E i \in DOMAIN Commands : Call(i) \/ Refuse(i)
        BY <3>3 DEF Call, Refuse
      <3> QED
        BY <1>6, <3>1, <3>2, <3>3 DEF Dispatch
    <2> QED
      BY <1>1, <1>6, <2>1 DEF StepInv, session, place
  <1>7. CASE UNCHANGED allVars
    <2>1. step' = step /\ flags' = flags /\ next' = next /\ UNCHANGED words
      BY <1>7 DEF allVars, vars, session, place
    <2> QED
      BY <1>1, <1>2, <2>1
  <1>8. CASE Usage \/ TalkOrExit \/ Mount \/ Umount \/ Save \/ CdHere \/ NotFound \/ Ls
             \/ CdOrRmdir \/ FileDone \/ BadLetter \/ DumpDone
    BY <1>1, <1>8 DEF Usage, TalkOrExit, Mount, Umount, Save, CdHere, NotFound, Ls, CdOrRmdir,
                      FileDone, BadLetter, DumpDone, Finish
  <1>9. CASE FreeGroups \/ GetDir \/ TouchFile \/ RemoveFile
    BY <1>1, <1>9 DEF FreeGroups, GetDir, TouchFile, RemoveFile, GoOn
  <1>10. CASE Dump
    <2>1. step = "parsing" /\ flags' = flags /\ next' = next /\ UNCHANGED words
      BY <1>10 DEF Dump, GoOn, vars
    <2> QED
      BY <1>2, <2>1
  <1>11. CASE Breaks \/ FatalError \/ LeaveShell
    <2>1. step' = step /\ flags' = flags /\ next' = next /\ UNCHANGED words
      BY <1>11 DEF Breaks, FatalError, Fatal, LeaveShell, Leave, session, place
    <2> QED
      BY <1>1, <1>2, <2>1
  <1> QED
    BY <1>3, <1>4, <1>5, <1>6, <1>7, <1>8, <1>9, <1>10, <1>11 DEF ConsoleNext, Shell, Work

-----------------------------------------------------------------------------
(* What ends the session.                                                  *)

\* A line with no word in it has blanks.
LEMMA NoWord ==
  ASSUME IInv, pc = "split", argv = <<>>, Len(line) < BufSize
  PROVE  line # <<>> /\ \A k \in DOMAIN line : line[k] = Blank
  <1>1. Len(argv) = 0 /\ Len(argv) < MaxArgs
    BY EmptySeq, BufferAssumption
  <1>2. buf = line /\ buf # <<>>
    BY DEF IInv, LineInBuffer, Progress
  <1>3. BlankFrom(1, Len(buf))
    BY <1>1 DEF IInv, ArgsAreWords
  <1>4. DOMAIN line = 1 .. Len(line)
    BY LenProperties DEF IInv, TypeOK
  <1> QED
    BY <1>2, <1>3, <1>4 DEF BlankFrom

\* The commands and the ends of a session crash in ways that are known.
LEMMA KnownBreaks ==
  ASSUME IInv, StepInv, PlaceInv, FoundInv, StaysWithinRead, Breaks
  PROVE  OnlyKnownCrashes'
  <1>1. /\ line' = line /\ said' = said /\ fs' = fs /\ argv' = argv /\ Fn' = Fn
        /\ UNCHANGED session
    BY DEF Breaks, input, words, reply, Fn
  <1>2. SUFFICES \/ said = "called" /\ Fn = "rmdir" /\ Len(argv) = 1
                 \/ said = "called" /\ Fn = "cat" /\ found # 0 /\ Released(found)
                 \/ said = "called" /\ (Sunk \/ Misled)
                 \/ said = "called" /\ moved /\ Released(cd)
                 \/ fs # Nothing /\ (Plain(fs) => step = "parsed" /\ ~ Served(fs))
    BY <1>1 DEF OnlyKnownCrashes, Served, Released, Sunk, Misled, session, place
  <1>3. pc = "running" => said = "called"
    BY DEF IInv, Progress
  <1>4. fs \in Image \cup {Nothing}
    BY DEF IInv, TypeOK
  <1>5. CASE Stray
    <2>1. fs \in Image /\ fs # Nothing
      BY <1>4, <1>5, Runs, TableAssumption DEF Stray, StepInv, Talk
    <2>2. CASE pc = "running"
      BY <1>2, <1>3, <1>5, <2>1, <2>2 DEF Stray, StaysWithinRead
    <2>3. CASE pc = "closing"
      <3>1. touched = AllGroups(fs)
        BY <1>5, <2>3 DEF Stray, StepInv
      <3>2. ~ Plain(fs)
        BY <1>5, <2>1, <3>1, GroupsRead DEF Stray
      <3> QED
        BY <1>2, <2>1, <3>2
    <2> QED
      BY <1>5, <2>2, <2>3 DEF Stray
  <1>6. CASE Running({"rmdir"}) /\ step = "listed" /\ Len(argv) = 1
    BY <1>2, <1>3, <1>6 DEF Running
  <1>7. CASE pc = "running" /\ step = "listed" /\ ~ Stray /\ (NoDir \/ cd \notin Directories(fs))
    <2>1. fs \in Image /\ fs # Nothing
      BY <1>4, <1>7, Runs, TableAssumption DEF StepInv, Talk
    <2>2. CASE cd \notin Directories(fs)
      <3>1. moved
        BY <1>7, <2>1, <2>2 DEF PlaceInv
      <3> QED
        BY <1>2, <1>3, <1>7, <2>2, <3>1 DEF Misled
    <2>3. CASE cd \in Directories(fs) /\ "dir" \notin inodes[cd].bits /\ Plain(fs)
      <3>1. Stored[fs][cd].bits = {"dir"}
        BY <2>1, <2>3, PlainIs
      <3>2. inodes[cd].bits \in {{"dir"}, {}}
        BY <1>7, <2>1, <3>1 DEF PlaceInv, Worn
      <3>3. Released(cd)
        BY <2>3, <3>2 DEF Released
      <3>4. moved
        BY <1>7, <2>1, <2>3 DEF PlaceInv
      <3> QED
        BY <1>2, <1>3, <1>7, <3>3, <3>4
    <2> QED
      BY <1>2, <1>7, <2>1, <2>2, <2>3 DEF NoDir
  <1>8. CASE Running({"cat"}) /\ step = "done" /\ NoFile
    <2>1. pc = "running" /\ Fn = "cat" /\ said = "called"
      BY <1>3, <1>8 DEF Running
    <2>2. fs \in Image /\ fs # Nothing /\ found \in Ino
      BY <1>4, <1>8, <2>1, Runs, TableAssumption DEF StepInv, Talk
    <2>3. found # 0
      BY <2>2, GeometryAssumption
    <2>4. CASE Plain(fs) /\ ~ Misled
      <3>1. PICK e \in Entries[fs] : e.ino = found /\ e.type = "file"
        BY <2>1, <2>3, <2>4 DEF Misled, FoundInv, Known
      <3>2. Stored[fs][found].bits = {"file"}
        BY <2>2, <2>4, <3>1, PlainIs
      <3>3. inodes[found].bits \in {{"file"}, {}}
        BY <2>1, <2>2, <3>2 DEF PlaceInv, Worn
      <3>4. Released(found)
        BY <1>8, <3>3 DEF NoFile, Released
      <3> QED
        BY <1>2, <2>1, <2>3, <3>4
    <2> QED
      BY <1>2, <2>1, <2>2, <2>4
  <1> QED
    BY <1>5, <1>6, <1>7, <1>8 DEF Breaks

\* A step that ends in a crash is one of the known ones.
LEMMA StepCrashes ==
  ASSUME IInv, StepInv, PlaceInv, FoundInv, StaysWithinRead, OnlyKnownCrashes,
         [ConsoleNext]_allVars
  PROVE  OnlyKnownCrashes'
  <1>1. CASE pc' # "crashed"
    BY <1>1 DEF OnlyKnownCrashes
  <1>2. CASE \E l \in Line : Type(l) /\ UNCHANGED session
    BY <1>1, <1>2 DEF Type
  <1>3. CASE Dispatch /\ UNCHANGED session
    <2>1. CASE NoCommand
      <3>1. (line # <<>> /\ \A k \in DOMAIN line : line[k] = Blank) \/ ~ Len(line) < BufSize
        BY <2>1, NoWord DEF NoCommand
      <3>2. line' = line
        BY <2>1 DEF NoCommand, input
      <3> QED
        BY <3>1, <3>2 DEF OnlyKnownCrashes
    <2>2. CASE ReadLine \/ EndOfInput \/ NextArg \/ ArgsDone
      BY <1>1, <2>2 DEF ReadLine, EndOfInput, NextArg, ArgsDone
    <2>3. CASE Unknown \/ Consider \/ Suggest
      BY <1>1, <2>3 DEF Unknown, Consider, Suggest
    <2>4. CASE \E i \in DOMAIN Commands : Call(i) \/ Refuse(i)
      BY <1>1, <2>4 DEF Call, Refuse
    <2> QED
      BY <1>3, <2>1, <2>2, <2>3, <2>4 DEF Dispatch
  <1>4. CASE UNCHANGED allVars
    <2>1. /\ pc' = pc /\ line' = line /\ said' = said /\ fs' = fs /\ argv' = argv
          /\ Fn' = Fn /\ UNCHANGED session
      BY <1>4 DEF allVars, vars, input, words, reply, Fn
    <2> QED
      BY <2>1 DEF OnlyKnownCrashes, Served, Released, Sunk, Misled, session, place
  <1>5. CASE Breaks
    BY <1>5, KnownBreaks
  <1>6. CASE Usage \/ TalkOrExit \/ Mount \/ Umount \/ Save \/ CdHere \/ NotFound \/ Ls
             \/ CdOrRmdir \/ FileDone \/ BadLetter \/ DumpDone
    BY <1>1, <1>6 DEF Usage, TalkOrExit, Mount, Umount, Save, CdHere, NotFound, Ls, CdOrRmdir,
                      FileDone, BadLetter, DumpDone, Finish
  <1>7. CASE FreeGroups \/ GetDir \/ TouchFile \/ RemoveFile \/ StartFormat \/ ReadLetter \/ Dump
    <2>1. pc \in {"running", "closing"} /\ pc' = pc
      BY <1>7 DEF FreeGroups, GetDir, TouchFile, RemoveFile, StartFormat, ReadLetter, Dump, Running,
                  GoOn, vars
    <2> QED
      BY <1>1, <2>1
  <1>8. CASE FatalError \/ LeaveShell
    BY <1>1, <1>8 DEF FatalError, Fatal, LeaveShell, Leave
  <1> QED
    BY <1>2, <1>3, <1>4, <1>5, <1>6, <1>7, <1>8 DEF ConsoleNext, Shell, Work

-----------------------------------------------------------------------------
(* The theorems.                                                           *)

\* No command has run yet.
LEMMA InitCInv == ConsoleInit => CInv
  <1> SUFFICES ASSUME ConsoleInit PROVE CInv
    OBVIOUS
  <1>1. IInv
    BY InitIInv DEF ConsoleInit
  <1>2. /\ pc = "prompt" /\ step = "start" /\ found = 0 /\ flags = {} /\ next = 1
        /\ touched = {} /\ cd = Root /\ inodes = InodesOf(fs) /\ moved = FALSE
    BY DEF ConsoleInit, Init
  <1>3. StepInv /\ FoundInv /\ StaysWithinRead /\ LastLetterWins /\ OnlyKnownCrashes
    BY <1>2 DEF StepInv, Steps, FoundInv, StaysWithinRead, LastLetterWins, OnlyKnownCrashes
  <1>4. PlaceInv
    <2>1. Root \in Ino
      BY GeometryAssumption
    <2>2. CASE fs = Nothing
      <3>1. NoInodes \in [Ino -> InodeType]
        BY GeometryAssumption DEF NoInodes, Zeroed, InodeType
      <3> QED
        BY <1>2, <2>1, <2>2, <3>1 DEF PlaceInv, InodesOf
    <2>3. CASE fs \in Image /\ fs # Nothing
      <3>1. inodes = Stored[fs]
        BY <1>2, <2>3 DEF InodesOf
      <3>2. Worn
        BY <3>1 DEF Worn
      <3> QED
        BY <1>2, <2>1, <2>3, <3>1, <3>2, StoredIs, PlainIs DEF PlaceInv
    <2> QED
      BY <2>2, <2>3 DEF ConsoleInit, Init
  <1> QED
    BY <1>1, <1>3, <1>4 DEF CInv

\* No step of the console breaks its invariant, and each is one of the prompt.
LEMMA StepCInv == CInv /\ [ConsoleNext]_allVars => CInv' /\ [Next]_vars
  <1> SUFFICES ASSUME CInv, [ConsoleNext]_allVars PROVE CInv' /\ [Next]_vars
    OBVIOUS
  <1>1. [Next]_vars
    BY NextRefines DEF CInv
  <1>2. IInv'
    BY <1>1, StepIInv DEF CInv
  <1>3. StepInv' /\ PlaceInv' /\ FoundInv'
    BY StepSteps, StepPlace, StepFound DEF CInv
  <1>4. StaysWithinRead' /\ LastLetterWins' /\ OnlyKnownCrashes'
    BY StepTouched, StepLetters, StepCrashes DEF CInv
  <1> QED
    BY <1>1, <1>2, <1>3, <1>4 DEF CInv

\* The invariant of the console holds at all times.
THEOREM ConsoleInvariance == ConsoleSpec => []CInv
  BY InitCInv, StepCInv, PTL DEF ConsoleSpec

\* What the prompt counts on, the commands do.
THEOREM ConsoleImplementsPrompt == ConsoleSpec => ImplementsPrompt
  <1>1. ConsoleInit => Init
    BY DEF ConsoleInit
  <1> QED
    BY <1>1, InitCInv, StepCInv, PTL DEF ConsoleSpec, ImplementsPrompt, Spec

\* What holds of the prompt holds of the console.
THEOREM ConsoleLines ==
  ConsoleSpec => [](TypeOK /\ LineIsWhole /\ ArgsAreWords /\ HintIsNearest)
  <1>1. ConsoleSpec => Spec
    BY ConsoleImplementsPrompt DEF ImplementsPrompt
  <1> QED
    BY <1>1, TypeCorrect, WholeLines, WordsAreArguments, HintsAreNearest, PTL

\* No command on a plain image looks at what mounting did not read, whatever rm
\* took from sizes and moved before it, but for a dump of more than there is,
\* stat of a size below zero and what follows stale bytes.
THEOREM CommandsStayWithinRead == ConsoleSpec => []StaysWithinRead
  <1>1. CInv => StaysWithinRead
    BY DEF CInv
  <1> QED
    BY <1>1, ConsoleInvariance, PTL

\* Of fsdump's letters that exclude each other the last one counts.
THEOREM LettersCount == ConsoleSpec => []LastLetterWins
  <1>1. CInv => LastLetterWins
    BY DEF CInv
  <1> QED
    BY <1>1, ConsoleInvariance, PTL

\* Whatever shorter line was typed, the session is lost by blanks alone, by
\* rmdir without a name, by cat of what rm released, by stat of a size below
\* zero, by stale bytes, by an image that is not plain, or by such a dump.
THEOREM CrashesKnown == ConsoleSpec => []OnlyKnownCrashes
  <1>1. CInv => OnlyKnownCrashes
    BY DEF CInv
  <1> QED
    BY <1>1, ConsoleInvariance, PTL
=============================================================================
