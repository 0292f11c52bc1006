--------------------------- MODULE DirBlockProofs ---------------------------
(***************************************************************************)
(* What DirBlock's code relies on holds for every directory image, block   *)
(* size, name length and memory size: TypeOK, ListIsChain, ShiftMovesDown, *)
(* SurvivorsKept and DotStays are invariants of Spec.                      *)
(***************************************************************************)
EXTENDS DirBlock, TLAPS

\* No word claims a longer text than the longest.
TextBounded(w) == w.nl <= TextWords

\* A cell's words are an inode, a header and the text the header claims.
CellsWellFormed ==
  \A i \in DOMAIN list :
    /\ Len(list[i].words) >= 2
    /\ Len(list[i].words) = 2 + TextLen(list[i])
    /\ \A k \in DOMAIN list[i].words : TextBounded(list[i].words[k])

BlockBounded == \A p \in Span : TextBounded(block[p])

\* Reading: the two counters agree, and are where the last cell says.
CursorAgrees ==
  pc = "read" =>
    /\ at = sentinel
    /\ sentinel < BlockWords
    /\ list = <<>> => sentinel = 0
    /\ list # <<>> =>
         sentinel = list[Len(list)].off + RecLen(list[Len(list)])
    /\ \A i \in DOMAIN list : list[i].off + RecLen(list[i]) <= sentinel

\* What a command leaves to the next one.
Idle ==
  /\ pc \in {"prompt", "read", "find"} => victim = 0 /\ next = 0
  /\ pc = "prompt" => list = <<>> /\ at = 0 /\ sentinel = 0

\* Entries move to where they leave "." alone.
BeyondDot == pc = "shift" => at >= 3 /\ victim \in DOMAIN list

IInv ==
  /\ TypeOK /\ BlockBounded /\ CellsWellFormed /\ Idle /\ CursorAgrees
  /\ CellsChain /\ ListIsFaithful /\ ListIsOrdered
  /\ BeyondDot /\ ShiftMovesDown /\ SurvivorsKept /\ DotStays

-----------------------------------------------------------------------------
(* Cells and the words they are read from.                                 *)

\* A cell of the list, its lengths and its words, have the types they seem to.
LEMMA CellType ==
  ASSUME TypeOK, CellsWellFormed, NEW i \in DOMAIN list
  PROVE  /\ list[i] \in Cell
         /\ list[i].off \in Nat
         /\ list[i].words \in Seq(Word)
         /\ RecLen(list[i]) \in Nat
         /\ TextLen(list[i]) \in 0 .. TextWords
         /\ DOMAIN list[i].words = 1 .. 2 + TextLen(list[i])
  <1>1. list[i] \in Cell
    BY DEF TypeOK
  <1>2. list[i].off \in Nat /\ list[i].words \in Seq(Word)
    BY <1>1 DEF Cell
  <1>3. Len(list[i].words) = 2 + TextLen(list[i])
    BY DEF CellsWellFormed
  <1>4. DOMAIN list[i].words = 1 .. Len(list[i].words)
        /\ Len(list[i].words) \in Nat
    BY <1>2
  <1>5. list[i].words[2] \in Word /\ TextBounded(list[i].words[2])
    <2>1. 2 \in DOMAIN list[i].words
      BY <1>4 DEF CellsWellFormed
    <2> QED
      BY <2>1, <1>2 DEF CellsWellFormed
  <1> QED
    BY <1>1, <1>2, <1>3, <1>4, <1>5, SizeAssumption
       DEF RecLen, TextLen, TextBounded, Word

\* What is read at a place in the block is a cell, whatever lies there.
LEMMA EntryType ==
  ASSUME block \in [Span -> Word], BlockBounded,
         NEW p \in 0 .. BlockWords - 1, NEW o \in Nat
  PROVE  LET e == [off |-> o, words |-> EntryAt(block, p)]
         IN  /\ e \in Cell
             /\ RecLen(e) = block[p + 1].len /\ RecLen(e) \in Nat
             /\ TextLen(e) = block[p + 1].nl /\ TextLen(e) \in 0 .. TextWords
             /\ DOMAIN e.words = 1 .. 2 + TextLen(e)
             /\ Len(e.words) = 2 + TextLen(e)
             /\ \A k \in DOMAIN e.words : TextBounded(e.words[k])
  <1> DEFINE e == [off |-> o, words |-> EntryAt(block, p)]
             n == block[p + 1].nl
  <1>1. p \in Span /\ p + 1 \in Span
    BY SizeAssumption DEF Span
  <1>2. /\ block[p + 1] \in Word
        /\ n \in 0 .. TextWords
    BY <1>1, SizeAssumption DEF BlockBounded, TextBounded, Word
  <1>3. \A k \in 1 .. 2 + n : p + k - 1 \in Span
    BY <1>2, SizeAssumption DEF Span
  <1>4. EntryAt(block, p) = [k \in 1 .. 2 + n |-> block[p + k - 1]]
    BY DEF EntryAt
  <1>5. \A k \in 1 .. 2 + n : block[p + k - 1] \in Word
    BY <1>3
  <1>6. /\ EntryAt(block, p) \in Seq(Word)
        /\ Len(EntryAt(block, p)) = 2 + n
        /\ DOMAIN EntryAt(block, p) = 1 .. 2 + n
    <2> HIDE DEF n
    <2> QED
      BY <1>2, <1>4, <1>5, SizeAssumption
  <1>7. EntryAt(block, p)[2] = block[p + 1]
    BY <1>2, <1>4, SizeAssumption
  <1>8. \A k \in 1 .. 2 + n : TextBounded(EntryAt(block, p)[k])
    BY <1>3, <1>4 DEF BlockBounded
  <1>9. RecLen(e) = block[p + 1].len /\ TextLen(e) = n
    BY <1>7 DEF RecLen, TextLen
  <1>10. RecLen(e) \in Nat
    BY <1>2, <1>9 DEF Word
  <1> QED
    BY <1>2, <1>6, <1>8, <1>9, <1>10 DEF Cell

-----------------------------------------------------------------------------
(* The invariant holds at the start and every step keeps it.               *)

\* Every image a session may mount satisfies the invariant.
LEMMA InitIInv == Init => IInv
  <1> SUFFICES ASSUME Init PROVE IInv
    OBVIOUS
  <1>1. PICK i \in Images : block = i.block /\ bitmap = i.used /\ inodes = i.used
    BY DEF Init
  <1>2. BlockBounded /\ DotStays /\ block \in [Span -> Word]
    BY <1>1, ImageAssumption DEF BlockBounded, TextBounded, DotStays
  <1>3. bitmap \subseteq Inode /\ inodes \subseteq Inode
    BY <1>1, ImageAssumption
  <1>4. TypeOK
    BY <1>2, <1>3, SizeAssumption DEF Init, TypeOK, Phases
  <1>5. DOMAIN list = {} /\ pc = "prompt"
    BY DEF Init
  <1> QED
    BY <1>2, <1>4, <1>5
       DEF Init, IInv, CellsWellFormed, Idle, CursorAgrees, CellsChain,
           ListIsFaithful, ListIsOrdered, BeyondDot, ShiftMovesDown,
           SurvivorsKept

\* Typing a command starts the reading at offset 0 with an empty list.
LEMMA TypeCommandIInv ==
  ASSUME IInv, NEW n \in Removable \cup {NoName}, TypeCommand(n)
  PROVE  IInv'
  <1> USE DEF TypeCommand, disk
  <1>1. list = <<>> /\ at = 0 /\ sentinel = 0 /\ DOMAIN list = {}
    BY DEF IInv, Idle
  <1>2. TypeOK'
    BY NameAssumption DEF IInv, TypeOK, Phases
  <1>3. CursorAgrees'
    BY <1>1, SizeAssumption DEF CursorAgrees
  <1>4. Idle'
    BY DEF IInv, Idle
  <1>5. BlockBounded' /\ CellsWellFormed' /\ DotStays'
    BY DEF IInv, BlockBounded, CellsWellFormed, DotStays, TextLen
  <1>6. CellsChain' /\ ListIsOrdered'
    BY <1>1 DEF CellsChain, ListIsOrdered
  <1>7. ListIsFaithful'
    BY <1>1 DEF ListIsFaithful
  <1>8. BeyondDot' /\ ShiftMovesDown' /\ SurvivorsKept'
    BY DEF BeyondDot, ShiftMovesDown, SurvivorsKept
  <1> QED
    BY <1>2, <1>3, <1>4, <1>5, <1>6, <1>7, <1>8 DEF IInv

\* Reading an entry lengthens the chain by the cell found where it ended.
LEMMA ReadEntryIInv == ASSUME IInv, ReadEntry PROVE IInv'
  <1> DEFINE e == [off |-> sentinel, words |-> EntryAt(block, at)]
             n == Len(list)
  <1>1. /\ pc = "read" /\ at = sentinel /\ sentinel \in 0 .. BlockWords - 1
        /\ list = <<>> => sentinel = 0
        /\ list # <<>> => sentinel = list[n].off + RecLen(list[n])
        /\ \A i \in DOMAIN list : list[i].off + RecLen(list[i]) <= sentinel
        /\ victim = 0 /\ next = 0
    BY SizeAssumption DEF IInv, ReadEntry, CursorAgrees, TypeOK, Idle
  <1>2. /\ list' = Append(list, e)
        /\ sentinel' = sentinel + RecLen(e)
        /\ \/ sentinel' >= BlockWords /\ pc' = "find"
              /\ at' = at + 2 + TextLen(e)
           \/ ~ (sentinel' >= BlockWords) /\ pc' = "read" /\ at' = at + RecLen(e)
        /\ UNCHANGED <<block, bitmap, inodes, dirSize, target, victim, next>>
    BY DEF ReadEntry, EntryHere, Past, Following, disk
  <1>3. /\ e \in Cell
        /\ RecLen(e) \in Nat
        /\ TextLen(e) \in Nat
        /\ DOMAIN e.words = 1 .. 2 + TextLen(e)
        /\ Len(e.words) = 2 + TextLen(e)
        /\ \A k \in DOMAIN e.words : TextBounded(e.words[k])
    BY <1>1, EntryType, SizeAssumption DEF IInv, TypeOK
  <1>4. e.off = sentinel /\ e.words = EntryAt(block, sentinel)
    BY <1>1
  <1> HIDE DEF e
  <1>5. /\ list \in Seq(Cell) /\ n \in Nat /\ DOMAIN list = 1 .. n
        /\ list' \in Seq(Cell) /\ Len(list') = n + 1
        /\ DOMAIN list' = 1 .. n + 1
        /\ list'[n + 1] = e
        /\ \A i \in 1 .. n : list'[i] = list[i]
        /\ \A i \in 1 .. n + 1 : i \in 1 .. n \/ i = n + 1
        /\ list = <<>> <=> n = 0
        /\ list' # <<>>
    BY SMTT(20), <1>2, <1>3 DEF IInv, TypeOK
  <1>6. \A i \in 1 .. n : list[i].off \in Nat /\ RecLen(list[i]) \in Nat
    BY CellType, <1>5 DEF IInv
  <1>7. TypeOK'
    BY <1>1, <1>2, <1>3, <1>5 DEF IInv, TypeOK, Phases
  <1>8. CellsWellFormed'
    <2> DEFINE Good(c) == /\ Len(c.words) >= 2
                          /\ Len(c.words) = 2 + TextLen(c)
                          /\ \A k \in DOMAIN c.words : TextBounded(c.words[k])
    <2>1. \A i \in 1 .. n : Good(list[i])
      BY <1>5 DEF IInv, CellsWellFormed
    <2>2. Good(e)
      BY <1>3
    <2>3. \A i \in 1 .. n + 1 : Good(list'[i])
      <3> HIDE DEF Good
      <3> QED
        BY <2>1, <2>2, <1>5
    <2> QED
      BY <2>3, <1>5 DEF CellsWellFormed, TextLen, TextBounded
  <1>9. CursorAgrees'
    <2>1. list'[n + 1].off + RecLen(list'[n + 1]) = sentinel'
      BY <1>2, <1>4, <1>5
    <2>2. \A i \in 1 .. n + 1 : list'[i].off + RecLen(list'[i]) <= sentinel'
      <3>1. sentinel \in Nat /\ sentinel' \in Nat /\ sentinel <= sentinel'
        BY <1>1, <1>2, <1>3
      <3>2. \A i \in 1 .. n : list'[i].off + RecLen(list'[i]) <= sentinel
        BY <1>1, <1>5
      <3> QED
        BY <2>1, <3>1, <3>2, <1>5, <1>6
    <2>3. pc' = "read" => at' = sentinel' /\ sentinel' < BlockWords
      BY <1>1, <1>2, <1>3, SizeAssumption
    <2> QED
      BY <2>1, <2>2, <2>3, <1>5 DEF CursorAgrees, RecLen
  <1>10. CellsChain'
    <2>1. \A i \in 1 .. n + 1 : list'[i].off < BlockWords
      <3>1. \A i \in 1 .. n : list[i].off < BlockWords
        BY <1>5 DEF IInv, CellsChain
      <3>2. e.off < BlockWords
        BY <1>1, <1>4, SizeAssumption
      <3> QED
        BY <3>1, <3>2, <1>5
    <2>2. list'[1].off = 0
      BY <1>1, <1>4, <1>5 DEF IInv, CellsChain
    <2>3. ASSUME NEW i \in 1 .. n + 1, i > 1
          PROVE  list'[i].off = list'[i - 1].off + RecLen(list'[i - 1])
      <3>1. CASE i = n + 1
        BY <3>1, <2>3, <1>1, <1>4, <1>5
      <3>2. CASE i \in 1 .. n
        <4>1. i - 1 \in 1 .. n
          BY <3>2, <2>3
        <4> QED
          BY <4>1, <3>2, <2>3, <1>5 DEF IInv, CellsChain
      <3> QED
        BY <3>1, <3>2, <1>5
    <2> QED
      BY <2>1, <2>2, <2>3, <1>5 DEF CellsChain, RecLen
  <1>11. ListIsOrdered'
    BY <1>1, <1>4, <1>5 DEF IInv, ListIsOrdered, RecLen
  <1>12. ListIsFaithful'
    <2>1. \A i \in 1 .. n : list[i].words = EntryAt(block, list[i].off)
      BY <1>1, <1>5 DEF IInv, ListIsFaithful
    <2>2. \A i \in 1 .. n + 1 : list'[i].words = EntryAt(block, list'[i].off)
      BY <2>1, <1>4, <1>5
    <2> QED
      BY <2>2, <1>2, <1>5 DEF ListIsFaithful
  <1>13. BlockBounded' /\ DotStays'
    BY <1>2 DEF IInv, BlockBounded, DotStays
  <1>14. Idle' /\ BeyondDot' /\ ShiftMovesDown' /\ SurvivorsKept'
    BY <1>1, <1>2 DEF Idle, BeyondDot, ShiftMovesDown, SurvivorsKept
  <1> QED
    BY <1>7, <1>8, <1>9, <1>10, <1>11, <1>12, <1>13, <1>14 DEF IInv

\* A step that moves on to a phase without cells to write keeps the invariant.
LEMMA PhaseIInv ==
  ASSUME IInv, pc \in {"read", "find"}, pc' \in {"find", "free", "exit", "crash"},
         UNCHANGED <<block, bitmap, inodes, dirSize, target, list, at, sentinel,
                     victim, next>>,
         pc' = "find" => pc = "read"
  PROVE  IInv'
  <1>1. victim = 0
    BY DEF IInv, Idle
  <1>2. TypeOK'
    BY DEF IInv, TypeOK, Phases, Cell, Word
  <1>3. BlockBounded' /\ DotStays'
    BY DEF IInv, BlockBounded, DotStays
  <1>4. CellsWellFormed'
    BY DEF IInv, CellsWellFormed, TextLen
  <1>5. Idle' /\ CursorAgrees' /\ BeyondDot'
    BY DEF IInv, Idle, CursorAgrees, BeyondDot
  <1>6. CellsChain' /\ ListIsOrdered'
    BY DEF IInv, CellsChain, ListIsOrdered, RecLen
  <1>7. ListIsFaithful'
    BY DEF IInv, ListIsFaithful
  <1>8. ShiftMovesDown' /\ SurvivorsKept'
    BY <1>1 DEF ShiftMovesDown, SurvivorsKept
  <1> QED
    BY <1>2, <1>3, <1>4, <1>5, <1>6, <1>7, <1>8 DEF IInv

\* Back at the prompt nothing is left of the command but the block.
LEMMA FreeListIInv == ASSUME IInv, FreeList PROVE IInv'
  <1> USE DEF FreeList, disk
  <1>1. list' = <<>> /\ DOMAIN list' = {} /\ pc' = "prompt"
    OBVIOUS
  <1>2. TypeOK'
    BY DEF IInv, TypeOK, Phases
  <1>3. BlockBounded' /\ DotStays'
    BY DEF IInv, BlockBounded, DotStays
  <1>4. CellsWellFormed' /\ ListIsFaithful' /\ ListIsOrdered' /\ CellsChain'
    BY <1>1 DEF CellsWellFormed, ListIsFaithful, ListIsOrdered, CellsChain
  <1>5. Idle' /\ CursorAgrees' /\ BeyondDot' /\ ShiftMovesDown' /\ SurvivorsKept'
    BY DEF Idle, CursorAgrees, BeyondDot, ShiftMovesDown, SurvivorsKept
  <1> QED
    BY <1>2, <1>3, <1>4, <1>5 DEF IInv

-----------------------------------------------------------------------------
(* Deleting a file.                                                        *)

\* The entry that is deleted is not ".", so it begins past ".".
LEMMA VictimPastDot ==
  ASSUME IInv, pc = "find", NEW v \in DOMAIN list, Type(list[v]) = DIR_FT_FILE
  PROVE  v > 1 /\ list[v].off >= 3
  <1>1. list \in Seq(Cell) /\ Len(list) \in Nat /\ DOMAIN list = 1 .. Len(list)
        /\ v \in 1 .. Len(list) /\ 1 \in DOMAIN list
    BY DEF IInv, TypeOK
  <1>2. list[1].off = 0 /\ list[1].words = EntryAt(block, 0)
    BY <1>1 DEF IInv, CellsChain, ListIsFaithful
  <1>3. list[1].words[2] = block[1]
    <2>1. block[0 + 1].nl = 1
      BY DEF IInv, DotStays, IsDot
    <2>2. EntryAt(block, 0) = [k \in 1 .. 3 |-> block[0 + k - 1]]
      BY <2>1 DEF EntryAt
    <2>3. EntryAt(block, 0)[2] = block[0 + 2 - 1]
      BY <2>2
    <2> QED
      BY <2>3, <1>2
  <1>4. Type(list[1]) = DIR_FT_DIR /\ RecLen(list[1]) >= 3
    BY <1>3 DEF IInv, DotStays, IsDot, Type, RecLen
  <1>5. v # 1
    BY <1>4 DEF DIR_FT_FILE, DIR_FT_DIR
  <1>6. list[1].off + RecLen(list[1]) <= list[v].off
    BY <1>1, <1>5 DEF IInv, ListIsOrdered
  <1>7. RecLen(list[1]) \in Nat /\ list[v].off \in Nat
    BY <1>1, CellType DEF IInv
  <1> QED
    BY <1>1, <1>2, <1>4, <1>5, <1>6, <1>7

\* Arithmetic on size_lo stays within its 32 bits.
LEMMA WrappedRange ==
  ASSUME NEW n \in Int
  PROVE  Wrapped(n) \in -SizeHalf .. SizeHalf - 1
  <1> DEFINE m == 2 * SizeHalf
  <1>1. SizeHalf \in Nat /\ m \in Nat \ {0}
    BY SizeAssumption
  <1>2. (n + SizeHalf) % m \in 0 .. m - 1
    <2> HIDE DEF m
    <2> QED  BY <1>1
  <1> QED
    BY <1>1, <1>2 DEF Wrapped

\* After the deletion proper the entries before the deleted one are untouched,
\* and the cursor is its length short of the entry to move first.
LEMMA DeleteFileIInv ==
  ASSUME IInv, NEW v \in DOMAIN list, DeleteFile(v)
  PROVE  IInv'
  <1> DEFINE n == Len(list)
  <1>1. /\ pc = "find" /\ Type(list[v]) = DIR_FT_FILE
        /\ bitmap' \subseteq bitmap /\ inodes' \subseteq inodes
        /\ dirSize' = Wrapped(dirSize - (1 + RecLen(list[v])))
        /\ victim' = v /\ next' = v + 1
        /\ at' = list[v].off
        /\ \/ v = n /\ block' = [block EXCEPT ![list[v].off] = Zero] /\ pc' = "free"
           \/ v # n /\ block' = block /\ pc' = "shift"
        /\ UNCHANGED <<target, list, sentinel>>
    BY DEF DeleteFile, Released, SizeWithout, CursorOf
  <1>2. /\ list \in Seq(Cell) /\ n \in Nat /\ DOMAIN list = 1 .. n
        /\ v \in 1 .. n
    BY DEF IInv, TypeOK
  <1>3. /\ v > 1 /\ list[v].off >= 3
        /\ list[v].off \in Nat /\ RecLen(list[v]) \in Nat
        /\ list[v].off < BlockWords
    BY <1>1, VictimPastDot, CellType DEF IInv, CellsChain
  <1>4. list[v].off \in Span
    BY <1>3, SizeAssumption DEF Span
  <1>5. TypeOK'
    <2>1. Zero \in Word
      BY DEF Zero, Word
    <2>2. block' \in [Span -> Word]
      BY <1>1, <1>4, <2>1 DEF IInv, TypeOK
    <2>3. dirSize' \in -SizeHalf .. SizeHalf - 1
      BY SMTT(20), <1>1, <1>3, WrappedRange DEF IInv, TypeOK
    <2> QED
      BY <1>1, <1>2, <1>3, <2>2, <2>3 DEF IInv, TypeOK, Phases
  <1>6. BlockBounded'
    BY <1>1, <1>4, SizeAssumption
       DEF IInv, TypeOK, BlockBounded, TextBounded, Zero
  <1>7. DotStays'
    <2>1. 0 \in Span /\ 1 \in Span /\ 0 # list[v].off /\ 1 # list[v].off
      BY <1>3, SizeAssumption DEF Span
    <2>2. block'[0] = block[0] /\ block'[1] = block[1]
      BY <2>1, <1>1 DEF IInv, TypeOK
    <2> QED
      BY <2>2 DEF IInv, DotStays, IsDot
  <1>8. CellsWellFormed' /\ CellsChain' /\ ListIsOrdered'
    BY <1>1 DEF IInv, CellsWellFormed, CellsChain, ListIsOrdered, RecLen, TextLen
  <1>9. Idle' /\ CursorAgrees' /\ ListIsFaithful'
    BY <1>1 DEF Idle, CursorAgrees, ListIsFaithful
  <1>10. BeyondDot'
    BY <1>1, <1>3 DEF BeyondDot
  <1>11. ShiftMovesDown'
    <2> SUFFICES ASSUME v # n PROVE at' + RecLen(list[v]) = list[v + 1].off
      BY <1>1, <1>2 DEF ShiftMovesDown, RecLen
    <2> DEFINE w == v + 1
    <2>1. w \in DOMAIN list /\ w > 1 /\ w - 1 = v
      BY <1>2
    <2>2. \A i \in DOMAIN list : i > 1 =>
            list[i].off = list[i - 1].off + RecLen(list[i - 1])
      BY DEF IInv, CellsChain
    <2>3. list[w].off = list[v].off + RecLen(list[v])
      <3> HIDE DEF w
      <3> QED
        BY <2>1, <2>2
    <2> QED
      BY <2>1, <2>3, <1>1
  <1>12. SurvivorsKept'
    <2> SUFFICES ASSUME NEW j \in 1 .. n, j < v, 2 + TextLen(list[j]) <= RecLen(list[j]),
                        NEW k \in DOMAIN list[j].words
                 PROVE  block'[list[j].off + k - 1] = list[j].words[k]
      BY <1>1, <1>2 DEF SurvivorsKept, NewOff, IsWhole, RecLen, TextLen
    <2>1. /\ list[j].off \in Nat /\ RecLen(list[j]) \in Nat
          /\ TextLen(list[j]) \in Nat
          /\ k \in 1 .. 2 + TextLen(list[j])
      <3>1. TypeOK /\ CellsWellFormed /\ j \in DOMAIN list
        BY <1>2 DEF IInv
      <3>2. /\ list[j].off \in Nat /\ RecLen(list[j]) \in Nat
            /\ TextLen(list[j]) \in 0 .. TextWords
            /\ DOMAIN list[j].words = 1 .. 2 + TextLen(list[j])
        BY ONLY <3>1, CellType
      <3>3. TextLen(list[j]) \in Nat
        BY <3>2, SizeAssumption
      <3> QED
        BY <3>2, <3>3
    <2>2. list[j].words[k] = block[list[j].off + k - 1]
      <3>1. list[j].words = EntryAt(block, list[j].off)
        BY <1>1, <1>2 DEF IInv, ListIsFaithful
      <3>2. list[j].words
              = [x \in 1 .. 2 + block[list[j].off + 1].nl |->
                   block[list[j].off + x - 1]]
        BY <3>1 DEF EntryAt
      <3> HIDE <3>1
      <3> QED
        BY <3>2
    <2>3. list[j].off + RecLen(list[j]) <= list[v].off
      BY <1>2 DEF IInv, ListIsOrdered
    <2>4. list[j].off + k - 1 < list[v].off /\ list[j].off + k - 1 \in Span
      <3>1. k - 1 < RecLen(list[j]) /\ k - 1 \in Nat
        BY <2>1
      <3>2. list[j].off + k - 1 < list[v].off /\ list[j].off + k - 1 \in Nat
        <4>1. \A o, r, b \in Nat :
                k - 1 < r /\ o + r <= b => o + k - 1 < b /\ o + k - 1 \in Nat
          BY SMTT(20), <3>1, <2>1
        <4> QED
          BY <4>1, <3>1, <2>1, <2>3, <1>3
      <3> QED
        BY <3>2, <1>3, SizeAssumption DEF Span
    <2> QED
      BY <2>2, <2>4, <1>1, <1>3, <1>4 DEF IInv, TypeOK
  <1> QED
    BY <1>5, <1>6, <1>7, <1>8, <1>9, <1>10, <1>11, <1>12 DEF IInv

\* Moving an entry down writes between the entries moved before it and the
\* ones still to move; the distance the cursor is behind stays the same.
LEMMA ShiftEntryIInv == ASSUME IInv, ShiftEntry PROVE IInv'
  <1> DEFINE n == Len(list)
             e == list[next]
             l == RecLen(list[victim])
  <1>1. /\ pc = "shift"
        /\ block' = Overwrite(block, at, e.words)
        /\ \/ at' = at + RecLen(e) /\ pc' = IF next = n THEN "free" ELSE "shift"
           \/ at' = at /\ pc' = "exit"
        /\ next' = next + 1
        /\ UNCHANGED <<bitmap, inodes, dirSize, target, list, sentinel, victim>>
    BY DEF ShiftEntry, Written, AfterMove
  <1>2. /\ list \in Seq(Cell) /\ n \in Nat /\ DOMAIN list = 1 .. n
        /\ victim \in 1 .. n /\ next \in 1 .. n /\ victim < next
        /\ at + l = e.off /\ at \in Nat /\ at >= 3
    BY <1>1 DEF IInv, TypeOK, BeyondDot, ShiftMovesDown
  <1>3. /\ e.off \in Nat /\ e.off < BlockWords
        /\ e.words \in Seq(Word)
        /\ RecLen(e) \in Nat
        /\ TextLen(e) \in 0 .. TextWords
        /\ DOMAIN e.words = 1 .. 2 + TextLen(e)
        /\ \A k \in DOMAIN e.words : TextBounded(e.words[k])
        /\ l \in Nat
    BY <1>2, CellType DEF IInv, CellsChain, CellsWellFormed
  <1>0. /\ n \in Nat /\ victim \in Nat /\ next \in Nat /\ DOMAIN list = 1 .. n
        /\ 1 <= victim /\ victim < next /\ next <= n
    BY <1>2
  <1> HIDE DEF n, e, l
  <1>4. at \in 0 .. BlockWords - 1
    BY <1>2, <1>3, SizeAssumption
  <1>5. /\ block' = [q \in Span |-> IF q - at + 1 \in 1 .. 2 + TextLen(e)
                                      THEN e.words[q - at + 1] ELSE block[q]]
        /\ block \in [Span -> Word]
    BY <1>1, <1>3 DEF Overwrite, IInv, TypeOK
  <1>6. block' \in [Span -> Word]
    BY <1>3, <1>5
  <1>7. TypeOK'
    <2>1. at' \in Nat /\ victim' \in 0 .. n /\ next' \in 0 .. n + 1
      BY <1>0, <1>1, <1>2, <1>3
    <2> QED
      BY <2>1, <1>1, <1>6 DEF IInv, TypeOK, Phases, n
  <1>8. BlockBounded'
    <2> SUFFICES ASSUME NEW q \in Span PROVE TextBounded(block'[q])
      BY DEF BlockBounded
    <2>1. CASE q - at + 1 \in 1 .. 2 + TextLen(e)
      BY <2>1, <1>3, <1>5
    <2>2. CASE q - at + 1 \notin 1 .. 2 + TextLen(e)
      BY <2>2, <1>5 DEF IInv, BlockBounded
    <2> QED
      BY <2>1, <2>2
  <1>9. DotStays'
    <2>1. 0 \in Span /\ 1 \in Span
      BY SizeAssumption DEF Span
    <2>2. 0 - at + 1 \notin 1 .. 2 + TextLen(e) /\ 1 - at + 1 \notin 1 .. 2 + TextLen(e)
      BY <1>2, <1>3
    <2>3. block'[0] = block[0] /\ block'[1] = block[1]
      BY <2>1, <2>2, <1>5
    <2> QED
      BY <2>3 DEF IInv, DotStays, IsDot
  <1>10. CellsWellFormed' /\ CellsChain' /\ ListIsOrdered'
    BY <1>1 DEF IInv, CellsWellFormed, CellsChain, ListIsOrdered, RecLen, TextLen
  <1>11. Idle' /\ CursorAgrees' /\ ListIsFaithful'
    BY <1>1 DEF Idle, CursorAgrees, ListIsFaithful
  <1>12. BeyondDot'
    <2>1. at' >= 3
      BY <1>1, <1>2, <1>3
    <2> QED
      BY <2>1, <1>0, <1>1 DEF BeyondDot
  <1>13. ShiftMovesDown'
    <2> SUFFICES ASSUME next # n, at' = at + RecLen(e)
                 PROVE  /\ victim < next + 1 /\ next + 1 <= n
                        /\ at' + l = list[next + 1].off
      BY <1>0, <1>1 DEF ShiftMovesDown, RecLen, n, l
    <2> DEFINE w == next + 1
    <2>1. w \in DOMAIN list /\ w > 1 /\ w - 1 = next
      BY <1>0
    <2>2. \A i \in DOMAIN list : i > 1 =>
            list[i].off = list[i - 1].off + RecLen(list[i - 1])
      BY DEF IInv, CellsChain
    <2>3. list[w].off = e.off + RecLen(e)
      <3> HIDE DEF w
      <3> QED
        BY <2>1, <2>2 DEF e
    <2> QED
      BY <2>3, <1>0, <1>1, <1>2, <1>3
  <1>14. SurvivorsKept'
    <2> SUFFICES ASSUME NEW j \in 1 .. n, j # victim, j < next + 1, IsWhole(j),
                        NEW k \in DOMAIN list[j].words
                 PROVE  block'[NewOff(j) + k - 1] = list[j].words[k]
      BY <1>0, <1>1 DEF SurvivorsKept, NewOff, IsWhole, RecLen, TextLen
    <2>1. /\ list[j].off \in Nat /\ RecLen(list[j]) \in Nat
          /\ list[j].off < BlockWords
          /\ TextLen(list[j]) \in 0 .. TextWords
          /\ k \in 1 .. 2 + TextLen(list[j])
      BY <1>0, CellType, SizeAssumption DEF IInv, CellsChain
    <2>2. CASE j = next
      <3>1. NewOff(j) = at
        <4>1. NewOff(j) = e.off - l
          BY <2>2, <1>0 DEF NewOff, e, l
        <4> QED
          BY <4>1, <1>2, <1>3
      <3>2. at + k - 1 \in Span /\ at + k - 1 - at + 1 = k
        BY <2>1, <1>4, SizeAssumption DEF Span
      <3>3. block'[at + k - 1] = e.words[k]
        <4> DEFINE q == at + k - 1
        <4>0. q \in Span /\ q - at + 1 = k
          BY <3>2, <2>1, <1>4
        <4> HIDE DEF q
        <4>1. k \in 1 .. 2 + TextLen(e)
          BY <2>1, <2>2 DEF e
        <4>2. block'[q] = e.words[k]
          BY <4>0, <4>1, <1>5
        <4> QED
          BY <4>2 DEF q
      <3> QED
        BY <3>1, <3>3, <2>2 DEF e
    <2>3. CASE j < next
      <3>1. 2 + TextLen(list[j]) <= RecLen(list[j])
        BY <2>3, <1>0 DEF IsWhole, n
      <3>2. NewOff(j) \in Nat /\ NewOff(j) + RecLen(list[j]) <= at
        <4>1. CASE j < victim
          <5>1. list[j].off + RecLen(list[j]) <= list[victim].off
            BY <4>1, <1>0 DEF IInv, ListIsOrdered, e, l
          <5>2. list[victim].off + l <= e.off
            BY <1>0 DEF IInv, ListIsOrdered, e, l
          <5>3. list[victim].off \in Nat
            BY <1>0, CellType DEF IInv
          <5> QED
            <6>1. NewOff(j) = list[j].off
              BY <4>1 DEF NewOff
            <6> QED
              BY SMTT(20), <6>1, <5>1, <5>2, <5>3, <2>1, <1>2, <1>3
        <4>2. CASE victim < j
          <5>1. list[j].off + RecLen(list[j]) <= e.off
            BY <2>3, <1>0 DEF IInv, ListIsOrdered, e, l
          <5>2. list[victim].off + l <= list[j].off
            BY <4>2, <1>0 DEF IInv, ListIsOrdered, e, l
          <5>3. list[victim].off \in Nat
            BY <1>0, CellType DEF IInv
          <5> QED
            <6>1. NewOff(j) = list[j].off - l
              BY <4>2, <1>0 DEF NewOff, l
            <6>2. list[j].off - l \in Nat
              <7>1. \A a, b, c \in Nat : b + c <= a => a - c \in Nat
                OBVIOUS
              <7> QED
                BY <7>1, <5>2, <5>3, <2>1, <1>3
            <6>3. list[j].off - l + RecLen(list[j]) <= e.off - l
              BY SMTT(20), <5>1, <2>1, <1>3
            <6>4. e.off - l = at
              BY <1>2, <1>3
            <6> QED
              BY <6>1, <6>2, <6>3, <6>4
        <4> QED
          BY <4>1, <4>2, <1>0
      <3>3. block[NewOff(j) + k - 1] = list[j].words[k]
        BY <2>3, <1>0, <1>1 DEF IInv, SurvivorsKept
      <3> DEFINE q == NewOff(j) + k - 1
      <3>4. q \in Nat /\ q < at
        <4>1. \A o, r, b \in Nat : 2 + TextLen(list[j]) <= r /\ o + r <= b =>
                o + k - 1 < b /\ o + k - 1 \in Nat
          BY <2>1, SizeAssumption
        <4> QED
          BY <4>1, <3>1, <3>2, <2>1, <1>2
      <3>5. q \in Span /\ q - at + 1 \notin 1 .. 2 + TextLen(e)
        BY <3>4, <1>4, SizeAssumption DEF Span
      <3> HIDE DEF q
      <3>6. block'[q] = block[q]
        BY <3>5, <1>5
      <3> QED
        BY <3>3, <3>6 DEF q
    <2> QED
      BY <2>2, <2>3, <1>0
  <1> QED
    BY <1>7, <1>8, <1>9, <1>10, <1>11, <1>12, <1>13, <1>14 DEF IInv

-----------------------------------------------------------------------------
(* The theorems.                                                           *)

\* Every step of a command, and every command typed, keeps the invariant.
LEMMA NextIInv == IInv /\ [Next]_vars => IInv'
  <1> SUFFICES ASSUME IInv, [Next]_vars PROVE IInv'
    OBVIOUS
  <1>1. CASE \E n \in Removable \cup {NoName} : TypeCommand(n)
    BY <1>1, TypeCommandIInv
  <1>2. CASE ReadEntry
    BY <1>2, ReadEntryIInv
  <1>3. CASE EndOfList
    <2>1. pc = "read" /\ pc' \in {"find", "crash"}
      BY <1>3 DEF EndOfList
    <2> QED
      BY <2>1, <1>3, PhaseIInv DEF EndOfList, disk
  <1>4. CASE OutOfMemory \/ ReadFatal
    BY <1>4, PhaseIInv DEF OutOfMemory, ReadFatal, disk
  <1>5. CASE Refuse
    BY <1>5, PhaseIInv DEF Refuse, disk
  <1>6. CASE \E v \in DOMAIN list : DeleteFile(v)
    BY <1>6, DeleteFileIInv
  <1>7. CASE \E v \in DOMAIN list : DeleteNowhere(v)
    BY <1>7, PhaseIInv DEF DeleteNowhere, disk
  <1>8. CASE ShiftEntry
    BY <1>8, ShiftEntryIInv
  <1>9. CASE FreeList
    BY <1>9, FreeListIInv
  <1>10. CASE UNCHANGED vars
    BY <1>10
       DEF vars, disk, IInv, TypeOK, BlockBounded, CellsWellFormed, Idle,
           CursorAgrees, CellsChain, ListIsFaithful, ListIsOrdered, BeyondDot,
           ShiftMovesDown, SurvivorsKept, NewOff, IsWhole, DotStays, RecLen,
           TextLen
  <1> QED
    BY <1>1, <1>2, <1>3, <1>4, <1>5, <1>6, <1>7, <1>8, <1>9, <1>10
       DEF Next, Step

\* The invariant holds in every reachable state.
THEOREM Invariance == Spec => []IInv
  BY InitIInv, NextIInv, PTL DEF Spec

\* Every variable keeps its type: no command, on any image, reads or writes a
\* word outside the block and the text that may run past its end.
THEOREM TypeCorrect == Spec => []TypeOK
  <1>1. IInv => TypeOK
    BY DEF IInv
  <1> QED
    BY <1>1, Invariance, PTL

\* dirReadLinkedList: the running offset and the disk cursor agree, and each
\* cell lies where the one before it says.
THEOREM ChainRead == Spec => [](ListIsChain /\ ListIsFaithful)
  <1>1. IInv => ListIsChain /\ ListIsFaithful
    BY DEF IInv, CursorAgrees, ListIsChain
  <1> QED
    BY <1>1, Invariance, PTL

\* bgDeleteFile: the distance over which entries move is the deleted length.
THEOREM MovesByVictim == Spec => []ShiftMovesDown
  <1>1. IInv => ShiftMovesDown
    BY DEF IInv
  <1> QED
    BY <1>1, Invariance, PTL

\* bgDeleteFile: no whole entry but the deleted one is lost or damaged.
THEOREM KeepsSurvivors == Spec => []SurvivorsKept
  <1>1. IInv => SurvivorsKept
    BY DEF IInv
  <1> QED
    BY <1>1, Invariance, PTL

\* The directory's own entry outlives every rm.
THEOREM KeepsDot == Spec => []DotStays
  <1>1. IInv => DotStays
    BY DEF IInv
  <1> QED
    BY <1>1, Invariance, PTL

\* Until rm writes, each cell holds the words that lie in the block.
THEOREM ReadFaithfully == Spec => []ListIsFaithful
  <1>1. IInv => ListIsFaithful
    BY DEF IInv
  <1> QED
    BY <1>1, Invariance, PTL

-----------------------------------------------------------------------------
(* Words past the block.                                                   *)

\* The entry that goes has its inode word in the block; the one that is moved
\* ends no further than it did.
LEMMA WritesReach ==
  ASSUME IInv, [Next]_vars, NEW p \in Span, p >= BlockWords, block'[p] # block[p]
  PROVE  \E i \in DOMAIN list : p < list[i].off + 2 + TextLen(list[i])
  <1>1. CASE ShiftEntry
    <2> DEFINE e == list[next]
               l == RecLen(list[victim])
    <2>1. block' = Overwrite(block, at, e.words) /\ pc = "shift"
      BY <1>1 DEF ShiftEntry, Written
    <2>2. /\ list \in Seq(Cell) /\ next \in DOMAIN list /\ victim \in DOMAIN list
          /\ at + l = e.off /\ at \in Nat
      BY <2>1 DEF IInv, TypeOK, BeyondDot, ShiftMovesDown
    <2>3. /\ e.off \in Nat /\ TextLen(e) \in Nat /\ l \in Nat
          /\ DOMAIN e.words = 1 .. 2 + TextLen(e)
      BY <2>2, CellType, SizeAssumption DEF IInv
    <2> HIDE DEF e, l
    <2>4. p - at + 1 \in DOMAIN e.words
      BY <2>1 DEF Overwrite, IInv, TypeOK
    <2>5. p \in Nat
      BY SizeAssumption DEF Span
    <2>6. p < e.off + 2 + TextLen(e)
      BY <2>2, <2>3, <2>4, <2>5
    <2> QED
      BY <2>2, <2>6 DEF e
  <1>2. CASE \E v \in DOMAIN list : DeleteFile(v)
    <2>1. PICK v \in DOMAIN list : DeleteFile(v)
      BY <1>2
    <2>2. block' = block \/ block' = [block EXCEPT ![list[v].off] = Zero]
      BY <2>1 DEF DeleteFile, CursorOf
    <2>3. list[v].off < BlockWords
      BY DEF IInv, CellsChain
    <2>4. p # list[v].off
      <3>1. list[v].off \in Nat /\ p \in Nat
        BY CellType, SizeAssumption DEF IInv, Span
      <3> QED
        BY <3>1, <2>3, SizeAssumption
    <2> QED
      BY <2>2, <2>4 DEF IInv, TypeOK
  <1>3. CASE ~ ShiftEntry /\ ~ (\E v \in DOMAIN list : DeleteFile(v))
    BY <1>3 DEF Next, Step, TypeCommand, ReadEntry, ReadFatal, EndOfList,
                OutOfMemory, Refuse, DeleteNowhere, FreeList, vars, disk
  <1> QED
    BY <1>1, <1>2, <1>3

\* bgDeleteFile: rm changes what follows the block only as far as the text of
\* an entry it listed ran on into it, in every directory.
THEOREM NeighbourReached == Spec => NeighbourIntact
  <1>1. IInv /\ [Next]_vars
          => [\A p \in Span :
                p >= BlockWords /\ block'[p] # block[p] =>
                  \E i \in DOMAIN list : p < list[i].off + 2 + TextLen(list[i])]_vars
    BY WritesReach
  <1> QED
    BY <1>1, Invariance, PTL DEF Spec, NeighbourIntact

-----------------------------------------------------------------------------
(* A command runs out of steps.  That the program takes them is fairness,  *)
(* and CommandsEnd, which needs both, is checked by TLC.                   *)

\* The list fits in memory.
ListFits == Len(list) <= MallocLimit

\* The most steps that a command has before it.
StepsLeft ==
  CASE pc = "read"  -> (MallocLimit - Len(list)) + MallocLimit + 3
    [] pc = "find"  -> Len(list) + 2
    [] pc = "shift" -> (Len(list) - next) + 2
    [] pc = "free"  -> 1
    [] OTHER        -> 0

\* It is a number, and none is left when the command has ended.
LEMMA StepsLeftType ==
  ASSUME IInv, ListFits
  PROVE  /\ StepsLeft \in Nat
         /\ StepsLeft = 0 <=> pc \in {"prompt", "exit", "crash"}
  <1>1. /\ Len(list) \in Nat /\ MallocLimit \in Nat /\ pc \in Phases
        /\ MallocLimit - Len(list) \in Nat
    BY SizeAssumption DEF IInv, TypeOK, ListFits
  <1>2. pc = "shift" => next \in Nat /\ next <= Len(list)
    BY DEF IInv, TypeOK, ShiftMovesDown
  <1> QED
    BY <1>1, <1>2 DEF StepsLeft, Phases

\* Each step reads one entry more, moves one entry more, or goes on to what
\* comes after.
LEMMA StepCounts ==
  ASSUME IInv, IInv', ListFits, Step
  PROVE  ListFits' /\ StepsLeft' < StepsLeft
  <1>1. Len(list) \in Nat /\ MallocLimit \in Nat /\ Len(list) <= MallocLimit
    BY SizeAssumption DEF IInv, TypeOK, ListFits
  <1>2. CASE ReadEntry
    <2>1. /\ pc = "read" /\ Len(list) < MallocLimit
          /\ \E e : list' = Append(list, e)
          /\ pc' \in {"find", "read"}
      BY <1>2 DEF ReadEntry
    <2>2. Len(list') = Len(list) + 1
      BY <2>1 DEF IInv, TypeOK
    <2> QED
      BY <2>1, <2>2, <1>1 DEF ListFits, StepsLeft
  <1>3. CASE EndOfList \/ OutOfMemory \/ ReadFatal
    <2>1. pc = "read" /\ pc' \in {"find", "exit", "crash"} /\ list' = list
      BY <1>3 DEF EndOfList, OutOfMemory, ReadFatal
    <2> QED
      BY <2>1, <1>1 DEF ListFits, StepsLeft
  <1>4. CASE Refuse \/ \E v \in DOMAIN list : DeleteNowhere(v)
    <2>1. pc = "find" /\ pc' \in {"free", "crash"} /\ list' = list
      BY <1>4 DEF Refuse, DeleteNowhere
    <2> QED
      BY <2>1, <1>1 DEF ListFits, StepsLeft
  <1>5. CASE \E v \in DOMAIN list : DeleteFile(v)
    <2>1. PICK v \in DOMAIN list : DeleteFile(v)
      BY <1>5
    <2>2. v \in Nat \ {0} /\ v <= Len(list)
      BY SMTT(20), <1>1 DEF IInv, TypeOK
    <2>3. /\ pc = "find" /\ pc' \in {"free", "shift"} /\ list' = list
          /\ next' = v + 1
      BY <2>1 DEF DeleteFile
    <2> QED
      BY <2>2, <2>3, <1>1 DEF ListFits, StepsLeft
  <1>6. CASE ShiftEntry
    <2>1. /\ pc = "shift" /\ list' = list /\ next' = next + 1
          /\ pc' = "exit" \/ pc' = IF next = Len(list) THEN "free" ELSE "shift"
      BY <1>6 DEF ShiftEntry
    <2>2. next \in Nat /\ next <= Len(list)
      BY <2>1 DEF IInv, TypeOK, ShiftMovesDown
    <2> QED
      BY <2>1, <2>2, <1>1 DEF ListFits, StepsLeft
  <1>7. CASE FreeList
    <2>1. pc = "free" /\ pc' = "prompt" /\ list' = <<>>
      BY <1>7 DEF FreeList
    <2> QED
      BY <2>1, <1>1 DEF ListFits, StepsLeft
  <1> QED
    BY <1>2, <1>3, <1>4, <1>5, <1>6, <1>7 DEF Step

\* dirReadLinkedList, bgDeleteFile, dirFreeLinkedList: whatever the block holds,
\* with entries of no length too, each step of a command leaves it fewer, from
\* at most 2 * MallocLimit + 3 on.
THEOREM CommandsRunOut ==
  Spec => /\ [](StepsLeft \in Nat /\ (StepsLeft = 0 <=> pc \in {"prompt", "exit", "crash"}))
          /\ [][Step => StepsLeft' < StepsLeft]_vars
  <1>1. Init => ListFits
    BY SizeAssumption DEF Init, ListFits
  <1>2. IInv /\ IInv' /\ ListFits /\ [Next]_vars => ListFits'
    <2> SUFFICES ASSUME IInv, IInv', ListFits, [Next]_vars PROVE ListFits'
      OBVIOUS
    <2>1. CASE Step
      BY <2>1, StepCounts
    <2>2. CASE ~ Step
      <3>1. list' = list
        BY <2>2 DEF Next, TypeCommand, vars
      <3> QED
        BY <3>1 DEF ListFits
    <2> QED
      BY <2>1, <2>2
  <1>3. IInv /\ ListFits
          => StepsLeft \in Nat /\ (StepsLeft = 0 <=> pc \in {"prompt", "exit", "crash"})
    BY StepsLeftType
  <1>4. IInv /\ IInv' /\ ListFits /\ [Next]_vars
          => [Step => StepsLeft' < StepsLeft]_vars
    BY StepCounts
  <1> QED
    BY <1>1, <1>2, <1>3, <1>4, Invariance, PTL DEF Spec
=============================================================================
