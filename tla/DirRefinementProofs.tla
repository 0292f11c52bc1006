------------------------ MODULE DirRefinementProofs ------------------------
(***************************************************************************)
(* On the directories of RoomyDirectory, whatever their size, names and    *)
(* lengths, DirBlock implements Directory: each rm takes one entry out of  *)
(* what is listed and nothing else, no entry is left without its inode,    *)
(* and the block that follows on the disk is not written to.               *)
(***************************************************************************)
EXTENDS RoomyDirectory, DirBlockProofs, Arithmetic

-----------------------------------------------------------------------------
(* What Offsets finds is a chain of entries, and the only one.             *)

\* Nothing more is listed from word p on.
Ends(b, p) == p = BlockWords \/ b[p].num = 0 \/ b[p + 1].len = 0

\* Where the listing goes on after the entry at p.
After(b, p) == Min({p + b[p + 1].len, BlockWords})

\* What OffsetsFrom(b) is at p, when it is g at the words behind p.
OffsetsBy(b, g, p) ==
  IF Ends(b, p) THEN <<>> ELSE <<p>> \o g[After(b, p)]

\* The lesser of two numbers.
LEMMA MinOfTwo ==
  ASSUME NEW x \in Int, NEW y \in Int
  PROVE  Min({x, y}) = IF x <= y THEN x ELSE y
  <1> DEFINE m == IF x <= y THEN x ELSE y
  <1>1. m \in {x, y} /\ \A z \in {x, y} : m <= z
    OBVIOUS
  <1>2. \A w \in {x, y} : (\A z \in {x, y} : w <= z) => w = m
    OBVIOUS
  <1> HIDE DEF m
  <1>3. Min({x, y}) = m
    BY <1>1, <1>2 DEF Min
  <1> QED
    BY <1>3 DEF m

\* The listing goes on further along in the block.
LEMMA AfterIsBehind ==
  ASSUME NEW b \in [Span -> Word], NEW p \in 0 .. BlockWords, ~ Ends(b, p)
  PROVE  /\ p \in 0 .. BlockWords - 1 /\ b[p].num # 0
         /\ b[p + 1].len \in Nat \ {0}
         /\ After(b, p) \in p + 1 .. BlockWords
         /\ p + b[p + 1].len <= BlockWords => After(b, p) = p + b[p + 1].len
         /\ p + b[p + 1].len > BlockWords => After(b, p) = BlockWords
  <1>1. p \in 0 .. BlockWords - 1 /\ b[p].num # 0 /\ b[p + 1].len # 0
    BY SizeAssumption DEF Ends
  <1>2. p + 1 \in Span
    BY <1>1, SizeAssumption DEF Span
  <1>3. b[p + 1].len \in Nat
    BY <1>2 DEF Word
  <1> DEFINE l == b[p + 1].len
  <1>4. After(b, p) = IF p + l <= BlockWords THEN p + l ELSE BlockWords
    BY <1>1, <1>3, SizeAssumption, MinOfTwo DEF After
  <1> QED
    BY <1>1, <1>3, <1>4, SizeAssumption

\* There is a function with the values that OffsetsFrom is defined by: by
\* induction on how far from the end of the block it is wanted.
LEMMA OffsetsExist ==
  ASSUME NEW b \in [Span -> Word]
  PROVE  \E g : g = [p \in 0 .. BlockWords |-> OffsetsBy(b, g, p)]
  <1> DEFINE Good(k, g) ==
               g = [p \in BlockWords - k .. BlockWords |-> OffsetsBy(b, g, p)]
             T == {k \in Nat : k <= BlockWords => \E g : Good(k, g)}
  <1>1. ASSUME NEW k \in Nat, \A j \in Nat : j < k => j \in T
        PROVE  k \in T
    <2> SUFFICES ASSUME k <= BlockWords PROVE \E g : Good(k, g)
      OBVIOUS
    <2> DEFINE q == BlockWords - k
    <2>0. q \in 0 .. BlockWords
      BY SizeAssumption
    <2>1. CASE k = 0
      <3> DEFINE g == [p \in {BlockWords} |-> <<>>]
      <3>1. BlockWords - k .. BlockWords = {BlockWords}
        BY <2>1, SizeAssumption
      <3>2. OffsetsBy(b, g, BlockWords) = <<>>
        BY DEF OffsetsBy, Ends
      <3>3. g = [p \in {BlockWords} |-> OffsetsBy(b, g, p)]
        BY <3>2
      <3>4. Good(k, g)
        BY <3>1, <3>3
      <3> QED
        BY <3>4
    <2>2. CASE k # 0
      <3>1. k - 1 \in Nat /\ k - 1 < k /\ k - 1 <= BlockWords
        BY <2>2, SizeAssumption
      <3>2. PICK f : Good(k - 1, f)
        <4>1. k - 1 \in T
          BY <3>1, <1>1
        <4> HIDE DEF Good
        <4> QED
          BY <3>1, <4>1
      <3>3. BlockWords - (k - 1) = q + 1
        BY SizeAssumption
      <3>4. f = [p \in q + 1 .. BlockWords |-> OffsetsBy(b, f, p)]
        BY <3>2, <3>3
      <3> DEFINE g == [p \in q .. BlockWords |->
                         IF p = q THEN OffsetsBy(b, f, q) ELSE f[p]]
      <3> HIDE DEF q
      <3>5. \A p \in q + 1 .. BlockWords : g[p] = f[p]
        BY <2>0, SizeAssumption
      <3>6. \A p \in q .. BlockWords : OffsetsBy(b, g, p) = OffsetsBy(b, f, p)
        <4> SUFFICES ASSUME NEW p \in q .. BlockWords
                     PROVE  OffsetsBy(b, g, p) = OffsetsBy(b, f, p)
          OBVIOUS
        <4>1. p \in 0 .. BlockWords
          BY <2>0, SizeAssumption
        <4>2. CASE Ends(b, p)
          BY <4>2 DEF OffsetsBy
        <4>3. CASE ~ Ends(b, p)
          <5>1. After(b, p) \in p + 1 .. BlockWords
            BY <4>1, <4>3, AfterIsBehind
          <5>2. After(b, p) \in q + 1 .. BlockWords
            BY <4>1, <5>1, <2>0, SizeAssumption
          <5>3. g[After(b, p)] = f[After(b, p)]
            BY <5>2, <3>5
          <5> HIDE DEF g
          <5> QED
            BY <5>3 DEF OffsetsBy
        <4> QED
          BY <4>2, <4>3
      <3>7. \A p \in q + 1 .. BlockWords : f[p] = OffsetsBy(b, f, p)
        BY <3>4
      <3>8. \A p \in q .. BlockWords : g[p] = OffsetsBy(b, g, p)
        <4> SUFFICES ASSUME NEW p \in q .. BlockWords
                     PROVE  g[p] = OffsetsBy(b, f, p)
          BY <3>6
        <4>1. CASE p = q
          BY <4>1
        <4>2. CASE p # q
          <5>1. p \in q + 1 .. BlockWords
            BY <4>2, <2>0, SizeAssumption
          <5> QED
            BY <5>1, <3>5, <3>7
        <4> QED
          BY <4>1, <4>2
      <3>9. g = [p \in q .. BlockWords |-> g[p]]
        OBVIOUS
      <3> HIDE DEF g
      <3>10. g = [p \in q .. BlockWords |-> OffsetsBy(b, g, p)]
        BY <3>8, <3>9
      <3> QED
        BY <3>10 DEF q
    <2> QED
      BY <2>1, <2>2
  <1>2. \A k \in Nat : k \in T
    <2> HIDE DEF T
    <2>1. T \subseteq Nat
      BY DEF T
    <2> QED
      BY <1>1, <2>1, Induction
  <1>3. BlockWords \in T
    BY <1>2, SizeAssumption
  <1>4. PICK g : Good(BlockWords, g)
    BY <1>3, SizeAssumption
  <1>5. BlockWords - BlockWords = 0
    BY SizeAssumption
  <1> QED
    BY <1>4, <1>5

\* The equation by which OffsetsFrom is defined.
LEMMA OffsetsEquation ==
  ASSUME NEW b \in [Span -> Word], NEW p \in 0 .. BlockWords
  PROVE  OffsetsFrom(b)[p] = OffsetsBy(b, OffsetsFrom(b), p)
  <1> DEFINE F(g) == [x \in 0 .. BlockWords |-> OffsetsBy(b, g, x)]
             c == CHOOSE g : g = F(g)
  <1>1. OffsetsFrom(b) = c
    BY DEF OffsetsFrom, OffsetsBy, Ends, After
  <1>2. c = F(c)
    <2>1. \E g : g = F(g)
      BY OffsetsExist
    <2> QED
      BY <2>1
  <1> HIDE DEF c
  <1>3. c[p] = OffsetsBy(b, c, p)
    BY <1>2
  <1> QED
    BY <1>1, <1>3

\* The offsets s lead from word p of b, entry by entry, to where the listing
\* ends.
ChainFrom(b, p, s) ==
  /\ s \in Seq(0 .. BlockWords - 1)
  /\ s = <<>> <=> Ends(b, p)
  /\ s # <<>> => s[1] = p
  /\ \A i \in 1 .. Len(s) : ~ Ends(b, s[i])
  /\ \A i \in 1 .. Len(s) :
       IF i = Len(s) THEN Ends(b, After(b, s[i])) ELSE s[i + 1] = After(b, s[i])

\* One entry before a chain makes a chain.
LEMMA ChainCons ==
  ASSUME NEW b \in [Span -> Word], NEW p \in 0 .. BlockWords - 1, NEW r,
         ~ Ends(b, p), ChainFrom(b, After(b, p), r)
  PROVE  ChainFrom(b, p, <<p>> \o r)
  <1> DEFINE s == <<p>> \o r
  <1>1. /\ r \in Seq(0 .. BlockWords - 1) /\ Len(r) \in Nat
        /\ r = <<>> <=> Ends(b, After(b, p))
        /\ r # <<>> => r[1] = After(b, p)
        /\ \A i \in 1 .. Len(r) : ~ Ends(b, r[i])
        /\ \A i \in 1 .. Len(r) :
             IF i = Len(r) THEN Ends(b, After(b, r[i]))
                           ELSE r[i + 1] = After(b, r[i])
    BY DEF ChainFrom
  <1>2. /\ s \in Seq(0 .. BlockWords - 1) /\ Len(s) = Len(r) + 1
        /\ s[1] = p /\ s # <<>>
        /\ \A i \in 2 .. Len(r) + 1 : s[i] = r[i - 1]
    BY <1>1
  <1> HIDE DEF s
  <1>3. r = <<>> <=> Len(r) = 0
    BY <1>1
  <1>4. \A i \in 1 .. Len(s) : i # 1 => i - 1 \in 1 .. Len(r) /\ s[i] = r[i - 1]
    BY <1>1, <1>2
  <1>5. \A i \in 1 .. Len(s) : ~ Ends(b, s[i])
    BY <1>1, <1>2, <1>4
  <1>6. ASSUME NEW i \in 1 .. Len(s)
        PROVE  IF i = Len(s) THEN Ends(b, After(b, s[i]))
                             ELSE s[i + 1] = After(b, s[i])
    <2>1. CASE i = 1
      <3>1. CASE Len(s) = 1
        BY <2>1, <3>1, <1>1, <1>2, <1>3
      <3>2. CASE Len(s) # 1
        <4>1. 2 \in 2 .. Len(r) + 1 /\ r # <<>>
          BY <3>2, <1>1, <1>2, <1>3
        <4> QED
          BY <2>1, <3>2, <4>1, <1>1, <1>2
      <3> QED
        BY <3>1, <3>2
    <2>2. CASE i # 1
      <3> DEFINE j == i - 1
      <3>1. j \in 1 .. Len(r) /\ s[i] = r[j] /\ (i = Len(s) <=> j = Len(r))
        BY <2>2, <1>1, <1>2, <1>4
      <3>2. i # Len(s) => s[i + 1] = r[j + 1]
        BY <3>1, <1>1, <1>2, <1>4
      <3> HIDE DEF j
      <3> QED
        BY <3>1, <3>2, <1>1
    <2> QED
      BY <2>1, <2>2
  <1>7. ChainFrom(b, p, s)
    BY <1>2, <1>5, <1>6 DEF ChainFrom
  <1> QED
    BY <1>7 DEF s

\* A chain without its first entry is one.
LEMMA ChainTail ==
  ASSUME NEW b \in [Span -> Word], NEW p \in 0 .. BlockWords, NEW s,
         ~ Ends(b, p), ChainFrom(b, p, s)
  PROVE  \E r : s = <<p>> \o r /\ ChainFrom(b, After(b, p), r)
  <1> DEFINE r == Tail(s)
  <1>1. /\ s \in Seq(0 .. BlockWords - 1) /\ s # <<>> /\ s[1] = p
        /\ Len(s) \in Nat \ {0}
        /\ \A i \in 1 .. Len(s) : ~ Ends(b, s[i])
        /\ \A i \in 1 .. Len(s) :
             IF i = Len(s) THEN Ends(b, After(b, s[i]))
                           ELSE s[i + 1] = After(b, s[i])
    BY DEF ChainFrom
  <1>2. /\ r \in Seq(0 .. BlockWords - 1) /\ Len(r) = Len(s) - 1
        /\ \A i \in 1 .. Len(r) : r[i] = s[i + 1]
    BY <1>1
  <1> HIDE DEF r
  <1>3. s = <<p>> \o r
    <2>0. p \in 0 .. BlockWords - 1
      BY SizeAssumption DEF Ends
    <2>1. Len(<<p>> \o r) = Len(s) /\ <<p>> \o r \in Seq(0 .. BlockWords - 1)
      <3>1. <<p>> \in Seq(0 .. BlockWords - 1) /\ Len(<<p>>) = 1
        BY <2>0
      <3>2. Len(<<p>> \o r) = 1 + Len(r)
        BY <3>1, <1>2
      <3>3. <<p>> \o r \in Seq(0 .. BlockWords - 1)
        BY <3>1, <1>2
      <3> QED
        BY <3>2, <3>3, <1>1, <1>2
    <2>2. \A i \in 1 .. Len(s) : (<<p>> \o r)[i] = s[i]
      BY <1>1, <1>2
    <2> QED
      BY <1>1, <2>1, <2>2
  <1>4. r = <<>> <=> Len(s) = 1
    BY <1>1, <1>2
  <1>5. 1 \in 1 .. Len(s)
    BY <1>1
  <1>6. /\ r = <<>> => Ends(b, After(b, p))
        /\ r # <<>> => r[1] = After(b, p) /\ ~ Ends(b, r[1])
    <2>1. r # <<>> => 1 \in 1 .. Len(r) /\ 2 \in 1 .. Len(s)
      BY <1>1, <1>2, <1>4
    <2> QED
      BY <2>1, <1>1, <1>2, <1>4, <1>5
  <1>7. ASSUME NEW i \in 1 .. Len(r)
        PROVE  /\ ~ Ends(b, r[i])
               /\ IF i = Len(r) THEN Ends(b, After(b, r[i]))
                                ELSE r[i + 1] = After(b, r[i])
    <2> DEFINE j == i + 1
    <2>1. j \in 1 .. Len(s) /\ r[i] = s[j] /\ (i = Len(r) <=> j = Len(s))
      BY <1>1, <1>2
    <2>2. i # Len(r) => r[i + 1] = s[j + 1]
      BY <1>1, <1>2
    <2> HIDE DEF j
    <2> QED
      BY <2>1, <2>2, <1>1
  <1>8. ChainFrom(b, After(b, p), r)
    BY <1>2, <1>6, <1>7 DEF ChainFrom
  <1> QED
    BY <1>3, <1>8

\* What OffsetsFrom gives is a chain, from every word: by induction on the
\* distance from the end of the block.
LEMMA OffsetsAreChain ==
  ASSUME NEW b \in [Span -> Word], NEW p \in 0 .. BlockWords
  PROVE  ChainFrom(b, p, OffsetsFrom(b)[p])
  <1> DEFINE T == {k \in Nat : \A q \in 0 .. BlockWords :
                      q + k = BlockWords => ChainFrom(b, q, OffsetsFrom(b)[q])}
  <1>1. ASSUME NEW k \in Nat, \A j \in Nat : j < k => j \in T
        PROVE  k \in T
    <2> SUFFICES ASSUME NEW q \in 0 .. BlockWords, q + k = BlockWords
                 PROVE  ChainFrom(b, q, OffsetsFrom(b)[q])
      OBVIOUS
    <2>1. OffsetsFrom(b)[q] = OffsetsBy(b, OffsetsFrom(b), q)
      BY OffsetsEquation
    <2>2. CASE Ends(b, q)
      <3>1. OffsetsFrom(b)[q] = <<>>
        BY <2>1, <2>2 DEF OffsetsBy
      <3>2. ChainFrom(b, q, <<>>)
        BY <2>2 DEF ChainFrom
      <3> QED
        BY <3>1, <3>2
    <2>3. CASE ~ Ends(b, q)
      <3> DEFINE a == After(b, q)
                 j == BlockWords - a
      <3>1. OffsetsFrom(b)[q] = <<q>> \o OffsetsFrom(b)[a]
        BY <2>1, <2>3 DEF OffsetsBy
      <3>2. q \in 0 .. BlockWords - 1 /\ a \in q + 1 .. BlockWords
        BY <2>3, AfterIsBehind
      <3> HIDE DEF a
      <3>3. a \in 0 .. BlockWords /\ j \in Nat /\ j < k /\ a + j = BlockWords
        BY <3>2, SizeAssumption
      <3>4. j \in T
        BY <3>3, <1>1
      <3> HIDE DEF j
      <3>5. ChainFrom(b, a, OffsetsFrom(b)[a])
        BY <3>3, <3>4
      <3> QED
        BY <3>1, <3>2, <3>5, <2>3, ChainCons DEF a
    <2> QED
      BY <2>2, <2>3
  <1>2. \A k \in Nat : k \in T
    <2> HIDE DEF T
    <2>1. T \subseteq Nat
      BY DEF T
    <2> QED
      BY <1>1, <2>1, Induction
  <1>3. BlockWords - p \in T /\ p + (BlockWords - p) = BlockWords
    <2> HIDE DEF T
    <2> QED
      BY <1>2, SizeAssumption
  <1> QED
    BY <1>3

\* A chain is what OffsetsFrom gives.
LEMMA ChainIsOffsets ==
  ASSUME NEW b \in [Span -> Word], NEW p \in 0 .. BlockWords, NEW s,
         ChainFrom(b, p, s)
  PROVE  OffsetsFrom(b)[p] = s
  <1> DEFINE T == {k \in Nat : \A q \in 0 .. BlockWords : \A r :
                      q + k = BlockWords /\ ChainFrom(b, q, r)
                        => OffsetsFrom(b)[q] = r}
  <1>1. ASSUME NEW k \in Nat, \A j \in Nat : j < k => j \in T
        PROVE  k \in T
    <2> SUFFICES ASSUME NEW q \in 0 .. BlockWords, NEW r, q + k = BlockWords,
                        ChainFrom(b, q, r)
                 PROVE  OffsetsFrom(b)[q] = r
      OBVIOUS
    <2>1. OffsetsFrom(b)[q] = OffsetsBy(b, OffsetsFrom(b), q)
      BY OffsetsEquation
    <2>2. CASE Ends(b, q)
      BY <2>1, <2>2 DEF OffsetsBy, ChainFrom
    <2>3. CASE ~ Ends(b, q)
      <3> DEFINE a == After(b, q)
                 j == BlockWords - a
      <3>1. OffsetsFrom(b)[q] = <<q>> \o OffsetsFrom(b)[a]
        BY <2>1, <2>3 DEF OffsetsBy
      <3>2. PICK t : r = <<q>> \o t /\ ChainFrom(b, a, t)
        BY <2>3, ChainTail
      <3>3. a \in q + 1 .. BlockWords
        BY <2>3, AfterIsBehind
      <3> HIDE DEF a
      <3>4. a \in 0 .. BlockWords /\ j \in Nat /\ j < k /\ a + j = BlockWords
        BY <3>3, SizeAssumption
      <3>5. j \in T
        BY <3>4, <1>1
      <3> HIDE DEF j
      <3>6. OffsetsFrom(b)[a] = t
        BY <3>2, <3>4, <3>5
      <3> QED
        BY <3>1, <3>2, <3>6
    <2> QED
      BY <2>2, <2>3
  <1>2. \A k \in Nat : k \in T
    <2> HIDE DEF T
    <2>1. T \subseteq Nat
      BY DEF T
    <2> QED
      BY <1>1, <2>1, Induction
  <1>3. BlockWords - p \in T /\ p + (BlockWords - p) = BlockWords
    <2> HIDE DEF T
    <2> QED
      BY <1>2, SizeAssumption
  <1> QED
    BY <1>3

-----------------------------------------------------------------------------
(* Directories with room: what Roomy becomes as entries go.                *)

\* The cells cs, as dirReadLinkedList would read them, fill the directory from
\* its start without gaps; behind h nothing was ever written; and the last
\* cell, which stays, is long enough to lead to h from where any that goes is.
Fits(cs, h) ==
  LET n == Len(cs)
  IN  /\ cs \in Seq(Cell) /\ n >= 1
      /\ h \in 0 .. BlockWords
      /\ cs[1].off = 0
      /\ \A i \in 1 .. n :
           /\ Len(cs[i].words) >= 2 /\ Len(cs[i].words) = 2 + TextLen(cs[i])
           /\ Ino(cs[i]) # 0
           /\ 2 + TextLen(cs[i]) <= RecLen(cs[i])
           /\ i < n => cs[i + 1].off = cs[i].off + RecLen(cs[i])
           /\ Goes(cs[i].words) => h <= cs[i].off + RecLen(cs[n])
      /\ \A i, j \in 1 .. n : i < j => cs[i].off + RecLen(cs[i]) <= cs[j].off
      /\ ~ Goes(cs[1].words) /\ ~ Goes(cs[n].words)
      /\ cs[n].off + 2 + TextLen(cs[n]) <= h
      /\ h <= cs[n].off + RecLen(cs[n])
      /\ cs[n].off + RecLen(cs[n]) <= BlockWords

\* The cells are those of the block b.
InBlock(cs, b) == \A i \in 1 .. Len(cs) : cs[i].words = EntryAt(b, cs[i].off)

\* The number of words and the places of a cell that fits.
LEMMA FitType ==
  ASSUME NEW cs, NEW h, Fits(cs, h), NEW i \in 1 .. Len(cs)
  PROVE  /\ cs[i] \in Cell
         /\ cs[i].off \in Nat /\ cs[i].words \in Seq(Word)
         /\ RecLen(cs[i]) \in Nat /\ TextLen(cs[i]) \in Nat
         /\ DOMAIN cs[i].words = 1 .. 2 + TextLen(cs[i])
         /\ cs[i].off + 2 + TextLen(cs[i]) <= h
         /\ cs[i].off < BlockWords
  <1> DEFINE n == Len(cs)
  <1>1. cs \in Seq(Cell) /\ n \in Nat /\ n \in 1 .. n /\ h \in Nat /\ h <= BlockWords
    BY SizeAssumption DEF Fits
  <1>2. \A j \in 1 .. n : /\ cs[j] \in Cell
                          /\ cs[j].off \in Nat
                          /\ cs[j].words \in Seq(Word)
                          /\ RecLen(cs[j]) \in Nat /\ TextLen(cs[j]) \in Nat
                          /\ DOMAIN cs[j].words = 1 .. 2 + TextLen(cs[j])
    <2> SUFFICES ASSUME NEW j \in 1 .. n
                 PROVE  /\ cs[j] \in Cell
                        /\ cs[j].off \in Nat
                        /\ cs[j].words \in Seq(Word)
                        /\ RecLen(cs[j]) \in Nat /\ TextLen(cs[j]) \in Nat
                        /\ DOMAIN cs[j].words = 1 .. 2 + TextLen(cs[j])
      OBVIOUS
    <2>1. cs[j] \in Cell
      BY <1>1
    <2>2. cs[j].off \in Nat /\ cs[j].words \in Seq(Word)
      BY <2>1 DEF Cell
    <2>3. Len(cs[j].words) = 2 + TextLen(cs[j])
          /\ 2 + TextLen(cs[j]) <= RecLen(cs[j])
      BY DEF Fits
    <2>4. Len(cs[j].words) \in Nat /\ DOMAIN cs[j].words = 1 .. Len(cs[j].words)
      BY <2>2
    <2>5. 2 \in DOMAIN cs[j].words
      BY <2>4 DEF Fits
    <2>6. cs[j].words[2] \in Word
      BY <2>2, <2>5
    <2> QED
      BY <2>1, <2>2, <2>3, <2>4, <2>6 DEF Word, RecLen, TextLen
  <1>3. cs[i].off + 2 + TextLen(cs[i]) <= h
    <2>1. CASE i = n
      BY <2>1 DEF Fits
    <2>2. CASE i # n
      <3>1. cs[i].off + RecLen(cs[i]) <= cs[n].off
            /\ 2 + TextLen(cs[i]) <= RecLen(cs[i])
            /\ cs[n].off + 2 + TextLen(cs[n]) <= h
        BY <2>2, <1>1 DEF Fits
      <3>2. \A o, r, t, p, q \in Nat :
              o + r <= p /\ 2 + t <= r /\ p + 2 + q <= h => o + 2 + t <= h
        BY <1>1
      <3>3. \A j \in {i, n} : /\ cs[j].off \in Nat /\ RecLen(cs[j]) \in Nat
                             /\ TextLen(cs[j]) \in Nat
        BY <1>1, <1>2
      <3> QED
        BY ZenonT(20), <3>1, <3>2, <3>3
    <2> QED
      BY <2>1, <2>2
  <1> QED
    BY <1>1, <1>2, <1>3, SizeAssumption

\* What a user sees of cells.
Views(cs) == [i \in 1 .. Len(cs) |-> View(cs[i].words)]

\* The words of a cell that lies in the block b are b's.
LEMMA CellInBlock ==
  ASSUME NEW b \in [Span -> Word], NEW cs, NEW h, Fits(cs, h), InBlock(cs, b),
         NEW i \in 1 .. Len(cs)
  PROVE  /\ b[cs[i].off].num = Ino(cs[i])
         /\ b[cs[i].off + 1].len = RecLen(cs[i])
         /\ b[cs[i].off + 1].nl = TextLen(cs[i])
  <1> DEFINE o == cs[i].off
             w == cs[i].words
  <1>1. o \in Nat /\ TextLen(cs[i]) \in Nat /\ DOMAIN w = 1 .. 2 + TextLen(cs[i])
    BY FitType
  <1>2. w = EntryAt(b, o)
    BY DEF InBlock
  <1>3. 1 \in DOMAIN w /\ 2 \in DOMAIN w
    BY <1>1
  <1> HIDE DEF o, w
  <1>4. w[1] = b[o + 1 - 1] /\ w[2] = b[o + 2 - 1]
    BY <1>2, <1>3 DEF EntryAt
  <1>5. w[1] = b[o] /\ w[2] = b[o + 1]
    BY <1>1, <1>4
  <1> QED
    BY <1>5 DEF Ino, RecLen, TextLen, o, w

\* The cells are what the block lists.
LEMMA FitsListed ==
  ASSUME NEW b \in [Span -> Word], NEW cs, NEW h,
         Fits(cs, h), Clean(b, h), InBlock(cs, b)
  PROVE  Listed(b) = Views(cs)
  <1> DEFINE n == Len(cs)
             s == [i \in 1 .. n |-> cs[i].off]
             end == cs[n].off + RecLen(cs[n])
  <1>1. n \in Nat /\ n >= 1 /\ h \in Nat /\ h <= end /\ end <= BlockWords
    BY SizeAssumption DEF Fits
  <1>2. \A i \in 1 .. n : /\ cs[i].off \in 0 .. BlockWords - 1
                          /\ RecLen(cs[i]) \in Nat /\ RecLen(cs[i]) # 0
                          /\ b[cs[i].off].num # 0
                          /\ b[cs[i].off + 1].len = RecLen(cs[i])
    <2> SUFFICES ASSUME NEW i \in 1 .. n
                 PROVE  /\ cs[i].off \in 0 .. BlockWords - 1
                        /\ RecLen(cs[i]) \in Nat /\ RecLen(cs[i]) # 0
                        /\ b[cs[i].off].num # 0
                        /\ b[cs[i].off + 1].len = RecLen(cs[i])
      OBVIOUS
    <2>1. Ino(cs[i]) # 0 /\ 2 + TextLen(cs[i]) <= RecLen(cs[i])
      BY DEF Fits
    <2>2. cs[i].off \in Nat /\ cs[i].off < BlockWords /\ TextLen(cs[i]) \in Nat
          /\ RecLen(cs[i]) \in Nat
      BY FitType
    <2> QED
      BY <2>1, <2>2, CellInBlock, SizeAssumption
  <1>3. s \in Seq(0 .. BlockWords - 1) /\ Len(s) = n /\ s # <<>>
        /\ \A i \in 1 .. n : s[i] = cs[i].off
    <2>1. \A i \in 1 .. n : cs[i].off \in 0 .. BlockWords - 1
      BY <1>2
    <2> HIDE DEF n
    <2> QED
      BY <2>1, <1>1
  <1>4. s[1] = 0
    BY <1>1, <1>3 DEF Fits
  <1> HIDE DEF s
  <1>5. \A i \in 1 .. n : ~ Ends(b, s[i])
    <2> SUFFICES ASSUME NEW i \in 1 .. n PROVE ~ Ends(b, s[i])
      OBVIOUS
    <2>1. /\ s[i] \in 0 .. BlockWords - 1 /\ b[s[i]].num # 0
          /\ b[s[i] + 1].len # 0
      BY <1>2, <1>3
    <2> QED
      BY ONLY <2>1, SizeAssumption DEF Ends
  <1>6. ASSUME NEW i \in 1 .. n
        PROVE  IF i = n THEN Ends(b, After(b, s[i])) ELSE s[i + 1] = After(b, s[i])
    <2>1. s[i] \in 0 .. BlockWords /\ ~ Ends(b, s[i])
          /\ b[s[i] + 1].len = RecLen(cs[i]) /\ s[i] = cs[i].off
      BY <1>2, <1>3, <1>5, SizeAssumption
    <2>2. cs[i].off + RecLen(cs[i]) <= BlockWords
          => After(b, s[i]) = cs[i].off + RecLen(cs[i])
      BY <2>1, AfterIsBehind
    <2>3. CASE i = n
      <3>1. After(b, s[i]) = end
        BY <2>2, <2>3, <1>1
      <3>2. end \in Nat
        BY <1>2, <1>1
      <3>3. end < BlockWords => b[end].num = 0
        <4> HIDE DEF end
        <4> QED
          BY <3>2, <1>1, SizeAssumption DEF Clean
      <3> HIDE DEF end
      <3> QED
        BY <3>1, <3>2, <3>3, <2>3, <1>1, SizeAssumption DEF Ends
    <2>4. CASE i # n
      <3>1. i + 1 \in 1 .. n /\ i < n
        BY <2>4, <1>1
      <3>2. cs[i + 1].off = cs[i].off + RecLen(cs[i])
        BY <3>1 DEF Fits
      <3>3. cs[i + 1].off \in 0 .. BlockWords - 1
        BY <3>1, <1>2
      <3>4. cs[i].off + RecLen(cs[i]) <= BlockWords
        BY <3>2, <3>3, SizeAssumption
      <3> QED
        BY <3>1, <3>2, <3>4, <2>2, <2>4, <1>3
    <2> QED
      BY <2>3, <2>4
  <1>7. ~ Ends(b, 0)
    <2>1. 1 \in 1 .. n
      BY <1>1
    <2> QED
      BY <2>1, <1>4, <1>5
  <1>8. ChainFrom(b, 0, s)
    BY <1>3, <1>4, <1>5, <1>6, <1>7 DEF ChainFrom
  <1>9. Offsets(b) = s
    BY <1>8, ChainIsOffsets, SizeAssumption DEF Offsets
  <1>10. DOMAIN s = 1 .. n
    BY <1>3
  <1>11. \A i \in 1 .. n : EntryAt(b, s[i]) = cs[i].words
    BY <1>3 DEF InBlock
  <1> QED
    BY <1>9, <1>10, <1>11 DEF Listed, Views

\* Of entries that follow one another the later lie further along: by
\* induction on how many lie between.
LEMMA ChainIsOrdered ==
  ASSUME NEW n \in Nat, NEW o \in [1 .. n -> Nat], NEW l \in [1 .. n -> Nat],
         \A i \in 1 .. n : i < n => o[i + 1] = o[i] + l[i]
  PROVE  \A i, j \in 1 .. n : i < j => o[i] + l[i] <= o[j]
  <1> DEFINE T == {k \in Nat : \A i, j \in 1 .. n :
                      j = i + 1 + k => o[i] + l[i] <= o[j]}
  <1>1. ASSUME NEW k \in Nat, \A m \in Nat : m < k => m \in T
        PROVE  k \in T
    <2> SUFFICES ASSUME NEW i \in 1 .. n, NEW j \in 1 .. n, j = i + 1 + k
                 PROVE  o[i] + l[i] <= o[j]
      OBVIOUS
    <2>1. CASE k = 0
      BY <2>1
    <2>2. CASE k # 0
      <3> DEFINE m == k - 1
                 p == j - 1
      <3>1. m \in Nat /\ m < k /\ p \in 1 .. n /\ p < n /\ p + 1 = j
            /\ p = i + 1 + m
        BY <2>2
      <3>2. m \in T
        BY <3>1, <1>1
      <3> HIDE DEF m, p
      <3>3. o[i] + l[i] <= o[p]
        BY <3>1, <3>2
      <3>4. o[j] = o[p] + l[p]
        BY <3>1
      <3> QED
        BY <3>1, <3>3, <3>4
    <2> QED
      BY <2>1, <2>2
  <1>2. \A k \in Nat : k \in T
    <2> HIDE DEF T
    <2>1. T \subseteq Nat
      BY DEF T
    <2> QED
      BY <1>1, <2>1, Induction
  <1> SUFFICES ASSUME NEW i \in 1 .. n, NEW j \in 1 .. n, i < j
               PROVE  o[i] + l[i] <= o[j]
    OBVIOUS
  <1>3. j - i - 1 \in T /\ j = i + 1 + (j - i - 1)
    <2> HIDE DEF T
    <2> QED
      BY <1>2
  <1> QED
    BY <1>3

\* An entry whose text lies in the block is a cell.
LEMMA EntryIsCell ==
  ASSUME NEW b \in [Span -> Word], NEW p \in 0 .. BlockWords - 1,
         p + 2 + b[p + 1].nl <= BlockWords
  PROVE  LET e == [off |-> p, words |-> EntryAt(b, p)]
         IN  /\ e \in Cell
             /\ Ino(e) = b[p].num
             /\ RecLen(e) = b[p + 1].len /\ RecLen(e) \in Nat
             /\ TextLen(e) = b[p + 1].nl /\ TextLen(e) \in Nat
             /\ Len(e.words) >= 2 /\ Len(e.words) = 2 + TextLen(e)
  <1> DEFINE e == [off |-> p, words |-> EntryAt(b, p)]
             n == b[p + 1].nl
             w == EntryAt(b, p)
  <1>1. p + 1 \in Span /\ b[p + 1] \in Word
    BY SizeAssumption DEF Span
  <1>2. n \in Nat /\ b[p + 1].len \in Nat
    BY <1>1 DEF Word
  <1>3. \A k \in 1 .. 2 + n : p + k - 1 \in Span
    BY <1>2, SizeAssumption DEF Span
  <1>4. w = [k \in 1 .. 2 + n |-> b[p + k - 1]]
    BY DEF EntryAt
  <1>5. \A k \in 1 .. 2 + n : b[p + k - 1] \in Word
    BY <1>3
  <1>6. w \in Seq(Word) /\ Len(w) = 2 + n
    <2> HIDE DEF n, w
    <2> QED
      BY <1>2, <1>4, <1>5
  <1>7. w[1] = b[p] /\ w[2] = b[p + 1]
    BY <1>2, <1>4
  <1>8. e.off = p /\ e.words = w
    OBVIOUS
  <1> HIDE DEF w, n
  <1>9. e \in Cell
    BY <1>6, <1>8 DEF Cell
  <1> HIDE DEF e
  <1> QED
    BY <1>2, <1>6, <1>7, <1>8, <1>9 DEF e, n, w, Ino, RecLen, TextLen

\* A directory with room is one, as it is found.
LEMMA RoomyFits ==
  ASSUME NEW b \in [Span -> Word], IsDot(b), Roomy(b)
  PROVE  \E cs, h : Fits(cs, h) /\ Clean(b, h) /\ InBlock(cs, b)
  <1> DEFINE s  == Offsets(b)
             n  == Len(s)
             l  == s[n]
             h  == l + 2 + b[l + 1].nl
             cs == [i \in 1 .. n |-> [off |-> s[i], words |-> EntryAt(b, s[i])]]
  <1>1. ChainFrom(b, 0, s)
    BY OffsetsAreChain, SizeAssumption DEF Offsets
  <1>2. ~ Ends(b, 0)
    BY InodeAssumption, SizeAssumption DEF IsDot, Ends
  <1>3. /\ s \in Seq(0 .. BlockWords - 1) /\ s # <<>> /\ s[1] = 0
        /\ \A i \in 1 .. n : ~ Ends(b, s[i])
        /\ \A i \in 1 .. n : i # n => s[i + 1] = After(b, s[i])
    BY <1>1, <1>2 DEF ChainFrom
  <1>4. /\ \A i \in DOMAIN s :
             /\ 2 + b[s[i] + 1].nl <= b[s[i] + 1].len
             /\ s[i] + b[s[i] + 1].len <= BlockWords
             /\ Goes(EntryAt(b, s[i])) => s[i] + b[l + 1].len >= h
        /\ ~ Goes(EntryAt(b, l))
        /\ Clean(b, h)
    BY DEF Roomy
  <1> HIDE DEF s
  <1>5. n \in Nat /\ n >= 1 /\ DOMAIN s = 1 .. n /\ n \in 1 .. n
    BY <1>3
  <1>50. /\ \A i \in 1 .. n : s[i] \in 0 .. BlockWords - 1 /\ ~ Ends(b, s[i])
         /\ l \in 0 .. BlockWords - 1
    <2>1. \A i \in 1 .. n : s[i] \in 0 .. BlockWords - 1
      <3>1. \A S : \A q \in Seq(S) : \A i \in 1 .. Len(q) : q[i] \in S
        OBVIOUS
      <3> QED
        BY <1>3, <3>1
    <2> QED
      BY <2>1, <1>3, <1>5
  <1>6. ASSUME NEW i \in 1 .. n
        PROVE  LET c == cs[i]
               IN  /\ c \in Cell /\ c.off = s[i] /\ c.words = EntryAt(b, s[i])
                   /\ Ino(c) = b[s[i]].num /\ Ino(c) # 0
                   /\ RecLen(c) = b[s[i] + 1].len /\ RecLen(c) \in Nat
                   /\ TextLen(c) = b[s[i] + 1].nl /\ TextLen(c) \in Nat
                   /\ Len(c.words) >= 2 /\ Len(c.words) = 2 + TextLen(c)
                   /\ c.off \in Nat
                   /\ 2 + TextLen(c) <= RecLen(c)
                   /\ c.off + RecLen(c) <= BlockWords
                   /\ Goes(c.words) => h <= c.off + b[l + 1].len
    <2> DEFINE c == cs[i]
    <2>1. s[i] \in 0 .. BlockWords - 1 /\ ~ Ends(b, s[i])
      BY <1>50
    <2>2. 2 + b[s[i] + 1].nl <= b[s[i] + 1].len
          /\ s[i] + b[s[i] + 1].len <= BlockWords
          /\ (Goes(EntryAt(b, s[i])) => s[i] + b[l + 1].len >= h)
      BY <1>4, <1>5
    <2>3. b[s[i] + 1].nl \in Nat /\ b[s[i] + 1].len \in Nat
          /\ b[l + 1].nl \in Nat /\ b[l + 1].len \in Nat /\ l \in Nat
      <3>1. s[i] + 1 \in Span /\ l + 1 \in Span /\ l \in Nat
        <4> HIDE DEF l
        <4> QED
          BY <1>50, <2>1, SizeAssumption DEF Span
      <3> QED
        BY <3>1 DEF Word
    <2>4. s[i] + 2 + b[s[i] + 1].nl <= BlockWords
      <3>1. \A o, t, r \in Nat :
              2 + t <= r /\ o + r <= BlockWords => o + 2 + t <= BlockWords
        BY SizeAssumption
      <3>2. s[i] \in Nat
        BY <2>1, SizeAssumption
      <3> QED
        BY <2>2, <2>3, <3>1, <3>2
    <2>5. c = [off |-> s[i], words |-> EntryAt(b, s[i])]
      OBVIOUS
    <2>6. c.off = s[i] /\ c.words = EntryAt(b, s[i])
      BY <2>5
    <2> HIDE DEF c
    <2>7. /\ c \in Cell
          /\ Ino(c) = b[s[i]].num
          /\ RecLen(c) = b[s[i] + 1].len
          /\ TextLen(c) = b[s[i] + 1].nl
          /\ Len(c.words) >= 2 /\ Len(c.words) = 2 + TextLen(c)
      BY <2>1, <2>4, <2>5, EntryIsCell
    <2>8. b[s[i]].num # 0
      BY <2>1 DEF Ends
    <2>9. c.off \in Nat
      BY <2>1, <2>6, SizeAssumption
    <2>10. Goes(c.words) => h <= c.off + b[l + 1].len
      BY <2>1, <2>2, <2>3, <2>6, SizeAssumption
    <2>11. /\ c \in Cell /\ c.off = s[i] /\ c.words = EntryAt(b, s[i])
           /\ Ino(c) = b[s[i]].num /\ Ino(c) # 0
           /\ RecLen(c) = b[s[i] + 1].len /\ RecLen(c) \in Nat
           /\ TextLen(c) = b[s[i] + 1].nl /\ TextLen(c) \in Nat
           /\ Len(c.words) >= 2 /\ Len(c.words) = 2 + TextLen(c)
           /\ c.off \in Nat
           /\ 2 + TextLen(c) <= RecLen(c)
           /\ c.off + RecLen(c) <= BlockWords
      BY <2>2, <2>3, <2>6, <2>7, <2>8, <2>9
    <2> QED
      BY <2>10, <2>11 DEF c
  <1>7. cs \in Seq(Cell) /\ Len(cs) = n
    <2>1. \A i \in 1 .. n : cs[i] \in Cell
      BY <1>6
    <2>2. cs = [i \in 1 .. n |-> cs[i]] /\ DOMAIN cs = 1 .. n
      OBVIOUS
    <2> HIDE DEF cs, n
    <2> QED
      BY <2>1, <2>2, <1>5
  <1> HIDE DEF cs
  <1>8. ASSUME NEW i \in 1 .. n, i < n
        PROVE  cs[i + 1].off = cs[i].off + RecLen(cs[i])
    <2>1. i + 1 \in 1 .. n /\ s[i] \in 0 .. BlockWords
      BY <1>50, <1>5, <1>8, SizeAssumption
    <2>2. After(b, s[i]) = s[i] + b[s[i] + 1].len
      <3>1. ~ Ends(b, s[i]) /\ s[i] + b[s[i] + 1].len <= BlockWords
        BY <1>3, <1>4, <1>5
      <3> QED
        BY <3>1, <2>1, AfterIsBehind
    <2>3. s[i + 1] = After(b, s[i])
      <3>1. i # n
        <4> HIDE DEF n
        <4> QED
          BY <1>5, <1>8
      <3> QED
        BY <3>1, <1>3
    <2>4. cs[i + 1].off = s[i + 1]
      BY <2>1, <1>6
    <2>5. cs[i].off = s[i] /\ RecLen(cs[i]) = b[s[i] + 1].len
      BY <1>6
    <2> QED
      BY <2>2, <2>3, <2>4, <2>5
  <1>9. \A i, j \in 1 .. n : i < j => cs[i].off + RecLen(cs[i]) <= cs[j].off
    <2> DEFINE o == [i \in 1 .. n |-> cs[i].off]
               r == [i \in 1 .. n |-> RecLen(cs[i])]
    <2>1. o \in [1 .. n -> Nat] /\ r \in [1 .. n -> Nat]
      BY <1>6
    <2>2. \A i \in 1 .. n : i < n => o[i + 1] = o[i] + r[i]
      BY <1>5, <1>8
    <2>3. \A i, j \in 1 .. n : i < j => o[i] + r[i] <= o[j]
      <3> HIDE DEF o, r, n
      <3> QED
        BY <2>1, <2>2, <1>5, ChainIsOrdered
    <2> QED
      BY <2>3
  <1>10. /\ cs[n].off = l /\ cs[n].words = EntryAt(b, l)
         /\ TextLen(cs[n]) = b[l + 1].nl /\ RecLen(cs[n]) = b[l + 1].len
         /\ TextLen(cs[n]) \in Nat /\ RecLen(cs[n]) \in Nat /\ l \in Nat
         /\ 2 + TextLen(cs[n]) <= RecLen(cs[n])
         /\ l + RecLen(cs[n]) <= BlockWords
    <2>1. cs[n].off \in Nat /\ cs[n].off + RecLen(cs[n]) <= BlockWords
      BY <1>5, <1>6
    <2> QED
      BY <2>1, <1>5, <1>6
  <1>11. h = cs[n].off + 2 + TextLen(cs[n]) /\ h \in 0 .. BlockWords
         /\ h <= cs[n].off + RecLen(cs[n])
    BY SMTT(20), <1>10, SizeAssumption
  <1>12. /\ cs[1].off = 0 /\ ~ Goes(cs[1].words) /\ ~ Goes(cs[n].words)
         /\ cs[n].off + RecLen(cs[n]) <= BlockWords
    <2>1. cs[1].off = s[1] /\ cs[1].words = EntryAt(b, s[1])
      BY <1>5, <1>6
    <2>2. View(EntryAt(b, 0)).ft = DIR_FT_DIR
      <3>1. b[0 + 1].nl = 1 /\ b[1].ft = DIR_FT_DIR
        BY DEF IsDot
      <3>2. EntryAt(b, 0) = [k \in 1 .. 3 |-> b[0 + k - 1]]
        BY <3>1 DEF EntryAt
      <3>3. EntryAt(b, 0)[2] = b[1]
        BY <3>2
      <3> QED
        BY <3>1, <3>3 DEF View
    <2>3. ~ Goes(cs[1].words)
      BY <2>1, <2>2, <1>3 DEF Goes, DIR_FT_FILE, DIR_FT_DIR
    <2> QED
      BY <2>1, <2>3, <1>3, <1>4, <1>10
  <1>13. \A i \in 1 .. n :
           /\ Len(cs[i].words) >= 2 /\ Len(cs[i].words) = 2 + TextLen(cs[i])
           /\ Ino(cs[i]) # 0
           /\ 2 + TextLen(cs[i]) <= RecLen(cs[i])
           /\ i < n => cs[i + 1].off = cs[i].off + RecLen(cs[i])
           /\ Goes(cs[i].words) => h <= cs[i].off + RecLen(cs[n])
    <2> HIDE DEF h
    <2> QED
      BY <1>6, <1>8, <1>10
  <1> HIDE DEF h, n, l
  <1>14. cs[n].off + 2 + TextLen(cs[n]) <= h
    BY <1>11
  <1>15. Fits(cs, h)
    BY <1>5, <1>7, <1>9, <1>11, <1>12, <1>13, <1>14 DEF Fits
  <1>16. InBlock(cs, b)
    BY <1>6, <1>7 DEF InBlock
  <1> QED
    BY <1>4, <1>15, <1>16

-----------------------------------------------------------------------------
(* The directory keeps its room, and a command reads all of it.            *)

EndOf(cs) == cs[Len(cs)].off + RecLen(cs[Len(cs)])

\* The cells cs are the directory's, or those that are being moved; what has
\* been read of them is the list.
RoomFor(cs, h) ==
  /\ Fits(cs, h) /\ Clean(block, h)
  /\ target \in Removable \cup {NoName}
  /\ pc # "shift" => InBlock(cs, block)
  /\ pc = "read" =>
       /\ Len(list) <= Len(cs)
       /\ \A i \in 1 .. Len(list) : list[i] = cs[i]
       /\ sentinel = IF Len(list) < Len(cs) THEN cs[Len(list) + 1].off
                                           ELSE EndOf(cs)
  /\ pc \in {"find", "shift"} => list = cs
  /\ pc = "shift" => Goes(cs[victim].words)

RoomInv == \E cs, h : RoomFor(cs, h)

\* The images are roomy to begin with.
LEMMA InitRoom == Init => RoomInv
  <1> SUFFICES ASSUME Init PROVE RoomInv
    OBVIOUS
  <1>1. PICK i \in Images : block = i.block
    BY DEF Init
  <1>2. block \in [Span -> Word] /\ IsDot(block) /\ Roomy(block)
    BY <1>1, ImageAssumption, RoomyAssumption
  <1>3. PICK cs, h : Fits(cs, h) /\ Clean(block, h) /\ InBlock(cs, block)
    BY <1>2, RoomyFits
  <1>4. RoomFor(cs, h)
    BY <1>3 DEF RoomFor, Init
  <1> QED
    BY <1>4 DEF RoomInv

\* A step that neither writes nor reads keeps the room.
LEMMA QuietRoom ==
  ASSUME RoomInv, pc # "shift", pc' \in {"free", "crash", "prompt"},
         target' \in {target, NoName}, block' = block
  PROVE  RoomInv'
  <1>1. PICK cs, h : RoomFor(cs, h)
    BY DEF RoomInv
  <1>2. RoomFor(cs, h)'
    BY <1>1 DEF RoomFor
  <1> QED
    BY <1>2 DEF RoomInv

\* A command that is typed touches no block.
LEMMA TypeCommandRoom ==
  ASSUME IInv, RoomInv, NEW n \in Removable \cup {NoName}, TypeCommand(n)
  PROVE  RoomInv'
  <1>1. PICK cs, h : RoomFor(cs, h)
    BY DEF RoomInv
  <1>2. /\ pc = "prompt" /\ pc' = "read" /\ target' = n
        /\ UNCHANGED <<block, list, sentinel>>
    BY DEF TypeCommand, disk
  <1>3. list = <<>> /\ Len(list) = 0 /\ sentinel = 0
    BY <1>2 DEF IInv, Idle
  <1>4. Fits(cs, h) /\ Clean(block, h) /\ InBlock(cs, block)
    BY <1>1, <1>2 DEF RoomFor
  <1>5. Len(cs) >= 1 /\ cs[1].off = 0 /\ Len(cs) \in Nat
    BY <1>4 DEF Fits
  <1>6. 0 < Len(cs) /\ 0 + 1 = 1
    BY <1>5
  <1>7. RoomFor(cs, h)'
    BY <1>2, <1>3, <1>4, <1>5, <1>6 DEF RoomFor
  <1> QED
    BY <1>7 DEF RoomInv

\* While the list is not complete, the cursor is at the next of the cells.
LEMMA ReadsCells ==
  ASSUME IInv, pc = "read", NEW cs, NEW h, RoomFor(cs, h)
  PROVE  /\ at = sentinel /\ at \in 0 .. BlockWords - 1
         /\ Len(list) < Len(cs) => block[at].num # 0
         /\ Len(list) >= Len(cs) => block[at].num = 0 /\ list = cs
  <1>1. at = sentinel /\ at \in Nat /\ at < BlockWords /\ list \in Seq(Cell)
        /\ Len(list) \in Nat /\ block \in [Span -> Word]
    BY DEF IInv, TypeOK, CursorAgrees
  <1>2. /\ Fits(cs, h) /\ Clean(block, h) /\ InBlock(cs, block)
        /\ Len(list) <= Len(cs)
        /\ \A i \in 1 .. Len(list) : list[i] = cs[i]
        /\ at = IF Len(list) < Len(cs) THEN cs[Len(list) + 1].off ELSE EndOf(cs)
    BY <1>1 DEF RoomFor
  <1>3. cs \in Seq(Cell) /\ Len(cs) \in Nat
    BY <1>2 DEF Fits
  <1>4. ASSUME Len(list) < Len(cs) PROVE block[at].num # 0
    <2> DEFINE k == Len(list) + 1
    <2>1. k \in 1 .. Len(cs) /\ at = cs[k].off
      BY <1>1, <1>2, <1>3, <1>4
    <2> HIDE DEF k
    <2>2. block[cs[k].off].num = Ino(cs[k])
      BY <1>1, <1>2, <2>1, CellInBlock
    <2>3. Ino(cs[k]) # 0
      BY <1>2, <2>1 DEF Fits
    <2> QED
      BY <2>1, <2>2, <2>3
  <1>5. ASSUME Len(list) >= Len(cs) PROVE block[at].num = 0 /\ list = cs
    <2>1. Len(list) = Len(cs)
      BY <1>1, <1>2, <1>3, <1>5
    <2>2. list = cs
      BY <1>1, <1>2, <1>3, <2>1
    <2>3. at = EndOf(cs)
      BY <1>2, <1>3, <2>1
    <2>4. h <= at /\ h \in Nat
      BY <1>2, <2>3 DEF Fits, EndOf
    <2>5. at \in h .. BlockWords - 1
      BY <1>1, <2>4, SizeAssumption
    <2> QED
      BY <2>2, <2>5, <1>2 DEF Clean
  <1> QED
    BY <1>1, <1>4, <1>5, SizeAssumption

\* The list read so far follows the offsets of the block.
LEMMA ReadEntryRoom == ASSUME IInv, RoomInv, ReadEntry PROVE RoomInv'
  <1> DEFINE e == [off |-> sentinel, words |-> EntryAt(block, at)]
             k == Len(list) + 1
  <1>1. PICK cs, h : RoomFor(cs, h)
    BY DEF RoomInv
  <1>2. /\ pc = "read" /\ block[at].num # 0
        /\ list' = Append(list, e)
        /\ sentinel' = sentinel + RecLen(e)
        /\ \/ sentinel' >= BlockWords /\ pc' = "find"
           \/ ~ (sentinel' >= BlockWords) /\ pc' = "read"
        /\ UNCHANGED <<block, target>>
    BY DEF ReadEntry, EntryHere, Past, disk
  <1>3. /\ Fits(cs, h) /\ Clean(block, h) /\ InBlock(cs, block)
        /\ target \in Removable \cup {NoName}
        /\ Len(list) <= Len(cs)
        /\ \A i \in 1 .. Len(list) : list[i] = cs[i]
        /\ sentinel = IF Len(list) < Len(cs) THEN cs[Len(list) + 1].off
                                            ELSE EndOf(cs)
    BY <1>1, <1>2 DEF RoomFor
  <1>4. list \in Seq(Cell) /\ Len(list) \in Nat /\ cs \in Seq(Cell)
        /\ Len(cs) \in Nat /\ k \in Nat
    BY <1>3 DEF IInv, TypeOK, Fits
  <1>5. at = sentinel /\ Len(list) < Len(cs)
    BY <1>1, <1>2, <1>4, ReadsCells
  <1>6. k \in 1 .. Len(cs) /\ sentinel = cs[k].off
    BY <1>3, <1>4, <1>5
  <1>7. e = cs[k]
    <2>1. cs[k] \in Cell
      BY <1>3, <1>6, FitType
    <2>2. cs[k].words = EntryAt(block, cs[k].off)
      BY <1>3, <1>6 DEF InBlock
    <2> HIDE DEF k
    <2> QED
      BY <2>1, <2>2, <1>5, <1>6 DEF Cell
  <1> HIDE DEF e
  <1>8. e \in Cell /\ RecLen(e) \in Nat /\ sentinel \in Nat
    BY <1>3, <1>6, <1>7, FitType
  <1>9. /\ list' \in Seq(Cell) /\ Len(list') = k
        /\ \A i \in 1 .. k : list'[i] = cs[i]
    <2>1. list' \in Seq(Cell) /\ Len(list') = k /\ list'[k] = e
          /\ \A i \in 1 .. Len(list) : list'[i] = list[i]
      BY <1>2, <1>4, <1>8
    <2>2. \A i \in 1 .. k : i = k \/ i \in 1 .. Len(list)
      BY <1>4
    <2> HIDE DEF k
    <2> QED
      BY <2>1, <2>2, <1>3, <1>7
  <1>10. sentinel' = IF k < Len(cs) THEN cs[k + 1].off ELSE EndOf(cs)
    <2>1. sentinel' = cs[k].off + RecLen(cs[k])
      BY <1>2, <1>6, <1>7
    <2>2. CASE k < Len(cs)
      BY <2>1, <2>2, <1>3, <1>6 DEF Fits
    <2>3. CASE ~ (k < Len(cs))
      <3>1. k = Len(cs)
        BY <2>3, <1>4, <1>6
      <3> HIDE DEF k
      <3> QED
        BY <3>1, <2>1, <2>3 DEF EndOf
    <2> QED
      BY <2>2, <2>3
  <1>11. CASE pc' = "read"
    <2>1. RoomFor(cs, h)'
      BY <1>2, <1>3, <1>4, <1>6, <1>9, <1>10, <1>11 DEF RoomFor
    <2> QED
      BY <2>1 DEF RoomInv
  <1>12. CASE pc' = "find"
    <2>1. sentinel' >= BlockWords
      BY <1>2, <1>12
    <2>2. ~ (k < Len(cs))
      <3> SUFFICES ASSUME k < Len(cs) PROVE FALSE
        OBVIOUS
      <3>1. k + 1 \in 1 .. Len(cs) /\ sentinel' = cs[k + 1].off
        BY <1>4, <1>10
      <3> DEFINE m == k + 1
      <3> HIDE DEF m
      <3>2. m \in 1 .. Len(cs) /\ sentinel' = cs[m].off
        BY <3>1 DEF m
      <3>3. cs[m].off < BlockWords /\ cs[m].off \in Nat
        BY <3>2, <1>3, FitType
      <3> QED
        BY <3>2, <3>3, <2>1, SizeAssumption
    <2>3. k = Len(cs)
      BY <2>2, <1>4, <1>6
    <2>4. list' = cs
      BY <2>3, <1>4, <1>9
    <2>5. RoomFor(cs, h)'
      BY <1>2, <1>3, <1>12, <2>4 DEF RoomFor
    <2> QED
      BY <2>5 DEF RoomInv
  <1> QED
    BY <1>2, <1>11, <1>12

\* When the list ends it holds all that the block lists.
LEMMA EndOfListRoom == ASSUME IInv, RoomInv, EndOfList PROVE RoomInv'
  <1>1. PICK cs, h : RoomFor(cs, h)
    BY DEF RoomInv
  <1>2. /\ pc = "read" /\ block[at].num = 0 /\ pc' \in {"find", "crash"}
        /\ UNCHANGED <<block, target, list>>
    BY DEF EndOfList, disk
  <1>3. list = cs
    <2>1. Len(list) \in Nat /\ Len(cs) \in Nat
      BY <1>1 DEF IInv, TypeOK, RoomFor, Fits
    <2> QED
      BY <2>1, <1>1, <1>2, ReadsCells
  <1>4. RoomFor(cs, h)'
    BY <1>1, <1>2, <1>3 DEF RoomFor
  <1> QED
    BY <1>4 DEF RoomInv

\* Behind a block that is not the image's last one the bounds checks let every
\* entry be read.
LEMMA ReadsToTheEnd == ASSUME IInv, RoomInv PROVE ~ ReadFatal
  <1> SUFFICES ASSUME ReadFatal PROVE FALSE
    OBVIOUS
  <1>1. PICK cs, h : RoomFor(cs, h)
    BY DEF RoomInv
  <1>2. pc = "read" /\ Fits(cs, h) /\ InBlock(cs, block)
    BY <1>1 DEF ReadFatal, RoomFor
  <1>3. /\ at = sentinel /\ at \in 0 .. BlockWords - 1
        /\ Len(list) >= Len(cs) => block[at].num = 0
        /\ Len(list) \in Nat /\ Len(cs) \in Nat
    BY <1>1, <1>2, ReadsCells DEF IInv, TypeOK, Fits
  <1>4. /\ ImageWords \in Nat /\ BlockWords \in Nat
        /\ ImageWords >= BlockWords + 8
    BY RoomyAssumption, SizeAssumption
  <1>5. CanReadInode(at)
    BY <1>3, <1>4 DEF CanReadInode
  <1>6. /\ block[at].num # 0
        /\ \/ ~ CanReadText(at, EntryHere)
           \/ /\ ~ Past(sentinel + RecLen(EntryHere))
              /\ ~ CanSkipTo(Following(EntryHere))
    BY <1>5 DEF ReadFatal
  <1>7. CanSkipTo(Following(EntryHere)) \/ Past(sentinel + RecLen(EntryHere))
    <2>1. RecLen(EntryHere) \in Nat
      BY <1>3, EntryType DEF EntryHere, IInv, TypeOK
    <2> QED
      BY <2>1, <1>3, <1>4 DEF CanSkipTo, Following, Past
  <1>8. CanReadText(at, EntryHere)
    <2> DEFINE k == Len(list) + 1
    <2>1. k \in 1 .. Len(cs)
      BY <1>3, <1>6
    <2>2. at = cs[k].off
      BY <1>1, <1>2, <1>3, <2>1 DEF RoomFor
    <2> HIDE DEF k
    <2>3. TextLen(EntryHere) = TextLen(cs[k])
      BY <1>2, <2>1, <2>2 DEF InBlock, EntryHere, TextLen
    <2>4. /\ cs[k].off + 2 + TextLen(cs[k]) <= h /\ h \in 0 .. BlockWords
          /\ TextLen(cs[k]) \in Nat /\ cs[k].off \in Nat
      BY <1>2, <2>1, FitType DEF Fits
    <2> QED
      BY <2>2, <2>3, <2>4, <1>4 DEF CanReadText
  <1> QED
    BY <1>6, <1>7, <1>8

-----------------------------------------------------------------------------
(* Deleting a file keeps the room.                                         *)

\* The entry rm finds is one that may go, so it is not the last.
LEMMA FoundGoes ==
  ASSUME IInv, pc = "find", NEW cs, NEW h, RoomFor(cs, h),
         NEW v \in DOMAIN list, Finds(v), Type(list[v]) = DIR_FT_FILE
  PROVE  Goes(cs[v].words) /\ v \in 1 .. Len(cs) /\ v < Len(cs) /\ list = cs
  <1>1. list = cs /\ Fits(cs, h) /\ target \in Removable \cup {NoName}
    BY DEF RoomFor
  <1>2. list \in Seq(Cell) /\ Len(list) \in Nat /\ v \in 1 .. Len(list)
    BY DEF IInv, TypeOK
  <1>3. target \in Removable /\ TextLen(list[v]) > 0
        /\ list[v].words[3].txt = target
    BY <1>1 DEF Finds, IsNamed
  <1>4. Goes(list[v].words)
    BY <1>3 DEF Goes, View, TextLen, Type
  <1>5. ~ Goes(cs[Len(cs)].words)
    BY <1>1 DEF Fits
  <1> QED
    BY <1>1, <1>2, <1>4, <1>5

\* What is deleted is not the last entry, so no word is written yet.
LEMMA DeleteFileRoom ==
  ASSUME IInv, RoomInv, NEW v \in DOMAIN list, DeleteFile(v)
  PROVE  RoomInv' /\ pc' = "shift" /\ block' = block
  <1>1. PICK cs, h : RoomFor(cs, h)
    BY DEF RoomInv
  <1>2. /\ pc = "find" /\ Finds(v) /\ Type(list[v]) = DIR_FT_FILE
        /\ victim' = v
        /\ v # Len(list) => block' = block /\ pc' = "shift"
        /\ UNCHANGED <<target, list>>
    BY DEF DeleteFile
  <1>3. Goes(cs[v].words) /\ v \in 1 .. Len(cs) /\ v < Len(cs) /\ list = cs
    BY <1>1, <1>2, FoundGoes
  <1>4. Len(cs) \in Nat
    BY <1>1 DEF RoomFor, Fits
  <1>5. pc' = "shift" /\ block' = block
    BY <1>2, <1>3, <1>4
  <1>6. RoomFor(cs, h)'
    BY <1>1, <1>2, <1>3, <1>5 DEF RoomFor
  <1> QED
    BY <1>5, <1>6 DEF RoomInv

\* The cells cs when v of them has gone.
Lowered(cs, v) ==
  [i \in 1 .. Len(cs) - 1 |->
     IF i < v THEN cs[i]
     ELSE [off |-> cs[i + 1].off - RecLen(cs[v]), words |-> cs[i + 1].words]]

\* They have as much room as before.
LEMMA LoweredFits ==
  ASSUME NEW cs, NEW h, Fits(cs, h), NEW v \in 1 .. Len(cs), Goes(cs[v].words)
  PROVE  /\ v > 1 /\ v < Len(cs)
         /\ Fits(Lowered(cs, v), h)
         /\ Len(Lowered(cs, v)) = Len(cs) - 1
         /\ \A i \in 1 .. Len(cs) - 1 :
              LET j == IF i < v THEN i ELSE i + 1
              IN  /\ j \in 1 .. Len(cs) /\ j # v
                  /\ Lowered(cs, v)[i].words = cs[j].words
                  /\ Lowered(cs, v)[i].off
                       = IF j < v THEN cs[j].off ELSE cs[j].off - RecLen(cs[v])
  <1> DEFINE n == Len(cs)
             m == n - 1
             l == RecLen(cs[v])
             ds == Lowered(cs, v)
             J(i) == IF i < v THEN i ELSE i + 1
             O(j) == IF j < v THEN cs[j].off ELSE cs[j].off - l
  <1>a. cs \in Seq(Cell) /\ n \in Nat
    BY DEF Fits
  <1>1. /\ cs \in Seq(Cell) /\ n \in Nat /\ h \in 0 .. BlockWords /\ cs[1].off = 0
        /\ \A i \in 1 .. n :
             /\ Len(cs[i].words) >= 2 /\ Len(cs[i].words) = 2 + TextLen(cs[i])
             /\ Ino(cs[i]) # 0
             /\ 2 + TextLen(cs[i]) <= RecLen(cs[i])
             /\ i < n => cs[i + 1].off = cs[i].off + RecLen(cs[i])
             /\ Goes(cs[i].words) => h <= cs[i].off + RecLen(cs[n])
        /\ \A i, j \in 1 .. n : i < j => cs[i].off + RecLen(cs[i]) <= cs[j].off
        /\ ~ Goes(cs[1].words) /\ ~ Goes(cs[n].words)
        /\ cs[n].off + 2 + TextLen(cs[n]) <= h
        /\ h <= cs[n].off + RecLen(cs[n])
        /\ cs[n].off + RecLen(cs[n]) <= BlockWords
    BY ZenonT(30), <1>a DEF Fits
  <1>0. v > 1 /\ v < n
    <2>1. v # 1 /\ v # n
      BY <1>1
    <2> QED
      BY <2>1, <1>1
  <1>2. \A i \in 1 .. n : /\ cs[i] \in Cell /\ cs[i].off \in Nat
                          /\ RecLen(cs[i]) \in Nat /\ TextLen(cs[i]) \in Nat
    BY FitType
  <1>3. l \in Nat /\ cs[v].off \in Nat
    BY <1>2
  <1>4. \A i \in 1 .. m : J(i) \in 1 .. n /\ J(i) # v /\ (J(i) < v <=> i < v)
                         /\ (J(i) = n <=> i = m)
    BY <1>0, <1>1
  <1> HIDE DEF n
  <1>5. \A j \in 1 .. n : v < j => cs[v].off + l <= cs[j].off
    BY <1>1
  <1>6. \A j \in 1 .. n : j # v => O(j) \in Nat
    <2> SUFFICES ASSUME NEW j \in 1 .. n, j # v PROVE O(j) \in Nat
      OBVIOUS
    <2>1. CASE j < v
      BY <2>1, <1>2
    <2>2. CASE v < j
      <3>1. \A a, b, c \in Nat : b + c <= a => a - c \in Nat
        OBVIOUS
      <3>2. cs[j].off - l \in Nat
        <4> HIDE DEF l
        <4> QED
          BY <3>1, <2>2, <1>2, <1>3, <1>5
      <3> QED
        BY <3>2, <2>2, <1>1
    <2> QED
      BY <2>1, <2>2, <1>1
  <1>7. \A i \in 1 .. m : /\ ds[i].off = O(J(i)) /\ ds[i].words = cs[J(i)].words
                          /\ ds[i] \in Cell
    <2> SUFFICES ASSUME NEW i \in 1 .. m
                 PROVE  /\ ds[i].off = O(J(i)) /\ ds[i].words = cs[J(i)].words
                        /\ ds[i] \in Cell
      OBVIOUS
    <2>1. J(i) \in 1 .. n /\ J(i) # v /\ (J(i) < v <=> i < v)
      BY <1>4
    <2>2. CASE i < v
      <3>1. ds[i] = cs[i] /\ J(i) = i
        BY <2>2 DEF Lowered, n
      <3> QED
        BY <3>1, <2>1, <2>2, <1>2
    <2>3. CASE ~ (i < v)
      <3>1. ds[i] = [off |-> cs[i + 1].off - l, words |-> cs[i + 1].words]
            /\ J(i) = i + 1
        BY <2>3 DEF Lowered, n
      <3> DEFINE j == i + 1
      <3>2. j \in 1 .. n /\ ~ (j < v) /\ j # v /\ J(i) = j
            /\ ds[i] = [off |-> cs[j].off - l, words |-> cs[j].words]
        BY <3>1, <2>1, <2>3
      <3> HIDE DEF j, ds, l
      <3>3. ds[i].off = cs[j].off - l /\ ds[i].words = cs[j].words
        BY <3>2
      <3>4. O(j) = cs[j].off - l /\ O(j) \in Nat
        BY <3>2, <1>6
      <3>5. cs[j].words \in Seq(Word)
        BY <3>2, <1>2 DEF Cell
      <3>6. ds[i] \in Cell
        BY <3>2, <3>4, <3>5 DEF Cell
      <3> QED
        BY <3>2, <3>3, <3>4, <3>6
    <2> QED
      BY <2>2, <2>3
  <1>8. ds \in Seq(Cell) /\ Len(ds) = m /\ m \in Nat /\ m >= 1
    <2>1. m \in Nat /\ m >= 1
      BY <1>0, <1>1 DEF n
    <2>2. ds = [i \in 1 .. m |-> ds[i]]
      BY DEF Lowered, n
    <2> HIDE DEF ds, m, J, O
    <2> QED
      BY <2>1, <2>2, <1>7
  <1>9. \A i \in 1 .. m : /\ Ino(ds[i]) = Ino(cs[J(i)])
                          /\ RecLen(ds[i]) = RecLen(cs[J(i)])
                          /\ TextLen(ds[i]) = TextLen(cs[J(i)])
    BY <1>7 DEF Ino, RecLen, TextLen
  <1> HIDE DEF ds, l
  <1>10. ASSUME NEW i \in 1 .. m, i < m
         PROVE  ds[i + 1].off = ds[i].off + RecLen(ds[i])
    <2> DEFINE k == i + 1
               j == J(i)
    <2>1. k \in 1 .. m /\ J(k) = IF j + 1 = v THEN v + 1 ELSE j + 1
      BY <1>4, <1>8, <1>10
    <2>2. j \in 1 .. n /\ j # v /\ j < n
      BY <1>1, <1>4, <1>8, <1>10
    <2>3. ds[k].off = O(J(k)) /\ ds[i].off = O(j) /\ RecLen(ds[i]) = RecLen(cs[j])
      BY <2>1, <1>7, <1>9
    <2> HIDE DEF k, j, J
    <2>4. CASE j + 1 = v
      <3>1. cs[v].off = cs[j].off + RecLen(cs[j]) /\ cs[v + 1].off = cs[v].off + l
        BY SMTT(20), <2>2, <2>4, <1>1 DEF l, n
      <3>2. O(J(k)) = cs[v + 1].off - l /\ O(j) = cs[j].off
        BY <2>1, <2>2, <2>4, <1>1
      <3>3. cs[v + 1].off - l = cs[v].off
        BY <3>1, <1>3
      <3> QED
        BY <3>1, <3>2, <3>3, <2>3 DEF k
    <2>5. CASE j + 1 # v
      <3>1. J(k) = j + 1 /\ j + 1 \in 1 .. n /\ (j + 1 < v <=> j < v)
        BY <2>1, <2>2, <2>5, <1>1
      <3>2. cs[j + 1].off = cs[j].off + RecLen(cs[j])
        BY <2>2, <1>1
      <3>3. cs[j].off \in Nat /\ RecLen(cs[j]) \in Nat
        BY <2>2, <1>2
      <3>4. O(j + 1) = O(j) + RecLen(cs[j])
        BY <3>1, <3>2, <3>3, <1>3
      <3> QED
        BY <3>1, <3>4, <2>3 DEF k
    <2> QED
      BY <2>4, <2>5
  <1>11. ASSUME NEW i \in 1 .. m, NEW k \in 1 .. m, i < k
         PROVE  ds[i].off + RecLen(ds[i]) <= ds[k].off
    <2> DEFINE j == J(i)
               q == J(k)
    <2>1. j \in 1 .. n /\ q \in 1 .. n /\ j < q /\ j # v /\ q # v
      BY <1>4, <1>8, <1>11
    <2>2. ds[i].off = O(j) /\ ds[k].off = O(q) /\ RecLen(ds[i]) = RecLen(cs[j])
      BY <1>7, <1>9
    <2> HIDE DEF j, q, J
    <2>3. cs[j].off + RecLen(cs[j]) <= cs[q].off
          /\ cs[j].off \in Nat /\ RecLen(cs[j]) \in Nat /\ cs[q].off \in Nat
      BY <2>1, <1>1, <1>2
    <2>4. j < v /\ v < q => cs[j].off + RecLen(cs[j]) <= cs[v].off
                           /\ cs[v].off + l <= cs[q].off
      BY <2>1, <1>1, <1>5
    <2>5. O(j) + RecLen(cs[j]) <= O(q)
      <3>1. CASE q < v
        <4>1. j < v
          BY <3>1, <2>1, <1>1
        <4> QED
          BY <3>1, <4>1, <2>3
      <3>2. CASE v < j
        <4>1. ~ (j < v) /\ ~ (q < v)
          BY <3>2, <2>1, <1>1
        <4>2. cs[j].off - l + RecLen(cs[j]) <= cs[q].off - l
          <5>1. \A a, b, c \in Nat : a + b <= c => a - l + b <= c - l
            BY <1>3
          <5> QED
            BY <5>1, <2>3
        <4> QED
          BY <4>1, <4>2
      <3>3. CASE j < v /\ v < q
        <4>1. ~ (q < v)
          BY <3>3, <2>1, <1>1
        <4>2. cs[j].off + RecLen(cs[j]) <= cs[q].off - l
          <5>1. \A a, b, c \in Nat : a <= b /\ b + l <= c => a <= c - l
            BY <1>3
          <5>2. cs[j].off + RecLen(cs[j]) \in Nat
            BY <2>3
          <5> QED
            BY <5>1, <5>2, <3>3, <2>3, <2>4, <1>3
        <4> QED
          BY <3>3, <4>1, <4>2
      <3> QED
        BY <3>1, <3>2, <3>3, <2>1, <1>1
    <2> QED
      BY <2>2, <2>5
  <1>12. /\ RecLen(ds[m]) = RecLen(cs[n]) /\ TextLen(ds[m]) = TextLen(cs[n])
         /\ ds[m].words = cs[n].words /\ ds[m].off = cs[n].off - l
         /\ cs[v].off + l <= cs[n].off
         /\ cs[n].off \in Nat /\ RecLen(cs[n]) \in Nat /\ TextLen(cs[n]) \in Nat
    <2>1. m \in 1 .. m /\ J(m) = n /\ n \in 1 .. n /\ v < n
      BY <1>0, <1>1, <1>4, <1>8 DEF n
    <2>2. /\ ds[m].off = O(J(m)) /\ ds[m].words = cs[J(m)].words
          /\ RecLen(ds[m]) = RecLen(cs[J(m)]) /\ TextLen(ds[m]) = TextLen(cs[J(m)])
      BY <2>1, <1>7, <1>9
    <2>3. O(n) = cs[n].off - l
      BY <2>1, <1>1
    <2> HIDE DEF J, O
    <2> QED
      BY <2>1, <2>2, <2>3, <1>2, <1>5
  <1>13. /\ ds[m].off + 2 + TextLen(ds[m]) <= h
         /\ h <= ds[m].off + RecLen(ds[m])
         /\ ds[m].off + RecLen(ds[m]) <= BlockWords
    <2>1. h <= cs[v].off + RecLen(cs[n])
      BY <1>1 DEF n
    <2>2. /\ cs[n].off + 2 + TextLen(cs[n]) <= h
          /\ cs[n].off + RecLen(cs[n]) <= BlockWords
      BY <1>1
    <2>3. \A o, t, r, p \in Nat :
            /\ o + 2 + t <= h /\ o + r <= BlockWords
            /\ p + l <= o /\ h <= p + r
            => /\ o - l + 2 + t <= h /\ h <= o - l + r
               /\ o - l + r <= BlockWords
      BY <1>1, <1>3, SizeAssumption
    <2>4. /\ cs[n].off - l + 2 + TextLen(cs[n]) <= h
          /\ h <= cs[n].off - l + RecLen(cs[n])
          /\ cs[n].off - l + RecLen(cs[n]) <= BlockWords
      BY <2>1, <2>2, <2>3, <1>3, <1>12
    <2> QED
      BY <2>4, <1>12
  <1>14. ASSUME NEW i \in 1 .. m
         PROVE  /\ Len(ds[i].words) >= 2 /\ Len(ds[i].words) = 2 + TextLen(ds[i])
                /\ Ino(ds[i]) # 0
                /\ 2 + TextLen(ds[i]) <= RecLen(ds[i])
                /\ Goes(ds[i].words) => h <= ds[i].off + RecLen(ds[m])
    <2> DEFINE j == J(i)
    <2>1. j \in 1 .. n /\ j # v
      BY <1>4
    <2>2. ds[i].off = O(j) /\ ds[i].words = cs[j].words
          /\ RecLen(ds[i]) = RecLen(cs[j]) /\ TextLen(ds[i]) = TextLen(cs[j])
          /\ Ino(ds[i]) = Ino(cs[j])
      BY <1>7, <1>9
    <2> HIDE DEF j, J
    <2>3. /\ Len(cs[j].words) >= 2 /\ Len(cs[j].words) = 2 + TextLen(cs[j])
          /\ Ino(cs[j]) # 0
          /\ 2 + TextLen(cs[j]) <= RecLen(cs[j])
      BY <2>1, <1>1
    <2>4. ASSUME Goes(cs[j].words) PROVE h <= O(j) + RecLen(cs[n])
      <3>1. CASE j < v
        <4>1. h <= cs[j].off + RecLen(cs[n])
          BY <2>1, <2>4, <1>1
        <4> QED
          BY <4>1, <3>1
      <3>2. CASE v < j
        <4>1. cs[v].off + l <= cs[j].off /\ cs[j].off \in Nat
          BY <3>2, <2>1, <1>2, <1>5
        <4>2. h <= cs[v].off + RecLen(cs[n])
          BY <1>1 DEF n
        <4>3. O(j) = cs[j].off - l
          BY <3>2, <2>1, <1>1
        <4>4. cs[v].off <= cs[j].off - l
          BY <4>1, <1>3
        <4>5. \A x, y, z \in Int : h <= x + z /\ x <= y => h <= y + z
          BY <1>1, SizeAssumption
        <4>6. cs[j].off - l \in Int /\ cs[v].off \in Int /\ RecLen(cs[n]) \in Int
          BY <4>1, <1>3, <1>12
        <4> QED
          BY <4>2, <4>3, <4>4, <4>5, <4>6
      <3> QED
        BY <3>1, <3>2, <2>1
    <2> QED
      BY <2>2, <2>3, <2>4, <1>12
  <1>15. ds[1].off = 0 /\ ~ Goes(ds[1].words) /\ ~ Goes(ds[m].words)
    <2>1. 1 \in 1 .. m /\ J(1) = 1 /\ O(1) = cs[1].off
      BY <1>0, <1>8
    <2>2. ds[1].off = cs[1].off /\ ds[1].words = cs[1].words
      BY <2>1, <1>7
    <2> QED
      BY <2>2, <1>1, <1>12
  <1>16. Fits(ds, h)
    <2> HIDE DEF m, J, O
    <2> QED
      BY <1>1, <1>8, <1>10, <1>11, <1>13, <1>14, <1>15 DEF Fits
  <1> QED
    BY <1>0, <1>4, <1>7, <1>8, <1>16 DEF ds, l, n

\* While entries move, no word at or behind h is written, and when all have
\* moved they lie where Lowered says.
LEMMA ShiftWrites ==
  ASSUME IInv, NEW cs, NEW h, RoomFor(cs, h), ShiftEntry
  PROVE  \A p \in Span : p >= h => block'[p] = block[p]
  <1> DEFINE e == list[next]
  <1>1. /\ pc = "shift" /\ block' = Overwrite(block, at, e.words)
        /\ list = cs /\ Fits(cs, h)
    BY DEF ShiftEntry, Written, RoomFor
  <1>2. /\ victim \in Nat /\ next \in 1 .. Len(cs) /\ victim \in 1 .. Len(cs)
        /\ at \in Nat /\ at + RecLen(list[victim]) = list[next].off
    BY <1>1 DEF IInv, TypeOK, BeyondDot, ShiftMovesDown
  <1>3. /\ RecLen(list[victim]) \in Nat /\ e.off \in Nat /\ TextLen(e) \in Nat
        /\ DOMAIN e.words = 1 .. 2 + TextLen(e)
        /\ e.off + 2 + TextLen(e) <= h
    BY <1>1, <1>2, FitType
  <1>4. h \in Nat
    BY <1>1 DEF Fits
  <1> SUFFICES ASSUME NEW p \in Span, p >= h PROVE block'[p] = block[p]
    OBVIOUS
  <1>5. p \in Nat
    BY SizeAssumption DEF Span
  <1>6. at <= e.off
    BY <1>2, <1>3
  <1> HIDE DEF e
  <1>7. p - at + 1 \notin DOMAIN e.words
    <2>1. \A a, o, t \in Nat : a <= o /\ o + 2 + t <= h => p - a + 1 > 2 + t
      BY <1>4, <1>5
    <2>2. p - at + 1 > 2 + TextLen(e)
      BY <2>1, <1>2, <1>3, <1>6
    <2> QED
      BY <2>2, <1>2, <1>3, <1>5
  <1> QED
    BY <1>1, <1>7 DEF Overwrite

\* What is moved down ends lower than it did, so in the image.
LEMMA ShiftGoesOn ==
  ASSUME IInv, RoomInv, ShiftEntry
  PROVE  pc' = IF next = Len(list) THEN "free" ELSE "shift"
  <1> DEFINE e == list[next]
             l == RecLen(list[victim])
  <1>1. PICK cs, h : RoomFor(cs, h)
    BY DEF RoomInv
  <1>2. pc = "shift" /\ list = cs /\ Fits(cs, h)
    BY <1>1 DEF ShiftEntry, RoomFor
  <1>3. /\ next \in 1 .. Len(cs) /\ victim \in 1 .. Len(cs) /\ Len(cs) \in Nat
        /\ at \in Nat /\ at + l = e.off
    BY <1>2 DEF IInv, TypeOK, BeyondDot, ShiftMovesDown, Fits
  <1>4. l \in Nat /\ e.off \in Nat /\ RecLen(e) \in Nat
    BY <1>2, <1>3, FitType
  <1>5. e.off + RecLen(e) <= BlockWords
    <2>1. CASE next = Len(cs)
      BY <2>1, <1>2 DEF Fits
    <2>2. CASE next # Len(cs)
      <3> DEFINE w == next + 1
      <3>1. w \in 1 .. Len(cs)
        BY <2>2, <1>3
      <3>2. e.off + RecLen(e) <= list[w].off
        BY <3>1, <1>2, <1>3 DEF Fits
      <3> HIDE DEF w
      <3>3. list[w].off < BlockWords /\ list[w].off \in Nat
        BY <3>1, <1>2, FitType
      <3> QED
        BY <3>2, <3>3, <1>4, SizeAssumption
    <2> QED
      BY <2>1, <2>2
  <1> HIDE DEF e, l
  <1>6. at + RecLen(e) < ImageWords
    BY <1>3, <1>4, <1>5, RoomyAssumption, SizeAssumption
  <1> QED
    BY <1>2, <1>6 DEF ShiftEntry, CanSkipTo, AfterMove, e

\* After the last move the block holds the cells behind the victim, lowered by
\* its length, and has room as before.
LEMMA ShiftEntryRoom ==
  ASSUME IInv, IInv', RoomInv, ShiftEntry
  PROVE  /\ RoomInv'
         /\ pc' # "shift" =>
              \E cs, h, v :
                /\ v = victim /\ v \in 1 .. Len(cs)
                /\ RoomFor(cs, h) /\ RoomFor(Lowered(cs, v), h)'
  <1>1. PICK cs, h : RoomFor(cs, h)
    BY DEF RoomInv
  <1>0. PICK v : v = victim
    OBVIOUS
  <1> DEFINE n == Len(cs)
             ds == Lowered(cs, v)
  <1>2. /\ pc = "shift" /\ pc' = IF next = Len(list) THEN "free" ELSE "shift"
        /\ next' = next + 1
        /\ UNCHANGED <<target, list, victim>>
        /\ list = cs /\ Fits(cs, h) /\ Clean(block, h) /\ Goes(cs[v].words)
        /\ target \in Removable \cup {NoName}
    BY <1>0, <1>1, ShiftGoesOn DEF ShiftEntry, RoomFor
  <1>3. /\ v \in 1 .. n /\ next \in 1 .. n /\ v < next /\ n \in Nat
        /\ h \in 0 .. BlockWords
    BY <1>0, <1>2 DEF IInv, TypeOK, BeyondDot, ShiftMovesDown, Fits
  <1>4. Clean(block', h)
    <2>1. \A p \in h .. BlockWords - 1 : p \in Span /\ p >= h
      BY <1>3, SizeAssumption DEF Span
    <2> QED
      BY <2>1, <1>1, <1>2, ShiftWrites DEF Clean
  <1>5. CASE next # n
    <2>1. pc' = "shift"
      BY <1>2, <1>5
    <2>2. RoomFor(cs, h)'
      BY <2>1, <1>0, <1>2, <1>4 DEF RoomFor
    <2> QED
      BY <2>1, <2>2 DEF RoomInv
  <1>6. CASE next = n
    <2>1. pc' = "free" /\ next' = n + 1
      BY <1>2, <1>6
    <2>2. /\ Fits(ds, h) /\ Len(ds) = n - 1 /\ v > 1
          /\ \A i \in 1 .. n - 1 :
               LET j == IF i < v THEN i ELSE i + 1
               IN  /\ j \in 1 .. n /\ j # v
                   /\ ds[i].words = cs[j].words
                   /\ ds[i].off
                        = IF j < v THEN cs[j].off ELSE cs[j].off - RecLen(cs[v])
      BY <1>2, <1>3, LoweredFits
    <2> HIDE DEF ds
    <2>3. ASSUME NEW i \in 1 .. n - 1
          PROVE  ds[i].words = EntryAt(block', ds[i].off)
      <3> DEFINE j == IF i < v THEN i ELSE i + 1
                 o == ds[i].off
                 w == ds[i].words
      <3>1. j \in 1 .. n /\ j # v /\ w = cs[j].words
            /\ o = IF j < v THEN cs[j].off ELSE cs[j].off - RecLen(cs[v])
        BY <2>2
      <3> HIDE DEF j
      <3>2. o = NewOff(j)'
        BY <3>1, <1>0, <1>2 DEF NewOff, RecLen
      <3>3. IsWhole(j)'
        <4>1. 2 + TextLen(cs[j]) <= RecLen(cs[j])
          BY <3>1, <1>2 DEF Fits
        <4> QED
          BY <4>1, <1>2 DEF IsWhole, TextLen, RecLen
      <3>4. \A k \in DOMAIN w : block'[o + k - 1] = w[k]
        <4>1. SurvivorsKept'
          BY DEF IInv
        <4>2. DOMAIN list' = 1 .. n /\ j < next' /\ victim' = v /\ v # 0
          BY <1>0, <1>2, <1>3, <2>1, <3>1, <2>2 DEF Fits
        <4>3. \A k \in DOMAIN list'[j].words :
                block'[NewOff(j)' + k - 1] = list'[j].words[k]
          BY <4>1, <4>2, <2>1, <3>1, <3>3 DEF SurvivorsKept
        <4> QED
          BY <4>3, <3>1, <3>2, <1>2
      <3>5. DOMAIN w = 1 .. 2 + TextLen(ds[i]) /\ TextLen(ds[i]) \in Nat
            /\ o \in Nat /\ w \in Seq(Word)
        BY <2>2, FitType
      <3>6. w[2] = block'[o + 1]
        <4>1. 2 \in DOMAIN w
          BY <3>5
        <4>2. block'[o + 2 - 1] = w[2] /\ o + 2 - 1 = o + 1
          BY <3>4, <3>5, <4>1
        <4> QED
          BY <4>2
      <3>7. block'[o + 1].nl = TextLen(ds[i])
        BY <3>6 DEF TextLen
      <3>8. EntryAt(block', o) = [k \in 1 .. 2 + TextLen(ds[i]) |-> block'[o + k - 1]]
        BY <3>7 DEF EntryAt
      <3> HIDE DEF w, o
      <3>9. w = [k \in DOMAIN w |-> w[k]]
        BY <3>5
      <3>10. w = EntryAt(block', o)
        BY <3>4, <3>5, <3>8, <3>9
      <3> QED
        BY <3>10 DEF w, o
    <2>4. InBlock(ds, block')
      BY <2>2, <2>3 DEF InBlock
    <2>5. RoomFor(ds, h)'
      BY <1>2, <1>4, <2>1, <2>2, <2>4 DEF RoomFor
    <2> QED
      BY <1>0, <1>1, <1>3, <2>5 DEF RoomInv, ds
  <1> QED
    BY <1>5, <1>6

\* No step breaks the invariant.
LEMMA NextRoom == IInv /\ IInv' /\ RoomInv /\ [Next]_vars => RoomInv'
  <1> SUFFICES ASSUME IInv, IInv', RoomInv, [Next]_vars PROVE RoomInv'
    OBVIOUS
  <1>1. CASE \E n \in Removable \cup {NoName} : TypeCommand(n)
    BY <1>1, TypeCommandRoom
  <1>2. CASE ReadEntry
    BY <1>2, ReadEntryRoom
  <1>3. CASE EndOfList
    BY <1>3, EndOfListRoom
  <1>4. CASE OutOfMemory \/ ReadFatal
    BY <1>4, ReadsToTheEnd, QuietRoom DEF OutOfMemory, disk
  <1>5. CASE Refuse
    BY <1>5, QuietRoom DEF Refuse, disk
  <1>6. CASE \E v \in DOMAIN list : DeleteFile(v)
    BY <1>6, DeleteFileRoom
  <1>7. CASE \E v \in DOMAIN list : DeleteNowhere(v)
    BY <1>7, QuietRoom DEF DeleteNowhere, disk
  <1>8. CASE ShiftEntry
    BY <1>8, ShiftEntryRoom
  <1>9. CASE FreeList
    BY <1>9, QuietRoom DEF FreeList, disk
  <1>10. CASE UNCHANGED vars
    BY <1>10 DEF vars, disk, RoomInv, RoomFor
  <1> QED
    BY <1>1, <1>2, <1>3, <1>4, <1>5, <1>6, <1>7, <1>8, <1>9, <1>10 DEF Next, Step

\* A directory with room keeps it, whatever is removed from it.
THEOREM RoomStays == Spec => [](IInv /\ RoomInv)
  <1>1. Init => IInv /\ RoomInv
    BY InitIInv, InitRoom
  <1>2. IInv /\ RoomInv /\ [Next]_vars => (IInv /\ RoomInv)'
    BY NextIInv, NextRoom
  <1> QED
    BY <1>1, <1>2, PTL DEF Spec

\* Only the moving of entries and the removal of a last one write at all.
LEMMA WritesStay ==
  ASSUME IInv, RoomInv, [Next]_vars
  PROVE  \A p \in Span : p >= BlockWords => block'[p] = block[p]
  <1>1. CASE ShiftEntry
    <2>1. PICK cs, h : RoomFor(cs, h)
      BY DEF RoomInv
    <2>2. h \in 0 .. BlockWords
      BY <2>1 DEF RoomFor, Fits
    <2>3. \A p \in Span : p >= BlockWords => p >= h
      BY <2>2, SizeAssumption DEF Span
    <2> QED
      BY <2>1, <2>3, <1>1, ShiftWrites
  <1>2. CASE \E v \in DOMAIN list : DeleteFile(v)
    BY <1>2, DeleteFileRoom
  <1>3. CASE ~ ShiftEntry /\ ~ (\E v \in DOMAIN list : DeleteFile(v))
    BY <1>3 DEF Next, Step, TypeCommand, ReadEntry, ReadFatal, EndOfList, OutOfMemory, Refuse,
                DeleteNowhere, FreeList, vars, disk
  <1> QED
    BY <1>1, <1>2, <1>3

\* bgDeleteFile: in a roomy directory, where no listed text runs past the block,
\* rm never writes past it: what follows on the disk is another file's.
THEOREM KeepsNeighbour ==
  Spec => [][\A p \in Span : p >= BlockWords => block'[p] = block[p]]_vars
  <1>1. IInv /\ RoomInv /\ [Next]_vars
          => [\A p \in Span : p >= BlockWords => block'[p] = block[p]]_vars
    BY WritesStay
  <1> QED
    BY <1>1, RoomStays, PTL DEF Spec

\* No FATAL of disk.c ends ls or rm in a roomy directory.
THEOREM NeverFatal == Spec => [](pc # "exit")
  <1>1. Init => pc # "exit"
    BY DEF Init
  <1>2. IInv /\ RoomInv /\ pc # "exit" /\ [Next]_vars => (pc # "exit")'
    <2> SUFFICES ASSUME IInv, RoomInv, pc # "exit", [Next]_vars PROVE pc' # "exit"
      OBVIOUS
    <2>1. CASE ShiftEntry
      BY <2>1, ShiftGoesOn
    <2>2. CASE ~ ShiftEntry
      BY <2>2, ReadsToTheEnd DEF Next, Step, TypeCommand, ReadEntry, EndOfList,
         OutOfMemory, Refuse, DeleteFile, DeleteNowhere, FreeList, vars
    <2> QED
      BY <2>1, <2>2
  <1> QED
    BY <1>1, <1>2, RoomStays, PTL DEF Spec

-----------------------------------------------------------------------------
(* The refinement.                                                         *)

\* What the directory shows is what its cells show, while entries move without
\* the one that goes.
LEMMA EntriesAre ==
  ASSUME IInv, NEW cs, NEW h, RoomFor(cs, h)
  PROVE  Entries = IF pc = "shift" THEN RemoveAt(Views(cs), victim) ELSE Views(cs)
  <1>1. CASE pc = "shift"
    <2>1. list = cs /\ list \in Seq(Cell) /\ DOMAIN list = 1 .. Len(list)
      BY <1>1 DEF RoomFor, IInv, TypeOK
    <2> QED
      BY <2>1, <1>1 DEF Entries, Views
  <1>2. CASE pc # "shift"
    BY <1>2, FitsListed DEF RoomFor, Entries, IInv, TypeOK
  <1> QED
    BY <1>1, <1>2

\* What is left of a sequence when its element v is taken out.
LEMMA RemoveAtIs ==
  ASSUME NEW S, NEW a \in Seq(S), NEW v \in 1 .. Len(a)
  PROVE  RemoveAt(a, v) = [i \in 1 .. Len(a) - 1 |-> a[IF i < v THEN i ELSE i + 1]]
  <1> DEFINE n == Len(a)
             d == [i \in 1 .. n - 1 |-> a[IF i < v THEN i ELSE i + 1]]
             x == SubSeq(a, 1, v - 1)
             y == SubSeq(a, v + 1, Len(a))
  <1>1. n \in Nat /\ v \in 1 .. n
    OBVIOUS
  <1>2. d \in Seq(S) /\ Len(d) = n - 1
        /\ \A i \in 1 .. n - 1 : d[i] = a[IF i < v THEN i ELSE i + 1]
    <2>1. \A i \in 1 .. n - 1 : a[IF i < v THEN i ELSE i + 1] \in S
      OBVIOUS
    <2>2. n - 1 \in Nat
      BY <1>1
    <2> QED
      BY <2>1, <2>2
  <1>3. /\ x \in Seq(S) /\ Len(x) = v - 1
        /\ \A i \in 1 .. v - 1 : x[i] = a[i]
    OBVIOUS
  <1>4. /\ y \in Seq(S) /\ Len(y) = n - v
        /\ \A i \in 1 .. n - v : y[i] = a[v + i]
    OBVIOUS
  <1> HIDE DEF n, d, x, y
  <1>5. x \o y \in Seq(S) /\ Len(x \o y) = n - 1
    <2>1. \A p, q \in Seq(S) : p \o q \in Seq(S) /\ Len(p \o q) = Len(p) + Len(q)
      OBVIOUS
    <2>2. v - 1 + (n - v) = n - 1
      BY <1>1
    <2> QED
      BY <2>1, <2>2, <1>3, <1>4
  <1>6. ASSUME NEW i \in 1 .. n - 1 PROVE (x \o y)[i] = d[i]
    <2>1. CASE i < v
      <3>1. (x \o y)[i] = x[i]
        BY <2>1, <1>1, <1>3, <1>4
      <3> QED
        BY <3>1, <2>1, <1>1, <1>2, <1>3
    <2>2. CASE ~ (i < v)
      <3> DEFINE k == i - (v - 1)
      <3>1. k \in 1 .. n - v /\ v + k = i + 1
        BY <2>2, <1>1
      <3>2. (x \o y)[i] = y[k]
        BY <2>2, <1>1, <1>3, <1>4
      <3> HIDE DEF k
      <3> QED
        BY <3>1, <3>2, <2>2, <1>2, <1>4
    <2> QED
      BY <2>1, <2>2
  <1>7. x \o y = d
    BY <1>2, <1>5, <1>6
  <1> QED
    BY <1>7 DEF RemoveAt, x, y, d, n

\* What cells show is a sequence of what they show.
LEMMA ViewsSeq ==
  ASSUME NEW cs \in Seq(Cell)
  PROVE  /\ Views(cs) \in Seq({View(cs[i].words) : i \in 1 .. Len(cs)})
         /\ Len(Views(cs)) = Len(cs)
         /\ \A i \in 1 .. Len(cs) : Views(cs)[i] = View(cs[i].words)
  <1> DEFINE V(i) == View(cs[i].words)
             S == {V(i) : i \in 1 .. Len(cs)}
  <1>1. Len(cs) \in Nat /\ DOMAIN cs = 1 .. Len(cs)
    OBVIOUS
  <1>2. \A i \in 1 .. Len(cs) : V(i) \in S
    OBVIOUS
  <1>3. Views(cs) = [i \in 1 .. Len(cs) |-> V(i)]
    BY <1>1 DEF Views
  <1> HIDE DEF V, S
  <1>4. /\ Views(cs) \in Seq(S) /\ Len(Views(cs)) = Len(cs)
        /\ \A i \in 1 .. Len(cs) : Views(cs)[i] = V(i)
    BY <1>1, <1>2, <1>3
  <1> QED
    BY <1>4 DEF V, S

\* Removing entry v of what cells show is showing what is left of them.
LEMMA LoweredViews ==
  ASSUME NEW cs, NEW h, Fits(cs, h), NEW v \in 1 .. Len(cs), Goes(cs[v].words)
  PROVE  Views(Lowered(cs, v)) = RemoveAt(Views(cs), v)
  <1> DEFINE n == Len(cs)
             a == Views(cs)
             d == Views(Lowered(cs, v))
  <1>1. cs \in Seq(Cell) /\ n \in Nat
    BY DEF Fits
  <1>2. /\ Len(Lowered(cs, v)) = n - 1
        /\ \A i \in 1 .. n - 1 :
             Lowered(cs, v)[i].words = cs[IF i < v THEN i ELSE i + 1].words
    <2>1. /\ Len(Lowered(cs, v)) = n - 1
          /\ \A i \in 1 .. n - 1 :
               LET j == IF i < v THEN i ELSE i + 1
               IN  Lowered(cs, v)[i].words = cs[j].words
      BY LoweredFits
    <2> QED
      BY <2>1
  <1>3. /\ a \in Seq({View(cs[i].words) : i \in 1 .. n}) /\ Len(a) = n
        /\ \A i \in 1 .. n : a[i] = View(cs[i].words)
    BY <1>1, ViewsSeq
  <1>4. d = [i \in 1 .. n - 1 |-> View(Lowered(cs, v)[i].words)]
    <2>1. DOMAIN Lowered(cs, v) = 1 .. n - 1
      BY <1>2 DEF Lowered
    <2> QED
      BY <2>1, <1>2 DEF Views
  <1>5. \A i \in 1 .. n - 1 :
          View(Lowered(cs, v)[i].words) = a[IF i < v THEN i ELSE i + 1]
    <2>1. \A i \in 1 .. n - 1 : (IF i < v THEN i ELSE i + 1) \in 1 .. n
      BY <1>1
    <2> QED
      BY <2>1, <1>2, <1>3
  <1>6. RemoveAt(a, v) = [i \in 1 .. n - 1 |-> a[IF i < v THEN i ELSE i + 1]]
    BY <1>1, <1>3, RemoveAtIs
  <1> QED
    BY <1>4, <1>5, <1>6

\* The directory of an image is one that the abstract directory starts with.
LEMMA InitRefines == Init => Dir!Init
  <1> SUFFICES ASSUME Init PROVE Dir!Init
    OBVIOUS
  <1>1. PICK i \in Images : block = i.block /\ bitmap = i.used
    BY DEF Init
  <1>2. pc = "prompt"
    BY DEF Init
  <1> DEFINE s == [entries |-> Listed(i.block), used |-> i.used]
  <1>3. s \in Starting
    BY DEF Starting
  <1>4. Entries = s.entries /\ bitmap = s.used
    BY <1>1, <1>2 DEF Entries
  <1> HIDE DEF s
  <1> QED
    BY <1>3, <1>4 DEF Dir!Init

\* rm of a file's entry is the removal of that entry in the abstract directory.
LEMMA DeleteRefines ==
  ASSUME IInv, IInv', RoomInv, RoomInv', NEW v \in DOMAIN list, DeleteFile(v)
  PROVE  /\ list \in Seq(Cell) /\ v \in 1 .. Len(list) /\ Entries = Views(list)
         /\ Entries' = RemoveAt(Entries, v)
         /\ v \in DOMAIN Entries /\ Dir!RemoveFile(v)
  <1>1. PICK cs, h : RoomFor(cs, h)
    BY DEF RoomInv
  <1>2. /\ pc = "find" /\ Finds(v) /\ Type(list[v]) = DIR_FT_FILE
        /\ bitmap' = bitmap \ {Ino(list[v])}
        /\ victim' = v /\ list' = list
    BY DEF DeleteFile, Released
  <1>3. pc' = "shift"
    BY DeleteFileRoom
  <1>4. v \in 1 .. Len(cs) /\ list = cs /\ list \in Seq(Cell)
        /\ DOMAIN list = 1 .. Len(list)
    BY <1>1, <1>2, FoundGoes DEF IInv, TypeOK
  <1>5. Entries = Views(list)
    BY <1>1, <1>2, <1>4, EntriesAre
  <1>6. Entries' = RemoveAt(Views(list), v)
    BY <1>2, <1>3, <1>4 DEF Entries, Views
  <1>7. DOMAIN Entries = 1 .. Len(list)
        /\ \A i \in 1 .. Len(list) : Entries[i] = View(list[i].words)
    BY <1>5 DEF Views
  <1>8. Entries[v].ft = DIR_FT_FILE /\ Entries[v].ino = Ino(list[v])
    BY <1>2, <1>4, <1>7 DEF View, Type, Ino
  <1>9. Dir!Found(v)
    <2>1. /\ target # NoName /\ TextLen(list[v]) > 0
          /\ list[v].words[3].txt = target
          /\ \A j \in 1 .. v - 1 : ~ IsNamed(list[j], target)
      BY <1>2 DEF Finds, IsNamed
    <2>2. Entries[v].name = target
      BY <2>1, <1>4, <1>7 DEF View, TextLen
    <2>3. ASSUME NEW j \in 1 .. v - 1 PROVE Entries[j].name # target
      <3>1. j \in 1 .. Len(list)
        BY <1>4
      <3> QED
        BY <3>1, <2>1, <1>7 DEF View, TextLen, IsNamed
    <2> QED
      BY <2>2, <2>3 DEF Dir!Found
  <1>10. Entries' = RemoveAt(Entries, v)
    BY <1>5, <1>6
  <1>11. Dir!RemoveAt(Entries, v) = RemoveAt(Entries, v)
    BY DEF Dir!RemoveAt, RemoveAt
  <1>12. Entries[v].ft = DIR_FT_FILE /\ bitmap' = bitmap \ {Entries[v].ino}
    BY <1>2, <1>8
  <1>13. Dir!RemoveFile(v)
    BY <1>9, <1>10, <1>11, <1>12, Zenon DEF Dir!RemoveFile
  <1> QED
    BY <1>4, <1>5, <1>7, <1>10, <1>13

\* No other step changes what is listed or what is in use, not even the moves of
\* bgDeleteFile's loop.
LEMMA OthersStutter ==
  ASSUME IInv, IInv', RoomInv, RoomInv', [Next]_vars,
         ~ (\E v \in DOMAIN list : DeleteFile(v))
  PROVE  UNCHANGED <<Entries, bitmap, inodes>>
  <1>1. CASE ShiftEntry
    <2>1. /\ pc = "shift" /\ bitmap' = bitmap /\ inodes' = inodes
          /\ list' = list /\ victim' = victim /\ pc' \in {"shift", "free"}
      BY <1>1, ShiftGoesOn DEF ShiftEntry
    <2>2. CASE pc' = "shift"
      BY <2>1, <2>2 DEF Entries
    <2>3. CASE pc' # "shift"
      <3>1. PICK cs, h, v : /\ v = victim /\ v \in 1 .. Len(cs) /\ RoomFor(cs, h)
                            /\ RoomFor(Lowered(cs, v), h)'
        BY <1>1, <2>3, ShiftEntryRoom
      <3>2. Entries = RemoveAt(Views(cs), v)
        BY <2>1, <3>1, EntriesAre
      <3>3. Entries' = Views(Lowered(cs, v))
        <4>1. /\ block' \in [Span -> Word]
              /\ Fits(Lowered(cs, v), h) /\ Clean(block', h)
              /\ InBlock(Lowered(cs, v), block')
          BY <2>3, <3>1 DEF RoomFor, IInv, TypeOK
        <4>2. Listed(block') = Views(Lowered(cs, v))
          BY <4>1, FitsListed
        <4> QED
          BY <4>2, <2>3 DEF Entries
      <3>4. Fits(cs, h) /\ Goes(cs[v].words)
        BY <2>1, <3>1 DEF RoomFor
      <3> QED
        BY <2>1, <3>1, <3>2, <3>3, <3>4, LoweredViews
    <2> QED
      BY <2>2, <2>3
  <1>2. CASE ~ ShiftEntry
    <2>1. /\ block' = block /\ bitmap' = bitmap /\ inodes' = inodes
          /\ \/ pc # "shift" /\ pc' # "shift"
             \/ pc' = pc /\ list' = list /\ victim' = victim
      BY <1>2 DEF Next, Step, TypeCommand, ReadEntry, ReadFatal, EndOfList, OutOfMemory, Refuse,
                  DeleteNowhere, FreeList, vars, disk
    <2> QED
      BY <2>1 DEF Entries
  <1> QED
    BY <1>1, <1>2

\* Every step of DirBlock is a removal in the abstract directory or leaves it
\* as it is.
LEMMA NextRefines ==
  IInv /\ IInv' /\ RoomInv /\ RoomInv' /\ [Next]_vars => [Dir!Next]_(Dir!vars)
  <1> SUFFICES ASSUME IInv, IInv', RoomInv, RoomInv', [Next]_vars
               PROVE  Dir!Next \/ UNCHANGED <<Entries, bitmap>>
    BY DEF Dir!vars
  <1>1. ASSUME NEW v \in DOMAIN list, DeleteFile(v) PROVE Dir!Next
    BY <1>1, DeleteRefines DEF Dir!Next
  <1>2. CASE ~ (\E v \in DOMAIN list : DeleteFile(v))
    BY <1>2, OthersStutter
  <1> QED
    BY <1>1, <1>2

\* DirBlock implements Directory: rm takes the first entry of a name from what
\* ls lists, and its inode from the bitmap; no other step changes either.
THEOREM DirBlockImplementsDirectory == Spec => ImplementsDirectory
  <1>1. IInv /\ RoomInv /\ IInv' /\ RoomInv' /\ [Next]_vars
          => [Dir!Next]_(Dir!vars)
    BY NextRefines
  <1> QED
    BY <1>1, InitRefines, RoomStays, PTL DEF Spec, ImplementsDirectory, Dir!Spec

-----------------------------------------------------------------------------
(* Nothing dangles.                                                        *)

\* The inode table and the bitmap agree, and name the files that are listed,
\* each by one name.
FilesKept == inodes = bitmap /\ FilesApart(Entries, bitmap)

\* It is so in the directory that is mounted.
LEMMA InitFilesKept == Init => FilesKept
  <1> SUFFICES ASSUME Init PROVE FilesKept
    OBVIOUS
  <1>1. PICK i \in Images : block = i.block /\ bitmap = i.used /\ inodes = i.used
    BY DEF Init
  <1>2. Entries = Listed(i.block)
    BY <1>1 DEF Init, Entries
  <1>3. FilesApart(Listed(i.block), i.used)
    BY RoomyAssumption
  <1> QED
    BY <1>1, <1>2, <1>3 DEF FilesKept

\* Taking a file away with the inode it names leaves the inodes of the others.
LEMMA RemovalKeepsApart ==
  ASSUME NEW S, NEW a \in Seq(S), NEW v \in 1 .. Len(a), NEW used,
         FilesApart(a, used), a[v].ft = DIR_FT_FILE
  PROVE  FilesApart(RemoveAt(a, v), used \ {a[v].ino})
  <1> DEFINE d == RemoveAt(a, v)
             Old(i) == IF i < v THEN i ELSE i + 1
  <1>1. DOMAIN a = 1 .. Len(a) /\ Len(a) \in Nat
    OBVIOUS
  <1>2. DOMAIN d = 1 .. Len(a) - 1 /\ \A i \in DOMAIN d : d[i] = a[Old(i)]
    BY RemoveAtIs
  <1>3. /\ \A i \in DOMAIN d : Old(i) \in DOMAIN a \ {v}
        /\ \A i, j \in DOMAIN d : i # j => Old(i) # Old(j)
    BY <1>1, <1>2
  <1> HIDE DEF d, Old
  <1>4. ASSUME NEW i \in DOMAIN d, d[i].ft = DIR_FT_FILE
        PROVE  /\ d[i].ino \in used \ {a[v].ino}
               /\ \A j \in DOMAIN d \ {i} :
                    d[j].ft = DIR_FT_FILE => d[j].ino # d[i].ino
    <2>1. Old(i) \in DOMAIN a \ {v} /\ v \in DOMAIN a \ {Old(i)}
          /\ d[i] = a[Old(i)]
      BY <1>1, <1>2, <1>3
    <2>2. d[i].ino \in used /\ a[v].ino # d[i].ino
      BY <2>1, <1>4 DEF FilesApart
    <2>3. ASSUME NEW j \in DOMAIN d \ {i}, d[j].ft = DIR_FT_FILE
          PROVE  d[j].ino # d[i].ino
      <3>1. Old(j) \in DOMAIN a \ {Old(i)} /\ d[j] = a[Old(j)]
        BY <1>2, <1>3
      <3> QED
        BY <3>1, <2>1, <2>3, <1>4 DEF FilesApart
    <2> QED
      BY <2>2, <2>3
  <1> QED
    BY <1>4 DEF FilesApart, d

\* Each removal leaves it so, and so does every other step.
LEMMA NextFilesKept ==
  IInv /\ IInv' /\ RoomInv /\ RoomInv' /\ FilesKept /\ [Next]_vars => FilesKept'
  <1> SUFFICES ASSUME IInv, IInv', RoomInv, RoomInv', FilesKept, [Next]_vars
               PROVE  FilesKept'
    OBVIOUS
  <1>1. ASSUME NEW v \in DOMAIN list, DeleteFile(v) PROVE FilesKept'
    <2>1. /\ list \in Seq(Cell) /\ v \in 1 .. Len(list) /\ Entries = Views(list)
          /\ Entries' = RemoveAt(Entries, v)
          /\ Dir!RemoveFile(v)
      BY <1>1, DeleteRefines
    <2>2. Entries[v].ft = DIR_FT_FILE /\ bitmap' = bitmap \ {Entries[v].ino}
      BY <2>1 DEF Dir!RemoveFile
    <2>3. inodes' = bitmap'
      BY <1>1 DEF DeleteFile, FilesKept
    <2>4. PICK S : Entries \in Seq(S) /\ v \in 1 .. Len(Entries)
      BY <2>1, ViewsSeq
    <2>5. FilesApart(Entries, bitmap)
      BY DEF FilesKept
    <2>6. FilesApart(RemoveAt(Entries, v), bitmap \ {Entries[v].ino})
      BY <2>2, <2>4, <2>5, RemovalKeepsApart
    <2> QED
      BY <2>1, <2>2, <2>3, <2>6 DEF FilesKept, FilesApart
  <1>2. CASE ~ (\E v \in DOMAIN list : DeleteFile(v))
    BY <1>2, OthersStutter DEF FilesKept, FilesApart
  <1> QED
    BY <1>1, <1>2

\* Every file that is listed has its inode, in the table as in the bitmap: no
\* sequence of removals frees the inode of a name that stays.
THEOREM NothingDangles == Spec => []NoDangling
  <1>1. IInv /\ RoomInv /\ FilesKept /\ IInv' /\ RoomInv' /\ [Next]_vars
          => FilesKept'
    BY NextFilesKept
  <1>2. FilesKept => NoDangling
    BY DEF FilesKept, FilesApart, NoDangling
  <1> QED
    BY <1>1, <1>2, InitFilesKept, RoomStays, PTL DEF Spec
=============================================================================
