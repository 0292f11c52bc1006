------------------------- MODULE LevenshteinProofs -------------------------
(***************************************************************************)
(* utilLevenshtein counts edits: for words of any letters and any length,  *)
(* two of them are at most n apart, n up to two, exactly if at most n      *)
(* letters inserted, removed or replaced make one word of the other.  That *)
(* a distance is as large as the edits say holds because an edit changes   *)
(* the whole table by one at most; that it is no larger, because each cell *)
(* of the table comes from one of its neighbours by an edit.               *)
(***************************************************************************)
EXTENDS Levenshtein, Arithmetic, SequenceTheorems

-----------------------------------------------------------------------------
(* The table.                                                              *)

\* Where the table is defined.
Cells(A, B) == (0 .. Len(A)) \X (0 .. Len(B))

\* What the table is at <<i, j>> when it is g at the cells before.
CellBy(A, B, g, i, j) ==
  IF i = 0 THEN j
  ELSE IF j = 0 THEN i
  ELSE IF A[i] = B[j] THEN g[<<i - 1, j - 1>>]
  ELSE LeastOf(g[<<i - 1, j>>], g[<<i, j - 1>>], g[<<i - 1, j - 1>>]) + 1

\* There is a function with the values that Table is defined by: by induction
\* on how far from the first cell it is wanted.
LEMMA TableExists ==
  ASSUME NEW A, NEW B, Len(A) \in Nat, Len(B) \in Nat
  PROVE  \E g : g = [x \in Cells(A, B) |-> CellBy(A, B, g, x[1], x[2])]
  <1> DEFINE X == Cells(A, B)
             Upto(k) == {x \in X : x[1] + x[2] <= k}
             Good(k, g) == g = [x \in Upto(k) |-> CellBy(A, B, g, x[1], x[2])]
             T == {k \in Nat : \E g : Good(k, g)}
  <1>0. /\ \A x \in X : x[1] \in 0 .. Len(A) /\ x[2] \in 0 .. Len(B) /\ x = <<x[1], x[2]>>
        /\ \A i \in 0 .. Len(A), j \in 0 .. Len(B) : <<i, j>> \in X
    BY DEF Cells
  <1>1. ASSUME NEW k \in Nat, \A j \in Nat : j < k => j \in T
        PROVE  k \in T
    <2>1. PICK f : \A x \in X : x[1] + x[2] < k => f[x] = CellBy(A, B, f, x[1], x[2])
      <3>1. CASE k = 0
        <4>1. \A x \in X : ~ (x[1] + x[2] < k)
          BY <1>0, <3>1
        <4> QED
          BY <4>1
      <3>2. CASE k # 0
        <4>1. k - 1 \in Nat /\ k - 1 < k
          BY <3>2
        <4>2. PICK f : Good(k - 1, f)
          BY <1>1, <4>1
        <4>3. \A x \in X : x[1] + x[2] < k => x \in Upto(k - 1)
          BY <1>0
        <4> HIDE DEF Upto, X
        <4> QED
          BY <4>2, <4>3
      <3> QED
        BY <3>1, <3>2
    <2> DEFINE g == [x \in Upto(k) |-> CellBy(A, B, f, x[1], x[2])]
    <2>2. \A x \in X : x[1] + x[2] < k => g[x] = f[x]
      <3>1. \A x \in X : x[1] + x[2] < k => x \in Upto(k)
        BY <1>0
      <3> HIDE DEF Upto, X
      <3> QED
        BY <2>1, <3>1
    <2>3. \A x \in Upto(k) : CellBy(A, B, g, x[1], x[2]) = CellBy(A, B, f, x[1], x[2])
      <3> SUFFICES ASSUME NEW x \in Upto(k)
                   PROVE  CellBy(A, B, g, x[1], x[2]) = CellBy(A, B, f, x[1], x[2])
        OBVIOUS
      <3> DEFINE i == x[1]
                 j == x[2]
      <3>1. i \in 0 .. Len(A) /\ j \in 0 .. Len(B) /\ i + j <= k
        BY <1>0
      <3>2. CASE i = 0 \/ j = 0
        <4> HIDE DEF g, i, j
        <4> QED
          BY <3>2 DEF CellBy, i, j
      <3>3. CASE i # 0 /\ j # 0
        <4> HIDE DEF g, i, j
        <4>1. /\ i - 1 \in 0 .. Len(A) /\ j - 1 \in 0 .. Len(B)
              /\ i - 1 + j < k /\ i + (j - 1) < k /\ i - 1 + (j - 1) < k
          BY <3>1, <3>3
        <4>2. ASSUME NEW p \in 0 .. Len(A), NEW q \in 0 .. Len(B), p + q < k
              PROVE  g[<<p, q>>] = f[<<p, q>>]
          <5>1. <<p, q>> \in X
            BY <1>0
          <5> HIDE DEF X
          <5> QED
            BY <5>1, <4>2, <2>2
        <4>3. /\ g[<<i - 1, j>>] = f[<<i - 1, j>>]
              /\ g[<<i, j - 1>>] = f[<<i, j - 1>>]
              /\ g[<<i - 1, j - 1>>] = f[<<i - 1, j - 1>>]
          BY <3>1, <4>1, <4>2
        <4>4. CellBy(A, B, g, i, j) = CellBy(A, B, f, i, j)
          BY <4>3 DEF CellBy
        <4> QED
          BY <4>4 DEF i, j
      <3> QED
        BY <3>2, <3>3
    <2>4. \A x \in Upto(k) : g[x] = CellBy(A, B, f, x[1], x[2])
      <3> HIDE DEF Upto
      <3> QED
        OBVIOUS
    <2>5. g = [x \in Upto(k) |-> g[x]]
      <3> HIDE DEF Upto
      <3> QED
        OBVIOUS
    <2> HIDE DEF g, Upto
    <2>6. Good(k, g)
      BY <2>3, <2>4, <2>5
    <2> QED
      BY <2>6
  <1>2. \A k \in Nat : k \in T
    <2> HIDE DEF T
    <2>1. T \subseteq Nat
      BY DEF T
    <2> QED
      BY <1>1, <2>1, Induction
  <1>3. Len(A) + Len(B) \in Nat
    OBVIOUS
  <1>4. PICK g : Good(Len(A) + Len(B), g)
    <2> HIDE DEF Good
    <2> QED
      BY <1>2, <1>3
  <1>5. Upto(Len(A) + Len(B)) = X
    BY <1>0
  <1> QED
    BY <1>4, <1>5

\* The equation by which Table is defined.
LEMMA TableEquation ==
  ASSUME NEW A, NEW B, Len(A) \in Nat, Len(B) \in Nat,
         NEW i \in 0 .. Len(A), NEW j \in 0 .. Len(B)
  PROVE  Table(A, B)[<<i, j>>] = CellBy(A, B, Table(A, B), i, j)
  <1> DEFINE F(g) == [x \in Cells(A, B) |-> CellBy(A, B, g, x[1], x[2])]
             c == CHOOSE g : g = F(g)
  <1>1. Table(A, B) = c
    BY DEF Table, CellBy, Cells
  <1>2. c = F(c)
    <2>1. \E g : g = F(g)
      BY TableExists
    <2> QED
      BY <2>1
  <1> HIDE DEF c
  <1>3. <<i, j>> \in Cells(A, B)
    BY DEF Cells
  <1>4. c[<<i, j>>] = CellBy(A, B, c, i, j)
    BY <1>2, <1>3
  <1> QED
    BY <1>1, <1>4

\* How far apart the first i letters of A and the first j of B are.
Dist(A, B, i, j) == Table(A, B)[<<i, j>>]

\* The cells of the table.
LEMMA CellIs ==
  ASSUME NEW A, NEW B, Len(A) \in Nat, Len(B) \in Nat,
         NEW i \in 0 .. Len(A), NEW j \in 0 .. Len(B)
  PROVE  /\ i = 0 => Dist(A, B, i, j) = j
         /\ j = 0 => Dist(A, B, i, j) = i
         /\ i # 0 /\ j # 0 /\ A[i] = B[j] => Dist(A, B, i, j) = Dist(A, B, i - 1, j - 1)
         /\ i # 0 /\ j # 0 /\ A[i] # B[j] =>
              Dist(A, B, i, j) = LeastOf(Dist(A, B, i - 1, j), Dist(A, B, i, j - 1),
                                      Dist(A, B, i - 1, j - 1)) + 1
  BY TableEquation DEF CellBy, Dist

\* A set of cells that has each one whose neighbours before it are in the set
\* is the set of all.
LEMMA InductionOnCells ==
  ASSUME NEW m \in Nat, NEW n \in Nat, NEW T \in SUBSET ((0 .. m) \X (0 .. n)),
         \A i \in 0 .. m, j \in 0 .. n :
           /\ i # 0 => <<i - 1, j>> \in T
           /\ j # 0 => <<i, j - 1>> \in T
           /\ i # 0 /\ j # 0 => <<i - 1, j - 1>> \in T
           => <<i, j>> \in T
  PROVE  \A i \in 0 .. m, j \in 0 .. n : <<i, j>> \in T
  <1> DEFINE K == {k \in Nat : \A i \in 0 .. m, j \in 0 .. n : i + j = k => <<i, j>> \in T}
  <1>1. ASSUME NEW k \in Nat, \A l \in Nat : l < k => l \in K
        PROVE  k \in K
    <2> SUFFICES ASSUME NEW i \in 0 .. m, NEW j \in 0 .. n, i + j = k
                 PROVE  <<i, j>> \in T
      OBVIOUS
    <2>1. ASSUME NEW p \in 0 .. m, NEW q \in 0 .. n, p + q < k PROVE <<p, q>> \in T
      <3>1. p + q \in Nat
        OBVIOUS
      <3>2. p + q \in K
        <4> HIDE DEF K
        <4> QED
          BY <1>1, <2>1, <3>1
      <3> QED
        BY <3>2
    <2>2. /\ i # 0 => i - 1 \in 0 .. m /\ i - 1 + j < k
          /\ j # 0 => j - 1 \in 0 .. n /\ i + (j - 1) < k
          /\ i # 0 /\ j # 0 => i - 1 + (j - 1) < k
      OBVIOUS
    <2>3. /\ i # 0 => <<i - 1, j>> \in T
          /\ j # 0 => <<i, j - 1>> \in T
          /\ i # 0 /\ j # 0 => <<i - 1, j - 1>> \in T
      BY <2>1, <2>2
    <2> QED
      BY <2>3
  <1>2. \A k \in Nat : k \in K
    <2> HIDE DEF K
    <2>1. K \subseteq Nat
      BY DEF K
    <2> QED
      BY <1>1, <2>1, Induction
  <1> SUFFICES ASSUME NEW i \in 0 .. m, NEW j \in 0 .. n PROVE <<i, j>> \in T
    OBVIOUS
  <1>3. i + j \in Nat
    OBVIOUS
  <1>4. i + j \in K
    <2> HIDE DEF K
    <2> QED
      BY <1>2, <1>3
  <1> QED
    BY <1>4

\* All cells are numbers.
LEMMA CellsAreNat ==
  ASSUME NEW A, NEW B, Len(A) \in Nat, Len(B) \in Nat
  PROVE  \A i \in 0 .. Len(A), j \in 0 .. Len(B) : Dist(A, B, i, j) \in Nat
  <1> DEFINE T == {x \in (0 .. Len(A)) \X (0 .. Len(B)) : Dist(A, B, x[1], x[2]) \in Nat}
             In(i, j) == <<i, j>> \in T
  <1>0. \A i \in 0 .. Len(A), j \in 0 .. Len(B) : In(i, j) <=> Dist(A, B, i, j) \in Nat
    OBVIOUS
  <1> HIDE DEF In
  <1>1. ASSUME NEW i \in 0 .. Len(A), NEW j \in 0 .. Len(B),
               i # 0 => In(i - 1, j), j # 0 => In(i, j - 1),
               i # 0 /\ j # 0 => In(i - 1, j - 1)
        PROVE  Dist(A, B, i, j) \in Nat
    <2>1. /\ i # 0 => Dist(A, B, i - 1, j) \in Nat
          /\ j # 0 => Dist(A, B, i, j - 1) \in Nat
          /\ i # 0 /\ j # 0 => Dist(A, B, i - 1, j - 1) \in Nat
      BY <1>0, <1>1
    <2> QED
      BY SMTT(20), <2>1, CellIs DEF LeastOf
  <1>2. \A i \in 0 .. Len(A), j \in 0 .. Len(B) : In(i, j)
    <2> HIDE DEF T
    <2>1. T \in SUBSET ((0 .. Len(A)) \X (0 .. Len(B)))
      BY DEF T
    <2> QED
      BY <1>0, <1>1, <2>1, InductionOnCells DEF In
  <1> QED
    BY <1>0, <1>2

\* Neighbouring cells differ by one at most, and a cell exceeds the one before
\* it on the diagonal by one at most.
Smooth(A, B, i, j) ==
  /\ i # 0 => /\ Dist(A, B, i, j) <= Dist(A, B, i - 1, j) + 1
              /\ Dist(A, B, i - 1, j) <= Dist(A, B, i, j) + 1
  /\ j # 0 => /\ Dist(A, B, i, j) <= Dist(A, B, i, j - 1) + 1
              /\ Dist(A, B, i, j - 1) <= Dist(A, B, i, j) + 1
  /\ i # 0 /\ j # 0 => Dist(A, B, i, j) <= Dist(A, B, i - 1, j - 1) + 1

\* The whole table is smooth.
LEMMA TableIsSmooth ==
  ASSUME NEW A, NEW B, Len(A) \in Nat, Len(B) \in Nat
  PROVE  \A i \in 0 .. Len(A), j \in 0 .. Len(B) : Smooth(A, B, i, j)
  <1> DEFINE T == {x \in (0 .. Len(A)) \X (0 .. Len(B)) : Smooth(A, B, x[1], x[2])}
             In(i, j) == <<i, j>> \in T
  <1>0. \A i \in 0 .. Len(A), j \in 0 .. Len(B) : In(i, j) <=> Smooth(A, B, i, j)
    OBVIOUS
  <1> HIDE DEF In
  <1>1. ASSUME NEW i \in 0 .. Len(A), NEW j \in 0 .. Len(B),
               i # 0 => In(i - 1, j), j # 0 => In(i, j - 1),
               i # 0 /\ j # 0 => In(i - 1, j - 1)
        PROVE  Smooth(A, B, i, j)
    <2> HIDE DEF T
    <2>1. CASE i = 0
      <3>1. Dist(A, B, 0, j) = j /\ (j # 0 => j - 1 \in 0 .. Len(B) /\ Dist(A, B, 0, j - 1) = j - 1)
        BY <2>1, CellIs
      <3> QED
        BY <2>1, <3>1 DEF Smooth
    <2>2. CASE j = 0
      <3>1. Dist(A, B, i, 0) = i /\ (i # 0 => i - 1 \in 0 .. Len(A) /\ Dist(A, B, i - 1, 0) = i - 1)
        BY <2>2, CellIs
      <3> QED
        BY <2>2, <3>1 DEF Smooth
    <2>3. CASE i # 0 /\ j # 0
      <3>1. i - 1 \in 0 .. Len(A) /\ j - 1 \in 0 .. Len(B)
        BY <2>3
      <3>2. Smooth(A, B, i - 1, j) /\ Smooth(A, B, i, j - 1)
        BY <1>0, <1>1, <2>3, <3>1
      <3>3. /\ Dist(A, B, i, j) \in Nat /\ Dist(A, B, i - 1, j - 1) \in Nat
            /\ Dist(A, B, i - 1, j) \in Nat /\ Dist(A, B, i, j - 1) \in Nat
        BY <3>1, CellsAreNat
      <3>4. /\ A[i] = B[j] => Dist(A, B, i, j) = Dist(A, B, i - 1, j - 1)
            /\ A[i] # B[j] =>
                 Dist(A, B, i, j) = LeastOf(Dist(A, B, i - 1, j), Dist(A, B, i, j - 1),
                                         Dist(A, B, i - 1, j - 1)) + 1
        BY <2>3, CellIs
      <3>5. /\ Dist(A, B, i, j - 1) <= Dist(A, B, i - 1, j - 1) + 1
            /\ Dist(A, B, i - 1, j - 1) <= Dist(A, B, i, j - 1) + 1
            /\ Dist(A, B, i - 1, j) <= Dist(A, B, i - 1, j - 1) + 1
            /\ Dist(A, B, i - 1, j - 1) <= Dist(A, B, i - 1, j) + 1
        BY <2>3, <3>2 DEF Smooth
      <3> QED
        BY SMTT(20), <2>3, <3>3, <3>4, <3>5 DEF Smooth, LeastOf
    <2> QED
      BY <2>1, <2>2, <2>3
  <1>2. \A i \in 0 .. Len(A), j \in 0 .. Len(B) : In(i, j)
    <2> HIDE DEF T
    <2>1. T \in SUBSET ((0 .. Len(A)) \X (0 .. Len(B)))
      BY DEF T
    <2> QED
      BY <1>0, <1>1, <2>1, InductionOnCells DEF In
  <1> QED
    BY <1>0, <1>2

-----------------------------------------------------------------------------
(* Edits.                                                                  *)

\* w is v without its letter p.
IsWithout(w, v, p) ==
  /\ p \in 1 .. Len(v) /\ Len(w) = Len(v) - 1
  /\ \A k \in 1 .. Len(w) : w[k] = v[IF k < p THEN k ELSE k + 1]

\* w is v but for letter p.
IsReplaced(w, v, p) ==
  /\ p \in 1 .. Len(v) /\ Len(w) = Len(v)
  /\ \A k \in 1 .. Len(w) : k # p => w[k] = v[k]

\* One edit makes w of v, or v of w.
OneEdit(v, w) ==
  \E p \in Nat : IsWithout(w, v, p) \/ IsWithout(v, w, p) \/ IsReplaced(w, v, p)

\* The least of three numbers.
LEMMA LeastIs ==
  ASSUME NEW x \in Nat, NEW y \in Nat, NEW z \in Nat
  PROVE  /\ LeastOf(x, y, z) \in {x, y, z}
         /\ LeastOf(x, y, z) <= x /\ LeastOf(x, y, z) <= y /\ LeastOf(x, y, z) <= z
  BY DEF LeastOf

\* Where two words have the same letter, their tables for a third do not part.
LEMMA TablesKeepPace ==
  ASSUME NEW u, NEW v, NEW w, Len(u) \in Nat, Len(v) \in Nat, Len(w) \in Nat,
         NEW i \in 1 .. Len(v), NEW k \in 1 .. Len(u), NEW j \in 0 .. Len(w),
         NEW c \in Nat, i <= k + c, v[i] = u[k],
         Dist(v, w, i - 1, j) <= Dist(u, w, k - 1, j) + c,
         j # 0 => Dist(v, w, i, j - 1) <= Dist(u, w, k, j - 1) + c,
         j # 0 => Dist(v, w, i - 1, j - 1) <= Dist(u, w, k - 1, j - 1) + c
  PROVE  Dist(v, w, i, j) <= Dist(u, w, k, j) + c
  <1>1. CASE j = 0
    <2>1. Dist(v, w, i, 0) = i /\ Dist(u, w, k, 0) = k
      BY <1>1, CellIs
    <2> QED
      BY <1>1, <2>1
  <1>2. CASE j # 0
    <2>1. /\ i - 1 \in 0 .. Len(v) /\ k - 1 \in 0 .. Len(u) /\ j - 1 \in 0 .. Len(w)
          /\ i \in 0 .. Len(v) /\ k \in 0 .. Len(u)
      BY <1>2
    <2>2. /\ Dist(v, w, i - 1, j) \in Nat /\ Dist(v, w, i, j - 1) \in Nat
          /\ Dist(v, w, i - 1, j - 1) \in Nat
          /\ Dist(u, w, k - 1, j) \in Nat /\ Dist(u, w, k, j - 1) \in Nat
          /\ Dist(u, w, k - 1, j - 1) \in Nat
      BY <2>1, CellsAreNat
    <2>3. CASE v[i] = w[j]
      <3>1. Dist(v, w, i, j) = Dist(v, w, i - 1, j - 1)
        BY <1>2, <2>1, <2>3, CellIs
      <3>2. Dist(u, w, k, j) = Dist(u, w, k - 1, j - 1)
        <4>1. u[k] = w[j] /\ k # 0
          BY <2>3
        <4> QED
          BY <1>2, <2>1, <4>1, CellIs
      <3> QED
        BY <1>2, <3>1, <3>2
    <2>4. CASE v[i] # w[j]
      <3> DEFINE l == LeastOf(Dist(v, w, i - 1, j), Dist(v, w, i, j - 1), Dist(v, w, i - 1, j - 1))
                 m == LeastOf(Dist(u, w, k - 1, j), Dist(u, w, k, j - 1), Dist(u, w, k - 1, j - 1))
      <3>1. Dist(v, w, i, j) = l + 1
        BY <1>2, <2>1, <2>4, CellIs
      <3>2. Dist(u, w, k, j) = m + 1
        BY <1>2, <2>1, <2>4, CellIs
      <3>3. /\ l \in {Dist(v, w, i - 1, j), Dist(v, w, i, j - 1), Dist(v, w, i - 1, j - 1)}
            /\ l <= Dist(v, w, i - 1, j) /\ l <= Dist(v, w, i, j - 1)
            /\ l <= Dist(v, w, i - 1, j - 1)
        BY <2>2, LeastIs
      <3>4. m \in {Dist(u, w, k - 1, j), Dist(u, w, k, j - 1), Dist(u, w, k - 1, j - 1)}
        BY <2>2, LeastIs
      <3> HIDE DEF l, m
      <3>5. l <= m + c
        BY SMTT(20), <1>2, <2>2, <3>3, <3>4
      <3>6. l \in Nat /\ m \in Nat
        BY <2>2, <3>3, <3>4
      <3> QED
        BY <3>1, <3>2, <3>5, <3>6
    <2> QED
      BY <2>3, <2>4
  <1> QED
    BY <1>1, <1>2

\* A letter taken away.
LEMMA WithoutIsNear ==
  ASSUME NEW u, NEW v, NEW w, Len(u) \in Nat, Len(v) \in Nat, Len(w) \in Nat,
         NEW p, IsWithout(u, v, p)
  PROVE  /\ Dist(v, w, Len(v), Len(w)) <= Dist(u, w, Len(u), Len(w)) + 1
         /\ Dist(u, w, Len(u), Len(w)) <= Dist(v, w, Len(v), Len(w)) + 1
  <1>1. /\ p \in 1 .. Len(v) /\ Len(u) = Len(v) - 1
        /\ \A i \in 1 .. Len(v) : i < p => i \in 1 .. Len(u) /\ v[i] = u[i]
        /\ \A i \in 1 .. Len(v) : i > p => i - 1 \in 1 .. Len(u) /\ v[i] = u[i - 1]
    <2>1. /\ p \in 1 .. Len(v) /\ Len(u) = Len(v) - 1
          /\ \A k \in 1 .. Len(u) : u[k] = v[IF k < p THEN k ELSE k + 1]
      BY DEF IsWithout
    <2>2. ASSUME NEW i \in 1 .. Len(v), i > p PROVE i - 1 \in 1 .. Len(u) /\ v[i] = u[i - 1]
      <3>1. i - 1 \in 1 .. Len(u) /\ ~ (i - 1 < p) /\ i - 1 + 1 = i
        BY <2>1, <2>2
      <3> QED
        BY <2>1, <3>1
    <2> QED
      BY <2>1, <2>2
  <1> DEFINE k(i) == IF i < p THEN i ELSE i - 1
             Near(i, j) ==
               /\ Dist(v, w, i, j) <= Dist(u, w, k(i), j) + (IF i < p THEN 0 ELSE 1)
               /\ Dist(u, w, k(i), j) <= Dist(v, w, i, j) + (IF i < p THEN 0 ELSE 1)
             T == {x \in (0 .. Len(v)) \X (0 .. Len(w)) : Near(x[1], x[2])}
             In(i, j) == <<i, j>> \in T
  <1>2. \A i \in 0 .. Len(v), j \in 0 .. Len(w) : In(i, j) <=> Near(i, j)
    <2> HIDE DEF Near
    <2> QED
      OBVIOUS
  <1> HIDE DEF T, In
  <1>3. ASSUME NEW i \in 0 .. Len(v), NEW j \in 0 .. Len(w),
               i # 0 => In(i - 1, j), j # 0 => In(i, j - 1),
               i # 0 /\ j # 0 => In(i - 1, j - 1)
        PROVE  Near(i, j)
    <2>1. /\ i # 0 => i - 1 \in 0 .. Len(v) /\ Near(i - 1, j)
          /\ j # 0 => j - 1 \in 0 .. Len(w) /\ Near(i, j - 1)
          /\ i # 0 /\ j # 0 => Near(i - 1, j - 1)
      <3> HIDE DEF Near
      <3> QED
        BY <1>2, <1>3
    <2>2. CASE i = 0
      <3>1. Dist(v, w, 0, j) = j /\ Dist(u, w, 0, j) = j
        BY CellIs
      <3> QED
        BY <1>1, <2>2, <3>1
    <2>3. CASE i # 0 /\ i < p
      <3>1. i \in 1 .. Len(v) /\ i \in 1 .. Len(u) /\ v[i] = u[i] /\ i - 1 < p
        BY <1>1, <2>3
      <3>2. /\ Dist(v, w, i, j) <= Dist(u, w, i, j) + 0
            /\ Dist(u, w, i, j) <= Dist(v, w, i, j) + 0
        BY <2>1, <2>3, <3>1, TablesKeepPace
      <3> QED
        BY <2>3, <3>2
    <2>4. CASE i = p
      <3>1. i - 1 \in 0 .. Len(u) /\ i - 1 \in 0 .. Len(v) /\ i # 0 /\ i - 1 < p
        BY <1>1, <2>4
      <3>2. Dist(v, w, i - 1, j) \in Nat /\ Dist(v, w, i, j) \in Nat /\ Dist(u, w, i - 1, j) \in Nat
        BY <3>1, CellsAreNat
      <3>3. /\ Dist(v, w, i, j) <= Dist(v, w, i - 1, j) + 1
            /\ Dist(v, w, i - 1, j) <= Dist(v, w, i, j) + 1
        BY <3>1, TableIsSmooth DEF Smooth
      <3> QED
        BY <2>1, <2>4, <3>1, <3>2, <3>3
    <2>5. CASE i > p
      <3>1. i \in 1 .. Len(v) /\ i - 1 \in 1 .. Len(u) /\ v[i] = u[i - 1] /\ ~ (i - 1 < p)
            /\ i # 0 /\ ~ (i < p)
        BY <1>1, <2>5
      <3>2. Dist(v, w, i, j) <= Dist(u, w, i - 1, j) + 1
        BY <2>1, <3>1, TablesKeepPace
      <3>3. Dist(u, w, i - 1, j) <= Dist(v, w, i, j) + 1
        <4> DEFINE h == i - 1
        <4>1. h \in 1 .. Len(u) /\ h <= i + 1 /\ u[h] = v[i]
          BY <3>1
        <4>2. /\ Dist(u, w, h - 1, j) <= Dist(v, w, i - 1, j) + 1
              /\ j # 0 => Dist(u, w, h, j - 1) <= Dist(v, w, i, j - 1) + 1
              /\ j # 0 => Dist(u, w, h - 1, j - 1) <= Dist(v, w, i - 1, j - 1) + 1
          BY <2>1, <3>1
        <4> HIDE DEF h
        <4>3. Dist(u, w, h, j) <= Dist(v, w, i, j) + 1
          BY <3>1, <4>1, <4>2, TablesKeepPace
        <4> QED
          BY <4>3 DEF h
      <3> QED
        BY <3>1, <3>2, <3>3
    <2> QED
      BY <1>1, <2>2, <2>3, <2>4, <2>5
  <1>4. \A i \in 0 .. Len(v), j \in 0 .. Len(w) : In(i, j)
    <2> HIDE DEF Near
    <2>1. T \in SUBSET ((0 .. Len(v)) \X (0 .. Len(w)))
      BY DEF T
    <2> QED
      BY <1>2, <1>3, <2>1, InductionOnCells DEF In
  <1>5. Near(Len(v), Len(w))
    <2> HIDE DEF Near
    <2>1. Len(v) \in 0 .. Len(v) /\ Len(w) \in 0 .. Len(w)
      OBVIOUS
    <2> QED
      BY <1>2, <1>4, <2>1
  <1> QED
    BY <1>1, <1>5

\* A letter replaced.
LEMMA ReplacedIsNear ==
  ASSUME NEW u, NEW v, NEW w, Len(u) \in Nat, Len(v) \in Nat, Len(w) \in Nat,
         NEW p, IsReplaced(u, v, p)
  PROVE  Dist(v, w, Len(v), Len(w)) <= Dist(u, w, Len(u), Len(w)) + 1
  <1>1. /\ p \in 1 .. Len(v) /\ Len(u) = Len(v)
        /\ \A i \in 1 .. Len(v) : i # p => v[i] = u[i]
    BY DEF IsReplaced
  <1> DEFINE Near(i, j) ==
               Dist(v, w, i, j) <= Dist(u, w, i, j) + (IF i < p THEN 0 ELSE 1)
             T == {x \in (0 .. Len(v)) \X (0 .. Len(w)) : Near(x[1], x[2])}
             In(i, j) == <<i, j>> \in T
  <1>2. \A i \in 0 .. Len(v), j \in 0 .. Len(w) : In(i, j) <=> Near(i, j)
    <2> HIDE DEF Near
    <2> QED
      OBVIOUS
  <1> HIDE DEF T, In
  <1>3. ASSUME NEW i \in 0 .. Len(v), NEW j \in 0 .. Len(w),
               i # 0 => In(i - 1, j), j # 0 => In(i, j - 1),
               i # 0 /\ j # 0 => In(i - 1, j - 1)
        PROVE  Near(i, j)
    <2>1. /\ i # 0 => i - 1 \in 0 .. Len(v) /\ Near(i - 1, j)
          /\ j # 0 => j - 1 \in 0 .. Len(w) /\ Near(i, j - 1)
          /\ i # 0 /\ j # 0 => Near(i - 1, j - 1)
      <3> HIDE DEF Near
      <3> QED
        BY <1>2, <1>3
    <2>2. CASE i = 0
      <3>1. Dist(v, w, 0, j) = j /\ Dist(u, w, 0, j) = j
        BY CellIs
      <3> QED
        BY <1>1, <2>2, <3>1
    <2>3. CASE i # 0 /\ i # p
      <3>1. i \in 1 .. Len(v) /\ i \in 1 .. Len(u) /\ v[i] = u[i]
        BY <1>1, <2>3
      <3> DEFINE c == IF i < p THEN 0 ELSE 1
      <3>2. c \in Nat /\ i <= i + c /\ c = (IF i - 1 < p THEN 0 ELSE 1)
        BY <1>1, <2>3
      <3>3. /\ Dist(v, w, i - 1, j) <= Dist(u, w, i - 1, j) + c
            /\ j # 0 => Dist(v, w, i, j - 1) <= Dist(u, w, i, j - 1) + c
            /\ j # 0 => Dist(v, w, i - 1, j - 1) <= Dist(u, w, i - 1, j - 1) + c
        BY <2>1, <2>3, <3>2
      <3> HIDE DEF c
      <3>4. Dist(v, w, i, j) <= Dist(u, w, i, j) + c
        BY <3>1, <3>2, <3>3, TablesKeepPace
      <3> QED
        BY <3>4 DEF c
    <2>4. CASE i = p
      <3>1. i - 1 \in 0 .. Len(v) /\ i # 0 /\ i - 1 < p /\ i \in 0 .. Len(u)
            /\ i - 1 \in 0 .. Len(u) /\ ~ (i < p)
        BY <1>1, <2>4
      <3>2. /\ Dist(v, w, i - 1, j) \in Nat /\ Dist(v, w, i, j) \in Nat
            /\ Dist(u, w, i - 1, j) \in Nat /\ Dist(u, w, i, j) \in Nat
        BY <3>1, CellsAreNat
      <3>3. Dist(v, w, i, j) <= Dist(v, w, i - 1, j) + 1
        BY <3>1, TableIsSmooth DEF Smooth
      <3>4. Dist(v, w, i - 1, j) <= Dist(u, w, i - 1, j)
        BY <2>1, <3>1, <3>2
      <3>5. CASE j = 0
        <4>1. Dist(v, w, i, 0) = i /\ Dist(u, w, i, 0) = i
          BY <3>1, <3>5, CellIs
        <4> QED
          BY <3>1, <3>5, <4>1
      <3>6. CASE j # 0
        <4>1. j - 1 \in 0 .. Len(w)
          BY <3>6
        <4>2. /\ Dist(v, w, i, j - 1) \in Nat /\ Dist(v, w, i - 1, j - 1) \in Nat
              /\ Dist(u, w, i, j - 1) \in Nat /\ Dist(u, w, i - 1, j - 1) \in Nat
          BY <3>1, <4>1, CellsAreNat
        <4>3. /\ Dist(v, w, i, j) <= Dist(v, w, i, j - 1) + 1
              /\ Dist(v, w, i, j) <= Dist(v, w, i - 1, j - 1) + 1
          BY <3>1, <3>6, TableIsSmooth DEF Smooth
        <4>4. /\ Dist(v, w, i, j - 1) <= Dist(u, w, i, j - 1) + 1
              /\ Dist(v, w, i - 1, j - 1) <= Dist(u, w, i - 1, j - 1)
          BY <2>1, <3>1, <3>6, <4>2
        <4>5. \/ Dist(u, w, i, j) = Dist(u, w, i - 1, j - 1)
              \/ Dist(u, w, i, j) = LeastOf(Dist(u, w, i - 1, j), Dist(u, w, i, j - 1),
                                         Dist(u, w, i - 1, j - 1)) + 1
          BY <3>1, <3>6, CellIs
        <4> DEFINE l == LeastOf(Dist(u, w, i - 1, j), Dist(u, w, i, j - 1), Dist(u, w, i - 1, j - 1))
        <4>l. l \in {Dist(u, w, i - 1, j), Dist(u, w, i, j - 1), Dist(u, w, i - 1, j - 1)}
          BY <3>2, <4>2, LeastIs
        <4> HIDE DEF l
        <4>6. Dist(v, w, i, j) <= Dist(u, w, i, j) + 1
          <5>1. CASE Dist(u, w, i, j) = Dist(u, w, i - 1, j - 1)
            BY SMTT(20), <3>2, <4>2, <4>3, <4>4, <5>1
          <5>2. CASE Dist(u, w, i, j) = l + 1
            <6>1. CASE l = Dist(u, w, i - 1, j)
              BY <3>2, <3>3, <3>4, <5>2, <6>1
            <6>2. CASE l = Dist(u, w, i, j - 1)
              BY SMTT(20), <3>2, <4>2, <4>3, <4>4, <5>2, <6>2
            <6>3. CASE l = Dist(u, w, i - 1, j - 1)
              BY SMTT(20), <3>2, <4>2, <4>3, <4>4, <5>2, <6>3
            <6> QED
              BY <4>l, <6>1, <6>2, <6>3
          <5> QED
            BY <4>5, <5>1, <5>2 DEF l
        <4> QED
          BY <3>1, <4>6
      <3> QED
        BY <3>5, <3>6
    <2> QED
      BY <2>2, <2>3, <2>4
  <1>4. \A i \in 0 .. Len(v), j \in 0 .. Len(w) : In(i, j)
    <2> HIDE DEF Near
    <2>1. T \in SUBSET ((0 .. Len(v)) \X (0 .. Len(w)))
      BY DEF T
    <2> QED
      BY <1>2, <1>3, <2>1, InductionOnCells DEF In
  <1>5. Near(Len(v), Len(w))
    <2> HIDE DEF Near
    <2>1. Len(v) \in 0 .. Len(v) /\ Len(w) \in 0 .. Len(w)
      OBVIOUS
    <2> QED
      BY <1>2, <1>4, <2>1
  <1> QED
    BY <1>1, <1>5

\* An edit brings a word nearer to another by one at most.
LEMMA EditIsNear ==
  ASSUME NEW u, NEW v, NEW w, Len(u) \in Nat, Len(v) \in Nat, Len(w) \in Nat,
         OneEdit(v, u)
  PROVE  Dist(v, w, Len(v), Len(w)) <= Dist(u, w, Len(u), Len(w)) + 1
  BY WithoutIsNear, ReplacedIsNear DEF OneEdit

\* A word has no distance from itself, with strcmp or without.
LEMMA DistanceIs ==
  ASSUME NEW A, NEW B, Len(A) \in Nat, Len(B) \in Nat
  PROVE  /\ Distance(A, B) = Dist(A, B, Len(A), Len(B))
         /\ Distance(A, A) = 0
         /\ Distance(A, B) \in Nat
  <1> DEFINE Zero(i, j) == i = j => Dist(A, A, i, j) = 0
             T == {x \in (0 .. Len(A)) \X (0 .. Len(A)) : Zero(x[1], x[2])}
             In(i, j) == <<i, j>> \in T
  <1>1. \A i \in 0 .. Len(A), j \in 0 .. Len(A) : In(i, j) <=> Zero(i, j)
    <2> HIDE DEF Zero
    <2> QED
      OBVIOUS
  <1> HIDE DEF T, In
  <1>2. ASSUME NEW i \in 0 .. Len(A), NEW j \in 0 .. Len(A),
               i # 0 /\ j # 0 => In(i - 1, j - 1)
        PROVE  Zero(i, j)
    <2> SUFFICES ASSUME i = j PROVE Dist(A, A, i, j) = 0
      OBVIOUS
    <2>1. CASE i = 0
      BY <2>1, CellIs
    <2>2. CASE i # 0
      <3>1. i - 1 \in 0 .. Len(A) /\ j - 1 \in 0 .. Len(A)
        BY <2>2
      <3>2. Dist(A, A, i - 1, j - 1) = 0
        BY <1>1, <1>2, <2>2, <3>1
      <3> QED
        BY <2>2, <3>2, CellIs
    <2> QED
      BY <2>1, <2>2
  <1>3. \A i \in 0 .. Len(A), j \in 0 .. Len(A) : In(i, j)
    <2> HIDE DEF Zero
    <2>1. T \in SUBSET ((0 .. Len(A)) \X (0 .. Len(A)))
      BY DEF T
    <2> QED
      BY <1>1, <1>2, <2>1, InductionOnCells DEF In
  <1>4. Len(A) \in 0 .. Len(A) /\ Len(B) \in 0 .. Len(B)
    OBVIOUS
  <1>5. Dist(A, A, Len(A), Len(A)) = 0
    BY <1>1, <1>3, <1>4
  <1>6. Distance(A, B) = Dist(A, B, Len(A), Len(B))
    BY <1>5 DEF Distance, Dist
  <1> QED
    BY <1>4, <1>6, CellsAreNat DEF Distance

\* The word without its letter k.
LEMMA WithoutIs ==
  ASSUME NEW S, NEW w \in Seq(S), NEW p \in 1 .. Len(w)
  PROVE  Without(w, p) \in Seq(S) /\ IsWithout(Without(w, p), w, p)
  <1> DEFINE n == Len(w)
             x == SubSeq(w, 1, p - 1)
             y == SubSeq(w, p + 1, Len(w))
  <1>1. n \in Nat /\ p \in 1 .. n
    OBVIOUS
  <1>2. x \in Seq(S) /\ Len(x) = p - 1 /\ \A i \in 1 .. p - 1 : x[i] = w[i]
    OBVIOUS
  <1>3. y \in Seq(S) /\ Len(y) = n - p /\ \A i \in 1 .. n - p : y[i] = w[p + i]
    OBVIOUS
  <1> HIDE DEF n, x, y
  <1>4. x \o y \in Seq(S) /\ Len(x \o y) = n - 1
    <2>1. \A a, b \in Seq(S) : a \o b \in Seq(S) /\ Len(a \o b) = Len(a) + Len(b)
      OBVIOUS
    <2>2. p - 1 + (n - p) = n - 1
      BY <1>1
    <2> QED
      BY <2>1, <2>2, <1>2, <1>3
  <1>5. ASSUME NEW k \in 1 .. n - 1
        PROVE  (x \o y)[k] = w[IF k < p THEN k ELSE k + 1]
    <2>1. CASE k < p
      <3>1. (x \o y)[k] = x[k]
        BY <2>1, <1>1, <1>2, <1>3
      <3> QED
        BY <3>1, <2>1, <1>1, <1>2
    <2>2. CASE ~ (k < p)
      <3> DEFINE l == k - (p - 1)
      <3>1. l \in 1 .. n - p /\ p + l = k + 1
        BY <2>2, <1>1
      <3>2. (x \o y)[k] = y[l]
        BY <2>2, <1>1, <1>2, <1>3
      <3> HIDE DEF l
      <3> QED
        BY <3>1, <3>2, <2>2, <1>3
    <2> QED
      BY <2>1, <2>2
  <1> QED
    BY <1>1, <1>4, <1>5 DEF IsWithout, Without, n, x, y

\* Edited's third part: the letter c behind the first k.
With(w, k, c) == SubSeq(w, 1, k) \o <<c>> \o SubSeq(w, k + 1, Len(w))

\* What it holds, and where: without that letter it is the word again.
LEMMA WithIs ==
  ASSUME NEW S, NEW w \in Seq(S), NEW k \in 0 .. Len(w), NEW c \in S
  PROVE  /\ With(w, k, c) \in Seq(S)
         /\ Len(With(w, k, c)) = Len(w) + 1
         /\ \A i \in 1 .. k : With(w, k, c)[i] = w[i]
         /\ With(w, k, c)[k + 1] = c
         /\ \A i \in k + 1 .. Len(w) : With(w, k, c)[i + 1] = w[i]
         /\ IsWithout(w, With(w, k, c), k + 1)
  <1> DEFINE n == Len(w)
             x == SubSeq(w, 1, k)
             y == SubSeq(w, k + 1, Len(w))
             z == x \o <<c>>
  <1>1. n \in Nat /\ k \in 0 .. n
    OBVIOUS
  <1>2. x \in Seq(S) /\ Len(x) = k /\ \A i \in 1 .. k : x[i] = w[i]
    OBVIOUS
  <1>3. y \in Seq(S) /\ Len(y) = n - k /\ \A i \in 1 .. n - k : y[i] = w[k + i]
    OBVIOUS
  <1> HIDE DEF n, x, y
  <1>4. /\ z \in Seq(S) /\ Len(z) = k + 1 /\ z[k + 1] = c
        /\ \A i \in 1 .. k : z[i] = w[i]
    BY <1>1, <1>2
  <1> HIDE DEF z
  <1>5. z \o y \in Seq(S) /\ Len(z \o y) = n + 1
    <2>1. \A a, b \in Seq(S) : a \o b \in Seq(S) /\ Len(a \o b) = Len(a) + Len(b)
      OBVIOUS
    <2>2. k + 1 + (n - k) = n + 1
      BY <1>1
    <2> QED
      BY <2>1, <2>2, <1>3, <1>4
  <1>6. \A i \in 1 .. k + 1 : (z \o y)[i] = z[i]
    BY <1>1, <1>3, <1>4
  <1>7. ASSUME NEW i \in k + 1 .. n PROVE (z \o y)[i + 1] = w[i]
    <2> DEFINE l == i - k
    <2>1. l \in 1 .. n - k /\ k + l = i /\ i + 1 = (k + 1) + l
      BY <1>1
    <2>2. (z \o y)[i + 1] = y[l]
      BY <2>1, <1>1, <1>3, <1>4
    <2> HIDE DEF l
    <2> QED
      BY <2>1, <2>2, <1>3
  <1>8. z \o y = With(w, k, c) /\ n = Len(w)
    BY DEF With, x, y, z, n
  <1>9. /\ With(w, k, c) \in Seq(S) /\ Len(With(w, k, c)) = n + 1
        /\ \A i \in 1 .. k : With(w, k, c)[i] = w[i]
        /\ With(w, k, c)[k + 1] = c
        /\ \A i \in k + 1 .. n : With(w, k, c)[i + 1] = w[i]
    <2>1. \A i \in 1 .. k : i \in 1 .. k + 1
      BY <1>1
    <2>2. k + 1 \in 1 .. k + 1
      BY <1>1
    <2> QED
      BY <1>4, <1>5, <1>6, <1>7, <1>8, <2>1, <2>2
  <1>10. IsWithout(w, With(w, k, c), k + 1)
    <2>1. \A i \in 1 .. n : i \in 1 .. k \/ (i \in k + 1 .. n /\ ~ (i < k + 1))
      BY <1>1
    <2>2. \A i \in 1 .. k : i < k + 1
      BY <1>1
    <2> QED
      BY <1>1, <1>8, <1>9, <2>1, <2>2 DEF IsWithout
  <1> QED
    BY <1>8, <1>9, <1>10

\* The three kinds of edits.
LEMMA EditedIs ==
  ASSUME NEW v, NEW S
  PROVE  Edited(v, S) = {Without(v, k) : k \in DOMAIN v}
                          \cup {[v EXCEPT ![k] = c] : k \in DOMAIN v, c \in S}
                          \cup {With(v, k, c) : k \in 0 .. Len(v), c \in S}
  BY SMT DEF Edited, With

\* What Edited holds is what one edit makes.
LEMMA EditedIsEdit ==
  ASSUME NEW T, NEW S \in SUBSET T, NEW v \in Seq(T), NEW u \in Edited(v, S)
  PROVE  u \in Seq(T) /\ OneEdit(v, u)
  <1>1. DOMAIN v = 1 .. Len(v) /\ Len(v) \in Nat
    OBVIOUS
  <1>2. ASSUME NEW k \in DOMAIN v, u = Without(v, k)
        PROVE  u \in Seq(T) /\ OneEdit(v, u)
    BY <1>1, <1>2, WithoutIs DEF OneEdit
  <1>3. ASSUME NEW k \in DOMAIN v, NEW c \in S, u = [v EXCEPT ![k] = c]
        PROVE  u \in Seq(T) /\ OneEdit(v, u)
    <2>1. k \in 1 .. Len(v) /\ c \in T
      BY <1>1
    <2>2. /\ u \in Seq(T) /\ Len(u) = Len(v)
          /\ \A j \in 1 .. Len(v) : u[j] = IF j = k THEN c ELSE v[j]
      BY <1>3, <2>1, ExceptSeq
    <2>3. IsReplaced(u, v, k)
      BY <2>1, <2>2 DEF IsReplaced
    <2> QED
      BY <1>1, <2>1, <2>2, <2>3 DEF OneEdit
  <1>4. ASSUME NEW k \in 0 .. Len(v), NEW c \in S, u = With(v, k, c)
        PROVE  u \in Seq(T) /\ OneEdit(v, u)
    <2>1. u \in Seq(T) /\ IsWithout(v, u, k + 1)
      BY <1>4, WithIs
    <2>2. k + 1 \in Nat
      OBVIOUS
    <2> QED
      BY <2>1, <2>2 DEF OneEdit
  <1>5. \/ \E k \in DOMAIN v : u = Without(v, k)
        \/ \E k \in DOMAIN v, c \in S : u = [v EXCEPT ![k] = c]
        \/ \E k \in 0 .. Len(v), c \in S : u = With(v, k, c)
    BY EditedIs
  <1> QED
    BY <1>2, <1>3, <1>4, <1>5

\* What one edit makes, of letters of S, is in Edited.
LEMMA EditIsEdited ==
  ASSUME NEW T, NEW S \in SUBSET T, NEW v \in Seq(T), NEW u \in Seq(S), OneEdit(v, u)
  PROVE  u \in Edited(v, S)
  <1>1. /\ DOMAIN v = 1 .. Len(v) /\ Len(v) \in Nat
        /\ u \in Seq(T) /\ Len(u) \in Nat /\ \A i \in 1 .. Len(u) : u[i] \in S
    BY SeqMonotonic
  <1>2. ASSUME NEW p, IsWithout(u, v, p) PROVE u \in Edited(v, S)
    <2>1. p \in 1 .. Len(v)
      BY <1>2 DEF IsWithout
    <2>2. Without(v, p) \in Seq(T) /\ IsWithout(Without(v, p), v, p)
      BY <2>1, WithoutIs
    <2>3. u = Without(v, p)
      <3>1. Len(u) = Len(Without(v, p)) /\ \A i \in 1 .. Len(u) : u[i] = Without(v, p)[i]
        BY <1>2, <2>2 DEF IsWithout
      <3> QED
        BY <1>1, <2>2, <3>1, SeqEqual
    <2> QED
      BY <1>1, <2>1, <2>3 DEF Edited
  <1>3. ASSUME NEW p, IsReplaced(u, v, p) PROVE u \in Edited(v, S)
    <2>1. /\ p \in 1 .. Len(v) /\ Len(u) = Len(v)
          /\ \A k \in 1 .. Len(u) : k # p => u[k] = v[k]
      BY <1>3 DEF IsReplaced
    <2> DEFINE x == [v EXCEPT ![p] = u[p]]
    <2>2. u[p] \in S /\ u[p] \in T
      BY <1>1, <2>1
    <2>3. /\ x \in Seq(T) /\ Len(x) = Len(v)
          /\ \A j \in 1 .. Len(v) : x[j] = IF j = p THEN u[p] ELSE v[j]
      BY <2>1, <2>2, ExceptSeq
    <2> HIDE DEF x
    <2>4. u = x
      BY <1>1, <2>1, <2>3, SeqEqual
    <2>5. p \in DOMAIN v
      BY <1>1, <2>1
    <2> QED
      BY <2>2, <2>4, <2>5 DEF Edited, x
  <1>4. ASSUME NEW p, IsWithout(v, u, p) PROVE u \in Edited(v, S)
    <2>1. /\ p \in 1 .. Len(u) /\ Len(v) = Len(u) - 1
          /\ \A k \in 1 .. Len(v) : v[k] = u[IF k < p THEN k ELSE k + 1]
      BY <1>4 DEF IsWithout
    <2>2. ASSUME NEW k \in 0 .. Len(v), NEW c \in S, k + 1 = p, c = u[p]
          PROVE  u \in Edited(v, S)
      <3> DEFINE x == With(v, k, c)
      <3>1. c \in T
        OBVIOUS
      <3>3. /\ x \in Seq(T)
            /\ Len(x) = Len(v) + 1
            /\ \A i \in 1 .. k : x[i] = v[i]
            /\ x[k + 1] = c
            /\ \A i \in k + 1 .. Len(v) : x[i + 1] = v[i]
            /\ IsWithout(v, x, k + 1)
        BY <3>1, WithIs
      <3> HIDE DEF x
      <3>4. Len(x) = Len(u)
        BY <1>1, <2>1, <3>3
      <3>5. ASSUME NEW i \in 1 .. Len(u) PROVE u[i] = x[i]
        <4>1. CASE i < p
          <5>1. i \in 1 .. k /\ i \in 1 .. Len(v)
            BY <1>1, <2>1, <2>2, <4>1
          <5> QED
            BY <2>1, <3>3, <4>1, <5>1
        <4>2. CASE i = p
          BY <2>2, <3>3, <4>2
        <4>3. CASE i > p
          <5> DEFINE h == i - 1
          <5>1. h \in k + 1 .. Len(v) /\ h \in 1 .. Len(v) /\ ~ (h < p) /\ h + 1 = i
            BY <1>1, <2>1, <2>2, <4>3
          <5> HIDE DEF h
          <5> QED
            BY <2>1, <3>3, <5>1
        <4> QED
          BY <1>1, <2>1, <4>1, <4>2, <4>3
      <3>6. u = x
        BY <1>1, <3>3, <3>4, <3>5, SeqEqual
      <3> QED
        BY <2>2, <3>6, EditedIs DEF x
    <2>3. p - 1 \in 0 .. Len(v) /\ u[p] \in S /\ p - 1 + 1 = p
      BY <1>1, <2>1
    <2> QED
      BY <2>2, <2>3
  <1> QED
    BY <1>2, <1>3, <1>4 DEF OneEdit

\* Edits can be undone.
LEMMA EditBack ==
  ASSUME NEW v, NEW w, Len(v) \in Nat, Len(w) \in Nat, OneEdit(v, w)
  PROVE  OneEdit(w, v)
  BY DEF OneEdit, IsReplaced

\* The letters of two words are those they are made of.
LEMMA Letters ==
  ASSUME NEW T, NEW v \in Seq(T), NEW w \in Seq(T)
  PROVE  /\ LettersOf(v) \cup LettersOf(w) \in SUBSET T
         /\ v \in Seq(LettersOf(v) \cup LettersOf(w))
         /\ w \in Seq(LettersOf(v) \cup LettersOf(w))
  <1> DEFINE S == LettersOf(v) \cup LettersOf(w)
  <1>1. /\ DOMAIN v = 1 .. Len(v) /\ Len(v) \in Nat /\ \A i \in 1 .. Len(v) : v[i] \in T
        /\ DOMAIN w = 1 .. Len(w) /\ Len(w) \in Nat /\ \A i \in 1 .. Len(w) : w[i] \in T
        /\ v = [i \in 1 .. Len(v) |-> v[i]] /\ w = [i \in 1 .. Len(w) |-> w[i]]
    OBVIOUS
  <1>2. /\ \A i \in 1 .. Len(v) : v[i] \in S
        /\ \A i \in 1 .. Len(w) : w[i] \in S
    BY <1>1 DEF LettersOf
  <1>3. S \in SUBSET T
    BY <1>1 DEF LettersOf
  <1> HIDE DEF S
  <1>4. v \in Seq(S) /\ w \in Seq(S)
    BY <1>1, <1>2
  <1> QED
    BY <1>3, <1>4 DEF S

\* As many edits as lead from a word to another, so far at most are they apart.
LEMMA WithinIsNear ==
  ASSUME NEW T, NEW v \in Seq(T), NEW w \in Seq(T), NEW n \in 0 .. 2, Within(n, v, w)
  PROVE  Distance(v, w) <= n
  <1> DEFINE S == LettersOf(v) \cup LettersOf(w)
  <1>1. S \in SUBSET T
    BY Letters
  <1>2. \A x \in Seq(T) : Len(x) \in Nat
    OBVIOUS
  <1>3. Distance(w, w) = 0 /\ Distance(v, w) \in Nat
    BY <1>2, DistanceIs
  <1>4. ASSUME NEW x \in Seq(T), NEW y \in Seq(T), OneEdit(x, y)
        PROVE  Distance(x, w) <= Distance(y, w) + 1
    BY <1>2, <1>4, EditIsNear, DistanceIs
  <1>5. CASE v = w
    BY <1>3, <1>5
  <1>6. CASE n >= 1 /\ w \in Edited(v, S)
    <2>1. OneEdit(v, w)
      BY <1>1, <1>6, EditedIsEdit
    <2>2. Distance(v, w) <= Distance(w, w) + 1
      BY <1>4, <2>1
    <2> QED
      BY <1>3, <1>6, <2>2
  <1>7. CASE n >= 2 /\ Edited(v, S) \cap Edited(w, S) # {}
    <2>1. PICK u : u \in Edited(v, S) /\ u \in Edited(w, S)
      BY <1>7
    <2>2. u \in Seq(T) /\ OneEdit(v, u) /\ OneEdit(w, u)
      BY <1>1, <2>1, EditedIsEdit
    <2>3. OneEdit(u, w)
      BY <1>2, <2>2, EditBack
    <2>4. Distance(v, w) <= Distance(u, w) + 1 /\ Distance(u, w) <= Distance(w, w) + 1
      BY <1>4, <2>2, <2>3
    <2>5. Distance(u, w) \in Nat
      BY <1>2, <2>2, DistanceIs
    <2> QED
      BY <1>3, <1>7, <2>4, <2>5
  <1> QED
    BY <1>5, <1>6, <1>7 DEF Within

\* The first i letters of w.
Prefix(w, i) == SubSeq(w, 1, i)

\* Prefixes grow by a letter.
LEMMA PrefixIs ==
  ASSUME NEW T, NEW w \in Seq(T)
  PROVE  /\ \A i \in 0 .. Len(w) : Prefix(w, i) \in Seq(T)
         /\ Prefix(w, 0) = <<>> /\ Prefix(w, Len(w)) = w
         /\ \A i \in 1 .. Len(w) : /\ w[i] \in T
                                   /\ Prefix(w, i) = Append(Prefix(w, i - 1), w[i])
  <1>1. Len(w) \in Nat
    OBVIOUS
  <1>2. ASSUME NEW i \in 0 .. Len(w)
        PROVE  /\ Prefix(w, i) \in Seq(T) /\ Len(Prefix(w, i)) = i
               /\ \A k \in 1 .. i : Prefix(w, i)[k] = w[k]
    BY DEF Prefix
  <1>3. Prefix(w, 0) = <<>>
    BY <1>1, <1>2, EmptySeq
  <1>4. Prefix(w, Len(w)) = w
    BY SubSeqFull DEF Prefix
  <1>5. ASSUME NEW i \in 1 .. Len(w) PROVE Prefix(w, i) = Append(Prefix(w, i - 1), w[i])
    <2> DEFINE a == Append(Prefix(w, i - 1), w[i])
    <2>1. i \in 0 .. Len(w) /\ i - 1 \in 0 .. Len(w) /\ w[i] \in T
      BY <1>1
    <2>2. /\ a \in Seq(T) /\ Len(a) = i - 1 + 1 /\ a[i] = w[i]
          /\ \A k \in 1 .. i - 1 : a[k] = w[k]
      <3>1. /\ Prefix(w, i - 1) \in Seq(T) /\ Len(Prefix(w, i - 1)) = i - 1
            /\ \A k \in 1 .. i - 1 : Prefix(w, i - 1)[k] = w[k]
        BY <1>2, <2>1
      <3> QED
        BY <2>1, <3>1, AppendProperties
    <2> HIDE DEF a
    <2>3. Len(a) = i /\ \A k \in 1 .. i : a[k] = w[k]
      BY <2>2
    <2>4. /\ Prefix(w, i) \in Seq(T) /\ Len(Prefix(w, i)) = i
          /\ \A k \in 1 .. i : Prefix(w, i)[k] = w[k]
      BY <1>2, <2>1
    <2>5. Prefix(w, i) = a
      BY <2>2, <2>3, <2>4, SeqEqual
    <2> QED
      BY <2>5 DEF a
  <1>6. \A i \in 1 .. Len(w) : w[i] \in T
    OBVIOUS
  <1> QED
    BY <1>2, <1>3, <1>4, <1>5, <1>6

\* Edits at the end of a word, and before a letter that follows.
LEMMA EditsAtEnd ==
  ASSUME NEW T, NEW v \in Seq(T), NEW w \in Seq(T), NEW x \in T, NEW y \in T
  PROVE  /\ OneEdit(v, Append(v, x)) /\ OneEdit(Append(v, x), v)
         /\ OneEdit(Append(v, x), Append(v, y))
         /\ OneEdit(v, w) => OneEdit(Append(v, x), Append(w, x))
  <1>1. \A s \in Seq(T) : \A c \in T :
          /\ Append(s, c) \in Seq(T) /\ Len(s) \in Nat
          /\ Len(Append(s, c)) = Len(s) + 1 /\ Append(s, c)[Len(s) + 1] = c
          /\ \A k \in 1 .. Len(s) : Append(s, c)[k] = s[k]
    BY AppendProperties
  <1> DEFINE vx == Append(v, x)
             vy == Append(v, y)
             wx == Append(w, x)
             m == Len(v)
             n == Len(w)
  <1>2. /\ m \in Nat /\ n \in Nat
        /\ Len(vx) = m + 1 /\ Len(vy) = m + 1 /\ Len(wx) = n + 1
        /\ vx[m + 1] = x /\ vy[m + 1] = y /\ wx[n + 1] = x
        /\ \A k \in 1 .. m : vx[k] = v[k] /\ vy[k] = v[k]
        /\ \A k \in 1 .. n : wx[k] = w[k]
    BY <1>1
  <1> HIDE DEF vx, vy, wx
  <1>3. IsWithout(v, vx, m + 1)
    BY <1>2 DEF IsWithout
  <1>4. IsReplaced(vy, vx, m + 1)
    BY <1>2 DEF IsReplaced
  <1>5. ASSUME NEW p, IsWithout(w, v, p) PROVE IsWithout(wx, vx, p)
    <2>1. /\ p \in 1 .. m /\ n = m - 1
          /\ \A k \in 1 .. n : w[k] = v[IF k < p THEN k ELSE k + 1]
      BY <1>5 DEF IsWithout
    <2>2. ASSUME NEW k \in 1 .. n + 1 PROVE wx[k] = vx[IF k < p THEN k ELSE k + 1]
      <3>1. CASE k = n + 1
        BY <1>2, <2>1, <3>1
      <3>2. CASE k # n + 1
        <4>1. k \in 1 .. n /\ (IF k < p THEN k ELSE k + 1) \in 1 .. m
          BY <1>2, <2>1, <3>2
        <4> QED
          BY <1>2, <2>1, <4>1
      <3> QED
        BY <3>1, <3>2
    <2> QED
      BY <1>2, <2>1, <2>2 DEF IsWithout
  <1>6. ASSUME NEW p, IsWithout(v, w, p) PROVE IsWithout(vx, wx, p)
    <2>1. /\ p \in 1 .. n /\ m = n - 1
          /\ \A k \in 1 .. m : v[k] = w[IF k < p THEN k ELSE k + 1]
      BY <1>6 DEF IsWithout
    <2>2. ASSUME NEW k \in 1 .. m + 1 PROVE vx[k] = wx[IF k < p THEN k ELSE k + 1]
      <3>1. CASE k = m + 1
        BY <1>2, <2>1, <3>1
      <3>2. CASE k # m + 1
        <4>1. k \in 1 .. m /\ (IF k < p THEN k ELSE k + 1) \in 1 .. n
          BY <1>2, <2>1, <3>2
        <4> QED
          BY <1>2, <2>1, <4>1
      <3> QED
        BY <3>1, <3>2
    <2> QED
      BY <1>2, <2>1, <2>2 DEF IsWithout
  <1>7. ASSUME NEW p, IsReplaced(w, v, p) PROVE IsReplaced(wx, vx, p)
    <2>1. /\ p \in 1 .. m /\ n = m
          /\ \A k \in 1 .. n : k # p => w[k] = v[k]
      BY <1>7 DEF IsReplaced
    <2>2. ASSUME NEW k \in 1 .. n + 1, k # p PROVE wx[k] = vx[k]
      <3>1. CASE k = n + 1
        BY <1>2, <2>1, <3>1
      <3>2. CASE k # n + 1
        <4>1. k \in 1 .. n /\ k \in 1 .. m
          BY <1>2, <2>1, <3>2
        <4> QED
          BY <1>2, <2>1, <2>2, <4>1
      <3> QED
        BY <3>1, <3>2
    <2> QED
      BY <1>2, <2>1, <2>2 DEF IsReplaced
  <1>8. m + 1 \in Nat
    BY <1>2
  <1>9. OneEdit(v, vx) /\ OneEdit(vx, v) /\ OneEdit(vx, vy)
    BY <1>3, <1>4, <1>8 DEF OneEdit
  <1>10. OneEdit(v, w) => OneEdit(vx, wx)
    BY <1>5, <1>6, <1>7 DEF OneEdit
  <1> QED
    BY <1>9, <1>10 DEF vx, vy, wx

\* One edit at most makes w of v.
Near1(v, w) == v = w \/ OneEdit(v, w)

\* What leads to a cell of the table: the letter that both words have there, or
\* one that is removed, inserted or replaced.
LEMMA CellComesFrom ==
  ASSUME NEW A, NEW B, Len(A) \in Nat, Len(B) \in Nat,
         NEW i \in 0 .. Len(A), NEW j \in 0 .. Len(B)
  PROVE  \/ i = 0 /\ j = 0 /\ Dist(A, B, i, j) = 0
         \/ i # 0 /\ j # 0 /\ A[i] = B[j] /\ Dist(A, B, i, j) = Dist(A, B, i - 1, j - 1)
         \/ i # 0 /\ Dist(A, B, i, j) = Dist(A, B, i - 1, j) + 1
         \/ j # 0 /\ Dist(A, B, i, j) = Dist(A, B, i, j - 1) + 1
         \/ i # 0 /\ j # 0 /\ Dist(A, B, i, j) = Dist(A, B, i - 1, j - 1) + 1
  <1>1. CASE i = 0
    <2>1. Dist(A, B, 0, j) = j /\ (j # 0 => j - 1 \in 0 .. Len(B) /\ Dist(A, B, 0, j - 1) = j - 1)
      BY <1>1, CellIs
    <2> QED
      BY <1>1, <2>1
  <1>2. CASE j = 0
    <2>1. Dist(A, B, i, 0) = i /\ (i # 0 => i - 1 \in 0 .. Len(A) /\ Dist(A, B, i - 1, 0) = i - 1)
      BY <1>2, CellIs
    <2> QED
      BY <1>2, <2>1
  <1>3. CASE i # 0 /\ j # 0 /\ A[i] = B[j]
    BY <1>3, CellIs
  <1>4. CASE i # 0 /\ j # 0 /\ A[i] # B[j]
    <2>1. i - 1 \in 0 .. Len(A) /\ j - 1 \in 0 .. Len(B)
      BY <1>4
    <2>2. /\ Dist(A, B, i - 1, j) \in Nat /\ Dist(A, B, i, j - 1) \in Nat
          /\ Dist(A, B, i - 1, j - 1) \in Nat
      BY <2>1, CellsAreNat
    <2> DEFINE l == LeastOf(Dist(A, B, i - 1, j), Dist(A, B, i, j - 1), Dist(A, B, i - 1, j - 1))
    <2>3. l \in {Dist(A, B, i - 1, j), Dist(A, B, i, j - 1), Dist(A, B, i - 1, j - 1)}
      BY <2>2, LeastIs
    <2>4. Dist(A, B, i, j) = l + 1
      BY <1>4, CellIs
    <2> HIDE DEF l
    <2> QED
      BY <1>4, <2>3, <2>4
  <1> QED
    BY <1>1, <1>2, <1>3, <1>4

\* As far apart as the prefixes are, by the table, so many edits lead from one
\* to the other.
LEMMA TableIsSound ==
  ASSUME NEW T, NEW A \in Seq(T), NEW B \in Seq(T)
  PROVE  \A i \in 0 .. Len(A), j \in 0 .. Len(B) :
           /\ Dist(A, B, i, j) = 0 => Prefix(A, i) = Prefix(B, j)
           /\ Dist(A, B, i, j) <= 1 => Near1(Prefix(A, i), Prefix(B, j))
           /\ Dist(A, B, i, j) <= 2 => \E u \in Seq(T) : /\ Near1(Prefix(A, i), u)
                                                      /\ Near1(u, Prefix(B, j))
  <1> DEFINE d(i, j) == Dist(A, B, i, j)
             p(i) == Prefix(A, i)
             q(j) == Prefix(B, j)
             Near2(v, w) == \E u \in Seq(T) : Near1(v, u) /\ Near1(u, w)
             Sound(i, j) == /\ d(i, j) = 0 => p(i) = q(j)
                            /\ d(i, j) <= 1 => Near1(p(i), q(j))
                            /\ d(i, j) <= 2 => Near2(p(i), q(j))
             Z == {x \in (0 .. Len(A)) \X (0 .. Len(B)) : Sound(x[1], x[2])}
             In(i, j) == <<i, j>> \in Z
  <1>1. \A i \in 0 .. Len(A), j \in 0 .. Len(B) : In(i, j) <=> Sound(i, j)
    <2> HIDE DEF Sound
    <2> QED
      OBVIOUS
  <1>2. Len(A) \in Nat /\ Len(B) \in Nat
    OBVIOUS
  <1> HIDE DEF Z, In
  <1>3. ASSUME NEW i \in 0 .. Len(A), NEW j \in 0 .. Len(B),
               i # 0 => In(i - 1, j), j # 0 => In(i, j - 1),
               i # 0 /\ j # 0 => In(i - 1, j - 1)
        PROVE  Sound(i, j)
    <2>1. /\ i # 0 => i - 1 \in 0 .. Len(A) /\ Sound(i - 1, j)
          /\ j # 0 => j - 1 \in 0 .. Len(B) /\ Sound(i, j - 1)
          /\ i # 0 /\ j # 0 => Sound(i - 1, j - 1)
      <3> HIDE DEF Sound
      <3> QED
        BY <1>1, <1>3
    <2>2. /\ \A k \in 0 .. Len(A), l \in 0 .. Len(B) : d(k, l) \in Nat
          /\ \A k \in 0 .. Len(A) : p(k) \in Seq(T)
          /\ \A l \in 0 .. Len(B) : q(l) \in Seq(T)
      BY <1>2, CellsAreNat, PrefixIs
    <2>3. /\ i # 0 => A[i] \in T /\ p(i) = Append(p(i - 1), A[i])
          /\ j # 0 => B[j] \in T /\ q(j) = Append(q(j - 1), B[j])
      <3>1. i # 0 => i \in 1 .. Len(A)
        OBVIOUS
      <3>2. j # 0 => j \in 1 .. Len(B)
        OBVIOUS
      <3> QED
        BY <3>1, <3>2, PrefixIs
    <2>4. \/ i = 0 /\ j = 0 /\ d(i, j) = 0
          \/ i # 0 /\ j # 0 /\ A[i] = B[j] /\ d(i, j) = d(i - 1, j - 1)
          \/ i # 0 /\ d(i, j) = d(i - 1, j) + 1
          \/ j # 0 /\ d(i, j) = d(i, j - 1) + 1
          \/ i # 0 /\ j # 0 /\ d(i, j) = d(i - 1, j - 1) + 1
      BY <1>2, CellComesFrom
    <2> HIDE DEF d, p, q
    <2>5. /\ \A v, w \in Seq(T) : \A x \in T :
               Near1(v, w) => Near1(Append(v, x), Append(w, x))
          /\ \A v \in Seq(T) : \A x, y \in T :
               /\ Near1(v, Append(v, x)) /\ Near1(Append(v, x), v)
               /\ Near1(Append(v, x), Append(v, y))
               /\ Append(v, x) \in Seq(T)
          /\ \A v \in Seq(T) : Near1(v, v)
      BY EditsAtEnd, AppendProperties DEF Near1
    <2>6. CASE i = 0 /\ j = 0
      <3>1. p(0) = <<>> /\ q(0) = <<>> /\ <<>> \in Seq(T)
        BY PrefixIs DEF p, q
      <3> QED
        BY <2>5, <2>6, <3>1
    <2>7. CASE i # 0 /\ j # 0 /\ A[i] = B[j] /\ d(i, j) = d(i - 1, j - 1)
      <3> DEFINE v == p(i - 1)
                 w == q(j - 1)
                 x == A[i]
      <3>1. /\ v \in Seq(T) /\ w \in Seq(T) /\ x \in T
            /\ p(i) = Append(v, x) /\ q(j) = Append(w, x)
        BY <2>1, <2>2, <2>3, <2>7
      <3>2. /\ d(i, j) = 0 => v = w
            /\ d(i, j) <= 1 => Near1(v, w)
            /\ d(i, j) <= 2 => Near2(v, w)
        BY <2>1, <2>7
      <3> HIDE DEF v, w, x
      <3>3. ASSUME NEW u \in Seq(T), Near1(v, u), Near1(u, w)
            PROVE  Near2(p(i), q(j))
        <4>1. Append(u, x) \in Seq(T)
          BY <2>5, <3>1
        <4>2. Near1(p(i), Append(u, x)) /\ Near1(Append(u, x), q(j))
          BY <2>5, <3>1, <3>3
        <4> QED
          BY <4>1, <4>2
      <3> QED
        BY <2>5, <3>1, <3>2, <3>3
    <2>8. CASE i # 0 /\ d(i, j) = d(i - 1, j) + 1
      <3>1. d(i - 1, j) \in Nat /\ p(i - 1) \in Seq(T) /\ q(j) \in Seq(T)
        BY <2>1, <2>2, <2>8
      <3>2. /\ d(i, j) <= 1 => p(i - 1) = q(j)
            /\ d(i, j) <= 2 => Near1(p(i - 1), q(j))
        BY <2>1, <2>8, <3>1
      <3>3. Near1(p(i), p(i - 1)) /\ d(i, j) # 0
        <4>1. A[i] \in T /\ p(i) = Append(p(i - 1), A[i])
          BY <2>3, <2>8
        <4>2. Near1(p(i), p(i - 1))
          BY <2>5, <3>1, <4>1, Zenon
        <4> QED
          BY <2>8, <3>1, <4>2
      <3> QED
        BY <2>5, <3>1, <3>2, <3>3
    <2>9. CASE j # 0 /\ d(i, j) = d(i, j - 1) + 1
      <3>1. d(i, j - 1) \in Nat /\ q(j - 1) \in Seq(T) /\ p(i) \in Seq(T)
        BY <2>1, <2>2, <2>9
      <3>2. /\ d(i, j) <= 1 => p(i) = q(j - 1)
            /\ d(i, j) <= 2 => Near1(p(i), q(j - 1))
        BY <2>1, <2>9, <3>1
      <3>3. Near1(q(j - 1), q(j)) /\ d(i, j) # 0
        <4>1. B[j] \in T /\ q(j) = Append(q(j - 1), B[j])
          BY <2>3, <2>9
        <4>2. Near1(q(j - 1), q(j))
          BY <2>5, <3>1, <4>1, Zenon
        <4> QED
          BY <2>9, <3>1, <4>2
      <3> QED
        BY <2>5, <3>1, <3>2, <3>3
    <2>10. CASE i # 0 /\ j # 0 /\ d(i, j) = d(i - 1, j - 1) + 1
      <3> DEFINE v == p(i - 1)
                 w == q(j - 1)
                 u == Append(v, B[j])
      <3>1. /\ d(i - 1, j - 1) \in Nat /\ v \in Seq(T) /\ w \in Seq(T)
            /\ A[i] \in T /\ B[j] \in T
            /\ p(i) = Append(v, A[i]) /\ q(j) = Append(w, B[j])
        BY <2>1, <2>2, <2>3, <2>10
      <3>2. /\ d(i, j) <= 1 => v = w
            /\ d(i, j) <= 2 => Near1(v, w)
        BY SMTT(20), <2>1, <2>10, <3>1
      <3> HIDE DEF v, w
      <3>3. u \in Seq(T) /\ Near1(p(i), u) /\ (Near1(v, w) => Near1(u, q(j)))
        BY <2>5, <3>1
      <3>4. v = w => u = q(j)
        BY <3>1
      <3>5. d(i, j) # 0
        BY <2>10, <3>1
      <3> HIDE DEF u
      <3> QED
        BY <2>5, <3>2, <3>3, <3>4, <3>5
    <2> QED
      BY <2>4, <2>6, <2>7, <2>8, <2>9, <2>10
  <1>4. \A i \in 0 .. Len(A), j \in 0 .. Len(B) : In(i, j)
    <2> HIDE DEF Sound
    <2>1. Z \in SUBSET ((0 .. Len(A)) \X (0 .. Len(B)))
      BY DEF Z
    <2> QED
      BY <1>1, <1>2, <1>3, <2>1, InductionOnCells DEF In
  <1>5. \A i \in 0 .. Len(A), j \in 0 .. Len(B) : Sound(i, j)
    <2> HIDE DEF Sound
    <2> QED
      BY <1>1, <1>4
  <1> QED
    BY <1>5

\* utilLevenshtein counts edits: two words are n apart at most, for n up to two,
\* exactly if at most n edits make one of the other.
THEOREM DistanceCountsEdits ==
  ASSUME NEW T, NEW v \in Seq(T), NEW w \in Seq(T), NEW n \in 0 .. 2
  PROVE  Distance(v, w) <= n <=> Within(n, v, w)
  <1>1. ASSUME Distance(v, w) <= n PROVE Within(n, v, w)
    <2> DEFINE S == LettersOf(v) \cup LettersOf(w)
    <2>1. S \in SUBSET T /\ v \in Seq(S) /\ w \in Seq(S)
      BY Letters
    <2> HIDE DEF S
    <2>2. Len(v) \in Nat /\ Len(w) \in Nat
      OBVIOUS
    <2>3. Dist(v, w, Len(v), Len(w)) = Distance(v, w) /\ Distance(v, w) \in Nat
      BY <2>2, DistanceIs
    <2>4. Prefix(v, Len(v)) = v /\ Prefix(w, Len(w)) = w
      BY PrefixIs
    <2>5. Len(v) \in 0 .. Len(v) /\ Len(w) \in 0 .. Len(w)
      BY <2>2
    <2>6. /\ Distance(v, w) = 0 => v = w
          /\ Distance(v, w) <= 1 => Near1(v, w)
          /\ Distance(v, w) <= 2 => \E u \in Seq(S) : Near1(v, u) /\ Near1(u, w)
      BY <2>1, <2>3, <2>4, <2>5, TableIsSound
    <2>7. OneEdit(v, w) => w \in Edited(v, S)
      BY <2>1, EditIsEdited
    <2>8. ASSUME NEW u \in Seq(S), Near1(v, u), Near1(u, w)
          PROVE  Near1(v, w) \/ Edited(v, S) \cap Edited(w, S) # {}
      <3>1. CASE v = u \/ u = w
        BY <2>8, <3>1 DEF Near1
      <3>2. CASE OneEdit(v, u) /\ OneEdit(u, w)
        <4>1. OneEdit(w, u)
          <5>1. Len(u) \in Nat
            OBVIOUS
          <5> QED
            BY <2>2, <3>2, <5>1, EditBack
        <4>2. u \in Edited(v, S) /\ u \in Edited(w, S)
          BY <2>1, <3>2, <4>1, EditIsEdited
        <4> QED
          BY <4>2
      <3> QED
        BY <2>8, <3>1, <3>2 DEF Near1
    <2>9. CASE n = 0
      BY <1>1, <2>3, <2>6, <2>9 DEF Within
    <2>10. CASE n = 1
      BY <1>1, <2>3, <2>6, <2>7, <2>10 DEF Within, Near1, S
    <2>11. CASE n = 2
      <3>1. Near1(v, w) \/ Edited(v, S) \cap Edited(w, S) # {}
        BY <1>1, <2>6, <2>8, <2>11
      <3>2. n >= 1 /\ n >= 2
        BY <2>11
      <3> QED
        BY <2>7, <3>1, <3>2, Zenon DEF Within, Near1, S
    <2> QED
      BY <2>9, <2>10, <2>11
  <1>2. ASSUME Within(n, v, w) PROVE Distance(v, w) <= n
    BY <1>2, WithinIsNear
  <1> QED
    BY <1>1, <1>2
=============================================================================
