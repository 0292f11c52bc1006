---------------------------- MODULE Levenshtein ----------------------------
(***************************************************************************)
(* The edit distance of util.c, behind the command a mistyped line brings  *)
(* to mind, and what it should be: how many letters must be inserted,      *)
(* removed or replaced to make one word of the other.  A word is a         *)
(* sequence of letters.                                                    *)
(***************************************************************************)
EXTENDS Naturals, Sequences

\* (With no letter ever replaced.)
LeastOfTwo(a, b, c) == IF b < a THEN b ELSE a

LeastOf(a, b, c) ==
  IF b < a THEN (IF c < b THEN c ELSE b) ELSE (IF c < a THEN c ELSE a)

\* _levenshtein, at <<i, j>> on the first i letters of A and the first j of B.
Table(A, B) ==
  LET d[x \in (0 .. Len(A)) \X (0 .. Len(B))] ==
        LET i == x[1]
            j == x[2]
        IN  IF i = 0 THEN j
            ELSE IF j = 0 THEN i
            ELSE IF A[i] = B[j] THEN d[<<i - 1, j - 1>>]
            ELSE LeastOf(d[<<i - 1, j>>], d[<<i, j - 1>>], d[<<i - 1, j - 1>>]) + 1
  IN  d

\* Its strcmp sees the words whole, whatever i and j are.
Distance(A, B) == IF A = B THEN 0 ELSE Table(A, B)[<<Len(A), Len(B)>>]

-----------------------------------------------------------------------------
(* What a distance of up to two means, told by the edits themselves.       *)

Without(w, k) == SubSeq(w, 1, k - 1) \o SubSeq(w, k + 1, Len(w))

\* The words that one edit makes of w, with letters of S.
Edited(w, S) ==
  { Without(w, k) : k \in DOMAIN w }
    \cup { [w EXCEPT ![k] = c] : k \in DOMAIN w, c \in S }
    \cup { SubSeq(w, 1, k) \o <<c>> \o SubSeq(w, k + 1, Len(w)) :
             k \in 0 .. Len(w), c \in S }

LettersOf(w) == { w[k] : k \in DOMAIN w }

\* At most n edits lead from v to w, for n up to two.
Within(n, v, w) ==
  LET S == LettersOf(v) \cup LettersOf(w)
  IN  \/ v = w
      \/ n >= 1 /\ w \in Edited(v, S)
      \/ n >= 2 /\ Edited(v, S) \cap Edited(w, S) # {}
=============================================================================
