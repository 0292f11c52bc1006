------------------------------ MODULE MCShell ------------------------------
(***************************************************************************)
(* Two files, each with an image in it or with something else, and images  *)
(* of three kinds.  Two cells of path, and a directory beyond them.        *)
(***************************************************************************)
EXTENDS Shell, TLC

Tree(sub) == [d \in Dir |-> [n \in Name |->
                IF <<d, n>> \in DOMAIN sub THEN sub[<<d, n>>] ELSE NoDir]]

\* "flat" has directories a and b in the root; in "chain" b lies in a, and in
\* "deep" c lies in b.
MCSub ==
  [ flat  |-> Tree((<<2, "..">> :> 2) @@ (<<2, "a">> :> 12) @@ (<<2, "b">> :> 13)
                   @@ (<<12, "..">> :> 2) @@ (<<13, "..">> :> 2)),
    chain |-> Tree((<<2, "..">> :> 2) @@ (<<2, "a">> :> 12) @@ (<<12, "b">> :> 13)
                   @@ (<<12, "..">> :> 2) @@ (<<13, "..">> :> 12)),
    deep  |-> Tree((<<2, "..">> :> 2) @@ (<<2, "a">> :> 13) @@ (<<13, "b">> :> 12)
                   @@ (<<12, "c">> :> 14) @@ (<<13, "..">> :> 2)
                   @@ (<<12, "..">> :> 13) @@ (<<14, "..">> :> 12)) ]

MCLevel ==
  [ flat  |-> (2 :> 0) @@ (12 :> 1) @@ (13 :> 1) @@ (14 :> 0),
    chain |-> (2 :> 0) @@ (12 :> 1) @@ (13 :> 2) @@ (14 :> 0),
    deep  |-> (2 :> 0) @@ (13 :> 1) @@ (12 :> 2) @@ (14 :> 3) ]

Fresh(i) ==
  LET v == [img |-> i, edits |-> 0]
  IN  [body |-> v, tail |-> IF i \in Ragged THEN v ELSE Nothing]

NotExt2 == [body |-> Nothing, tail |-> Nothing]

MCStarts ==
  { ("f" :> Fresh(i)) @@ ("g" :> c) :
      i \in Image, c \in {Fresh("chain"), NotExt2} }
=============================================================================
