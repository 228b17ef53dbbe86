---------------------------- MODULE MCFastSync ------------------------------
(***************************************************************************)
(* FastSync for TLC.                                                       *)
(***************************************************************************)
EXTENDS FastSync, TLC

CONSTANTS t1, t2, t3, t4, m1, m2, c1, c2

Symmetry == Permutations({t1, t2, t3})

AnyCall == ({"lock"} \X Mutex) \union ({"wait", "signal", "broadcast"} \X Cond)

AnyCalls == [t \in Thread |-> AnyCall]

\* The mutex and its condition collide in the hash table.
OneBucket == [a \in Mutex \union Cond |-> 0]

\* c1 and m2 share a bucket, and so do c2 and m1: one broadcast moves threads
\* from the first bucket to the second while another goes the other way.
Crossed == [a \in Mutex \union Cond |-> IF a \in {c1, m2} THEN 0 ELSE 1]

\* Two threads wait, each with a mutex of its own, on the same condition or on
\* different ones; two others broadcast, and one of these may signal instead.
TwoPairs ==
  [t \in Thread |-> CASE t = t1 -> {<<"lock", m1>>, <<"wait", c1>>}
                     [] t = t2 -> {<<"lock", m2>>, <<"wait", c1>>, <<"wait", c2>>}
                     [] t = t3 -> {<<"broadcast", c1>>, <<"signal", c1>>}
                     [] t = t4 -> {<<"broadcast", c2>>}]

=============================================================================
