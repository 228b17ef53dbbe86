---------------------------- MODULE MCMemoCache -----------------------------
(***************************************************************************)
(* MemoCache for TLC.                                                      *)
(***************************************************************************)
EXTENDS MemoCache, TLC

CONSTANTS p1, p2, k1, k2, k3

\* Two keys collide in the hash table; the third is larger.
Indexes == [k \in Key |-> IF k = k3 THEN 1 ELSE 0]
Sizes   == [k \in Key |-> IF k = k3 THEN 2 ELSE 1]

Symmetry == Permutations(Client)
=============================================================================
