-------------------------------- MODULE Memo --------------------------------
(***************************************************************************)
(* What the memoization cache promises a pipeline: a result that is found  *)
(* was stored for that key, is not evicted while anybody uses it, and two  *)
(* results are never kept for one key.                                     *)
(***************************************************************************)
CONSTANTS Client, Key, NULL

VARIABLES cached,  \* the keys with a result in the cache
          wants,   \* wants[c]: the key whose result c computes or uses
          shared   \* shared[c]: that result is the cache's, not c's own

memovars == <<cached, wants, shared>>

MemoInit ==
  /\ cached = {}
  /\ wants = [c \in Client |-> NULL]
  /\ shared = [c \in Client |-> FALSE]

Hit(c, k) ==
  /\ wants[c] = NULL
  /\ k \in cached
  /\ wants' = [wants EXCEPT ![c] = k]
  /\ shared' = [shared EXCEPT ![c] = TRUE]
  /\ UNCHANGED cached

Miss(c, k) ==
  /\ wants[c] = NULL
  /\ k \notin cached
  /\ wants' = [wants EXCEPT ![c] = k]
  /\ UNCHANGED <<cached, shared>>

\* A result that somebody else stored first stays the client's own.
Insert(c) ==
  /\ wants[c] # NULL /\ ~shared[c]
  /\ wants[c] \notin cached
  /\ cached' = cached \union {wants[c]}
  /\ shared' = [shared EXCEPT ![c] = TRUE]
  /\ UNCHANGED wants

Finish(c) ==
  /\ wants[c] # NULL
  /\ wants' = [wants EXCEPT ![c] = NULL]
  /\ shared' = [shared EXCEPT ![c] = FALSE]
  /\ UNCHANGED cached

Evict(K) ==
  /\ \A c \in Client : shared[c] => wants[c] \notin K
  /\ cached' = cached \ K
  /\ UNCHANGED <<wants, shared>>

MemoNext ==
  \/ \E c \in Client : Insert(c) \/ Finish(c) \/ \E k \in Key : Hit(c, k) \/ Miss(c, k)
  \/ \E K \in SUBSET cached : Evict(K)

MemoSpec == MemoInit /\ [][MemoNext]_memovars

=============================================================================
