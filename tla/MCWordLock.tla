----------------------------- MODULE MCWordLock -----------------------------
(***************************************************************************)
(* WordLock for TLC: three threads, one of which returns.                  *)
(***************************************************************************)
EXTENDS WordLock

CONSTANTS t1, t2, t3

\* One thread comes back for the lock twice.
OneReturns == [t \in Thread |-> IF t = t3 THEN 3 ELSE 1]
=============================================================================
