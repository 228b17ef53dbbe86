------------------------------ MODULE MCTrace ------------------------------
(***************************************************************************)
(* Trace for TLC.                                                          *)
(***************************************************************************)
EXTENDS Trace

CONSTANTS t1, t2, t3

\* A short packet, and a long one at the end of a pipeline: either may find no
\* room after the other.
ShortAndEnd == {[size |-> 1, end |-> FALSE], [size |-> 2, end |-> TRUE]}
=============================================================================
