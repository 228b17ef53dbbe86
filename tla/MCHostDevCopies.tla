-------------------------- MODULE MCHostDevCopies ---------------------------
(***************************************************************************)
(* HostDevCopies for TLC.                                                  *)
(***************************************************************************)
EXTENDS HostDevCopies

CONSTANTS cuda, opencl
=============================================================================
