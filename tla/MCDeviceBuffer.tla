--------------------------- MODULE MCDeviceBuffer ---------------------------
(***************************************************************************)
(* DeviceBuffer for TLC.                                                   *)
(***************************************************************************)
EXTENDS DeviceBuffer, TLC

CONSTANTS b1, b2, b3, cuda, opencl, h1, h2, n1

Symmetry == Permutations(Buffer) \union Permutations(Handle)
=============================================================================
