-------------------------------- MODULE MCUnix --------------------------------
(***************************************************************************)
(* Instances of UnixSocket for TLC.  Processes and sockets are             *)
(* interchangeable.                                                        *)
(***************************************************************************)
EXTENDS UnixSocket, TLC

UnixSymmetry == Permutations(UProcs) \cup Permutations(USocks)
===============================================================================
