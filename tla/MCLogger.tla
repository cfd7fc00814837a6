------------------------------ MODULE MCLogger ------------------------------
(***************************************************************************)
(* Two threads that log, flush and rotate between two file names.  Three   *)
(* LogFiles let a writer meet two rotations and let the Logger come back   *)
(* to the name it started with.                                            *)
(***************************************************************************)
EXTENDS Logger, TLC

Symmetry == Permutations(Thread)
=============================================================================
