------------------------------ MODULE MCReactor ------------------------------
(***************************************************************************)
(* Instances of Reactor: two IO loops that share two connections.          *)
(***************************************************************************)
EXTENDS Reactor, TLC

ConnSymmetry == Permutations(Conn)
=============================================================================
