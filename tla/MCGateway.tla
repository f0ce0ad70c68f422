----------------------------- MODULE MCGateway ------------------------------
(***************************************************************************)
(* Small instances of Gateway for TLC.                                     *)
(***************************************************************************)
EXTENDS Gateway, TLC

Symmetric == Permutations(Payments) \cup Permutations(Slots)
=============================================================================
