------------------------------ MODULE MCWallet ------------------------------
(***************************************************************************)
(* Small instances of Wallet for TLC.                                      *)
(***************************************************************************)
EXTENDS Wallet, TLC

Symmetric == Permutations(Requests) \cup Permutations(Cashouts)
=============================================================================
