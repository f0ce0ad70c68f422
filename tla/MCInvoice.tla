----------------------------- MODULE MCInvoice ------------------------------
(***************************************************************************)
(* Small instances of Invoice for TLC.                                     *)
(***************************************************************************)
EXTENDS Invoice, TLC

Symmetric == Permutations(Accounts)
=============================================================================
