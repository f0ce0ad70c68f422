---------------------------- MODULE MCInventory ----------------------------
(***************************************************************************)
(* Small instances of Inventory for TLC.                                   *)
(***************************************************************************)
EXTENDS Inventory, TLC

Symmetric == Permutations(Cabins) \cup Permutations(Owners \ Staff)
             \cup Permutations(HoldIds) \cup Permutations(BookingIds)
=============================================================================
