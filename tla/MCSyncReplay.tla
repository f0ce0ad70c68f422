---------------------------- MODULE MCSyncReplay ----------------------------
(***************************************************************************)
(* Small instances of SyncReplay for TLC.  Flushers and requests may be    *)
(* permuted in runs of invariants alone; QueueDrains needs them apart.     *)
(***************************************************************************)
EXTENDS SyncReplay, TLC

Symmetric == Permutations(Flushers) \cup Permutations(Requests)
=============================================================================
