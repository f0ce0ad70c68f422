------------------------------- MODULE MCCart -------------------------------
(***************************************************************************)
(* Small instances of Cart for TLC.                                        *)
(***************************************************************************)
EXTENDS Cart, TLC

Bounded(cs, h, v, f, r, n, s) ==
    [cabins |-> cs, holds |-> h, visits |-> v, faults |-> f, rivals |-> r,
     cap |-> n, signedIn |-> s]

(* A guest with two cabins, who starts without a token.                    *)
Guests == { Bounded(Cabins, 2, 0, 0, 0, 2, FALSE) }

(* Two cabins; two cabins and a cap of one; one cabin held twice, with the *)
(* page opened again; signing in with a fault; a rival for the cabin; a    *)
(* guest with two cabins.                                                  *)
Carts ==
    { Bounded(Cabins, 2, 0, 0, 0, n, TRUE) : n \in 1 .. 2 }
    \cup { Bounded({x}, 2, 1, 0, 0, 1, TRUE) : x \in {CHOOSE c \in Cabins : TRUE} }
    \cup { Bounded({x}, 1, 1, 1, 0, 1, FALSE) : x \in {CHOOSE c \in Cabins : TRUE} }
    \cup { Bounded({x}, 2, 0, 0, 1, 1, FALSE) : x \in {CHOOSE c \in Cabins : TRUE} }
    \cup Guests

Symmetric == Permutations(Tokens)
=============================================================================
