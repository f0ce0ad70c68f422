------------------------------ MODULE BoatSale ------------------------------
(***************************************************************************)
(* What the booking system promises about one departure, with everything   *)
(* about holds, counters, sweepers and transactions left out: a party buys *)
(* some of the free cabins (the whole boat in a buyout), and may later     *)
(* give all of them back.  No cabin is ever in two parties' hands.         *)
(*                                                                         *)
(* Inventory.tla is the detailed specification; its property BoatSaleSpec  *)
(* maps booking and booking_cabin rows to the variable sale below.         *)
(***************************************************************************)
CONSTANTS Cabins,   \* the cabins of the boat
          Parties   \* the bookings that can ever be made

VARIABLE sale       \* sale[p]: the cabins party p has bought

TypeOK == sale \in [Parties -> SUBSET Cabins]

Init == sale = [p \in Parties |-> {}]

Free == Cabins \ UNION {sale[p] : p \in Parties}

Sell(p, cs) ==
    /\ sale[p] = {}
    /\ cs # {}
    /\ cs \subseteq Free
    /\ sale' = [sale EXCEPT ![p] = cs]

GiveBack(p) ==
    /\ sale[p] # {}
    /\ sale' = [sale EXCEPT ![p] = {}]

Next == \E p \in Parties : GiveBack(p) \/ \E cs \in SUBSET Cabins : Sell(p, cs)

Spec == Init /\ [][Next]_sale

-----------------------------------------------------------------------------
\* No cabin is sold to two parties at once.
Disjoint ==
    \A p, q \in Parties : p # q => sale[p] \cap sale[q] = {}
=============================================================================
