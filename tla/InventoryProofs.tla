--------------------------- MODULE InventoryProofs ---------------------------
(***************************************************************************)
(* Theorems about Inventory, for every number of cabins, carts, holds,     *)
(* bookings and concurrent requests: no cabin is sold twice, then the      *)
(* denormalised count, refunds and final rows.                             *)
(***************************************************************************)
EXTENDS Inventory, FiniteSetTheorems, TLAPS

\* The sets the counter is moved by are finite, so their cardinalities are
\* natural numbers.
LEMMA Counts ==
    /\ Cardinality(Cabins) \in Nat
    /\ \A S \in SUBSET Cabins : IsFiniteSet(S) /\ Cardinality(S) \in Nat
    /\ \A S \in SUBSET HoldIds : IsFiniteSet(S) /\ Cardinality(S) \in Nat
<1>1. IsFiniteSet(Cabins) /\ IsFiniteSet(HoldIds)
  BY InventoryAssumption
<1>2. \A S \in SUBSET Cabins : IsFiniteSet(S) /\ Cardinality(S) \in Nat
  BY <1>1, FS_Subset, FS_CardinalityType
<1>3. \A S \in SUBSET HoldIds : IsFiniteSet(S) /\ Cardinality(S) \in Nat
  BY <1>1, FS_Subset, FS_CardinalityType
<1> QED
  BY <1>1, <1>2, <1>3, FS_CardinalityType

\* The empty cart and the full boat are well typed.
LEMMA TypeCorrectInit == Init => TypeOK
<1> SUFFICES ASSUME Init PROVE TypeOK
  OBVIOUS
<1>1. avail \in Int /\ recCount \in Int
  BY Counts DEF Init
<1>2. QED
  BY <1>1 DEF Init, TypeOK, DepartureStatus, HoldStates, BookingStatus,
     BookingKinds

\* No handler, cron step or replayed action leaves a row ill typed.
LEMMA TypeCorrectNext == TypeOK /\ [Next]_vars => TypeOK'
<1> SUFFICES ASSUME TypeOK, [Next]_vars PROVE TypeOK'
  OBVIOUS
<1> USE DEF TypeOK, holdVars, bkVars, recVars, flights
<1>1. ASSUME NEW o \in Owners, NEW c \in Cabins, NEW h \in HoldIds, Hold(o, c, h)
      PROVE  TypeOK'
  BY <1>1 DEF Hold, HoldStates
<1>2. ASSUME NEW o \in Owners, Lapse(o) \/ PriceSelection(o) \/ CheckoutAbandoned(o)
      PROVE  TypeOK'
  BY <1>2 DEF Lapse, PriceSelection, CheckoutAbandoned, HeldBy, Held
<1>3. ASSUME NEW h \in HoldIds, ReleaseRead(h) \/ ReleaseCommit(h)
      PROVE  TypeOK'
  BY <1>3 DEF ReleaseRead, ReleaseCommit, HoldStates
<1>4. ASSUME NEW o \in Owners, NEW hs \in SUBSET HoldIds,
             NEW open \in SUBSET Cabins, NEW b \in BookingIds,
             Checkout(o, hs, open, b)
      PROVE  TypeOK'
  <2>0. CabinsOf(hs) \subseteq Cabins
    BY <1>4 DEF Checkout, CabinsOf, LiveHolds, HeldBy, Held
  <2>1. bkCabins' \in [BookingIds -> SUBSET Cabins]
    BY <1>4, <2>0 DEF Checkout
  <2>2. QED
    BY <1>4, <2>1 DEF Checkout, HoldStates, BookingStatus, BookingKinds
<1>5. ASSUME NEW b \in BookingIds, GroupCheckout(b) \/ CancelRead(b)
      PROVE  TypeOK'
  BY <1>5 DEF GroupCheckout, Buyout, NoneActive, CancelRead, HoldStates, BookingStatus, BookingKinds
<1>6. ASSUME NEW b \in BookingIds, CancelCommit(b)
      PROVE  TypeOK'
  <2>1. Cardinality(bkCabins[b]) \in Nat
    BY Counts
  <2>2. QED
    BY <1>6, <2>1 DEF CancelCommit, Cancel, Final, Freed, BookingStatus
<1>7. ASSUME NEW s \in Seats, JoinRead(s) \/ JoinRefused(s)
      PROVE  TypeOK'
  BY <1>7 DEF JoinRead, JoinRefused
<1>8. ASSUME NEW s \in Seats, NEW j \in BookingIds, JoinCommit(s, j)
      PROVE  TypeOK'
  BY <1>8 DEF JoinCommit, JoinRows, Seats, BookingStatus, BookingKinds
<1>9. ASSUME NEW quiet \in SUBSET HoldIds, SweepFind(quiet)
      PROVE  TypeOK'
  BY <1>9 DEF SweepFind, Finds, Held
<1>10. ASSUME SweepCommit PROVE TypeOK'
  <2>1. Cardinality(StillHeld(swept)) \in Nat
    BY Counts DEF StillHeld
  <2>2. QED
    BY <1>10, <2>1 DEF SweepCommit, SweepTo, HoldStates
<1>11. ASSUME CancelDeparture \/ ReviveDeparture \/ Sail \/ Arrive PROVE TypeOK'
  BY <1>11 DEF CancelDeparture, ReviveDeparture, Sail, Arrive, DepartureStatus
<1>12. ASSUME Cascade PROVE TypeOK'
  BY <1>12 DEF Cascade, CascadeTo, Confirmed, BookingStatus
<1>13. ASSUME NEW b \in BookingIds, MarkNotArrived(b) PROVE TypeOK'
  BY <1>13 DEF MarkNotArrived, BookingStatus
<1>14. ASSUME ReconcileCount \/ ReconcileBookings \/ ReconcileHolds
       PROVE  TypeOK'
  BY <1>14 DEF ReconcileCount, ReconcileBookings, ReconcileHolds, SoldReadings,
     Reads, CabinsOf, Held
<1>15. ASSUME ReconcileWrite PROVE TypeOK'
  <2>1. FreeCabins \in Nat
    BY Counts DEF FreeCabins
  <2>2. QED
    BY <1>15, <2>1 DEF ReconcileWrite
<1>16. CASE UNCHANGED vars
  BY <1>16 DEF vars
<1>17. QED
  BY <1>1, <1>2, <1>3, <1>4, <1>5, <1>6, <1>7, <1>8, <1>9, <1>10, <1>11, <1>12,
     <1>13, <1>14, <1>15, <1>16 DEF Next, Shopping, Sweep, Host, Reconcile

\* Every row and every remembered read keeps its type, in every code path.
THEOREM TypeCorrect == Spec => []TypeOK
  BY TypeCorrectInit, TypeCorrectNext, PTL DEF Spec

-----------------------------------------------------------------------------
(***************************************************************************)
(* The trigger, the holds index and joinOpenSeat's insert-then-flip order. *)
(***************************************************************************)
Closed(b) == bkCabins[b] \ bkOpen[b]

\* Without the manifest action that revives a booking, no cabin is sold twice:
\* with TypeOK the property is inductive, because both inserts of a row
\* (Checkout, JoinCommit) look at every closed row of every active booking.
THEOREM NoDoubleSale ==
    MaxReplays = 0 => (Spec => []ClosedRowsShareOnlyByJoin)
<1> SUFFICES ASSUME MaxReplays = 0
             PROVE  Spec => []ClosedRowsShareOnlyByJoin
  OBVIOUS
<1>1. Init => ClosedRowsShareOnlyByJoin
  BY DEF Init, ClosedRowsShareOnlyByJoin, Active
<1>2. TypeOK /\ ClosedRowsShareOnlyByJoin /\ [Next]_vars
        => ClosedRowsShareOnlyByJoin'
  <2> SUFFICES ASSUME TypeOK, ClosedRowsShareOnlyByJoin, [Next]_vars
               PROVE  ClosedRowsShareOnlyByJoin'
    OBVIOUS
  <2> USE DEF holdVars, bkVars, recVars, flights
  <2> DEFINE SameRows == UNCHANGED <<bkCabins, bkOpen, bkHost>>
  <2>0. ASSUME SameRows, \A x \in BookingIds : Active(x)' => Active(x)
        PROVE  ClosedRowsShareOnlyByJoin'
    BY <2>0 DEF ClosedRowsShareOnlyByJoin
  <2>1. ASSUME SameRows, UNCHANGED bkStatus
        PROVE  ClosedRowsShareOnlyByJoin'
    BY <2>0, <2>1 DEF Active
  <2>2. ASSUME NEW o \in Owners, NEW hs \in SUBSET HoldIds,
               NEW open \in SUBSET Cabins, NEW b \in BookingIds,
               Checkout(o, hs, open, b)
        PROVE  ClosedRowsShareOnlyByJoin'
    <3>1. Closed(b)' \subseteq CabinsOf(hs)
      BY <2>2 DEF Checkout, Closed, TypeOK
    <3>2. \A x \in BookingIds : x # b =>
            /\ Closed(x)' = Closed(x) /\ Active(x)' = Active(x)
            /\ bkHost'[x] = bkHost[x]
      BY <2>2 DEF Checkout, Closed, Active, TypeOK
    <3>3. \A x \in BookingIds :
            x # b /\ Active(x) => Closed(x) \cap CabinsOf(hs) = {}
      BY <2>2 DEF Checkout, Clash, Closed
    <3>4. QED
      BY <3>1, <3>2, <3>3 DEF ClosedRowsShareOnlyByJoin, Closed
  <2>3. ASSUME NEW b \in BookingIds, GroupCheckout(b)
        PROVE  ClosedRowsShareOnlyByJoin'
    <3>1. \A x \in BookingIds : x # b => ~Active(x)'
      BY <2>3 DEF GroupCheckout, Buyout, NoneActive, Active, TypeOK
    <3>2. QED
      BY <3>1 DEF ClosedRowsShareOnlyByJoin
  <2>4. ASSUME NEW b \in BookingIds, CancelCommit(b)
        PROVE  ClosedRowsShareOnlyByJoin'
    <3>1. \A x \in BookingIds : Active(x)' => Active(x)
      BY <2>4 DEF CancelCommit, Cancel, Final, Freed, Active, TypeOK
    <3>2. QED
      BY <2>0, <2>4, <3>1 DEF CancelCommit, Cancel, Final, Freed
  <2>5. ASSUME NEW s \in Seats, NEW j \in BookingIds, JoinCommit(s, j)
        PROVE  ClosedRowsShareOnlyByJoin'
    <3>0. s[1] \in BookingIds
      BY DEF Seats
    <3>1. Closed(j)' \subseteq {s[2]} /\ bkHost'[j] = s[1]
      BY <2>5 DEF JoinCommit, JoinRows, Closed, TypeOK
    <3>2. \A x \in BookingIds : x # j =>
            /\ Active(x)' = Active(x) /\ bkHost'[x] = bkHost[x]
            /\ Closed(x)' \subseteq Closed(x) \cup {s[2]}
            /\ x # s[1] => Closed(x)' = Closed(x)
      BY <2>5, <3>0 DEF JoinCommit, JoinRows, Closed, Active, TypeOK
    <3>3. \A x \in BookingIds : Active(x) => s[2] \notin Closed(x)
      BY <2>5 DEF JoinCommit, JoinRows, Clash, Closed
    <3>4. ASSUME NEW x \in BookingIds, NEW y \in BookingIds, x # y,
                 Active(x)', Active(y)', Closed(x)' \cap Closed(y)' # {}
          PROVE  bkHost'[x] = y \/ bkHost'[y] = x
      <4>1. CASE x = j
        <5>1. Closed(y)' # Closed(y)
          BY <3>1, <3>2, <3>3, <3>4, <4>1
        <5>2. QED
          BY <3>1, <3>2, <3>4, <4>1, <5>1
      <4>2. CASE y = j
        <5>1. Closed(x)' # Closed(x)
          BY <3>1, <3>2, <3>3, <3>4, <4>2
        <5>2. QED
          BY <3>1, <3>2, <3>4, <4>2, <5>1
      <4>3. CASE x # j /\ y # j
        <5>1. Closed(x) \cap Closed(y) # {}
          BY <3>2, <3>3, <3>4, <4>3
        <5>2. QED
          BY <3>2, <3>4, <4>3, <5>1 DEF ClosedRowsShareOnlyByJoin, Closed
      <4>4. QED
        BY <4>1, <4>2, <4>3
    <3>5. QED
      BY <3>4 DEF ClosedRowsShareOnlyByJoin, Closed
  <2>6. ASSUME Cascade
        PROVE  ClosedRowsShareOnlyByJoin'
    <3>1. \A x \in BookingIds : Active(x)' => Active(x)
      BY <2>6 DEF Cascade, CascadeTo, Confirmed, Active, TypeOK
    <3>2. QED
      BY <2>0, <2>6, <3>1 DEF Cascade, CascadeTo, Confirmed
  <2>7. ASSUME NEW b \in BookingIds, MarkNotArrived(b)
        PROVE  FALSE
    BY <2>7 DEF MarkNotArrived, TypeOK
  <2>8. ASSUME NEW o \in Owners,
               \/ \E c \in Cabins, h \in HoldIds : Hold(o, c, h)
               \/ Lapse(o) \/ PriceSelection(o) \/ CheckoutAbandoned(o)
        PROVE  ClosedRowsShareOnlyByJoin'
    BY <2>1, <2>8 DEF Hold, Lapse, PriceSelection, CheckoutAbandoned
  <2>9. ASSUME NEW h \in HoldIds, ReleaseRead(h) \/ ReleaseCommit(h)
        PROVE  ClosedRowsShareOnlyByJoin'
    BY <2>1, <2>9 DEF ReleaseRead, ReleaseCommit
  <2>10. ASSUME NEW b \in BookingIds, CancelRead(b)
         PROVE  ClosedRowsShareOnlyByJoin'
    BY <2>1, <2>10 DEF CancelRead
  <2>11. ASSUME NEW s \in Seats, JoinRead(s) \/ JoinRefused(s)
         PROVE  ClosedRowsShareOnlyByJoin'
    BY <2>1, <2>11 DEF JoinRead, JoinRefused
  <2>12. ASSUME Sweep
         PROVE  ClosedRowsShareOnlyByJoin'
    BY <2>1, <2>12 DEF Sweep, SweepFind, Finds, SweepCommit, SweepTo
  <2>13. ASSUME CancelDeparture \/ ReviveDeparture \/ Sail \/ Arrive
         PROVE  ClosedRowsShareOnlyByJoin'
    BY <2>1, <2>13 DEF CancelDeparture, ReviveDeparture, Sail, Arrive
  <2>14. ASSUME Reconcile
         PROVE  ClosedRowsShareOnlyByJoin'
    BY <2>1, <2>14 DEF Reconcile, ReconcileCount, ReconcileBookings,
       ReconcileHolds, ReconcileWrite
  <2>15. CASE UNCHANGED vars
    BY <2>1, <2>15 DEF vars
  <2>16. QED
    BY <2>2, <2>3, <2>4, <2>5, <2>6, <2>7, <2>8, <2>9, <2>10, <2>11, <2>12, <2>13,
       <2>14, <2>15 DEF Next, Shopping, Host
<1>3. QED
  BY <1>1, <1>2, TypeCorrect, PTL DEF Spec

-----------------------------------------------------------------------------
(***************************************************************************)
(* Shopping, the sweeper and the host alone (no release request, open      *)
(* seat, reconcile or offline replay): the boat is sold as BoatSale says.  *)
(***************************************************************************)

\* What the optional code paths would have left behind.
NoSideDoors ==
    /\ \A h \in HoldIds : releasing[h] = 0
    /\ \A s \in Seats : joining[s] = 0
    /\ recRead = {}
    /\ \A b \in BookingIds : bkOpen[b] = {} /\ bkHost[b] = None
    /\ \A b \in BookingIds :
         bkStatus[b] = "none" \/ bkKind[b] = "group" => bkCabins[b] = {}

\* BuyoutExclusive is not inductive by itself: that no conversion or increment
\* is on its way when a buyout is active is BuyoutClosesBoat.
SaleInv == TypeOK /\ NoSideDoors /\ BuyoutExclusive /\ BuyoutClosesBoat

\* A new departure has no booking, hold or request in flight.
LEMMA SaleInvInit == Init => SaleInv
<1> SUFFICES ASSUME Init PROVE SaleInv
  OBVIOUS
<1>1. TypeOK
  BY TypeCorrectInit
<1>2. \A b \in BookingIds : ~Active(b)
  BY DEF Init, Active
<1>3. NoSideDoors
  BY DEF Init, NoSideDoors
<1>4. QED
  BY <1>1, <1>2, <1>3 DEF SaleInv, BuyoutExclusive, BuyoutClosesBoat, GroupActive

\* One case per action that moves a booking, a hold or the count.
LEMMA SaleInvNext ==
    ASSUME Features \subseteq {"host"}, MaxReplays = 0, SaleInv, [Next]_vars
    PROVE  SaleInv'
<1>1. TypeOK'
  BY TypeCorrectNext DEF SaleInv
<1> USE DEF holdVars, bkVars, recVars, flights
<1> DEFINE Parts == NoSideDoors /\ BuyoutExclusive /\ BuyoutClosesBoat
           Rows == <<bkStatus, bkKind, bkCabins, bkOpen, bkHost>>
           Side == <<releasing, joining, recRead>>
\* A step that leaves the bookings, the count and the cart states alone.
<1>2. ASSUME UNCHANGED <<Rows, Side, avail, holdState>>
      PROVE  Parts'
  BY <1>2 DEF SaleInv, NoSideDoors, BuyoutExclusive, BuyoutClosesBoat,
     GroupActive, Active, Held
<1>3. ASSUME NEW o \in Owners, NEW c \in Cabins, NEW h \in HoldIds, Hold(o, c, h)
      PROVE  Parts'
  <2>1. UNCHANGED <<Rows, Side>> /\ avail > 0
    BY <1>3 DEF Hold
  <2>2. \A b \in BookingIds : ~GroupActive(b)
    BY <2>1 DEF SaleInv, BuyoutClosesBoat
  <2>3. QED
    BY <2>1, <2>2 DEF SaleInv, NoSideDoors, BuyoutExclusive, BuyoutClosesBoat,
       GroupActive, Active
<1>4. ASSUME NEW o \in Owners, NEW hs \in SUBSET HoldIds,
             NEW open \in SUBSET Cabins, NEW b \in BookingIds,
             Checkout(o, hs, open, b)
      PROVE  Parts'
  <2>1. Held # {} /\ open = {}
    BY <1>4 DEF Checkout, LiveHolds, HeldBy
  <2>2. \A x \in BookingIds : ~GroupActive(x)
    BY <2>1 DEF SaleInv, BuyoutClosesBoat
  <2>3. /\ UNCHANGED <<Side, bkHost>>
        /\ bkStatus'[b] = "confirmed" /\ bkKind'[b] = "cabin" /\ bkOpen'[b] = {}
        /\ \A x \in BookingIds : x # b =>
             /\ bkStatus'[x] = bkStatus[x] /\ bkKind'[x] = bkKind[x]
             /\ bkCabins'[x] = bkCabins[x] /\ bkOpen'[x] = bkOpen[x]
    BY <1>4, <2>1 DEF Checkout, SaleInv, TypeOK
  <2>4. \A x \in BookingIds : ~GroupActive(x)'
    BY <2>2, <2>3 DEF GroupActive, Active
  <2>5. QED
    BY <2>3, <2>4 DEF SaleInv, NoSideDoors, BuyoutExclusive, BuyoutClosesBoat
<1>5. ASSUME NEW b \in BookingIds, GroupCheckout(b)
      PROVE  Parts'
  <2>1. /\ UNCHANGED <<Side, bkCabins, bkOpen, bkHost>>
        /\ bkStatus[b] = "none" /\ avail' = 0 /\ Held' = {}
        /\ \A x \in BookingIds : x # b =>
             /\ bkStatus'[x] = bkStatus[x] /\ bkKind'[x] = bkKind[x]
             /\ ~Active(x)' 
    BY <1>5 DEF GroupCheckout, Buyout, NoneActive, SaleInv, TypeOK, Held, Active
  <2>2. NoSideDoors'
    BY <2>1 DEF SaleInv, NoSideDoors
  <2>3. QED
    BY <2>1, <2>2 DEF BuyoutExclusive, BuyoutClosesBoat, GroupActive
<1>6. ASSUME NEW b \in BookingIds, CancelCommit(b)
      PROVE  Parts'
  <2>1. CASE bkStatus' = bkStatus
    BY <1>2, <1>6, <2>1 DEF CancelCommit, Cancel, Final, Freed, SaleInv, TypeOK
  <2>2. CASE bkStatus' # bkStatus
    <3>1. /\ UNCHANGED <<Side, bkKind, bkCabins, bkOpen, bkHost, holdState>>
          /\ avail' = avail + Cardinality(bkCabins[b])
          /\ ~Active(b)' /\ bkStatus[b] # "cancelled"
          /\ bkStatus'[b] = "cancelled"
          /\ \A x \in BookingIds : x # b => bkStatus'[x] = bkStatus[x]
      BY <1>6, <2>2 DEF CancelCommit, Cancel, Final, Freed, SaleInv, TypeOK, Active
    <3>2. ASSUME NEW x \in BookingIds, GroupActive(x)'
          PROVE  avail' = 0
      <4>1. GroupActive(x) /\ x # b
        BY <3>1, <3>2 DEF GroupActive, Active
      <4>2. bkStatus[b] = "none"
        BY <3>1, <4>1 DEF SaleInv, BuyoutExclusive, Active
      <4>3. Cardinality(bkCabins[b]) = 0
        BY <4>2, FS_EmptySet DEF SaleInv, NoSideDoors
      <4>4. QED
        BY <3>1, <4>1, <4>3 DEF SaleInv, BuyoutClosesBoat
    <3>3. \A x \in BookingIds : Active(x)' => Active(x)
      BY <3>1 DEF Active
    <3>4. QED
      BY <3>1, <3>2, <3>3 DEF SaleInv, NoSideDoors, BuyoutExclusive,
         BuyoutClosesBoat, GroupActive, Held
  <2>3. QED
    BY <2>1, <2>2
<1>7. ASSUME SweepCommit PROVE Parts'
  <2>1. UNCHANGED <<Rows, Side>> /\ Held' \subseteq Held
    BY <1>7 DEF SweepCommit, SweepTo, Held
  <2>2. Held = {} => avail' = avail
    BY <1>7, FS_EmptySet DEF SweepCommit, SweepTo, StillHeld, SaleInv, TypeOK
  <2>3. QED
    BY <2>1, <2>2 DEF SaleInv, NoSideDoors, BuyoutExclusive, BuyoutClosesBoat,
       GroupActive, Active
<1>8. ASSUME Cascade PROVE Parts'
  <2>1. /\ UNCHANGED <<Side, bkKind, bkCabins, bkOpen, bkHost, avail, holdState>>
        /\ \A x \in BookingIds : Active(x)' <=> Active(x)
        /\ \A x \in BookingIds : bkStatus'[x] = "none" <=> bkStatus[x] = "none"
    BY <1>8 DEF Cascade, CascadeTo, Confirmed, Active, SaleInv, TypeOK
  <2>2. QED
    BY <2>1 DEF SaleInv, NoSideDoors, BuyoutExclusive, BuyoutClosesBoat,
       GroupActive, Held
<1>9. ASSUME \/ \E h \in HoldIds : ReleaseRead(h) \/ ReleaseCommit(h)
             \/ \E s \in Seats : \/ JoinRead(s) \/ JoinRefused(s)
                                 \/ \E j \in BookingIds : JoinCommit(s, j)
             \/ \E b \in BookingIds : MarkNotArrived(b)
             \/ Reconcile
      PROVE  FALSE
  BY <1>9 DEF ReleaseRead, ReleaseCommit, JoinRead, JoinRefused, JoinCommit, JoinRows,
     MarkNotArrived, Reconcile, ReconcileCount, ReconcileBookings,
     ReconcileHolds, ReconcileWrite, Reads, SaleInv, NoSideDoors, TypeOK
<1>10. ASSUME \/ \E o \in Owners :
                   Lapse(o) \/ PriceSelection(o) \/ CheckoutAbandoned(o)
              \/ \E b \in BookingIds : CancelRead(b)
              \/ \E quiet \in SUBSET HoldIds : SweepFind(quiet)
              \/ CancelDeparture \/ ReviveDeparture \/ Sail \/ Arrive
              \/ UNCHANGED vars
       PROVE  Parts'
  BY <1>2, <1>10 DEF Lapse, PriceSelection, CheckoutAbandoned, CancelRead,
     SweepFind, Finds, CancelDeparture, ReviveDeparture, Sail, Arrive, vars
<1>11. QED
  BY <1>1, <1>3, <1>4, <1>5, <1>6, <1>7, <1>8, <1>9, <1>10
  DEF Next, Shopping, Sweep, Host, SaleInv

\* A whole-boat buyout and any other booking of the departure are never active
\* together, and a bought-out boat has no hold and no advertised place.
THEOREM BuyoutIsExclusive ==
    Features \subseteq {"host"} /\ MaxReplays = 0 => (Spec => [](BuyoutExclusive /\ BuyoutClosesBoat))
<1> SUFFICES ASSUME Features \subseteq {"host"}, MaxReplays = 0
             PROVE  Spec => [](BuyoutExclusive /\ BuyoutClosesBoat)
  OBVIOUS
<1>1. Init => SaleInv
  BY SaleInvInit
<1>2. SaleInv /\ [Next]_vars => SaleInv'
  BY SaleInvNext
<1>3. SaleInv => BuyoutExclusive /\ BuyoutClosesBoat
  BY DEF SaleInv
<1>4. QED
  BY <1>1, <1>2, <1>3, PTL DEF Spec

-----------------------------------------------------------------------------
(***************************************************************************)
(* Inventory implements BoatSale.                                          *)
(***************************************************************************)

\* Nobody has bought anything from a new departure.
LEMMA SaleInit == Init => Abstract!Init
BY DEF Init, Abstract!Init, Sale, Active

\* A conversion sells the held cabins, a buyout the whole boat; the cabins are
\* free because the trigger saw no other row, or the group rule no booking.
LEMMA SaleNext ==
    ASSUME Features \subseteq {"host"}, MaxReplays = 0, SaleInv, SaleInv', [Next]_vars
    PROVE  [Abstract!Next]_Sale
<1> USE DEF holdVars, bkVars, recVars, flights
<1>0. Sale = [b \in BookingIds |-> Sale[b]] /\ Sale' = [b \in BookingIds |-> Sale'[b]]
  BY DEF Sale
<1>1. ASSUME UNCHANGED <<bkStatus, bkKind, bkCabins>>
      PROVE  UNCHANGED Sale
  BY <1>1 DEF Sale, Active
<1>2. ASSUME NEW o \in Owners, NEW hs \in SUBSET HoldIds,
             NEW open \in SUBSET Cabins, NEW b \in BookingIds,
             Checkout(o, hs, open, b)
      PROVE  Abstract!Next
  <2> DEFINE cs == CabinsOf(hs)
  <2>1. Held # {} /\ cs # {} /\ cs \subseteq Cabins
    BY <1>2 DEF Checkout, LiveHolds, HeldBy, Held, CabinsOf, SaleInv, TypeOK
  <2>2. \A x \in BookingIds : Active(x) => bkKind[x] # "group"
    BY <2>1 DEF SaleInv, BuyoutClosesBoat, GroupActive
  <2>3. \A x \in BookingIds : Active(x) => bkCabins[x] \cap cs = {}
    BY <1>2 DEF Checkout, Clash, SaleInv, NoSideDoors
  <2>4. \A x \in BookingIds : Sale[x] \cap cs = {}
    BY <2>2, <2>3 DEF Sale
  <2>5. Sale[b] = {}
    BY <1>2 DEF Checkout, Sale, Active
  <2>6. Sale'[b] = cs
    BY <1>2 DEF Checkout, Sale, Active, SaleInv, TypeOK
  <2>7. \A x \in BookingIds : x # b => Sale'[x] = Sale[x]
    BY <1>2 DEF Checkout, Sale, Active, SaleInv, TypeOK
  <2>8. Sale' = [Sale EXCEPT ![b] = cs]
    BY <1>0, <2>6, <2>7
  <2>9. cs \in SUBSET Cabins /\ cs \subseteq Abstract!Free
    BY <2>1, <2>4 DEF Abstract!Free
  <2>10. Abstract!Sell(b, cs)
    BY <2>1, <2>5, <2>8, <2>9 DEF Abstract!Sell
  <2>11. QED
    BY <2>9, <2>10 DEF Abstract!Next
<1>3. ASSUME NEW b \in BookingIds, GroupCheckout(b)
      PROVE  Abstract!Next
  <2>1. \A x \in BookingIds : Sale[x] = {}
    BY <1>3 DEF GroupCheckout, Buyout, NoneActive, Sale
  <2>2. Sale'[b] = Cabins
    BY <1>3 DEF GroupCheckout, Buyout, NoneActive, Sale, Active, SaleInv, TypeOK
  <2>3. \A x \in BookingIds : x # b => Sale'[x] = Sale[x]
    BY <1>3 DEF GroupCheckout, Buyout, NoneActive, Sale, Active, SaleInv, TypeOK
  <2>4. Sale' = [Sale EXCEPT ![b] = Cabins]
    BY <1>0, <2>2, <2>3
  <2>5. Cabins \subseteq Abstract!Free
    BY <2>1 DEF Abstract!Free
  <2>6. Abstract!Sell(b, Cabins)
    BY <2>1, <2>4, <2>5, InventoryAssumption DEF Abstract!Sell
  <2>7. QED
    BY <2>6 DEF Abstract!Next
<1>4. ASSUME NEW b \in BookingIds, CancelCommit(b)
      PROVE  [Abstract!Next]_Sale
  <2>1. \A x \in BookingIds : x # b => Sale'[x] = Sale[x]
    BY <1>4 DEF CancelCommit, Cancel, Final, Freed, Sale, Active, SaleInv, TypeOK
  <2>2. Sale'[b] = Sale[b] \/ Sale'[b] = {}
    BY <1>4 DEF CancelCommit, Cancel, Final, Freed, Sale, Active, SaleInv, TypeOK
  <2>3. CASE Sale'[b] = Sale[b]
    BY <1>0, <2>1, <2>3
  <2>4. CASE Sale[b] # {} /\ Sale'[b] = {}
    <3>1. Sale' = [Sale EXCEPT ![b] = {}]
      BY <1>0, <2>1, <2>4
    <3>2. QED
      BY <2>4, <3>1 DEF Abstract!Next, Abstract!GiveBack
  <2>5. QED
    BY <2>2, <2>3, <2>4
<1>5. ASSUME Cascade
      PROVE  UNCHANGED Sale
  <2>1. \A x \in BookingIds : Active(x)' <=> Active(x)
    BY <1>5 DEF Cascade, CascadeTo, Confirmed, Active, SaleInv, TypeOK
  <2>2. QED
    BY <1>5, <2>1 DEF Cascade, CascadeTo, Confirmed, Sale
<1>6. ASSUME \/ \E h \in HoldIds : ReleaseRead(h) \/ ReleaseCommit(h)
             \/ \E s \in Seats : \/ JoinRead(s) \/ JoinRefused(s)
                                 \/ \E j \in BookingIds : JoinCommit(s, j)
             \/ \E b \in BookingIds : MarkNotArrived(b)
             \/ Reconcile
      PROVE  FALSE
  BY <1>6 DEF ReleaseRead, ReleaseCommit, JoinRead, JoinRefused, JoinCommit, JoinRows,
     MarkNotArrived, Reconcile, ReconcileCount, ReconcileBookings,
     ReconcileHolds, ReconcileWrite, Reads, SaleInv, NoSideDoors, TypeOK
<1>7. ASSUME \/ \E o \in Owners :
                  \/ \E c \in Cabins, h \in HoldIds : Hold(o, c, h)
                  \/ Lapse(o) \/ PriceSelection(o) \/ CheckoutAbandoned(o)
             \/ \E b \in BookingIds : CancelRead(b)
             \/ Sweep
             \/ CancelDeparture \/ ReviveDeparture \/ Sail \/ Arrive
             \/ UNCHANGED vars
      PROVE  UNCHANGED Sale
  BY <1>1, <1>7 DEF Hold, Lapse, PriceSelection, CheckoutAbandoned, CancelRead,
     Sweep, SweepFind, Finds, SweepCommit, SweepTo, CancelDeparture, ReviveDeparture, Sail,
     Arrive, vars
<1>8. QED
  BY <1>2, <1>3, <1>4, <1>5, <1>6, <1>7 DEF Next, Shopping, Host

\* Holds, counters, sweeps, cancels, buyouts and the departure's clock sell the
\* boat exactly as BoatSale says: free cabins only, all or nothing given back.
THEOREM ImplementsBoatSale ==
    Features \subseteq {"host"} /\ MaxReplays = 0 => (Spec => BoatSaleSpec)
<1> SUFFICES ASSUME Features \subseteq {"host"}, MaxReplays = 0
             PROVE  Spec => BoatSaleSpec
  OBVIOUS
<1>1. Init => SaleInv
  BY SaleInvInit
<1>2. SaleInv /\ [Next]_vars => SaleInv'
  BY SaleInvNext
<1>3. Init => Abstract!Init
  BY SaleInit
<1>4. SaleInv /\ SaleInv' /\ [Next]_vars => [Abstract!Next]_Sale
  BY SaleNext
<1>5. QED
  BY <1>1, <1>2, <1>3, <1>4, PTL DEF Spec, BoatSaleSpec, Abstract!Spec

-----------------------------------------------------------------------------
(***************************************************************************)
(* The denormalised count.                                                 *)
(***************************************************************************)

\* uq_cabin_hold_active: the held rows are of different cabins.
HeldCabinsDiffer ==
    \A g, h \in HoldIds :
        /\ holdState[g] = "held" /\ holdState[h] = "held"
        /\ holdCabin[g] = holdCabin[h]
        => g = h

\* The booking_cabin rows that count, as TakenCount has them.
SoldSeats == {s \in Seats : Active(s[1]) /\ s[2] \in bkCabins[s[1]]}

\* A booking row that was never inserted is of no kind.
BlankRows == \A b \in BookingIds : bkStatus[b] = "none" => bkKind[b] = "none"

CountInv == SaleInv /\ HeldCabinsDiffer /\ BlankRows /\ CountHonest

\* A cart of holds of different cabins is as large as the cabins it sells.
LEMMA CartSize ==
    ASSUME NEW hs \in SUBSET HoldIds,
           \A g, h \in hs : holdCabin[g] = holdCabin[h] => g = h
    PROVE  Cardinality(CabinsOf(hs)) = Cardinality(hs)
<1> DEFINE f == [h \in hs |-> holdCabin[h]]
<1>1. f \in Bijection(hs, CabinsOf(hs))
  <2>1. f \in [hs -> CabinsOf(hs)] /\ \A g, h \in hs : f[g] = f[h] => g = h
    BY DEF CabinsOf
  <2>2. \A c \in CabinsOf(hs) : \E h \in hs : f[h] = c
    BY DEF CabinsOf
  <2>3. f \in Injection(hs, CabinsOf(hs)) /\ f \in Surjection(hs, CabinsOf(hs))
    BY <2>1, <2>2 DEF Injection, Surjection, IsInjective
  <2>4. QED
    BY <2>3 DEF Bijection
<1>2. ExistsBijection(hs, CabinsOf(hs))
  BY <1>1 DEF ExistsBijection
<1>3. IsFiniteSet(hs)
  BY Counts
<1> QED
  BY <1>2, <1>3, FS_Bijection

\* One booking has as many rows as cabins.
LEMMA RowsOfOne ==
    ASSUME NEW b \in BookingIds, NEW cs \in SUBSET Cabins
    PROVE  IsFiniteSet({b} \X cs) /\ Cardinality({b} \X cs) = Cardinality(cs)
<1>1. IsFiniteSet(cs) /\ Cardinality(cs) \in Nat
  BY Counts
<1>2. IsFiniteSet({b}) /\ Cardinality({b}) = 1
  BY FS_Singleton
<1>3. IsFiniteSet({b} \X cs) /\ Cardinality({b} \X cs) = 1 * Cardinality(cs)
  BY <1>1, <1>2, FS_Product
<1> QED
  BY <1>1, <1>3

\* The rows that are counted are finitely many.
LEMMA SeatsFinite ==
    ASSUME NEW S \in SUBSET Seats PROVE IsFiniteSet(S) /\ Cardinality(S) \in Nat
<1>1. IsFiniteSet(Seats)
  BY InventoryAssumption, FS_Product DEF Seats
<1> QED
  BY <1>1, FS_Subset, FS_CardinalityType

\* What a set loses when a part of it goes.
LEMMA Without ==
    ASSUME NEW S, NEW T, IsFiniteSet(S), S \cap T = T
    PROVE  Cardinality(S \ T) = Cardinality(S) - Cardinality(T)
<1>1. Cardinality(S \ T) = Cardinality(S) - Cardinality(S \cap T)
  BY FS_Difference
<1> QED
  BY <1>1

\* Nothing is held or sold on a new departure.
LEMMA CountInit == Init => CountInv
<1> SUFFICES ASSUME Init PROVE CountInv
  OBVIOUS
<1>1. SaleInv
  BY SaleInvInit
<1>2. Held = {} /\ SoldSeats = {}
  BY DEF Init, Held, SoldSeats, Active, Seats
<1>3. Cardinality(Held) = 0 /\ Cardinality(SoldSeats) = 0
  BY <1>2, FS_EmptySet
<1>4. TakenCount = 0 /\ avail = Cardinality(Cabins) /\ Cardinality(Cabins) \in Nat
  BY <1>3, Counts DEF TakenCount, SoldSeats, Init
<1>5. HeldCabinsDiffer
  BY DEF Init, HeldCabinsDiffer
<1>6. BlankRows
  BY DEF Init, BlankRows
<1> QED
  BY <1>1, <1>4, <1>5, <1>6 DEF CountInv, CountHonest

\* A step after which the count and what the rows take moved by the same
\* amount, and no buyout was added.
LEMMA Balanced ==
    ASSUME CountInv, avail' \in Int, TakenCount \in Nat, TakenCount' \in Nat,
           avail' + TakenCount' = avail + TakenCount,
           \A b \in BookingIds : bkKind[b] = "group" => bkKind'[b] = "group"
    PROVE  CountHonest'
<1>1. avail \in Int /\ Cardinality(Cabins) \in Nat
  BY Counts DEF CountInv, SaleInv, TypeOK
<1> QED
  BY <1>1 DEF CountInv, CountHonest

\* A row gets its kind in the step that inserts it.
LEMMA BlankNext == TypeOK /\ BlankRows /\ [Next]_vars => BlankRows'
<1> SUFFICES ASSUME TypeOK, BlankRows, [Next]_vars PROVE BlankRows'
  OBVIOUS
<1> USE DEF TypeOK, BlankRows, holdVars, bkVars, recVars, flights
<1>1. CASE UNCHANGED <<bkStatus, bkKind>>
  BY <1>1
<1>2. ASSUME NEW o \in Owners, NEW hs \in SUBSET HoldIds,
             NEW open \in SUBSET Cabins, NEW b \in BookingIds,
             Checkout(o, hs, open, b)
      PROVE  BlankRows'
  BY <1>2 DEF Checkout
<1>3. ASSUME NEW b \in BookingIds,
             GroupCheckout(b) \/ CancelCommit(b) \/ MarkNotArrived(b)
      PROVE  BlankRows'
  BY <1>3 DEF GroupCheckout, Buyout, CancelCommit, Cancel, Final, Freed,
     MarkNotArrived
<1>4. ASSUME NEW s \in Seats, NEW j \in BookingIds, JoinCommit(s, j)
      PROVE  BlankRows'
  BY <1>4 DEF JoinCommit, JoinRows
<1>5. ASSUME Cascade PROVE BlankRows'
  BY <1>5 DEF Cascade, CascadeTo, Confirmed
<1>6. ASSUME \/ \E o \in Owners :
                  \/ \E c \in Cabins, h \in HoldIds : Hold(o, c, h)
                  \/ Lapse(o) \/ PriceSelection(o) \/ CheckoutAbandoned(o)
             \/ \E h \in HoldIds : ReleaseRead(h) \/ ReleaseCommit(h)
             \/ \E b \in BookingIds : CancelRead(b)
             \/ \E s \in Seats : JoinRead(s) \/ JoinRefused(s)
             \/ Sweep \/ Reconcile
             \/ CancelDeparture \/ ReviveDeparture \/ Sail \/ Arrive
             \/ UNCHANGED vars
      PROVE  UNCHANGED <<bkStatus, bkKind>>
  BY <1>6 DEF Hold, Lapse, PriceSelection, CheckoutAbandoned, ReleaseRead,
     ReleaseCommit, CancelRead, JoinRead, JoinRefused, Sweep, SweepFind, Finds,
     SweepCommit, SweepTo, Reconcile, ReconcileCount, ReconcileBookings,
     ReconcileHolds, ReconcileWrite, CancelDeparture, ReviveDeparture, Sail,
     Arrive, vars
<1>7. QED
  BY <1>1, <1>2, <1>3, <1>4, <1>5, <1>6 DEF Next, Shopping, Host

\* Each decrement of the count is matched by one conversion, sweep or
\* cancellation; a buyout sets it to zero when nothing else is taken.
LEMMA CountNext ==
    ASSUME Features \subseteq {"host"}, MaxReplays = 0, CountInv, [Next]_vars
    PROVE  CountInv'
<1>1. SaleInv'
  BY SaleInvNext DEF CountInv
<1> USE DEF holdVars, bkVars, recVars, flights
<1> DEFINE Rows == <<bkStatus, bkKind, bkCabins>>
           Carts == <<holdState, holdCabin>>
           Good == (HeldCabinsDiffer /\ CountHonest)'
<1>2. /\ TypeOK /\ TypeOK' /\ HeldCabinsDiffer /\ NoSideDoors
      /\ BlankRows /\ BlankRows'
      /\ avail \in Int /\ avail' \in Int
  BY <1>1, BlankNext DEF CountInv, SaleInv, TypeOK
<1>3. /\ IsFiniteSet(Held) /\ Cardinality(Held) \in Nat
      /\ IsFiniteSet(Held') /\ Cardinality(Held') \in Nat
      /\ IsFiniteSet(SoldSeats) /\ Cardinality(SoldSeats) \in Nat
      /\ IsFiniteSet(SoldSeats') /\ Cardinality(SoldSeats') \in Nat
  <2>1. Held \in SUBSET HoldIds /\ Held' \in SUBSET HoldIds
    BY DEF Held
  <2>2. SoldSeats \in SUBSET Seats /\ SoldSeats' \in SUBSET Seats
    BY DEF SoldSeats, Seats
  <2>3. QED
    BY <2>1, <2>2, Counts, SeatsFinite
<1>4. /\ TakenCount = Cardinality(Held) + Cardinality(SoldSeats)
      /\ TakenCount' = Cardinality(Held') + Cardinality(SoldSeats')
      /\ TakenCount \in Nat /\ TakenCount' \in Nat
  BY <1>3 DEF TakenCount, SoldSeats
\* The common end of the cases below.
<1>5. ASSUME HeldCabinsDiffer',
             avail' + Cardinality(Held') + Cardinality(SoldSeats')
               = avail + Cardinality(Held) + Cardinality(SoldSeats),
             \A b \in BookingIds : bkKind[b] = "group" => bkKind'[b] = "group"
      PROVE  Good
  <2>1. avail' + TakenCount' = avail + TakenCount
    BY <1>2, <1>3, <1>4, <1>5
  <2>2. CountHonest'
    BY <1>2, <1>4, <1>5, <2>1, Balanced
  <2>3. QED
    BY <1>5, <2>2
<1>6. ASSUME UNCHANGED <<Rows, Carts, avail>>
      PROVE  Good
  <2>1. Held' = Held /\ SoldSeats' = SoldSeats
    BY <1>6 DEF Held, SoldSeats, Active
  <2>2. HeldCabinsDiffer'
    BY <1>2, <1>6 DEF HeldCabinsDiffer
  <2>3. QED
    BY <1>5, <1>6, <2>1, <2>2
<1>7. ASSUME NEW o \in Owners, NEW c \in Cabins, NEW h \in HoldIds, Hold(o, c, h)
      PROVE  Good
  <2>1. /\ UNCHANGED Rows /\ avail' = avail - 1 /\ h \notin Held
        /\ holdState'[h] = "held" /\ holdCabin'[h] = c
        /\ \A g \in HoldIds : g # h =>
             holdState'[g] = holdState[g] /\ holdCabin'[g] = holdCabin[g]
        /\ \A g \in Held : holdCabin[g] # c
    BY <1>2, <1>7 DEF Hold, Held, TypeOK
  <2>2. Held' = Held \cup {h} /\ SoldSeats' = SoldSeats
    BY <2>1 DEF Held, SoldSeats, Active
  <2>3. Cardinality(Held') = Cardinality(Held) + 1
    BY <1>3, <2>1, <2>2, FS_AddElement
  <2>4. HeldCabinsDiffer'
    BY <1>2, <2>1 DEF HeldCabinsDiffer, Held
  <2>5. QED
    BY <1>2, <1>3, <1>5, <2>1, <2>2, <2>3, <2>4
<1>8. ASSUME NEW o \in Owners, NEW hs \in SUBSET HoldIds,
             NEW open \in SUBSET Cabins, NEW b \in BookingIds,
             Checkout(o, hs, open, b)
      PROVE  Good
  <2> DEFINE cs == CabinsOf(hs)
             New == {b} \X cs
  <2>1. hs \subseteq Held /\ ~Active(b)
    BY <1>8 DEF Checkout, LiveHolds, HeldBy, Active
  <2>2. cs \in SUBSET Cabins
    BY <1>2, <2>1 DEF CabinsOf, Held, TypeOK
  <2>3. /\ UNCHANGED <<avail, holdCabin>> /\ Active(b)'
        /\ bkCabins'[b] = cs
        /\ \A x \in BookingIds : x # b =>
             /\ bkStatus'[x] = bkStatus[x] /\ bkKind'[x] = bkKind[x]
             /\ bkCabins'[x] = bkCabins[x]
        /\ \A g \in HoldIds :
             holdState'[g] = IF g \in hs THEN "converted" ELSE holdState[g]
    BY <1>2, <1>8 DEF Checkout, TypeOK, Active
  <2>4. Held' = Held \ hs /\ SoldSeats' = SoldSeats \cup New
    BY <2>1, <2>2, <2>3 DEF Held, SoldSeats, Active, Seats
  <2>5. Cardinality(cs) = Cardinality(hs)
    BY <1>2, <2>1, CartSize DEF HeldCabinsDiffer, Held
  <2>6. IsFiniteSet(New) /\ Cardinality(New) = Cardinality(hs)
    BY <2>2, <2>5, RowsOfOne
  <2>7. SoldSeats \cap New = {}
    BY <2>1 DEF SoldSeats
  <2>8. Held \cap hs = hs
    BY <2>1
  <2>9. Cardinality(hs) \in Nat
    BY Counts
  <2>10. /\ Cardinality(Held') = Cardinality(Held) - Cardinality(hs)
         /\ Cardinality(SoldSeats') = Cardinality(SoldSeats) + Cardinality(hs)
    <3>1. Cardinality(Held') = Cardinality(Held) - Cardinality(hs)
      <4>1. Cardinality(Held \ hs) = Cardinality(Held) - Cardinality(hs)
        BY <1>3, <2>8, Without
      <4>2. QED
        BY <2>4, <4>1
    <3>2. Cardinality(SoldSeats \cup New)
            = Cardinality(SoldSeats) + Cardinality(New) - Cardinality({})
      BY <1>3, <2>6, <2>7, FS_Union
    <3>3. QED
      BY <1>3, <2>4, <2>6, <2>9, <3>1, <3>2, FS_EmptySet
  <2>11. HeldCabinsDiffer'
    BY <1>2, <2>3 DEF HeldCabinsDiffer
  <2>12. \A x \in BookingIds : bkKind[x] = "group" => bkKind'[x] = "group"
    <3>1. bkKind[b] # "group"
      BY <1>2, <1>8 DEF Checkout, BlankRows
    <3>2. QED
      BY <2>3, <3>1
  <2>13. QED
    BY <1>2, <1>3, <1>5, <2>3, <2>9, <2>10, <2>11, <2>12
<1>9. ASSUME NEW b \in BookingIds, GroupCheckout(b)
      PROVE  Good
  <2>1. /\ avail' = 0 /\ bkKind'[b] = "group" /\ bkCabins'[b] = {}
        /\ \A x \in BookingIds : x # b => ~Active(x)'
        /\ \A h \in HoldIds : holdState'[h] # "held"
    BY <1>2, <1>9 DEF GroupCheckout, Buyout, NoneActive, NoSideDoors, Active,
       Held, TypeOK
  <2>2. Held' = {} /\ SoldSeats' = {}
    BY <2>1 DEF Held, SoldSeats, Active, Seats
  <2>3. TakenCount' = 0 /\ Cardinality(Cabins) \in Nat
    BY <1>4, <2>2, FS_EmptySet, Counts
  <2>4. HeldCabinsDiffer'
    BY <2>1 DEF HeldCabinsDiffer
  <2>5. QED
    BY <2>1, <2>3, <2>4 DEF CountHonest
<1>10. ASSUME NEW b \in BookingIds, CancelCommit(b)
       PROVE  Good
  <2>1. CASE bkStatus[b] \in Final
    BY <1>6, <1>10, <2>1 DEF CancelCommit, Cancel
  <2>2. CASE bkStatus[b] \notin Final
    <3> DEFINE Gone == {b} \X bkCabins[b]
    <3>1. /\ UNCHANGED <<bkKind, bkCabins, Carts>>
          /\ avail' = avail + Cardinality(bkCabins[b])
          /\ ~Active(b)'
          /\ \A x \in BookingIds : x # b => Active(x)' = Active(x)
      BY <1>2, <1>10, <2>2 DEF CancelCommit, Cancel, Freed, Active, TypeOK
    <3>2. bkCabins[b] \in SUBSET Cabins
      BY <1>2 DEF TypeOK
    <3>3. Active(b) \/ bkCabins[b] = {}
      BY <1>2, <1>10, <2>2 DEF Active, Final, NoSideDoors
    <3>4. SoldSeats' = SoldSeats \ Gone /\ SoldSeats \cap Gone = Gone
      BY <3>1, <3>2, <3>3 DEF SoldSeats, Seats
    <3>5. Cardinality(Gone) = Cardinality(bkCabins[b])
      BY <3>2, RowsOfOne
    <3>6. Cardinality(bkCabins[b]) \in Nat
      BY <3>2, Counts
    <3>7. Cardinality(SoldSeats') = Cardinality(SoldSeats) - Cardinality(Gone)
      <4>1. Cardinality(SoldSeats \ Gone)
              = Cardinality(SoldSeats) - Cardinality(Gone)
        BY <1>3, <3>4, Without
      <4>2. QED
        BY <3>4, <4>1
    <3>8. Held' = Held /\ HeldCabinsDiffer'
      BY <1>2, <3>1 DEF Held, HeldCabinsDiffer
    <3>9. QED
      BY <1>2, <1>3, <1>5, <3>1, <3>5, <3>6, <3>7, <3>8
  <2>3. QED
    BY <2>1, <2>2
<1>11. ASSUME SweepCommit PROVE Good
  <2> DEFINE back == StillHeld(swept)
  <2>1. /\ UNCHANGED Rows /\ holdCabin' = holdCabin
        /\ avail' = avail + Cardinality(back)
        /\ \A h \in HoldIds :
             holdState'[h] = IF h \in back THEN "released" ELSE holdState[h]
    BY <1>2, <1>11 DEF SweepCommit, SweepTo, TypeOK
  <2>2. Held' = Held \ back /\ SoldSeats' = SoldSeats /\ Held \cap back = back
    BY <2>1 DEF Held, StillHeld, SoldSeats, Active
  <2>3. back \in SUBSET HoldIds
    BY DEF StillHeld, Held
  <2>4. Cardinality(Held') = Cardinality(Held) - Cardinality(back)
    <3>1. Cardinality(Held \ back) = Cardinality(Held) - Cardinality(back)
      BY <1>3, <2>2, Without
    <3>2. QED
      BY <2>2, <3>1
  <2>5. HeldCabinsDiffer'
    BY <1>2, <2>1 DEF HeldCabinsDiffer
  <2>6. Cardinality(back) \in Nat
    BY <2>3, Counts
  <2>7. QED
    BY <1>2, <1>3, <1>5, <2>1, <2>2, <2>4, <2>5, <2>6
<1>12. ASSUME Cascade PROVE Good
  <2>1. /\ UNCHANGED <<bkKind, bkCabins, Carts, avail>>
        /\ \A x \in BookingIds : Active(x)' <=> Active(x)
    BY <1>2, <1>12 DEF Cascade, CascadeTo, Confirmed, Active, TypeOK
  <2>2. Held' = Held /\ SoldSeats' = SoldSeats
    BY <2>1 DEF Held, SoldSeats, Seats
  <2>3. HeldCabinsDiffer'
    BY <1>2, <2>1 DEF HeldCabinsDiffer
  <2>4. QED
    BY <1>5, <2>1, <2>2, <2>3
<1>13. ASSUME \/ \E h \in HoldIds : ReleaseRead(h) \/ ReleaseCommit(h)
              \/ \E s \in Seats : \/ JoinRead(s) \/ JoinRefused(s)
                                  \/ \E j \in BookingIds : JoinCommit(s, j)
              \/ \E b \in BookingIds : MarkNotArrived(b)
              \/ Reconcile
       PROVE  FALSE
  BY <1>2, <1>13 DEF ReleaseRead, ReleaseCommit, JoinRead, JoinRefused, JoinCommit,
     JoinRows, MarkNotArrived, Reconcile, ReconcileCount, ReconcileBookings,
     ReconcileHolds, ReconcileWrite, Reads, NoSideDoors, TypeOK
<1>14. ASSUME \/ \E o \in Owners :
                   Lapse(o) \/ PriceSelection(o) \/ CheckoutAbandoned(o)
              \/ \E b \in BookingIds : CancelRead(b)
              \/ \E quiet \in SUBSET HoldIds : SweepFind(quiet)
              \/ CancelDeparture \/ ReviveDeparture \/ Sail \/ Arrive
              \/ UNCHANGED vars
       PROVE  Good
  BY <1>6, <1>14 DEF Lapse, PriceSelection, CheckoutAbandoned, CancelRead,
     SweepFind, Finds, CancelDeparture, ReviveDeparture, Sail, Arrive, vars
<1>15. Good
  BY <1>7, <1>8, <1>9, <1>10, <1>11, <1>12, <1>13, <1>14
  DEF Next, Shopping, Sweep, Host
<1>16. QED
  BY <1>1, <1>2, <1>15 DEF CountInv

\* The denormalised count never advertises a cabin that a hold or a booking has,
\* and is exact until the first buyout, for any number of carts, cabins,
\* overlapping sweeps and cancellations.
THEOREM CountIsHonest ==
    Features \subseteq {"host"} /\ MaxReplays = 0 => (Spec => []CountHonest)
<1> SUFFICES ASSUME Features \subseteq {"host"}, MaxReplays = 0
             PROVE  Spec => []CountHonest
  OBVIOUS
<1>1. Init => CountInv
  BY CountInit
<1>2. CountInv /\ [Next]_vars => CountInv'
  BY CountNext
<1>3. CountInv => CountHonest
  BY DEF CountInv
<1>4. QED
  BY <1>1, <1>2, <1>3, PTL DEF Spec

-----------------------------------------------------------------------------
(***************************************************************************)
(* What the conditional updates and the locked re-reads keep.              *)
(***************************************************************************)

\* No release request and no offline replay is under way.
NoLateWrites == \A h \in HoldIds : releasing[h] = 0

\* However many cancel requests passed their unlocked checks, one of them
\* refunds: the transaction reads the status again under the row lock.
LEMMA RefundsNext ==
    ASSUME MaxReplays = 0, TypeOK, RefundedAtMostOnce, [Next]_vars
    PROVE  RefundedAtMostOnce'
<1> USE DEF TypeOK, RefundedAtMostOnce, holdVars, bkVars, recVars, flights
<1>1. CASE UNCHANGED <<bkStatus, refunds>>
  BY <1>1
<1>2. ASSUME NEW o \in Owners, NEW hs \in SUBSET HoldIds,
             NEW open \in SUBSET Cabins, NEW b \in BookingIds,
             Checkout(o, hs, open, b)
      PROVE  RefundedAtMostOnce'
  BY <1>2 DEF Checkout
<1>3. ASSUME NEW b \in BookingIds, GroupCheckout(b)
      PROVE  RefundedAtMostOnce'
  BY <1>3 DEF GroupCheckout, Buyout
<1>4. ASSUME NEW b \in BookingIds, CancelCommit(b)
      PROVE  RefundedAtMostOnce'
  <2>1. CASE bkStatus[b] \in Final
    BY <1>1, <1>4, <2>1 DEF CancelCommit, Cancel
  <2>2. CASE bkStatus[b] \notin Final
    <3>1. PICK owed \in {0, 1} : refunds' = [refunds EXCEPT ![b] = @ + owed]
      BY <1>4, <2>2 DEF CancelCommit, Cancel
    <3>2. refunds[b] = 0
      BY <2>2 DEF Final
    <3>3. bkStatus' = [bkStatus EXCEPT ![b] = "cancelled"]
      BY <1>4, <2>2 DEF CancelCommit, Cancel
    <3>4. QED
      BY <3>1, <3>2, <3>3
  <2>3. QED
    BY <2>1, <2>2
<1>5. ASSUME NEW s \in Seats, NEW j \in BookingIds, JoinCommit(s, j)
      PROVE  RefundedAtMostOnce'
  BY <1>5 DEF JoinCommit, JoinRows
<1>6. ASSUME Cascade PROVE RefundedAtMostOnce'
  BY <1>6 DEF Cascade, CascadeTo, Confirmed
<1>7. ASSUME NEW b \in BookingIds, MarkNotArrived(b) PROVE FALSE
  BY <1>7 DEF MarkNotArrived
<1>8. ASSUME \/ \E o \in Owners :
                  \/ \E c \in Cabins, h \in HoldIds : Hold(o, c, h)
                  \/ Lapse(o) \/ PriceSelection(o) \/ CheckoutAbandoned(o)
             \/ \E h \in HoldIds : ReleaseRead(h) \/ ReleaseCommit(h)
             \/ \E b \in BookingIds : CancelRead(b)
             \/ \E s \in Seats : JoinRead(s) \/ JoinRefused(s)
             \/ Sweep \/ Reconcile
             \/ CancelDeparture \/ ReviveDeparture \/ Sail \/ Arrive
             \/ UNCHANGED vars
      PROVE  UNCHANGED <<bkStatus, refunds>>
  BY <1>8 DEF Hold, Lapse, PriceSelection, CheckoutAbandoned, ReleaseRead,
     ReleaseCommit, CancelRead, JoinRead, JoinRefused, Sweep, SweepFind, Finds,
     SweepCommit, SweepTo, Reconcile, ReconcileCount, ReconcileBookings,
     ReconcileHolds, ReconcileWrite, CancelDeparture, ReviveDeparture, Sail,
     Arrive, vars
<1>9. QED
  BY <1>1, <1>2, <1>3, <1>4, <1>5, <1>6, <1>7, <1>8 DEF Next, Shopping, Host

\* A cancelled booking is refunded at most once and no other booking is, for any
\* number of overlapping cancel requests and every optional code path but the
\* manifest action of an offline device.
THEOREM RefundedOnce == MaxReplays = 0 => (Spec => []RefundedAtMostOnce)
<1> SUFFICES ASSUME MaxReplays = 0 PROVE Spec => []RefundedAtMostOnce
  OBVIOUS
<1>1. Init => RefundedAtMostOnce
  BY DEF Init, RefundedAtMostOnce
<1>2. TypeOK /\ RefundedAtMostOnce /\ [Next]_vars => RefundedAtMostOnce'
  BY RefundsNext
<1>3. QED
  BY <1>1, <1>2, TypeCorrect, PTL DEF Spec

\* Without release() no request holds a stale read of a cart row.
LEMMA NoLateNext ==
    ASSUME "release" \notin Features, TypeOK, NoLateWrites, [Next]_vars
    PROVE  NoLateWrites'
<1> USE DEF TypeOK, NoLateWrites, holdVars, bkVars, recVars, flights
<1>1. ASSUME NEW h \in HoldIds, ReleaseRead(h) \/ ReleaseCommit(h) PROVE FALSE
  BY <1>1 DEF ReleaseRead, ReleaseCommit
<1>2. CASE UNCHANGED releasing
  BY <1>2
<1>3. ASSUME NEW o \in Owners,
             \/ \E c \in Cabins, h \in HoldIds : Hold(o, c, h)
             \/ Lapse(o) \/ PriceSelection(o) \/ CheckoutAbandoned(o)
             \/ \E hs \in SUBSET HoldIds, open \in SUBSET Cabins,
                   b \in BookingIds : Checkout(o, hs, open, b)
      PROVE  UNCHANGED releasing
  BY <1>3 DEF Hold, Lapse, PriceSelection, CheckoutAbandoned, Checkout
<1>4. ASSUME NEW b \in BookingIds,
             \/ GroupCheckout(b) \/ CancelRead(b) \/ CancelCommit(b)
             \/ MarkNotArrived(b)
      PROVE  UNCHANGED releasing
  BY <1>4 DEF GroupCheckout, Buyout, CancelRead, CancelCommit, Cancel,
     MarkNotArrived
<1>5. ASSUME NEW s \in Seats,
             \/ JoinRead(s) \/ JoinRefused(s)
             \/ \E j \in BookingIds : JoinCommit(s, j)
      PROVE  UNCHANGED releasing
  BY <1>5 DEF JoinRead, JoinRefused, JoinCommit, JoinRows
<1>6. ASSUME \/ Sweep \/ Reconcile \/ Cascade
             \/ CancelDeparture \/ ReviveDeparture \/ Sail \/ Arrive
             \/ UNCHANGED vars
      PROVE  UNCHANGED releasing
  BY <1>6 DEF Sweep, SweepFind, Finds, SweepCommit, SweepTo, Reconcile,
     ReconcileCount, ReconcileBookings, ReconcileHolds, ReconcileWrite, Cascade,
     CascadeTo, CancelDeparture, ReviveDeparture, Sail, Arrive, vars
<1>7. QED
  BY <1>1, <1>2, <1>3, <1>4, <1>5, <1>6 DEF Next, Shopping, Host

\* No step takes back what a row has given up: one case per kind of write.
LEMMA FinalStep ==
    ASSUME "release" \notin Features, MaxReplays = 0, TypeOK, NoLateWrites,
           [Next]_vars
    PROVE  /\ \A h \in HoldIds : holdState[h] \in {"released", "converted"} =>
                holdState'[h] = holdState[h]
           /\ \A b \in BookingIds : bkStatus[b] = "cancelled" =>
                bkStatus'[b] = "cancelled"
           /\ \A b \in BookingIds : bkStatus[b] = "completed" =>
                bkStatus'[b] # "cancelled"
<1> USE DEF TypeOK, NoLateWrites, holdVars, bkVars, recVars, flights
<1> DEFINE HoldsKept ==
             \A h \in HoldIds : holdState[h] \in {"released", "converted"} =>
               holdState'[h] = holdState[h]
           BookingsKept ==
             /\ \A b \in BookingIds : bkStatus[b] = "cancelled" =>
                  bkStatus'[b] = "cancelled"
             /\ \A b \in BookingIds : bkStatus[b] = "completed" =>
                  bkStatus'[b] # "cancelled"
<1>1. UNCHANGED holdState => HoldsKept
  OBVIOUS
<1>2. UNCHANGED bkStatus => BookingsKept
  OBVIOUS
<1>3. ASSUME NEW o \in Owners, NEW c \in Cabins, NEW h \in HoldIds, Hold(o, c, h)
      PROVE  HoldsKept /\ UNCHANGED bkStatus
  BY <1>3 DEF Hold
<1>4. ASSUME NEW o \in Owners, NEW hs \in SUBSET HoldIds,
             NEW open \in SUBSET Cabins, NEW b \in BookingIds,
             Checkout(o, hs, open, b)
      PROVE  HoldsKept /\ BookingsKept
  BY <1>4 DEF Checkout, LiveHolds, HeldBy, Held
<1>5. ASSUME NEW b \in BookingIds, GroupCheckout(b)
      PROVE  HoldsKept /\ BookingsKept
  BY <1>5 DEF GroupCheckout, Buyout, Held
<1>6. ASSUME NEW b \in BookingIds, CancelCommit(b)
      PROVE  UNCHANGED holdState /\ BookingsKept
  BY <1>6 DEF CancelCommit, Cancel, Final
<1>7. ASSUME NEW s \in Seats, NEW j \in BookingIds, JoinCommit(s, j)
      PROVE  UNCHANGED holdState /\ BookingsKept
  BY <1>7 DEF JoinCommit, JoinRows
<1>8. ASSUME SweepCommit PROVE HoldsKept /\ UNCHANGED bkStatus
  BY <1>8 DEF SweepCommit, SweepTo, StillHeld, Held
<1>9. ASSUME Cascade PROVE UNCHANGED holdState /\ BookingsKept
  BY <1>9 DEF Cascade, CascadeTo, Confirmed
<1>10. ASSUME \/ \E b \in BookingIds : MarkNotArrived(b)
              \/ \E h \in HoldIds : ReleaseCommit(h)
       PROVE  FALSE
  BY <1>10 DEF MarkNotArrived, ReleaseCommit
<1>11. ASSUME \/ \E o \in Owners :
                   Lapse(o) \/ PriceSelection(o) \/ CheckoutAbandoned(o)
              \/ \E h \in HoldIds : ReleaseRead(h)
              \/ \E b \in BookingIds : CancelRead(b)
              \/ \E s \in Seats : JoinRead(s) \/ JoinRefused(s)
              \/ \E quiet \in SUBSET HoldIds : SweepFind(quiet)
              \/ Reconcile
              \/ CancelDeparture \/ ReviveDeparture \/ Sail \/ Arrive
              \/ UNCHANGED vars
       PROVE  UNCHANGED <<holdState, bkStatus>>
  BY <1>11 DEF Lapse, PriceSelection, CheckoutAbandoned, ReleaseRead, CancelRead,
     JoinRead, JoinRefused, SweepFind, Finds, Reconcile, ReconcileCount,
     ReconcileBookings, ReconcileHolds, ReconcileWrite, CancelDeparture,
     ReviveDeparture, Sail, Arrive, vars
<1>12. HoldsKept /\ BookingsKept
  BY <1>1, <1>2, <1>3, <1>4, <1>5, <1>6, <1>7, <1>8, <1>9, <1>10, <1>11
  DEF Next, Shopping, Sweep, Host
<1>13. QED
  BY <1>12

\* Released and converted carts, cancelled bookings and completed trips stay so,
\* whatever sweeps, cancels, buyouts, joins and departure steps overlap, as long
\* as no release() commits a stale read and no offline device replays.
THEOREM RowsStayFinal ==
    "release" \notin Features /\ MaxReplays = 0 => (Spec => RowsAreFinal)
<1> SUFFICES ASSUME "release" \notin Features, MaxReplays = 0
             PROVE  Spec => RowsAreFinal
  OBVIOUS
<1>1. Init => NoLateWrites
  BY DEF Init, NoLateWrites
<1>2. TypeOK /\ NoLateWrites /\ [Next]_vars => NoLateWrites'
  BY NoLateNext
<1>3. TypeOK /\ NoLateWrites /\ [Next]_vars =>
        [/\ \A h \in HoldIds : holdState[h] \in {"released", "converted"} =>
              holdState'[h] = holdState[h]
         /\ \A b \in BookingIds : bkStatus[b] = "cancelled" =>
              bkStatus'[b] = "cancelled"
         /\ \A b \in BookingIds : bkStatus[b] = "completed" =>
              bkStatus'[b] # "cancelled"]_vars
  BY FinalStep
<1>4. QED
  BY <1>1, <1>2, <1>3, TypeCorrect, PTL DEF Spec, RowsAreFinal
=============================================================================
