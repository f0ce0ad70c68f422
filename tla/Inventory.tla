----------------------------- MODULE Inventory ------------------------------
(***************************************************************************)
(* The cabins of ONE departure: cabin_hold, booking and booking_cabin rows *)
(* and the denormalised trip_departure.available_count, under every code   *)
(* path of the backend that writes them (holds.service, hold-sweeper,      *)
(* booking.service, trips.service, departure-status.service, and the       *)
(* manifest action of sync.service).                                       *)
(*                                                                         *)
(* Granularity.  PostgreSQL runs at READ COMMITTED.  hold(), checkout and  *)
(* groupCheckout take the departure row FOR UPDATE first, so each is one   *)
(* action.  A handler that reads before it locks (release, cancel,         *)
(* joinOpenSeat, the sweeper, reconcile, the pricing read of a checkout)   *)
(* is a ...Read action that remembers the read and a ...Commit action that *)
(* writes; anything may happen between the two.  Conditional and relative  *)
(* UPDATEs are evaluated in the commit: PostgreSQL re-evaluates them on    *)
(* the row version it locks.                                               *)
(*                                                                         *)
(* Time is the set lapsed of hold rows whose expires_at has passed; the    *)
(* minutes of a hold and of its extension are left out.                    *)
(***************************************************************************)
EXTENDS Integers, FiniteSets

CONSTANTS
    Cabins,       \* houseboat_cabin rows of the boat
    Owners,       \* carts: an account (held_by) or a browser (held_by_token)
    Staff,        \* owners at the counter: no cabin cap, no heartbeat
    HoldIds,      \* cabin_hold rows that may be inserted (bound)
    BookingIds,   \* booking rows that may be inserted (bound)
    None,         \* SQL NULL
    MaxCabins,    \* MAX_CABINS_PER_BOOKING
    MaxFlights,   \* concurrent requests of one kind on one row (bound)
    MaxReplays,   \* mark_not_arrived intents the sync may apply (bound)
    Features      \* which of the optional code paths below run

FeatureNames == {"release", "reconcile", "openSeat", "host"}

ASSUME InventoryAssumption ==
    /\ IsFiniteSet(Cabins) /\ IsFiniteSet(HoldIds) /\ IsFiniteSet(BookingIds)
    /\ Cabins # {}
    /\ None \notin Cabins \cup Owners \cup BookingIds
    /\ Staff \subseteq Owners
    /\ MaxCabins \in Nat \ {0} /\ MaxFlights \in Nat \ {0}
    /\ MaxReplays \in Nat
    /\ Features \subseteq FeatureNames

VARIABLES
    status,       \* trip_departure.status
    avail,        \* trip_departure.available_count
    holdState, holdCabin, holdOwner,   \* cabin_hold
    lapsed,       \* hold rows whose expires_at is in the past
    bkStatus, bkKind,                  \* booking
    bkCabins,     \* the cabins of the booking's booking_cabin rows
    bkOpen,       \* those of its rows with is_open_seat = true
    bkHost,       \* the booking whose open seat an open_seat booking joined
    refunds,      \* customer_credit rows of kind 'refund' per booking
    replays,      \* mark_not_arrived intents applied so far
    priced,       \* owners whose priceSelection has run, checkout tx not yet
    releasing,    \* release() requests that have read state = 'held'
    cancelling,   \* cancel() requests that have passed their unlocked checks
    joining,      \* joinOpenSeat() requests that have read the open seat
    swept,        \* the sweeper's findMany result, {} between sweeps
    recRead, recCount, recSold, recHeld,   \* reconcile's reads so far
    cascading     \* advance() found the departure running: its bookings are to come

holdVars == <<holdState, holdCabin, holdOwner, lapsed>>
bkVars   == <<bkStatus, bkKind, bkCabins, bkOpen, bkHost, refunds,
              replays>>
recVars  == <<recRead, recCount, recSold, recHeld>>
flights  == <<priced, releasing, cancelling, joining, swept, cascading>>
vars     == <<status, avail, holdVars, bkVars, recVars, flights>>

-----------------------------------------------------------------------------
DepartureStatus == {"scheduled", "in_progress", "completed", "cancelled"}
HoldStates      == {"none", "held", "released", "converted"}
BookingStatus   == {"none", "confirmed", "not_arrived", "completed", "cancelled"}
BookingKinds    == {"none", "cabin", "group", "open_seat"}
Seats           == BookingIds \X Cabins
Reads           == {"count", "bookings", "holds"}

TypeOK ==
    /\ status \in DepartureStatus
    /\ avail \in Int
    /\ holdState \in [HoldIds -> HoldStates]
    /\ holdCabin \in [HoldIds -> Cabins \cup {None}]
    /\ holdOwner \in [HoldIds -> Owners \cup {None}]
    /\ \A h \in HoldIds : holdState[h] = "held" => holdCabin[h] \in Cabins
    /\ lapsed \subseteq HoldIds
    /\ bkStatus \in [BookingIds -> BookingStatus]
    /\ bkKind \in [BookingIds -> BookingKinds]
    /\ bkCabins \in [BookingIds -> SUBSET Cabins]
    /\ bkOpen \in [BookingIds -> SUBSET Cabins]
    /\ bkHost \in [BookingIds -> BookingIds \cup {None}]
    /\ refunds \in [BookingIds -> Nat]
    /\ replays \in Nat
    /\ priced \subseteq Owners
    /\ releasing \in [HoldIds -> Nat]
    /\ cancelling \in [BookingIds -> Nat]
    /\ joining \in [Seats -> Nat]
    /\ swept \subseteq HoldIds
    /\ recRead \subseteq Reads
    /\ recCount \in Int
    /\ recSold \subseteq Cabins
    /\ recHeld \subseteq Cabins
    /\ cascading \in BOOLEAN

Init ==
    /\ status = "scheduled"
    /\ avail = Cardinality(Cabins)
    /\ holdState = [h \in HoldIds |-> "none"]
    /\ holdCabin = [h \in HoldIds |-> None]
    /\ holdOwner = [h \in HoldIds |-> None]
    /\ lapsed = {}
    /\ bkStatus = [b \in BookingIds |-> "none"]
    /\ bkKind = [b \in BookingIds |-> "none"]
    /\ bkCabins = [b \in BookingIds |-> {}]
    /\ bkOpen = [b \in BookingIds |-> {}]
    /\ bkHost = [b \in BookingIds |-> None]
    /\ refunds = [b \in BookingIds |-> 0]
    /\ replays = 0
    /\ priced = {}
    /\ releasing = [h \in HoldIds |-> 0]
    /\ cancelling = [b \in BookingIds |-> 0]
    /\ joining = [s \in Seats |-> 0]
    /\ swept = {}
    /\ recRead = {} /\ recCount = 0 /\ recSold = {} /\ recHeld = {}
    /\ cascading = FALSE

-----------------------------------------------------------------------------
Held == {h \in HoldIds : holdState[h] = "held"}
HeldBy(o) == {h \in Held : holdOwner[h] = o}
LiveHolds(o) == HeldBy(o) \ lapsed

\* booking.status <> 'cancelled', for a row that exists.
Active(b) == bkStatus[b] \notin {"none", "cancelled"}

\* The clash count of enforce_one_active_cabin_per_departure: another active
\* booking has a row on the cabin that is not an open seat.
ClashOfOpenRows(c) ==                                     \* mutant of Clash
    \E b \in BookingIds : Active(b) /\ c \in bkOpen[b]
Clash(c) == \E b \in BookingIds : Active(b) /\ c \in bkCabins[b] \ bkOpen[b]

CabinsOf(hs) == {holdCabin[h] : h \in hs}

-----------------------------------------------------------------------------
\* HoldsService.hold: all under the departure row lock.  The whole cart moves
\* to the newest deadline, rows that had lapsed unswept included.
Hold(o, c, h) ==
    /\ status = "scheduled"
    /\ avail > 0
    /\ o \in Staff \/ Cardinality(LiveHolds(o)) < MaxCabins
    /\ \A g \in Held : holdCabin[g] # c              \* uq_cabin_hold_active
    /\ holdState[h] = "none"
    /\ holdState' = [holdState EXCEPT ![h] = "held"]
    /\ holdCabin' = [holdCabin EXCEPT ![h] = c]
    /\ holdOwner' = [holdOwner EXCEPT ![h] = o]
    /\ lapsed' = lapsed \ HeldBy(o)
    /\ avail' = avail - 1
    /\ UNCHANGED <<status, bkVars, recVars, flights>>

\* expires_at of a cart passes: its rows share one deadline.
Lapse(o) ==
    /\ LiveHolds(o) # {}
    /\ lapsed' = lapsed \cup HeldBy(o)
    /\ UNCHANGED <<status, avail, holdState, holdCabin, holdOwner, bkVars,
                   recVars, flights>>

\* HoldsService.release, the findUnique: no row lock is taken.
ReleaseRead(h) ==
    /\ "release" \in Features
    /\ holdState[h] = "held"
    /\ releasing[h] < MaxFlights
    /\ releasing' = [releasing EXCEPT ![h] = @ + 1]
    /\ UNCHANGED <<status, avail, holdVars, bkVars, recVars,
                   priced, cancelling, joining, swept, cascading>>

\* HoldsService.release, the two updates: by id, whatever the state now is.
ReleaseCommit(h) ==
    /\ releasing[h] > 0
    /\ releasing' = [releasing EXCEPT ![h] = @ - 1]
    /\ holdState' = [holdState EXCEPT ![h] = "released"]
    /\ avail' = avail + 1
    /\ UNCHANGED <<status, holdCabin, holdOwner, lapsed, bkVars, recVars,
                   priced, cancelling, joining, swept, cascading>>

\* HoldSweeperService.runSweep, the findMany: expired rows and rows whose
\* heartbeat went quiet (a counter hold never reports, so never goes quiet).
Finds(quiet, found) ==
    /\ swept = {}
    /\ quiet \subseteq {h \in Held : holdOwner[h] \notin Staff}
    /\ found # {}
    /\ swept' = found
    /\ UNCHANGED <<status, avail, holdVars, bkVars, recVars,
                   priced, releasing, cancelling, joining, cascading>>

SweepFindQuietOnly(quiet) == Finds(quiet, quiet)          \* mutant of SweepFind
SweepFind(quiet) == Finds(quiet, (Held \cap lapsed) \cup quiet)

\* The rows of the sweep the conditional UPDATE still finds in state 'held'.
StillHeld(ids) == ids \cap Held

\* runSweep, the transaction: increments by the rows really released.
SweepTo(state, rows) ==
    /\ swept # {}
    /\ holdState' = [h \in HoldIds |-> IF h \in rows THEN state ELSE holdState[h]]
    /\ avail' = avail + Cardinality(StillHeld(swept))
    /\ swept' = {}
    /\ UNCHANGED <<status, holdCabin, holdOwner, lapsed, bkVars, recVars,
                   priced, releasing, cancelling, joining, cascading>>

SweepCommitById == SweepTo("released", swept)             \* mutants of SweepCommit
SweepCommitExpires == SweepTo("expired", StillHeld(swept))
SweepCommit == SweepTo("released", StillHeld(swept))

-----------------------------------------------------------------------------
\* priceSelection: the only status check of a checkout, before its transaction.
PriceSelection(o) ==
    /\ status = "scheduled"
    /\ o \notin priced
    /\ LiveHolds(o) # {}
    /\ priced' = priced \cup {o}
    /\ UNCHANGED <<status, avail, holdVars, bkVars, recVars,
                   releasing, cancelling, joining, swept, cascading>>

\* createBookingTx on the holds hs, the cabins in open offered as open seats.
\* Every hold must still be held, the caller's and unexpired, and the trigger
\* must accept every booking_cabin row; available_count stays as hold() left it.
Checkout(o, hs, open, b) ==
    /\ o \in priced
    /\ bkStatus[b] = "none"
    /\ hs # {} /\ hs \subseteq LiveHolds(o)
    /\ \A c \in CabinsOf(hs) : ~Clash(c)
    /\ open \subseteq CabinsOf(hs)
    /\ open # {} => "openSeat" \in Features
    /\ holdState' = [h \in HoldIds |-> IF h \in hs THEN "converted"
                                       ELSE holdState[h]]
    /\ bkStatus' = [bkStatus EXCEPT ![b] = "confirmed"]
    /\ bkKind' = [bkKind EXCEPT ![b] = "cabin"]
    /\ bkCabins' = [bkCabins EXCEPT ![b] = CabinsOf(hs)]
    /\ bkOpen' = [bkOpen EXCEPT ![b] = open]
    /\ priced' = priced \ {o}
    /\ UNCHANGED <<status, avail, holdCabin, holdOwner, lapsed, bkHost, refunds,
                   replays, recVars, releasing, cancelling, joining, swept, cascading>>

\* The checkout transaction throws and rolls back, or never runs (the shopper
\* does not pay).
CheckoutAbandoned(o) ==
    /\ o \in priced
    /\ priced' = priced \ {o}
    /\ UNCHANGED <<status, avail, holdVars, bkVars, recVars,
                   releasing, cancelling, joining, swept, cascading>>

\* groupCheckout: under the departure row lock.  Held rows of other shoppers are
\* voided without touching the count, which is set to an absolute 0.
Buyout(b, voided) ==
    /\ status = "scheduled"
    /\ avail > 0
    /\ bkStatus[b] = "none"
    /\ avail' = 0
    /\ holdState' = [h \in HoldIds |-> IF h \in voided THEN "released"
                                       ELSE holdState[h]]
    /\ bkStatus' = [bkStatus EXCEPT ![b] = "confirmed"]
    /\ bkKind' = [bkKind EXCEPT ![b] = "group"]
    /\ UNCHANGED <<status, holdCabin, holdOwner, lapsed, bkCabins, bkOpen, bkHost,
                   refunds, replays, recVars, flights>>

NoneActive == \A x \in BookingIds : ~Active(x)
GroupCheckoutOverBookings(b) == Buyout(b, Held)           \* mutant of GroupCheckout
GroupCheckout(b) == NoneActive /\ Buyout(b, Held)

\* BookingService.cancel, the unlocked reads and checks.
CancelRead(b) ==
    /\ bkStatus[b] \in {"confirmed", "not_arrived"}
    /\ status # "cancelled"
    /\ cancelling[b] < MaxFlights
    /\ cancelling' = [cancelling EXCEPT ![b] = @ + 1]
    /\ UNCHANGED <<status, avail, holdVars, bkVars, recVars,
                   priced, releasing, joining, swept, cascading>>

\* cancel, the transaction: the booking row is locked and its status read again;
\* a refund credit is written when the policy owes one.
Cancel(b, final, freed) ==
    /\ cancelling[b] > 0
    /\ cancelling' = [cancelling EXCEPT ![b] = @ - 1]
    /\ \/ /\ bkStatus[b] \in final
          /\ UNCHANGED <<avail, bkStatus, refunds>>
       \/ /\ bkStatus[b] \notin final
          /\ bkStatus' = [bkStatus EXCEPT ![b] = "cancelled"]
          /\ avail' = avail + freed
          /\ \E owed \in {0, 1} : refunds' = [refunds EXCEPT ![b] = @ + owed]
    /\ UNCHANGED <<status, holdVars, bkKind, bkCabins, bkOpen, bkHost, replays, recVars,
                   priced, releasing, joining, swept, cascading>>

Final == {"cancelled", "completed"}
Freed(b) == Cardinality(bkCabins[b])
CancelCommitTwice(b) == Cancel(b, {"completed"}, Freed(b))   \* mutants of
CancelCommitLate(b) == Cancel(b, {"cancelled"}, Freed(b))    \* CancelCommit
CancelCommitOneCabin(b) == Cancel(b, Final, 1)
CancelCommit(b) == Cancel(b, Final, Freed(b))

-----------------------------------------------------------------------------
\* joinOpenSeat, the unlocked read: only the row's is_open_seat is checked, not
\* the status of its booking or of the departure.
JoinRead(s) ==
    /\ "openSeat" \in Features
    /\ s[2] \in bkOpen[s[1]]
    /\ joining[s] < MaxFlights
    /\ joining' = [joining EXCEPT ![s] = @ + 1]
    /\ UNCHANGED <<status, avail, holdVars, bkVars, recVars,
                   priced, releasing, cancelling, swept, cascading>>

\* joinOpenSeat, the transaction: the trigger judges the joiner's row, then the
\* seat's own row is closed.  Joiners of one seat queue on its invoice row.
JoinRows(s, j) ==
    /\ joining[s] > 0
    /\ bkStatus[j] = "none"
    /\ joining' = [joining EXCEPT ![s] = @ - 1]
    /\ bkStatus' = [bkStatus EXCEPT ![j] = "confirmed"]
    /\ bkKind' = [bkKind EXCEPT ![j] = "open_seat"]
    /\ bkCabins' = [bkCabins EXCEPT ![j] = {s[2]}]
    /\ bkOpen' = [bkOpen EXCEPT ![s[1]] = @ \ {s[2]}]
    /\ bkHost' = [bkHost EXCEPT ![j] = s[1]]
    /\ UNCHANGED <<status, avail, holdVars, refunds, replays, recVars,
                   priced, releasing, cancelling, swept, cascading>>

JoinCommitUntriggered(s, j) == JoinRows(s, j)             \* mutant of JoinCommit
JoinCommit(s, j) == ~Clash(s[2]) /\ JoinRows(s, j)

\* The trigger raises unique_violation: the join rolls back.
JoinRefused(s) ==
    /\ joining[s] > 0
    /\ Clash(s[2])
    /\ joining' = [joining EXCEPT ![s] = @ - 1]
    /\ UNCHANGED <<status, avail, holdVars, bkVars, recVars,
                   priced, releasing, cancelling, swept, cascading>>

-----------------------------------------------------------------------------
\* cancelDeparture: unconditional, from any status; holds and bookings stay.
CancelDeparture ==
    /\ "host" \in Features
    /\ status' = "cancelled"
    /\ UNCHANGED <<avail, holdVars, bkVars, recVars, flights>>

\* reviveDeparture (the status is read before the update, which writes the same
\* value whatever happened in between).
ReviveDeparture ==
    /\ "host" \in Features
    /\ status = "cancelled"
    /\ status' = "scheduled"
    /\ UNCHANGED <<avail, holdVars, bkVars, recVars, flights>>

\* DepartureStatusService.advance, scheduled -> in_progress.
Sail ==
    /\ "host" \in Features
    /\ status = "scheduled"
    /\ status' = "in_progress"
    /\ UNCHANGED <<avail, holdVars, bkVars, recVars, flights>>

\* advance, in_progress -> completed: the departure is found running, then
\* updated if it still is.
Arrive ==
    /\ "host" \in Features
    /\ status = "in_progress"
    /\ \/ ~cascading /\ cascading' = TRUE /\ UNCHANGED status
       \/ cascading /\ status' = "completed" /\ UNCHANGED cascading
    /\ UNCHANGED <<avail, holdVars, bkVars, recVars,
                   priced, releasing, cancelling, joining, swept>>

\* advance, the cascade to the departure's confirmed bookings, after the update:
\* also where that found the departure cancelled meanwhile.
CascadeTo(bs) ==
    /\ cascading /\ status # "in_progress"
    /\ cascading' = FALSE
    /\ bkStatus' = [b \in BookingIds |-> IF b \in bs THEN "completed"
                                         ELSE bkStatus[b]]
    /\ UNCHANGED <<status, avail, holdVars, bkKind, bkCabins, bkOpen, bkHost,
                   refunds, replays, recVars, priced, releasing, cancelling,
                   joining, swept>>

Confirmed == {b \in BookingIds : bkStatus[b] = "confirmed"}
CascadeToAll == CascadeTo({b \in BookingIds : bkStatus[b] # "none"}) \* mutant
Cascade == CascadeTo(Confirmed)

\* SyncService.applyIntent, mark_not_arrived: whatever the booking's status is.
MarkNotArrived(b) ==
    /\ replays < MaxReplays
    /\ replays' = replays + 1
    /\ bkStatus[b] # "none"
    /\ bkStatus' = [bkStatus EXCEPT ![b] = "not_arrived"]
    /\ UNCHANGED <<status, avail, holdVars, bkKind, bkCabins, bkOpen, bkHost,
                   refunds, recVars, flights>>

-----------------------------------------------------------------------------
\* runReconcile, the departures read: only scheduled ones.
ReconcileCount ==
    /\ "reconcile" \in Features
    /\ recRead = {}
    /\ status = "scheduled"
    /\ recRead' = {"count"}
    /\ recCount' = avail
    /\ UNCHANGED <<status, avail, holdVars, bkVars, recSold, recHeld, flights>>

\* The cabins runReconcile takes for sold.  A cabin with an open-seat row has a
\* place left (an open seat is never full); with rows of both kinds the row
\* returned last decides.
OpenRow(c)   == \E b \in BookingIds : Active(b) /\ c \in bkOpen[b]
SoldReadings ==
    {S \in SUBSET {c \in Cabins : Clash(c)} :
        {c \in Cabins : Clash(c) /\ ~OpenRow(c)} \subseteq S}

ReconcileBookings ==
    /\ "count" \in recRead /\ "bookings" \notin recRead
    /\ recRead' = recRead \cup {"bookings"}
    /\ recSold' \in SoldReadings
    /\ UNCHANGED <<status, avail, holdVars, bkVars, recCount, recHeld, flights>>

ReconcileHolds ==
    /\ "count" \in recRead /\ "holds" \notin recRead
    /\ recRead' = recRead \cup {"holds"}
    /\ recHeld' = CabinsOf(Held \ lapsed)
    /\ UNCHANGED <<status, avail, holdVars, bkVars, recCount, recSold, flights>>

FreeCabins == Cardinality(Cabins \ (recSold \cup recHeld))

\* The absolute write, when the count read at the start disagrees.
ReconcileWrite ==
    /\ recRead = Reads
    /\ avail' = IF FreeCabins # recCount THEN FreeCabins ELSE avail
    /\ recRead' = {} /\ recCount' = 0 /\ recSold' = {} /\ recHeld' = {}
    /\ UNCHANGED <<status, holdVars, bkVars, flights>>

-----------------------------------------------------------------------------
Shopping ==
    \/ \E o \in Owners, c \in Cabins, h \in HoldIds : Hold(o, c, h)
    \/ \E o \in Owners : Lapse(o) \/ PriceSelection(o) \/ CheckoutAbandoned(o)
    \/ \E h \in HoldIds : ReleaseRead(h) \/ ReleaseCommit(h)
    \/ \E o \in Owners, hs \in SUBSET HoldIds, open \in SUBSET Cabins,
          b \in BookingIds : Checkout(o, hs, open, b)
    \/ \E b \in BookingIds : GroupCheckout(b) \/ CancelRead(b) \/ CancelCommit(b)
    \/ \E s \in Seats : JoinRead(s) \/ JoinRefused(s)
                        \/ \E j \in BookingIds : JoinCommit(s, j)

Sweep == (\E quiet \in SUBSET HoldIds : SweepFind(quiet)) \/ SweepCommit

Host ==
    \/ CancelDeparture \/ ReviveDeparture \/ Sail \/ Arrive \/ Cascade
    \/ \E b \in BookingIds : MarkNotArrived(b)

Reconcile ==
    ReconcileCount \/ ReconcileBookings \/ ReconcileHolds \/ ReconcileWrite

Next == Shopping \/ Sweep \/ Host \/ Reconcile

Spec == Init /\ [][Next]_vars

\* The sweeper is a cron job of the server: it keeps running.  Nobody else must.
FairSpec == Spec /\ WF_vars(Sweep)

-----------------------------------------------------------------------------
(***************************************************************************)
(* Properties                                                              *)
(***************************************************************************)
GroupActive(b) == Active(b) /\ bkKind[b] = "group"

\* Two active bookings have a closed (not open-seat) row on the same cabin only
\* when one of them joined the other's open seat: the trigger, the holds index
\* and joinOpenSeat's insert-then-flip order together never sell a cabin twice.
ClosedRowsShareOnlyByJoin ==
    \A x, y \in BookingIds :
        /\ x # y /\ Active(x) /\ Active(y)
        /\ (bkCabins[x] \ bkOpen[x]) \cap (bkCabins[y] \ bkOpen[y]) # {}
        => bkHost[x] = y \/ bkHost[y] = x

\* While a whole-boat buyout is active no other booking of the departure is:
\* groupCheckout, hold() and createBookingTx queue on the departure row.
BuyoutExclusive ==
    \A x, y \in BookingIds : x # y /\ GroupActive(x) => ~Active(y)

\* Why BuyoutExclusive holds: a buyout leaves no hold to convert, no place to
\* hold, and no increment on its way (conversions, sweeps and cancels in flight
\* when it commits find nothing left to give back).
BuyoutClosesBoat ==
    (\E b \in BookingIds : GroupActive(b)) => avail = 0 /\ Held = {}

\* The cabins that the rows say are taken: one per held hold, one per
\* booking_cabin row of an active booking.
TakenCount ==
    Cardinality(Held)
    + Cardinality({s \in Seats : Active(s[1]) /\ s[2] \in bkCabins[s[1]]})

\* available_count never advertises a cabin the rows say is taken, whatever order
\* holds, conversions, sweeps, cancels and buyouts commit in; and until a first
\* buyout sets it to 0 it is exact: every decrement of a hold is matched by one
\* conversion, sweep or cancellation.
CountHonest ==
    /\ avail + TakenCount <= Cardinality(Cabins)
    /\ (\A b \in BookingIds : bkKind[b] # "group") =>
            avail + TakenCount = Cardinality(Cabins)

\* At most one refund credit per booking, and only for a cancelled one, however
\* many cancel requests were past their unlocked checks.
RefundedAtMostOnce ==
    \A b \in BookingIds :
        refunds[b] <= 1 /\ (refunds[b] = 1 => bkStatus[b] = "cancelled")

\* What a row has given up it never takes back: a released or converted hold
\* keeps that state (release() is documented as a silent no-op on it, and the
\* sweeper filters on state = 'held'), a cancelled booking stays cancelled, and a
\* trip that completed is not cancelled by a request checked while it was running.
RowsAreFinal ==
    [][/\ \A h \in HoldIds : holdState[h] \in {"released", "converted"} =>
            holdState'[h] = holdState[h]
       /\ \A b \in BookingIds : bkStatus[b] = "cancelled" =>
            bkStatus'[b] = "cancelled"
       /\ \A b \in BookingIds : bkStatus[b] = "completed" =>
            bkStatus'[b] # "cancelled"]_vars

\* A hold whose time has run out is given back or renewed, whatever shoppers do.
LapsedHoldIsReclaimed ==
    \A h \in HoldIds :
        (h \in Held /\ h \in lapsed) ~> ~(h \in Held /\ h \in lapsed)

\* hold() refuses a cabin that another party has booked, as its comment says.
HoldRefusesBookedCabin ==
    [][\A h \in HoldIds : holdState[h] = "none" /\ holdState'[h] = "held" =>
            ~Clash(holdCabin'[h])]_vars

\* Two active bookings share a cabin only by a join, which is where the room's
\* capacity is checked.
CabinSharedOnlyByJoin ==
    \A x, y \in BookingIds :
        x # y /\ Active(x) /\ Active(y) /\ bkCabins[x] \cap bkCabins[y] # {}
        => bkHost[x] = y \/ bkHost[y] = x

\* Cancelling a booking frees what it had taken: after it the departure has a
\* place to sell.
CancelReopens ==
    [][\A b \in BookingIds :
            Active(b) /\ bkStatus'[b] = "cancelled" => avail' > 0]_vars

\* The abstract promise, with the rows mapped to what each booking has bought.
Sale == [b \in BookingIds |->
            IF ~Active(b) THEN {}
            ELSE IF bkKind[b] = "group" THEN Cabins ELSE bkCabins[b]]

Abstract == INSTANCE BoatSale WITH Parties <- BookingIds, sale <- Sale

BoatSaleSpec == Abstract!Spec
=============================================================================
