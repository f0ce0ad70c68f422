------------------------------ MODULE Schedule ------------------------------
(***************************************************************************)
(* The trips of one boat.  The owner saves a weekly schedule of numbered   *)
(* slots; a generator turns it into departures for the days ahead, at once *)
(* and every night; the owner moves, cancels, revives and adds departures  *)
(* while guests book them and the clock lets them sail.                    *)
(* Source: schedule-generator.service.ts, trips.service.ts,                *)
(* departure-status.service.ts, and booking.service.ts for what a guest's  *)
(* checkout reads of a departure.                                          *)
(*                                                                         *)
(* A request is a job of several steps, since the code checks before the   *)
(* transaction that writes.  Routes, packages, prices, times of day, crew  *)
(* and the count of free cabins are left out (Inventory has the last).     *)
(***************************************************************************)
EXTENDS Naturals, FiniteSets

CONSTANTS Guests,      \* each makes one booking
          Desks,       \* requests of the owner at work at one time (bound)
          SlotNos,     \* numbers of the slots of a schedule
          MaxScheds,   \* rows of boat_schedule (bound)
          MaxDeps,     \* rows of trip_departure (bound)
          Week,        \* days in a week
          Window,      \* WINDOW_DAYS
          LastDay,     \* the last day the model reaches (bound)
          Nightly      \* the job of the nightly refill

ASSUME ScheduleAssumption == /\ {LastDay, MaxScheds, MaxDeps} \subseteq Nat
                             /\ {Week, Window} \subseteq Nat \ {0}

VARIABLES today,       \* the date
          operating,   \* the boat's operating_dates
          scheds,      \* boat_schedule with its slots
          deps,        \* trip_departure
          guests,      \* the guests' checkouts and bookings
          jobs,        \* what the requests and the nightly job have read
          refilled,    \* today's refill was started
          left         \* how much of each kind may still happen (bounds)

tripVars == <<today, operating, scheds, deps, guests, jobs, refilled, left>>

Dates == 0 .. LastDay + Window - 1
Weekdays == 0 .. Week - 1
Weekday(date) == date % Week
Scheds == 1 .. MaxScheds
DepIds == 1 .. MaxDeps
Slots == Scheds \X SlotNos
Manual == <<0, 0>>       \* the slot of a departure added by hand
Workers == Desks \cup {Nightly}

Idle == [at |-> "idle"]
NoSched == [state |-> "none", weekdays |-> [n \in SlotNos |-> {}], rows |-> {}]
NoDep == [state |-> "none", slot |-> Manual, date |-> 0, moved |-> FALSE,
          twin |-> FALSE]
NoGuest == [stage |-> "new", dep |-> 0, saw |-> 0, late |-> FALSE]

TripInit ==
    /\ today = 0 /\ refilled = FALSE
    /\ operating \in SUBSET Dates
    /\ scheds = [i \in Scheds |-> NoSched]
    /\ deps = [d \in DepIds |-> NoDep]
    /\ guests = [g \in Guests |-> NoGuest]
    /\ jobs = [w \in Workers |-> Idle]

Unsaved == {i \in Scheds : scheds[i].state = "none"}
Active == {i \in Scheds : scheds[i].state = "active"}
Existing == {d \in DepIds : deps[d].state # "none"}
Booked(d) == {g \in Guests : guests[g].stage = "booked" /\ guests[g].dep = d}

(* _count.bookings: every booking ever made, the cancelled ones too.       *)
EverBooked(d) == {g \in Guests : /\ guests[g].stage \in {"booked", "cancelled"}
                                 /\ guests[g].dep = d}

At(w, step) == jobs[w].at = step
Becomes(w, job) == jobs' = [jobs EXCEPT ![w] = job]
Spend(kind) == left[kind] > 0 /\ left' = [left EXCEPT ![kind] = @ - 1]

Fresh == {d \in DepIds \ Existing : \A e \in DepIds \ Existing : d <= e}

AddDep(new, slot, date, known) ==
    LET same == {d \in Existing : deps[d].slot = slot /\ deps[d].date = date}
    IN  deps' = [deps EXCEPT ![new] =
                   [state |-> "scheduled", slot |-> slot, date |-> date,
                    moved |-> FALSE, twin |-> ~ (same \subseteq known)]]

-----------------------------------------------------------------------------
(* saveSchedule: an active schedule is reused, else one is created.  The   *)
(* page sends each slot with at least one weekday, and always as active.   *)

SaveStart(w, weekdays) ==
    /\ At(w, "idle") /\ Spend("saves")
    /\ \/ /\ Active = {}
          /\ Becomes(w, [at |-> "create", weekdays |-> weekdays])
       \/ \E i \in Active :
             Becomes(w, [at |-> "update", sched |-> i, weekdays |-> weekdays,
                         rows |-> scheds[i].rows])
    /\ UNCHANGED <<today, operating, scheds, deps, guests, refilled>>

SaveCreate(w) ==
    /\ At(w, "create")
    /\ \E i \in Unsaved :
          /\ \A j \in Unsaved : i <= j
          /\ scheds' = [scheds EXCEPT ![i] =
                [state |-> "active", weekdays |-> jobs[w].weekdays,
                 rows |-> {n \in SlotNos : jobs[w].weekdays[n] # {}}]]
          /\ Becomes(w, [at |-> "generate", scheds |-> {i}])
    /\ UNCHANGED <<today, operating, deps, guests, refilled, left>>

\* Mutant of Reconciled: booked departures too.
ReconciledAll(i, rows) ==
    {d \in Existing : /\ deps[d].slot \in {i} \X rows
                      /\ deps[d].date >= today
                      /\ deps[d].state = "scheduled"}

Reconciled(i, rows) ==
    {d \in Existing : /\ deps[d].slot \in {i} \X rows
                      /\ deps[d].date >= today
                      /\ deps[d].state = "scheduled"
                      /\ EverBooked(d) = {}}

(* The transaction: its first updates lock the schedules, so one is at     *)
(* work at a time; what it read of the departures may change until it      *)
(* writes.                                                                 *)
SaveRead(w) ==
    /\ At(w, "update")
    /\ \A v \in Workers : ~At(v, "reconcile")
    /\ LET job == jobs[w]
           found == Reconciled(job.sched, job.rows)
           gone == {d \in found : Weekday(deps[d].date)
                                    \notin job.weekdays[deps[d].slot[2]]}
       IN  Becomes(w, [at |-> "reconcile", sched |-> job.sched,
                       weekdays |-> job.weekdays, gone |-> gone])
    /\ UNCHANGED <<today, operating, scheds, deps, guests, refilled, left>>

SaveWrite(w) ==
    /\ At(w, "reconcile")
    /\ LET job == jobs[w] IN
       /\ scheds' = [i \in Scheds |->
             IF i = job.sched
             THEN [state |-> "active", weekdays |-> job.weekdays,
                   rows |-> SlotNos]
             ELSE IF i \in Active THEN [scheds[i] EXCEPT !.state = "retired"]
             ELSE scheds[i]]
       /\ deps' = [d \in DepIds |->
             IF d \in job.gone THEN [deps[d] EXCEPT !.state = "cancelled"]
             ELSE deps[d]]
       /\ Becomes(w, [at |-> "generate", scheds |-> {job.sched}])
    /\ UNCHANGED <<today, operating, guests, refilled, left>>

-----------------------------------------------------------------------------
(* generateForSchedule, for a saved schedule or, at night, for all active. *)

\* Mutant of Wanted: one day short.
WantedShort(i) == {k \in ({i} \X SlotNos) \X (today .. today + Window - 2) :
                      /\ k[2] \in operating
                      /\ Weekday(k[2]) \in scheds[i].weekdays[k[1][2]]}

Wanted(i) == {k \in ({i} \X SlotNos) \X (today .. today + Window - 1) :
                 /\ k[2] \in operating
                 /\ Weekday(k[2]) \in scheds[i].weekdays[k[1][2]]}

\* Mutant of Generated: cancelled departures do not count.
GeneratedOnSale ==
    {<<deps[d].slot, deps[d].date>> : d \in {e \in Existing :
                                               deps[e].state = "scheduled"}}

(* A departure of any status, a cancelled one too, keeps its date taken.   *)
Generated == {<<deps[d].slot, deps[d].date>> : d \in Existing}

Done(rest) == IF rest = {} THEN Idle ELSE [at |-> "generate", scheds |-> rest]

GenRead(w) ==
    /\ At(w, "generate")
    /\ \E i \in jobs[w].scheds :
          LET rest == jobs[w].scheds \ {i}
              todo == Wanted(i) \ Generated IN
          Becomes(w, IF i \notin Active \/ todo = {} THEN Done(rest)
                     ELSE [at |-> "add", todo |-> todo, scheds |-> rest,
                           known |-> Existing])
    /\ UNCHANGED <<today, operating, scheds, deps, guests, refilled, left>>

(* A transaction for each departure, in the order of the dates.            *)
GenAdd(w) ==
    /\ At(w, "add")
    /\ \E k \in jobs[w].todo, new \in Fresh :
          LET rest == jobs[w].todo \ {k} IN
          /\ \A l \in rest : k[2] <= l[2]
          /\ AddDep(new, k[1], k[2], jobs[w].known)
          /\ Becomes(w, IF rest = {} THEN Done(jobs[w].scheds)
                        ELSE [jobs[w] EXCEPT !.todo = rest,
                                             !.known = @ \cup {new}])
    /\ UNCHANGED <<today, operating, scheds, guests, refilled, left>>

(* refillAll, the cron job of one o'clock.                                 *)
RefillStart ==
    /\ At(Nightly, "idle") /\ ~refilled
    /\ refilled' = TRUE
    /\ Becomes(Nightly, Done(Active))
    /\ UNCHANGED <<today, operating, scheds, deps, guests, left>>

(* A statement fails or the process stops: the request is over.  The       *)
(* refill catches a failure and goes on with the next schedule.            *)
JobFails(w) ==
    /\ ~At(w, "idle") /\ Spend("faults")
    /\ \/ Becomes(w, Idle)
       \/ w = Nightly /\ At(w, "add") /\ jobs[w].scheds # {}
          /\ Becomes(w, Done(jobs[w].scheds))
    /\ UNCHANGED <<today, operating, scheds, deps, guests, refilled>>

-----------------------------------------------------------------------------
(* The owner's changes of one departure, of whatever status.               *)

\* Mutant of FreeToMove: only a fully booked departure is refused.
FreeToMoveUnlessAll(d) == Booked(d) # Guests

FreeToMove(d) == Booked(d) = {}

(* updateDeparture: checks first, then updates by id.  The date it has is  *)
(* no change, and its bookings are not counted.                            *)
MoveCheck(w, d, date) ==
    /\ At(w, "idle") /\ Spend("moves")
    /\ d \in Existing /\ date \in operating
    /\ date = deps[d].date \/ FreeToMove(d)
    /\ Becomes(w, [at |-> "move", dep |-> d, date |-> date])
    /\ UNCHANGED <<today, operating, scheds, deps, guests, refilled>>

MoveWrite(w) ==
    /\ At(w, "move")
    /\ IF deps[jobs[w].dep].date = jobs[w].date THEN UNCHANGED deps
       ELSE deps' = [deps EXCEPT ![jobs[w].dep].date = jobs[w].date,
                                 ![jobs[w].dep].moved = TRUE]
    /\ Becomes(w, Idle)
    /\ UNCHANGED <<today, operating, scheds, guests, refilled, left>>

(* cancelDeparture: reads whom to tell, cancels, tells them one by one.    *)
CancelRead(w, d) ==
    /\ At(w, "idle") /\ Spend("cancels")
    /\ d \in Existing
    /\ Becomes(w, [at |-> "cancel", dep |-> d, tell |-> Booked(d)])
    /\ UNCHANGED <<today, operating, scheds, deps, guests, refilled>>

CancelWrite(w) ==
    /\ At(w, "cancel")
    /\ deps' = [deps EXCEPT ![jobs[w].dep].state = "cancelled"]
    /\ Becomes(w, IF jobs[w].tell = {} THEN Idle
                  ELSE [at |-> "tell", tell |-> jobs[w].tell])
    /\ UNCHANGED <<today, operating, scheds, guests, refilled, left>>

ReviveCheck(w, d) ==
    /\ At(w, "idle") /\ Spend("revives")
    /\ deps[d].state = "cancelled"
    /\ Becomes(w, [at |-> "revive", dep |-> d])
    /\ UNCHANGED <<today, operating, scheds, deps, guests, refilled>>

ReviveWrite(w) ==
    /\ At(w, "revive")
    /\ deps' = [deps EXCEPT ![jobs[w].dep].state = "scheduled"]
    /\ Becomes(w, Idle)
    /\ UNCHANGED <<today, operating, scheds, guests, refilled, left>>

CreateDeparture(date) ==
    /\ Spend("manual") /\ date \in operating
    /\ \E new \in Fresh : AddDep(new, Manual, date, Existing)
    /\ UNCHANGED <<today, operating, scheds, guests, jobs, refilled>>

EditOperatingDates(dates) ==
    /\ Spend("edits")
    /\ operating' = dates
    /\ UNCHANGED <<today, scheds, deps, guests, jobs, refilled>>

-----------------------------------------------------------------------------
(* Guests and the clock *)

(* The checkout prices a departure that is on sale and keeps what it showed*)
(* in an intent; the payment prices it again, looking at its status but    *)
(* not at its date, and then books it without looking again.               *)
BeginCheckout(g, d) ==
    /\ guests[g].stage = "new" /\ Spend("checkouts")
    /\ deps[d].state = "scheduled"
    /\ guests' = [guests EXCEPT ![g].stage = "intent", ![g].dep = d,
                                ![g].saw = deps[d].date]
    /\ UNCHANGED <<today, operating, scheds, deps, jobs, refilled>>

Confirm(g) ==
    /\ guests[g].stage = "intent" /\ deps[guests[g].dep].state = "scheduled"
    /\ guests' = [guests EXCEPT ![g].stage = "paying"]
    /\ UNCHANGED <<today, operating, scheds, deps, jobs, refilled, left>>

(* For late, which is history: the departure had changed since, or a       *)
(* request had already read its bookings.                                  *)
Overtaken(g) ==
    LET d == guests[g].dep IN
    \/ deps[d].date # guests[g].saw \/ deps[d].state = "cancelled"
    \/ \E w \in Workers : \/ At(w, "move") /\ jobs[w].dep = d
                          \/ At(w, "cancel") /\ jobs[w].dep = d
                          \/ At(w, "reconcile") /\ d \in jobs[w].gone

Pay(g) ==
    /\ guests[g].stage = "paying"
    /\ guests' = [guests EXCEPT ![g].stage = "booked", ![g].late = Overtaken(g)]
    /\ UNCHANGED <<today, operating, scheds, deps, jobs, refilled, left>>

CancelBooking(g) ==
    /\ guests[g].stage = "booked" /\ Spend("cancellations")
    /\ guests' = [guests EXCEPT ![g].stage = "cancelled"]
    /\ UNCHANGED <<today, operating, scheds, deps, jobs, refilled>>

(* advance: each pass moves a departure whose time has come.               *)
Advance(d) ==
    /\ \/ /\ deps[d].state = "scheduled" /\ deps[d].date <= today
          /\ deps' = [deps EXCEPT ![d].state = "in_progress"]
       \/ /\ deps[d].state = "in_progress" /\ deps[d].date < today
          /\ deps' = [deps EXCEPT ![d].state = "completed"]
    /\ UNCHANGED <<today, operating, scheds, guests, jobs, refilled, left>>

(* No request is at work across midnight.                                  *)
NextDay ==
    /\ today < LastDay /\ refilled
    /\ \A w \in Workers : At(w, "idle")
    /\ today' = today + 1
    /\ refilled' = FALSE
    /\ UNCHANGED <<operating, scheds, deps, guests, jobs, left>>

OwnerStarts ==
    /\ today < LastDay
    /\ Cardinality({w \in Desks : ~At(w, "idle")}) < left.atonce
    /\ \/ \E w \in Desks :
             \/ \E week \in [SlotNos -> SUBSET Weekdays] : SaveStart(w, week)
             \/ \E d \in DepIds : \/ CancelRead(w, d) \/ ReviveCheck(w, d)
                                  \/ \E date \in Dates : MoveCheck(w, d, date)
       \/ \E date \in Dates : CreateDeparture(date)
       \/ \E dates \in SUBSET Dates : EditOperatingDates(dates)

Works(w) == \/ SaveCreate(w) \/ SaveRead(w) \/ SaveWrite(w)
            \/ GenRead(w) \/ GenAdd(w)
            \/ MoveWrite(w) \/ CancelWrite(w) \/ ReviveWrite(w)

TripStep ==
    \/ OwnerStarts \/ RefillStart \/ NextDay
    \/ \E w \in Workers : Works(w)
    \/ \E g \in Guests : \/ Confirm(g) \/ Pay(g) \/ CancelBooking(g)
                         \/ \E d \in DepIds : BeginCheckout(g, d)
    \/ \E d \in DepIds : Advance(d)

-----------------------------------------------------------------------------
(* Properties *)

JobTypes ==
    [at: {"idle"}]
    \cup [at: {"create"}, weekdays: [SlotNos -> SUBSET Weekdays]]
    \cup [at: {"update"}, sched: Scheds, rows: SUBSET SlotNos,
          weekdays: [SlotNos -> SUBSET Weekdays]]
    \cup [at: {"reconcile"}, sched: Scheds, gone: SUBSET DepIds,
          weekdays: [SlotNos -> SUBSET Weekdays]]
    \cup [at: {"generate"}, scheds: (SUBSET Scheds) \ {{}}]
    \cup [at: {"add"}, todo: (SUBSET (Slots \X Dates)) \ {{}}, scheds: SUBSET Scheds,
          known: SUBSET DepIds]
    \cup [at: {"move"}, dep: DepIds, date: Dates]
    \cup [at: {"cancel"}, dep: DepIds, tell: SUBSET Guests]
    \cup [at: {"revive"}, dep: DepIds]
    \cup [at: {"tell"}, tell: (SUBSET Guests) \ {{}}]

TripTypeOK ==
    /\ today \in 0 .. LastDay /\ refilled \in BOOLEAN
    /\ operating \subseteq Dates
    /\ scheds \in [Scheds -> [state: {"none", "active", "retired"},
                              weekdays: [SlotNos -> SUBSET Weekdays],
                              rows: SUBSET SlotNos]]
    /\ deps \in [DepIds -> [state: {"none", "scheduled", "in_progress",
                                    "completed", "cancelled"},
                            slot: Slots \cup {Manual}, date: Dates,
                            moved: BOOLEAN, twin: BOOLEAN]]
    /\ guests \in [Guests -> [stage: {"new", "intent", "paying", "booked",
                                     "cancelled"},
                              dep: 0 .. MaxDeps, saw: Dates, late: BOOLEAN]]
    /\ jobs \in [Workers -> JobTypes]

(* A guest who booked a departure sails on the day the checkout showed: no *)
(* move, save or refill changes the date under a booking.  Only a booking  *)
(* that overtook a change, paid between its check and its write or on a    *)
(* price from before it, may find another date (the code does not look).   *)
GuestsKeepTheirDate ==
    \A g \in Guests : guests[g].stage = "booked" /\ ~guests[g].late
        => deps[guests[g].dep].date = guests[g].saw

(* A slot has one departure a day, whatever saves, re-saves and refills    *)
(* come, and though the owner cancels some: a cancelled one revived beside *)
(* its replacement would sail twice.  Two generations at one time may each *)
(* add one (no index forbids it), and a move is the owner's own doing.     *)
OneTripPerSlotDay ==
    \A d, e \in Existing :
        /\ d # e /\ deps[d].slot = deps[e].slot /\ deps[d].slot # Manual
        /\ deps[d].date = deps[e].date
        => \E x \in {d, e} : deps[x].moved \/ deps[x].twin

(* The window stays filled: a date the boat operates on, of a weekday of   *)
(* an active slot, within the days ahead, does not go without a departure  *)
(* row for ever, though saves and refills fail or overlap, departures are  *)
(* moved away and operating dates are added later.                         *)
Missing(slot, date) ==
    /\ slot[1] \in Active /\ Weekday(date) \in scheds[slot[1]].weekdays[slot[2]]
    /\ date \in operating /\ date - today \in 0 .. Window - 1
    /\ \A d \in Existing : deps[d].slot # slot \/ deps[d].date # date

WindowIsFilled == \A slot \in Slots, date \in Dates : []<>~Missing(slot, date)
=============================================================================
