------------------------------- MODULE Season -------------------------------
(***************************************************************************)
(* A boat's departures and the notices about them: Schedule and Notify,    *)
(* joined where cancelDeparture tells the guests it found booked.          *)
(***************************************************************************)
EXTENDS Schedule, Notify

CONSTANT Scenarios   \* the bounds and the operating dates to start from

ASSUME SeasonAssumption == Guests \subseteq Topics

VARIABLE untold      \* history: guests whose request ended before their turn

vars == <<tripVars, notifyVars, untold>>

Init ==
    /\ \E s \in Scenarios : /\ left = s.left /\ budget = s.budget
                            /\ operating = s.operating
    /\ TripInit /\ NotifyInit
    /\ untold = {}

\* Mutant of AfterTelling: a refused notice ends the loop.
AfterTellingOnce(rest, ok) ==
    IF rest = {} \/ ~ok THEN Idle ELSE [at |-> "tell", tell |-> rest]

\* Mutant of AfterTelling: the loop does not notice its end.
AfterTellingAll(rest, ok) == [at |-> "tell", tell |-> rest]

AfterTelling(rest, ok) ==
    IF rest = {} THEN Idle ELSE [at |-> "tell", tell |-> rest]

(* notify(): the loop goes on whatever the provider answers.               *)
TellGuest(w) ==
    /\ At(w, "tell")
    /\ \E g \in jobs[w].tell, a \in Answers :
          /\ Notice(g, a)
          /\ Becomes(w, AfterTelling(jobs[w].tell \ {g}, Ok(a)))
    /\ UNCHANGED <<today, operating, scheds, deps, guests, refilled, left>>
    /\ UNCHANGED <<scans, budget, untold>>

(* record() can fail, and the loop has no catch: the rest is not told.     *)
RequestFails(w) ==
    /\ today < LastDay
    /\ JobFails(w)
    /\ untold' = IF At(w, "tell") THEN untold \cup jobs[w].tell ELSE untold
    /\ UNCHANGED notifyVars

Next ==
    \/ TripStep /\ UNCHANGED <<notifyVars, untold>>
    \/ NotifyStep /\ UNCHANGED <<tripVars, untold>>
    \/ \E w \in Workers : TellGuest(w) \/ RequestFails(w)

(* Requests come to an end, the cron jobs run and time passes; nobody has  *)
(* to start a request, book or cancel.                                     *)
Fairness ==
    /\ NotifyFairness
    /\ WF_tripVars(RefillStart) /\ WF_tripVars(NextDay)
    /\ \A w \in Workers : WF_vars(Works(w) /\ UNCHANGED <<notifyVars, untold>>)
    /\ \A w \in Workers : WF_vars(TellGuest(w))

Spec == Init /\ [][Next]_vars /\ Fairness

-----------------------------------------------------------------------------
(* Properties *)

(* Types of both parts; no request is left with nothing to do.             *)
TypeOK == /\ TripTypeOK /\ NotifyTypeOK
          /\ untold \subseteq Guests

(* When a departure is cancelled, by the owner or by a save, every guest   *)
(* who has a booking on it then has a notice on record or is about to be   *)
(* told.  The exceptions: a booking that overtook the cancellation, and a  *)
(* request that failed before it came to the guest.                        *)
GuestsAreTold ==
    \A g \in Guests :
        /\ guests[g].stage = "booked" /\ ~guests[g].late
        /\ deps[guests[g].dep].state = "cancelled"
        => \/ \E i \in NoteIds : notes[i].about = g
           \/ \E w \in Workers : At(w, "tell") /\ g \in jobs[w].tell
           \/ g \in untold

(* What the two cron jobs owe is done in the end: the window of departures *)
(* is filled, and every refused notice is taken or given up.               *)
CronJobsCatchUp == WindowIsFilled /\ NoticesSettle
=============================================================================
