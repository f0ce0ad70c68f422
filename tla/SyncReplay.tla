----------------------------- MODULE SyncReplay -----------------------------
(***************************************************************************)
(* The owner console without a signal.  A page sends each action to the    *)
(* server; when no answer comes the action is kept on the device as an     *)
(* INTENT and replayed later, in batches, by any of the console's          *)
(* flushers.  Source: submit-or-queue.ts, offline-queue.ts, sync-runner.ts *)
(* of the web application and the pages that call them; sync.service.ts    *)
(* and the services its actions end in; membership.service.ts, which says  *)
(* who may still replay.                                                   *)
(*                                                                         *)
(* A replay claims the intent in a ledger, checks the membership, applies  *)
(* the action, writes the audit row and answers; each is a commit of its   *)
(* own, so the server may stop, and a row may fail to be written, between  *)
(* any two.  A flusher that gets no answer leaves its batch on the device  *)
(* while the server goes on with it.                                       *)
(***************************************************************************)
EXTENDS Naturals, Sequences, FiniteSets, SequencesExt

CONSTANTS
    Ops,          \* actions of the member on the console (bound)
    DateChanges,  \* those that move a departure; the others (a cost, a stock
                  \* movement, a check-in, a ticket) nothing refuses
    Flushers,     \* places that flush: console load, "online" event, Sync now
    Requests,     \* replay requests the server handles at a time (bound)
    None,         \* no request
    MaxDay,       \* days (bound)
    MaxEvents,    \* lost answers, failed writes, restarts and changes of the
                  \* membership, all together (bound)
    MaxChanges    \* changes of the membership among them (bound)

ASSUME SyncAssumption ==
    /\ IsFiniteSet(Ops) /\ DateChanges \subseteq Ops
    /\ None \notin Requests
    /\ MaxEvents \in Nat /\ MaxChanges \in Nat /\ MaxDay \in Nat \ {0}

VARIABLES
    phase, at,    \* per action: where it is, its deviceTime once it is queued
    pending,      \* the object store of the device's queue (IndexedDB)
    flush,        \* per flusher: the request whose answer it awaits
    reqs,         \* the replay requests inside the server
    ledger,       \* sync_intent_applied: the claimed intents
    online,       \* actions the online call committed
    replays,      \* per action: how often a replay committed it
    conflicts,    \* intents with a sync_conflict row
    booked,       \* the departure has active bookings: its date is fixed
    member,       \* the houseboat_member row
    clock,        \* today: start_date and end_date are dates
    faults, changes,
    allowed,      \* actions captured by a member whose role could edit
    tenure,       \* days on which the member could edit, if only for an hour
    interrupted,  \* intents whose replay stopped half-way: a restart, a failed
                  \* conflict row
    unlogged,     \* intents applied whose audit row then failed
    disowned,     \* intents whose claim a request that had given it up released
    regranted,    \* a right was given for days on which it had not been held
    restamped     \* an exited member was exited again, on a later day

device  == <<phase, at, pending, flush>>
server  == <<reqs, ledger, online, replays, conflicts, booked>>
history == <<allowed, tenure, interrupted, unlogged, disowned, regranted,
             restamped>>
vars    == <<device, server, member, changes, clock, faults, history>>

-----------------------------------------------------------------------------
Phases   == {"idle", "calling", "answering", "settled",
             "queued", "removed"}
Steps    == {"free", "claim", "authorize", "apply", "log", "refused",
             "released", "kept", "again", "failed", "conflict", "answered"}
Statuses == {"applied", "duplicate", "error"}
Times    == 0..MaxDay
Free     == [pc |-> "free", batch |-> <<>>, res |-> <<>>]
NoEnd    == MaxDay + 1
Rows     == [status : {"none", "active", "exited"}, edit : BOOLEAN,
             start : Times, end : Times \cup {NoEnd}]

TypeOK ==
    /\ phase \in [Ops -> Phases]
    /\ at \in [Ops -> Times]
    /\ pending \subseteq Ops
    /\ flush \in [Flushers -> Requests \cup {None}]
    /\ reqs \in [Requests -> [pc : Steps, batch : Seq(Ops), res : Seq(Statuses)]]
    /\ \A r \in Requests :
         /\ Len(reqs[r].res) <= Len(reqs[r].batch)
         /\ reqs[r].pc \notin {"free", "answered"} =>
                Len(reqs[r].res) < Len(reqs[r].batch)
    /\ replays \in [Ops -> Nat] /\ booked \in BOOLEAN
    /\ {ledger, online, conflicts, allowed, interrupted, unlogged, disowned}
            \subseteq SUBSET Ops
    /\ tenure \subseteq Times
    /\ member \in Rows
    /\ clock \in Times /\ faults \in 0..MaxEvents
    /\ changes \in 0..MaxEvents
    /\ regranted \in BOOLEAN /\ restamped \in BOOLEAN

\* A member, or one who left before today.
Init ==
    /\ phase = [o \in Ops |-> "idle"]
    /\ at = [o \in Ops |-> 0]
    /\ pending = {} /\ flush = [f \in Flushers |-> None]
    /\ reqs = [r \in Requests |-> Free]
    /\ ledger = {} /\ online = {} /\ conflicts = {}
    /\ replays = [o \in Ops |-> 0] /\ booked = FALSE
    /\ member \in {[status |-> "active", edit |-> TRUE, start |-> 0, end |-> NoEnd],
                   [status |-> "exited", edit |-> TRUE, start |-> 0, end |-> 0]}
    /\ clock = 1 /\ faults = 0 /\ changes = 0
    /\ allowed = {} /\ tenure = {0} \cup {d \in {1} : member.status = "active"}
    /\ interrupted = {} /\ unlogged = {} /\ disowned = {}
    /\ regranted = FALSE /\ restamped = FALSE

EventsLeft == faults + changes < MaxEvents
Fault == EventsLeft /\ faults' = faults + 1

\* can(): the online routes refuse an exited member and a role without edit.
Can == member.status = "active" /\ member.edit

-----------------------------------------------------------------------------
(* The pages: one call for each action of the member.                      *)

\* enqueue: a fresh intent, stamped now, which may be long after the action was
\* first sent.
Enqueue(o) ==
    /\ pending' = pending \cup {o}
    /\ phase' = [phase EXCEPT ![o] = "queued"]
    /\ at' = [at EXCEPT ![o] = clock]
    /\ allowed' = IF Can THEN allowed \cup {o} ELSE allowed

\* submitOrQueue: sent while navigator.onLine, else kept at once.
Submit(o) ==
    /\ phase[o] = "idle"
    /\ \/ /\ phase' = [phase EXCEPT ![o] = "calling"]
          /\ UNCHANGED <<pending, at, allowed>>
       \/ Enqueue(o)
    /\ UNCHANGED <<flush, server, member, changes, clock, faults, tenure,
                   interrupted, unlogged, disowned, regranted, restamped>>

\* The request, or its answer, is lost: the caller cannot tell the two apart.
CallLost(o) ==
    /\ phase[o] \in {"calling", "answering"}
    /\ Fault /\ Enqueue(o)
    /\ UNCHANGED <<flush, server, member, changes, clock, tenure, interrupted,
                   unlogged, disowned, regranted, restamped>>

CallAnswered(o) ==
    /\ phase[o] = "answering"
    /\ phase' = [phase EXCEPT ![o] = "settled"]
    /\ UNCHANGED <<at, pending, flush, server, member, changes, clock, faults,
                   history>>

-----------------------------------------------------------------------------
(* What the online routes and the replay both end in.                      *)

\* updateDeparture refuses a new date once guests have booked.
Refused(o) == o \in DateChanges /\ booked

CallRefused(o) ==
    /\ phase[o] = "calling" /\ (~Can \/ Refused(o))
    /\ phase' = [phase EXCEPT ![o] = "settled"]
    /\ UNCHANGED <<at, pending, flush, server, member, changes, clock, faults,
                   history>>

CallServed(o) ==
    /\ phase[o] = "calling" /\ Can /\ ~Refused(o)
    /\ phase' = [phase EXCEPT ![o] = "answering"]
    /\ online' = online \cup {o}
    /\ UNCHANGED <<at, pending, flush, reqs, ledger, replays,
                   conflicts, booked, member, changes, clock, faults, history>>

-----------------------------------------------------------------------------
(* sync.service replay: one intent after the other.                        *)

Current(r) == reqs[r].batch[Len(reqs[r].res) + 1]
At(r, pc)  == reqs[r].pc = pc
Goto(r, pc) == reqs' = [reqs EXCEPT ![r].pc = pc]

\* The requests between the claim of an intent and its answer.
AtWork == {r \in Requests : reqs[r].pc \notin {"free", "claim", "answered"}}

\* On to the next intent, or to the answer.
Answer(r, status) ==
    LET res == Append(reqs[r].res, status) IN
    reqs' = [reqs EXCEPT
        ![r].res = res,
        ![r].pc = IF Len(res) = Len(reqs[r].batch) THEN "answered" ELSE "claim"]

\* Mutant of Claim: find, then insert what was not found; the key is not unique.
ClaimAnyway(r) ==
    /\ At(r, "claim")
    /\ Goto(r, "authorize") /\ ledger' = ledger \cup {Current(r)}
    /\ UNCHANGED <<device, online, replays, conflicts, booked, member, changes,
                   clock, faults, history>>

\* The primary key of the ledger decides who applies the intent.
Claim(r) ==
    /\ At(r, "claim")
    /\ IF Current(r) \in ledger
       THEN Answer(r, "duplicate") /\ UNCHANGED ledger
       ELSE Goto(r, "authorize") /\ ledger' = ledger \cup {Current(r)}
    /\ UNCHANGED <<device, online, replays, conflicts, booked, member, changes,
                   clock, faults, history>>

\* Mutant of WasAuthorized: the membership of today only.
AuthorizedToday(o) == member.status # "none" /\ clock <= member.end /\ member.edit

\* wasAuthorized: the row's dates cover the device time and today; the status is
\* not looked at, the role as it is now.
WasAuthorized(o) ==
    /\ member.status # "none"
    /\ member.start <= at[o] /\ at[o] <= member.end
    /\ member.start <= clock /\ clock <= member.end
    /\ member.edit

\* The question itself may fail: the catch takes it for a failed action.
Authorize(r) ==
    /\ At(r, "authorize")
    /\ \/ /\ Goto(r, IF WasAuthorized(Current(r)) THEN "apply" ELSE "refused")
          /\ UNCHANGED faults
       \/ Goto(r, "failed") /\ Fault
    /\ UNCHANGED <<device, ledger, online, replays, conflicts, booked,
                   member, changes, clock, history>>

\* applyIntent up to the commit of the action.
Apply(r) ==
    /\ At(r, "apply") /\ ~Refused(Current(r))
    /\ Goto(r, "log")
    /\ replays' = [replays EXCEPT ![Current(r)] = @ + 1]
    /\ UNCHANGED <<device, ledger, online, conflicts, booked, member, changes, clock,
                   faults, history>>

\* The action throws: refused by its own guard, or a failing write.
ApplyThrows(r) ==
    /\ At(r, "apply")
    /\ \/ Refused(Current(r)) /\ UNCHANGED faults
       \/ Fault
    /\ Goto(r, "failed")
    /\ UNCHANGED <<device, ledger, online, replays, conflicts, booked,
                   member, changes, clock, history>>

Log(r) ==
    /\ At(r, "log")
    /\ \/ Answer(r, "applied") /\ UNCHANGED <<faults, unlogged>>
       \/ /\ Fault /\ Goto(r, "failed")
          /\ unlogged' = unlogged \cup {Current(r)}
    /\ UNCHANGED <<device, ledger, online, replays, conflicts, booked,
                   member, changes, clock, allowed, tenure, interrupted,
                   disowned, regranted, restamped>>

\* releaseClaim is best effort: a failing delete leaves the claim.  It runs in the
\* try for a refused intent, in the catch for a failed one.
ReleaseClaim(r) ==
    /\ reqs[r].pc \in {"refused", "failed"}
    /\ \/ /\ Goto(r, IF At(r, "refused") THEN "released" ELSE "conflict")
          /\ ledger' = ledger \ {Current(r)} /\ UNCHANGED faults
       \/ /\ Goto(r, IF At(r, "refused") THEN "kept" ELSE "conflict")
          /\ UNCHANGED ledger /\ Fault
    /\ UNCHANGED <<device, online, replays, conflicts, booked, member, changes,
                   clock, history>>

\* The conflict row of a refused intent fails inside the try: on to the catch.
RefusalThrows(r) ==
    /\ reqs[r].pc \in {"released", "kept"} /\ Fault
    /\ Goto(r, IF At(r, "released") THEN "again" ELSE "failed")
    /\ UNCHANGED <<device, ledger, online, replays, conflicts, booked, member,
                   changes, clock, history>>

\* The catch deletes the claim by its intentId a second time: by now it may be
\* the claim of another request.
ReleaseAgain(r) ==
    /\ At(r, "again") /\ Goto(r, "conflict")
    /\ \/ /\ ledger' = ledger \ {Current(r)}
          /\ disowned' = disowned \cup (ledger \cap {Current(r)})
          /\ UNCHANGED faults
       \/ UNCHANGED <<ledger, disowned>> /\ Fault
    /\ UNCHANGED <<device, online, replays, conflicts, booked, member, changes,
                   clock, allowed, tenure, interrupted, unlogged, regranted,
                   restamped>>

RecordConflict(r, rows) ==
    /\ reqs[r].pc \in {"released", "kept", "conflict"}
    /\ Answer(r, "error")
    /\ conflicts' = conflicts \cup rows
    /\ UNCHANGED <<device, ledger, online, replays, booked, member, changes, clock,
                   faults, history>>

\* Mutants of QueueConflict: no row; the loop falls through to a second answer.
ConflictOnlyLogged(r) == RecordConflict(r, {})
ConflictAnsweredTwice(r) ==
    /\ reqs[r].pc \in {"released", "kept", "conflict"}
    /\ conflicts' = conflicts \cup {Current(r)}
    /\ reqs' = [reqs EXCEPT ![r].res = @ \o <<"error", "error">>,
                            ![r].pc = "answered"]
    /\ UNCHANGED <<device, ledger, online, replays, booked, member, changes, clock,
                   faults, history>>

QueueConflict(r) == RecordConflict(r, {Current(r)})

\* The conflict row of the catch fails, or the claim for another reason than the
\* key: the whole batch is answered with a 500.
BatchThrows(r) ==
    /\ reqs[r].pc \in {"claim", "conflict"} /\ Fault
    /\ reqs' = [reqs EXCEPT ![r] = Free]
    /\ interrupted' = interrupted \cup {Current(q) : q \in {r} \cap AtWork}
    /\ UNCHANGED <<device, ledger, online, replays, conflicts, booked,
                   member, changes, clock, allowed, tenure, unlogged, disowned,
                   regranted, restamped>>

\* The server stops: what its requests had claimed stays claimed.
Crash ==
    /\ Fault
    /\ interrupted' = interrupted \cup {Current(r) : r \in AtWork}
    /\ reqs' = [r \in Requests |-> Free]
    /\ UNCHANGED <<device, ledger, online, replays, conflicts, booked,
                   member, changes, clock, allowed, tenure, unlogged, disowned,
                   regranted, restamped>>

-----------------------------------------------------------------------------
(* sync-runner flushQueue.                                                 *)

\* listPending sorts by the device's clock, which may have been set back since:
\* the batch is in any order.
FlushQueue(f) ==
    /\ flush[f] = None /\ pending # {}
    /\ \E r \in Requests, batch \in SetToSeqs(pending) :
         /\ At(r, "free") /\ \A g \in Flushers : flush[g] # r
         /\ flush' = [flush EXCEPT ![f] = r]
         /\ reqs' = [reqs EXCEPT ![r] = [pc |-> "claim", batch |-> batch,
                                         res |-> <<>>]]
    /\ UNCHANGED <<phase, at, pending, ledger, online, replays,
                   conflicts, booked, member, changes, clock, faults, history>>

\* The answered intents that took effect, as the runner sees it.
Done(r) == {reqs[r].batch[i] : i \in {j \in DOMAIN reqs[r].res :
                                reqs[r].res[j] \in {"applied", "duplicate"}}}

FlushAnswered(f) ==
    /\ flush[f] # None
    /\ LET r == flush[f] IN
       /\ At(r, "answered")
       /\ pending' = pending \ Done(r)
       /\ phase' = [o \in Ops |-> IF o \in Done(r) THEN "removed" ELSE phase[o]]
       /\ reqs' = [reqs EXCEPT ![r] = Free]
    /\ flush' = [flush EXCEPT ![f] = None]
    /\ UNCHANGED <<at, ledger, online, replays, conflicts, booked,
                   member, changes, clock, faults, history>>

\* Mutant of FlushFails: the syncing flag is not reset after an error.
FlushHangs(f) ==
    /\ flush[f] # None /\ ~At(flush[f], "free") /\ Fault
    /\ UNCHANGED <<device, server, member, changes, clock, history>>

\* No answer: nothing is removed.  The server may be gone or still at work.
FlushFails(f) ==
    /\ flush[f] # None
    /\ IF At(flush[f], "free") THEN UNCHANGED faults ELSE Fault
    /\ flush' = [flush EXCEPT ![f] = None]
    /\ UNCHANGED <<phase, at, pending, server, member, changes, clock, history>>

\* The answer of a request nobody waits for any more.
Unheard(r) ==
    /\ At(r, "answered") /\ \A f \in Flushers : flush[f] # r
    /\ reqs' = [reqs EXCEPT ![r] = Free]
    /\ UNCHANGED <<device, ledger, online, replays, conflicts, booked,
                   member, changes, clock, faults, history>>

-----------------------------------------------------------------------------
(* The other people.                                                       *)

\* A guest books the departure whose date the member wants to move.
GuestBooks ==
    /\ ~booked /\ booked' = TRUE
    /\ UNCHANGED <<device, reqs, ledger, online, replays, conflicts, member, changes,
                   clock, faults, history>>

Tenure(m, day) ==
    IF m.status = "active" /\ m.edit THEN tenure \cup {day} ELSE tenure

\* The row with its status written: an exit is stamped with today, whatever the
\* row said; a return clears the stamp and leaves the start date.
Stamped(m, status) ==
    [m EXCEPT !.status = status, !.end = IF status = "active" THEN NoEnd ELSE clock]

MemberChange(m) ==
    /\ EventsLeft /\ changes < MaxChanges /\ changes' = changes + 1
    /\ member' = m /\ tenure' = Tenure(m, clock)
    /\ UNCHANGED <<device, server, clock, faults, allowed, interrupted, unlogged,
                   disowned>>

\* A change of the row that stands.
EditRow(m) ==
    /\ member.status # "none" /\ MemberChange(m)
    /\ regranted' = \/ regranted
                    \/ member.status = "exited" /\ m.status = "active"
                    \/ m.edit /\ ~member.edit
                    \/ m.start < member.start
    /\ restamped' = \/ restamped
                    \/ /\ member.status = "exited" /\ m.status = "exited"
                       /\ member.end < m.end

ExitMember == EditRow(Stamped(member, "exited"))

ChangeRole == EditRow([member EXCEPT !.edit = ~@])

\* updateMember writes what the caller sent of role, start date and status; the
\* team page's dialog sends the status and the start date with every save.
UpdateMember ==
    \E edit \in BOOLEAN, start \in Times, status \in {"active", "exited"} :
        LET m == [member EXCEPT !.edit = edit, !.start = start] IN
        EditRow(m) \/ EditRow(Stamped(m, status))

DeleteMember ==
    /\ member.status # "none"
    /\ MemberChange([member EXCEPT !.status = "none", !.end = 0])
    /\ UNCHANGED <<regranted, restamped>>

\* addMember: a new row, or the exited one with a new start date.
AddMember ==
    /\ member.status # "active"
    /\ MemberChange([status |-> "active", edit |-> TRUE, start |-> clock,
                     end |-> NoEnd])
    /\ UNCHANGED <<regranted, restamped>>

Midnight ==
    /\ clock < MaxDay /\ clock' = clock + 1
    /\ tenure' = Tenure(member, clock + 1)
    /\ UNCHANGED <<device, server, member, changes, faults, allowed, interrupted,
                   unlogged, disowned, regranted, restamped>>

-----------------------------------------------------------------------------
Pages(o) ==
    \/ Submit(o) \/ CallLost(o) \/ CallAnswered(o) \/ CallRefused(o)
    \/ CallServed(o)

Replay(r) ==
    \/ Claim(r) \/ Authorize(r) \/ Apply(r) \/ ApplyThrows(r)
    \/ Log(r) \/ ReleaseClaim(r) \/ RefusalThrows(r) \/ ReleaseAgain(r)
    \/ QueueConflict(r) \/ BatchThrows(r) \/ Unheard(r)

Flush(f) == FlushQueue(f) \/ FlushAnswered(f) \/ FlushFails(f)

Team == ExitMember \/ DeleteMember \/ AddMember \/ UpdateMember \/ ChangeRole

Next ==
    \/ \E o \in Ops : Pages(o)
    \/ \E r \in Requests : Replay(r)
    \/ \E f \in Flushers : Flush(f)
    \/ GuestBooks \/ Team \/ Midnight \/ Crash

Spec == Init /\ [][Next]_vars

\* A request the server has taken up goes on; an answer reaches its flusher; the
\* console is opened, or comes back online, again and again.
FairSpec ==
    /\ Spec
    /\ \A r \in Requests : WF_vars(Replay(r))
    /\ \A f \in Flushers : WF_vars(FlushAnswered(f)) /\ WF_vars(FlushFails(f))
    /\ WF_vars(\E f \in Flushers : FlushQueue(f))

-----------------------------------------------------------------------------
Handled(o) == \E r \in AtWork : Current(r) = o

(***************************************************************************)
(* An intent leaves the device only if it was applied, if a person finds   *)
(* it in the conflict queue, or if a replay is still at work on it; but    *)
(* for a replay that stopped half-way: the claim it left behind answers    *)
(* "duplicate" for an action that never ran (replay, flushQueue).          *)
(***************************************************************************)
NeverSilentlyDropped ==
    \A o \in Ops : phase[o] = "removed" =>
        replays[o] > 0 \/ o \in conflicts \/ Handled(o) \/ o \in interrupted

(***************************************************************************)
(* However many flushers and lost answers there are, no intent is replayed *)
(* twice, but for the two claims that are released although they stand for *)
(* an action that took effect or is about to: the audit row failed after   *)
(* the commit, or the conflict row of a refusal did and the catch deleted  *)
(* the claim another request had taken meanwhile (replay, releaseClaim).   *)
(***************************************************************************)
NoDoubleReplay ==
    \A o \in Ops : replays[o] > 1 => o \in unlogged \cup disowned

\* "never silently drop", without the exception.
NothingDropped ==
    \A o \in Ops : phase[o] = "removed" =>
        replays[o] > 0 \/ o \in conflicts \/ Handled(o)

(***************************************************************************)
(* The comment in replay: "a money action can never apply twice".          *)
(***************************************************************************)
AppliedOnce == \A o \in Ops : replays[o] <= 1

(***************************************************************************)
(* What a member queued on a day on which they were not on the boat, or    *)
(* had a role without the right, is never applied, however long the intent *)
(* waits; but where an edit of the row made its dates or its role cover    *)
(* that day after all: the right given back, or the start date moved back, *)
(* on the same row, or the end date moved forward by a second exit         *)
(* (wasAuthorized, exitMember, updateMember, changeRole).                  *)
(***************************************************************************)
FiredNeverApplies ==
    \A o \in Ops : replays[o] > 0 => at[o] \in tenure \/ regranted \/ restamped

(***************************************************************************)
(* The class comment of SyncService: "a fired manager's queued actions     *)
(* must not apply", where nobody gave them the right again.                *)
(***************************************************************************)
ExitedNeverApplies ==
    \A o \in Ops : replays[o] > 0 => at[o] \in tenure \/ regranted

\* "a fired manager's queued actions must not apply", to the hour.
FiredIsRefused ==
    \A o \in Ops : replays[o] > 0 => o \in allowed \/ regranted \/ restamped

(***************************************************************************)
(* Every queued intent is applied, recorded as a conflict or left to a     *)
(* replay that was interrupted (flushQueue, replay): none stays in the     *)
(* queue untried, and no failed attempt blocks the next one.               *)
(***************************************************************************)
QueueDrains ==
    \A o \in Ops : phase[o] = "queued" ~>
        replays[o] > 0 \/ o \in conflicts \/ o \in interrupted

=============================================================================
