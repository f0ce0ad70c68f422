-------------------------- MODULE SyncReplayProofs --------------------------
(***************************************************************************)
(* SyncReplay for every number of actions, flushers, concurrent replays,   *)
(* faults, days and membership changes.                                    *)
(***************************************************************************)
EXTENDS SyncReplay, FiniteSetTheorems, TLAPS

-----------------------------------------------------------------------------
(***************************************************************************)
(* Types.                                                                  *)
(***************************************************************************)

\* The part of TypeOK about the requests inside the server.
RequestRecord == [pc : Steps, batch : Seq(Ops), res : Seq(Statuses)]
ReqsOK ==
    /\ reqs \in [Requests -> RequestRecord]
    /\ \A r \in Requests :
         /\ Len(reqs[r].res) <= Len(reqs[r].batch)
         /\ reqs[r].pc \notin {"free", "answered"} =>
                Len(reqs[r].res) < Len(reqs[r].batch)

\* A step that replaces one request by another of the right shape.
LEMMA OneRequest ==
    ASSUME TypeOK, NEW r \in Requests, NEW x \in RequestRecord,
           reqs' = [reqs EXCEPT ![r] = x], Len(x.res) <= Len(x.batch),
           x.pc \notin {"free", "answered"} => Len(x.res) < Len(x.batch)
    PROVE  /\ ReqsOK' /\ reqs'[r] = x
           /\ \A q \in Requests \ {r} : reqs'[q] = reqs[q]
BY DEF TypeOK, ReqsOK, RequestRecord

\* A request at work has an intent to work on.
LEMMA CurrentType ==
    ASSUME TypeOK, NEW r \in Requests, reqs[r].pc \notin {"free", "answered"}
    PROVE  /\ Len(reqs[r].res) + 1 \in DOMAIN reqs[r].batch
           /\ Current(r) \in Ops
<1>1. /\ reqs[r].batch \in Seq(Ops) /\ reqs[r].res \in Seq(Statuses)
      /\ Len(reqs[r].res) < Len(reqs[r].batch)
  BY DEF TypeOK
<1> QED
  BY <1>1 DEF Current

\* The answer to one intent leaves a well-typed request.
LEMMA AnswerType ==
    ASSUME TypeOK, NEW r \in Requests, reqs[r].pc \notin {"free", "answered"},
           NEW status \in Statuses, Answer(r, status)
    PROVE  /\ ReqsOK'
           /\ reqs'[r].pc \in {"claim", "answered"}
           /\ reqs'[r].batch = reqs[r].batch
           /\ reqs'[r].res = Append(reqs[r].res, status)
           /\ \A q \in Requests \ {r} : reqs'[q] = reqs[q]
<1> DEFINE res == Append(reqs[r].res, status)
           pc == IF Len(res) = Len(reqs[r].batch) THEN "answered" ELSE "claim"
           x == [reqs[r] EXCEPT !.res = res, !.pc = pc]
<1>1. /\ reqs[r] \in RequestRecord
      /\ reqs[r].batch \in Seq(Ops) /\ reqs[r].res \in Seq(Statuses)
      /\ Len(reqs[r].res) < Len(reqs[r].batch)
  BY DEF TypeOK, RequestRecord
<1>2. /\ res \in Seq(Statuses) /\ Len(res) = Len(reqs[r].res) + 1
      /\ Len(res) \in Nat /\ Len(reqs[r].batch) \in Nat
      /\ Len(reqs[r].res) \in Nat
  BY <1>1
<1>3. /\ pc \in {"claim", "answered"} /\ pc \in Steps
      /\ pc = "claim" => Len(res) < Len(reqs[r].batch)
      /\ Len(res) <= Len(reqs[r].batch)
  BY <1>1, <1>2 DEF Steps
<1>4. reqs' = [reqs EXCEPT ![r] = x]
  BY DEF Answer
<1> HIDE DEF res, pc
<1>5. x \in RequestRecord /\ x.pc = pc /\ x.res = res /\ x.batch = reqs[r].batch
  BY <1>1, <1>2, <1>3 DEF RequestRecord
<1> HIDE DEF x
<1>6. ReqsOK' /\ reqs'[r] = x /\ \A q \in Requests \ {r} : reqs'[q] = reqs[q]
  BY <1>3, <1>4, <1>5, OneRequest
<1> QED
  BY <1>3, <1>5, <1>6 DEF res

\* Going on with the same intent does, too.
LEMMA GotoType ==
    ASSUME TypeOK, NEW r \in Requests, reqs[r].pc \notin {"free", "answered"},
           NEW pc \in Steps, Goto(r, pc)
    PROVE  /\ ReqsOK' /\ reqs'[r].pc = pc /\ reqs'[r].batch = reqs[r].batch
           /\ reqs'[r].res = reqs[r].res
           /\ \A q \in Requests \ {r} : reqs'[q] = reqs[q]
<1> DEFINE x == [reqs[r] EXCEPT !.pc = pc]
<1>1. reqs[r] \in RequestRecord /\ Len(reqs[r].res) < Len(reqs[r].batch)
  BY DEF TypeOK, RequestRecord
<1>2. reqs' = [reqs EXCEPT ![r] = x]
  BY DEF Goto
<1>3. x \in RequestRecord /\ x.pc = pc /\ x.res = reqs[r].res
      /\ x.batch = reqs[r].batch
  BY <1>1 DEF RequestRecord
<1>4. Len(x.res) <= Len(x.batch)
  BY <1>1, <1>3 DEF RequestRecord
<1> HIDE DEF x
<1> QED
  BY <1>1, <1>2, <1>3, <1>4, OneRequest

\* A request that is over is well typed.
LEMMA FreeType ==
    ASSUME TypeOK, NEW r \in Requests, reqs' = [reqs EXCEPT ![r] = Free]
    PROVE  /\ ReqsOK' /\ reqs'[r] = Free
           /\ \A q \in Requests \ {r} : reqs'[q] = reqs[q]
<1>1. Free \in RequestRecord /\ Len(Free.res) <= Len(Free.batch)
      /\ Free.pc = "free"
  BY DEF Free, Steps, RequestRecord
<1> QED
  BY <1>1, OneRequest

\* A new day, an empty device.
LEMMA TypeInit == Init => TypeOK
<1> SUFFICES ASSUME Init PROVE TypeOK
  OBVIOUS
<1>1. Free \in RequestRecord /\ Len(Free.res) <= Len(Free.batch)
      /\ Free.pc = "free"
  BY DEF Free, Steps, RequestRecord
<1>2. ReqsOK
  BY <1>1 DEF Init, ReqsOK
<1>3. member \in Rows
  <2>1. 0 \in Times
    BY SyncAssumption DEF Times
  <2>2. CASE member = [status |-> "active", edit |-> TRUE, start |-> 0,
                       end |-> NoEnd]
    BY <2>1, <2>2 DEF NoEnd, Rows
  <2>3. CASE member = [status |-> "exited", edit |-> TRUE, start |-> 0, end |-> 0]
    BY <2>1, <2>3 DEF Rows
  <2> QED
    BY <2>2, <2>3 DEF Init
<1>4. tenure \subseteq Times /\ clock \in Times /\ faults \in 0..MaxEvents
      /\ changes \in 0..MaxEvents
  BY SyncAssumption DEF Init, Times
<1>5. 0 \in Times
  BY SyncAssumption DEF Times
<1> QED
  BY <1>2, <1>3, <1>4, <1>5 DEF Init, TypeOK, ReqsOK, RequestRecord, Phases

\* A fault or a change of the membership takes one event of those left.
LEMMA EventIsCounted ==
    ASSUME TypeOK, EventsLeft
    PROVE  faults + 1 \in 0..MaxEvents /\ changes + 1 \in 0..MaxEvents
BY SyncAssumption DEF EventsLeft, TypeOK

\* What a replay does keeps every type, and touches one request.
LEMMA TypeReplay ==
    ASSUME TypeOK, NEW r \in Requests, Replay(r)
    PROVE  /\ TypeOK'
           /\ \A q \in Requests \ {r} : reqs'[q] = reqs[q]
<1> USE DEF device, server, history, Fault, At
<1> DEFINE Good == ReqsOK' /\ \A q \in Requests \ {r} : reqs'[q] = reqs[q]
           Kept == UNCHANGED <<device, booked, member, changes, clock>>
\* The common end of the cases below.
<1>1. ASSUME Good, Kept, online' = online, allowed' = allowed, tenure' = tenure,
             regranted' = regranted, restamped' = restamped, faults' \in {faults} \cup 0..MaxEvents,
             replays' \in [Ops -> Nat], ledger' \subseteq Ops,
             conflicts' \subseteq Ops, interrupted' \subseteq Ops,
             unlogged' \subseteq Ops, disowned' \subseteq Ops
      PROVE  TypeOK'
  BY <1>1 DEF TypeOK, ReqsOK, RequestRecord
<1>2. CASE Claim(r)
  <2>1. Current(r) \in Ops
    BY <1>2, CurrentType DEF Claim
  <2>2. Good
    BY <1>2, AnswerType, GotoType DEF Claim, Statuses, Steps
  <2> QED
    BY <1>1, <1>2, <2>1, <2>2 DEF Claim, TypeOK, Answer, Goto
<1>3. CASE Authorize(r)
  <2>1. Good
    BY <1>3, GotoType DEF Authorize, Steps
  <2>2. faults' \in {faults} \cup 0..MaxEvents
    BY <1>3, SyncAssumption, EventIsCounted DEF Authorize, TypeOK
  <2> QED
    BY <1>1, <1>3, <2>1, <2>2 DEF Authorize, TypeOK
<1>4. CASE Apply(r)
  <2>1. Good
    BY <1>4, GotoType DEF Apply, Steps
  <2>2. replays' \in [Ops -> Nat]
    <3>1. Current(r) \in Ops
      BY <1>4, CurrentType DEF Apply
    <3>2. replays \in [Ops -> Nat]
      BY DEF TypeOK
    <3>3. replays' = [replays EXCEPT ![Current(r)] = @ + 1]
      BY <1>4 DEF Apply
    <3> QED
      BY <3>1, <3>2, <3>3
  <2> QED
    BY <1>1, <1>4, <2>1, <2>2 DEF Apply, TypeOK
<1>5. CASE ApplyThrows(r)
  <2>1. Good
    BY <1>5, GotoType DEF ApplyThrows, Steps
  <2>2. faults' \in {faults} \cup 0..MaxEvents
    BY <1>5, SyncAssumption, EventIsCounted DEF ApplyThrows, TypeOK
  <2> QED
    BY <1>1, <1>5, <2>1, <2>2 DEF ApplyThrows, TypeOK
<1>6. CASE Log(r)
  <2>1. Current(r) \in Ops
    BY <1>6, CurrentType DEF Log
  <2>2. Good
    BY <1>6, AnswerType, GotoType DEF Log, Statuses, Steps
  <2>3. faults' \in {faults} \cup 0..MaxEvents
    BY <1>6, SyncAssumption, EventIsCounted DEF Log, TypeOK
  <2>4. unlogged' \subseteq Ops
    BY <1>6, <2>1 DEF Log, TypeOK
  <2> QED
    BY <1>1, <1>6, <2>2, <2>3, <2>4 DEF Log, TypeOK
<1>7. CASE ReleaseClaim(r)
  <2>1. Good
    BY <1>7, GotoType DEF ReleaseClaim, Steps
  <2>2. faults' \in {faults} \cup 0..MaxEvents /\ ledger' \subseteq Ops
    BY <1>7, SyncAssumption, EventIsCounted DEF ReleaseClaim, TypeOK
  <2> QED
    BY <1>1, <1>7, <2>1, <2>2 DEF ReleaseClaim, TypeOK
<1>12. CASE RefusalThrows(r)
  <2>1. Good
    BY <1>12, GotoType DEF RefusalThrows, Steps
  <2>2. faults' \in {faults} \cup 0..MaxEvents
    BY <1>12, SyncAssumption, EventIsCounted DEF RefusalThrows, TypeOK
  <2> QED
    BY <1>1, <1>12, <2>1, <2>2 DEF RefusalThrows, TypeOK
<1>13. CASE ReleaseAgain(r)
  <2>1. Good
    BY <1>13, GotoType DEF ReleaseAgain, Steps
  <2>2. /\ faults' \in {faults} \cup 0..MaxEvents
        /\ ledger' \subseteq Ops /\ disowned' \subseteq Ops
    BY <1>13, SyncAssumption, EventIsCounted DEF ReleaseAgain, TypeOK
  <2> QED
    BY <1>1, <1>13, <2>1, <2>2 DEF ReleaseAgain, TypeOK
<1>8. CASE QueueConflict(r)
  <2>1. Current(r) \in Ops
    BY <1>8, CurrentType DEF QueueConflict, RecordConflict
  <2>2. Good
    BY <1>8, AnswerType DEF QueueConflict, RecordConflict, Statuses
  <2>3. conflicts' \subseteq Ops
    BY <1>8, <2>1 DEF QueueConflict, RecordConflict, TypeOK
  <2> QED
    BY <1>1, <1>8, <2>2, <2>3 DEF QueueConflict, RecordConflict, TypeOK
<1>9. CASE BatchThrows(r)
  <2>1. Current(r) \in Ops
    BY <1>9, CurrentType DEF BatchThrows
  <2>2. Good
    BY <1>9, FreeType DEF BatchThrows
  <2>3. faults' \in {faults} \cup 0..MaxEvents /\ interrupted' \subseteq Ops
    BY <1>9, <2>1, SyncAssumption, EventIsCounted DEF BatchThrows, TypeOK, AtWork
  <2> QED
    BY <1>1, <1>9, <2>2, <2>3 DEF BatchThrows, TypeOK
<1>10. CASE Unheard(r)
  <2>1. Good
    BY <1>10, FreeType DEF Unheard
  <2> QED
    BY <1>1, <1>10, <2>1 DEF Unheard, TypeOK
<1>11. Good
  <2>1. CASE Claim(r) \/ Authorize(r) \/ Apply(r) \/ ApplyThrows(r) \/ Log(r)
    BY <2>1, AnswerType, GotoType
    DEF Claim, Authorize, Apply, ApplyThrows, Log, Statuses, Steps
  <2>2. CASE ReleaseClaim(r) \/ RefusalThrows(r) \/ ReleaseAgain(r)
    BY <2>2, GotoType DEF ReleaseClaim, RefusalThrows, ReleaseAgain, Steps
  <2>3. CASE QueueConflict(r) \/ BatchThrows(r) \/ Unheard(r)
    BY <2>3, AnswerType, FreeType
    DEF QueueConflict, RecordConflict, BatchThrows, Unheard, Statuses
  <2> QED
    BY <2>1, <2>2, <2>3 DEF Replay
<1> QED
  BY <1>2, <1>3, <1>4, <1>5, <1>6, <1>7, <1>8, <1>9, <1>10, <1>11, <1>12, <1>13
  DEF Replay

\* The pages and the flushers.
LEMMA TypeDevice ==
    ASSUME TypeOK,
           \/ \E o \in Ops : Pages(o)
           \/ \E f \in Flushers : Flush(f)
    PROVE  TypeOK'
<1> USE DEF device, server, history, Fault, At
<1>1. ASSUME NEW o \in Ops, Submit(o)
      PROVE  TypeOK'
  <2>0. clock \in Times
    BY DEF TypeOK
  <2>1. phase' \in [Ops -> Phases] /\ at' \in [Ops -> Times] /\ pending' \subseteq Ops
    <3>1. /\ phase \in [Ops -> Phases] /\ at \in [Ops -> Times] /\ pending \subseteq Ops
          /\ {"calling", "queued"} \subseteq Phases
      BY DEF TypeOK, Phases
    <3>2. CASE Enqueue(o)
      BY <2>0, <3>1, <3>2 DEF Enqueue
    <3>3. CASE phase' = [phase EXCEPT ![o] = "calling"] /\ UNCHANGED <<pending, at>>
      BY <3>1, <3>3
    <3> QED
      BY <1>1, <3>2, <3>3 DEF Submit
  <2>2. allowed' \subseteq Ops
    BY <1>1 DEF Submit, Enqueue, TypeOK
  <2> QED
    BY <1>1, <2>1, <2>2 DEF Submit, TypeOK
<1>2. ASSUME NEW o \in Ops, CallLost(o) \/ CallAnswered(o) \/ CallRefused(o)
      PROVE  TypeOK'
  <2>0. /\ clock \in Times /\ at \in [Ops -> Times] /\ allowed \subseteq Ops
        /\ phase \in [Ops -> Phases] /\ pending \subseteq Ops
    BY DEF TypeOK
  <2>1. /\ phase' \in [Ops -> Phases] /\ pending' \subseteq Ops
        /\ at' \in [Ops -> Times] /\ allowed' \subseteq Ops
    <3>1. CASE CallLost(o)
      BY <2>0, <3>1 DEF CallLost, Enqueue, Phases
    <3>2. CASE CallAnswered(o) \/ CallRefused(o)
      BY <2>0, <3>2 DEF CallAnswered, CallRefused, Phases
    <3> QED
      BY <1>2, <3>1, <3>2
  <2>2. faults' \in 0..MaxEvents
    BY <1>2, SyncAssumption, EventIsCounted DEF CallLost, CallAnswered, CallRefused, TypeOK
  <2> QED
    BY <1>2, <2>1, <2>2 DEF CallLost, CallAnswered, CallRefused, TypeOK
<1>3. ASSUME NEW o \in Ops, CallServed(o)
      PROVE  TypeOK'
  BY <1>3 DEF CallServed, TypeOK, Phases
<1>4. ASSUME NEW f \in Flushers, FlushQueue(f)
      PROVE  TypeOK'
  <2>1. PICK r \in Requests, batch \in SetToSeqs(pending) :
          /\ flush' = [flush EXCEPT ![f] = r]
          /\ reqs' = [reqs EXCEPT ![r] = [pc |-> "claim", batch |-> batch,
                                          res |-> <<>>]]
    BY <1>4 DEF FlushQueue
  <2>2. /\ pending \subseteq Ops /\ pending # {}
        /\ IsFiniteSet(pending)
    BY <1>4, SyncAssumption, FS_Subset DEF FlushQueue, TypeOK
  <2>3. Cardinality(pending) \in Nat /\ Cardinality(pending) # 0
    BY <2>2, FS_CardinalityType, FS_EmptySet
  <2>4. batch \in [1..Cardinality(pending) -> pending]
    BY <2>1 DEF SetToSeqs
  <2>5. batch \in Seq(Ops) /\ Len(batch) = Cardinality(pending)
    BY <2>2, <2>3, <2>4
  <2> DEFINE x == [pc |-> "claim", batch |-> batch, res |-> <<>>]
  <2>6. x \in RequestRecord /\ Len(x.res) < Len(x.batch) /\ Len(x.res) <= Len(x.batch)
    BY <2>3, <2>5 DEF RequestRecord, Steps
  <2>7. ReqsOK'
    <3>1. reqs' = [reqs EXCEPT ![r] = x]
      BY <2>1
    <3> HIDE DEF x
    <3> QED
      BY <2>6, <3>1, OneRequest
  <2> QED
    BY <1>4, <2>1, <2>7 DEF FlushQueue, TypeOK, ReqsOK, RequestRecord
<1>5. ASSUME NEW f \in Flushers, FlushAnswered(f)
      PROVE  TypeOK'
  <2>1. flush[f] \in Requests
    BY <1>5 DEF FlushAnswered, TypeOK
  <2>2. ReqsOK'
    BY <1>5, <2>1, FreeType DEF FlushAnswered
  <2> QED
    BY <1>5, <2>2 DEF FlushAnswered, TypeOK, ReqsOK, RequestRecord, Phases
<1>6. ASSUME NEW f \in Flushers, FlushFails(f)
      PROVE  TypeOK'
  BY <1>6, SyncAssumption, EventIsCounted DEF FlushFails, TypeOK
<1> QED
  BY <1>1, <1>2, <1>3, <1>4, <1>5, <1>6 DEF Pages, Flush

\* An exit, a new role and a save of the dialog each edit the row: a new status
\* comes with its stamp, an old one keeps the end date.
LEMMA TeamEdits ==
    ASSUME TypeOK, ExitMember \/ UpdateMember \/ ChangeRole
    PROVE  \E m \in Rows :
             /\ EditRow(m)
             /\ \/ m.end = member.end /\ m.status = member.status
                \/ m.end = NoEnd /\ m.status = "active"
                \/ m.end = clock /\ m.status = "exited"
<1>1. /\ member \in Rows /\ clock \in Times
      /\ member.end \in Times \cup {NoEnd} /\ member.edit \in BOOLEAN
  BY DEF TypeOK, Rows
<1>2. ASSUME NEW m \in Rows, NEW status \in {"active", "exited"}
      PROVE  /\ Stamped(m, status) \in Rows
             /\ Stamped(m, status).status = status
             /\ Stamped(m, status).end = IF status = "active" THEN NoEnd ELSE clock
  BY <1>1 DEF Stamped, Rows
<1>3. CASE ExitMember
  BY <1>1, <1>2, <1>3 DEF ExitMember
<1>4. CASE ChangeRole
  <2>1. [member EXCEPT !.edit = ~@] \in Rows
    BY <1>1 DEF Rows
  <2>2. /\ [member EXCEPT !.edit = ~@].end = member.end
        /\ [member EXCEPT !.edit = ~@].status = member.status
    BY <1>1 DEF Rows
  <2> QED
    BY <1>4, <2>1, <2>2 DEF ChangeRole
<1>5. CASE UpdateMember
  <2>1. PICK edit \in BOOLEAN, start \in Times, status \in {"active", "exited"} :
          \/ EditRow([member EXCEPT !.edit = edit, !.start = start])
          \/ EditRow(Stamped([member EXCEPT !.edit = edit, !.start = start], status))
    BY <1>5 DEF UpdateMember
  <2> DEFINE m == [member EXCEPT !.edit = edit, !.start = start]
  <2>2. m \in Rows /\ m.end = member.end /\ m.status = member.status
    BY <1>1 DEF Rows
  <2> HIDE DEF m
  <2>3. EditRow(m) \/ EditRow(Stamped(m, status))
    BY <2>1 DEF m
  <2> QED
    BY <1>2, <2>2, <2>3
<1> QED
  BY <1>3, <1>4, <1>5

\* The guest, the team, the calendar and a restart.
LEMMA TypeOthers ==
    ASSUME TypeOK, GuestBooks \/ Team \/ Midnight \/ Crash \/ UNCHANGED vars
    PROVE  TypeOK'
<1> USE DEF device, server, history, Fault
<1>1. CASE GuestBooks \/ UNCHANGED vars
  BY <1>1 DEF GuestBooks, vars, TypeOK
<1>2. CASE Midnight
  BY <1>2, SyncAssumption, EventIsCounted DEF Midnight, Tenure, TypeOK, Times
<1>3. CASE Crash
  <2>1. /\ Free \in RequestRecord /\ Len(Free.res) <= Len(Free.batch)
        /\ Free.pc = "free"
    BY DEF Free, Steps, RequestRecord
  <2>2. ReqsOK'
    BY <1>3, <2>1 DEF Crash, ReqsOK
  <2>3. interrupted' \subseteq Ops
    BY <1>3, CurrentType DEF Crash, TypeOK, AtWork
  <2> QED
    BY <1>3, <2>2, <2>3, SyncAssumption, EventIsCounted DEF Crash, TypeOK, ReqsOK, RequestRecord
<1>4. ASSUME NEW m \in Rows, MemberChange(m), regranted' \in BOOLEAN,
             restamped' \in BOOLEAN
      PROVE  TypeOK'
  BY <1>4, SyncAssumption, EventIsCounted DEF MemberChange, Tenure, TypeOK
<1>5. CASE ExitMember \/ UpdateMember \/ ChangeRole
  <2>1. PICK m \in Rows : EditRow(m)
    BY <1>5, TeamEdits
  <2>2. regranted' \in BOOLEAN /\ restamped' \in BOOLEAN
    BY <2>1 DEF EditRow
  <2> QED
    BY <1>4, <2>1, <2>2 DEF EditRow
<1>6. CASE DeleteMember
  <2>1. 0 \in Times
    BY SyncAssumption DEF Times
  <2> QED
    BY <1>4, <1>6, <2>1 DEF DeleteMember, TypeOK, Rows
<1>7. CASE AddMember
  BY <1>4, <1>7 DEF AddMember, TypeOK, Rows
<1> QED
  BY <1>1, <1>2, <1>3, <1>5, <1>6, <1>7 DEF Team

\* One step of the system keeps every type.
LEMMA TypeNext == TypeOK /\ [Next]_vars => TypeOK'
  BY TypeReplay, TypeDevice, TypeOthers DEF Next

\* The device, the server's requests and its tables keep their types.
THEOREM TypeCorrect == Spec => []TypeOK
  BY TypeInit, TypeNext, PTL DEF Spec

\* A change of the membership leaves the device and the server alone.
LEMMA TeamElsewhere ==
    ASSUME Team
    PROVE  UNCHANGED <<phase, at, pending, flush, reqs, ledger, replays, conflicts,
                       clock, interrupted, unlogged, disowned>>
<1>1. PICK m : MemberChange(m)
  BY DEF Team, ExitMember, DeleteMember, AddMember, UpdateMember, ChangeRole,
     EditRow
<1> QED
  BY <1>1 DEF MemberChange, device, server

\* The steps of a flusher and of everybody else, but for a restart.
Outside ==
    \/ \E o \in Ops : Pages(o)
    \/ \E f \in Flushers : Flush(f)
    \/ GuestBooks \/ Team \/ Midnight \/ UNCHANGED vars

\* They touch only requests that are free or answered.
LEMMA OutsideReqs ==
    ASSUME TypeOK, Outside
    PROVE  /\ UNCHANGED <<ledger, replays, conflicts, interrupted, unlogged, disowned>>
           /\ \A r \in Requests :
                \/ reqs'[r] = reqs[r]
                \/ /\ reqs[r].pc \in {"free", "answered"}
                   /\ reqs'[r].pc \in {"free", "claim"} /\ reqs'[r].res = <<>>
<1> USE DEF device, server, history
<1>1. ASSUME NEW f \in Flushers, FlushQueue(f)
      PROVE  \A r \in Requests :
               \/ reqs'[r] = reqs[r]
               \/ /\ reqs[r].pc \in {"free", "answered"}
                  /\ reqs'[r].pc \in {"free", "claim"} /\ reqs'[r].res = <<>>
  <2>1. PICK r \in Requests, batch \in SetToSeqs(pending) :
          /\ At(r, "free")
          /\ reqs' = [reqs EXCEPT ![r] = [pc |-> "claim", batch |-> batch,
                                          res |-> <<>>]]
    BY <1>1 DEF FlushQueue
  <2> QED
    BY <2>1 DEF TypeOK, At
<1>2. ASSUME NEW f \in Flushers, FlushAnswered(f)
      PROVE  \A r \in Requests :
               \/ reqs'[r] = reqs[r]
               \/ /\ reqs[r].pc \in {"free", "answered"}
                  /\ reqs'[r].pc \in {"free", "claim"} /\ reqs'[r].res = <<>>
  <2>1. reqs' = [reqs EXCEPT ![flush[f]] = Free] /\ reqs[flush[f]].pc = "answered"
    BY <1>2 DEF FlushAnswered, At
  <2> QED
    BY <2>1 DEF TypeOK, Free
<1>3. ASSUME \/ \E o \in Ops : Pages(o)
             \/ \E f \in Flushers : FlushFails(f)
             \/ GuestBooks \/ Team \/ Midnight \/ UNCHANGED vars
      PROVE  UNCHANGED <<reqs, ledger, replays, conflicts, interrupted, unlogged,
                         disowned>>
  <2>1. CASE \E o \in Ops : Pages(o)
    BY <2>1 DEF Pages, Submit, CallLost, CallAnswered, CallRefused, CallServed,
       Enqueue
  <2>2. CASE Team
    BY <2>2, TeamElsewhere
  <2>3. CASE \/ \E f \in Flushers : FlushFails(f)
             \/ GuestBooks \/ Midnight \/ UNCHANGED vars
    BY <2>3 DEF FlushFails, GuestBooks, Midnight, vars
  <2> QED
    BY <1>3, <2>1, <2>2, <2>3
<1>4. ASSUME NEW f \in Flushers, FlushQueue(f) \/ FlushAnswered(f)
      PROVE  UNCHANGED <<ledger, replays, conflicts, interrupted, unlogged, disowned>>
  BY <1>4 DEF FlushQueue, FlushAnswered
<1> QED
  BY <1>1, <1>2, <1>3, <1>4 DEF Outside, Flush

-----------------------------------------------------------------------------
(***************************************************************************)
(* No intent is applied twice.                                             *)
(***************************************************************************)
Holding == {"authorize", "apply", "log", "refused", "kept", "failed"}

\* The intents whose claim was released although it was still needed.
Excepted == unlogged \cup disowned

\* A request that holds a claim has a ledger row nobody else claims; until it
\* applies the intent nobody has; and what was applied stays claimed: all but for
\* the intents whose claim was released although it was still needed.
ClaimInv ==
    /\ \A r \in Requests : reqs[r].pc \in Holding =>
         Current(r) \in ledger \cup Excepted
    /\ \A r, q \in Requests :
         reqs[r].pc \in Holding /\ reqs[q].pc \in Holding
         /\ Current(r) = Current(q) => r = q \/ Current(r) \in Excepted
    /\ \A r \in Requests : reqs[r].pc \in Holding \ {"log"} =>
         replays[Current(r)] = 0 \/ Current(r) \in Excepted
    /\ \A o \in Ops : replays[o] > 0 => o \in ledger \cup Excepted
    /\ \A o \in Ops : replays[o] > 1 => o \in Excepted

\* A step that drops claims in flight, or takes none, and applies nothing.
LEMMA ClaimKept ==
    ASSUME ClaimInv, UNCHANGED <<ledger, replays>>, Excepted \subseteq Excepted',
           \A r \in Requests : reqs'[r].pc \in Holding =>
               \/ /\ reqs[r].pc \in Holding /\ Current(r)' = Current(r)
                  /\ reqs[r].pc # "log" \/ Current(r) \in Excepted'
               \/ reqs'[r] = reqs[r]
    PROVE  ClaimInv'
<1>1. \A r \in Requests : reqs'[r].pc \in Holding =>
        /\ reqs[r].pc \in Holding /\ Current(r)' = Current(r)
        /\ \/ reqs[r].pc # "log"
           \/ Current(r) \in Excepted'
           \/ reqs'[r].pc = "log"
  BY DEF Current
<1>2. /\ ledger' = ledger /\ replays' = replays
      /\ \A o : o \in Excepted => o \in Excepted'
  OBVIOUS
<1> QED
  BY <1>1, <1>2 DEF ClaimInv

\* One case per step of a replay.
LEMMA ClaimReplay ==
    ASSUME TypeOK, ClaimInv, NEW r \in Requests, Replay(r)
    PROVE  ClaimInv'
<1> USE DEF At, device
<1> DEFINE o == Current(r)
<1>0. /\ \A q \in Requests \ {r} : reqs'[q] = reqs[q] /\ Current(q)' = Current(q)
      /\ replays \in [Ops -> Nat]
  BY TypeReplay DEF TypeOK, Current
<1>1. CASE Claim(r)
  <2>1. CASE o \in ledger
    <3>1. reqs'[r].pc \in {"claim", "answered"}
      BY <1>1, <2>1, AnswerType DEF Claim, Statuses
    <3> QED
      BY <1>0, <1>1, <2>1, <3>1, ClaimKept DEF Claim, Holding, history, Excepted
  <2>2. CASE o \notin ledger
    <3>1. reqs'[r].pc = "authorize" /\ Current(r)' = o /\ o \in Ops
      BY <1>1, <2>2, GotoType, CurrentType DEF Claim, Steps, Current
    <3>2. /\ ledger' = ledger \cup {o} /\ replays' = replays
          /\ Excepted' = Excepted
      BY <1>1, <2>2 DEF Claim, history, Excepted
    <3>3. replays[o] = 0 \/ o \in Excepted
      BY <1>0, <2>2, <3>1 DEF ClaimInv
    <3>4. \A q \in Requests \ {r} : reqs[q].pc \in Holding =>
            Current(q) # o \/ o \in Excepted
      BY <2>2 DEF ClaimInv
    <3>5. \A q \in Requests : reqs'[q].pc \in Holding =>
            q = r \/ (reqs[q].pc \in Holding /\ Current(q)' = Current(q)
                       /\ reqs'[q].pc = reqs[q].pc)
      BY <1>0, <3>1
    <3> HIDE DEF o
    <3>6. \A q \in Requests : reqs'[q].pc \in Holding =>
            Current(q)' \in ledger' \cup Excepted
      BY <3>1, <3>2, <3>5 DEF ClaimInv
    <3>7. \A q, u \in Requests :
            reqs'[q].pc \in Holding /\ reqs'[u].pc \in Holding
            /\ Current(q)' = Current(u)' => q = u \/ Current(q)' \in Excepted
      BY <3>1, <3>4, <3>5 DEF ClaimInv
    <3>8. \A q \in Requests : reqs'[q].pc \in Holding \ {"log"} =>
            replays[Current(q)'] = 0 \/ Current(q)' \in Excepted
      BY <3>1, <3>3, <3>5 DEF ClaimInv
    <3>9. /\ \A p \in Ops : replays[p] > 0 => p \in ledger' \cup Excepted
          /\ \A p \in Ops : replays[p] > 1 => p \in Excepted
      BY <3>2 DEF ClaimInv
    <3> QED
      BY <3>2, <3>6, <3>7, <3>8, <3>9 DEF ClaimInv
  <2> QED
    BY <2>1, <2>2
<1>2. CASE Authorize(r)
  <2>1. /\ reqs[r].pc = "authorize" /\ reqs'[r].pc \in {"apply", "refused", "failed"}
        /\ Current(r)' = o /\ UNCHANGED <<ledger, replays>> /\ Excepted' = Excepted
    BY <1>2, GotoType DEF Authorize, Steps, Current, history, Excepted
  <2> QED
    BY <1>0, <2>1, ClaimKept DEF Holding
<1>3. CASE Apply(r)
  <2>1. /\ reqs[r].pc = "apply" /\ reqs'[r].pc = "log"
        /\ Current(r)' = o /\ o \in Ops /\ ledger' = ledger
        /\ Excepted' = Excepted
    BY <1>3, GotoType, CurrentType DEF Apply, Steps, Current, history, Excepted
  <2>2. /\ replays'[o] = replays[o] + 1
        /\ \A p \in Ops \ {o} : replays'[p] = replays[p]
        /\ \A p \in Ops : replays[p] \in Nat
    BY <1>0, <1>3, <2>1 DEF Apply
  <2>3. /\ replays[o] = 0 \/ o \in Excepted
        /\ o \in ledger \cup Excepted
        /\ \A q \in Requests \ {r} : reqs[q].pc \in Holding =>
             Current(q) # o \/ o \in Excepted
    BY <2>1 DEF ClaimInv, Holding
  <2>4. \A q \in Requests \ {r} : reqs[q].pc \in Holding => Current(q) \in Ops
    BY CurrentType DEF Holding
  <2>5. \A q \in Requests : reqs'[q].pc \in Holding =>
          q = r \/ (reqs[q].pc \in Holding /\ Current(q)' = Current(q)
                     /\ reqs'[q].pc = reqs[q].pc)
    BY <1>0
  <2> HIDE DEF o
  <2>6. \A q \in Requests : reqs'[q].pc \in Holding =>
          Current(q)' \in ledger' \cup Excepted
    BY <2>1, <2>3, <2>5 DEF ClaimInv
  <2>7. \A q, u \in Requests :
          reqs'[q].pc \in Holding /\ reqs'[u].pc \in Holding
          /\ Current(q)' = Current(u)' => q = u \/ Current(q)' \in Excepted
    BY <2>1, <2>3, <2>5 DEF ClaimInv
  <2>8. \A q \in Requests : reqs'[q].pc \in Holding \ {"log"} =>
          replays'[Current(q)'] = 0 \/ Current(q)' \in Excepted
    BY <2>1, <2>2, <2>3, <2>4, <2>5 DEF ClaimInv
  <2>9. /\ \A p \in Ops : replays'[p] > 0 => p \in ledger' \cup Excepted
        /\ \A p \in Ops : replays'[p] > 1 => p \in Excepted
    BY <2>1, <2>2, <2>3 DEF ClaimInv
  <2> QED
    BY <2>1, <2>6, <2>7, <2>8, <2>9 DEF ClaimInv
<1>4. CASE ApplyThrows(r)
  <2>1. /\ reqs[r].pc = "apply" /\ reqs'[r].pc = "failed"
        /\ Current(r)' = o /\ UNCHANGED <<ledger, replays>> /\ Excepted' = Excepted
    BY <1>4, GotoType DEF ApplyThrows, Steps, Current, history, Excepted
  <2> QED
    BY <1>0, <2>1, ClaimKept DEF Holding
<1>5. CASE Log(r)
  <2>1. reqs[r].pc = "log" /\ UNCHANGED <<ledger, replays>> /\ disowned' = disowned
    BY <1>5 DEF Log
  <2>2. CASE Answer(r, "applied") /\ unlogged' = unlogged
    <3>1. reqs'[r].pc \in {"claim", "answered"}
      BY <2>1, <2>2, AnswerType DEF Statuses
    <3> QED
      BY <1>0, <2>1, <2>2, <3>1, ClaimKept DEF Holding, Excepted
  <2>3. CASE Goto(r, "failed") /\ unlogged' = unlogged \cup {o}
    <3>1. reqs'[r].pc = "failed" /\ Current(r)' = o
      BY <2>1, <2>3, GotoType DEF Steps, Current
    <3>2. o \in Excepted' /\ Excepted \subseteq Excepted'
      BY <2>1, <2>3 DEF Excepted
    <3> QED
      BY <1>0, <2>1, <3>1, <3>2, ClaimKept DEF Holding
  <2> QED
    BY <1>5, <2>2, <2>3 DEF Log
<1>6. CASE ReleaseClaim(r)
  <2>1. /\ reqs[r].pc \in {"refused", "failed"} /\ Current(r)' = o
        /\ replays' = replays /\ Excepted' = Excepted
        /\ \/ ledger' = ledger \ {o} /\ reqs'[r].pc \in {"released", "conflict"}
           \/ ledger' = ledger /\ reqs'[r].pc \in {"kept", "conflict"}
    BY <1>6, GotoType DEF ReleaseClaim, Steps, Current, history, Excepted
  <2>2. CASE ledger' = ledger
    BY <1>0, <2>1, <2>2, ClaimKept DEF Holding
  <2>3. CASE ledger' = ledger \ {o} /\ reqs'[r].pc \in {"released", "conflict"}
    <3>1. /\ replays[o] = 0 \/ o \in Excepted
          /\ \A q \in Requests \ {r} : reqs[q].pc \in Holding =>
               Current(q) # o \/ o \in Excepted
      BY <2>1 DEF ClaimInv, Holding
    <3>2. \A q \in Requests : reqs'[q].pc \in Holding =>
            /\ q # r /\ reqs[q].pc \in Holding /\ Current(q)' = Current(q)
            /\ reqs'[q].pc = reqs[q].pc
      BY <1>0, <2>3 DEF Holding
    <3> HIDE DEF o
    <3>3. \A q \in Requests : reqs'[q].pc \in Holding =>
            Current(q)' \in ledger' \cup Excepted
      BY <2>3, <3>1, <3>2 DEF ClaimInv
    <3>4. \A p \in Ops : replays[p] > 0 => p \in ledger' \cup Excepted
      BY <1>0, <2>3, <3>1 DEF ClaimInv
    <3> QED
      BY <2>1, <3>2, <3>3, <3>4 DEF ClaimInv
  <2> QED
    BY <2>1, <2>2, <2>3
<1>9. CASE RefusalThrows(r)
  <2>1. /\ \/ reqs[r].pc = "released" /\ reqs'[r].pc = "again"
           \/ reqs[r].pc = "kept" /\ reqs'[r].pc = "failed"
        /\ Current(r)' = o /\ UNCHANGED <<ledger, replays>> /\ Excepted' = Excepted
    BY <1>9, GotoType DEF RefusalThrows, Steps, Current, history, Excepted
  <2> QED
    BY <1>0, <2>1, ClaimKept DEF Holding
<1>10. CASE ReleaseAgain(r)
  <2>1. /\ reqs'[r].pc = "conflict" /\ replays' = replays
        /\ Excepted \subseteq Excepted'
        /\ ledger' \cup Excepted' = ledger \cup Excepted'
    BY <1>10, GotoType DEF ReleaseAgain, Steps, Excepted
  <2>2. \A q \in Requests : reqs'[q].pc \in Holding =>
          /\ reqs[q].pc \in Holding /\ Current(q)' = Current(q)
          /\ reqs'[q].pc = reqs[q].pc
    BY <1>0, <2>1 DEF Holding
  <2> QED
    BY <2>1, <2>2 DEF ClaimInv
<1>7. CASE QueueConflict(r)
  <2>1. reqs'[r].pc \in {"claim", "answered"}
    BY <1>7, AnswerType DEF QueueConflict, RecordConflict, Statuses
  <2> QED
    BY <1>0, <1>7, <2>1, ClaimKept
    DEF QueueConflict, RecordConflict, Holding, history, Excepted
<1>8. CASE BatchThrows(r) \/ Unheard(r)
  <2>1. reqs'[r].pc = "free"
    BY <1>8, FreeType DEF BatchThrows, Unheard, Free
  <2> QED
    BY <1>0, <1>8, <2>1, ClaimKept DEF BatchThrows, Unheard, Holding, history, Excepted
<1> QED
  BY <1>1, <1>2, <1>3, <1>4, <1>5, <1>6, <1>7, <1>8, <1>9, <1>10 DEF Replay

\* The other steps take up, drop or leave the requests, and apply nothing.
LEMMA ClaimOthers ==
    ASSUME TypeOK, ClaimInv, Outside \/ Crash
    PROVE  ClaimInv'
<1>1. CASE Outside
  <2>1. \A r \in Requests : reqs'[r].pc \in Holding => reqs'[r] = reqs[r]
    BY <1>1, OutsideReqs DEF Holding
  <2> QED
    BY <1>1, <2>1, OutsideReqs, ClaimKept DEF Excepted
<1>2. CASE Crash
  <2>1. \A r \in Requests : reqs'[r].pc = "free"
    BY <1>2 DEF Crash, Free
  <2> QED
    BY <1>2, <2>1, ClaimKept DEF Crash, Holding, history, Excepted
<1> QED
  BY <1>1, <1>2

\* However many flushers, lost answers and restarts there are, an intent is
\* applied twice only if its claim was released although it stood for an action
\* that took effect or was at work: after a failed audit row, or by the catch of a
\* refusal, when another request held it.
THEOREM ReplayedOnce == Spec => []NoDoubleReplay
<1>1. Init => ClaimInv
  BY DEF Init, ClaimInv, Free, Holding
<1>2. TypeOK /\ ClaimInv /\ [Next]_vars => ClaimInv'
  BY ClaimReplay, ClaimOthers DEF Next, Outside
<1>3. ClaimInv => NoDoubleReplay
  BY DEF ClaimInv, NoDoubleReplay, Excepted
<1> QED
  BY <1>1, <1>2, <1>3, TypeCorrect, PTL DEF Spec

-----------------------------------------------------------------------------
(***************************************************************************)
(* No intent leaves the device without a trace.                            *)
(***************************************************************************)
Accounted(o) ==
    replays[o] > 0 \/ o \in conflicts \/ Handled(o) \/ o \in interrupted

\* An intent whose claim is in the ledger, and one that was answered "applied"
\* or "duplicate", is accounted for before the device hears of it.
FateInv ==
    /\ \A o \in Ops : o \in ledger => Accounted(o)
    /\ \A o \in Ops, r \in Requests : \A i \in DOMAIN reqs[r].res :
         /\ reqs[r].res[i] \in {"applied", "duplicate"}
         /\ reqs[r].batch[i] = o
         => Accounted(o)
    /\ \A r \in Requests : reqs[r].pc = "log" => replays[Current(r)] > 0
    /\ NeverSilentlyDropped

WorkSteps == Steps \ {"free", "answered", "claim"}

\* The steps of a refusal and of the catch, up to the conflict row.
Released(r) == ReleaseClaim(r) \/ RefusalThrows(r) \/ ReleaseAgain(r)

\* What a step must not do to an intent that is accounted for.
LEMMA AccountedKept ==
    ASSUME TypeOK, NEW o \in Ops, Accounted(o),
           replays[o] > 0 => replays'[o] > 0,
           conflicts \subseteq conflicts', interrupted \subseteq interrupted',
           \A r \in Requests : reqs[r].pc \in WorkSteps /\ Current(r) = o =>
               \/ reqs'[r].pc \in WorkSteps /\ Current(r)' = o
               \/ replays'[o] > 0 \/ o \in conflicts' \/ o \in interrupted'
    PROVE  Accounted(o)'
<1>1. \A r \in Requests : reqs[r].pc \in Steps
  BY DEF TypeOK
<1>2. \A r \in Requests : reqs'[r].pc \in WorkSteps =>
        reqs'[r].pc \notin {"free", "answered", "claim"}
  BY DEF WorkSteps
<1> QED
  BY <1>1, <1>2 DEF Accounted, Handled, AtWork, WorkSteps

\* A replay accounts for its intent before it turns to the next.
LEMMA StaysReplay ==
    ASSUME TypeOK, FateInv, NEW r \in Requests, Replay(r)
    PROVE  \A o \in Ops : Accounted(o) => Accounted(o)'
<1> USE DEF At, device, history
<1> SUFFICES ASSUME NEW o \in Ops, Accounted(o) PROVE Accounted(o)'
  OBVIOUS
<1>0. /\ \A q \in Requests \ {r} : reqs'[q] = reqs[q] /\ Current(q)' = Current(q)
      /\ replays \in [Ops -> Nat]
  BY TypeReplay DEF TypeOK, Current
<1>1. CASE Claim(r) \/ Unheard(r)
  <2>1. reqs[r].pc \notin WorkSteps /\ UNCHANGED <<replays, conflicts, interrupted>>
    BY <1>1 DEF Claim, Unheard, WorkSteps
  <2> QED
    BY <1>0, <2>1, AccountedKept
<1>2. CASE Authorize(r) \/ ApplyThrows(r) \/ Released(r)
  <2>1. PICK pc \in {"apply", "refused", "released", "kept", "again", "failed",
                      "conflict"} : Goto(r, pc)
    BY <1>2 DEF Authorize, ApplyThrows, Released, ReleaseClaim, RefusalThrows,
       ReleaseAgain
  <2>2. /\ reqs[r].pc \notin {"free", "answered"} /\ pc \in Steps
        /\ UNCHANGED <<replays, conflicts, interrupted>>
    BY <1>2 DEF Authorize, ApplyThrows, Released, ReleaseClaim, RefusalThrows,
       ReleaseAgain, Steps
  <2>3. reqs'[r].pc \in WorkSteps /\ Current(r)' = Current(r)
    BY <2>1, <2>2, GotoType DEF WorkSteps, Steps, Current
  <2> QED
    BY <1>0, <2>2, <2>3, AccountedKept
<1>3. CASE Apply(r)
  <2>1. Goto(r, "log") /\ reqs[r].pc = "apply" /\ UNCHANGED <<conflicts, interrupted>>
    BY <1>3 DEF Apply
  <2>2. reqs'[r].pc \in WorkSteps /\ Current(r)' = Current(r) /\ Current(r) \in Ops
    BY <2>1, GotoType, CurrentType DEF WorkSteps, Steps, Current
  <2>3. replays[o] > 0 => replays'[o] > 0
    BY <1>0, <1>3, <2>2 DEF Apply
  <2> QED
    BY <1>0, <2>1, <2>2, <2>3, AccountedKept
<1>4. CASE Log(r)
  <2>1. reqs[r].pc = "log" /\ UNCHANGED <<replays, conflicts, interrupted>>
    BY <1>4 DEF Log
  <2>2. replays[Current(r)] > 0
    BY <2>1 DEF FateInv
  <2> QED
    BY <1>0, <2>1, <2>2, AccountedKept
<1>5. CASE QueueConflict(r)
  <2>1. conflicts' = conflicts \cup {Current(r)} /\ UNCHANGED <<replays, interrupted>>
    BY <1>5 DEF QueueConflict, RecordConflict
  <2> QED
    BY <1>0, <2>1, AccountedKept
<1>6. CASE BatchThrows(r)
  <2>1. /\ interrupted \subseteq interrupted' /\ UNCHANGED <<replays, conflicts>>
        /\ reqs[r].pc \in WorkSteps => Current(r) \in interrupted'
    BY <1>6 DEF BatchThrows, AtWork, WorkSteps
  <2> QED
    BY <1>0, <2>1, AccountedKept
<1> QED
  BY <1>1, <1>2, <1>3, <1>4, <1>5, <1>6 DEF Replay, Released

\* A restart leaves the intents it stopped on record.
LEMMA StaysOthers ==
    ASSUME TypeOK, Outside \/ Crash
    PROVE  \A o \in Ops : Accounted(o) => Accounted(o)'
<1> SUFFICES ASSUME NEW o \in Ops, Accounted(o) PROVE Accounted(o)'
  OBVIOUS
<1>1. CASE Outside
  <2>1. \A r \in Requests : reqs[r].pc \in WorkSteps =>
          reqs'[r].pc \in WorkSteps /\ Current(r)' = Current(r)
    BY <1>1, OutsideReqs DEF WorkSteps, Current
  <2> QED
    BY <1>1, <2>1, OutsideReqs, AccountedKept
<1>2. CASE Crash
  <2>1. /\ \A r \in Requests : reqs[r].pc \in WorkSteps => Current(r) \in interrupted'
        /\ interrupted \subseteq interrupted' /\ UNCHANGED <<replays, conflicts>>
    BY <1>2 DEF Crash, AtWork, WorkSteps
  <2> QED
    BY <2>1, AccountedKept
<1> QED
  BY <1>1, <1>2

\* A step that claims nothing, answers nothing and takes nothing off the device.
LEMMA FateKept ==
    ASSUME TypeOK, FateInv, \A o \in Ops : Accounted(o) => Accounted(o)',
           ledger' \subseteq ledger,
           \A o \in Ops : phase'[o] = "removed" => phase[o] = "removed",
           \A r \in Requests :
             /\ \/ reqs'[r].res = <<>>
                \/ reqs'[r].res = reqs[r].res /\ reqs'[r].batch = reqs[r].batch
             /\ reqs'[r].pc = "log" => replays'[Current(r)'] > 0
    PROVE  FateInv'
<1>1. \A o \in Ops : o \in ledger' => Accounted(o)'
  BY DEF FateInv
<1>2. ASSUME NEW o \in Ops, NEW r \in Requests, NEW i \in DOMAIN reqs'[r].res,
             reqs'[r].res[i] \in {"applied", "duplicate"}, reqs'[r].batch[i] = o
      PROVE  Accounted(o)'
  <2>1. reqs'[r].res = reqs[r].res /\ reqs'[r].batch = reqs[r].batch
    BY <1>2
  <2>2. Accounted(o)
    BY <1>2, <2>1 DEF FateInv
  <2> QED
    BY <2>2
<1>3. NeverSilentlyDropped'
  BY DEF FateInv, NeverSilentlyDropped, Accounted
<1> QED
  BY <1>1, <1>2, <1>3 DEF FateInv

\* An answer to an intent that is accounted for.
LEMMA FateAnswered ==
    ASSUME TypeOK, FateInv, \A o \in Ops : Accounted(o) => Accounted(o)',
           NEW r \in Requests, reqs[r].pc \notin {"free", "answered"},
           NEW status \in Statuses, Answer(r, status),
           status \in {"applied", "duplicate"} =>
             \A o \in Ops : o = Current(r) => Accounted(o),
           \A q \in Requests \ {r} : reqs'[q] = reqs[q],
           UNCHANGED <<ledger, phase, replays>>
    PROVE  FateInv'
<1>1. /\ reqs'[r].pc \in {"claim", "answered"}
      /\ reqs'[r].batch = reqs[r].batch
      /\ reqs'[r].res = Append(reqs[r].res, status)
  BY AnswerType
<1>2. ASSUME NEW o \in Ops, NEW q \in Requests, NEW i \in DOMAIN reqs'[q].res,
             reqs'[q].res[i] \in {"applied", "duplicate"}, reqs'[q].batch[i] = o
      PROVE  Accounted(o)
  <2>1. CASE q # r
    BY <1>2, <2>1 DEF FateInv
  <2>2. CASE q = r
    <3>1. reqs[r].res \in Seq(Statuses)
      BY DEF TypeOK
    <3>2. \/ i \in DOMAIN reqs[r].res /\ reqs'[r].res[i] = reqs[r].res[i]
          \/ i = Len(reqs[r].res) + 1 /\ reqs'[r].res[i] = status
      BY <1>1, <1>2, <2>2, <3>1
    <3>3. CASE i \in DOMAIN reqs[r].res /\ reqs'[r].res[i] = reqs[r].res[i]
      BY <1>1, <1>2, <2>2, <3>3 DEF FateInv
    <3>4. CASE i = Len(reqs[r].res) + 1 /\ reqs'[r].res[i] = status
      BY <1>1, <1>2, <2>2, <3>4 DEF Current
    <3> QED
      BY <3>2, <3>3, <3>4
  <2> QED
    BY <2>1, <2>2
<1>3. \A q \in Requests : reqs'[q].pc = "log" => replays'[Current(q)'] > 0
  BY <1>1 DEF FateInv, Current
<1>4. \A o \in Ops : o \in ledger' => Accounted(o)'
  BY DEF FateInv
<1>5. NeverSilentlyDropped'
  BY DEF FateInv, NeverSilentlyDropped, Accounted
<1> QED
  BY <1>2, <1>3, <1>4, <1>5 DEF FateInv

\* One case per step of a replay.
LEMMA FateReplay ==
    ASSUME TypeOK, FateInv, NEW r \in Requests, Replay(r)
    PROVE  FateInv'
<1> USE DEF At, device, history
<1>0. /\ \A q \in Requests \ {r} : reqs'[q] = reqs[q] /\ Current(q)' = Current(q)
      /\ replays \in [Ops -> Nat] /\ \A o \in Ops : Accounted(o) => Accounted(o)'
  BY TypeReplay, StaysReplay DEF TypeOK, Current
<1>1. CASE Claim(r)
  <2>1. CASE Current(r) \in ledger
    <3>1. Answer(r, "duplicate") /\ UNCHANGED <<ledger, phase, replays>>
      BY <1>1, <2>1 DEF Claim
    <3>2. \A o \in Ops : o = Current(r) => Accounted(o)
      BY <2>1 DEF FateInv
    <3> QED
      BY <1>0, <1>1, <3>1, <3>2, FateAnswered DEF Claim, Statuses
  <2>2. CASE Current(r) \notin ledger
    <3>1. /\ reqs'[r].pc = "authorize" /\ Current(r)' = Current(r)
          /\ reqs'[r].res = reqs[r].res /\ reqs'[r].batch = reqs[r].batch
      BY <1>1, <2>2, GotoType DEF Claim, Steps, Current
    <3>2. UNCHANGED <<phase, replays>> /\ ledger' = ledger \cup {Current(r)}
      BY <1>1, <2>2 DEF Claim
    <3>3. \A o \in Ops : o \in ledger' => Accounted(o)'
      BY <1>0, <3>1, <3>2 DEF FateInv, Accounted, Handled, AtWork
    <3>4. \A o \in Ops, q \in Requests : \A i \in DOMAIN reqs'[q].res :
            reqs'[q].res[i] \in {"applied", "duplicate"} /\ reqs'[q].batch[i] = o
            => Accounted(o)'
      BY <1>0, <3>1 DEF FateInv
    <3>5. NeverSilentlyDropped'
      BY <1>0, <3>2 DEF FateInv, NeverSilentlyDropped, Accounted
    <3>6. \A q \in Requests : reqs'[q].pc = "log" => replays'[Current(q)'] > 0
      BY <1>0, <3>1, <3>2 DEF FateInv
    <3> QED
      BY <3>3, <3>4, <3>5, <3>6 DEF FateInv
  <2> QED
    BY <2>1, <2>2
<1>2. CASE Authorize(r) \/ ApplyThrows(r) \/ Released(r)
  <2>1. PICK pc \in {"apply", "refused", "released", "kept", "again", "failed",
                      "conflict"} : Goto(r, pc)
    BY <1>2 DEF Authorize, ApplyThrows, Released, ReleaseClaim, RefusalThrows,
       ReleaseAgain
  <2>2. /\ reqs[r].pc \notin {"free", "answered"} /\ pc \in Steps
        /\ UNCHANGED <<replays, phase>> /\ ledger' \subseteq ledger
    BY <1>2 DEF Authorize, ApplyThrows, Released, ReleaseClaim, RefusalThrows,
       ReleaseAgain, Steps
  <2>3. /\ reqs'[r].pc # "log" /\ reqs'[r].res = reqs[r].res
        /\ reqs'[r].batch = reqs[r].batch
    BY <2>1, <2>2, GotoType
  <2> QED
    BY <1>0, <2>2, <2>3, FateKept DEF FateInv
<1>3. CASE Apply(r)
  <2>1. Goto(r, "log") /\ reqs[r].pc = "apply" /\ UNCHANGED <<ledger, phase>>
    BY <1>3 DEF Apply
  <2>2. /\ Current(r)' = Current(r) /\ Current(r) \in Ops
        /\ reqs'[r].res = reqs[r].res /\ reqs'[r].batch = reqs[r].batch
    BY <2>1, GotoType, CurrentType DEF Steps, Current
  <2>3. /\ replays'[Current(r)] > 0
        /\ \A o \in Ops : replays[o] > 0 => replays'[o] > 0
    BY <1>0, <1>3, <2>2 DEF Apply
  <2>4. \A q \in Requests \ {r} : reqs[q].pc = "log" => Current(q) \in Ops
    BY CurrentType
  <2> QED
    BY <1>0, <2>1, <2>2, <2>3, <2>4, FateKept DEF FateInv
<1>4. CASE Log(r)
  <2>1. reqs[r].pc = "log" /\ UNCHANGED <<ledger, phase, replays>>
    BY <1>4 DEF Log
  <2>2. CASE Answer(r, "applied")
    <3>1. \A o \in Ops : o = Current(r) => Accounted(o)
      BY <2>1 DEF FateInv, Accounted
    <3> QED
      BY <1>0, <2>1, <2>2, <3>1, FateAnswered DEF Statuses
  <2>3. CASE Goto(r, "failed")
    <3>1. /\ reqs'[r].pc # "log" /\ reqs'[r].res = reqs[r].res
          /\ reqs'[r].batch = reqs[r].batch
      BY <2>1, <2>3, GotoType DEF Steps
    <3> QED
      BY <1>0, <2>1, <3>1, FateKept DEF FateInv
  <2> QED
    BY <1>4, <2>2, <2>3 DEF Log
<1>5. CASE QueueConflict(r)
  BY <1>0, <1>5, FateAnswered DEF QueueConflict, RecordConflict, Statuses
<1>6. CASE BatchThrows(r) \/ Unheard(r)
  <2>1. reqs'[r] = Free /\ UNCHANGED <<ledger, phase, replays>>
    BY <1>6, FreeType DEF BatchThrows, Unheard
  <2> QED
    BY <1>0, <2>1, FateKept DEF FateInv, Free
<1> QED
  BY <1>1, <1>2, <1>3, <1>4, <1>5, <1>6 DEF Replay, Released

\* A flusher removes what was answered; nobody else removes anything.
LEMMA FateOthers ==
    ASSUME TypeOK, FateInv, Outside \/ Crash
    PROVE  FateInv'
<1>0. \A o \in Ops : Accounted(o) => Accounted(o)'
  BY StaysOthers
<1>1. CASE Crash
  <2>1. /\ \A r \in Requests : reqs'[r] = Free
        /\ UNCHANGED <<ledger, phase>>
    BY <1>1 DEF Crash, device
  <2> QED
    BY <1>0, <2>1, FateKept DEF Free
<1>2. CASE Outside
  <2>1. /\ \A r \in Requests :
             /\ \/ reqs'[r].res = <<>>
                \/ reqs'[r].res = reqs[r].res /\ reqs'[r].batch = reqs[r].batch
             /\ reqs'[r].pc = "log" => replays'[Current(r)'] > 0
        /\ ledger' = ledger
    BY <1>2, OutsideReqs DEF FateInv, Current
  <2>2. ASSUME NEW f \in Flushers, FlushAnswered(f)
        PROVE  \A o \in Ops : phase'[o] = "removed" => Accounted(o)
    <3>1. \A o \in Ops : phase'[o] = "removed" =>
            phase[o] = "removed" \/ o \in Done(flush[f])
      BY <2>2 DEF FlushAnswered
    <3>2. flush[f] \in Requests
      BY <2>2 DEF FlushAnswered, TypeOK
    <3>3. \A o \in Ops : o \in Done(flush[f]) => Accounted(o)
      BY <3>2 DEF Done, FateInv
    <3> QED
      BY <3>1, <3>3 DEF FateInv, NeverSilentlyDropped, Accounted
  <2>3. ASSUME ~ \E f \in Flushers : FlushAnswered(f)
        PROVE  \A o \in Ops : phase'[o] = "removed" => phase[o] = "removed"
    <3>1. ASSUME NEW o \in Ops, Pages(o)
          PROVE  \A p \in Ops : phase'[p] = "removed" => phase[p] = "removed"
      BY <3>1 DEF Pages, Submit, Enqueue, CallLost, CallAnswered, CallRefused,
         CallServed, TypeOK
    <3>2. CASE Team
      BY <3>2, TeamElsewhere
    <3>3. CASE GuestBooks \/ Midnight \/ UNCHANGED vars
      BY <3>3 DEF GuestBooks, Midnight, device, vars
    <3>4. CASE \E f \in Flushers : Flush(f)
      BY <2>3, <3>4 DEF Flush, FlushQueue, FlushFails
    <3> QED
      BY <1>2, <3>1, <3>2, <3>3, <3>4 DEF Outside
  <2>4. \A o \in Ops : phase'[o] = "removed" => Accounted(o)
    BY <2>2, <2>3 DEF FateInv, NeverSilentlyDropped, Accounted
  <2>5. NeverSilentlyDropped'
    BY <1>0, <2>4 DEF NeverSilentlyDropped, Accounted
  <2>6. \A o \in Ops : o \in ledger' => Accounted(o)'
    BY <1>0, <2>1 DEF FateInv
  <2>7. \A o \in Ops, r \in Requests : \A i \in DOMAIN reqs'[r].res :
          reqs'[r].res[i] \in {"applied", "duplicate"} /\ reqs'[r].batch[i] = o
          => Accounted(o)'
    BY <1>0, <2>1 DEF FateInv
  <2> QED
    BY <2>1, <2>5, <2>6, <2>7 DEF FateInv
<1> QED
  BY <1>1, <1>2

\* No action leaves the device unless it was applied, is in the conflict queue,
\* is being replayed, or was in a replay that stopped half-way; for any number of
\* actions, flushers, lost answers and restarts.
THEOREM NothingSilentlyDropped == Spec => []NeverSilentlyDropped
<1>1. Init => FateInv
  BY DEF Init, FateInv, NeverSilentlyDropped, Free
<1>2. TypeOK /\ FateInv /\ [Next]_vars => FateInv'
  BY FateReplay, FateOthers DEF Next, Outside
<1>3. FateInv => NeverSilentlyDropped
  BY DEF FateInv
<1> QED
  BY <1>1, <1>2, <1>3, TypeCorrect, PTL DEF Spec

-----------------------------------------------------------------------------
(***************************************************************************)
(* Nothing is applied that was captured without the right.                 *)
(***************************************************************************)

\* The phases of an action that was put on the device's queue.
Kept == {"queued", "removed"}

\* The device time of an action is fixed before anybody can replay it.
CapturedInv ==
    /\ \A o \in Ops : at[o] <= clock
    /\ \A o \in Ops : phase[o] \notin Kept =>
         /\ o \notin pending /\ replays[o] = 0
         /\ \A r \in Requests : \A i \in DOMAIN reqs[r].batch : reqs[r].batch[i] # o

\* An edit of the row that made its dates or its role cover more days.
Excused == regranted \/ restamped

\* The days on which the member row lets a replay through are days on which the
\* member could edit, unless an edit made the row cover more.
TenureInv ==
    /\ member.status = "exited" => member.end <= clock
    /\ member.status = "active" => member.end = NoEnd
    /\ member.status # "none" /\ member.edit =>
         \A d \in Times : member.start <= d /\ d <= member.end /\ d <= clock =>
             d \in tenure \/ Excused
    /\ \A r \in Requests : reqs[r].pc = "apply" =>
         at[Current(r)] \in tenure \/ Excused
    /\ FiredNeverApplies

\* A replay changes neither the device nor the member; it comes to the action
\* through Authorize only, and applies only from there.
LEMMA ReplayStep ==
    ASSUME TypeOK, NEW r \in Requests, Replay(r)
    PROVE  /\ UNCHANGED <<phase, at, pending, member, clock, tenure, regranted,
                       restamped>>
           /\ \A q \in Requests : reqs'[q].batch \in {reqs[q].batch, <<>>}
           /\ \A q \in Requests : reqs'[q].pc = "apply" =>
                /\ Current(q)' = Current(q) /\ Current(q) \in Ops
                /\ reqs[q].pc = "apply" \/ WasAuthorized(Current(q))
           /\ \A o \in Ops : replays'[o] = replays[o]
                \/ (reqs[r].pc = "apply" /\ o = Current(r))
<1> USE DEF At, device, history
<1>0. /\ \A q \in Requests \ {r} : reqs'[q] = reqs[q] /\ Current(q)' = Current(q)
      /\ \A q \in Requests : reqs[q].pc = "apply" => Current(q) \in Ops
      /\ replays \in [Ops -> Nat]
  BY TypeReplay, CurrentType DEF TypeOK, Current
<1>1. UNCHANGED <<phase, at, pending, member, clock, tenure, regranted, restamped>>
  BY DEF Replay, Claim, Authorize, Apply, ApplyThrows, Log, ReleaseClaim,
     RefusalThrows, ReleaseAgain, QueueConflict, RecordConflict, BatchThrows, Unheard
<1>5. /\ reqs'[r].batch \in {reqs[r].batch, <<>>}
      /\ ~Authorize(r) => reqs'[r].pc # "apply"
  <2>1. CASE Claim(r) \/ Authorize(r) \/ Apply(r) \/ ApplyThrows(r) \/ Log(r)
    BY <2>1, AnswerType, GotoType
    DEF Claim, Authorize, Apply, ApplyThrows, Log, Statuses, Steps
  <2>2. CASE ReleaseClaim(r) \/ RefusalThrows(r) \/ ReleaseAgain(r)
    BY <2>2, GotoType DEF ReleaseClaim, RefusalThrows, ReleaseAgain, Steps
  <2>3. CASE QueueConflict(r) \/ BatchThrows(r) \/ Unheard(r)
    BY <2>3, AnswerType, FreeType
    DEF QueueConflict, RecordConflict, BatchThrows, Unheard, Statuses, Free
  <2> QED
    BY <2>1, <2>2, <2>3 DEF Replay
<1>2. reqs'[r].batch \in {reqs[r].batch, <<>>}
  BY <1>5
<1>3. ASSUME reqs'[r].pc = "apply"
      PROVE  /\ Current(r)' = Current(r) /\ Current(r) \in Ops
             /\ WasAuthorized(Current(r))
  <2>1. Authorize(r)
    BY <1>3, <1>5
  <2>2. WasAuthorized(Current(r)) /\ Goto(r, "apply") /\ Current(r) \in Ops
    BY <1>3, <2>1, GotoType, CurrentType DEF Authorize, Steps
  <2>3. Current(r)' = Current(r)
    BY <2>1, <2>2, GotoType DEF Authorize, Steps, Current
  <2> QED
    BY <2>2, <2>3
<1>4. \A o \in Ops : replays'[o] = replays[o]
        \/ (reqs[r].pc = "apply" /\ o = Current(r))
  <2>1. CASE Apply(r)
    BY <1>0, <2>1 DEF Apply
  <2>2. ASSUME ~Apply(r) PROVE replays' = replays
    BY <2>2 DEF Replay, Claim, Authorize, ApplyThrows, Log, ReleaseClaim,
       RefusalThrows, ReleaseAgain, QueueConflict, RecordConflict, BatchThrows,
       Unheard
  <2> QED
    BY <2>1, <2>2
<1> QED
  BY <1>0, <1>1, <1>2, <1>3, <1>4

\* The device time stays what it was when the action was captured.
LEMMA CapturedNext == TypeOK /\ CapturedInv /\ [Next]_vars => CapturedInv'
<1> SUFFICES ASSUME TypeOK, CapturedInv, [Next]_vars PROVE CapturedInv'
  OBVIOUS
<1> USE DEF device, server, history
<1>0. /\ phase \in [Ops -> Phases] /\ at \in [Ops -> Times] /\ clock \in Times
      /\ \A d \in Times : d \in Nat
  BY SyncAssumption DEF TypeOK, Times
<1>1. ASSUME NEW r \in Requests, Replay(r)
      PROVE  CapturedInv'
  <2>1. \A o \in Ops : phase[o] \notin Kept => replays'[o] = replays[o]
    BY <1>1, ReplayStep, CurrentType DEF CapturedInv, Current
  <2> QED
    BY <1>1, <2>1, ReplayStep DEF CapturedInv
<1>2. ASSUME NEW o \in Ops, Submit(o)
      PROVE  CapturedInv'
  BY <1>0, <1>2 DEF Submit, Enqueue, CapturedInv, Kept
<1>3. ASSUME NEW o \in Ops, CallLost(o) \/ CallAnswered(o) \/ CallRefused(o)
                            \/ CallServed(o)
      PROVE  CapturedInv'
  BY <1>0, <1>3 DEF CallLost, CallAnswered, CallRefused, CallServed, Enqueue,
     CapturedInv, Kept
<1>4. ASSUME NEW f \in Flushers, FlushQueue(f)
      PROVE  CapturedInv'
  <2>1. PICK r \in Requests, batch \in SetToSeqs(pending) :
          reqs' = [reqs EXCEPT ![r] = [pc |-> "claim", batch |-> batch,
                                       res |-> <<>>]]
    BY <1>4 DEF FlushQueue
  <2>2. \A i \in DOMAIN batch : batch[i] \in pending
    BY <2>1 DEF SetToSeqs
  <2>3. UNCHANGED <<phase, at, pending, replays, clock>>
    BY <1>4 DEF FlushQueue
  <2>4. \A q \in Requests : reqs'[q].batch = batch \/ reqs'[q] = reqs[q]
    BY <2>1 DEF TypeOK
  <2> QED
    BY <2>2, <2>3, <2>4 DEF CapturedInv
<1>5. ASSUME NEW f \in Flushers, FlushAnswered(f)
      PROVE  CapturedInv'
  <2>1. \A q \in Requests : reqs'[q].batch \in {reqs[q].batch, <<>>}
    BY <1>5 DEF FlushAnswered, TypeOK, Free
  <2>2. /\ UNCHANGED <<at, replays, clock>> /\ pending' \subseteq pending
        /\ \A o \in Ops : phase'[o] \notin Kept => phase[o] \notin Kept
    BY <1>5 DEF FlushAnswered, Kept
  <2> QED
    BY <2>1, <2>2 DEF CapturedInv
<1>6. CASE Crash
  BY <1>6 DEF Crash, Free, CapturedInv
<1>7. CASE Midnight
  BY <1>0, <1>7 DEF Midnight, CapturedInv
<1>8. ASSUME \/ GuestBooks \/ Team \/ UNCHANGED vars
             \/ \E f \in Flushers : FlushFails(f)
      PROVE  CapturedInv'
  <2>1. UNCHANGED <<at, clock, phase, pending, reqs, replays>>
    <3>1. CASE Team
      BY <3>1, TeamElsewhere
    <3>2. CASE GuestBooks \/ UNCHANGED vars \/ \E f \in Flushers : FlushFails(f)
      BY <3>2 DEF GuestBooks, FlushFails, vars
    <3> QED
      BY <1>8, <3>1, <3>2
  <2> QED
    BY <2>1 DEF CapturedInv
<1> QED
  BY <1>1, <1>2, <1>3, <1>4, <1>5, <1>6, <1>7, <1>8 DEF Next, Pages, Flush

\* A step that leaves the requests, what they applied and the device times of the
\* captured actions alone, and forgets no day of tenure.
LEMMA TenureKept ==
    ASSUME TypeOK, CapturedInv, TenureInv,
           \A r \in Requests : reqs'[r].pc = "apply" => reqs'[r] = reqs[r],
           \A o \in Ops : phase[o] \in Kept => at'[o] = at[o],
           replays' = replays, tenure \subseteq tenure', Excused => Excused'
    PROVE  /\ \A r \in Requests : reqs'[r].pc = "apply" =>
                at[Current(r)]' \in tenure' \/ Excused'
           /\ FiredNeverApplies'
<1>1. ASSUME NEW r \in Requests, reqs'[r].pc = "apply"
      PROVE  at[Current(r)]' \in tenure' \/ Excused'
  <2>1. reqs'[r] = reqs[r] /\ Current(r)' = Current(r)
    BY <1>1 DEF Current
  <2>2. /\ Current(r) \in Ops /\ phase[Current(r)] \in Kept
        /\ reqs[r].pc = "apply"
    BY <1>1, <2>1, CurrentType DEF CapturedInv, Current
  <2>3. at'[Current(r)] = at[Current(r)]
    BY <2>2
  <2>4. at[Current(r)] \in tenure \/ Excused
    BY <2>2 DEF TenureInv
  <2> QED
    BY <2>1, <2>3, <2>4
<1>2. ASSUME NEW o \in Ops, replays'[o] > 0
      PROVE  at'[o] \in tenure' \/ Excused'
  <2>1. phase[o] \in Kept
    BY <1>2 DEF CapturedInv, TypeOK
  <2> QED
    BY <1>2, <2>1 DEF TenureInv, FiredNeverApplies, Excused
<1> QED
  BY <1>1, <1>2 DEF FiredNeverApplies, Excused

\* Days of the row stay days of tenure, whatever the team does.
LEMMA TenureTeam ==
    ASSUME TypeOK, CapturedInv, TenureInv, Team \/ Midnight
    PROVE  TenureInv'
<1> USE DEF device, server, history, Tenure, NoEnd
<1>0. /\ clock \in Nat /\ member.start \in Nat /\ member.end \in Nat
      /\ \A d \in Times : d \in Nat /\ MaxDay \in Nat /\ d <= MaxDay
      /\ member.status \in {"none", "active", "exited"} /\ member.edit \in BOOLEAN
  BY SyncAssumption DEF TypeOK, Times, Rows
<1>1. /\ \A r \in Requests : reqs'[r].pc = "apply" =>
           at[Current(r)]' \in tenure' \/ Excused'
      /\ FiredNeverApplies'
  <2>1. /\ UNCHANGED <<reqs, at, replays>>
        /\ tenure \subseteq tenure'
        /\ Excused => Excused'
    <3>1. ASSUME NEW m \in Rows, EditRow(m)
          PROVE  /\ UNCHANGED <<reqs, at, replays>>
                 /\ tenure \subseteq tenure'
                 /\ Excused => Excused'
      BY <3>1 DEF EditRow, MemberChange, Excused
    <3>2. CASE ExitMember \/ UpdateMember \/ ChangeRole
      BY <3>1, <3>2, TeamEdits
    <3>3. CASE DeleteMember \/ AddMember \/ Midnight
      BY <3>3 DEF DeleteMember, AddMember, MemberChange, Midnight, Excused
    <3> QED
      BY <3>2, <3>3 DEF Team
  <2> QED
    BY <2>1, TenureKept
<1> DEFINE Row ==
      /\ member.status = "exited" => member.end <= clock
      /\ member.status = "active" => member.end = NoEnd
      /\ member.status # "none" /\ member.edit =>
           \A d \in Times : member.start <= d /\ d <= member.end /\ d <= clock =>
               d \in tenure \/ Excused
<1>2. Row
  BY DEF TenureInv
<1>3. ASSUME NEW m \in Rows, EditRow(m),
             \/ m.end = member.end /\ m.status = member.status
             \/ m.end = NoEnd /\ m.status = "active"
             \/ m.end = clock /\ m.status = "exited"
      PROVE  Row'
  <2>1. /\ member' = m /\ clock' = clock /\ tenure \subseteq tenure'
        /\ member.status \in {"active", "exited"}
    BY <1>0, <1>3 DEF EditRow, MemberChange
  <2>2. \/ Excused'
        \/ /\ ~Excused /\ ~(member.status = "exited" /\ m.status = "active")
           /\ ~(m.edit /\ ~member.edit) /\ ~(m.start < member.start)
           /\ ~(member.status = "exited" /\ m.status = "exited"
                /\ member.end < m.end)
    BY <1>3 DEF EditRow, Excused
  <2>3. /\ m.start \in Nat /\ m.end \in Nat /\ m.edit \in BOOLEAN
        /\ m.status \in {"none", "active", "exited"}
    BY SyncAssumption DEF Rows, Times
  <2>4. /\ m.status = "exited" => m.end <= clock
        /\ m.status = "active" => m.end = NoEnd
    BY <1>0, <1>2, <1>3, <2>1
  <2>5. ASSUME ~Excused', m.status # "none", m.edit, NEW d \in Times,
               m.start <= d, d <= m.end, d <= clock
        PROVE  d \in tenure
    <3>1. /\ member.edit /\ member.start <= d /\ d \in Nat
      BY <1>0, <2>2, <2>3, <2>5
    <3>2. CASE member.status = "active"
      BY <1>0, <1>2, <2>2, <2>5, <3>1, <3>2
    <3>3. CASE member.status = "exited"
      <4>1. d <= member.end
        BY <1>0, <2>2, <2>3, <2>5, <3>3
      <4> QED
        BY <1>2, <2>2, <2>5, <3>1, <3>3, <4>1
    <3> QED
      BY <2>1, <3>2, <3>3
  <2> QED
    BY <2>1, <2>4, <2>5
<1>4. ASSUME DeleteMember PROVE Row'
  BY <1>0, <1>2, <1>4 DEF DeleteMember, MemberChange, TypeOK, Rows
<1>5. ASSUME AddMember PROVE Row'
  BY <1>0, <1>2, <1>5 DEF AddMember, MemberChange
<1>8. ASSUME Midnight PROVE Row'
  BY <1>0, <1>2, <1>8 DEF Midnight, Excused
<1>9. Row'
  BY <1>3, <1>4, <1>5, <1>8, TeamEdits DEF Team
<1> QED
  BY <1>1, <1>9 DEF TenureInv

\* A replay applies what Authorize let through, on the day it let it through.
LEMMA TenureReplay ==
    ASSUME TypeOK, CapturedInv, TenureInv, NEW r \in Requests, Replay(r)
    PROVE  TenureInv'
<1>1. ASSUME NEW o \in Ops, WasAuthorized(o)
      PROVE  at[o] \in tenure \/ Excused
  <2>1. at[o] \in Times /\ at[o] <= clock
    BY DEF TypeOK, CapturedInv
  <2> QED
    BY <1>1, <2>1 DEF WasAuthorized, TenureInv
<1>2. ASSUME NEW q \in Requests, reqs'[q].pc = "apply"
      PROVE  at[Current(q)]' \in tenure' \/ Excused'
  <2>1. /\ Current(q)' = Current(q) /\ Current(q) \in Ops
        /\ reqs[q].pc = "apply" \/ WasAuthorized(Current(q))
        /\ UNCHANGED <<at, tenure, regranted, restamped>>
    BY <1>2, ReplayStep
  <2>2. at[Current(q)] \in tenure \/ Excused
    BY <1>1, <2>1 DEF TenureInv
  <2> QED
    BY <2>1, <2>2 DEF Excused
<1>3. FiredNeverApplies'
  <2>1. \A o \in Ops : replays'[o] = replays[o]
          \/ at[o] \in tenure \/ Excused
    BY ReplayStep DEF TenureInv
  <2> QED
    BY <2>1, ReplayStep DEF TenureInv, FiredNeverApplies, Excused
<1> QED
  BY <1>2, <1>3, ReplayStep DEF TenureInv, Excused

\* The others change neither the member nor the days.
LEMMA TenureOthers ==
    ASSUME TypeOK, CapturedInv, TenureInv,
           \/ \E o \in Ops : Pages(o)
           \/ \E f \in Flushers : Flush(f)
           \/ GuestBooks \/ Crash \/ UNCHANGED vars
    PROVE  TenureInv'
<1>1. UNCHANGED <<member, clock, tenure, regranted, restamped, replays>>
  BY DEF Pages, Submit, CallLost, CallAnswered, CallRefused, CallServed, Flush,
     Enqueue, FlushQueue, FlushAnswered, FlushFails, GuestBooks, Crash, vars,
     history, server
<1>2. \A o \in Ops : phase[o] \in Kept => at'[o] = at[o]
  BY DEF Pages, Submit, CallLost, CallAnswered, CallRefused, CallServed, Flush,
     Enqueue, FlushQueue, FlushAnswered, FlushFails, GuestBooks, Crash, vars,
     device, TypeOK, Kept
<1>3. \A r \in Requests : reqs'[r].pc = "apply" => reqs'[r] = reqs[r]
  <2>1. CASE Crash
    BY <2>1 DEF Crash, Free
  <2>2. CASE Outside
    BY <2>2, OutsideReqs
  <2> QED
    BY <2>1, <2>2 DEF Outside
<1> QED
  BY <1>1, <1>2, <1>3, TenureKept DEF TenureInv, Excused

\* What a member captured on a day on which they could not edit is never applied,
\* however long it waited and whatever happened to the membership since, unless
\* an edit of the row gave the right back, moved its start date back or stamped a
\* second exit.
THEOREM FiredIsRefusedByDay == Spec => []FiredNeverApplies
<1>1. Init => CapturedInv /\ TenureInv
  <2> SUFFICES ASSUME Init PROVE CapturedInv /\ TenureInv
    OBVIOUS
  <2>1. CapturedInv
    BY DEF Init, CapturedInv, Free, Kept
  <2>2. /\ \A r \in Requests : reqs[r].pc # "apply"
        /\ FiredNeverApplies
    BY DEF Init, Free, FiredNeverApplies
  <2>3. /\ \A d \in Times : d \in Nat
        /\ clock = 1
        /\ tenure = {0} \cup {d \in {1} : member.status = "active"}
    BY SyncAssumption DEF Init, Times
  <2>4. CASE member = [status |-> "active", edit |-> TRUE, start |-> 0,
                       end |-> NoEnd]
    <3>1. tenure = {0, 1} /\ member.status = "active"
      BY <2>3, <2>4
    <3> QED
      BY <2>1, <2>2, <2>3, <2>4, <3>1 DEF TenureInv
  <2>5. CASE member = [status |-> "exited", edit |-> TRUE, start |-> 0, end |-> 0]
    <3>1. member.status = "exited" /\ member.end = 0 /\ 0 \in tenure
      BY <2>3, <2>5
    <3> QED
      BY <2>1, <2>2, <2>3, <3>1 DEF TenureInv
  <2> QED
    BY <2>4, <2>5 DEF Init
<1>2. TypeOK /\ CapturedInv /\ TenureInv /\ [Next]_vars => TenureInv'
  BY TenureReplay, TenureTeam, TenureOthers DEF Next
<1>3. TenureInv => FiredNeverApplies
  BY DEF TenureInv
<1> QED
  BY <1>1, <1>2, <1>3, CapturedNext, TypeCorrect, PTL DEF Spec
=============================================================================
