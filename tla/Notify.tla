------------------------------- MODULE Notify -------------------------------
(***************************************************************************)
(* The notices the server sends and the cron job that repeats the ones the *)
(* provider refused.  Source: notifications.service.ts.  A notice is sent  *)
(* first and recorded afterwards; a refused one is due again after a pause *)
(* that grows, MaxAttempts times.  Every server process runs the cron job; *)
(* a process scans once at a time, two processes may scan at the same time.*)
(* The provider is external: it takes the notice, refuses it, or takes it  *)
(* and the answer is lost, which sendSms and sendEmail report as a refusal.*)
(* Channels, texts and contact data are left out, and the pauses have no   *)
(* length.                                                                 *)
(***************************************************************************)
EXTENDS Naturals, FiniteSets

CONSTANTS Topics,       \* what a notice may be about
          NoteIds,      \* rows of the notification table (bound)
          Scanners,     \* server processes
          MaxAttempts,  \* NOTIFY_MAX_ATTEMPTS
          None

ASSUME NotifyAssumption == /\ MaxAttempts \in Nat \ {0}
                           /\ IsFiniteSet(Scanners) /\ Scanners # {}
                           /\ None \notin Topics
                           /\ NoteIds \subseteq Nat /\ None \notin NoteIds

VARIABLES notes,   \* the notification table
          scans,   \* what each process remembers of its scan
          budget   \* how many console resends, and how many stops of a
                   \* process or failures of a write, are left, and which
                   \* processes run the cron job (bounds)

notifyVars == <<notes, scans, budget>>

(* next is next_attempt_at: no time, one to come or one that has passed.   *)
(* tries, copies and redo are history: the sends of the row, those the     *)
(* provider took, and those of them that the row never learned of, because *)
(* the answer was lost or the scan ended before the row was written.       *)
Blank == [about |-> None, delivered |-> FALSE, count |-> 0, next |-> "none",
          resent |-> FALSE, tries |-> 0, copies |-> 0, redo |-> 0]

BudgetType == [resends: Nat, mishaps: Nat, processes: SUBSET Scanners]

Unread == [todo |-> {}, row |-> None, read |-> 0, ok |-> FALSE]

NotifyInit == /\ notes = [i \in NoteIds |-> Blank]
              /\ scans = [s \in Scanners |-> Unread]
              /\ budget \in BudgetType

Unused == {i \in NoteIds : notes[i].about = None}
NextRow == {i \in Unused : \A j \in Unused : i <= j}

\* sendSms, sendEmail: TRUE only for an answer that says so; both catch a lost
\* one and return FALSE.
Answers == {"took", "refused", "lost"}
Ok(a) == a = "took"

Sent(n, a) ==
    [n EXCEPT !.tries = @ + 1,
              !.copies = IF a = "refused" THEN @ ELSE @ + 1,
              !.redo = IF a = "lost" THEN @ + 1 ELSE @]

\* Mutant of Recorded: a refused notice is not scheduled.
RecordedOnly(topic, a) ==
    [Sent(Blank, a) EXCEPT !.about = topic, !.delivered = Ok(a)]

(* record(): a notice not known to be taken is scheduled for a retry.      *)
Recorded(topic, a) ==
    [Sent(Blank, a) EXCEPT !.about = topic, !.delivered = Ok(a),
                           !.next = IF Ok(a) THEN "none" ELSE "later"]

Notice(topic, a) ==
    \E i \in NextRow : notes' = [notes EXCEPT ![i] = Recorded(topic, a)]

(* The console sends a recorded notice again; whatever comes of it, the    *)
(* new row is never retried and the old one is left as it is.              *)
Resend(i) ==
    /\ i \notin Unused /\ budget.resends > 0
    /\ budget' = [budget EXCEPT !.resends = @ - 1]
    /\ \E a \in Answers, new \in NextRow :
          notes' = [notes EXCEPT ![new] =
                      [Sent(Blank, a) EXCEPT !.about = notes[i].about,
                                             !.delivered = Ok(a),
                                             !.resent = TRUE]]
    /\ UNCHANGED scans

FallsDue(i) ==
    /\ notes[i].next = "later"
    /\ notes' = [notes EXCEPT ![i].next = "due"]
    /\ UNCHANGED <<scans, budget>>

-----------------------------------------------------------------------------
(* One scan: read the due rows, then send and update them one by one.      *)

Due == {i \in NoteIds : /\ ~notes[i].delivered
                        /\ notes[i].count < MaxAttempts
                        /\ notes[i].next = "due"}

ScanRead(s) ==
    /\ s \in budget.processes
    /\ scans[s].todo = {} /\ scans[s].row = None
    /\ Due # {}
    /\ scans' = [scans EXCEPT ![s].todo = {<<i, notes[i].count>> : i \in Due}]
    /\ UNCHANGED <<notes, budget>>

ScanDispatch(s) ==
    /\ scans[s].row = None
    /\ \E n \in scans[s].todo, a \in Answers :
          /\ scans' = [scans EXCEPT ![s] =
                         [todo |-> {m \in @.todo : m[1] # n[1]},
                          row |-> n[1], read |-> n[2], ok |-> Ok(a)]]
          /\ notes' = [notes EXCEPT ![n[1]] = Sent(@, a)]
    /\ UNCHANGED budget

\* Mutant of Delivered: the row is only taken off the schedule of one scan.
DeliveredLater(n) == [n EXCEPT !.next = "later"]

Delivered(n) == [n EXCEPT !.delivered = TRUE, !.next = "none"]

\* Mutant of Refused: gives up one attempt early.
RefusedEarly(n, read) ==
    [n EXCEPT !.count = @ + 1,
              !.next = IF read + 2 >= MaxAttempts THEN "none" ELSE "later"]

(* The pause and the decision to give up come from the count the scan read,*)
(* the increment from the one in the row.                                  *)
Refused(n, read) ==
    [n EXCEPT !.count = @ + 1,
              !.next = IF read + 1 >= MaxAttempts THEN "none" ELSE "later"]

ScanUpdate(s) ==
    /\ scans[s].row # None
    /\ LET i == scans[s].row
           n == notes[i] IN
       notes' = [notes EXCEPT ![i] =
                   IF n.delivered THEN n
                   ELSE IF scans[s].ok THEN Delivered(n)
                   ELSE Refused(n, scans[s].read)]
    /\ scans' = [scans EXCEPT ![s].row = None, ![s].read = 0, ![s].ok = FALSE]
    /\ UNCHANGED budget

(* A stop of the process, or an update that fails, ends the scan.          *)
ScanStops(s) ==
    /\ scans[s] # Unread /\ budget.mishaps > 0
    /\ budget' = [budget EXCEPT !.mishaps = @ - 1]
    /\ scans' = [scans EXCEPT ![s] = Unread]
    /\ notes' = [i \in NoteIds |->
                   IF i = scans[s].row /\ scans[s].ok
                   THEN [notes[i] EXCEPT !.redo = @ + 1] ELSE notes[i]]

Scan(s) == ScanRead(s) \/ ScanDispatch(s) \/ ScanUpdate(s)

NotifyStep == \/ \E i \in NoteIds : Resend(i) \/ FallsDue(i)
              \/ \E s \in Scanners : Scan(s) \/ ScanStops(s)

(* The other components may send a notice, or fail to record it, any time. *)
Tells == \E topic \in Topics, a \in Answers :
             Notice(topic, a) /\ UNCHANGED <<scans, budget>>
MishapElsewhere == /\ budget.mishaps > 0
                   /\ budget' = [budget EXCEPT !.mishaps = @ - 1]
                   /\ UNCHANGED <<notes, scans>>

NotifyNext == NotifyStep \/ Tells \/ MishapElsewhere
NotifySpec == NotifyInit /\ [][NotifyNext]_notifyVars

(* The cron job runs every five minutes and time passes.                   *)
NotifyFairness ==
    /\ \A s \in Scanners : WF_notifyVars(Scan(s))
    /\ \A i \in NoteIds : WF_notifyVars(FallsDue(i))

-----------------------------------------------------------------------------
(* Properties *)

NotifyTypeOK ==
    /\ notes \in [NoteIds -> [about: Topics \cup {None}, delivered: BOOLEAN,
                              count: Nat, next: {"none", "later", "due"},
                              resent: BOOLEAN, tries: Nat, copies: Nat,
                              redo: Nat]]
    /\ scans \in [Scanners -> [todo: SUBSET (NoteIds \X Nat),
                               row: NoteIds \cup {None}, read: Nat,
                               ok: BOOLEAN]]
    /\ budget \in BudgetType

(* A notice is given up, off the schedule or past the limit, only after it *)
(* was sent once and repeated MaxAttempts times without an answer that the *)
(* provider took it, though scans overlap, stop or write what they read    *)
(* long ago.  A console resend is recorded and never repeated.             *)
NeverGivenUpEarly ==
    \A i \in NoteIds :
        /\ notes[i].about # None /\ ~notes[i].resent /\ ~notes[i].delivered
        /\ notes[i].next = "none" \/ notes[i].count >= MaxAttempts
        => notes[i].tries > MaxAttempts

(* The customer gets a notice once, but for one copy of each scan that     *)
(* overlaps the one that delivers it.  Excepted by name (redo): a copy for *)
(* each send whose answer was lost, and for each scan that stops between   *)
(* the provider's answer and the row; such a notice is repeated although   *)
(* the customer has it, up to MaxAttempts times.                           *)
CopiesBounded ==
    \A i \in NoteIds : notes[i].copies <= notes[i].redo + Cardinality(Scanners)

RetriesBounded == NeverGivenUpEarly /\ CopiesBounded

(* Every notice the provider refuses is repeated until it is taken or its  *)
(* attempts are used up: no row stays between the two.                     *)
NoticesSettle ==
    \A i \in NoteIds :
        []<>(\/ notes[i].about = None \/ notes[i].resent
             \/ notes[i].delivered \/ notes[i].count >= MaxAttempts)
=============================================================================
