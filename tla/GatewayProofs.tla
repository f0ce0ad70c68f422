--------------------------- MODULE GatewayProofs ----------------------------
(***************************************************************************)
(* Theorems about Gateway, for any number of payments and handlers, any    *)
(* deposit and bill, and any number of restarts.                           *)
(***************************************************************************)
EXTENDS Gateway, TLAPS

\* AfterPayment keeps a status a status, whatever the amounts.
LEMMA AfterPaymentType ==
    ASSUME NEW s \in InvoiceStatus, NEW x, NEW y
    PROVE  AfterPayment(s, x, y) \in InvoiceStatus
  BY DEF AfterPayment, InvoiceStatus

\* A request slot keeps its type when its handler moves on, is freed or taken.
SlotType == [Slots -> [pay : Payments \cup {None}, seen : BOOLEAN,
                       at : {"idle", "validated", "accepted", "priced", "written"}]]

LEMMA SlotSteps ==
    ASSUME slot \in SlotType, NEW s \in Slots
    PROVE  /\ Free(s) => slot' \in SlotType
           /\ \A at \in {"accepted", "priced", "written"} :
                To(s, at) => slot' \in SlotType
           /\ \A p \in Payments, seen \in BOOLEAN, at \in {"validated", "accepted"} :
                Take(s, p, at, seen) => slot' \in SlotType
<1> DEFINE Rec == [pay : Payments \cup {None}, seen : BOOLEAN,
                   at : {"idle", "validated", "accepted", "priced", "written"}]
<1>1. slot \in [Slots -> Rec] /\ slot[s] \in Rec
  BY DEF SlotType
<1>2. Idle \in Rec
  BY DEF Idle
<1>3. ASSUME NEW at \in {"accepted", "priced", "written"}
      PROVE  [slot[s] EXCEPT !.at = at] \in Rec
  BY <1>1
<1>4. ASSUME NEW p \in Payments, NEW seen \in BOOLEAN,
             NEW at \in {"validated", "accepted"}
      PROVE  [pay |-> p, seen |-> seen, at |-> at] \in Rec
  OBVIOUS
<1> HIDE DEF Rec
<1>5. \A r \in Rec : [slot EXCEPT ![s] = r] \in [Slots -> Rec]
  BY <1>1
<1>6. SlotType = [Slots -> Rec]
  BY DEF SlotType, Rec
<1>7. QED
  BY <1>2, <1>3, <1>4, <1>5, <1>6 DEF Free, To, Take

\* Only a busy slot has a payment: what its handler works on.
Busy == \A s \in Slots : slot[s].at # "idle" => slot[s].pay \in Payments

\* A handler that moves on keeps its payment.
LEMMA BusySteps ==
    ASSUME slot \in SlotType, Busy, NEW s \in Slots
    PROVE  /\ Free(s) => Busy'
           /\ \A at \in {"accepted", "priced", "written"} :
                slot[s].at # "idle" /\ To(s, at) => Busy'
           /\ \A p \in Payments, seen \in BOOLEAN, at \in {"validated", "accepted"} :
                Take(s, p, at, seen) => Busy'
  BY DEF SlotType, Busy, Free, To, Take, Idle

-----------------------------------------------------------------------------
(***************************************************************************)
(* Types                                                                   *)
(***************************************************************************)
Typed == TypeOK /\ Busy

\* The initial rows have their types and no slot is busy.
LEMMA TypedInit == Init => Typed
<1> SUFFICES ASSUME Init PROVE Typed
  OBVIOUS
<1>1. slot \in SlotType /\ Busy
  BY DEF Init, Idle, SlotType, Busy
<1>2. status \in InvoiceStatus
  BY DEF Init, InvoiceStatus
<1>3. QED
  BY <1>1, <1>2, GatewayAssumption DEF Init, Typed, TypeOK, SlotType

\* What the customer, the gateway, the clock, the host and the counter do keeps
\* the types.
LEMMA TypedOutside ==
    ASSUME Typed, Customer \/ Others \/ \E s \in Slots, p \in Payments : Notify(s, p)
    PROVE  Typed'
<1> USE GatewayAssumption
<1>0. slot \in SlotType /\ Busy
  BY DEF Typed, TypeOK, SlotType
<1>1. ASSUME NEW p \in Payments, NEW t \in {"intent", "invoice"}, NEW a \in 1..Total,
             Initiate(p, t, a)
      PROVE  Typed'
  BY <1>1 DEF Typed, TypeOK, Busy, Initiate, Resolve, checkout, invoice, answers
<1>2. ASSUME NEW p \in Payments, NEW t \in {"intent", "invoice"}, NEW a \in 1..Total,
             NEW s \in Slots, DevSettle(s, p, t, a)
      PROVE  Typed'
  <2>1. slot' \in SlotType /\ Busy'
    BY <1>0, <1>2, SlotSteps, BusySteps DEF DevSettle
  <2>2. QED
    BY <1>2, <2>1 DEF Typed, TypeOK, SlotType, DevSettle, Resolve, checkout,
                     invoice, answers
<1>3. ASSUME NEW p \in Payments, NEW a \in (1..Total) \cup OddAmounts, Capture(p, a)
      PROVE  Typed'
  <2>1. captured' \in [Payments -> Nat]
    BY <1>3 DEF Typed, TypeOK, Capture
  <2>2. foreign' \subseteq Payments
    BY <1>3 DEF Typed, TypeOK, Capture
  <2>3. UNCHANGED <<target, asking, settled, checkout, invoice, answers, slot, crashes>>
    BY <1>3 DEF Capture
  <2>4. QED
    BY <2>1, <2>2, <2>3 DEF Typed, TypeOK, Busy, checkout, invoice, answers
<1>4. ASSUME NEW s \in Slots, NEW p \in Payments, Notify(s, p)
      PROVE  Typed'
  <2>1. (p \in recorded) \in BOOLEAN
    OBVIOUS
  <2>2. slot' \in SlotType /\ Busy'
    <3>1. CASE p \in foreign
      BY <1>0, <1>4, <3>1 DEF Notify, Busy
    <3>2. CASE p \notin foreign
      BY <1>0, <1>4, <2>1, <3>2, SlotSteps, BusySteps DEF Notify
    <3>3. QED
      BY <3>1, <3>2
  <2>3. QED
    BY <1>4, <2>2 DEF Typed, TypeOK, SlotType, Notify, checkout, invoice, pages,
                     answers
<1>5. ASSUME Crash PROVE Typed'
  <2>1. slot' \in SlotType /\ Busy'
    BY <1>5 DEF Crash, Idle, SlotType, Busy
  <2>2. QED
    BY <1>5, <2>1 DEF Typed, TypeOK, SlotType, Crash, checkout, invoice, pages,
                     answers
<1>6. ASSUME ExpireIntent \/ LoseHolds \/ HostToggles PROVE Typed'
  BY <1>6 DEF Typed, TypeOK, Busy, ExpireIntent, LoseHolds, HostToggles, invoice,
              pages, answers
<1>7. ASSUME NEW a \in 1..Total, CounterPayment(a) PROVE Typed'
  <2>1. status' \in InvoiceStatus
    BY <1>7, AfterPaymentType DEF CounterPayment, Typed, TypeOK
  <2>2. QED
    BY <1>7, <2>1 DEF Typed, TypeOK, Busy, CounterPayment, checkout, pages, answers
<1>8. ASSUME NEW to \in {"paid", "payout_approved", "cancelled"}, InvoiceMoves(to)
      PROVE  Typed'
  BY <1>8 DEF Typed, TypeOK, Busy, InvoiceMoves, InvoiceStatus, checkout, pages,
              answers
<1>9. QED
  BY <1>1, <1>2, <1>3, <1>4, <1>5, <1>6, <1>7, <1>8 DEF Customer, Others

\* So does every step of a handler.
LEMMA TypedHandle ==
    ASSUME Typed, NEW s \in Slots, Handle(s)
    PROVE  Typed'
<1> USE GatewayAssumption
<1>0. slot \in SlotType /\ Busy
  BY DEF Typed, TypeOK, SlotType
<1>1. ASSUME slot[s].at # "idle" PROVE slot[s].pay \in Payments
  BY <1>0, <1>1 DEF Busy
<1>2. ASSUME Throw(s) PROVE Typed'
  <2>1. slot' \in SlotType /\ Busy'
    BY <1>0, <1>2, SlotSteps, BusySteps DEF Throw
  <2>2. QED
    BY <1>2, <2>1 DEF Typed, TypeOK, SlotType, Throw, checkout, invoice, pages, answers
<1>3. ASSUME slot[s].at # "idle", Ack(s), audited' \subseteq audited \cup {slot[s].pay},
             unlisted' \subseteq unlisted \cup {slot[s].pay},
             UNCHANGED <<checkout, invoice, pages, crashes>>
      PROVE  Typed'
  <2>1. slot' \in SlotType /\ Busy'
    BY <1>0, <1>3, SlotSteps, BusySteps DEF Ack
  <2>2. QED
    BY <1>1, <1>3, <2>1 DEF Typed, TypeOK, SlotType, Ack, checkout, invoice, pages
<1>4. ASSUME slot[s].at # "idle", NEW at \in {"accepted", "priced"}, To(s, at),
             UNCHANGED <<answers, checkout, invoice, pages, crashes>>
      PROVE  Typed'
  <2>1. slot' \in SlotType /\ Busy'
    BY <1>0, <1>4, SlotSteps, BusySteps
  <2>2. QED
    BY <1>4, <2>1 DEF Typed, TypeOK, SlotType, checkout, invoice, pages, answers
<1>5. ASSUME slot[s].at # "idle", NEW c \in 0..MaxCredit, Book(s, c) PROVE Typed'
  <2>1. slot' \in SlotType /\ Busy'
    BY <1>0, <1>5, SlotSteps, BusySteps DEF Book
  <2>2. status' \in InvoiceStatus
    BY <1>5, AfterPaymentType DEF Book, InvoiceStatus
  <2>3. amountPaid' \in Nat /\ other' \in Nat /\ bookings' \in Nat
    BY <1>1, <1>5 DEF Typed, TypeOK, Book
  <2>4. QED
    BY <1>1, <1>5, <2>1, <2>2, <2>3 DEF Typed, TypeOK, SlotType, Book, pages, answers
<1>6. ASSUME slot[s].at # "idle", AddPayment(s) PROVE Typed'
  <2>1. slot' \in SlotType /\ Busy'
    BY <1>0, <1>6, SlotSteps, BusySteps DEF AddPayment
  <2>2. status' \in InvoiceStatus
    BY <1>6, AfterPaymentType DEF AddPayment, Typed, TypeOK
  <2>3. amountPaid' \in Nat
    BY <1>1, <1>6 DEF Typed, TypeOK, AddPayment
  <2>4. QED
    BY <1>1, <1>6, <2>1, <2>2, <2>3 DEF Typed, TypeOK, SlotType, AddPayment, checkout,
                                        pages, answers
<1>7. CASE Reconcile(s)
  BY <1>3, <1>4, <1>7 DEF Reconcile, answers
<1>8. CASE ConfirmRead(s)
  BY <1>2, <1>3, <1>4, <1>8 DEF ConfirmRead
<1>9. CASE ConfirmCommit(s)
  BY <1>2, <1>3, <1>5, <1>9 DEF ConfirmCommit
<1>10. CASE Record(s)
  BY <1>3, <1>6, <1>10 DEF Record, AtRecord
<1>11. CASE Answer(s)
  BY <1>3, <1>11 DEF Answer
<1>12. QED
  BY <1>7, <1>8, <1>9, <1>10, <1>11 DEF Handle

\* TypeOK is an invariant: rows, pages and handlers keep their types in every
\* interleaving of notifications, restarts and payments.
THEOREM TypeCorrect == Spec => []TypeOK
<1>1. Init => Typed
  BY TypedInit
<1>2. Typed /\ [Next]_vars => Typed'
  <2> SUFFICES ASSUME Typed, [Next]_vars PROVE Typed'
    OBVIOUS
  <2>1. CASE UNCHANGED vars
    BY <2>1 DEF Typed, TypeOK, Busy, vars, checkout, invoice, pages, answers
  <2>2. CASE Next
    BY <2>2, TypedOutside, TypedHandle DEF Next
  <2>3. QED
    BY <2>1, <2>2
<1>3. Typed => TypeOK
  BY DEF Typed
<1>4. QED
  BY <1>1, <1>2, <1>3, PTL DEF Spec

-----------------------------------------------------------------------------
(***************************************************************************)
(* One booking per intent                                                  *)
(***************************************************************************)

\* An intent becomes at most one booking: a transaction that books finds the
\* intent still requested under its lock, and nothing else counts a booking.
THEOREM BookedOnce == Spec => []OneBookingPerIntent
<1>1. Init => OneBookingPerIntent
  BY DEF Init, OneBookingPerIntent
<1>2. OneBookingPerIntent /\ [Next]_vars => OneBookingPerIntent'
  <2> SUFFICES ASSUME OneBookingPerIntent, [Next]_vars PROVE OneBookingPerIntent'
    OBVIOUS
  <2> USE DEF OneBookingPerIntent
  <2>1. ASSUME UNCHANGED checkout PROVE OneBookingPerIntent'
    BY <2>1 DEF checkout
  <2>2. CASE UNCHANGED vars
    BY <2>1, <2>2 DEF vars
  <2>3. CASE Customer
    BY <2>1, <2>3 DEF Customer, Initiate, DevSettle, Capture
  <2>4. CASE Others
    BY <2>1, <2>4 DEF Others, Crash, ExpireIntent, LoseHolds, HostToggles,
                      CounterPayment, InvoiceMoves
  <2>5. ASSUME NEW s \in Slots, Handle(s) PROVE OneBookingPerIntent'
    <3>1. CASE Reconcile(s)
      BY <2>1, <3>1 DEF Reconcile
    <3>2. CASE ConfirmRead(s)
      BY <2>1, <3>2 DEF ConfirmRead, Throw
    <3>3. CASE ConfirmCommit(s)
      BY <2>1, <3>3 DEF ConfirmCommit, Throw, Book
    <3>4. CASE Record(s)
      BY <2>1, <3>4 DEF Record, AddPayment
    <3>5. CASE Answer(s)
      BY <2>1, <3>5 DEF Answer
    <3>6. QED
      BY <2>5, <3>1, <3>2, <3>3, <3>4, <3>5 DEF Handle
  <2>6. ASSUME NEW s \in Slots, NEW p \in Payments, Notify(s, p)
        PROVE  OneBookingPerIntent'
    BY <2>1, <2>6 DEF Notify
  <2>7. QED
    BY <2>2, <2>3, <2>4, <2>5, <2>6 DEF Next
<1>3. QED
  BY <1>1, <1>2, PTL DEF Spec

-----------------------------------------------------------------------------
(***************************************************************************)
(* No payment is acknowledged and lost                                     *)
(***************************************************************************)

\* The only page of the intent is the recorded one once the intent is consumed;
\* a handler that has written has recorded its payment.
OnePage ==
    /\ \A p, q \in Payments : target[p] = "intent" /\ target[q] = "intent" => p = q
    /\ intent = "consumed" =>
         \A p \in Payments : target[p] = "intent" => p \in recorded
    /\ \A s \in Slots :
         /\ slot[s].at = "written" => slot[s].pay \in recorded
         /\ slot[s].at = "priced" => target[slot[s].pay] = "intent"

\* What got a success has a row, or is excepted by name in NeverSilent.
Answered == acked \ (foreign \cup unlisted) \subseteq recorded \cup audited

Accounted == Typed /\ (settled = {} => OnePage /\ Answered)

\* A step that leaves the pages, the rows and the answers alone, and whose slots
\* are as before, idle or newly validated or accepted, keeps the accounts.
LEMMA AccountedQuiet ==
    ASSUME Accounted, UNCHANGED <<pages, intent, recorded, answers>>,
           \A s \in Slots : slot'[s] = slot[s]
                              \/ slot'[s].at \in {"idle", "validated", "accepted"}
    PROVE  settled' = {} => OnePage' /\ Answered'
  BY DEF Accounted, OnePage, Answered, pages, answers

\* Opening a page, paying on it and settling without one.
LEMMA AccountedCustomer ==
    ASSUME Accounted, ~SecondPage, Customer
    PROVE  settled' = {} => OnePage' /\ Answered'
<1> SUFFICES ASSUME settled' = {}
             PROVE  OnePage' /\ Answered'
  OBVIOUS
<1>0. Typed /\ TypeOK
  BY DEF Accounted, Typed
<1>1. ASSUME NEW p \in Payments, NEW t \in {"intent", "invoice"}, NEW a \in 1..Total,
             Initiate(p, t, a)
      PROVE  OnePage' /\ Answered'
  <2>1. /\ settled = {} /\ OnePage /\ Answered
        /\ UNCHANGED <<intent, recorded, foreign, acked, audited, unlisted, slot>>
    BY <1>1 DEF Initiate, Accounted, checkout, invoice, answers
  <2>2. /\ target[p] = "none" /\ target' = [target EXCEPT ![p] = t]
        /\ t = "intent" => intent = "requested"
                           /\ \A q \in Payments : target[q] # "intent"
    BY <1>1, <2>1 DEF Initiate, Resolve, Payable
  <2>3. \A q \in Payments : target'[q] = IF q = p THEN t ELSE target[q]
    BY <1>0, <2>2 DEF TypeOK
  <2>4. \A s \in Slots : slot[s].at = "priced" => slot[s].pay \in Payments
    BY <1>0 DEF Typed, Busy
  <2>5. QED
    BY <2>1, <2>2, <2>3, <2>4 DEF OnePage, Answered
<1>2. ASSUME NEW p \in Payments, NEW t \in {"intent", "invoice"}, NEW a \in 1..Total,
             NEW s \in Slots, DevSettle(s, p, t, a)
      PROVE  FALSE
  BY <1>2 DEF DevSettle
<1>3. ASSUME NEW p \in Payments, NEW a \in (1..Total) \cup OddAmounts, Capture(p, a)
      PROVE  OnePage' /\ Answered'
  BY <1>3 DEF Capture, Accounted, OnePage, Answered, checkout, invoice, answers
<1>4. QED
  BY <1>1, <1>2, <1>3 DEF Customer

\* Restarts, the clock, the host and the counter.
LEMMA AccountedOthers ==
    ASSUME Accounted, Others
    PROVE  settled' = {} => OnePage' /\ Answered'
<1>1. CASE Crash
  <2>1. \A s \in Slots : slot'[s].at = "idle"
    BY <1>1 DEF Crash, Idle
  <2>2. UNCHANGED <<pages, intent, recorded, answers>>
    BY <1>1 DEF Crash, checkout, invoice
  <2>3. QED
    BY <2>1, <2>2, AccountedQuiet
<1>2. CASE ExpireIntent
  BY <1>2 DEF ExpireIntent, Accounted, OnePage, Answered, invoice, pages, answers
<1>3. ASSUME UNCHANGED <<pages, intent, recorded, answers, slot>>
      PROVE  settled' = {} => OnePage' /\ Answered'
  BY <1>3, AccountedQuiet
<1>4. QED
  BY <1>1, <1>2, <1>3 DEF Others, LoseHolds, HostToggles, CounterPayment,
                          InvoiceMoves, checkout, invoice

\* Every step of a handler: whatever gets a success is recorded or audited.
LEMMA AccountedHandle ==
    ASSUME Accounted, NEW s \in Slots, Handle(s)
    PROVE  settled' = {} => OnePage' /\ Answered'
<1> DEFINE Goal == OnePage' /\ Answered'
           P == slot[s].pay
<1> SUFFICES ASSUME settled' = {} PROVE Goal
  OBVIOUS
<1>1. slot \in SlotType /\ TypeOK /\ (slot[s].at # "idle" => P \in Payments)
  BY DEF Accounted, Typed, TypeOK, SlotType, Busy
<1>2. UNCHANGED pages
  BY DEF Handle, Reconcile, ConfirmRead, ConfirmCommit, Record, Answer, Throw, Book,
         AddPayment
<1>3. settled = {} /\ OnePage /\ Answered
  BY <1>2 DEF pages, Accounted
<1>4. ASSUME Ack(s), P \in recorded \cup audited' \cup unlisted',
             UNCHANGED <<intent, recorded>>,
             audited \subseteq audited', unlisted \subseteq unlisted'
      PROVE  Goal
  <2>1. \A x \in Slots : slot'[x] = IF x = s THEN Idle ELSE slot[x]
    BY <1>1, <1>4 DEF Ack, Free, SlotType
  <2>2. QED
    BY <1>2, <1>3, <1>4, <2>1 DEF OnePage, Answered, Ack, Idle, pages
<1>5. ASSUME Throw(s) PROVE Goal
  <2>1. \A x \in Slots : slot'[x] = IF x = s THEN Idle ELSE slot[x]
    BY <1>1, <1>5 DEF Throw, Free, SlotType
  <2>2. QED
    BY <1>2, <1>3, <1>5, <2>1 DEF OnePage, Answered, Throw, Idle, pages, checkout,
                                  invoice, answers
<1>6. ASSUME NEW at \in {"accepted", "priced", "written"}, To(s, at)
      PROVE  \A x \in Slots : /\ slot'[x].pay = slot[x].pay
                               /\ slot'[x].at = IF x = s THEN at ELSE slot[x].at
  BY <1>1, <1>6 DEF To, SlotType
<1>7. CASE Reconcile(s)
  <2>1. CASE /\ Ack(s)
             /\ \/ audited' = audited \cup {P} /\ UNCHANGED unlisted
                \/ unlisted' = unlisted \cup {P} /\ UNCHANGED audited
    BY <1>4, <1>7, <2>1 DEF Reconcile, checkout, invoice
  <2>2. CASE To(s, "accepted") /\ UNCHANGED answers
    BY <1>2, <1>3, <1>6, <1>7, <2>2 DEF Reconcile, OnePage, Answered, answers, pages,
                                        checkout, invoice
  <2>3. QED
    BY <1>7, <2>1, <2>2 DEF Reconcile
<1>8. CASE ConfirmRead(s)
  <2>1. CASE /\ intent = "consumed" /\ Ack(s)
             /\ UNCHANGED <<audited, unlisted, checkout, invoice>>
    <3>1. P \in recorded
      BY <1>1, <1>3, <1>8, <2>1 DEF ConfirmRead, OnePage, Answered
    <3>2. QED
      BY <1>4, <2>1, <3>1 DEF checkout, invoice
  <2>2. CASE To(s, "priced") /\ UNCHANGED <<answers, checkout, invoice>>
    BY <1>2, <1>3, <1>6, <1>8, <2>2 DEF ConfirmRead, OnePage, Answered, answers, pages,
                                        checkout, invoice
  <2>3. QED
    BY <1>5, <1>8, <2>1, <2>2 DEF ConfirmRead
<1>9. CASE ConfirmCommit(s)
  <2>0. target[P] = "intent" /\ P \in Payments
    BY <1>1, <1>3, <1>9 DEF ConfirmCommit, OnePage, Answered
  <2>1. CASE /\ intent = "consumed" /\ Ack(s)
             /\ UNCHANGED <<audited, unlisted, checkout, invoice>>
    <3>1. P \in recorded
      BY <1>3, <2>0, <2>1 DEF OnePage, Answered
    <3>2. QED
      BY <1>4, <2>1, <3>1 DEF checkout, invoice
  <2>2. ASSUME NEW c \in 0..MaxCredit, Book(s, c) PROVE Goal
    <3>1. /\ recorded' = recorded \cup {P} /\ UNCHANGED answers
          /\ To(s, "written") /\ UNCHANGED <<target, foreign>>
      BY <1>2, <2>2 DEF Book, pages
    <3>2. QED
      BY <1>3, <1>6, <2>0, <3>1 DEF OnePage, Answered, answers
  <2>3. QED
    BY <1>5, <1>9, <2>1, <2>2 DEF ConfirmCommit
<1>10. CASE Record(s)
  <2>1. CASE /\ Ack(s) /\ audited' = audited \cup {P}
             /\ UNCHANGED <<unlisted, checkout, invoice>>
    BY <1>4, <2>1 DEF checkout, invoice
  <2>2. CASE /\ P \in recorded /\ Ack(s)
             /\ UNCHANGED <<audited, unlisted, checkout, invoice>>
    BY <1>4, <2>2 DEF checkout, invoice
  <2>3. CASE AddPayment(s)
    <3>1. /\ recorded' = recorded \cup {P} /\ UNCHANGED <<answers, intent>>
          /\ To(s, "written") /\ UNCHANGED <<target, foreign>>
      BY <1>2, <2>3 DEF AddPayment, pages, checkout
    <3>2. QED
      BY <1>3, <1>6, <3>1 DEF OnePage, Answered, answers
  <2>4. QED
    BY <1>10, <2>1, <2>2, <2>3 DEF Record
<1>11. CASE Answer(s)
  <2>1. P \in recorded
    BY <1>3, <1>11 DEF Answer, OnePage, Answered
  <2>2. QED
    BY <1>4, <1>11, <2>1 DEF Answer, checkout, invoice
<1>12. QED
  BY <1>7, <1>8, <1>9, <1>10, <1>11 DEF Handle

\* Where an intent has one paid page, no captured payment gets a success without
\* a row: replays, concurrent handlers and restarts included.
THEOREM NothingIsLost == ASSUME ~SecondPage PROVE Spec => []NeverSilent
<1>1. Init => Accounted
  BY TypedInit DEF Init, Accounted, OnePage, Answered, Idle
<1>2. Accounted /\ [Next]_vars => Accounted'
  <2> SUFFICES ASSUME Accounted, [Next]_vars PROVE Accounted'
    OBVIOUS
  <2>1. Typed'
    <3>1. CASE UNCHANGED vars
      BY <3>1 DEF Accounted, Typed, TypeOK, Busy, vars, checkout, invoice, pages, answers
    <3>2. CASE Next
      BY <3>2, TypedOutside, TypedHandle DEF Accounted, Next
    <3>3. QED
      BY <3>1, <3>2
  <2>2. CASE UNCHANGED vars
    BY <2>1, <2>2, AccountedQuiet DEF vars, checkout, invoice, Accounted
  <2>3. ASSUME NEW s \in Slots, NEW p \in Payments, Notify(s, p)
        PROVE  settled' = {} => OnePage' /\ Answered'
    <3>1. UNCHANGED <<pages, intent, recorded>>
      BY <2>3 DEF Notify, checkout, invoice
    <3>2. CASE p \in foreign
      BY <2>3, <3>1, <3>2 DEF Notify, Accounted, OnePage, Answered, pages
    <3>3. CASE p \notin foreign
      <4>1. \A x \in Slots : slot'[x] = slot[x] \/ slot'[x].at = "validated"
        BY <2>3, <3>3 DEF Notify, Take, Accounted, Typed, TypeOK
      <4>2. UNCHANGED answers
        BY <2>3, <3>3 DEF Notify
      <4>3. QED
        BY <3>1, <4>1, <4>2, AccountedQuiet
    <3>4. QED
      BY <3>2, <3>3
  <2>4. QED
    BY <2>1, <2>2, <2>3, AccountedCustomer, AccountedOthers, AccountedHandle
       DEF Next, Accounted
<1>3. Accounted => NeverSilent
  BY DEF Accounted, Answered, NeverSilent
<1>4. QED
  BY <1>1, <1>2, <1>3, PTL DEF Spec
=============================================================================
