------------------------------ MODULE Gateway -------------------------------
(***************************************************************************)
(* Card and mobile payments of ONE checkout: the hosted pages opened for   *)
(* its booking intent and, once the booking exists, for its invoice; the   *)
(* payments captured on them; and the notifications (IPN) with which the   *)
(* gateway reports a captured payment, again and again until it gets a     *)
(* success.  Source: gateway.controller, confirmIntent of booking.service, *)
(* recordGatewayPayment of payments.service.                               *)
(*                                                                         *)
(* A notification is handled in several steps, in one of a few request     *)
(* slots; the same payment may be in several slots at once, and the server *)
(* may stop between any two steps.  The gateway itself is external: it may *)
(* repeat or delay a notification, and keeps repeating an unanswered one.  *)
(***************************************************************************)
EXTENDS InvoiceState, FiniteSetsExt

CONSTANTS
    Payments,     \* payments: one hosted page, one val_id each
    Slots,        \* notifications handled at the same time (bound)
    None,         \* no payment
    MinDeposit,   \* booking_intent.min_deposit
    Total,        \* display_total of the intent and of its invoice
    OddAmounts,   \* amounts the validator may report that no page asked for
    MaxCredit,    \* wallet credit the checkout may spend (bound)
    SecondPage,   \* TRUE: two pages of the intent may be paid
    Bypass,       \* PAYMENTS_BYPASS: dev/settle is open
    MaxCrashes    \* restarts of the server (bound)

ASSUME GatewayAssumption ==
    /\ None \notin Payments
    /\ Total \in Nat /\ MinDeposit \in 1..Total
    /\ OddAmounts \subseteq Nat /\ MaxCredit \in Nat /\ MaxCrashes \in Nat
    /\ SecondPage \in BOOLEAN /\ Bypass \in BOOLEAN

VARIABLES
    intent,       \* booking_intent.status
    sellable,     \* the departure is scheduled (priceSelection)
    held,         \* the intent's cabins are live holds (createBookingTx)
    bookings,     \* bookings made from the intent
    status, amountPaid,       \* its invoice
    other,        \* paid otherwise: wallet credit and counter payments
    target, asking,           \* per payment: what its page is for, its amount
    captured,     \* per payment: the amount the validator reports, 0 before
    foreign,      \* captured payments the validator does not report in Taka
    settled,      \* payments made by dev/settle, which captures no money
    recorded,     \* payments with an invoice_payment row (gateway_token)
    audited,      \* payments with an audit row for manual reconciliation
    unlisted,     \* mismatches whose audit row failed, and were answered all the same
    acked,        \* payments whose notification got a success
    slot,         \* the handlers
    crashes

pages    == <<target, asking, captured, foreign, settled>>
checkout == <<intent, sellable, held, bookings>>
invoice  == <<status, amountPaid, other, recorded>>
answers  == <<audited, unlisted, acked>>
vars     == <<checkout, invoice, pages, answers, slot, crashes>>

-----------------------------------------------------------------------------
TypeOK ==
    /\ intent \in {"none", "requested", "consumed", "expired"}
    /\ sellable \in BOOLEAN /\ held \in BOOLEAN
    /\ bookings \in Nat
    /\ status \in InvoiceStatus /\ amountPaid \in Nat /\ other \in Nat
    /\ target \in [Payments -> {"none", "intent", "invoice"}]
    /\ asking \in [Payments -> Nat]
    /\ captured \in [Payments -> Nat]
    /\ {foreign, settled, recorded, audited, unlisted, acked} \subseteq SUBSET Payments
    /\ slot \in [Slots -> [pay : Payments \cup {None}, seen : BOOLEAN,
                           at : {"idle", "validated", "accepted", "priced",
                                 "written"}]]
    /\ crashes \in 0..MaxCrashes

Idle == [pay |-> None, seen |-> FALSE, at |-> "idle"]

\* createIntent: the intent of live holds on a scheduled departure.  Or a booking
\* made without one (at the counter, a buyout, a join), with its invoice.
Init ==
    /\ sellable = TRUE /\ held = TRUE
    /\ \/ intent = "requested" /\ bookings = 0
       \/ intent = "none" /\ bookings = 1
    /\ status = "customer_due" /\ amountPaid = 0 /\ other = 0
    /\ target = [p \in Payments |-> "none"]
    /\ asking = [p \in Payments |-> 0]
    /\ captured = [p \in Payments |-> 0]
    /\ foreign = {} /\ settled = {} /\ recorded = {}
    /\ audited = {} /\ unlisted = {} /\ acked = {}
    /\ slot = [s \in Slots |-> Idle]
    /\ crashes = 0

-----------------------------------------------------------------------------
Outstanding == Total - amountPaid

\* resolvePayment: what a page may be opened for, and the amounts it may ask.
Payable(t) ==
    \/ t = "intent" /\ intent = "requested" /\ held
    \/ t = "invoice" /\ bookings > 0 /\ status = "customer_due"
AmountsOf(t) == IF t = "intent" THEN MinDeposit..Total ELSE 1..Outstanding

Resolve(p, t, a) ==
    /\ target[p] = "none"
    /\ Payable(t) /\ a \in AmountsOf(t)
    /\ t = "intent" /\ ~SecondPage =>
         \A q \in Payments \ settled : target[q] # "intent"
    /\ target' = [target EXCEPT ![p] = t]
    /\ asking' = [asking EXCEPT ![p] = a]

\* initiate: the customer is sent to a hosted page.
Initiate(p, t, a) ==
    /\ Resolve(p, t, a)
    /\ UNCHANGED <<captured, foreign, settled, checkout, invoice, answers, slot,
                   crashes>>

\* The customer pays on the page; the validator's amount is trusted by nobody.
\* It may also report the payment in another currency than Taka.
Capture(p, a) ==
    /\ target[p] # "none" /\ captured[p] = 0
    /\ a \in {asking[p]} \cup OddAmounts
    /\ captured' = [captured EXCEPT ![p] = a]
    /\ \/ UNCHANGED foreign
       \/ foreign' = foreign \cup {p} /\ a = asking[p]
    /\ UNCHANGED <<target, asking, settled, checkout, invoice, answers, slot,
                   crashes>>

Take(s, p, at, seen) ==
    /\ slot[s].at = "idle"
    /\ slot' = [slot EXCEPT ![s] = [pay |-> p, seen |-> seen, at |-> at]]

\* dev/settle: no money, but confirmed like a notification, and never repeated.
DevSettle(s, p, t, a) ==
    /\ Bypass
    /\ Resolve(p, t, a)
    /\ captured' = [captured EXCEPT ![p] = a]
    /\ settled' = settled \cup {p}
    /\ Take(s, p, "accepted", FALSE)
    /\ UNCHANGED <<foreign, checkout, invoice, answers, crashes>>

-----------------------------------------------------------------------------
\* ipn: the payment is validated, and its token looked up.  What validate does
\* not take for a payment is answered with a success, and with nothing else.
Notify(s, p) ==
    /\ captured[p] > 0 /\ p \notin settled /\ slot[s].at = "idle"
    /\ IF p \in foreign
       THEN acked' = acked \cup {p} /\ UNCHANGED <<audited, unlisted, slot>>
       ELSE Take(s, p, "validated", p \in recorded) /\ UNCHANGED answers
    /\ UNCHANGED <<checkout, invoice, pages, crashes>>

To(s, at) == slot' = [slot EXCEPT ![s] = [@ EXCEPT !.at = at]]
Free(s) == slot' = [slot EXCEPT ![s] = Idle]
Ack(s) == Free(s) /\ acked' = acked \cup {slot[s].pay}

\* The handler throws: the gateway gets no success.
Throw(s) == Free(s) /\ UNCHANGED <<checkout, invoice, pages, answers, crashes>>

\* reconcileAmount, from reads of its own.
InBand(p) ==
    captured[p] \in IF target[p] = "intent" THEN MinDeposit..Total
                                            ELSE 1..Outstanding

\* A replay skips the band: the balance is already drawn down.
Accepts(s) == slot[s].seen \/ InBand(slot[s].pay)

\* Mutant of Reconcile: a mismatch is answered with an error.
ReconcileThrows(s) ==
    /\ slot[s].at = "validated"
    /\ IF Accepts(s)
       THEN /\ To(s, "accepted")
            /\ UNCHANGED <<checkout, invoice, pages, answers, crashes>>
       ELSE Throw(s)

\* A mismatch gets an audit row and a success; a success also if the row fails.
Reconcile(s) ==
    /\ slot[s].at = "validated"
    /\ IF Accepts(s)
       THEN To(s, "accepted") /\ UNCHANGED answers
       ELSE /\ Ack(s)
            /\ \/ audited' = audited \cup {slot[s].pay} /\ UNCHANGED unlisted
               \/ unlisted' = unlisted \cup {slot[s].pay} /\ UNCHANGED audited
    /\ UNCHANGED <<checkout, invoice, pages, crashes>>

-----------------------------------------------------------------------------
\* confirmIntent, before its transaction.
ConfirmRead(s) ==
    LET p == slot[s].pay IN
    /\ slot[s].at = "accepted" /\ target[p] = "intent"
    /\ \/ /\ intent = "consumed"
          /\ Ack(s)
          /\ UNCHANGED <<audited, unlisted, checkout, invoice, pages, crashes>>
       \/ /\ intent = "requested" /\ captured[p] >= MinDeposit /\ sellable
          /\ To(s, "priced")
          /\ UNCHANGED <<answers, checkout, invoice, pages, crashes>>
       \/ /\ intent # "consumed"
          /\ intent = "expired" \/ captured[p] < MinDeposit \/ ~sellable
          /\ Throw(s)

\* createBookingTx: the booking, its invoice and the deposit in one transaction,
\* then the wallet credit c toward what is left.
Book(s, c) ==
    LET p == slot[s].pay IN
    /\ c <= Total - captured[p] \/ c = 0
    /\ bookings' = bookings + 1
    /\ intent' = "consumed"
    /\ recorded' = recorded \cup {p}
    /\ amountPaid' = captured[p] + c
    /\ other' = c
    /\ status' = AfterPayment("customer_due", captured[p] + c, Total)
    /\ To(s, "written")
    /\ UNCHANGED <<sellable, held, pages, answers, crashes>>

\* Mutant of ConfirmCommit: the intent is not read again under its lock.
ConfirmUnchecked(s) ==
    /\ slot[s].at = "priced"
    /\ \/ held /\ \E c \in 0..MaxCredit : Book(s, c)
       \/ ~held /\ Throw(s)

\* confirmIntent, its transaction: the intent row is locked and read again.
ConfirmCommit(s) ==
    /\ slot[s].at = "priced"
    /\ \/ /\ intent = "consumed"
          /\ Ack(s)
          /\ UNCHANGED <<audited, unlisted, checkout, invoice, pages, crashes>>
       \/ intent = "requested" /\ held /\ \E c \in 0..MaxCredit : Book(s, c)
       \/ (intent = "expired" \/ (intent = "requested" /\ ~held)) /\ Throw(s)

-----------------------------------------------------------------------------
\* recordGatewayPayment: under the invoice's row lock.
AddPayment(s) ==
    LET p == slot[s].pay IN
    /\ recorded' = recorded \cup {p}
    /\ amountPaid' = amountPaid + captured[p]
    /\ status' = AfterPayment(status, amountPaid + captured[p], Total)
    /\ To(s, "written")
    /\ UNCHANGED <<other, checkout, pages, answers, crashes>>

AtRecord(s) == slot[s].at = "accepted" /\ target[slot[s].pay] = "invoice"

\* Mutants of Record: no unique index on gateway_token; a late payment is
\* dropped, or refused with an error.
RecordReplay(s) == AtRecord(s) /\ AddPayment(s)
RecordSilently(s) ==
    LET p == slot[s].pay IN
    /\ AtRecord(s)
    /\ IF status \in Frozen \/ p \in recorded
       THEN Ack(s) /\ UNCHANGED <<audited, unlisted, checkout, invoice, pages, crashes>>
       ELSE AddPayment(s)
RecordRefused(s) ==
    LET p == slot[s].pay IN
    /\ AtRecord(s)
    /\ IF status \in Frozen \/ p \in recorded THEN Throw(s) ELSE AddPayment(s)

\* A frozen invoice takes an audit row; a replay violates the unique index and
\* is a no-op.
Record(s) ==
    LET p == slot[s].pay IN
    /\ AtRecord(s)
    /\ \/ /\ status \in Frozen
          /\ Ack(s) /\ audited' = audited \cup {p}
          /\ UNCHANGED <<unlisted, checkout, invoice, pages, crashes>>
       \/ /\ status \notin Frozen /\ p \in recorded
          /\ Ack(s)
          /\ UNCHANGED <<audited, unlisted, checkout, invoice, pages, crashes>>
       \/ status \notin Frozen /\ p \notin recorded /\ AddPayment(s)

\* The e-ticket is sent and the notification answered.
Answer(s) ==
    /\ slot[s].at = "written"
    /\ Ack(s)
    /\ UNCHANGED <<audited, unlisted, checkout, invoice, pages, crashes>>

\* The server restarts: what was committed stays, nothing is answered.
Crash ==
    /\ crashes < MaxCrashes
    /\ crashes' = crashes + 1
    /\ \E s \in Slots : slot[s].at # "idle"
    /\ slot' = [s \in Slots |-> Idle]
    /\ UNCHANGED <<checkout, invoice, pages, answers>>

-----------------------------------------------------------------------------
\* Mutant of ExpireIntent: the status of a lapsed hold, which no intent has.
ExpireAsHold ==
    /\ intent = "requested"
    /\ intent' = "released"
    /\ UNCHANGED <<sellable, held, bookings, invoice, pages, answers, slot,
                   crashes>>

\* runSweep, of an intent past expires_at.
ExpireIntent ==
    /\ intent = "requested"
    /\ intent' = "expired"
    /\ UNCHANGED <<sellable, held, bookings, invoice, pages, answers, slot,
                   crashes>>

\* The holds lapse, are released, or are voided by a buyout.
LoseHolds ==
    /\ intent = "requested" /\ held
    /\ held' = FALSE
    /\ UNCHANGED <<intent, sellable, bookings, invoice, pages, answers, slot,
                   crashes>>

\* cancelDeparture and reviveDeparture; only an unpaid intent looks at it.
HostToggles ==
    /\ intent = "requested"
    /\ sellable' = ~sellable
    /\ UNCHANGED <<intent, held, bookings, invoice, pages, answers, slot, crashes>>

\* recordPayment, at the counter.
CounterPayment(a) ==
    /\ bookings > 0 /\ status \notin Frozen
    /\ amountPaid + a <= Total
    /\ amountPaid' = amountPaid + a
    /\ other' = other + a
    /\ status' = AfterPayment(status, amountPaid + a, Total)
    /\ UNCHANGED <<recorded, checkout, pages, answers, slot, crashes>>

\* cancel, and finance's approval and rejection.
InvoiceMoves(to) ==
    /\ bookings > 0
    /\ status = "customer_due" => to = "cancelled"
    /\ CanTransition(status, to)
    /\ status' = to
    /\ UNCHANGED <<amountPaid, other, recorded, checkout, pages, answers, slot,
                   crashes>>

-----------------------------------------------------------------------------
Handle(s) ==
    Reconcile(s) \/ ConfirmRead(s) \/ ConfirmCommit(s) \/ Record(s) \/ Answer(s)

Customer ==
    \E p \in Payments :
        \/ \E t \in {"intent", "invoice"}, a \in 1..Total :
             Initiate(p, t, a) \/ \E s \in Slots : DevSettle(s, p, t, a)
        \/ \E a \in (1..Total) \cup OddAmounts : Capture(p, a)

Others ==
    \/ Crash \/ ExpireIntent \/ LoseHolds \/ HostToggles
    \/ \E a \in 1..Total : CounterPayment(a)
    \/ \E to \in {"paid", "payout_approved", "cancelled"} : InvoiceMoves(to)

Next ==
    \/ Customer \/ Others
    \/ \E s \in Slots : Handle(s) \/ \E p \in Payments : Notify(s, p)

Spec == Init /\ [][Next]_vars

\* A running handler goes on, and the gateway repeats every notification that
\* got no success.  Strongly fair: other notifications may occupy the slots.
FairSpec ==
    /\ Spec
    /\ \A s \in Slots : WF_vars(Handle(s))
    /\ \A p \in Payments :
         SF_vars(p \notin acked /\ \E s \in Slots : Notify(s, p))

-----------------------------------------------------------------------------
(***************************************************************************)
(* Properties                                                              *)
(***************************************************************************)

\* An intent becomes one booking, however many notifications, pages and
\* dev/settle calls confirm it at once.
OneBookingPerIntent ==
    bookings = IF intent \in {"none", "consumed"} THEN 1 ELSE 0

\* amount_paid counts every recorded payment once: replays, two handlers of one
\* notification and restarts before the answer add nothing.
ReceiptsOnce ==
    amountPaid = other + MapThenSumSet(LAMBDA p : captured[p], recorded)

\* A captured payment the gateway was told is done is recorded or on the
\* reconciliation list: "never silently lost".  Excepted by name: a payment the
\* validator does not report in Taka, a mismatch whose audit row failed, and
\* checkouts dev/settle confirmed without money.
NeverSilent ==
    settled = {} => acked \ (foreign \cup unlisted) \subseteq recorded \cup audited

\* Every payment is answered for, once: captured money is recorded, and then
\* counted once, or listed for reconciliation (the row of a mismatch may fail),
\* and the gateway is told, so that it stops repeating it; unless it is not
\* recorded because it was a first deposit whose checkout was lost meanwhile, or
\* because it came in another currency.
CheckoutLost(p) ==
    /\ target[p] = "intent"
    /\ ~held \/ ~sellable \/ intent = "expired" \/ settled # {}
PaymentsAreAnswered ==
    /\ []ReceiptsOnce
    /\ \A p \in Payments :
        (captured[p] > 0 /\ p \notin settled \cup foreign) ~>
            \/ p \in acked \cap (recorded \cup audited \cup unlisted)
            \/ p \notin recorded /\ CheckoutLost(p)

\* Only a payment nobody recorded is listed for reconciliation.
NoFalseAlarm == audited \cap recorded = {}
=============================================================================
