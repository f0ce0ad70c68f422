------------------------------ MODULE Invoice -------------------------------
(***************************************************************************)
(* One invoice from the booking that created it to its payout or refund,   *)
(* under every handler that writes it: payments.service, refunds.service,  *)
(* platform-finance.service, and the invoice side of booking.service's     *)
(* cancel and joinOpenSeat.                                                *)
(*                                                                         *)
(* recordPayment, recordGatewayPayment and payInvoices lock the invoice    *)
(* row: one action each.  Every other handler reads, checks with           *)
(* assertTransition, and later writes an absolute status by id: a ...Read  *)
(* action that puts what it will write into flight, and a ...Commit.       *)
(* Authorisation is assumed to pass; who acts matters to refunds only.     *)
(***************************************************************************)
EXTENDS InvoiceState, FiniteSets, Sequences

CONSTANTS
    Accounts,      \* staff accounts that act on the invoice
    Customer,      \* the booking's customer
    None,          \* SQL NULL
    Total,         \* displayTotal when the booking is made
    CommissionPct, \* the boat's commission_pct
    RefundPcts,    \* percentages the cancellation policy can return
    Credits,       \* wallet credit a checkout may spend
    MaxReceipts,   \* money that can arrive after the booking (bound)
    MaxRefunds,    \* invoice_refund rows (bound)
    MaxFlights,    \* requests between their read and their write (bound)
    Serial,        \* TRUE: one request is handled at a time
    Joinable       \* TRUE: the booking has an open seat somebody may join

ASSUME InvoiceAssumption ==
    /\ Total \in Nat \ {0} /\ CommissionPct \in 0..100
    /\ RefundPcts \subseteq 0..100 /\ Credits \subseteq 0..Total
    /\ MaxReceipts \in Nat /\ MaxRefunds \in Nat /\ MaxFlights \in Nat
    /\ Serial \in BOOLEAN /\ Joinable \in BOOLEAN
    /\ Customer \notin Accounts /\ None \notin Accounts \cup {Customer}

VARIABLES
    status,        \* invoice.status
    displayTotal,  \* invoice.display_total
    amountPaid, amountOverpaid,
    gateway,       \* invoice_payment rows of method 'gateway', summed
    counter,       \* invoice_payment rows of the other methods, summed
    credit,        \* customer credit spent on the invoice at checkout
    refundCredit,  \* customer_credit rows of kind 'refund' sourced here, summed
    rebate,        \* those of kind 'rebate' (open-seat surplus)
    refunds,       \* invoice_refund rows, oldest first
    sentBack,      \* money sent to the customer by completed refund rows
    payout,        \* what the invoice's payout receipts have paid to the boat
    batches,       \* payout receipts it is in; payout_batch_id is set if > 0
    lateRebate,    \* history: the part of rebate credited after a payout
    booking,       \* booking.status
    channel,       \* booking.channel
    hostCancelled, \* trip_departure.status = 'cancelled'
    flight         \* requests that have read and not yet written

money == <<displayTotal, amountPaid, amountOverpaid, gateway, counter, credit,
           refundCredit, rebate>>
trip  == <<booking, channel, hostCancelled>>
refundRows == <<refunds, sentBack>>
payouts == <<payout, batches, lateRebate>>
vars  == <<status, money, refundRows, payouts, trip, flight>>

-----------------------------------------------------------------------------
RefundStates == {"requested", "verified", "completed"}
People == Accounts \cup {Customer, None}
RefundRow == [state : RefundStates, amount : Nat, origin : {"owner", "customer"},
              requestedBy : People, verifiedBy : People, completedBy : People,
              late : BOOLEAN]    \* its claim_deadline has passed
Ops == {"verifyPayment", "cancel", "request", "requestAsCustomer", "verify",
        "complete", "settlePos", "approve", "reject", "join"}
Request == [op : Ops, who : People, amount : Nat, row : Nat]

TypeOK ==
    /\ status \in InvoiceStatus
    /\ {displayTotal, amountPaid, amountOverpaid, gateway, counter, credit,
        refundCredit, rebate, sentBack, batches, lateRebate} \subseteq Nat
    /\ payout \in Int
    /\ refunds \in Seq(RefundRow) /\ Len(refunds) <= MaxRefunds
    /\ booking \in {"confirmed", "completed", "cancelled"}
    /\ channel \in {"web", "pos"}
    /\ hostCancelled \in BOOLEAN
    /\ flight \subseteq Request

\* createBookingTx / groupCheckout: a confirmed deposit (web only) and the
\* wallet credit the customer chose to spend are recorded with the invoice.
Init ==
    /\ channel \in {"web", "pos"}
    /\ gateway \in 0..(Total + MaxReceipts) /\ (channel = "pos" => gateway = 0)
    /\ credit \in Credits /\ (credit > 0 => gateway + credit <= Total)
    /\ amountPaid = gateway + credit
    /\ amountOverpaid = Surplus(amountPaid, Total)
    /\ status = AfterPayment("customer_due", amountPaid, Total)
    /\ displayTotal = Total
    /\ counter = 0 /\ refundCredit = 0 /\ rebate = 0
    /\ refunds = <<>> /\ sentBack = 0
    /\ payout = 0 /\ batches = 0 /\ lateRebate = 0
    /\ booking = "confirmed" /\ hostCancelled = FALSE
    /\ flight = {}

-----------------------------------------------------------------------------
\* buildBill, of a bill without coupon: commission is a share of the bill and is
\* written whenever display_total is.
Commission == (displayTotal * CommissionPct) \div 100

\* Every request below starts with Read and ends with Done.
Read(op, who, amount, row) ==
    /\ flight' = flight \cup {[op |-> op, who |-> who, amount |-> amount,
                               row |-> row]}
    /\ Cardinality(flight') <= MaxFlights
    /\ UNCHANGED <<status, money, refundRows, payouts, trip>>

Done(r) == flight' = flight \ {r}

\* A handler that is one transaction under the row lock.
Locked == (Serial => flight = {}) /\ UNCHANGED flight

\* The received money is bounded, not the code.
Receivable(a) == gateway + counter + a <= Total + MaxReceipts

-----------------------------------------------------------------------------
\* PaymentsService.recordPayment, of method 'gateway' or of another.
RecordPayment(a) ==
    LET newPaid == amountPaid + a IN
    /\ Locked /\ Receivable(a)
    /\ status \notin Frozen
    /\ newPaid <= displayTotal
    /\ \/ counter' = counter + a /\ UNCHANGED gateway
       \/ gateway' = gateway + a /\ UNCHANGED counter
    /\ amountPaid' = newPaid
    /\ status' = AfterPayment(status, newPaid, displayTotal)
    /\ UNCHANGED <<displayTotal, amountOverpaid, credit, refundCredit, rebate,
                   refundRows, payouts, trip>>

\* Mutant of RecordGatewayPayment: the surplus is accumulated.
GatewayAddsSurplus(a) ==
    LET newPaid == amountPaid + a IN
    /\ Locked /\ Receivable(a)
    /\ status \notin Frozen
    /\ gateway' = gateway + a
    /\ amountPaid' = newPaid
    /\ amountOverpaid' = amountOverpaid + Surplus(newPaid, displayTotal)
    /\ status' = AfterPayment(status, newPaid, displayTotal)
    /\ UNCHANGED <<displayTotal, counter, credit, refundCredit, rebate,
                   refundRows, payouts, trip>>

\* Mutant of RecordGatewayPayment: amount_paid is capped at the bill.
GatewayCapped(a) ==
    LET newPaid == amountPaid + a IN
    /\ Locked /\ Receivable(a)
    /\ status \notin Frozen
    /\ gateway' = gateway + a
    /\ amountPaid' = newPaid - Surplus(newPaid, displayTotal)
    /\ amountOverpaid' = Surplus(newPaid, displayTotal)
    /\ status' = AfterPayment(status, newPaid, displayTotal)
    /\ UNCHANGED <<displayTotal, counter, credit, refundCredit, rebate,
                   refundRows, payouts, trip>>

\* Mutant of RecordGatewayPayment: the status is left to finance.
GatewayLeavesDue(a) ==
    LET newPaid == amountPaid + a IN
    /\ Locked /\ Receivable(a)
    /\ status \notin Frozen
    /\ gateway' = gateway + a
    /\ amountPaid' = newPaid
    /\ amountOverpaid' = Surplus(newPaid, displayTotal)
    /\ UNCHANGED <<status, displayTotal, counter, credit, refundCredit, rebate,
                   refundRows, payouts, trip>>

\* PaymentsService.recordGatewayPayment: a frozen invoice only gets an audit row.
RecordGatewayPayment(a) ==
    LET newPaid == amountPaid + a IN
    /\ Locked /\ Receivable(a)
    /\ status \notin Frozen
    /\ gateway' = gateway + a
    /\ amountPaid' = newPaid
    /\ amountOverpaid' = Surplus(newPaid, displayTotal)
    /\ status' = AfterPayment(status, newPaid, displayTotal)
    /\ UNCHANGED <<displayTotal, counter, credit, refundCredit, rebate,
                   refundRows, payouts, trip>>

\* Mutant of VerifyPaymentRead: a partial receipt is certified.
VerifyDepositRead ==
    /\ CanTransition(status, "payment_verified")
    /\ Read("verifyPayment", None, 0, 0)

\* PaymentsService.verifyPayment.
VerifyPaymentRead ==
    /\ amountPaid >= displayTotal
    /\ CanTransition(status, "payment_verified")
    /\ Read("verifyPayment", None, 0, 0)

VerifyPaymentCommit(r) ==
    /\ r.op = "verifyPayment" /\ Done(r)
    /\ status' = "payment_verified"
    /\ UNCHANGED <<money, refundRows, payouts, trip>>

-----------------------------------------------------------------------------
\* BookingService.cancel: the refund is computed from the amount read.
CancelRead(pct) ==
    /\ booking = "confirmed" /\ ~hostCancelled
    /\ CanTransition(status, "cancelled")
    /\ Read("cancel", None, (amountPaid * pct) \div 100, 0)

CancelCommit(r) ==
    /\ r.op = "cancel" /\ Done(r)
    /\ IF booking = "confirmed"
       THEN /\ booking' = "cancelled"
            /\ status' = "cancelled"
            /\ refundCredit' = refundCredit + r.amount
       ELSE UNCHANGED <<booking, status, refundCredit>>
    /\ UNCHANGED <<displayTotal, amountPaid, amountOverpaid, gateway, counter,
                   credit, rebate, refundRows, payouts, channel, hostCancelled>>

\* joinOpenSeat: the first booker's bill drops by the joiner's share, and what
\* they had paid above the new bill becomes a rebate credit.  The invoice's
\* status is not read: an approved or paid out invoice is joined as well.
SeatOpen == displayTotal = Total

JoinRead(share) ==
    /\ Joinable /\ SeatOpen
    /\ share \in 1..displayTotal
    /\ Read("join", Customer, amountPaid, displayTotal - share)

\* Mutant of JoinCommit: the surplus gets no credit.
JoinWithoutRebate(r) ==
    /\ r.op = "join" /\ Done(r)
    /\ IF SeatOpen
       THEN /\ displayTotal' = r.row
            /\ amountPaid' = r.amount - Surplus(r.amount, r.row)
       ELSE UNCHANGED <<displayTotal, amountPaid>>
    /\ UNCHANGED <<status, amountOverpaid, gateway, counter, credit,
                   refundCredit, rebate, refundRows, payouts, trip>>

\* A second joiner's cabin row is refused by the database: all rolls back.
JoinCommit(r) ==
    /\ r.op = "join" /\ Done(r)
    /\ IF SeatOpen
       THEN /\ displayTotal' = r.row
            /\ amountPaid' = r.amount - Surplus(r.amount, r.row)
            /\ rebate' = rebate + Surplus(r.amount, r.row)
            /\ lateRebate' = IF batches = 0 THEN lateRebate
                             ELSE lateRebate + Surplus(r.amount, r.row)
       ELSE UNCHANGED <<displayTotal, amountPaid, rebate, lateRebate>>
    /\ UNCHANGED <<status, amountOverpaid, gateway, counter, credit,
                   refundCredit, refundRows, payout, batches, trip>>

-----------------------------------------------------------------------------
\* uq_invoice_refund_active and chk_refund_verified_ne_completed: what the
\* database accepts of the rows an insert or update would leave.
ActiveRows(rows) == {i \in DOMAIN rows : rows[i].state # "completed"}

\* Mutant of VerifiedNeCompleted: only the service checks the two names.
AnyHands(row) == TRUE

VerifiedNeCompleted(row) ==
    row.origin # "owner" \/ row.completedBy = None \/ row.verifiedBy = None
        \/ row.completedBy # row.verifiedBy

Accepted(rows) ==
    /\ Cardinality(ActiveRows(rows)) <= 1
    /\ \A i \in DOMAIN rows : VerifiedNeCompleted(rows[i])

\* RefundsService.request: staff raise a refund of at most what was paid.
RequestRead(who, a) ==
    /\ status # "in_payout"
    /\ a <= amountPaid
    /\ CanTransition(status, "refund_requested")
    /\ Read("request", who, a, 0)

\* requestRefundAsCustomer: a web booking of a trip the host cancelled.
RequestAsCustomerRead ==
    /\ channel = "web" /\ hostCancelled
    /\ refunds = <<>>
    /\ amountPaid > 0
    /\ CanTransition(status, "refund_requested")
    /\ Read("requestAsCustomer", Customer, amountPaid, 0)

\* Both inserts, which roll back when the index refuses the row.
NewRow(r) ==
    [state |-> "requested", amount |-> r.amount,
     origin |-> IF r.op = "request" THEN "owner" ELSE "customer",
     requestedBy |-> r.who, verifiedBy |-> None, completedBy |-> None,
     late |-> FALSE]

RequestCommit(r) ==
    LET rows == Append(refunds, NewRow(r)) IN
    /\ r.op \in {"request", "requestAsCustomer"} /\ Done(r)
    /\ IF Accepted(rows) /\ Len(rows) <= MaxRefunds
       THEN status' = "refund_requested" /\ refunds' = rows
       ELSE UNCHANGED <<status, refunds>>
    /\ UNCHANGED <<money, sentBack, payouts, trip>>

\* RefundsService.verify.
VerifyRead(who, i) ==
    /\ refunds[i].requestedBy # who
    /\ ~refunds[i].late
    /\ CanTransition(status, "refund_verified")
    /\ Read("verify", who, 0, i)

Verified(row, who) == [row EXCEPT !.state = "verified", !.verifiedBy = who]

VerifyCommit(r) ==
    LET rows == [refunds EXCEPT ![r.row] = Verified(@, r.who)] IN
    /\ r.op = "verify" /\ Done(r)
    /\ IF Accepted(rows)
       THEN status' = "refund_verified" /\ refunds' = rows
       ELSE UNCHANGED <<status, refunds>>
    /\ UNCHANGED <<money, sentBack, payouts, trip>>

\* RefundsService.complete: also from refund_requested, as the table allows.
CompleteRead(who, i) ==
    /\ refunds[i].origin = "owner" => who \notin {refunds[i].verifiedBy,
                                                  refunds[i].requestedBy}
    /\ ~refunds[i].late
    /\ CanTransition(status, "refund_completed")
    /\ Read("complete", who, 0, i)

\* RefundsService.settlePos: one step, counter sales only.
SettlePosRead(who, i) ==
    /\ channel = "pos"
    /\ ~refunds[i].late
    /\ CanTransition(status, "refund_completed")
    /\ Read("settlePos", who, 0, i)

Completed(row, who) == [row EXCEPT !.state = "completed", !.completedBy = who]

CompleteCommit(r) ==
    LET rows == [refunds EXCEPT ![r.row] = Completed(@, r.who)] IN
    /\ r.op \in {"complete", "settlePos"} /\ Done(r)
    /\ IF Accepted(rows)
       THEN /\ status' = "refund_completed" /\ refunds' = rows
            /\ sentBack' = sentBack + refunds[r.row].amount
       ELSE UNCHANGED <<status, refundRows>>
    /\ UNCHANGED <<money, payouts, trip>>

\* assertWithinWindow: REFUND_CLAIM_DAYS after a staff request; a customer's
\* refund has no deadline.
WindowCloses(i) ==
    /\ Locked
    /\ refunds[i].origin = "owner" /\ refunds[i].state # "completed"
    /\ ~refunds[i].late
    /\ refunds' = [refunds EXCEPT ![i] = [@ EXCEPT !.late = TRUE]]
    /\ UNCHANGED <<status, money, sentBack, payouts, trip>>

-----------------------------------------------------------------------------
\* approveInvoiceForPayout (dueToBoat is stored for the Pay page, and computed
\* again by payInvoices).
ApproveRead ==
    /\ CanTransition(status, "payout_approved")
    /\ Read("approve", None, 0, 0)

ApproveCommit(r) ==
    /\ r.op = "approve" /\ Done(r)
    /\ status' = "payout_approved"
    /\ UNCHANGED <<money, refundRows, payouts, trip>>

\* rejectInvoicePayout.
RejectRead ==
    /\ status \in {"payout_approved", "payment_verified"}
    /\ Read("reject", None, 0, 0)

RejectCommit(r) ==
    /\ r.op = "reject" /\ Done(r)
    /\ status' = "paid"
    /\ UNCHANGED <<money, refundRows, payouts, trip>>

\* Mutant of PayInvoice: payout_batch_id is not read.
PayAgain ==
    /\ Locked
    /\ status = "payout_approved"
    /\ status' = "bill_cleared"
    /\ batches' = batches + 1
    /\ payout' = payout
         + DueForInvoice(gateway, displayTotal, Commission, refundCredit)
    /\ UNCHANGED <<money, refundRows, lateRebate, trip>>

\* payInvoices: the rows are locked, then status and payout_batch_id are read.
PayInvoice ==
    /\ Locked
    /\ status = "payout_approved" /\ batches = 0
    /\ status' = "bill_cleared"
    /\ batches' = batches + 1
    /\ payout' = payout
         + DueForInvoice(gateway, displayTotal, Commission, refundCredit)
    /\ UNCHANGED <<money, refundRows, lateRebate, trip>>

-----------------------------------------------------------------------------
\* The departure clock completes the booking.
CompleteTrip ==
    /\ Locked /\ booking = "confirmed"
    /\ booking' = "completed"
    /\ UNCHANGED <<status, money, refundRows, payouts, channel, hostCancelled>>

\* cancelDeparture and reviveDeparture; the bookings are left as they are.
HostToggles ==
    /\ Locked
    /\ hostCancelled' = ~hostCancelled
    /\ UNCHANGED <<status, money, refundRows, payouts, booking, channel>>

-----------------------------------------------------------------------------
Rows == 1..Len(refunds)

Reads ==
    \/ VerifyPaymentRead \/ ApproveRead \/ RejectRead \/ RequestAsCustomerRead
    \/ \E pct \in RefundPcts : CancelRead(pct)
    \/ \E share \in 1..Total : JoinRead(share)
    \/ \E who \in Accounts :
         \/ \E a \in 1..(Total + MaxReceipts) : RequestRead(who, a)
         \/ \E i \in Rows :
              VerifyRead(who, i) \/ CompleteRead(who, i) \/ SettlePosRead(who, i)

Commits ==
    \E r \in flight :
        \/ VerifyPaymentCommit(r) \/ CancelCommit(r) \/ JoinCommit(r)
        \/ RequestCommit(r) \/ VerifyCommit(r) \/ CompleteCommit(r)
        \/ ApproveCommit(r) \/ RejectCommit(r)

Next ==
    \/ Reads \/ Commits
    \/ \E a \in 1..(Total + MaxReceipts) :
         RecordPayment(a) \/ RecordGatewayPayment(a)
    \/ \E i \in Rows : WindowCloses(i)
    \/ PayInvoice \/ CompleteTrip \/ HostToggles

Spec == Init /\ [][Next]_vars

-----------------------------------------------------------------------------
(***************************************************************************)
(* Properties                                                              *)
(***************************************************************************)
Settling == {"paid", "payment_verified", "payout_approved", "bill_cleared"}

\* A deposit never reaches a payout: an invoice is on its way to the boat only
\* when it is fully paid, however verify, approve, reject and pay interleave.
DepositNotSettled == status \in Settling => amountPaid >= displayTotal

\* A fully settled invoice does not stay due: a due invoice can still take the
\* payment that settles it.
FullIsNotDue == status = "customer_due" => amountPaid < displayTotal

\* amount_paid and the rebates are the money that arrived: no payment is lost to
\* another handler's write.
ReceiptsKept == amountPaid + rebate = gateway + counter + credit

\* The overpayments queue lists exactly what was paid above the bill.
SurplusOnRecord == amountOverpaid = Surplus(amountPaid, displayTotal)

\* The payments of an invoice are all on record, whatever handlers overlap: a
\* full payment moves a due invoice on, none is lost to another handler's write,
\* and the overpayments queue holds exactly the surplus.
MoneyOnRecord == FullIsNotDue /\ ReceiptsKept /\ SurplusOnRecord

\* The boat is paid for an invoice at most once, whatever approvals, rejections
\* and cancellations were in flight.
PaidOutOnce == batches <= 1

\* What the boat is paid for was settled in full, and is paid once: no deposit
\* gets into a payout and no invoice into two, however verify, approve, reject,
\* cancel and pay interleave.
PaidOnceInFull == DepositNotSettled /\ PaidOutOnce

\* An owner-raised refund of a web booking passes three different hands, even if
\* verify and complete were both checked before either wrote.
DutiesSeparate ==
    \A i \in Rows :
        LET row == refunds[i] IN
        channel = "web" /\ row.origin = "owner" =>
            /\ row.requestedBy \notin {row.verifiedBy, row.completedBy}
            /\ row.completedBy # None => row.completedBy # row.verifiedBy

Spent == payout + Commission + refundCredit + sentBack
Receipts == gateway + counter + credit

\* The boat's payout, the commission and what the customer got back by refund are
\* covered by the gateway money up to the bill, and together with what a join
\* had given back by the payout they are covered by the receipts: an approved or
\* cleared invoice is locked against refund and cancel, and a cancelled one that
\* is settled after all is paid out net of its refund credit and under the bill
\* the join lowered.  Excepted by name: a join after the payout (lateRebate)
\* gives back money that the boat already has.
PayoutNetOfRefunds ==
    batches > 0 => /\ Spent <= gateway /\ Spent <= Total
                   /\ Spent + (rebate - lateRebate) <= Receipts

\* Joins included: a join gives back what the first booker paid too much, a bill
\* it lowers takes no deposit to a payout, and the payout stays within the money
\* that was not given back before it.
BooksBalance == DepositNotSettled /\ ReceiptsKept /\ PayoutNetOfRefunds

\* Quoted: dueForInvoice does not subtract a rebate, because the join "already
\* reduced this invoice's own displayTotal".  Then payout, commission and what
\* went back to the customer, rebates included, are within the receipts.  They
\* are not when the join comes after the payout, which it may.
RebateAlreadyOff == batches > 0 => Spent + rebate <= Receipts

\* The customer gets back at most what they paid, by credit and bank together.
RefundsWithinPaid ==
    refundCredit + rebate + sentBack <= gateway + counter + credit

\* A web booking's refund is completed only after it was verified.
CompletedWasVerified ==
    \A i \in Rows :
        channel = "web" /\ refunds[i].state = "completed" =>
            refunds[i].verifiedBy # None
=============================================================================
