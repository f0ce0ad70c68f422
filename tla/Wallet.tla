------------------------------- MODULE Wallet -------------------------------
(***************************************************************************)
(* The wallet of ONE customer: customer_credit rows and cashout_request    *)
(* rows, under the checkout that spends credits (applyCredits of           *)
(* booking.service), the cash-out request (me.service), finance's answer   *)
(* (platform-finance.service) and the handlers that issue credits; and one *)
(* coupon of limited use, which the same checkouts redeem.                 *)
(*                                                                         *)
(* PostgreSQL at READ COMMITTED: every statement has a snapshot of its     *)
(* own.  SELECT ... FOR UPDATE and updateMany pick their rows from that    *)
(* snapshot, wait for other transactions' row locks, and judge each row    *)
(* again; a later findMany sees what was committed meanwhile, locked or    *)
(* not.  A request is therefore several steps; its writes become visible   *)
(* in its last one, which waits for the locks on the rows it writes.       *)
(***************************************************************************)
EXTENDS Integers, Sequences, FiniteSetsExt

CONSTANTS
    Requests,     \* wallet requests of the customer that may overlap (bound)
    Cashouts,     \* cashout_request rows (bound)
    None,         \* SQL NULL
    MaxIssued,    \* what refunds and rebates issue in all (bound)
    OpenAnytime,  \* FALSE: no credit is issued or reopened while requests run
    MaxUses,      \* coupon.max_uses
    PerUserLimit  \* coupon.per_user_limit

ASSUME WalletAssumption ==
    /\ None \notin Cashouts
    /\ MaxIssued \in Nat
    /\ OpenAnytime \in BOOLEAN
    /\ {MaxUses, PerUserLimit} \subseteq Nat

VARIABLES
    credits,      \* customer_credit rows, oldest first
    cashout,      \* cashout_request.status
    asked,        \* cashout_request.amount
    issued,       \* what the credits were issued for, in all
    applied,      \* credit that invoices count as paid
    paidOut,      \* what finance has sent for approved cash-outs
    uses,         \* bookings with the coupon, counted
    tx            \* the customer's requests

rows == <<credits, cashout, asked>>
sums == <<issued, applied, paidOut>>
vars == <<rows, sums, uses, tx>>

-----------------------------------------------------------------------------
Credit == [amount : Nat \ {0}, status : {"open", "used", "pending_cashout"},
           stamp : Cashouts \cup {None}]
Steps == {"idle", "priced", "redeemed", "checked", "waiting", "locked", "read",
          "moving", "done"}
Uses == [mine : Nat,       \* the customer's, redeemed and not cancelled
         others : Nat,     \* of other customers, not cancelled
         gone : BOOLEAN,   \* one of the customer's is cancelled
         back : Nat]       \* the customer's, cancelled once and active again
Ids == 1..Len(credits)

TypeOK ==
    /\ credits \in Seq(Credit)
    /\ cashout \in [Cashouts -> {"none", "pending", "approved", "rejected"}]
    /\ asked \in [Cashouts -> Nat]
    /\ {issued, applied, paidOut} \subseteq Nat
    /\ uses \in Uses
    /\ \A t \in Requests :
         /\ tx[t].op \in {"none", "checkout", "cashout"} /\ tx[t].at \in Steps
         /\ tx[t].cap \in Nat /\ tx[t].coupon \in BOOLEAN
         /\ tx[t].rows \subseteq Ids /\ tx[t].locks \subseteq Ids
         /\ DOMAIN tx[t].seen \subseteq Ids

Idle == [op |-> "none", at |-> "idle", cap |-> 0, coupon |-> FALSE,
         rows |-> {}, locks |-> {}, seen |-> <<>>]

\* A cash-out asked for before credits were stamped may still be pending.
Init ==
    /\ tx = [t \in Requests |-> Idle]
    /\ applied = 0 /\ paidOut = 0
    /\ uses = [mine |-> 0, others |-> 0, gone |-> FALSE, back |-> 0]
    /\ \/ /\ credits = <<>> /\ issued = 0
          /\ cashout = [q \in Cashouts |-> "none"]
          /\ asked = [q \in Cashouts |-> 0]
       \/ \E a \in 1..MaxIssued, legacy \in Cashouts :
          /\ credits = <<[amount |-> a, status |-> "pending_cashout",
                          stamp |-> None]>>
          /\ issued = a
          /\ cashout = [q \in Cashouts |-> IF q = legacy THEN "pending" ELSE "none"]
          /\ asked = [q \in Cashouts |-> IF q = legacy THEN a ELSE 0]

-----------------------------------------------------------------------------
WithStatus(s) == {i \in Ids : credits[i].status = s}
Open == WithStatus("open")
Balance(ids) == SumFunctionOnSet([i \in Ids |-> credits[i].amount], ids)

\* The rows a statement of t must wait for, or need not.
Free(t, ids) == \A u \in Requests \ {t} : tx[u].locks \cap ids = {}

Step(t, at) == tx' = [tx EXCEPT ![t] = [@ EXCEPT !.at = at]]
Finish(t) == tx' = [tx EXCEPT ![t] = [Idle EXCEPT !.at = "done"]]

-----------------------------------------------------------------------------
\* couponRedeemableInTx and resolveCoupon count what is not cancelled.
MineCounted == uses.mine + uses.back
Redeemable ==
    /\ MineCounted + uses.others < MaxUses
    /\ MineCounted < PerUserLimit

\* A checkout whose coupon passed the re-check holds the coupon's row to its end.
HoldsCoupon(t) == tx[t].coupon /\ tx[t].at # "priced"
CouponFree == \A t \in Requests : ~HoldsCoupon(t)

\* priceSelection: the coupon applies, by counts read outside a transaction.
PriceSelection(t) ==
    /\ tx[t].at = "idle"
    /\ Redeemable
    /\ tx' = [tx EXCEPT ![t] = [Idle EXCEPT !.op = "checkout", !.coupon = TRUE,
                                            !.at = "priced"]]
    /\ UNCHANGED <<rows, sums, uses>>

\* Mutant of RecheckCoupon: the counts of priceSelection are trusted.
TrustPricedCoupon(t) ==
    /\ tx[t].at = "priced"
    /\ CouponFree
    /\ Step(t, "redeemed")
    /\ UNCHANGED <<rows, sums, uses>>

\* Mutant of RecheckCoupon: it counts again but takes no lock.
RecheckUnlocked(t) ==
    /\ tx[t].at = "priced"
    /\ IF Redeemable THEN Step(t, "redeemed") ELSE Finish(t)
    /\ UNCHANGED <<rows, sums, uses>>

\* createBookingTx locks the coupon's row and counts again; the bill is built, so
\* a coupon that is used up meanwhile refuses the booking.
RecheckCoupon(t) ==
    /\ tx[t].at = "priced"
    /\ CouponFree
    /\ IF Redeemable THEN Step(t, "redeemed") ELSE Finish(t)
    /\ UNCHANGED <<rows, sums, uses>>

\* A coupon that does not apply is left out and the booking billed in full.
MayPay(t) == tx[t].at = "redeemed" \/ tx[t].at = "idle"

\* What the commit of t adds to the uses of the coupon.
Redeemed(t) == IF tx[t].coupon THEN [uses EXCEPT !.mine = @ + 1] ELSE uses

\* The commit of a booking that spends no credit.
PlainCommit(t) ==
    /\ tx[t].at = "redeemed"
    /\ uses' = Redeemed(t)
    /\ Finish(t)
    /\ UNCHANGED <<rows, sums>>

\* applyCredits at the end of a checkout of which cap is still due: the
\* snapshot of its SELECT ... FOR UPDATE.
CheckoutStart(t, cap) ==
    /\ MayPay(t)
    /\ tx' = [tx EXCEPT ![t] = [Idle EXCEPT !.op = "checkout", !.cap = cap,
                                            !.coupon = tx[t].coupon,
                                            !.at = "waiting", !.rows = Open]]
    /\ UNCHANGED <<rows, sums, uses>>

\* Mutant of CashoutCheck: nobody looks for a request under review.
CashoutUnchecked(t) ==
    /\ tx[t].at = "idle"
    /\ tx' = [tx EXCEPT ![t] = [Idle EXCEPT !.op = "cashout", !.at = "checked"]]
    /\ UNCHANGED <<rows, sums, uses>>

\* createCashout: no request may be pending ...
CashoutCheck(t) ==
    /\ tx[t].at = "idle"
    /\ \A q \in Cashouts : cashout[q] # "pending"
    /\ tx' = [tx EXCEPT ![t] = [Idle EXCEPT !.op = "cashout", !.at = "checked"]]
    /\ UNCHANGED <<rows, sums, uses>>

\* ... then its SELECT ... FOR UPDATE.
CashoutStart(t) ==
    /\ tx[t].at = "checked"
    /\ tx' = [tx EXCEPT ![t] = [@ EXCEPT !.at = "waiting", !.rows = Open]]
    /\ UNCHANGED <<rows, sums, uses>>

\* Mutant of Lock: a plain SELECT.
LockNothing(t) ==
    /\ tx[t].at = "waiting"
    /\ Step(t, "locked")
    /\ UNCHANGED <<rows, sums, uses>>

\* The rows of the snapshot that are still open are locked once nobody else
\* holds one of them.
Lock(t) ==
    /\ tx[t].at = "waiting"
    /\ Free(t, tx[t].rows)
    /\ tx' = [tx EXCEPT ![t] = [@ EXCEPT !.at = "locked",
                                         !.locks = tx[t].rows \cap Open]]
    /\ UNCHANGED <<rows, sums, uses>>

\* findMany: the open credits as they are now.
ReadCredits(t) ==
    /\ tx[t].at = "locked"
    /\ tx' = [tx EXCEPT ![t] =
                [@ EXCEPT !.at = "read",
                          !.seen = [i \in Open |-> credits[i].amount]]]
    /\ UNCHANGED <<rows, sums, uses>>

\* What applyCredits takes of credit i: oldest first, up to cap.
Older(seen, i) == SumFunctionOnSet(seen, {j \in DOMAIN seen : j < i})
Take(t, i) ==
    LET due == tx[t].cap - Older(tx[t].seen, i) IN
    IF due <= 0 THEN 0 ELSE Min({due, tx[t].seen[i]})
Spent(t) == {i \in DOMAIN tx[t].seen : Take(t, i) > 0}
SplitWhole(t) == Spent(t)                                  \* mutant of Split
Split(t) == {i \in Spent(t) : Take(t, i) < tx[t].seen[i]}

Used(t) ==
    [i \in Ids |->
        IF i \in Split(t)
          THEN [credits[i] EXCEPT !.status = "used", !.amount = Take(t, i)]
        ELSE IF i \in Spent(t) THEN [credits[i] EXCEPT !.status = "used"]
        ELSE credits[i]]

\* Mutant of Remainder: the rest of a split credit is not given back.
NoRemainder(t) == <<>>

\* At most one credit is split; its rest becomes a new open credit.
Remainder(t) ==
    IF Split(t) = {} THEN <<>>
    ELSE LET i == CHOOSE j \in Split(t) : TRUE IN
         <<[amount |-> tx[t].seen[i] - Take(t, i), status |-> "open",
            stamp |-> None]>>

\* The updates by id, and the commit of the checkout.
CheckoutCommit(t) ==
    /\ tx[t].op = "checkout" /\ tx[t].at = "read"
    /\ Free(t, Spent(t))
    /\ credits' = Used(t) \o Remainder(t)
    /\ applied' = applied + SumFunctionOnSet([i \in Spent(t) |-> Take(t, i)], Spent(t))
    /\ uses' = Redeemed(t)
    /\ Finish(t)
    /\ UNCHANGED <<cashout, asked, issued, paidOut>>

\* createCashout's updateMany: the snapshot of the rows it will move.
CashoutMove(t) ==
    /\ tx[t].op = "cashout" /\ tx[t].at = "read"
    /\ DOMAIN tx[t].seen # {}
    /\ tx' = [tx EXCEPT ![t] = [@ EXCEPT !.at = "moving", !.rows = Open]]
    /\ UNCHANGED <<rows, sums, uses>>

\* The rows still open are locked against the new request, whose amount is the
\* sum read before.
CashoutCommit(t, q) ==
    LET moved == tx[t].rows \cap Open IN
    /\ tx[t].at = "moving"
    /\ Free(t, tx[t].rows)
    /\ cashout[q] = "none"
    /\ cashout' = [cashout EXCEPT ![q] = "pending"]
    /\ asked' = [asked EXCEPT ![q] = Older(tx[t].seen, Len(credits) + 1)]
    /\ credits' = [i \in Ids |->
                     IF i \in moved
                     THEN [credits[i] EXCEPT !.status = "pending_cashout",
                                             !.stamp = q]
                     ELSE credits[i]]
    /\ Finish(t)
    /\ UNCHANGED <<sums, uses>>

\* The transaction rolls back: nothing to cash out, a later step of the checkout
\* throws, PostgreSQL breaks a deadlock, the connection is lost.
Abort(t) ==
    /\ tx[t].at \notin {"idle", "done"}
    /\ Finish(t)
    /\ UNCHANGED <<rows, sums, uses>>

\* The customer comes back when the overlapping requests are all answered.
NextVisit ==
    /\ \A t \in Requests : tx[t].at \in {"idle", "done"}
    /\ \E t \in Requests : tx[t].at = "done"
    /\ tx' = [t \in Requests |-> Idle]
    /\ UNCHANGED <<rows, sums, uses>>

-----------------------------------------------------------------------------
MayOpen == OpenAnytime \/ \A t \in Requests : tx[t].at = "idle"

\* A new open credit.
Grant(a) ==
    /\ MayOpen
    /\ issued + a <= MaxIssued
    /\ issued' = issued + a
    /\ credits' = Append(credits, [amount |-> a, status |-> "open", stamp |-> None])

\* cancel() and joinOpenSeat() insert an open credit.
Issue(a) ==
    /\ Grant(a)
    /\ UNCHANGED <<cashout, asked, applied, paidOut, uses, tx>>

\* cancel() of a booking with the coupon frees the redemption, and refunds a as
\* credit where the policy returns something.
CancelRedeemed(a) ==
    /\ \/ uses.mine > 0 /\ uses' = [uses EXCEPT !.mine = @ - 1, !.gone = TRUE]
       \/ uses.back > 0 /\ uses' = [uses EXCEPT !.back = @ - 1, !.gone = TRUE]
    /\ IF a > 0 THEN Grant(a) ELSE UNCHANGED <<credits, issued>>
    /\ UNCHANGED <<cashout, asked, applied, paidOut, tx>>

\* The offline action mark_not_arrived writes the status of any booking, a
\* cancelled one's too, which then counts against the coupon again.
MarkNotArrived ==
    /\ uses.gone
    /\ uses' = [uses EXCEPT !.gone = FALSE, !.back = @ + 1]
    /\ UNCHANGED <<rows, sums, tx>>

\* Other customers redeem the coupon, under its lock, and cancel.
OthersRedeem ==
    /\ CouponFree
    /\ MineCounted + uses.others < MaxUses
    /\ uses' = [uses EXCEPT !.others = @ + 1]
    /\ UNCHANGED <<rows, sums, tx>>

OthersCancel ==
    /\ uses.others > 0
    /\ uses' = [uses EXCEPT !.others = @ - 1]
    /\ UNCHANGED <<rows, sums, tx>>

\* Mutant of LockedBy: unstamped credits of before the column are forgotten.
StampedBy(q) == {i \in WithStatus("pending_cashout") : credits[i].stamp = q}

\* resolveCashout: the credits it moves; a request that stamped none takes every
\* pending credit of the account.
LockedBy(q) ==
    LET stamped == {i \in WithStatus("pending_cashout") : credits[i].stamp = q} IN
    IF stamped # {} THEN stamped ELSE WithStatus("pending_cashout")

\* approveCashout: the request row is locked, then must be pending.
Approve(q) ==
    /\ cashout[q] = "pending"
    /\ cashout' = [cashout EXCEPT ![q] = "approved"]
    /\ credits' = [i \in Ids |-> IF i \in LockedBy(q)
                                 THEN [credits[i] EXCEPT !.status = "used"]
                                 ELSE credits[i]]
    /\ paidOut' = paidOut + asked[q]
    /\ UNCHANGED <<asked, issued, applied, uses, tx>>

\* rejectCashout: the credits are spendable again, and lose q's stamp.
Reject(q) ==
    /\ MayOpen
    /\ cashout[q] = "pending"
    /\ cashout' = [cashout EXCEPT ![q] = "rejected"]
    /\ credits' = [i \in Ids |-> IF i \in LockedBy(q)
                                 THEN [credits[i] EXCEPT
                                         !.status = "open",
                                         !.stamp = IF @ = q THEN None ELSE @]
                                 ELSE credits[i]]
    /\ UNCHANGED <<asked, sums, uses, tx>>

-----------------------------------------------------------------------------
Next ==
    \/ \E t \in Requests :
         \/ PriceSelection(t) \/ RecheckCoupon(t) \/ PlainCommit(t)
         \/ \E cap \in 1..MaxIssued : CheckoutStart(t, cap)
         \/ CashoutCheck(t) \/ CashoutStart(t) \/ Lock(t) \/ ReadCredits(t)
         \/ CheckoutCommit(t) \/ CashoutMove(t) \/ Abort(t)
         \/ \E q \in Cashouts : CashoutCommit(t, q)
    \/ NextVisit
    \/ \E a \in 1..MaxIssued : Issue(a)
    \/ \E a \in 0..MaxIssued : CancelRedeemed(a)
    \/ MarkNotArrived \/ OthersRedeem \/ OthersCancel
    \/ \E q \in Cashouts : Approve(q) \/ Reject(q)

Spec == Init /\ [][Next]_vars

-----------------------------------------------------------------------------
(***************************************************************************)
(* Properties                                                              *)
(***************************************************************************)

\* No taka of the wallet is spent twice and none is lost: what refunds and
\* rebates issued is open, under review, on an invoice or paid out, whatever
\* checkouts, splits, cash-outs and answers overlap.
WalletConserved ==
    issued = Balance(Open) + Balance(WithStatus("pending_cashout"))
                + applied + paidOut

\* Finance pays what is locked: one request at a time is under review ("the
\* one-pending-per-account guard", which no index enforces and on which the
\* account-wide fallback of resolveCashout relies), and what is asked for is
\* exactly the credits that cannot be spent meanwhile, a legacy request's too.
CashoutCovered ==
    LET Pending == {q \in Cashouts : cashout[q] = "pending"} IN
    /\ Cardinality(Pending) <= 1
    /\ SumFunctionOnSet(asked, Pending)
           = Balance(WithStatus("pending_cashout"))

\* The coupon is redeemed no more often than its owner allows, in all and by the
\* customer, whatever checkouts priced it while it could still be used and
\* whatever is cancelled meanwhile: a limit is exceeded only by bookings that were
\* cancelled and then marked as not arrived.
CouponWithinLimits ==
    /\ uses.mine <= PerUserLimit
    /\ uses.mine + uses.others <= MaxUses

\* The same of every booking that is not cancelled, as the code counts them.
CouponNeverOverused ==
    /\ MineCounted <= PerUserLimit
    /\ MineCounted + uses.others <= MaxUses
=============================================================================
