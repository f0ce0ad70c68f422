---------------------------- MODULE InvoiceState ----------------------------
(***************************************************************************)
(* The rules about one invoice that several services share: the transition *)
(* table of money/invoice-state.ts and the money formulas of               *)
(* payments.service.ts and platform-finance.service.ts.  Amounts are whole *)
(* numbers of the smallest unit.                                           *)
(***************************************************************************)
EXTENDS Integers

InvoiceStatus ==
    {"customer_due", "paid", "payment_verified", "payout_approved", "in_payout",
     "bill_cleared", "cancelled", "refund_requested", "refund_verified",
     "refund_completed"}

\* TRANSITIONS: the statuses an invoice may move to.
Transitions ==
    [s \in InvoiceStatus |->
        CASE s = "customer_due" -> {"paid", "cancelled", "refund_requested"}
          [] s = "paid" -> {"payment_verified", "payout_approved", "in_payout",
                            "cancelled", "refund_requested"}
          [] s = "payment_verified" -> {"paid", "payout_approved", "in_payout",
                                        "cancelled", "refund_requested"}
          [] s = "payout_approved" -> {"bill_cleared", "paid"}
          [] s = "in_payout" -> {"bill_cleared"}
          [] s = "cancelled" -> {"payment_verified"}
          [] s = "refund_requested" -> {"refund_verified", "refund_completed"}
          [] s = "refund_verified" -> {"refund_completed"}
          [] OTHER -> {}]

CanTransition(from, to) == to \in Transitions[from]

\* FROZEN_FOR_PAYMENT: no further payment is recorded.
Frozen == {"payout_approved", "in_payout", "bill_cleared"}

\* Mutant of AfterPayment: a deposit is enough.
AfterAnyPayment(status, newPaid, displayTotal) ==
    IF status = "customer_due" /\ newPaid > 0 THEN "paid" ELSE status

\* The status after a payment: only a full settlement of a due invoice moves it.
AfterPayment(status, newPaid, displayTotal) ==
    IF status = "customer_due" /\ newPaid >= displayTotal THEN "paid" ELSE status

\* Mutant of Surplus: not clamped at zero.
SignedSurplus(newPaid, displayTotal) == newPaid - displayTotal

\* amountOverpaid, computed from the new total each time.
Surplus(newPaid, displayTotal) ==
    IF newPaid > displayTotal THEN newPaid - displayTotal ELSE 0

\* Mutant of DueForInvoice: the refund credits are not subtracted.
DueIgnoringCredits(gatewayReceipts, displayTotal, commission, refundCredit) ==
    (gatewayReceipts - Surplus(gatewayReceipts, displayTotal)) - commission

\* Mutant of DueForInvoice: receipts above the bill, those a join has given back
\* included, go to the boat.
DueUncapped(gatewayReceipts, displayTotal, commission, refundCredit) ==
    gatewayReceipts - commission - refundCredit

\* dueForInvoice: gateway receipts up to the bill, less the commission and the
\* refund credits sourced from the invoice.  Signed.
DueForInvoice(gatewayReceipts, displayTotal, commission, refundCredit) ==
    (gatewayReceipts - Surplus(gatewayReceipts, displayTotal))
        - commission - refundCredit
=============================================================================
