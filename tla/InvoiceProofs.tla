--------------------------- MODULE InvoiceProofs ----------------------------
(***************************************************************************)
(* Proofs about Invoice, for any number of staff accounts, requests in     *)
(* flight, refunds and payments, and any bill.                             *)
(*                                                                         *)
(* Every status written by id was checked when its request read the        *)
(* invoice, so the invariant has to speak of the requests in flight        *)
(* (FlightOK): what was true when they read is still true when they write. *)
(***************************************************************************)
EXTENDS Invoice, FiniteSetTheorems, TLAPS

RowOps == {"verify", "complete", "settlePos"}
Certifying == {"verifyPayment", "approve", "reject"}

\* What every request in flight still relies on.
FlightOK ==
    \A r \in flight :
        /\ r.op \in RowOps => r.row \in Rows
        /\ r.op = "join" => Joinable
        /\ r.op = "request" => r.who \in Accounts
        /\ r.op = "verify" => refunds[r.row].requestedBy # r.who
        /\ r.op = "settlePos" => channel = "pos"
        /\ r.op = "complete" /\ refunds[r.row].origin = "owner" =>
               refunds[r.row].requestedBy # r.who

\* What the refund rows keep: the requester of a staff refund is an account, and
\* the database constraint holds of every row.
RowsOK ==
    \A i \in Rows :
        /\ refunds[i].origin = "owner" => refunds[i].requestedBy \in Accounts
        /\ VerifiedNeCompleted(refunds[i])
        /\ channel = "web" /\ refunds[i].origin = "owner" =>
               refunds[i].requestedBy \notin
                   {refunds[i].verifiedBy, refunds[i].completedBy}

RefundInv == TypeOK /\ FlightOK /\ RowsOK

-----------------------------------------------------------------------------
\* The refund of the cancellation policy is a natural number.
LEMMA RefundNat ==
    ASSUME NEW a \in Nat, NEW pct \in 0..100
    PROVE  (a * pct) \div 100 \in Nat
<1>1. a * pct \in Nat
  OBVIOUS
<1>2. \A n \in Nat : n \div 100 \in Nat
  OBVIOUS
<1> QED BY <1>1, <1>2

\* What AfterPayment and Surplus return.
LEMMA Formulas ==
    ASSUME NEW s \in InvoiceStatus, NEW paid \in Nat, NEW bill \in Nat
    PROVE  /\ AfterPayment(s, paid, bill) \in InvoiceStatus
           /\ Surplus(paid, bill) \in Nat
           /\ paid - Surplus(paid, bill) \in Nat
BY DEF AfterPayment, Surplus, InvoiceStatus

-----------------------------------------------------------------------------
\* The initial states are well typed.
LEMMA TypeInit == Init => TypeOK
<1> SUFFICES ASSUME Init PROVE TypeOK
  OBVIOUS
<1>1. amountPaid \in Nat /\ amountPaid = gateway + credit /\ gateway \in Nat
      /\ credit \in Nat
  BY InvoiceAssumption DEF Init
<1>2. status \in InvoiceStatus /\ amountOverpaid \in Nat
  BY <1>1, Formulas, InvoiceAssumption DEF Init, InvoiceStatus
<1>3. refunds \in Seq(RefundRow) /\ Len(refunds) <= MaxRefunds
  BY InvoiceAssumption DEF Init
<1>4. {displayTotal, amountPaid, amountOverpaid, gateway, counter, credit,
       refundCredit, rebate, sentBack, batches, lateRebate} \subseteq Nat
      /\ payout \in Int
  BY <1>1, <1>2, InvoiceAssumption DEF Init
<1>5. flight \subseteq Request
  BY DEF Init
<1> QED BY <1>2, <1>3, <1>4, <1>5 DEF Init, TypeOK

\* Putting a request in flight keeps the types, if the request is well formed.
LEMMA ReadType ==
    ASSUME TypeOK, NEW op \in Ops, NEW who \in People, NEW a \in Nat,
           NEW row \in Nat, Read(op, who, a, row)
    PROVE  TypeOK'
<1>1. [op |-> op, who |-> who, amount |-> a, row |-> row] \in Request
  BY DEF Request
<1>2. flight' \subseteq Request
  BY <1>1 DEF Read, TypeOK
<1> QED BY <1>2 DEF Read, TypeOK, money, refundRows, payouts, trip

\* Every read keeps the types.
LEMMA TypeReads == TypeOK /\ Reads => TypeOK'
<1> SUFFICES ASSUME TypeOK, Reads PROVE TypeOK'
  OBVIOUS
<1> USE InvoiceAssumption
<1>p. /\ None \in People /\ Customer \in People /\ Accounts \subseteq People
      /\ amountPaid \in Nat /\ displayTotal \in Nat /\ Len(refunds) \in Nat
  BY DEF People, TypeOK
<1>1. CASE VerifyPaymentRead \/ ApproveRead \/ RejectRead \/ RequestAsCustomerRead
  BY <1>1, <1>p, ReadType DEF VerifyPaymentRead, ApproveRead, RejectRead,
     RequestAsCustomerRead, Ops
<1>2. ASSUME NEW pct \in RefundPcts, CancelRead(pct) PROVE TypeOK'
  <2>1. (amountPaid * pct) \div 100 \in Nat
    BY <1>p, RefundNat
  <2> QED BY <1>2, <2>1, <1>p, ReadType DEF CancelRead, Ops
<1>3. ASSUME NEW share \in 1..Total, JoinRead(share) PROVE TypeOK'
  <2>1. displayTotal - share \in Nat
    BY <1>3, <1>p DEF JoinRead
  <2> QED BY <1>3, <2>1, <1>p, ReadType DEF JoinRead, Ops
<1>4. ASSUME NEW who \in Accounts, NEW a \in 1..(Total + MaxReceipts),
             RequestRead(who, a)
      PROVE  TypeOK'
  BY <1>4, <1>p, ReadType DEF RequestRead, Ops
<1>5. ASSUME NEW who \in Accounts, NEW i \in Rows,
             VerifyRead(who, i) \/ CompleteRead(who, i) \/ SettlePosRead(who, i)
      PROVE  TypeOK'
  BY <1>5, <1>p, ReadType DEF VerifyRead, CompleteRead, SettlePosRead, Ops, Rows
<1> QED BY <1>1, <1>2, <1>3, <1>4, <1>5 DEF Reads

\* The fields a handler writes into a refund row.
Late(row) == [row EXCEPT !.late = TRUE]
Written(row, who) == {Verified(row, who), Completed(row, who), Late(row)}

\* A written row is a refund row of the same requester and origin.
LEMMA RowWritten ==
    ASSUME NEW row \in RefundRow, NEW who \in People, NEW new \in Written(row, who)
    PROVE  /\ new \in RefundRow
           /\ new.requestedBy = row.requestedBy /\ new.origin = row.origin
BY DEF RefundRow, RefundStates, Written, Verified, Completed, Late

\* A refund row stays a refund row when a handler writes it; the others stay.
LEMMA RowType ==
    ASSUME TypeOK, NEW i \in Rows, NEW who \in People,
           NEW new \in Written(refunds[i], who), NEW rows,
           rows = [refunds EXCEPT ![i] = new]
    PROVE  /\ refunds[i] \in RefundRow
           /\ rows \in Seq(RefundRow) /\ Len(rows) = Len(refunds)
           /\ \A j \in Rows : /\ rows[j].requestedBy = refunds[j].requestedBy
                              /\ rows[j].origin = refunds[j].origin
                              /\ rows[j] = IF j = i THEN new ELSE refunds[j]
<1>1. refunds \in Seq(RefundRow) /\ i \in 1..Len(refunds)
      /\ DOMAIN refunds = 1..Len(refunds)
  BY DEF TypeOK, Rows
<1>2. refunds[i] \in RefundRow
  BY <1>1
<1>3. /\ new \in RefundRow
      /\ new.requestedBy = refunds[i].requestedBy /\ new.origin = refunds[i].origin
  BY <1>2, RowWritten
<1>4. rows \in Seq(RefundRow) /\ Len(rows) = Len(refunds)
  BY <1>1, <1>3
<1>5. \A j \in Rows : rows[j] = IF j = i THEN new ELSE refunds[j]
  BY <1>1 DEF Rows
<1> QED BY <1>2, <1>3, <1>4, <1>5

\* Every step of the money handlers keeps the types.
LEMMA TypeMoney ==
    ASSUME TypeOK, NEW a \in Nat, RecordPayment(a) \/ RecordGatewayPayment(a)
    PROVE  TypeOK'
<1> DEFINE newPaid == amountPaid + a
<1>1. newPaid \in Nat /\ displayTotal \in Nat /\ status \in InvoiceStatus
  BY DEF TypeOK
<1>2. /\ AfterPayment(status, newPaid, displayTotal) \in InvoiceStatus
      /\ Surplus(newPaid, displayTotal) \in Nat
  BY <1>1, Formulas
<1>3. CASE RecordPayment(a)
  <2>1. gateway' \in Nat /\ counter' \in Nat
    BY <1>3 DEF RecordPayment, TypeOK
  <2> QED BY <1>1, <1>2, <1>3, <2>1
          DEF RecordPayment, Locked, TypeOK, refundRows, payouts, trip
<1>4. CASE RecordGatewayPayment(a)
  BY <1>1, <1>2, <1>4
     DEF RecordGatewayPayment, Locked, TypeOK, refundRows, payouts, trip
<1> QED BY <1>3, <1>4

\* Every commit keeps the types.
LEMMA TypeCommits ==
    ASSUME TypeOK, FlightOK, NEW r \in flight,
           \/ VerifyPaymentCommit(r) \/ CancelCommit(r) \/ JoinCommit(r)
           \/ RequestCommit(r) \/ VerifyCommit(r) \/ CompleteCommit(r)
           \/ ApproveCommit(r) \/ RejectCommit(r)
    PROVE  TypeOK'
<1>r. /\ r \in Request /\ r.amount \in Nat /\ r.row \in Nat /\ r.who \in People
      /\ Done(r) => flight' \subseteq Request
  BY DEF TypeOK, Request, Done
<1>1. CASE VerifyPaymentCommit(r) \/ ApproveCommit(r) \/ RejectCommit(r)
  BY <1>1, <1>r DEF VerifyPaymentCommit, ApproveCommit, RejectCommit, TypeOK,
     InvoiceStatus, money, refundRows, payouts, trip
<1>2. CASE CancelCommit(r)
  <2>1. /\ status' \in InvoiceStatus /\ refundCredit' \in Nat
        /\ booking' \in {"confirmed", "completed", "cancelled"}
    BY <1>2, <1>r DEF CancelCommit, TypeOK, InvoiceStatus
  <2> QED BY <1>2, <1>r, <2>1 DEF CancelCommit, TypeOK, refundRows, payouts
<1>3. CASE JoinCommit(r)
  <2>1. /\ Surplus(r.amount, r.row) \in Nat
        /\ r.amount - Surplus(r.amount, r.row) \in Nat
    BY <1>r, Formulas DEF InvoiceStatus
  <2>2. {displayTotal', amountPaid', rebate', lateRebate'} \subseteq Nat
    <3>1. {displayTotal, amountPaid, rebate, lateRebate} \subseteq Nat
      BY DEF TypeOK
    <3>2. CASE SeatOpen
      <4>1. /\ displayTotal' = r.row
            /\ amountPaid' = r.amount - Surplus(r.amount, r.row)
            /\ rebate' = rebate + Surplus(r.amount, r.row)
            /\ lateRebate' \in {lateRebate, lateRebate + Surplus(r.amount, r.row)}
        BY <1>3, <3>2 DEF JoinCommit
      <4> QED BY <4>1, <3>1, <2>1, <1>r
    <3>3. CASE ~SeatOpen
      <4>1. UNCHANGED <<displayTotal, amountPaid, rebate, lateRebate>>
        BY <1>3, <3>3 DEF JoinCommit
      <4> QED BY <4>1, <3>1
    <3> QED BY <3>2, <3>3
  <2> QED BY <1>3, <1>r, <2>2 DEF JoinCommit, TypeOK, refundRows, payouts, trip
<1>4. CASE RequestCommit(r)
  <2>1. NewRow(r) \in RefundRow
    BY <1>r DEF NewRow, RefundRow, RefundStates, People
  <2>2. Append(refunds, NewRow(r)) \in Seq(RefundRow)
    BY <2>1 DEF TypeOK
  <2> QED BY <1>4, <1>r, <2>2
          DEF RequestCommit, TypeOK, InvoiceStatus, money, payouts, trip
<1>5. CASE VerifyCommit(r) \/ CompleteCommit(r)
  <2>1. r.row \in Rows /\ r.who \in People
    BY <1>5, <1>r DEF FlightOK, RowOps, VerifyCommit, CompleteCommit
  <2>2. /\ \/ refunds' = refunds
           \/ refunds' = [refunds EXCEPT ![r.row] = Verified(@, r.who)]
           \/ refunds' = [refunds EXCEPT ![r.row] = Completed(@, r.who)]
        /\ status' \in {"refund_verified", "refund_completed", status}
        /\ sentBack' \in {sentBack, sentBack + refunds[r.row].amount}
        /\ Done(r) /\ UNCHANGED <<money, payouts, trip>>
    BY <1>5 DEF VerifyCommit, CompleteCommit, refundRows
  <2>3. refunds' \in Seq(RefundRow) /\ Len(refunds') = Len(refunds)
    BY <2>1, <2>2, RowType DEF Written, TypeOK
  <2>4. sentBack' \in Nat
    <3>1. refunds[r.row] \in RefundRow
      BY <2>1 DEF TypeOK, Rows
    <3>2. refunds[r.row].amount \in Nat
      BY <3>1 DEF RefundRow
    <3>3. sentBack \in Nat
      BY DEF TypeOK
    <3> QED BY <2>2, <3>2, <3>3
  <2>5. status' \in InvoiceStatus
    BY <2>2 DEF TypeOK, InvoiceStatus
  <2> QED BY <2>2, <2>3, <2>4, <2>5, <1>r DEF TypeOK, money, payouts, trip
<1> QED BY <1>1, <1>2, <1>3, <1>4, <1>5

\* The steps of the host, the clock, the deadline and the payout keep the types.
LEMMA TypeOthers ==
    ASSUME TypeOK,
           \/ PayInvoice \/ CompleteTrip \/ HostToggles
           \/ \E i \in Rows : WindowCloses(i)
    PROVE  TypeOK'
<1>1. CASE PayInvoice
  <2>1. DueForInvoice(gateway, displayTotal, Commission, refundCredit) \in Int
    <3>1. Commission \in Int
      <4>1. displayTotal \in Nat
        BY DEF TypeOK
      <4>2. CommissionPct \in 0..100
        BY InvoiceAssumption
      <4>3. (displayTotal * CommissionPct) \div 100 \in Nat
        BY <4>1, <4>2, RefundNat, Zenon
      <4> QED BY <4>3 DEF Commission
    <3>2. gateway - Surplus(gateway, displayTotal) \in Nat
      BY Formulas DEF TypeOK, InvoiceStatus
    <3>3. refundCredit \in Nat
      BY DEF TypeOK
    <3> QED BY <3>1, <3>2, <3>3 DEF DueForInvoice
  <2> HIDE DEF DueForInvoice
  <2> QED BY <1>1, <2>1
          DEF PayInvoice, Locked, TypeOK, InvoiceStatus, money, refundRows, trip
<1>2. CASE CompleteTrip \/ HostToggles
  BY <1>2 DEF CompleteTrip, HostToggles, Locked, TypeOK, money, refundRows, payouts
<1>3. ASSUME NEW i \in Rows, WindowCloses(i) PROVE TypeOK'
  <2>0. None \in People
    BY DEF People
  <2>1. refunds' \in Seq(RefundRow) /\ Len(refunds') = Len(refunds)
    BY <1>3, <2>0, RowType DEF WindowCloses, Written, Late
  <2> QED BY <1>3, <2>1 DEF WindowCloses, Locked, TypeOK, money, payouts, trip
<1> QED BY <1>1, <1>2, <1>3

\* Every step keeps the types.
LEMMA TypeNext == TypeOK /\ FlightOK /\ [Next]_vars => TypeOK'
<1> SUFFICES ASSUME TypeOK, FlightOK, [Next]_vars PROVE TypeOK'
  OBVIOUS
<1>1. CASE Reads
  BY <1>1, TypeReads
<1>2. CASE Commits
  BY <1>2, TypeCommits DEF Commits
<1>3. ASSUME NEW a \in 1..(Total + MaxReceipts),
             RecordPayment(a) \/ RecordGatewayPayment(a)
      PROVE  TypeOK'
  BY <1>3, TypeMoney, InvoiceAssumption
<1>4. CASE PayInvoice \/ CompleteTrip \/ HostToggles
           \/ \E i \in Rows : WindowCloses(i)
  BY <1>4, TypeOthers
<1>5. CASE UNCHANGED vars
  BY <1>5 DEF vars, money, refundRows, payouts, trip, TypeOK
<1> QED BY <1>1, <1>2, <1>3, <1>4, <1>5 DEF Next

-----------------------------------------------------------------------------
\* A refund row keeps its requester and its origin, and no row disappears.
Grow ==
    /\ Len(refunds') >= Len(refunds)
    /\ \A i \in Rows : /\ refunds'[i].requestedBy = refunds[i].requestedBy
                       /\ refunds'[i].origin = refunds[i].origin
    /\ channel' = channel

\* Every step only adds to what is said of the refund rows.
LEMMA RowsGrow == TypeOK /\ FlightOK /\ [Next]_vars => Grow
<1> SUFFICES ASSUME TypeOK, FlightOK, [Next]_vars PROVE Grow
  OBVIOUS
<1>0. Len(refunds) \in Nat
  BY DEF TypeOK
<1>1. CASE UNCHANGED <<refunds, channel>>
  BY <1>0, <1>1 DEF Grow
<1>2. CASE Reads
  <2>1. UNCHANGED <<refunds, channel>>
    BY <1>2 DEF Reads, VerifyPaymentRead, ApproveRead, RejectRead,
       RequestAsCustomerRead, CancelRead, JoinRead, RequestRead, VerifyRead,
       CompleteRead, SettlePosRead, Read, refundRows, trip
  <2> QED BY <2>1, <1>1
<1>3. ASSUME NEW r \in flight,
             \/ VerifyPaymentCommit(r) \/ CancelCommit(r) \/ JoinCommit(r)
             \/ ApproveCommit(r) \/ RejectCommit(r)
      PROVE  Grow
  <2>1. UNCHANGED <<refunds, channel>>
    BY <1>3 DEF VerifyPaymentCommit, ApproveCommit, RejectCommit, CancelCommit,
       JoinCommit, refundRows, trip
  <2> QED BY <2>1, <1>1
<1>4. ASSUME NEW r \in flight, RequestCommit(r) PROVE Grow
  <2>1. /\ refunds' \in {Append(refunds, NewRow(r)), refunds}
        /\ channel' = channel /\ refunds \in Seq(RefundRow)
    BY <1>4 DEF RequestCommit, trip, TypeOK
  <2> HIDE DEF NewRow
  <2> QED BY <2>1 DEF Grow, Rows
<1>5. ASSUME NEW r \in flight, VerifyCommit(r) \/ CompleteCommit(r) PROVE Grow
  <2>1. r.row \in Rows /\ r.who \in People
    BY <1>5 DEF FlightOK, RowOps, VerifyCommit, CompleteCommit, TypeOK, Request
  <2>2. /\ \/ refunds' = refunds
           \/ refunds' = [refunds EXCEPT ![r.row] = Verified(@, r.who)]
           \/ refunds' = [refunds EXCEPT ![r.row] = Completed(@, r.who)]
        /\ channel' = channel
    BY <1>5 DEF VerifyCommit, CompleteCommit, refundRows, trip
  <2> QED BY <2>1, <2>2, <1>0, <1>1, RowType DEF Grow, Written
<1>6. ASSUME NEW i \in Rows, WindowCloses(i) PROVE Grow
  <2>1. refunds' = [refunds EXCEPT ![i] = Late(@)] /\ channel' = channel
    BY <1>6 DEF WindowCloses, trip, Late
  <2>2. None \in People
    BY DEF People
  <2> QED BY <2>1, <2>2, <1>0, RowType DEF Grow, Written
<1>7. CASE \/ PayInvoice \/ CompleteTrip \/ HostToggles \/ UNCHANGED vars
           \/ \E a \in 1..(Total + MaxReceipts) :
                 RecordPayment(a) \/ RecordGatewayPayment(a)
  <2>1. UNCHANGED <<refunds, channel>>
    BY <1>7 DEF PayInvoice, CompleteTrip, HostToggles, RecordPayment,
       RecordGatewayPayment, vars, refundRows, trip
  <2> QED BY <2>1, <1>1
<1> QED BY <1>2, <1>3, <1>4, <1>5, <1>6, <1>7 DEF Next, Commits

\* What a request relies on when it reads.
Relies(r) ==
    /\ r.op \in RowOps => r.row \in Rows
    /\ r.op = "join" => Joinable
    /\ r.op = "request" => r.who \in Accounts
    /\ r.op = "verify" => refunds[r.row].requestedBy # r.who
    /\ r.op = "settlePos" => channel = "pos"
    /\ r.op = "complete" /\ refunds[r.row].origin = "owner" =>
           refunds[r.row].requestedBy # r.who

\* A read that is well founded puts such a request in flight.
LEMMA ReadFounded ==
    ASSUME NEW op, NEW who, NEW a, NEW row, Read(op, who, a, row),
           op \in RowOps => row \in Rows,
           op = "join" => Joinable,
           op = "request" => who \in Accounts,
           op = "verify" => refunds[row].requestedBy # who,
           op = "settlePos" => channel = "pos",
           op = "complete" /\ refunds[row].origin = "owner" =>
               refunds[row].requestedBy # who
    PROVE  \E r : flight' = flight \cup {r} /\ Relies(r)
<1> DEFINE q == [op |-> op, who |-> who, amount |-> a, row |-> row]
<1>1. flight' = flight \cup {q}
  BY DEF Read
<1>2. q.op = op /\ q.who = who /\ q.row = row
  OBVIOUS
<1> HIDE DEF q
<1>3. Relies(q)
  BY <1>2 DEF Relies
<1> QED BY <1>1, <1>3

\* Every read puts a request in flight whose grounds hold.
LEMMA ReadRelies ==
    ASSUME TypeOK, Reads
    PROVE  \E r : flight' = flight \cup {r} /\ Relies(r)
<1> USE DEF RowOps
<1>1. CASE VerifyPaymentRead \/ ApproveRead \/ RejectRead \/ RequestAsCustomerRead
  BY <1>1, ReadFounded
     DEF VerifyPaymentRead, ApproveRead, RejectRead, RequestAsCustomerRead
<1>2. ASSUME NEW pct \in RefundPcts, CancelRead(pct)
      PROVE  \E r : flight' = flight \cup {r} /\ Relies(r)
  BY <1>2, ReadFounded DEF CancelRead
<1>3. ASSUME NEW share \in 1..Total, JoinRead(share)
      PROVE  \E r : flight' = flight \cup {r} /\ Relies(r)
  BY <1>3, ReadFounded DEF JoinRead
<1>4. ASSUME NEW who \in Accounts, NEW a \in 1..(Total + MaxReceipts),
             RequestRead(who, a)
      PROVE  \E r : flight' = flight \cup {r} /\ Relies(r)
  BY <1>4, ReadFounded DEF RequestRead
<1>5. ASSUME NEW who \in Accounts, NEW i \in Rows,
             VerifyRead(who, i) \/ CompleteRead(who, i) \/ SettlePosRead(who, i)
      PROVE  \E r : flight' = flight \cup {r} /\ Relies(r)
  BY <1>5, ReadFounded DEF VerifyRead, CompleteRead, SettlePosRead
<1> QED BY <1>1, <1>2, <1>3, <1>4, <1>5 DEF Reads

\* Requests in flight keep their grounds: the rows they rely on only grow.
LEMMA FlightNext == TypeOK /\ FlightOK /\ [Next]_vars => FlightOK'
<1> SUFFICES ASSUME TypeOK, FlightOK, [Next]_vars PROVE FlightOK'
  OBVIOUS
<1>1. Grow /\ Len(refunds) \in Nat /\ Len(refunds') \in Nat
  <2>1. Grow /\ TypeOK'
    BY RowsGrow, TypeNext
  <2>2. refunds \in Seq(RefundRow) /\ refunds' \in Seq(RefundRow)
    BY <2>1 DEF TypeOK
  <2> QED BY <2>1, <2>2
<1>2. \A r : Relies(r) => Relies(r)'
  BY <1>1 DEF Relies, Grow, Rows, RowOps
<1>3. \A r \in flight : Relies(r)
  BY DEF FlightOK, Relies
<1>4. CASE Reads
  BY <1>2, <1>3, <1>4, ReadRelies DEF FlightOK, Relies
<1>5. CASE flight' \subseteq flight
  BY <1>2, <1>3, <1>5 DEF FlightOK, Relies
<1>6. \/ Reads \/ flight' \subseteq flight
  BY DEF Next, Commits, Done, VerifyPaymentCommit, CancelCommit, JoinCommit,
     RequestCommit, VerifyCommit, CompleteCommit, ApproveCommit, RejectCommit,
     RecordPayment, RecordGatewayPayment, PayInvoice, CompleteTrip, HostToggles,
     WindowCloses, Locked, vars
<1> QED BY <1>4, <1>5, <1>6

-----------------------------------------------------------------------------
\* No step breaks what the refund rows keep: inserts and updates go through the
\* database constraint, and the account that writes was compared when it read.
LEMMA RowsNext == RefundInv /\ [Next]_vars => RowsOK'
<1> SUFFICES ASSUME RefundInv, [Next]_vars PROVE RowsOK'
  OBVIOUS
<1> USE DEF RefundInv
<1>0. Grow /\ refunds \in Seq(RefundRow) /\ Len(refunds) \in Nat
  BY RowsGrow DEF TypeOK
<1>1. CASE refunds' = refunds
  BY <1>0, <1>1 DEF RowsOK, Rows, Grow
<1>2. ASSUME NEW r \in flight, RequestCommit(r), refunds' # refunds PROVE RowsOK'
  <2>1. /\ refunds' = Append(refunds, NewRow(r)) /\ Accepted(refunds')
        /\ channel' = channel /\ r.op \in {"request", "requestAsCustomer"}
    BY <1>2 DEF RequestCommit, trip
  <2>2. \A i \in Rows : refunds'[i] = refunds[i]
    BY <2>1, <1>0 DEF Rows
  <2>3. Rows' = Rows \cup {Len(refunds) + 1}
        /\ refunds'[Len(refunds) + 1] = NewRow(r)
    <3> HIDE DEF NewRow
    <3> QED BY <2>1, <1>0 DEF Rows
  <2>4. /\ NewRow(r).origin = "owner" => r.who \in Accounts
        /\ NewRow(r).requestedBy = r.who /\ NewRow(r).verifiedBy = None
        /\ NewRow(r).completedBy = None
    BY <2>1 DEF NewRow, FlightOK
  <2> HIDE DEF NewRow
  <2>5. ASSUME NEW i \in Rows
        PROVE  /\ refunds'[i].origin = "owner" => refunds'[i].requestedBy \in Accounts
               /\ VerifiedNeCompleted(refunds'[i])
               /\ channel' = "web" /\ refunds'[i].origin = "owner" =>
                     refunds'[i].requestedBy \notin
                       {refunds'[i].verifiedBy, refunds'[i].completedBy}
    BY <2>1, <2>2 DEF RowsOK
  <2>6. LET new == refunds'[Len(refunds) + 1] IN
        /\ new.origin = "owner" => new.requestedBy \in Accounts
        /\ VerifiedNeCompleted(new)
        /\ new.origin = "owner" =>
              new.requestedBy \notin {new.verifiedBy, new.completedBy}
    BY <2>3, <2>4, InvoiceAssumption DEF VerifiedNeCompleted
  <2> QED BY <2>3, <2>5, <2>6 DEF RowsOK
<1>3. ASSUME NEW r \in flight, VerifyCommit(r) \/ CompleteCommit(r),
             refunds' # refunds
      PROVE  RowsOK'
  <2> DEFINE new == refunds'[r.row]
  <2>1. r.row \in Rows /\ r.who \in People
    BY <1>3 DEF FlightOK, RowOps, VerifyCommit, CompleteCommit, TypeOK, Request
  <2>2. /\ Accepted(refunds') /\ channel' = channel
        /\ \/ /\ refunds' = [refunds EXCEPT ![r.row] = Verified(@, r.who)]
              /\ r.op = "verify"
           \/ /\ refunds' = [refunds EXCEPT ![r.row] = Completed(@, r.who)]
              /\ r.op \in {"complete", "settlePos"}
    BY <1>3 DEF VerifyCommit, CompleteCommit, refundRows, trip
  <2>3. Rows' = Rows /\ \A j \in Rows : j # r.row => refunds'[j] = refunds[j]
    <3>1. Verified(refunds[r.row], r.who) \in Written(refunds[r.row], r.who)
          /\ Completed(refunds[r.row], r.who) \in Written(refunds[r.row], r.who)
      BY DEF Written
    <3> QED BY <2>1, <2>2, <3>1, RowType DEF Rows
  <2>4. refunds[r.row] \in RefundRow /\ DOMAIN refunds = Rows /\ DOMAIN refunds' = Rows
    BY <1>0, <2>1, <2>2 DEF Rows
  <2>5. CASE /\ refunds' = [refunds EXCEPT ![r.row] = Verified(@, r.who)]
             /\ r.op = "verify"
    <3>1. new = Verified(refunds[r.row], r.who)
      BY <2>4, <2>1, <2>5
    <3>2. /\ new.requestedBy = refunds[r.row].requestedBy
          /\ new.origin = refunds[r.row].origin
          /\ new.verifiedBy = r.who /\ new.completedBy = refunds[r.row].completedBy
      BY <3>1, <2>4 DEF Verified, RefundRow
    <3>3. VerifiedNeCompleted(new) /\ refunds[r.row].requestedBy # r.who
      BY <2>1, <2>2, <2>4, <2>5 DEF Accepted, FlightOK
    <3> HIDE DEF new
    <3>4. \A j \in Rows : refunds'[j] = IF j = r.row THEN new ELSE refunds[j]
      BY <2>3 DEF new
    <3> QED BY <2>1, <2>2, <2>3, <3>2, <3>3, <3>4 DEF RowsOK
  <2>6. CASE /\ refunds' = [refunds EXCEPT ![r.row] = Completed(@, r.who)]
             /\ r.op \in {"complete", "settlePos"}
    <3>1. new = Completed(refunds[r.row], r.who)
      BY <2>4, <2>1, <2>6
    <3>2. /\ new.requestedBy = refunds[r.row].requestedBy
          /\ new.origin = refunds[r.row].origin
          /\ new.completedBy = r.who /\ new.verifiedBy = refunds[r.row].verifiedBy
      BY <3>1, <2>4 DEF Completed, RefundRow
    <3>3. /\ VerifiedNeCompleted(new)
          /\ channel = "web" /\ new.origin = "owner" => new.requestedBy # r.who
      BY <2>1, <2>2, <2>4, <2>6, <3>2 DEF Accepted, FlightOK
    <3> HIDE DEF new
    <3>4. \A j \in Rows : refunds'[j] = IF j = r.row THEN new ELSE refunds[j]
      BY <2>3 DEF new
    <3> QED BY <2>1, <2>2, <2>3, <3>2, <3>3, <3>4 DEF RowsOK
  <2> QED BY <2>2, <2>5, <2>6
<1>4. ASSUME NEW i \in Rows, WindowCloses(i) PROVE RowsOK'
  <2> DEFINE new == Late(refunds[i])
  <2>1. refunds[i] \in RefundRow /\ DOMAIN refunds = Rows /\ channel' = channel
        /\ refunds' = [refunds EXCEPT ![i] = new]
    BY <1>0, <1>4 DEF Rows, WindowCloses, trip, Late
  <2>2. /\ new.requestedBy = refunds[i].requestedBy /\ new.origin = refunds[i].origin
        /\ new.verifiedBy = refunds[i].verifiedBy
        /\ new.completedBy = refunds[i].completedBy
    BY <2>1 DEF Late, RefundRow
  <2> HIDE DEF new
  <2>3. Rows' = Rows
        /\ \A j \in Rows : refunds'[j] = IF j = i THEN new ELSE refunds[j]
    BY <2>1, <1>0 DEF Rows
  <2> QED BY <2>1, <2>2, <2>3 DEF RowsOK, VerifiedNeCompleted
<1>5. \/ refunds' = refunds
      \/ \E r \in flight : RequestCommit(r) \/ VerifyCommit(r) \/ CompleteCommit(r)
      \/ \E i \in Rows : WindowCloses(i)
  BY DEF Next, Reads, Commits, VerifyPaymentRead, ApproveRead, RejectRead,
     RequestAsCustomerRead, CancelRead, JoinRead, RequestRead, VerifyRead,
     CompleteRead, SettlePosRead, Read, VerifyPaymentCommit, ApproveCommit,
     RejectCommit, CancelCommit, JoinCommit, PayInvoice, CompleteTrip,
     HostToggles, RecordPayment, RecordGatewayPayment, vars, refundRows
<1> QED BY <1>1, <1>2, <1>3, <1>4, <1>5

\* An invoice is made without refunds and without requests in flight.
LEMMA RefundInit == Init => RefundInv
<1> SUFFICES ASSUME Init PROVE RefundInv
  OBVIOUS
<1>1. flight = {} /\ refunds = <<>> /\ Rows = {}
  BY DEF Init, Rows
<1> QED BY <1>1, TypeInit DEF RefundInv, FlightOK, RowsOK

\* The refund invariant is inductive.
LEMMA RefundNext == RefundInv /\ [Next]_vars => RefundInv'
BY TypeNext, FlightNext, RowsNext DEF RefundInv

\* The refund invariant holds throughout.
LEMMA RefundAlways == Spec => []RefundInv
<1> QED BY RefundInit, RefundNext, PTL DEF Spec

\* The variables keep their types, whatever the number of requests in flight.
THEOREM TypeCorrect == Spec => []TypeOK
<1>1. RefundInv => TypeOK
  BY DEF RefundInv
<1> QED BY <1>1, RefundAlways, PTL

\* Separation of duties: no interleaving of request, verify and complete lets an
\* account act twice on a staff refund of a web booking.
THEOREM DutiesAreSeparate == Spec => []DutiesSeparate
<1>1. RefundInv => DutiesSeparate
  BY DEF RefundInv, RowsOK, DutiesSeparate, VerifiedNeCompleted
<1> QED BY <1>1, RefundAlways, PTL

-----------------------------------------------------------------------------
\* Without an open seat to join, the bill does not move and amount_paid only
\* grows: a full payment seen by a verify, approve or reject is still full when
\* it writes.
CertifiedFull ==
    \A r \in flight : r.op \in Certifying => amountPaid >= displayTotal

MoneyInv ==
    /\ RefundInv /\ CertifiedFull
    /\ DepositNotSettled /\ FullIsNotDue /\ ReceiptsKept /\ SurplusOnRecord

\* The statuses that the locked payment handlers leave, and the bookkeeping.
LEMMA MoneyPayment ==
    ASSUME ~Joinable, MoneyInv, NEW a \in Nat,
           RecordPayment(a) \/ RecordGatewayPayment(a)
    PROVE  /\ CertifiedFull' /\ DepositNotSettled' /\ FullIsNotDue'
           /\ ReceiptsKept' /\ SurplusOnRecord'
<1> USE DEF MoneyInv, RefundInv
<1>1. /\ amountPaid \in Nat /\ displayTotal \in Nat /\ rebate \in Nat
      /\ gateway \in Nat /\ counter \in Nat /\ credit \in Nat
  BY DEF TypeOK
<1>2. /\ amountPaid' = amountPaid + a
      /\ UNCHANGED <<displayTotal, rebate, credit, flight>>
      /\ gateway' + counter' = gateway + counter + a
      /\ gateway' \in Nat /\ counter' \in Nat
      /\ status' = AfterPayment(status, amountPaid + a, displayTotal)
  BY <1>1 DEF RecordPayment, RecordGatewayPayment, Locked
<1>3. SurplusOnRecord'
  BY <1>1, <1>2 DEF RecordPayment, RecordGatewayPayment, SurplusOnRecord, Surplus
<1>4. ReceiptsKept'
  <2>1. amountPaid + rebate = gateway + counter + credit
    BY DEF ReceiptsKept
  <2>2. amountPaid' + rebate' = gateway' + counter' + credit'
    <3>1. /\ rebate' = rebate /\ credit' = credit /\ amountPaid' = amountPaid + a
          /\ \/ gateway' = gateway + a /\ counter' = counter
             \/ gateway' = gateway /\ counter' = counter + a
      BY DEF RecordPayment, RecordGatewayPayment
    <3> QED BY <2>1, <1>1, <3>1
  <2> QED BY <2>2 DEF ReceiptsKept
<1>5. CertifiedFull'
  BY <1>1, <1>2 DEF CertifiedFull
<1>6. DepositNotSettled' /\ FullIsNotDue'
  BY <1>1, <1>2 DEF DepositNotSettled, FullIsNotDue, AfterPayment, Settling
<1> QED BY <1>3, <1>4, <1>5, <1>6

\* A read of a kind that certifies nothing, or that saw the full payment.
LEMMA ReadCertifies ==
    ASSUME NEW op, NEW who, NEW b, NEW row, Read(op, who, b, row), CertifiedFull,
           op \in Certifying => amountPaid >= displayTotal
    PROVE  CertifiedFull' /\ UNCHANGED <<status, money>>
<1> DEFINE q == [op |-> op, who |-> who, amount |-> b, row |-> row]
<1>1. flight' = flight \cup {q} /\ q.op = op /\ UNCHANGED <<status, money>>
  BY DEF Read
<1> HIDE DEF q
<1> QED BY <1>1 DEF CertifiedFull, money

\* Every read that certifies a full payment saw one.
LEMMA MoneyReads ==
    ASSUME MoneyInv, Reads
    PROVE  CertifiedFull' /\ UNCHANGED <<status, money>>
<1> USE DEF MoneyInv, RefundInv, Certifying
<1>1. CASE VerifyPaymentRead
  BY <1>1, ReadCertifies DEF VerifyPaymentRead
<1>2. CASE ApproveRead \/ RejectRead
  <2>1. status \in Settling
    BY <1>2 DEF ApproveRead, RejectRead, CanTransition, Transitions,
       InvoiceStatus, Settling, TypeOK
  <2> QED BY <2>1, <1>2, ReadCertifies DEF ApproveRead, RejectRead, DepositNotSettled
<1>3. CASE RequestAsCustomerRead
  BY <1>3, ReadCertifies DEF RequestAsCustomerRead
<1>4. ASSUME NEW pct \in RefundPcts, CancelRead(pct)
      PROVE  CertifiedFull' /\ UNCHANGED <<status, money>>
  BY <1>4, ReadCertifies DEF CancelRead
<1>5. ASSUME NEW share \in 1..Total, JoinRead(share)
      PROVE  CertifiedFull' /\ UNCHANGED <<status, money>>
  BY <1>5, ReadCertifies DEF JoinRead
<1>6. ASSUME NEW who \in Accounts, NEW b \in 1..(Total + MaxReceipts),
             RequestRead(who, b)
      PROVE  CertifiedFull' /\ UNCHANGED <<status, money>>
  BY <1>6, ReadCertifies DEF RequestRead
<1>7. ASSUME NEW who \in Accounts, NEW i \in Rows,
             VerifyRead(who, i) \/ CompleteRead(who, i) \/ SettlePosRead(who, i)
      PROVE  CertifiedFull' /\ UNCHANGED <<status, money>>
  BY <1>7, ReadCertifies DEF VerifyRead, CompleteRead, SettlePosRead
<1> QED BY <1>1, <1>2, <1>3, <1>4, <1>5, <1>6, <1>7 DEF Reads

\* The other steps leave what was paid and billed alone; the statuses they write
\* are those of a cancel or a refund, or were certified, or follow an approval.
LEMMA MoneyOthers ==
    ASSUME ~Joinable, MoneyInv,
           \/ Commits \/ PayInvoice \/ CompleteTrip \/ HostToggles
           \/ \E i \in Rows : WindowCloses(i)
           \/ UNCHANGED vars
    PROVE  /\ UNCHANGED <<displayTotal, amountPaid, amountOverpaid, gateway,
                          counter, credit, rebate>>
           /\ flight' \subseteq flight
           /\ \/ status' = status
              \/ status' \in {"cancelled", "refund_requested", "refund_verified",
                              "refund_completed"}
              \/ status' \in Settling /\ amountPaid >= displayTotal
<1> USE DEF MoneyInv, RefundInv, Settling
<1>1. ASSUME NEW r \in flight,
             VerifyPaymentCommit(r) \/ ApproveCommit(r) \/ RejectCommit(r)
      PROVE  /\ UNCHANGED money /\ flight' \subseteq flight
             /\ status' \in Settling /\ amountPaid >= displayTotal
  BY <1>1 DEF VerifyPaymentCommit, ApproveCommit, RejectCommit, Done,
     CertifiedFull, Certifying
<1>2. ASSUME NEW r \in flight, CancelCommit(r)
      PROVE  /\ UNCHANGED <<displayTotal, amountPaid, amountOverpaid, gateway,
                            counter, credit, rebate>>
             /\ flight' \subseteq flight /\ status' \in {status, "cancelled"}
  BY <1>2 DEF CancelCommit, Done
<1>3. ASSUME NEW r \in flight
      PROVE  ~JoinCommit(r)
  BY DEF JoinCommit, FlightOK
<1>4. ASSUME NEW r \in flight,
             RequestCommit(r) \/ VerifyCommit(r) \/ CompleteCommit(r)
      PROVE  /\ UNCHANGED money /\ flight' \subseteq flight
             /\ status' \in {status, "refund_requested", "refund_verified",
                             "refund_completed"}
  BY <1>4 DEF RequestCommit, VerifyCommit, CompleteCommit, Done
<1>5. CASE Commits
  BY <1>1, <1>2, <1>3, <1>4, <1>5 DEF Commits, money
<1>6. CASE PayInvoice
  BY <1>6 DEF PayInvoice, Locked, money, DepositNotSettled
<1>7. CASE \/ CompleteTrip \/ HostToggles \/ \E i \in Rows : WindowCloses(i)
           \/ UNCHANGED vars
  BY <1>7 DEF CompleteTrip, HostToggles, WindowCloses, Locked, money, vars
<1> QED BY <1>5, <1>6, <1>7

\* The money invariant is inductive.
LEMMA MoneyNext == ~Joinable /\ MoneyInv /\ [Next]_vars => MoneyInv'
<1> SUFFICES ASSUME ~Joinable, MoneyInv, [Next]_vars PROVE MoneyInv'
  OBVIOUS
<1>0. RefundInv' /\ amountPaid \in Nat /\ displayTotal \in Nat
      /\ status \in InvoiceStatus
  BY RefundNext DEF MoneyInv, RefundInv, TypeOK
<1>1. CASE Reads
  BY <1>0, <1>1, MoneyReads DEF MoneyInv, money, DepositNotSettled, FullIsNotDue,
     ReceiptsKept, SurplusOnRecord
<1>2. ASSUME NEW a \in 1..(Total + MaxReceipts),
             RecordPayment(a) \/ RecordGatewayPayment(a)
      PROVE  MoneyInv'
  BY <1>0, <1>2, MoneyPayment, InvoiceAssumption DEF MoneyInv
<1>3. CASE \/ Commits \/ PayInvoice \/ CompleteTrip \/ HostToggles
           \/ \E i \in Rows : WindowCloses(i)
           \/ UNCHANGED vars
  <2>1. /\ UNCHANGED <<displayTotal, amountPaid, amountOverpaid, gateway,
                       counter, credit, rebate>>
        /\ flight' \subseteq flight
        /\ \/ status' = status
           \/ status' \in {"cancelled", "refund_requested", "refund_verified",
                           "refund_completed"}
           \/ status' \in Settling /\ amountPaid >= displayTotal
    BY <1>3, MoneyOthers
  <2>2. ReceiptsKept' /\ SurplusOnRecord' /\ CertifiedFull'
    BY <2>1 DEF MoneyInv, ReceiptsKept, SurplusOnRecord, CertifiedFull
  <2>3. DepositNotSettled' /\ FullIsNotDue'
    BY <2>1, <1>0 DEF MoneyInv, DepositNotSettled, FullIsNotDue, Settling
  <2> QED BY <1>0, <2>2, <2>3 DEF MoneyInv
<1> QED BY <1>1, <1>2, <1>3 DEF Next

\* The booking's handlers make an invoice in the status its deposit earns.
LEMMA MoneyInit == Init => MoneyInv
<1> SUFFICES ASSUME Init PROVE MoneyInv
  OBVIOUS
<1>1. /\ gateway \in Nat /\ credit \in Nat /\ amountPaid = gateway + credit
      /\ displayTotal = Total /\ Total \in Nat
  BY InvoiceAssumption DEF Init
<1>2. DepositNotSettled /\ FullIsNotDue
  BY <1>1 DEF Init, AfterPayment, DepositNotSettled, FullIsNotDue, Settling
<1>3. ReceiptsKept /\ SurplusOnRecord /\ CertifiedFull
  BY <1>1 DEF Init, ReceiptsKept, SurplusOnRecord, Surplus, CertifiedFull
<1> QED BY <1>2, <1>3, RefundInit DEF MoneyInv

\* Where no open seat is offered a deposit never reaches a payout, for any number
\* of requests between their read and their write.
THEOREM DepositsStayDue ==
    ASSUME ~Joinable
    PROVE  Spec => []DepositNotSettled
<1>1. MoneyInv /\ [Next]_vars => MoneyInv'
  BY MoneyNext
<1>2. MoneyInv => DepositNotSettled
  BY DEF MoneyInv
<1> QED BY <1>1, <1>2, MoneyInit, PTL DEF Spec

\* Nor does a full payment stay due; no payment is lost to the write of another
\* request, and every surplus is on record.
THEOREM PaymentsAreKept ==
    ASSUME ~Joinable
    PROVE  Spec => []MoneyOnRecord
<1>1. MoneyInv /\ [Next]_vars => MoneyInv'
  BY MoneyNext
<1>2. MoneyInv => MoneyOnRecord
  BY DEF MoneyInv, MoneyOnRecord
<1> QED BY <1>1, <1>2, MoneyInit, PTL DEF Spec

-----------------------------------------------------------------------------
\* Only payInvoices adds to batches, and it reads payout_batch_id on the row it
\* has locked.
LEMMA BatchesNext ==
    ASSUME TypeOK, PaidOutOnce, [Next]_vars
    PROVE  PaidOutOnce'
<1> USE DEF PaidOutOnce, payouts
<1>1. CASE UNCHANGED batches
  BY <1>1
<1>2. CASE PayInvoice
  BY <1>2 DEF PayInvoice
<1>3. CASE Reads
  BY <1>1, <1>3 DEF Reads, VerifyPaymentRead, ApproveRead, RejectRead,
     RequestAsCustomerRead, CancelRead, JoinRead, RequestRead, VerifyRead,
     CompleteRead, SettlePosRead, Read
<1>4. CASE Commits
  BY <1>1, <1>4 DEF Commits, VerifyPaymentCommit, CancelCommit, JoinCommit,
     RequestCommit, VerifyCommit, CompleteCommit, ApproveCommit, RejectCommit
<1>5. ASSUME \/ \E a \in 1..(Total + MaxReceipts) :
                  RecordPayment(a) \/ RecordGatewayPayment(a)
             \/ \E i \in Rows : WindowCloses(i)
             \/ CompleteTrip \/ HostToggles
             \/ UNCHANGED vars
      PROVE  UNCHANGED batches
  BY <1>5 DEF RecordPayment, RecordGatewayPayment, WindowCloses, CompleteTrip,
     HostToggles, vars
<1> QED BY <1>1, <1>2, <1>3, <1>4, <1>5 DEF Next

\* The boat is paid for an invoice once, open seats included, however many
\* approvals, rejections, cancels and refunds are between read and write.
THEOREM PaidOnce == Spec => []PaidOutOnce
<1>1. Init => PaidOutOnce
  BY DEF Init, PaidOutOnce
<1>2. TypeOK /\ PaidOutOnce /\ [Next]_vars => PaidOutOnce'
  BY BatchesNext
<1> QED BY <1>1, <1>2, TypeCorrect, PTL DEF Spec

\* Where no open seat is offered the boat is paid once, and only in full.
THEOREM PaidOnceAndInFull ==
    ASSUME ~Joinable
    PROVE  Spec => []PaidOnceInFull
<1>1. DepositNotSettled /\ PaidOutOnce => PaidOnceInFull
  BY DEF PaidOnceInFull
<1> QED BY <1>1, DepositsStayDue, PaidOnce, PTL

-----------------------------------------------------------------------------
(***************************************************************************)
(* The books with an open seat to join, one request at a time.             *)
(***************************************************************************)

\* A request in flight is alone, so what it read still holds when it writes.
AtMostOne == \A r, s \in flight : r = s

Terminal == {"bill_cleared", "refund_completed"}

Undisturbed ==
    \A r \in flight :
        /\ r.op = "join" => r.amount = amountPaid /\ r.row <= displayTotal
        /\ r.op # "join" => status \notin Terminal

\* Money leaves once, into a status no handler leaves: an invoice that was paid
\* out stays cleared, one that was refunded by bank stays refunded.
LastWord ==
    /\ batches > 0 => status = "bill_cleared"
    /\ batches = 0 => payout = 0 /\ lateRebate = 0
    /\ sentBack > 0 => status = "refund_completed"
    /\ displayTotal <= Total

BooksInv ==
    /\ RefundInv /\ AtMostOne /\ CertifiedFull /\ Undisturbed /\ LastWord
    /\ BooksBalance

-----------------------------------------------------------------------------
\* The commission is a natural number that falls with the bill.
LEMMA CommissionFalls ==
    ASSUME NEW a \in Nat, NEW b \in Nat, a <= b, NEW p \in 0..100
    PROVE  /\ (a * p) \div 100 \in Nat /\ (b * p) \div 100 \in Nat
           /\ (a * p) \div 100 <= (b * p) \div 100
<1>1. a * p \in Nat /\ b * p \in Nat
  OBVIOUS
<1>2. a * p <= b * p
  <2>1. PICK d \in Nat : b = a + d
    <3>1. b - a \in Nat /\ b = a + (b - a)
      OBVIOUS
    <3> QED BY <3>1
  <2>2. b * p = a * p + d * p
    BY <2>1
  <2>3. d * p \in Nat
    OBVIOUS
  <2> QED BY <1>1, <2>2, <2>3
<1>3. \A m, n \in Nat : m <= n => m \div 100 <= n \div 100 /\ m \div 100 \in Nat
                                  /\ n \div 100 \in Nat
  OBVIOUS
<1> QED BY <1>1, <1>2, <1>3, Zenon

\* A set with at most one request has no room for another.
LEMMA RoomForOne ==
    ASSUME AtMostOne, NEW q, flight' = flight \cup {q}, Cardinality(flight') <= 1
    PROVE  AtMostOne'
<1>1. CASE flight = {}
  BY <1>1 DEF AtMostOne
<1>2. ASSUME NEW r \in flight PROVE AtMostOne'
  <2>1. flight = {r}
    BY <1>2 DEF AtMostOne
  <2>2. r = q
    <3>1. SUFFICES ASSUME r # q PROVE FALSE
      OBVIOUS
    <3>2. IsFiniteSet({r}) /\ Cardinality({r}) = 1
      BY FS_Singleton
    <3>3. Cardinality({r} \cup {q}) = 1 + 1
      BY <3>1, <3>2, FS_AddElement
    <3> QED BY <2>1, <3>3
  <2> QED BY <2>1, <2>2 DEF AtMostOne
<1> QED BY <1>1, <1>2

\* A read puts its request in flight beside nothing else, and finds the invoice
\* as its handler needs it.
LEMMA BooksRead ==
    ASSUME BooksInv, MaxFlights <= 1,
           NEW op \in Ops, NEW who \in People, NEW b \in Nat, NEW row \in Nat,
           Read(op, who, b, row),
           op \in Certifying => amountPaid >= displayTotal,
           op = "join" => b = amountPaid /\ row <= displayTotal,
           op # "join" => status \notin Terminal
    PROVE  /\ AtMostOne' /\ CertifiedFull' /\ Undisturbed'
           /\ UNCHANGED <<status, money, refundRows, payouts>>
<1> DEFINE q == [op |-> op, who |-> who, amount |-> b, row |-> row]
<1>1. /\ flight' = flight \cup {q} /\ Cardinality(flight') <= MaxFlights
      /\ UNCHANGED <<status, money, refundRows, payouts>>
      /\ q.op = op /\ q.amount = b /\ q.row = row
  BY DEF Read
<1>2. CertifiedFull'
  BY ReadCertifies DEF BooksInv
<1> HIDE DEF q
<1>3. AtMostOne'
  <2>1. Cardinality(flight') <= 1
    <3>1. flight' = {} \/ \E r : flight' \subseteq {r, q}
      BY <1>1 DEF BooksInv, AtMostOne
    <3>2. ASSUME NEW r, flight' \subseteq {r, q} PROVE Cardinality(flight') \in Nat
      <4>1. IsFiniteSet({r} \cup {q})
        BY FS_Singleton, FS_AddElement
      <4>2. IsFiniteSet(flight')
        <5>1. flight' \in SUBSET ({r} \cup {q})
          BY <3>2
        <5> QED BY <4>1, <5>1, FS_Subset
      <4> QED BY <4>2, FS_CardinalityType
    <3>3. Cardinality(flight') \in Nat
      BY <3>1, <3>2, FS_EmptySet
    <3> QED BY <1>1, <3>3, InvoiceAssumption
  <2> QED BY <1>1, <2>1, RoomForOne DEF BooksInv
<1>4. Undisturbed'
  <2>1. UNCHANGED <<status, amountPaid, displayTotal>>
    BY <1>1 DEF money
  <2>2. \A r \in flight' : r \in flight \/ r = q
    BY <1>1
  <2> QED BY <1>1, <2>1, <2>2 DEF BooksInv, Undisturbed
<1> QED BY <1>1, <1>2, <1>3, <1>4

\* What does not write the money, the payout or the refunds of the invoice and
\* leaves the status where it is keeps the books.
LEMMA BooksStay ==
    ASSUME BooksInv, UNCHANGED <<status, money, sentBack, payouts>>
    PROVE  LastWord' /\ BooksBalance'
BY DEF BooksInv, LastWord, BooksBalance, DepositNotSettled, ReceiptsKept,
   PayoutNetOfRefunds, Spent, Receipts, Commission, money, payouts

\* A read leaves the books alone.
LEMMA BooksReads ==
    ASSUME BooksInv, MaxFlights <= 1, Reads
    PROVE  AtMostOne' /\ CertifiedFull' /\ Undisturbed' /\ LastWord' /\ BooksBalance'
<1> USE DEF Certifying, Terminal, Ops
<1>0. /\ status \in InvoiceStatus /\ amountPaid \in Nat /\ displayTotal \in Nat
      /\ None \in People /\ Customer \in People /\ Accounts \subseteq People
      /\ Len(refunds) \in Nat
  BY DEF BooksInv, RefundInv, TypeOK, People
<1>t. /\ CanTransition(status, "payment_verified") \/ CanTransition(status, "cancelled")
         \/ CanTransition(status, "refund_requested")
         \/ CanTransition(status, "refund_verified")
         \/ CanTransition(status, "refund_completed")
         \/ CanTransition(status, "payout_approved")
         \/ status \in {"payout_approved", "payment_verified"}
         => status \notin Terminal
      /\ CanTransition(status, "payout_approved")
         \/ status \in {"payout_approved", "payment_verified"}
         => amountPaid >= displayTotal
  BY <1>0 DEF CanTransition, Transitions, InvoiceStatus, BooksInv, BooksBalance,
     DepositNotSettled, Settling
<1> SUFFICES /\ AtMostOne' /\ CertifiedFull' /\ Undisturbed'
             /\ UNCHANGED <<status, money, refundRows, payouts>>
  BY BooksStay DEF refundRows
<1>1. CASE VerifyPaymentRead
  BY <1>0, <1>t, <1>1, BooksRead DEF VerifyPaymentRead
<1>2. CASE ApproveRead \/ RejectRead
  BY <1>0, <1>t, <1>2, BooksRead DEF ApproveRead, RejectRead
<1>3. CASE RequestAsCustomerRead
  BY <1>0, <1>t, <1>3, BooksRead DEF RequestAsCustomerRead
<1>4. ASSUME NEW pct \in RefundPcts, CancelRead(pct)
      PROVE  /\ AtMostOne' /\ CertifiedFull' /\ Undisturbed'
             /\ UNCHANGED <<status, money, refundRows, payouts>>
  <2>1. (amountPaid * pct) \div 100 \in Nat
    BY <1>0, RefundNat, InvoiceAssumption
  <2> QED BY <1>0, <1>t, <1>4, <2>1, BooksRead DEF CancelRead
<1>5. ASSUME NEW share \in 1..Total, JoinRead(share)
      PROVE  /\ AtMostOne' /\ CertifiedFull' /\ Undisturbed'
             /\ UNCHANGED <<status, money, refundRows, payouts>>
  <2>1. displayTotal - share \in Nat /\ displayTotal - share <= displayTotal
    BY <1>0, <1>5 DEF JoinRead
  <2> QED BY <1>0, <1>5, <2>1, BooksRead DEF JoinRead
<1>6. ASSUME NEW who \in Accounts, NEW b \in 1..(Total + MaxReceipts),
             RequestRead(who, b)
      PROVE  /\ AtMostOne' /\ CertifiedFull' /\ Undisturbed'
             /\ UNCHANGED <<status, money, refundRows, payouts>>
  BY <1>0, <1>t, <1>6, BooksRead, InvoiceAssumption DEF RequestRead
<1>7. ASSUME NEW who \in Accounts, NEW i \in Rows,
             VerifyRead(who, i) \/ CompleteRead(who, i) \/ SettlePosRead(who, i)
      PROVE  /\ AtMostOne' /\ CertifiedFull' /\ Undisturbed'
             /\ UNCHANGED <<status, money, refundRows, payouts>>
  BY <1>0, <1>t, <1>7, BooksRead DEF VerifyRead, CompleteRead, SettlePosRead, Rows
<1> QED BY <1>1, <1>2, <1>3, <1>4, <1>5, <1>6, <1>7 DEF Reads

\* A commit ends the only request in flight.
LEMMA Ended ==
    ASSUME BooksInv, NEW r \in flight, Done(r)
    PROVE  flight' = {} /\ AtMostOne' /\ CertifiedFull' /\ Undisturbed'
<1>1. flight' = {}
  BY DEF BooksInv, AtMostOne, Done
<1> QED BY <1>1 DEF AtMostOne, CertifiedFull, Undisturbed

\* A handler's write of a status, the money untouched: not after a payout or a
\* bank refund, and settling only what is fully paid.
LEMMA BooksStatus ==
    ASSUME BooksInv, UNCHANGED <<money, sentBack, payouts>>,
           status \notin Terminal \/ status' = status,
           status' \in Settling => amountPaid >= displayTotal
    PROVE  LastWord' /\ BooksBalance'
<1>0. {batches, sentBack} \subseteq Nat
  BY DEF BooksInv, RefundInv, TypeOK
<1>1. ReceiptsKept' /\ DepositNotSettled'
  BY DEF BooksInv, BooksBalance, ReceiptsKept, DepositNotSettled, money
<1>2. PayoutNetOfRefunds'
  BY DEF BooksInv, BooksBalance, PayoutNetOfRefunds, Spent, Receipts, Commission,
     money, payouts
<1>3. LastWord'
  BY <1>0 DEF BooksInv, LastWord, Terminal, money, payouts
<1> QED BY <1>1, <1>2, <1>3 DEF BooksBalance

\* The handlers that write a status only: verify, approve and reject a payment,
\* request and verify a refund.
LEMMA BooksStatuses ==
    ASSUME BooksInv, NEW r \in flight,
           \/ VerifyPaymentCommit(r) \/ ApproveCommit(r) \/ RejectCommit(r)
           \/ RequestCommit(r) \/ VerifyCommit(r)
    PROVE  LastWord' /\ BooksBalance'
<1>1. r.op # "join" => status \notin Terminal
  BY DEF BooksInv, Undisturbed
<1>2. r.op \in Certifying => amountPaid >= displayTotal
  BY DEF BooksInv, CertifiedFull
<1>3. CASE VerifyPaymentCommit(r) \/ ApproveCommit(r) \/ RejectCommit(r)
  BY <1>1, <1>2, <1>3, BooksStatus DEF VerifyPaymentCommit, ApproveCommit,
     RejectCommit, Certifying, refundRows
<1>4. CASE RequestCommit(r) \/ VerifyCommit(r)
  <2>1. /\ UNCHANGED <<money, sentBack, payouts>> /\ r.op # "join"
        /\ status' \in {status, "refund_requested", "refund_verified"}
    BY <1>4 DEF RequestCommit, VerifyCommit
  <2>2. status' \in Settling => amountPaid >= displayTotal
    BY <2>1 DEF BooksInv, BooksBalance, DepositNotSettled, Settling
  <2> QED BY <1>1, <2>1, <2>2, BooksStatus
<1> QED BY <1>3, <1>4

\* A cancellation before a payout: what it refunds is credit, and comes off the
\* payout later.
LEMMA BooksCancel ==
    ASSUME BooksInv, NEW r \in flight, CancelCommit(r)
    PROVE  LastWord' /\ BooksBalance'
<1>1. CASE booking # "confirmed"
  BY <1>1, BooksStay DEF CancelCommit, money, payouts, refundRows
<1>2. CASE booking = "confirmed"
  <2>0. {batches, sentBack} \subseteq Nat
    BY DEF BooksInv, RefundInv, TypeOK
  <2>1. status \notin Terminal
    BY DEF CancelCommit, BooksInv, Undisturbed
  <2>2. batches = 0 /\ sentBack = 0
    BY <2>0, <2>1 DEF BooksInv, LastWord, Terminal
  <2> QED BY <1>2, <2>2
          DEF CancelCommit, BooksInv, LastWord, BooksBalance, DepositNotSettled,
              ReceiptsKept, PayoutNetOfRefunds, Settling, payouts, refundRows
<1> QED BY <1>1, <1>2

\* A completed bank refund comes before any payout, and is the last word.
LEMMA BooksComplete ==
    ASSUME BooksInv, NEW r \in flight, CompleteCommit(r)
    PROVE  LastWord' /\ BooksBalance'
<1>1. CASE UNCHANGED <<status, refundRows>>
  BY <1>1, BooksStay DEF CompleteCommit, refundRows
<1>2. CASE status' = "refund_completed"
  <2>0. batches \in Nat
    BY DEF BooksInv, RefundInv, TypeOK
  <2>1. status \notin Terminal
    BY DEF CompleteCommit, BooksInv, Undisturbed
  <2>2. batches = 0
    BY <2>0, <2>1 DEF BooksInv, LastWord, Terminal
  <2> QED BY <1>2, <2>2
          DEF CompleteCommit, BooksInv, LastWord, BooksBalance, DepositNotSettled,
              ReceiptsKept, PayoutNetOfRefunds, Settling, payouts, money
<1> QED BY <1>1, <1>2 DEF CompleteCommit

\* A join lowers the bill: what it gives back as rebate leaves the payments; a
\* payout made before it only had more commission taken off, and then the rebate
\* is a late one.
LEMMA BooksJoin ==
    ASSUME BooksInv, NEW r \in flight, JoinCommit(r)
    PROVE  LastWord' /\ BooksBalance'
<1>1. CASE ~SeatOpen
  BY <1>1, BooksStay DEF JoinCommit, money, payouts, refundRows
<1>2. CASE SeatOpen
  <2> DEFINE s == Surplus(amountPaid, r.row)
  <2>0. /\ {batches, sentBack, displayTotal, amountPaid, rebate, gateway, counter,
            credit, refundCredit, lateRebate} \subseteq Nat
        /\ payout \in Int /\ r.row \in Nat
    BY DEF BooksInv, RefundInv, TypeOK, Request
  <2>1. r.amount = amountPaid /\ r.row <= displayTotal
    BY DEF JoinCommit, BooksInv, Undisturbed
  <2>2. /\ displayTotal' = r.row /\ amountPaid' = amountPaid - s
        /\ rebate' = rebate + s
        /\ lateRebate' = IF batches = 0 THEN lateRebate ELSE lateRebate + s
        /\ UNCHANGED <<status, amountOverpaid, gateway, counter, credit,
                       refundCredit, refundRows, payout, batches, trip>>
    BY <1>2, <2>1 DEF JoinCommit
  <2>3. s \in Nat /\ amountPaid - s \in Nat
        /\ (amountPaid >= r.row => amountPaid - s >= r.row)
    BY <2>0 DEF Surplus
  <2> HIDE DEF s
  <2>4. DepositNotSettled'
    BY <2>0, <2>1, <2>2, <2>3 DEF BooksInv, BooksBalance, DepositNotSettled
  <2>5. ReceiptsKept'
    <3>1. amountPaid + rebate = gateway + counter + credit
      BY DEF BooksInv, BooksBalance, ReceiptsKept
    <3>2. (amountPaid - s) + (rebate + s) = gateway + counter + credit
      BY <2>0, <2>3, <3>1
    <3> QED BY <2>2, <3>2 DEF ReceiptsKept
  <2>6. PayoutNetOfRefunds'
    <3>1. Commission \in Nat /\ Commission' \in Nat /\ Commission' <= Commission
      BY <2>0, <2>1, <2>2, CommissionFalls, InvoiceAssumption DEF Commission
    <3>2. /\ payout' = payout /\ refundCredit' = refundCredit /\ sentBack' = sentBack
          /\ gateway' = gateway /\ counter' = counter /\ credit' = credit
          /\ batches' = batches
      BY <2>2 DEF refundRows
    <3>3. SUFFICES ASSUME batches > 0 PROVE PayoutNetOfRefunds'
      BY <3>2 DEF PayoutNetOfRefunds
    <3>4. /\ Spent <= gateway /\ Spent <= Total
          /\ Spent + (rebate - lateRebate) <= Receipts
      BY <3>3 DEF BooksInv, BooksBalance, PayoutNetOfRefunds
    <3>5. Spent \in Int /\ Spent' \in Int /\ Spent' <= Spent
      <4> HIDE DEF Commission
      <4> QED BY <2>0, <3>1, <3>2 DEF Spent
    <3>6. rebate' - lateRebate' = rebate - lateRebate
      BY <2>0, <2>2, <2>3, <3>3
    <3>7. Receipts' = Receipts /\ Receipts \in Nat
      BY <2>0, <3>2 DEF Receipts
    <3>8. rebate - lateRebate \in Int /\ Total \in Nat /\ gateway \in Nat
      BY <2>0, InvoiceAssumption
    <3> QED BY <3>2, <3>4, <3>5, <3>6, <3>7, <3>8 DEF PayoutNetOfRefunds
  <2>7. LastWord'
    BY <2>0, <2>1, <2>2, InvoiceAssumption
       DEF BooksInv, LastWord, refundRows
  <2> QED BY <2>4, <2>5, <2>6, <2>7 DEF BooksBalance
<1> QED BY <1>1, <1>2

\* A payment that is still taken comes before the payout.
LEMMA BooksPayment ==
    ASSUME BooksInv, NEW a \in Nat, RecordPayment(a) \/ RecordGatewayPayment(a)
    PROVE  LastWord' /\ BooksBalance'
<1>0. /\ {batches, sentBack, displayTotal, amountPaid, rebate, gateway, counter,
          credit, refundCredit} \subseteq Nat
      /\ status \in InvoiceStatus
  BY DEF BooksInv, RefundInv, TypeOK
<1>1. /\ amountPaid' = amountPaid + a
      /\ UNCHANGED <<displayTotal, rebate, credit, refundCredit, refundRows, payouts>>
      /\ status' = AfterPayment(status, amountPaid + a, displayTotal)
      /\ status \notin Frozen
      /\ \/ gateway' = gateway + a /\ counter' = counter
         \/ gateway' = gateway /\ counter' = counter + a
  BY DEF RecordPayment, RecordGatewayPayment
<1>2. batches = 0
  BY <1>0, <1>1 DEF BooksInv, LastWord, Frozen
<1>3. LastWord'
  BY <1>1, <1>2 DEF BooksInv, LastWord, AfterPayment, payouts, refundRows
<1>4. ReceiptsKept'
  <2>1. amountPaid + rebate = gateway + counter + credit
    BY DEF BooksInv, BooksBalance, ReceiptsKept
  <2>2. amountPaid' + rebate' = gateway' + counter' + credit'
    BY <1>0, <1>1, <2>1
  <2> QED BY <2>2 DEF ReceiptsKept
<1>5. DepositNotSettled'
  BY <1>0, <1>1 DEF BooksInv, BooksBalance, DepositNotSettled, AfterPayment, Settling
<1>6. PayoutNetOfRefunds'
  BY <1>1, <1>2 DEF PayoutNetOfRefunds, payouts
<1> QED BY <1>3, <1>4, <1>5, <1>6 DEF BooksBalance

\* A payout: the receipts up to the bill, less commission and refund credits, for
\* an invoice no bank refund was made of.  The bill is paid, so what earlier joins
\* gave back is not part of it.
LEMMA BooksPayout ==
    ASSUME BooksInv, PayInvoice
    PROVE  LastWord' /\ BooksBalance'
<1> DEFINE s == Surplus(gateway, displayTotal)
<1>0. /\ {batches, sentBack, displayTotal, gateway, refundCredit, amountPaid,
          counter, credit, rebate, lateRebate} \subseteq Nat
      /\ payout \in Int /\ displayTotal <= Total /\ Total \in Nat
  BY InvoiceAssumption DEF BooksInv, RefundInv, TypeOK, LastWord
<1>1. /\ status = "payout_approved" /\ status' = "bill_cleared"
      /\ batches = 0 /\ batches' = 1
      /\ payout' = payout + (gateway - s - Commission - refundCredit)
      /\ UNCHANGED <<money, refundRows, lateRebate, trip>>
  BY DEF PayInvoice, DueForInvoice
<1>2. payout = 0 /\ sentBack = 0 /\ lateRebate = 0
  BY <1>0, <1>1 DEF BooksInv, LastWord
<1>3. s \in Nat /\ gateway - s <= gateway /\ gateway - s <= displayTotal
  BY <1>0 DEF Surplus
<1> HIDE DEF s
<1>4. Commission \in Nat /\ Commission' = Commission
  <2>1. (displayTotal * CommissionPct) \div 100 \in Nat
    BY <1>0, RefundNat, InvoiceAssumption
  <2> QED BY <1>1, <2>1 DEF Commission, money
<1>5. PayoutNetOfRefunds'
  <2>1. /\ refundCredit' = refundCredit /\ sentBack' = 0 /\ gateway' = gateway
        /\ counter' = counter /\ credit' = credit
        /\ rebate' = rebate /\ lateRebate' = 0
        /\ payout' = gateway - s - Commission - refundCredit
    BY <1>0, <1>1, <1>2, <1>3, <1>4 DEF money, refundRows
  <2>2. Spent' = gateway - s
    <3> HIDE DEF Commission
    <3> QED BY <1>0, <1>3, <1>4, <2>1 DEF Spent
  <2>3. displayTotal <= amountPaid /\ amountPaid + rebate = gateway + counter + credit
    BY <1>1 DEF BooksInv, BooksBalance, DepositNotSettled, ReceiptsKept, Settling
  <2>4. Spent' <= gateway' /\ Spent' <= Total
    BY <1>0, <1>3, <2>1, <2>2
  <2>5. Spent' + (rebate' - lateRebate') <= Receipts'
    <3>1. Receipts' = gateway + counter + credit
      BY <2>1 DEF Receipts
    <3>2. gateway - s + (rebate - 0) <= gateway + counter + credit
      BY <1>0, <1>3, <2>3
    <3> QED BY <2>1, <2>2, <3>1, <3>2
  <2> QED BY <2>4, <2>5 DEF PayoutNetOfRefunds
<1>6. LastWord'
  BY <1>0, <1>1, <1>2 DEF LastWord, money, refundRows
<1>7. ReceiptsKept' /\ DepositNotSettled'
  BY <1>1 DEF BooksInv, BooksBalance, ReceiptsKept, DepositNotSettled, Settling, money
<1> QED BY <1>5, <1>6, <1>7 DEF BooksBalance

\* A handler in one transaction finds no request in flight.
LEMMA BooksLocked ==
    ASSUME BooksInv, Serial, Locked
    PROVE  AtMostOne' /\ CertifiedFull' /\ Undisturbed'
BY DEF Locked, AtMostOne, CertifiedFull, Undisturbed

\* Every step keeps the books, one request at a time.
LEMMA BooksNext ==
    ASSUME BooksInv, Serial, MaxFlights <= 1, [Next]_vars
    PROVE  BooksInv'
<1>0. RefundInv'
  BY RefundNext DEF BooksInv
<1> SUFFICES AtMostOne' /\ CertifiedFull' /\ Undisturbed' /\ LastWord' /\ BooksBalance'
  BY <1>0 DEF BooksInv
<1>1. CASE Reads
  BY <1>1, BooksReads
<1>2. ASSUME NEW r \in flight,
             \/ VerifyPaymentCommit(r) \/ CancelCommit(r) \/ JoinCommit(r)
             \/ RequestCommit(r) \/ VerifyCommit(r) \/ CompleteCommit(r)
             \/ ApproveCommit(r) \/ RejectCommit(r)
      PROVE  AtMostOne' /\ CertifiedFull' /\ Undisturbed' /\ LastWord' /\ BooksBalance'
  <2>1. Done(r)
    BY <1>2 DEF VerifyPaymentCommit, CancelCommit, JoinCommit, RequestCommit,
       VerifyCommit, CompleteCommit, ApproveCommit, RejectCommit
  <2>2. LastWord' /\ BooksBalance'
    BY <1>2, BooksStatuses, BooksCancel, BooksJoin, BooksComplete
  <2> QED BY <2>1, <2>2, Ended
<1>3. ASSUME NEW a \in 1..(Total + MaxReceipts),
             RecordPayment(a) \/ RecordGatewayPayment(a)
      PROVE  AtMostOne' /\ CertifiedFull' /\ Undisturbed' /\ LastWord' /\ BooksBalance'
  <2>1. Locked /\ a \in Nat
    BY <1>3, InvoiceAssumption DEF RecordPayment, RecordGatewayPayment
  <2> QED BY <1>3, <2>1, BooksPayment, BooksLocked
<1>4. CASE PayInvoice
  BY <1>4, BooksPayout, BooksLocked DEF PayInvoice
<1>5. CASE CompleteTrip \/ HostToggles \/ \E i \in Rows : WindowCloses(i)
  <2>1. Locked /\ UNCHANGED <<status, money, sentBack, payouts>>
    BY <1>5 DEF CompleteTrip, HostToggles, WindowCloses, refundRows
  <2> QED BY <2>1, BooksStay, BooksLocked
<1>6. CASE UNCHANGED vars
  <2>1. UNCHANGED <<status, money, sentBack, payouts, flight>>
    BY <1>6 DEF vars, refundRows
  <2>2. LastWord' /\ BooksBalance'
    BY <2>1, BooksStay
  <2>3. AtMostOne' /\ CertifiedFull' /\ Undisturbed'
    BY <2>1 DEF BooksInv, AtMostOne, CertifiedFull, Undisturbed, money
  <2> QED BY <2>2, <2>3
<1>7. CASE Commits
  BY <1>2, <1>7 DEF Commits
<1> QED BY <1>1, <1>3, <1>4, <1>5, <1>6, <1>7 DEF Next

\* A new invoice's books balance.
LEMMA BooksInit == Init => BooksInv
<1> SUFFICES ASSUME Init PROVE BooksInv
  OBVIOUS
<1>1. /\ flight = {} /\ batches = 0 /\ payout = 0 /\ sentBack = 0 /\ lateRebate = 0
      /\ displayTotal = Total /\ Total \in Nat
  BY InvoiceAssumption DEF Init
<1>2. DepositNotSettled /\ ReceiptsKept
  BY MoneyInit DEF MoneyInv
<1> QED BY <1>1, <1>2, RefundInit
        DEF BooksInv, AtMostOne, CertifiedFull, Undisturbed, LastWord, BooksBalance,
            PayoutNetOfRefunds

\* One request at a time, the books balance with an open seat too: no deposit is
\* settled under the bill a join lowers, every receipt is on the invoice or in a
\* rebate, and payout, commission, refunds and the rebates given before the payout
\* stay within the money, for any bill, commission, refund policy and order of
\* the handlers.  A join after the payout is excepted by name (lateRebate).
THEOREM BooksStayBalanced ==
    ASSUME Serial, MaxFlights <= 1
    PROVE  Spec => []BooksBalance
<1>1. BooksInv /\ [Next]_vars => BooksInv'
  BY BooksNext
<1>2. BooksInv => BooksBalance
  BY DEF BooksInv
<1> QED BY <1>1, <1>2, BooksInit, PTL DEF Spec
=============================================================================
