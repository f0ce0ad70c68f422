# TLA+ specifications of the houseboat booking system

Formal models of the core of this repository: selling the cabins of a
departure, the cart in the guest's browser, taking and returning the money, the
customer's wallet, the notifications of the payment gateway, the owner's weekly
schedule and the notices about its departures, the owner console without a
signal, and the session of an account. The models are written from the
TypeScript under `src/backend/src` and `src/frontend/src` and the SQL under
`src/backend/prisma`; TLC checks them on small instances, and TLAPS proves the
central properties for every value of the constants.

Paths below are relative to `src/backend/src` unless they begin with `src/`.

## 1. The system

A NestJS server over PostgreSQL (Prisma) with Redis and a hosted-page payment
provider. Several server processes may run; everything they agree on is in
PostgreSQL, at its default isolation level READ COMMITTED. What keeps two
requests apart is therefore a row lock (`SELECT ... FOR UPDATE`), a conditional
`UPDATE`, a unique index or a trigger, and a handler that reads *before* it takes
one of these acts on a value that may be old. The Next.js web application adds
its own: a browser's tabs share one cookie jar, its pages keep what an earlier
answer said, and its calls may arrive late, twice or not at all. Nearly every
property below is about such a gap.

| component | state | operations | talks to | what is hard |
|---|---|---|---|---|
| **Cabin inventory** `booking/holds.service`, `booking/booking.service`, `booking/hold-sweeper.service` | `cabin_hold`, `booking`, `booking_cabin`, `trip_departure.available_count` | hold (renew), release, sweep of lapsed holds, checkout of a cart, whole-boat buyout, cancel, open-seat join, nightly reconcile of the count | departure row lock; unique index on active holds; trigger on `booking_cabin` | eight writers of one denormalised counter; unlocked reads before locked writes; a buyout writes no cabin rows; the trigger exempts open seats |
| **Departure life cycle** `trips/trips.service`, `trips/departure-status.service` | `trip_departure.status` | create, cancel, revive, clock: sail, arrive, cascade to bookings | bookings, availability | the clock completes a trip in one statement and its bookings in another; a cancel may be in flight |
| **Invoice and payments** `money/payments.service`, `money/invoice-state`, `common/billing` | `invoice`, `invoice_payment` | counter payment, gateway payment, verification | booking (first payment), finance | absolute writes from earlier reads; partial, late, surplus payments; frozen states |
| **Refunds** `money/refunds.service` | `invoice_refund` | request by staff, request by the customer, verify, complete, settle at the counter, deadline | invoice, wallet | three different hands; at most one active refund; refunds racing payouts |
| **Payout** `platform/services/platform-finance.service` | `invoice.status`, `due_to_boat`, payout receipts | approve, reject, pay | invoices, refund credits | the boat must be paid once, and net of what the customer got back |
| **Gateway** `gateway/*`, `confirmIntent`, `createIntent` | `booking_intent`, `invoice_payment.gateway_token`, audit rows | open a page, dev/settle, notification | provider (external), inventory, invoice | repeated, concurrent, late notifications; restart between commit and answer; two pages of one checkout |
| **Wallet** `me/me.service`, `applyCredits`, `resolveCashout` | `customer_credit`, `cashout_request` | spend and split at checkout, ask for cash, approve, reject, issue | checkout, cancel, finance | statements of one transaction see different snapshots; a split creates a row no lock covers |
| **Cart** `booking/holds.service`, the boat and checkout pages | `cabin_hold.expires_at`, `last_seen_at`, guest token; the page's selection and countdown | hold, drop, heartbeat, extend once, leave, come back, claim at sign-in | inventory, sign-in, sweeper | three clocks (time to live, grace, countdown); deadlines computed from an earlier read; late answers |
| **Offline sync** `sync/sync.service`, the console's queue | `sync_intent_applied`, `sync_conflict`; IndexedDB | queue, flush, claim, re-authorize, apply, release the claim, report a conflict | inventory, money, operations, membership | claim, action, audit row and answer are four commits; actions arrive days late; two flushers |
| **Sessions** `auth/*`, `redis/redis.service`, `lib/api.ts`, the middleware | accounts, refresh tokens, revocations, codes and counters (Redis), cookies | sign in, refresh, sign out, send and enter a code, reset | every request | check, then burn, then sign; two refreshers of one token; reads and writes of a counter |
| **Schedule generator** `trips/schedule-generator.service`, `trips/trips.service` | `boat_schedule`, its slots, generated `trip_departure` rows, operating dates | save, generate, nightly refill, add, move, cancel, revive | guests' checkouts, notices, the clock | checks before the transaction that writes; no unique index on slot and date |
| **Notifications** `notifications/*` | `notification` rows | send, record, resend, bounded retry by every process | SMS and mail providers (external) | a send that succeeded and was not recorded; overlapping scans |
| **Permissions and membership** `rbac/*` | memberships, roles | add, renew, change, leave | every request, offline sync | a membership is an interval of dates, its right is that of today |
| **Pricing, coupons, waitlist** `pricing/*`, `money/coupons.service`, `booking/waitlist.service`, `common/cancellation`, `common/child-policy` | price rows, coupon uses, waitlist rows | price a selection, redeem, join | checkout, cancel | coupon limit counted outside the transaction; rounding |
| **Subscription billing** `money/finance.service` | subscription invoices of boats | monthly issue, overdue, pay | permissions (edit lock) | once per period without a unique index |
| **The rest** operations, crew, maintenance, assets, quotes, owner reports, platform settings, media, audit, health, the other pages | single rows, read-only aggregates, files | create, update, list | – | little: see `PROJECT.json`, which lists each with the reason it is not modelled |

How the parts meet: a shopper *holds* cabins (inventory), prices the cart and
gets a *booking intent*; the *gateway* captures a deposit and notifies the
server; `confirmIntent` turns holds into a booking with an *invoice* in one
transaction and may spend *wallet* credit; later payments, verification,
approval and payout move the invoice; a cancellation frees the cabins, cancels
the invoice and issues a credit; the *sweeper*, the *clock*, *reconcile*, the
*nightly refill* of the schedule and the *notification retry* run beside all of
this, in every server process. The owner's console may do its part later, from
its offline queue.

## 2. Modules

| module | models | composed of |
|---|---|---|
| `BoatSale` | what is promised about one departure: a party buys free cabins and may give them back | – |
| `Inventory` | the rows and the counter of one departure under every code path that writes them | instances `BoatSale` by refinement |
| `InventoryProofs` | theorems about `Inventory`: who shares a cabin, the count, the refund, final rows, the refinement | extends `Inventory` |
| `InvoiceState` | the pure part of the money modules: the transition table, the frozen set, status after a payment, surplus, `dueForInvoice` | – |
| `Invoice` | one invoice, its refund rows and its payouts | extends `InvoiceState` |
| `InvoiceProofs` | theorems about `Invoice` | extends `Invoice` |
| `Wallet` | credits and cash-outs of one customer, statement by statement, and the coupon their checkouts redeem | – |
| `WalletProofs` | theorems about `Wallet`: the coupon, the types, the money, and the sums they rest on | extends `Wallet` |
| `Gateway` | one checkout: its intent, pages, captured payments, notification handlers | extends `InvoiceState` |
| `GatewayProofs` | theorems about `Gateway` | extends `Gateway` |
| `Cart` | one guest's cart: the hold rows with their deadlines, the page that shows them, the calls between the two | – |
| `CartProofs` | theorems about `Cart` | extends `Cart` |
| `Schedule` | the departures of one boat: schedule, generator, edits by the owner, guests, clock | – |
| `Notify` | the notices, their first attempt and their repeats by several processes | – |
| `Season` | `Schedule` and `Notify`, joined where a cancellation tells the guests it found | extends both; implements `Notify` |
| `SeasonProofs` | theorems about `Notify` and `Season`, that it implements `Notify` among them | extends `Season` |
| `SyncReplay` | actions queued on a device, two flushers, the replay, the membership that is asked for | – |
| `SyncReplayProofs` | theorems about `SyncReplay` | extends `SyncReplay` |
| `Session` | cookies, refresh tokens, codes, counters and the password of one account | – |
| `SessionProofs` | theorems about `Session` | extends `Session` |
| `MCInventory`, `MCInvoice`, `MCWallet`, `MCGateway`, `MCSyncReplay` | symmetry sets for TLC | extend the module they are named after |
| `MCCart`, `MCSession`, `MCSeason` | the scenarios of the runs | extend the module they are named after |

### 2.1 Inventory

State: one function per column of `cabin_hold` and `booking`, `avail` for
`available_count`, `status` for the departure. Time is the set `lapsed` of
holds whose `expires_at` has passed: a hold lapses at any moment (`Lapse`) and a
repeated `Hold` renews it. The remaining variables are what a request in flight
remembers.

Granularity follows the locks. `hold`, the checkout transaction and
`groupCheckout` lock the departure row before they read anything they rely on;
each is one action. `release`, `cancel`, `joinOpenSeat`, the sweeper, the pricing
read and reconcile read first: `ReleaseRead`/`ReleaseCommit`,
`CancelRead`/`CancelCommit`, `JoinRead`/`JoinCommit`,
`SweepFind`/`SweepCommit`, `PriceSelection`/`Checkout`, and three reads and a
write of reconcile. `Clash` is the trigger
`enforce_one_active_cabin_per_departure` with its later exemption for open
seats; `Held` carries the partial unique index.

`Features` selects the code paths of a run: `release`, `reconcile`, `openSeat`
and `host`; `MaxReplays` is the number of offline manifest actions. Some pairs of
paths break properties the others keep (section 6), which is why they are
switched and not simply all on.

### 2.2 Invoice

State: the columns of `invoice` (`status`, `displayTotal`, `amountPaid`,
`amountOverpaid`), the receipts that justify them by kind (`gateway`, `counter`,
`credit`), what went back (`refundCredit`, `rebate`, `sentBack`), the refund
rows, the payouts. Handlers that lock the row are one action. Every other
handler is a `...Read` that checks `assertTransition` and puts the value it will
write into `flight`, and a `...Commit` that writes it. `Serial` allows one
request at a time, `Joinable` adds the open seat. Permission checks are assumed
to pass; the account that acts is kept where refunds compare accounts. A join
that lowers the bill credits the first booker with what they paid too much
(`rebate`); `lateRebate` keeps the part of it that was credited after a payout.

### 2.3 Wallet

`applyCredits` and `createCashout` are split at every statement, since at READ
COMMITTED each statement has its own snapshot: `Lock` takes row locks on the
credits it sees, `ReadCredits` sees what is committed by then, `CheckoutCommit`
and `CashoutCommit` wait for the row locks they need. `OpenAnytime` lets other
handlers issue or reopen credits while requests run.

The checkouts of `Wallet` may carry a coupon of limited use. `PriceSelection` reads
the counts of its bookings outside any transaction; `RecheckCoupon` takes the
coupon's row and counts again, and the row is held through the credits to the
commit, which makes the booking count. Other customers redeem under the same
row, cancels free a use, and the offline `mark_not_arrived`, which writes the
status of any booking, makes a cancelled one count again (`uses.back`). Those are
counted against the limits but no limit can refuse them, so `CouponWithinLimits`
speaks of the redeemed ones (`uses.mine`).

### 2.4 Gateway

State: the intent, whether its departure is on sale and its holds are live, the
booking made from it, the invoice, and for every payment its page, amount and
fate: `captured`, `recorded` (a row with its `gateway_token`), `audited` (a row
for manual reconciliation), `acked` (the provider got a success). A notification
occupies one of `Slots` and passes `Notify` (validate and look the token up),
`Reconcile` (the amount band), then `ConfirmRead` and `ConfirmCommit` or
`Record`, then `Answer`. `Crash` empties the slots. The provider is external: it
may report any captured payment any number of times, concurrently, and may
report an amount no page asked for. A payment the validator does not report in
Taka is `foreign`: `Notify` answers it and writes nothing
(`gateway/sslcommerz.service.ts:117`). The audit row of a mismatch may fail, and
the notification is acknowledged all the same: `unlisted`
(`gateway/gateway.controller.ts:343`).

### 2.5 Cart

State: the hold rows with the time they have `left` and the time since the page
was `seen`, what a hold or an extension under way has read, the calls and
answers on the network (`net`), and the page: its selection, the hold ids it
knows, the countdown it shows, whether it said *expired*, and the booking
attempt of the checkout page. Deadlines are absolute in the code; the model
keeps the time that is left, and `Tick` ages rows, calls and countdown together,
so that time has no bound. `HoldRead`/`HoldWrite` and `ExtendRead`/`ExtendWrite`
are split because `extendForCheckout` takes no lock and `hold` computes the
cart's common deadline before it writes it. The sweeper is `SweepRead` and
`SweepWrite`. A guest starts without a token, and every hold request that
carries none has one minted (`Callers`, `Minted`; `booking/guest-token.ts:54`):
two first holds under way at once have two owners, and the browser keeps the
cookie whose answer arrives last (`CookieKept`). The other row is neither
extended, reported in nor claimed, and goes when its time or the grace ends; a
row whose cookie never reached the browser is a `rival`'s. `past` records what
the properties except: lost beats, rows that were overdue (`late`) or had no
time left (`dead`) once, a guest's holds a sign-in did not hand over
(`unclaimed`), two deadline writers on one cart at once (`raced`), an extension
that another write overtook between its read and its own (`stale`), and a
guest's cart that got two owners (`split`). A page the guest leaves hears no
answer of its calls any more, wherever they are: on the network, in a hold or in
an extension.

### 2.6 Schedule, Notify and Season

`Schedule` numbers days. A request of the owner is a *job* at a desk, with one
action per read and write: a save finds the active schedule (`SaveStart`), reads
the departures without a booking (`SaveRead`), cancels them by id and retires
the other schedules (`SaveWrite`), then generates (`GenRead`, one `GenAdd` per
departure); the nightly job generates for each active schedule. A departure
remembers its slot and date; a guest remembers the departure and the date the
checkout showed. An edit that keeps the date skips the count of bookings and
still writes the date it read (`trips/trips.service.ts:286-313`). `Notify` keeps
a row per notice with its count and its next attempt; a scan takes its list,
then for each row reads it, sends, and writes. The provider takes a message,
refuses it, or takes it while its answer is lost (`Answers`); the code reports
the last as a refusal (`notifications/notifications.service.ts:159`), and `redo`
counts those copies and the ones of a scan that stopped before its write.
`Season` conjoins them: `cancelDeparture` leaves the list of guests it found,
and `TellGuest` sends and records one notice after another. A request may fail
between two steps, and a scan may stop between the provider's answer and its
write.

### 2.7 SyncReplay

State: where each action of the member is (`phase`: online, queued, removed),
the queue (an object store: a batch takes its intents in any order, since the
clock they are sorted by may be set back), what each flusher waits for, the
requests inside the server step by step (claim, membership, apply, audit row,
answer), the ledger of claims, the conflict rows, the membership row and the
day. A restart (`Crash`) ends the requests, a fault loses an answer or fails a
write. When the write that fails is the conflict row of a refusal, the catch
releases the claim a second time (`ReleaseAgain`), by the intent's id and
whoever holds it by now. The membership row can be added, renewed, changed in
role, status or start date, deleted, and exited, also when it was exited
already. `disowned` and `restamped` record the intents whose claim such a
release took from another request, and a second exit on a later day. The
action's payload is abstracted to whether it moves the departure's date, the one
kind that an applied action can be refused for after a guest booked.

### 2.8 Session

State: the jar (access and refresh cookie), every refresh token signed with the
password version it descends from, the revocation list, the cutoff second of
the last reset, requests under way by step (`RefreshStart`, the revocation
check, the cutoff, burn, sign), what each tab shows, the codes, tickets and
failure counters. A sign-in compares the password, clears
the failures and signs in three steps (`PasswordMatches`, `FailuresCleared`,
`LoginSucceeded`), with the version of the password it compared, so that a
reset may fall between them. One action is one `await`. The middleware is one more
refresher that shares no memory with the tabs.

## 3. Runs

| run | instance | checks |
|---|---|---|
| `inventory_core` | 2 cabins, 2 carts (one at the counter), 2 holds, 3 bookings, 2 cancels in flight, host on | types; no second buyer beside a buyout; the count never over-advertises and is exact until a buyout; one refund per booking; rows are final; refinement of `BoatSale` |
| `inventory_rows` | 1 cabin, 3 bookings, 2 holds, release, open seats and host on | two active closed rows share a cabin only by a join |
| `inventory_reclaim` | 1 cabin, 2 holds, reconcile, 1 replayed manifest action, fair sweeper | a lapsed hold is given back or renewed |
| `invoice_races` | bill 2, commission 50 %, deposits 0..2, wallet credit 0 or 2, 3 staff accounts, 2 requests in flight | deposits are not settled, full payments are not due, receipts and surplus on record, one payout, separate hands |
| `invoice_serial` | the same with one request at a time, any wallet credit, 2 refunds, 3 refund percentages, one unit of later surplus, open seat | the books balance: receipts kept, no deposit settled, and payouts net of the refunds and of the rebates given before them |
| `wallet_bursts` | 2 overlapping requests again and again, 2 cash-outs, 3 units; a coupon for 2 uses, 1 per customer, and any number of other customers | conservation; one cash-out pending and covered by what is locked; the coupon's limits |
| `gateway_retries` | 2 payments, in Taka or not, 2 slots, 1 restart, audit rows that may fail, deposit 1 of 2, an odd amount, dev/settle on, fair | one booking per intent, nothing silent, everything captured is answered and counted once, everything recorded is acknowledged |
| `carts` | 2 cabins, 2 rows, 3 tokens to mint, TTL 3, extension and grace of 1 tick; six scenarios (`MCCart`): both cabins, a cap of one, the page opened again, a sign-in with a fault, a rival, a guest with both cabins | one countdown per cart, the page's countdown is honest, the cap holds |
| `seasons` | 2 guests, 2 desks, a week of 2 days, window 2, two days, 6 departures, 2 schedules, 2 attempts; seven scenarios (`MCSeason`), one of them with a cancelled departure, 2 processes, 1 resend and 2 stops or failed writes, and in all of them a provider that takes, refuses, or takes and is not heard | booked dates stay, one trip per slot and day, guests are told, no notice is given up early and its copies are bounded but for those its row never learned of, the cron jobs catch up: the window is filled and every notice settles |
| `sync_replays` | 1 action that moves a date, 2 flushers, 2 requests, 2 days, 2 events (lost answers, failed writes, restarts, at most 1 change of the membership), fair | nothing dropped but by an interrupted replay, no double replay but by a released claim, no action of a former member, the queue drains |
| `sessions` | 2 tabs, 2 refreshes, 2 code entries, 2 sign-ins, up to 4 tokens, up to 3 seconds; seven scenarios (`MCSession`) | a tab is not signed out by its own refresh, what was ended stays ended, guesses are counted |
| `reconcile_after_buyout` | as core, reconcile on, no host | **violated**: `BuyoutExclusive` |

Why the bounds are enough to be interesting. Two cabins are the least that tell
a buyout from a cabin booking and a partial from a full cart; two holds let the
two carts race for one cabin, or one row lapse while its replacement is live;
two concurrent cancels are what a double refund needs, and three bookings let a
buyout follow a cancelled one and a join be followed by a re-sale. A bill of two
units has a deposit, a full payment and a surplus (on which a wallet credit of
two units lets a second payment fall), and a commission of one half makes
payouts and refunds collide. Three staff accounts are what separation of duties
asks for. Two slots and two payments give the same notification twice at once,
and two different ones. The scenarios of `carts`, `sessions` and `seasons` are
the overlaps that need more than two things at once, each with just these: any
two saves, a save beside a checkout and a refill, a move beside two payments, a
cancellation that tells two guests and may stop on the way; all of a scenario's
orders are explored. In the scenario of `seasons` about notices one notice is
enough, since a scan treats its rows one after the other and no two share
anything; two processes are what an overlap needs, and the other scenarios have
one (`processes` of the scenario's `budget`). Three tokens let two first holds
overlap and a third come after them. Six departures are what two generations of
a two-day window and a hand-made one add at most. One action suffices in
`sync_replays` because a batch applies its intents one after the other and they
share no row, and the one that moves a date is the kind that can be applied,
refused and conflicted; two events are a failed audit row and a restart, or a
failing conflict row and a change of the role, with every order of flushes
around them. The member starts active or as one who left the day before, so that
one change of the row can end a right, give it back or stamp a second exit.
Every bound is a constant of the module, is commented there as a bound, and
appears in a guard only, but for `Credits`, which chooses the initial states.

Deadlock is checked in the runs of `Invoice` and `Wallet`. It is not in those of
`Inventory` and `Cart`, where the finite rows are used up, of `Gateway`, where a
checkout nobody pays really ends, nor of `Season`, `SyncReplay` and `Session`,
whose days, faults and tokens are bounded.

**Fairness.** `Inventory!FairSpec` assumes only that the sweeper's cron job
keeps running (weak fairness of `Sweep`); shoppers, the host and reconcile owe
nothing. `Gateway!FairSpec` assumes that a handler that runs goes on (weak
fairness per slot; a restart may still end it) and that the provider repeats an
unacknowledged notification (strong fairness of `Notify`, because the number of
slots is a bound of the model and others may occupy them: the real server has no
such limit). The comment at `money/payments.service.ts:255` is the source of
that assumption. `SyncReplay!FairSpec`: a request the server took up goes on
unless a fault ends it, an answer reaches its flusher or the flusher learns that
none comes, and the console is opened or comes online again (weak fairness of a
flush by anyone); faults are bounded, so that they end. `Season!Spec`: both cron
jobs run (`@Cron` in the two services), a request ends, a notice due is tried,
time passes; nobody has to save, book, cancel or resend. No request spans
midnight (`NextDay` waits for the jobs), and the last day has no faults, which
is "faults end".

## 4. Properties worth reading

* `CountHonest` (Inventory): the denormalised count is `cabins - held - booked`
  in every state, up to the first buyout, and never above it at all.
* `BuyoutExclusive`: a buyout writes no cabin row, so neither the trigger nor the
  index protects it; the lock order and the voiding of holds do.
* `RowsAreFinal` (Inventory): a stale release, sweep, cascade or cancel takes
  nothing back that was given up.
* `BoatSaleSpec`: the refinement. Whatever the rows do, what each booking has
  bought changes only by buying free cabins or giving all of them back.
* `PaidOnceInFull` (`DepositNotSettled` and `PaidOutOnce`), `PayoutNetOfRefunds`
  (Invoice): the three ways in which the boat could be paid too early, too often,
  or too much. What the customer got back counts refunds, refund credits and the
  rebates of joins; a rebate credited after the payout (`lateRebate`) is excepted
  by name, since the code gives that money away twice (section 6).
* `MoneyOnRecord` (Invoice): the columns agree with the receipts; `BooksBalance`
  is the same and the payout beside joins that lower the bill.
* `WalletConserved`, `CashoutCovered` (Wallet): conservation across splits.
* `CouponWithinLimits` (Wallet): several checkouts priced with the last use.
* `PaymentsAreAnswered`, `NeverSilent` (Gateway): money the provider took ends in
  a row, counted once, or on the list for manual reconciliation, and the provider
  is told to stop. `PaymentsAreAnswered` excludes (by name, `CheckoutLost`) a
  first deposit whose holds, departure or intent went away before it was
  confirmed: the code throws, the provider repeats without end and no row is
  written. That is a real gap and not covered by a promise in the code. Both
  properties except two kinds of payment that the code acknowledges without a
  row: those the validator does not report in Taka (`foreign`) and mismatches
  whose audit row failed (`unlisted`).
* `CountdownIsHonest` (Cart): while the page counts down for a cabin, the server
  holds it at least that long, across the change of page, a reload, a sign-in and
  overlapping calls. Its exceptions are history variables, each set by one event
  (a lost beat, a claim that failed, two deadline writers at once, a second token
  minted for the same guest) and nothing else.
* `GuestsKeepTheirDate`, `OneTripPerSlotDay`, `GuestsAreTold` (Season): what a
  re-save, a refill, a move and a cancellation may not do to a guest, whatever
  they overlap. The exceptions `late` (a payment that overtook the change) and
  `twin` (two generations at once) name the two gaps of the code, see section 6.
* `RetriesBounded` (Notify): several processes scan the same rows and write a
  count they read long before; still no notice is given up before it was really
  tried, and each copy beyond the first that the customer gets is owed to an
  overlapping scan, or counted in `redo`: the provider took it and the row never
  learned so, because the answer was lost or the scan stopped. Those are bounded
  by the limit of attempts alone; the code cannot tell them from a refusal.
* `NeverSilentlyDropped`, `NoDoubleReplay`, `FiredNeverApplies` (SyncReplay):
  what is left of *never silently drop* and *never a double-apply* with a
  restart between two commits, and whose actions a replay may apply. A claim
  that was released although its action took effect (`unlogged`) or although
  another request had taken it (`disowned`) is excepted by name, and so is a row
  whose right was given back or whose start date was moved back (`regranted`) or
  whose exit was stamped again (`restamped`).
* `TabKeepsItsSession`, `EndedStaysEnded`, `GuessesAreCounted` (Session): parallel
  calls of one tab do not sign it out; a sign-out or a reset is not undone by a
  refresh, but for one that was already past the check; a reset spares by name
  (`past.spared`) a session of its own second, a refresh past its check, and a
  sign-in that compared the old password before the reset and signed after it;
  a code or a password is not tried more often than the limit plus what overlaps.

Each property of a passing run has a mutant in `PROJECT.json`: a plausible bug
of a definition of the model under which TLC finds it violated.

## 5. Proofs

| theorem | says |
|---|---|
| `InventoryProofs!TypeCorrect` | types, on every code path |
| `InventoryProofs!NoDoubleSale` | `ClosedRowsShareOnlyByJoin`, if no manifest action is replayed |
| `InventoryProofs!BuyoutIsExclusive` | `BuyoutExclusive`, and that a buyout leaves no hold and no place (`BuyoutClosesBoat`), with `Features` within `{"host"}` and no replay |
| `InventoryProofs!ImplementsBoatSale` | `Spec => BoatSaleSpec` on the same paths |
| `InventoryProofs!CountIsHonest` | `CountHonest`, on the same paths |
| `InventoryProofs!RefundedOnce` | `RefundedAtMostOnce`, if no manifest action is replayed |
| `InventoryProofs!RowsStayFinal` | `RowsAreFinal`, without release requests and replays |
| `InvoiceProofs!TypeCorrect` | types, every request in flight included |
| `InvoiceProofs!DutiesAreSeparate` | `DutiesSeparate` for any number of accounts and concurrent requests |
| `InvoiceProofs!PaymentsAreKept` | `MoneyOnRecord` (full payments not due, receipts kept, surplus on record), without open seats |
| `InvoiceProofs!DepositsStayDue` | `DepositNotSettled`, without open seats |
| `InvoiceProofs!PaidOnce` | `PaidOutOnce`, on every path |
| `InvoiceProofs!PaidOnceAndInFull` | `PaidOnceInFull`, without open seats |
| `InvoiceProofs!BooksStayBalanced` | `BooksBalance`, with one request at a time, open seats included: a payout beside the refunds, and the rebates given before it |
| `WalletProofs!CouponsKeepTheirLimits` | `CouponWithinLimits`, for any number of overlapping requests |
| `WalletProofs!WalletTypes` | types, for any number of requests, `OpenAnytime` or not |
| `WalletProofs!WalletIsConserved` | `WalletConserved`, with at most two requests at once and nothing opened under them |
| `WalletProofs!CashoutsAreCovered` | `CashoutCovered`, on the same condition |
| `GatewayProofs!TypeCorrect` | types |
| `GatewayProofs!BookedOnce` | `OneBookingPerIntent`, second pages, dev/settle and restarts included |
| `GatewayProofs!NothingIsLost` | `NeverSilent`, if one page of an intent is paid: what is acknowledged is recorded or listed, but for payments not in Taka and failed audit rows |
| `SeasonProofs!NotifyRetriesBounded` | `NotifySpec => []RetriesBounded`, lost answers included, for any number of processes |
| `SeasonProofs!SeasonImplementsNotify` | `Spec => NotifySpec`: every step of the season is a step of the notices or leaves them alone |
| `SeasonProofs!SeasonRetriesBounded` | `RetriesBounded` in the composition |
| `SeasonProofs!SeasonTypes` | types of departures, requests, bookings and notices |
| `SeasonProofs!SeasonKeepsDates` | `GuestsKeepTheirDate`, for any guests, desks, days and schedules |
| `SeasonProofs!SeasonOneTrip` | `OneTripPerSlotDay`, likewise |
| `SeasonProofs!SeasonTellsGuests` | `GuestsAreTold`, likewise, whatever fails or overlaps |
| `CartProofs!CartTypes` | types, and no time left is negative |
| `CartProofs!OneCountdownPerCart` | `OneCountdown`, for any cabins, rows, calls and sign-ins |
| `CartProofs!CapIsRespected` | `CapRespected`, likewise |
| `CartProofs!CountdownStaysHonest` | `CountdownIsHonest`, likewise, for any durations and any number of minted tokens |
| `SessionProofs!SessionTypes` | types |
| `SessionProofs!OwnRotationIsNoRefusal` | `TabKeepsItsSession`, for any number of tabs, refreshes and tokens |
| `SessionProofs!EndedSessionsStayEnded` | `EndedStaysEnded`, likewise, with sign-ins under way across the reset |
| `SessionProofs!EveryGuessCounts` | `GuessesAreCounted`, for any number of codes, entries and sign-ins |
| `SyncReplayProofs!TypeCorrect` | types, the requests inside the server included |
| `SyncReplayProofs!ReplayedOnce` | `NoDoubleReplay`, for any number of flushers, concurrent replays, lost answers, failing rows and restarts |
| `SyncReplayProofs!NothingSilentlyDropped` | `NeverSilentlyDropped`, likewise |
| `SyncReplayProofs!FiredIsRefusedByDay` | `FiredNeverApplies`, whatever happens to the membership between capture and replay, second exits and moved start dates included |

Assumptions: the named `ASSUME` of each module (finite sets of cabins, holds and
bookings; `NULL` is no row; bounds are naturals; the deposit is between one and
the total) and the premises in the table. TLC evaluates every `ASSUME`.

The arguments. `NoDoubleSale`: the property is inductive with the type invariant
and the fact that a join's host is decided when its row is inserted; the case
that matters is `JoinCommit`, where the trigger has just seen that nobody else
has a closed row. `BuyoutIsExclusive` needs `SaleInv`: a buyout commits with no
active booking, voids every held row and sets the count to zero; the count can
only rise again by giving back a *held* row or the cabins of an *active*
booking, of which there are none, so `avail = 0` and `Held = {}` are inductive
together and nobody can hold, hence nobody can check out. The invariant fails
without the premise on `Features`, and section 6 shows why.
`ImplementsBoatSale` maps each action to a sale, a return or a stutter, using
`SaleInv` in both states. `DutiesAreSeparate` rests on `RefundInv`: a request in
flight remembers a row it has read and an account that was checked against that
row, rows only gain signatures, and the check constraint of the database rejects
the one combination two stale requests can produce. `PaymentsAreKept` adds that
a request in flight that will settle an invoice was started when it was fully
paid, and that payments never fall. `NothingIsLost` uses `Accounted`: only one
page has the intent as its target, so a payment that finds the intent consumed
is the payment that consumed it, and is recorded.

`NotifyRetriesBounded` rests on `NotifyInv`, which counts scans: what a scan has
read of a row is at most the row's attempts (`ScansKnowRows`), so a stale write
of `read + 1` is never more than was really tried (`TriesCount`); and the copies
of a row are paid for by the scans that still hold it as due (`CopiesOpen`) and,
once it is delivered, by those that read it before (`CopiesPast`); a copy the
row never learned of is counted in `redo` in the same step. The lemmas are about
the cardinality of the set of such scans when one enters or leaves it.
`SeasonImplementsNotify` is step simulation: a step of `Schedule` stutters,
`TellGuest` is `Notice`, and a failing request leaves the notices alone, so
`SeasonRetriesBounded` follows by temporal logic. `SeasonKeepsDates` and
`SeasonOneTrip` share `TripInv`: requests refer to rows that exist
(`RequestsHaveTrips`, `GuestsHaveTrips`), a date move in flight found nobody
booked, or keeps the date the departure has, so that whoever paid since is
`late` (`MovesAreFree`), and the list a generation works off holds only pairs of
slot and date that nobody had added when it read, or whose adder it can see is a
twin (`AddsAreMissing`). `SeasonTellsGuests` is about a loop over a list read
before the write: `CancelsKnowGuests` (a cancellation under way has every guest
of its departure on its list, but for who booked after it read) and
`SavesSpareGuests` (a save cancels nothing that had a guest when it read) hold
until the write; after it a guest has a notice, is still on the list of a
worker, or was left untold by a request that failed, and a notice in use is
never about another guest.

`CountIsHonest` rests on `CountInv`: `SaleInv`, no two held rows are of one cabin,
and a row that was never inserted has no kind; then a cart sells as many cabins
as it has holds, and every step changes the count and the cardinality of `Held`
and of the booked seats by the same number. `RowsStayFinal` is an action property
of `TypeOK` and of what a request in flight remembers. `PaidOnce` needs no
strengthening: only `pay` adds a payout, and it reads `payout_batch_id` on the
row it has locked, whatever approvals and rejections were between read and write.
`CouponsKeepTheirLimits` rests on `CouponInv`: one checkout at most holds the
coupon's row, and as long as it does there is room for its redemption, since
nobody else commits one and a cancel only makes more room (`Room`).

`BooksStayBalanced` rests on `BooksInv`. With an open seat the bill may fall
under what was paid, so the invariants above no longer hold one by one; with one
request at a time what that request read still holds when it writes
(`AtMostOne`, `Undisturbed`: a join remembers the amount paid, nothing else runs
on a settled invoice), and money leaves the books once, into a status no handler
leaves (`LastWord`): an invoice paid out stays cleared, one refunded by bank
stays refunded, and what a join gives back after the payout is `lateRebate`.
What remains is arithmetic: the commission falls with the bill
(`CommissionFalls`), so that a bill lowered by a join *before* the payout leaves
payout, commission and refunds within the gateway's money.

The money of `Wallet` is sums over the credits, and the lemmas about sums are
proved in `WalletProofs` without the library's induction theorems, which the
provers cannot instantiate: a set for which the fold is not well defined would
have one of least cardinality (`LeastOf`), and taking a member away gives a
smaller one. From there come sums of disjoint sets, of equal summands and of a
changed row. `WalletInv` says why overlapping requests do not spend a credit
twice, though the lock and the read are separate statements: while nobody is
done the open credits are the ones every request found (`FoundOpen`), of two
requests inside the locks one has nothing to lock (`LocksExclude`), what a
request read is still open and of the same amount when it writes (`SeenIsOpen`),
and a cash-out beside a pending one finds nothing to move (`PendingFirst`), which
keeps the pending credits those of the one pending request (`OnePending`). A
checkout splits at most one credit, the last it takes, so the credit it adds is
worth exactly what the split left over. The two premises are not for the proof's
convenience: a third request, or a credit opened while two run, breaks
conservation (section 6); `WalletTypes` and the coupon need neither.

`OneCountdownPerCart`: between its read and its write a hold knows the latest
deadline of its cart (`TxReadsLatest`). `CapIsRespected`: who has no time left
is `dead` (`RanOut`), and a hold under way found room that nobody else can take
meanwhile, since holds of one cart follow each other (`RoomForHold`).
`CountdownStaysHonest` compares a deadline the server wrote with one the page
shows after an answer that may be late: live rows belong to whom the jar says
(`AllClaimed`), an extension under way would still write what the rows lead to
(`ExtendsFit`), what the sweeper takes was overdue before the page counted it
(`OverdueAreLate`), and a page that was left hears nothing (`LeftIsDeaf`). A
minted token owns no row before its hold is written (`TxForCaller`), and until a
second one reaches the browser no call carries a token but the jar's
(`TokensFit`). The proof attempt corrected the model: an unmounted page used to
hear answers of calls that were still inside the server, an extension overtaken
by a hold or a sign-in was no exception although it writes a deadline that is
too early (`stale`), the cap excepted too little (a row without time counts as
gone in `hold` before it is overdue: `dead`), and a hold of another owner
counted as a race.

`OwnRotationIsNoRefusal` rests on `TabInv`: a tab has one refresh of its own
under way (`OneFlight`), a token about to be answered was never presented
(`NextIsFresh`), and one the tab burned leaves the jar before the tab asks again
(`BurnedByTab`). `EndedSessionsStayEnded`: of a session signed out, the token in
the jar and every one presented is burned (`EndedInv`), and a reset's cutoff is
after every older token it does not spare (`OldInv`); a sign-in still under way
with the replaced password joins the spared ones when it signs. The attempt
found the property false beyond three tokens: two rotations of one token leave
two live tokens of a session, of which a sign-out burns one. That is how the
code behaves (section 6), so `Rotating` names it, and the run has a scenario of
four tokens that reaches it. `EveryGuessCounts` counts, per code, the entries
the count has and the one under way (`CountedInv`), a ticket per right entry at
most (`TicketsEarned`) and failures plus sign-ins past the lockout check
(`LockoutInv`).

`ReplayedOnce` rests on `ClaimInv`: a request between its claim and its release
has a ledger row nobody else can claim, no two such requests work on one intent,
and what was applied stays claimed; all of it but for the intents whose claim
was released too early (`Excepted`: the audit row failed after the commit, or
the catch of a refusal deleted a claim it no longer held).
`NothingSilentlyDropped` uses `FateInv`: an intent whose claim is in the ledger,
or that was answered *applied* or *duplicate*, is accounted for before the
device hears of it, and being accounted for is stable (`AccountedKept`) because
a replay turns to its next intent only after it applied this one, recorded its
conflict or was interrupted. `FiredIsRefusedByDay` uses `CapturedInv` (the
device time is fixed before anybody can replay the action) and `TenureInv`
(every past day the row covers is a day of tenure, unless an edit made it cover
more, `Excused`): both dates and the right are tested, and none of the three
tests can be left out.

So every invariant and every action property that a passing run checks is proved
for every value of the constants, on the premises in the table; section 6 shows
what happens without them. Only model-checked is liveness
(`LapsedHoldIsReclaimed`, `PaymentsAreAnswered`, `QueueDrains`,
`CronJobsCatchUp`): it needs fairness and `ENABLED`, which the
provers do not handle. The part of `PaymentsAreAnswered` that says a payment is
counted once is among it.

## 6. Disagreements

The run marked *violated* is recorded as a finding:

* **reconcile after a buyout** (`reconcile_after_buyout`,
  `booking/hold-sweeper.service.ts:249`): the pass counts `booking_cabin` rows, a
  buyout has none, the count goes back to every cabin, and the next shopper holds
  and books a cabin of a sold boat. The comment at line 141 says a drifted counter
  can "never oversell".

Seen with the models but not kept as runs. Each is reproduced by changing the
constants named (of the run of the same module) and checking the definition
named:

| definition | constants | what happens |
|---|---|---|
| `Inventory!RowsAreFinal` | `Features = {"release"}` | a release that read `held` before the checkout converts the row flips it to `released` and counts its cabin once more (`booking/holds.service.ts:269`) |
| `Inventory!BuyoutExclusive` | `Features = {"openSeat"}` | a join looks at the seat's row alone; its booking may be cancelled and the boat sold since (`booking/booking.service.ts:1428`) |
| `Inventory!HoldRefusesBookedCabin` | `Features = {"openSeat"}` | hold decides by the count and the hold index, not by booked rows |
| `Inventory!CabinSharedOnlyByJoin` | `Features = {"openSeat"}` | the trigger's exemption lets any checkout in beside an open row |
| `Inventory!CancelReopens` | `Features = {}` | cancelling a buyout gives back zero places (`booking/booking.service.ts:1330`); the nightly reconcile repairs it |
| `Inventory!ClosedRowsShareOnlyByJoin` | `MaxReplays = 1` | `mark_not_arrived` makes a cancelled booking active again (`sync/sync.service.ts:239`) |
| `Invoice!PayoutNetOfRefunds` | as `invoice_races`, `Credits = {0}` | a cancel passes its invoice check, finance approves and pays, the cancel commits with its refund (`booking/booking.service.ts:1292`; `money/invoice-state.ts:68` says an approved invoice is locked) |
| `Invoice!RefundsWithinPaid` | `Serial = TRUE` | cancel issues a credit and keeps `amount_paid`; the invoice is verified again and refunded by bank in full (`money/refunds.service.ts:134`, against the comment at 128) |
| `Invoice!ReceiptsKept` | `Joinable = TRUE`, `Serial = FALSE` | a join writes back the `amount_paid` it read (`booking/booking.service.ts:1507`); a payment in between is lost |
| `Invoice!FullIsNotDue`, `SurplusOnRecord` | `Joinable = TRUE` | a join lowers the bill and leaves the status and the surplus as they were |
| `Invoice!CompletedWasVerified` | any | completion accepts a refund that is still `requested` (`money/refunds.service.ts:394`) |
| `Wallet!WalletConserved` | `OpenAnytime = TRUE`, or a third request | a credit committed between the lock and the read of two requests (a refund, the rest of another split) is locked by neither and spent by both (`booking/booking.service.ts:179`, against the comment at 169-173) |
| `Wallet!CouponNeverOverused` | as `wallet_bursts` | a cancelled booking frees its use, somebody redeems it, and a queued `mark_not_arrived` makes the booking active again (`sync/sync.service.ts:239`; `booking/booking.service.ts:224` counts what is not cancelled) |
| `Gateway!NeverSilent` | `SecondPage = TRUE` | the customer pays on two pages of one intent: the second payment is answered as a replay and appears nowhere (`booking/booking.service.ts:909`; `money/payments.service.ts:257` says never silently lost) |
| `Gateway!NoFalseAlarm` | as `gateway_retries` | two concurrent deliveries of one notification: the second finds nothing outstanding and files a mismatch for a payment that is recorded |
| `SyncReplay!NothingDropped` | as `sync_replays` | a restart between the claim of an intent and its action: the next flush is told *duplicate* and removes an action that never ran (`sync/sync.service.ts:78`, against line 27, "never silently drop") |
| `Invoice!RebateAlreadyOff` | as `invoice_serial` | `joinOpenSeat` does not look at the status of the first booker's invoice: after a booking of 2 was paid, approved and paid out (1 to the boat, 1 commission), a join credits the first booker with a rebate of money that is gone, and the boat keeps its 1 (`booking/booking.service.ts:1427`; the comment at `platform/services/platform-finance.service.ts:366` leaves rebates out of the due because the bill was cut already; here it is cut afterwards) |
| `Invoice!BooksBalance` without `lateRebate` | as `invoice_serial` | the same, in money: the customer's refunds and the boat's payout together exceed the receipts |
| `Gateway!NeverSilent` without `foreign`, `unlisted` | as `gateway_retries` | a payment not settled in Taka is answered and written nowhere (`gateway/sslcommerz.service.ts:117`); a mismatch whose audit row fails likewise (`gateway/gateway.controller.ts:343`) |
| `SyncReplay!AppliedOnce` | as `sync_replays` | the audit row fails after the action committed, the catch releases the claim, and the next flush applies it again (`sync/sync.service.ts:129`, against line 70, "a money action can never apply twice"); the second release of a refused intent (:113, then :129) does the same without a failed audit row: another flusher that was authorized in between loses its claim (`disowned`) |
| `SyncReplay!ExitedNeverApplies` | as `sync_replays`, `DateChanges = {}` | the second exit of a member moves the end date to today, and what that person queued after leaving is applied (`rbac/membership.service.ts:200`; `sync/sync.service.ts:25` says "a fired manager's queued actions must not apply") |
| `SyncReplay!FiredIsRefused` | as `sync_replays` | the membership is compared by date: what was captured later on the last day, or with a role that has lost the right since, applies (`sync/sync.service.ts:173`, against line 25) |
| `Cart!CapRespected` without `past.dead` | as `carts` | `hold` and the extension write lapsed rows the sweeper has not reached, which the cap did not count (`booking/holds.service.ts:97`) |
| `Notify!RetriesBounded` without `redo` | as `seasons` | a provider that took the message and was not heard is asked again, up to the limit of attempts (`notifications/notifications.service.ts:159`, 262) |
| `Cart!GuestSharesCountdown` | as `carts` | two first holds of a guest under way at once have a token minted each, and the two cabins run out at different times (`booking/guest-token.ts:54`; `booking/holds.service.ts:192` says "a guest's cabins share one countdown exactly as an account's do") |
| `Cart!CountdownIsHonest` without `past.split` | as `carts` | the cabin whose token was overwritten lapses, or is swept, while the page counts down for it |
| `Session!NoneOutlivesReset` | as `sessions` | a session of the reset stamp's own second, a refresh past its check, a sign-in past its password compare (`auth/auth.service.ts:166`, 229; `auth/password-reset.service.ts:179` says "any pre-existing session is logged out on its next refresh") |
| `Session!EndedStaysEnded` without `past.spared` | as `sessions` | a sign-in that compared the old password before the reset and signed after it, a refresh past its check, a token of the stamp's second |
| `Season!GuestsKeepTheirDate` without `late` | as `seasons` | a move counts the bookings, then writes by id; a guest who pays in between, or on a price from before, is moved (`trips/trips.service.ts:288`) |
| `Season!GuestsAreTold` without `late` | as `seasons` | a re-save cancels by id what had no booking when it read; a guest who pays in between is cancelled and not told (`trips/schedule-generator.service.ts:155`, against the comment at 57) |
| `Season!OneTripPerSlotDay` without `twin` | as `seasons` | two generations at once add each its own departure (`trips/schedule-generator.service.ts:265`) |

Read while modelling, and kept in the models as the code has it:

* *Sync.* An online call whose answer was lost is queued under a new `intentId`
  and may be applied a second time
  (`src/frontend/src/lib/owner/submit-or-queue.ts`); a member whose right was
  withdrawn and given back on one row has what was captured in the gap applied;
  the replay of a cost drops its `comment` (`sync/sync.service.ts:201`) and
  takes no billing lock.
* *Session.* Two tabs, or a tab and the middleware, refresh one token: one of
  them is signed out although the session is alive. A refresh in flight at a
  sign-out puts the session back into the jar; two rotations
  of one token leave two live tokens of the session, and a sign-out burns the one
  in the jar; a sign-out whose revocation fails
  in a Redis outage leaves the refresh token valid; a token of the same second as
  the reset's cutoff, or a refresh in flight, outlives the reset.
  `recordOtpAttempt` reads and writes the count in two calls, so that overlapping
  entries are counted once. `lib/api.ts:115` says the `hb_sid` cookie rotates on
  refresh, `auth/auth.controller.ts:192` that it deliberately does not.
* *Cart.* The comment near `booking/holds.service.ts:302` bounds the life of a
  hold by 20 minutes; a hold that is taken again before it lapses has no bound.
  The checkout page shows any failure of the extension as *expired*, though a
  comment there reads 409 alone as that. When the claim at a sign-in fails, the
  comment says the checkout's token fallback covers it; the heartbeat and the
  extension no longer reach those rows and the grace ends them. The ids of holds
  taken again by *Pay* are not kept, so a second try is told *just taken* about
  its own hold. A cabin deselected while its hold is under way stays held. The
  comment at `BoatBooking.tsx:712` calls the snapshot "NOT a server hold", which
  it now is.
* *Season.* Two first saves at once make two active schedules, and only the next
  save retires one, whose departures stay on sale. A cancelled departure keeps
  its date taken, so that a weekday removed and added again is not generated. A
  generated departure that was moved lets the refill make its old date again. A
  repeated cancellation tells the guests again, a revival tells nobody, and late
  repeats of *cancelled* still go out after it. `notify` is said never to throw,
  but writing its row may, and the guests after that one are not told. A row may
  keep a next attempt after its last one, when two scans overlap
  (`notifications/notifications.service.ts:400` says it is cleared); no scan
  takes it.

## 7. Not modelled

Authorization (assumed to pass, but for the membership of `SyncReplay`),
validation of input shapes, encryption, wording, read-only lists and reports;
decimals (amounts are small naturals, without the rounding of `percentOf`);
row-lock *deadlocks* (every transaction is one step; PostgreSQL aborts one of two
transactions that wait for each other); failures of single statements inside a
transaction, which roll it back; best-effort writes after a commit
(`.catch(() => undefined)`), except those whose failure a model names.

Small departures from the code, each on the side of fewer interleavings: the
nightly refill is one worker, though every process runs it without a lock
(`trips/schedule-generator.service.ts:303`; two refills at once would be twins,
as two saves are); in `Cart` the cookie of an answer
reaches the browser when the row is written, while the page hears the answer
later; payments of an invoice are one locked action, so that the loss of that lock
cannot be seen; a sweep that PostgreSQL aborts is not modelled, nor a second
page of an intent in the run of `Gateway` (`SecondPage`, section 6).

In the parts that are modelled: of `Cart`, several tabs of one guest, the rate of
holds, the debounce of quotes, clock skew between browser and server; of
`Wallet`, the discount, the minimum spend and the dates of a coupon; of
`Session`, the CSRF token, the memory fallbacks of a process without Redis, the
expiry of refresh tokens, registration; of `SyncReplay`, the payloads; of
`Season`, packages, routes, prices, times, crew, several channels of one notice,
inactive schedules, requests at work across midnight. Subscription invoices of
the boats are not modelled; `issueSubscriptionInvoice` checks before it creates,
and `pay` writes an absolute balance, so both are candidates.

Left out as whole components, with the reason for each in `PROJECT.json`:
pricing, waitlist, quotes, operations and crew, dashboards, platform
operations and settings, availability push, media, configuration. They are
read-only, single-row, pure arithmetic or pure I/O; the user interface beyond the
state that crosses calls (most of the repository's lines) is rendering and forms.

## 8. Plan

1. **LockOrder**: the rows each transaction locks, in order; what PostgreSQL may
   abort among hold, release, sweep, checkout, buyout and cancel.
2. **Bill**: `buildBill`, the cancellation templates, `child-policy` and rounding
   to whole taka, as recursion-free operators against reference definitions over
   bounded amounts.
3. **Subscription** (`money/finance.service`): one bill per boat and period,
   which a check before the insert promises and no index enforces (:124-129); the
   monthly job, whose loop ends at the first boat somebody billed by hand
   meanwhile (:409); `pay`, which checks `paid` before its transaction and writes
   an absolute `platform_balance` (:202-221); trial, overdue and edit lock.
4. Proofs: that a recorded payment is counted once (`Gateway`, with the sums of
   `WalletProofs`); an abstract ledger (issued, spendable, locked, gone) and
   `Wallet` as its implementation, step by step; what `Inventory` keeps on the
   paths its theorems exclude.
