-------------------------------- MODULE Cart --------------------------------
(***************************************************************************)
(* One guest's cart of cabins on one departure: the hold rows the server   *)
(* keeps and ages, the page of the browser that shows them, and the calls  *)
(* between the two, which may arrive late and in any order.                *)
(*                                                                         *)
(* A hold lapses TTL after the newest hold of its cart, Ext later when the *)
(* checkout page extended it, or Grace after the page went silent; the     *)
(* sweeper frees lapsed rows some time after that.  A guest owns rows by   *)
(* the token of the browser, which the server mints for a hold request     *)
(* that carries none, and by the account after signing in.                 *)
(*                                                                         *)
(* Deadlines are kept as the time that is left, so that time is unbounded; *)
(* in calls and answers too, where they are absolute in the code.          *)
(***************************************************************************)
EXTENDS Naturals, FiniteSets, FiniteSetsExt

CONSTANTS
    Cabins,
    Tokens,       \* guest tokens that may be minted (bound)
    MaxHolds,     \* hold rows ever created (bound)
    TTL,          \* hold.ttlMin
    Ext,          \* hold.checkoutExtensionMin
    Grace,        \* hold.graceMin
    None,
    Scenarios     \* bounds of one behaviour, see ScenarioType

ScenarioType == [cabins: SUBSET Cabins, holds: 0 .. MaxHolds, visits: Nat,
                 faults: Nat, rivals: Nat, cap: Nat \ {0}, signedIn: BOOLEAN]

ASSUME CartAssumption ==
    /\ {TTL, Grace} \subseteq Nat \ {0}
    /\ {Ext, MaxHolds} \subseteq Nat
    /\ None \notin Cabins \cup Tokens \cup {"account", "rival"}
    /\ Tokens \cap {"account", "rival"} = {}
    /\ Scenarios \subseteq ScenarioType

VARIABLES
    bounds,   \* the scenario of this behaviour
    rows,     \* the rows of cabin_hold, by id
    tx,       \* a hold that read its cart and has not written yet, or None
    extends,  \* extensions that read their cart and have not written yet
    reclaim,  \* rows the sweep under way read as reclaimable
    net,      \* calls and answers under way
    jar,      \* the browser's cookies: signed in, its guest token or None
    page,     \* the page that is open
    sel,      \* cabins the page shows as picked
    cart,     \* per cabin the hold id the page knows, 0 when none
    shown,    \* the countdown the page shows, 0 when none
    lapsed,   \* the page told the guest that the hold expired
    attempt,  \* the booking attempt of the checkout page
    used,     \* faults, visits and rival holds so far
    past      \* history variables of the properties

server == <<rows, tx, extends, reclaim>>
pageVars == <<page, sel, cart, shown, lapsed, attempt>>
vars == <<bounds, server, net, jar, pageVars, used, past>>

-----------------------------------------------------------------------------
Ids == 1 .. MaxHolds
Never == Grace + 2
Owners == Tokens \cup {"account"}
Unused == [cabin |-> None, owner |-> None, state |-> "unused",
           left |-> 0, seen |-> Never, extended |-> FALSE]
NoIds == [c \in Cabins |-> 0]
Idle == [step |-> "none", ids |-> NoIds]

(* A row nobody reads again; its cabin and owner stay on record.           *)
Ended(r, state) ==
    [Unused EXCEPT !.cabin = r.cabin, !.owner = r.owner, !.state = state]

Held(i) == rows[i].state = "held"
Live(i) == Held(i) /\ rows[i].left > 0
HeldBy(o) == {i \in Ids : Held(i) /\ rows[i].owner = o}
LiveOf(o) == {i \in HeldBy(o) : Live(i)}
Latest(S) == Max({rows[i].left : i \in S})

(* The account of a signed-in caller, else the browser's guest token; a    *)
(* browser without one owns nothing.                                       *)
OwnerOf(who) == IF who.account THEN "account" ELSE who.token
Stranger == [account |-> FALSE, token |-> None]

(* What a caller may release or convert: by account, or by token.          *)
Owns(who, i) == \/ rows[i].owner = "account" /\ who.account
                \/ rows[i].owner = who.token /\ who.token # None

(* A call of the page.  The server handles it within a unit of time, and   *)
(* answers the page, unless that was unmounted.                            *)
Kinds == {"hold", "release", "extend", "snapshot", "book"}
Call(kind, c, ids) == [kind |-> kind, cabin |-> c, ids |-> ids, who |-> jar,
                       heard |-> TRUE, fresh |-> TRUE]
Hold(c) == Call("hold", c, {})
Release(i) == [Call("release", None, {i}) EXCEPT !.heard = FALSE]
Snapshot == Call("snapshot", None, {})
Unheard(m) == [m EXCEPT !.heard = FALSE]

(* Once the page is unmounted no call under way answers it any more; those *)
(* in ms are new or still to be handled.                                   *)
NobodyListens(ms, new) ==
    /\ net' = {Unheard(m) : m \in ms} \cup new
    /\ tx' = IF tx = None THEN None ELSE [tx EXCEPT !.call = Unheard(@)]
    /\ extends' = {[e EXCEPT !.call = Unheard(@)] : e \in extends}

Known(c) == cart[c] # 0
Cap == bounds.cap    \* booking.maxCabins
KnownIds == {cart[c] : c \in {d \in Cabins : Known(d)}}
FreeIds == {i \in 1 .. bounds.holds : rows[i] = Unused}
NextId(i) == i \in FreeIds /\ \A j \in FreeIds : i <= j
RowsLeft == Cardinality(FreeIds) > Cardinality({m \in net : m.kind = "hold"})
                                    + (IF tx = None THEN 0 ELSE 1)
HoldInFlight(c) ==
    \/ \E m \in net : m.heard /\ m.kind = "hold" /\ m.cabin = c
    \/ tx # None /\ tx.call.heard /\ tx.call.cabin = c

Init ==
    /\ bounds \in Scenarios
    /\ rows = [i \in Ids |-> Unused]
    /\ tx = None /\ extends = {} /\ reclaim = {} /\ net = {}
    /\ jar = [account |-> bounds.signedIn, token |-> None]
    /\ page = "boat" /\ sel = {} /\ cart = NoIds /\ shown = 0
    /\ lapsed = FALSE /\ attempt = Idle
    /\ used = [faults |-> 0, visits |-> 0, rivals |-> 0]
    /\ past = [lost |-> FALSE, unclaimed |-> FALSE, raced |-> FALSE,
               stale |-> FALSE, split |-> FALSE, late |-> {}, dead |-> {}]

-----------------------------------------------------------------------------
(* The boat page *)

Select(c) ==
    /\ page = "boat" /\ ~lapsed
    /\ c \in bounds.cabins \ sel
    /\ Cardinality(KnownIds) < Cap
    /\ \A i \in Ids : ~(rows[i].cabin = c /\ rows[i].state = "converted")
    /\ sel' = sel \cup {c}
    /\ \/ HoldInFlight(c) /\ UNCHANGED net
       \/ ~HoldInFlight(c) /\ RowsLeft /\ net' = net \cup {Hold(c)}
    /\ UNCHANGED <<bounds, server, jar, page, cart, shown, lapsed, attempt,
                   used, past>>

Deselect(c) ==
    /\ page = "boat" /\ ~lapsed /\ c \in sel
    /\ sel' = sel \ {c}
    /\ cart' = [cart EXCEPT ![c] = 0]
    /\ shown' = IF KnownIds = {cart[c]} THEN 0 ELSE shown
    /\ net' = net \cup (IF Known(c) THEN {Release(cart[c])} ELSE {})
    /\ UNCHANGED <<bounds, server, jar, page, lapsed, attempt, used, past>>

(* Another departure, or the whole boat, is picked.                        *)
ReleaseAllHolds ==
    /\ page = "boat" /\ ~lapsed /\ KnownIds # {}
    /\ sel' = {} /\ cart' = NoIds /\ shown' = 0
    /\ net' = net \cup {Release(i) : i \in KnownIds}
    /\ UNCHANGED <<bounds, server, jar, page, lapsed, attempt, used, past>>

(* To the checkout page, with the hold ids known by now.                   *)
Reserve ==
    /\ page = "boat" /\ ~lapsed /\ sel # {}
    /\ page' = "checkout"
    /\ cart' = [c \in Cabins |-> IF c \in sel THEN cart[c] ELSE 0]
    /\ shown' = 0
    /\ NobodyListens(net, {Call("extend", None, {})})
    /\ UNCHANGED <<bounds, rows, reclaim, jar, sel, lapsed, attempt, used, past>>

-----------------------------------------------------------------------------
(* The checkout page *)

(* The next call of a booking attempt that knows the holds ids: hold a     *)
(* cabin that has none, or book.                                           *)
Proceed(ids, rest) ==
    LET missing == {c \in sel : ids[c] = 0} IN
    \/ /\ RowsLeft
       /\ \E c \in missing : net' = rest \cup {Hold(c)}
       /\ attempt' = [step |-> "holding", ids |-> ids]
    \/ /\ missing = {}
       /\ net' = rest \cup {Call("book", None, {ids[c] : c \in sel})}
       /\ attempt' = [step |-> "booking", ids |-> ids]

Pay ==
    /\ page = "checkout" /\ ~lapsed /\ jar.account /\ attempt = Idle
    /\ Proceed(cart, net)
    /\ UNCHANGED <<bounds, server, jar, page, sel, cart, shown, lapsed, used,
                   past>>

Unmount(next) ==
    /\ page' = next /\ sel' = {} /\ cart' = NoIds /\ shown' = 0
    /\ lapsed' = FALSE /\ attempt' = Idle

(* Back, or any other page of the shop: the cleanup releases the holds,    *)
(* unless a booking attempt runs.                                          *)
LeaveCheckout(next) ==
    /\ page = "checkout"
    /\ Unmount(next)
    /\ NobodyListens(net,
         (IF attempt = Idle THEN {Release(i) : i \in KnownIds} ELSE {})
         \cup (IF next = "boat" THEN {Snapshot} ELSE {}))

Back ==
    /\ used.visits < bounds.visits
    /\ used' = [used EXCEPT !.visits = @ + 1]
    /\ LeaveCheckout("boat")
    /\ UNCHANGED <<bounds, rows, reclaim, jar, past>>

LeaveShop ==
    /\ LeaveCheckout("left")
    /\ UNCHANGED <<bounds, rows, reclaim, jar, used, past>>

-----------------------------------------------------------------------------
(* The browser *)

CloseTab ==
    /\ page # "left"
    /\ Unmount("left")
    /\ NobodyListens(net, {})
    /\ UNCHANGED <<bounds, rows, reclaim, jar, used, past>>

(* The boat page is opened again: reloaded, or after leaving.              *)
OpenBoat ==
    /\ page # "checkout" /\ used.visits < bounds.visits
    /\ used' = [used EXCEPT !.visits = @ + 1]
    /\ Unmount("boat")
    /\ NobodyListens(net, {Snapshot})
    /\ UNCHANGED <<bounds, rows, reclaim, jar, past>>

(* Signing in moves the live holds of the token to the account; the sign-in*)
(* stands when that fails, and the token stays.                            *)
ClaimForAccount ==
    rows' = [i \in Ids |-> IF i \in LiveOf(jar.token)
                           THEN [rows[i] EXCEPT !.owner = "account"]
                           ELSE rows[i]]

Login ==
    /\ page # "left" /\ ~jar.account
    /\ \/ /\ ClaimForAccount
          /\ jar' = [account |-> TRUE, token |-> None]
          /\ past' = [past EXCEPT !.stale = @ \/ extends # {}]
          /\ UNCHANGED used
       \/ /\ jar.token # None /\ used.faults < bounds.faults
          /\ used' = [used EXCEPT !.faults = @ + 1]
          /\ jar' = [jar EXCEPT !.account = TRUE]
          /\ past' = [past EXCEPT !.unclaimed = TRUE]
          /\ UNCHANGED rows
    /\ UNCHANGED <<bounds, tx, extends, reclaim, net, pageVars>>

\* Mutant of Active: the checkout page does not report in.
ActiveBoat == page = "boat" /\ KnownIds # {}

(* useHoldHeartbeat: the page reports in while it has cabins.              *)
Active == \/ page = "boat" /\ KnownIds # {}
          \/ page = "checkout" /\ ~lapsed

TouchHolds(rs) == [i \in Ids |->
    IF rs[i].state = "held" /\ rs[i].left > 0 /\ rs[i].owner = OwnerOf(jar)
    THEN [rs[i] EXCEPT !.seen = 0] ELSE rs[i]]

-----------------------------------------------------------------------------
(* What the page does with an answer *)

HoldGranted(m, i, left, rest) ==
    \/ /\ ~m.heard
       /\ net' = rest
       /\ UNCHANGED pageVars
    \/ /\ m.heard /\ page = "boat"
       /\ cart' = [cart EXCEPT ![m.cabin] = i]
       /\ shown' = left
       /\ net' = rest
       /\ UNCHANGED <<page, sel, lapsed, attempt>>
    \/ /\ m.heard /\ page = "checkout"
       /\ Proceed([attempt.ids EXCEPT ![m.cabin] = i], rest)
       /\ UNCHANGED <<page, sel, cart, shown, lapsed>>

(* The boat page looks again when the cabin was taken, with the cookie the *)
(* answer set; the checkout page ends its attempt.                         *)
HoldRefused(m, taken, rest) ==
    /\ net' = rest \cup (IF m.heard /\ page = "boat" /\ taken
                         THEN {Snapshot'} ELSE {})
    /\ attempt' = IF m.heard THEN Idle ELSE attempt
    /\ UNCHANGED <<page, sel, cart, shown, lapsed>>

Extended(m, left) ==
    /\ shown' = IF m.heard THEN left ELSE shown
    /\ UNCHANGED <<page, sel, cart, lapsed, attempt>>

NotExtended(m) ==
    /\ lapsed' = (lapsed \/ m.heard)
    /\ UNCHANGED <<page, sel, cart, shown, attempt>>

NotBooked(m) ==
    /\ attempt' = IF m.heard THEN Idle ELSE attempt
    /\ UNCHANGED <<page, sel, cart, shown, lapsed>>

(* A call fails for the page; the server may still handle it.              *)
CallFails(m) ==
    /\ m \in net /\ used.faults < bounds.faults
    /\ used' = [used EXCEPT !.faults = @ + 1]
    /\ UNCHANGED <<bounds, server, jar, past>>
    /\ \E handled \in {{}, {Unheard(m)}} :
         LET rest == (net \ {m}) \cup handled IN
         CASE m.kind = "hold" -> HoldRefused(m, FALSE, rest)
           [] m.kind = "extend" -> NotExtended(m) /\ net' = rest
           [] m.kind = "book" -> NotBooked(m) /\ net' = rest
           [] OTHER -> net' = rest /\ UNCHANGED pageVars

-----------------------------------------------------------------------------
(* The server.  hold() keeps the departure locked from its reads to its    *)
(* writes; nothing else here takes that lock before it writes.             *)

\* Mutant of CapReached: off by one.
CapPassed(o) == Cardinality(LiveOf(o)) > Cap

CapReached(o) == Cardinality(LiveOf(o)) >= Cap

CartDeadline(o) == Max({TTL} \cup {rows[i].left : i \in HeldBy(o)})

\* Tokens no cookie, call or row carries: the next one minted.
FreshTokens ==
    Tokens \ ({jar.token} \cup {rows[i].owner : i \in Ids}
              \cup {m.who.token : m \in net} \cup {e.owner : e \in extends})

(* ensureGuestToken: a request without a token gets one of its own.        *)
Callers(who) == IF who = Stranger THEN FreshTokens ELSE {OwnerOf(who)}

HoldRead(m) ==
    /\ m \in net /\ m.kind = "hold" /\ tx = None
    /\ UNCHANGED <<bounds, rows, extends, reclaim, jar, used, past>>
    /\ \E o \in Callers(m.who) :
       IF CapReached(o)
       THEN /\ HoldRefused(m, TRUE, net \ {m})
            /\ UNCHANGED tx
       ELSE /\ tx' = [call |-> m, owner |-> o, left |-> CartDeadline(o)]
            /\ net' = net \ {m}
            /\ UNCHANGED pageVars

\* Mutant of SweepForward: the cart keeps its deadlines.
SweepNothing(o, to) == rows

SweepForward(o, to) == [i \in Ids |->
    IF i \in HeldBy(o) /\ rows[i].left < to THEN [rows[i] EXCEPT !.left = to]
    ELSE rows[i]]

NewHold(c, o, left) == [cabin |-> c, owner |-> o, state |-> "held",
                        left |-> left, seen |-> Never, extended |-> FALSE]

(* The answer sets the cookie of a minted token, over any other; one that  *)
(* nobody hears may be lost with it, and its row is nobody's.              *)
Minted == tx.call.who = Stranger
CookieKept(kept) ==
    /\ tx.call.heard => kept
    /\ jar' = IF Minted /\ kept THEN [jar EXCEPT !.token = tx.owner] ELSE jar
Keeper(kept) == IF Minted => kept THEN tx.owner ELSE "rival"
Splits(kept) == Minted /\ kept /\ jar.token # None

HoldTaken(kept) ==
    /\ CookieKept(kept)
    /\ \E j \in Ids : Held(j) /\ rows[j].cabin = tx.call.cabin
    /\ HoldRefused(tx.call, TRUE, net)
    /\ past' = [past EXCEPT !.split = @ \/ Splits(kept)]
    /\ UNCHANGED rows

HoldMade(kept) ==
    /\ CookieKept(kept)
    /\ ~\E j \in Ids : Held(j) /\ rows[j].cabin = tx.call.cabin
    /\ \E i \in FreeIds :
          /\ NextId(i)
          /\ rows' = [SweepForward(tx.owner, tx.left) EXCEPT ![i] =
                        NewHold(tx.call.cabin, Keeper(kept), tx.left)]
          /\ HoldGranted(tx.call, i, tx.left, net)
    /\ past' = [past EXCEPT
          !.unclaimed = @ \/ (tx.owner \in Tokens /\ jar.account),
          !.stale = @ \/ \E e \in extends : e.owner = tx.owner,
          !.split = @ \/ Splits(kept)]

HoldWrite ==
    /\ tx # None /\ tx' = None
    /\ \E kept \in BOOLEAN : HoldTaken(kept) \/ HoldMade(kept)
    /\ UNCHANGED <<bounds, extends, reclaim, used>>

ReleaseHold(m) ==
    /\ m \in net /\ m.kind = "release"
    /\ net' = net \ {m}
    /\ rows' = [i \in Ids |-> IF i \in m.ids /\ Held(i) /\ Owns(m.who, i)
                              THEN Ended(rows[i], "released")
                              ELSE rows[i]]
    /\ UNCHANGED <<bounds, tx, extends, reclaim, jar, pageVars, used, past>>

Extension(o) == Latest(LiveOf(o)) + Ext

(* extendForCheckout takes no lock: its read and its write are two steps.  *)
ExtendRead(m) ==
    /\ m \in net /\ m.kind = "extend"
    /\ net' = net \ {m}
    /\ LET o == OwnerOf(m.who)
           holds == LiveOf(o) IN
       \/ /\ holds = {}
          /\ NotExtended(m)
          /\ UNCHANGED extends
       \/ /\ \E i \in holds : rows[i].extended
          /\ Extended(m, Latest(holds))
          /\ UNCHANGED extends
       \/ /\ holds # {} /\ \A i \in holds : ~rows[i].extended
          /\ extends' = extends \cup
                {[call |-> m, owner |-> o, left |-> Extension(o)]}
          /\ UNCHANGED pageVars
    /\ UNCHANGED <<bounds, rows, tx, reclaim, jar, used, past>>

ExtendWrite(e) ==
    /\ e \in extends
    /\ extends' = extends \ {e}
    /\ rows' = [i \in Ids |-> IF i \in HeldBy(e.owner)
                  THEN [rows[i] EXCEPT !.left = e.left, !.extended = TRUE]
                  ELSE rows[i]]
    /\ Extended(e.call, e.left)
    /\ past' = [past EXCEPT !.raced = @ \/ (tx # None /\ tx.owner = e.owner)]
    /\ UNCHANGED <<bounds, tx, reclaim, net, jar, used>>

(* departureCabinAvailability: the caller's own live holds.  The page picks*)
(* the cabins it does not track, and takes any row's deadline.             *)
RestoreHolds(m) ==
    /\ m \in net /\ m.kind = "snapshot"
    /\ net' = net \ {m}
    /\ LET own == {i \in Ids : Live(i) /\ Owns(m.who, i)}
           missing == {i \in own : ~Known(rows[i].cabin)}
           restored(c) == {i \in missing : rows[i].cabin = c} IN
       IF ~m.heard \/ missing = {}
       THEN UNCHANGED pageVars
       ELSE /\ sel' = sel \cup {rows[i].cabin : i \in missing}
            /\ cart' = [c \in Cabins |-> IF restored(c) = {} THEN cart[c]
                                         ELSE Max(restored(c))]
            /\ \E i \in own : shown' = rows[i].left
            /\ UNCHANGED <<page, lapsed, attempt>>
    /\ UNCHANGED <<bounds, server, jar, used, past>>

(* The checkout and its settlement: every hold converts, or none does.     *)
Book(m) ==
    /\ m \in net /\ m.kind = "book"
    /\ IF \A i \in m.ids : Live(i) /\ Owns(m.who, i)
       THEN /\ rows' = [i \in Ids |-> IF i \in m.ids
                          THEN Ended(rows[i], "converted") ELSE rows[i]]
            /\ IF m.heard
               THEN Unmount("left") /\ NobodyListens(net \ {m}, {})
               ELSE net' = net \ {m} /\ UNCHANGED <<pageVars, tx, extends>>
       ELSE /\ NotBooked(m)
            /\ net' = net \ {m}
            /\ UNCHANGED <<rows, tx, extends>>
    /\ UNCHANGED <<bounds, reclaim, jar, used, past>>

(* The sweeper reads what lapsed or went silent, then frees what of it is  *)
(* still held.                                                             *)
Overdue(r) == r.left = 0 \/ r.seen \in Grace + 1 .. Never - 1

SweepRead ==
    /\ reclaim = {}
    /\ reclaim' = {i \in Ids : Held(i) /\ Overdue(rows[i])}
    /\ reclaim' # {}
    /\ UNCHANGED <<bounds, rows, tx, extends, net, jar, pageVars, used, past>>

SweepWrite ==
    /\ reclaim # {}
    /\ reclaim' = {}
    /\ rows' = [i \in Ids |-> IF i \in reclaim /\ Held(i)
                              THEN Ended(rows[i], "swept") ELSE rows[i]]
    /\ UNCHANGED <<bounds, tx, extends, net, jar, pageVars, used, past>>

RivalHolds(c) ==
    /\ used.rivals < bounds.rivals /\ RowsLeft /\ tx = None
    /\ c \in bounds.cabins
    /\ \A i \in Ids : Held(i) => rows[i].cabin # c
    /\ used' = [used EXCEPT !.rivals = @ + 1]
    /\ \E i \in FreeIds :
          /\ NextId(i)
          /\ rows' = [rows EXCEPT ![i] = NewHold(c, "rival", TTL)]
    /\ UNCHANGED <<bounds, tx, extends, reclaim, net, jar, pageVars, past>>

-----------------------------------------------------------------------------
(* Time *)

\* Mutant of Before: no floor.
BeforeAny(n) == n - 1

Before(n) == IF n = 0 THEN 0 ELSE n - 1
Aged(r) == [r EXCEPT !.left = IF r.state = "held" THEN Before(@) ELSE @,
                     !.seen = IF r.state = "held" /\ @ \in 0 .. Grace
                              THEN @ + 1 ELSE @]

(* A unit of time passes, minutes long: a transaction, which the database  *)
(* client ends after seconds, does not span it.  An active page reports in *)
(* at least that often, unless its beats are lost for the unit.            *)
Tick ==
    /\ tx = None /\ extends = {}
    /\ \A m \in net : m.fresh
    /\ LET aged == [i \in Ids |-> Aged(rows[i])]
           late == {i \in Ids : /\ Held(i) /\ Overdue(aged[i])
                                /\ ~(i \in KnownIds /\ shown > 1 /\ ~lapsed)}
           dead == {i \in Ids : Held(i) /\ aged[i].left = 0} IN
       \/ /\ rows' = IF Active THEN TouchHolds(aged) ELSE aged
          /\ past' = [past EXCEPT !.late = @ \cup late, !.dead = @ \cup dead]
          /\ UNCHANGED used
       \/ /\ Active /\ used.faults < bounds.faults
          /\ rows' = aged
          /\ used' = [used EXCEPT !.faults = @ + 1]
          /\ past' = [past EXCEPT !.lost = TRUE, !.late = @ \cup late,
                                   !.dead = @ \cup dead]
    /\ net' = {[m EXCEPT !.fresh = FALSE] : m \in net}
    /\ shown' = Before(shown)
    /\ lapsed' = (lapsed \/ shown = 1)
    /\ UNCHANGED <<bounds, tx, extends, reclaim, jar, page, sel, cart, attempt>>

PageStep ==
    \/ \E c \in Cabins : Select(c) \/ Deselect(c)
    \/ ReleaseAllHolds \/ Reserve \/ Pay \/ Back \/ LeaveShop \/ CloseTab
    \/ OpenBoat \/ Login
    \/ \E m \in net : CallFails(m)

Handle(m) == \/ HoldRead(m) \/ ReleaseHold(m) \/ ExtendRead(m)
             \/ RestoreHolds(m) \/ Book(m)
Commit == HoldWrite \/ \E e \in extends : ExtendWrite(e)

Next == \/ PageStep \/ SweepRead \/ SweepWrite \/ Tick \/ Commit
        \/ \E m \in net : Handle(m)
        \/ \E c \in Cabins : RivalHolds(c)

Spec == Init /\ [][Next]_vars

-----------------------------------------------------------------------------
(* Properties *)

Messages == [kind: Kinds, cabin: Cabins \cup {None}, ids: SUBSET Ids,
             who: [account: BOOLEAN, token: Tokens \cup {None}], heard: BOOLEAN,
             fresh: BOOLEAN]

(* Types; no time left is negative, and no row's id is outside the rows.   *)
TypeOK ==
    /\ bounds \in Scenarios
    /\ rows \in [Ids -> [cabin: Cabins \cup {None},
                         owner: Owners \cup {"rival", None},
                         state: {"unused", "held", "released", "converted",
                                 "swept"},
                         left: Nat, seen: 0 .. Never, extended: BOOLEAN]]
    /\ tx = None \/ tx \in [call: Messages, owner: Owners, left: Nat]
    /\ \A e \in extends : e \in [call: Messages, owner: Owners, left: Nat]
    /\ reclaim \subseteq Ids
    /\ net \subseteq Messages
    /\ jar \in [account: BOOLEAN, token: Tokens \cup {None}]
    /\ page \in {"boat", "checkout", "left"}
    /\ sel \subseteq Cabins
    /\ cart \in [Cabins -> 0 .. MaxHolds]
    /\ shown \in Nat /\ lapsed \in BOOLEAN
    /\ attempt \in [step: {"none", "holding", "booking"},
                    ids: [Cabins -> 0 .. MaxHolds]]

(* The holds of one owner run out together, whatever was taken, extended  *)
(* or claimed in between: the page shows one countdown for the cart, and   *)
(* hold() and extendForCheckout() write all its rows.  Only an extension   *)
(* written between the read and the write of a hold can part them.         *)
OneCountdown ==
    \A o \in Owners : past.raced
        \/ \A i, j \in LiveOf(o) : rows[i].left = rows[j].left

(* While a page that did not expire counts down for a cabin, the server    *)
(* holds it at least that long, unless the page gave it up itself: neither *)
(* the sweeper, a rival nor a late answer cuts the guest short.  The       *)
(* exceptions are a row that was overdue before the page counted it, lost  *)
(* beats, a guest's hold the sign-in did not hand over, the race of        *)
(* OneCountdown, a hold or a sign-in between the read and the write of an  *)
(* extension, which then writes a deadline that is too early, and first    *)
(* holds that overlapped: each had a token minted, and the cookie keeps    *)
(* the last (past.split).                                                  *)
CountdownIsHonest ==
    shown > 0 /\ ~lapsed =>
        \A c \in Cabins : Known(c) =>
            LET r == rows[cart[c]] IN
            \/ r.state = "held" /\ r.left >= shown
            \/ r.state \in {"released", "converted"}
            \/ cart[c] \in past.late
            \/ past.lost \/ past.unclaimed \/ past.raced \/ past.stale
            \/ past.split

(* Quoted: hold() sweeps the cart "so a guest's cabins share one countdown *)
(* exactly as an account's do".  Of two first holds that overlap, each has *)
(* an owner of its own, and only the last is swept forward.                *)
GuestSharesCountdown ==
    ~past.unclaimed /\ ~past.stale /\ ~past.raced =>
        \A c, d \in {k \in Cabins : Known(k) /\ Live(cart[k])} :
            rows[cart[c]].left = rows[cart[d]].left

(* No owner has more live holds than the cap of a self-service booking,    *)
(* though calls overlap, sign-ins move holds and answers get lost.  Rows   *)
(* that ran out once do not count: hold() leaves them out of its count,    *)
(* and then makes them live again.                                         *)
CapRespected ==
    \A o \in Owners :
        Cardinality(LiveOf(o) \ past.dead) <= Cap
=============================================================================
