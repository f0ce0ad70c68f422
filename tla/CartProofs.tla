----------------------------- MODULE CartProofs -----------------------------
(***************************************************************************)
(* Theorems about Cart, for any cabins, hold rows, durations and caps and  *)
(* any scenario: types, the one countdown of a cart, the honest countdown  *)
(* of the page and the cap.                                                *)
(***************************************************************************)
EXTENDS Cart, FiniteSetTheorems, WellFoundedInduction, TLAPS

JarType == [account: BOOLEAN, token: Tokens \cup {None}]
RowType == [cabin: Cabins \cup {None}, owner: Owners \cup {"rival", None},
            state: {"unused", "held", "released", "converted", "swept"},
            left: Nat, seen: 0 .. Never, extended: BOOLEAN]
PastType == [lost: BOOLEAN, unclaimed: BOOLEAN, raced: BOOLEAN, stale: BOOLEAN,
             split: BOOLEAN, late: SUBSET Ids, dead: SUBSET Ids]
WriteType == [call: Messages, owner: Owners, left: Nat]

(* Whoever calls or holds as the account is signed in.                     *)
SignedIn ==
    /\ \A m \in net : m.who.account => jar.account
    /\ tx # None => (tx.owner = "account" => jar.account)
    /\ \A e \in extends : e.owner = "account" => jar.account
    /\ ~jar.account => HeldBy("account") = {}

(* What is about to be written gives time, and the page knows rows of its  *)
(* own guest alone.                                                        *)
WritesGiveTime == /\ tx # None => tx.left > 0
                  /\ \A e \in extends : e.left > 0
KnownAreOwn ==
    \A c \in Cabins : Known(c) => /\ rows[cart[c]].state # "unused"
                                  /\ rows[cart[c]].owner # "rival"

(* Holds are of cabins, on the way, under way and taken; a row that is     *)
(* held has an owner.                                                      *)
HoldsHaveCabins == /\ \A m \in net : m.kind = "hold" => m.cabin \in Cabins
                   /\ tx # None => tx.call.cabin \in Cabins
                   /\ \A i \in Ids : Held(i) => /\ rows[i].cabin \in Cabins
                                                /\ rows[i].owner # None

(* A hold is written for its caller, or for a token that owns no row yet.  *)
TxForCaller ==
    tx # None => IF tx.call.who = Stranger
                 THEN /\ tx.owner \in Tokens
                      /\ \A i \in Ids : rows[i].owner # tx.owner
                 ELSE tx.owner = OwnerOf(tx.call.who)

StateOK == /\ TypeOK /\ past \in PastType /\ HoldsHaveCabins /\ TxForCaller
           /\ SignedIn /\ WritesGiveTime /\ KnownAreOwn

(* A hold under way has read the latest deadline of its cart.              *)
TxReadsLatest ==
    tx # None /\ ~past.raced =>
        \A i \in HeldBy(tx.owner) : rows[i].left <= tx.left
OneInv == OneCountdown /\ TxReadsLatest

(* Rows without time ran out, and a hold under way has found room.         *)
RanOut == \A i \in Ids : Held(i) /\ rows[i].left = 0 => i \in past.dead
RoomForHold ==
    tx # None => Cardinality(LiveOf(tx.owner) \ past.dead) < Cap
CapInv == RanOut /\ RoomForHold /\ CapRespected

(* Live rows and extensions under way are the signed-in account's, or the  *)
(* browser's as long as nobody signed in.                                  *)
AllClaimed ==
    past.unclaimed \/ past.stale \/ past.split \/
    /\ \A i \in Ids : Live(i) => rows[i].owner \in {"rival", OwnerOf(jar)}
    /\ \A e \in extends : e.owner = OwnerOf(jar)

(* Calls carry no token but the browser's, until somebody signs in.        *)
TokensFit ==
    past.split \/ jar.account \/
    /\ \A m \in net : m.who.token \in {None, jar.token}
    /\ tx # None => tx.call.who.token \in {None, jar.token}

Undisturbed == ~(\/ past.lost \/ past.unclaimed \/ past.raced
                 \/ past.stale \/ past.split)

(* An extension under way is still what the cart's rows lead to.           *)
ExtendsFit ==
    Undisturbed =>
        /\ \A e \in extends : \A i \in LiveOf(e.owner) :
              e.left = rows[i].left + IF rows[i].extended THEN 0 ELSE Ext
        /\ \A e, f \in extends : e.owner = f.owner => e.left = f.left

(* What is overdue or was freed for it was so before the page counted it.  *)
OverdueAreLate ==
    Undisturbed => /\ reclaim \subseteq past.late
                   /\ \A i \in Ids : \/ Held(i) /\ Overdue(rows[i])
                                     \/ rows[i].state = "swept"
                                     => i \in past.late

(* A page that is gone shows nothing and hears no answer.                  *)
LeftIsDeaf ==
    page = "left" => /\ shown = 0
                     /\ \A m \in net : ~m.heard
                     /\ tx # None => ~tx.call.heard
                     /\ \A e \in extends : ~e.call.heard

HonestInv == /\ AllClaimed /\ ExtendsFit /\ OverdueAreLate
             /\ CountdownIsHonest /\ TokensFit
-----------------------------------------------------------------------------
(* Numbers: a set of naturals has a least member, finitely many rows a     *)
(* latest deadline.                                                        *)

\* The least member of a set of naturals.
LEMMA LeastOf ==
    ASSUME NEW T \in SUBSET Nat, T # {}
    PROVE  \E x \in T : \A y \in T : x <= y
<1>. DEFINE R == {ss \in Nat \X Nat : ss[1] < ss[2]}
<1>1. IsWellFoundedOn(R, Nat)
  BY NatLessThanWellFounded DEF OpToRel
<1>2. PICK x \in T : \A y \in T : <<y, x>> \notin R
  <2>. HIDE DEF R
  <2>. QED  BY <1>1, WFMin
<1>3. \A y \in T : <<y, x>> \in R \/ x <= y
  OBVIOUS
<1>. HIDE DEF R
<1>. QED  BY <1>2, <1>3

\* The greatest member of a bounded set of naturals is its Max.
LEMMA MaxOf ==
    ASSUME NEW S \in SUBSET Nat, S # {}, NEW b \in Nat, \A x \in S : x <= b
    PROVE  Max(S) \in S /\ \A x \in S : x <= Max(S)
<1>. DEFINE T == {n \in Nat : \A x \in S : x <= n}
<1>1. PICK t \in T : \A y \in T : t <= y
  <2>1. T \in SUBSET Nat /\ T # {}
    OBVIOUS
  <2>. HIDE DEF T
  <2>. QED  BY <2>1, LeastOf
<1>2. t \in S
  <2>1. SUFFICES ASSUME t \notin S  PROVE FALSE
    OBVIOUS
  <2>2. PICK s \in S : TRUE
    OBVIOUS
  <2>3. t \in Nat /\ t # 0
    BY <2>1, <2>2
  <2>4. t - 1 \in T
    BY <2>1, <2>3
  <2>. QED  BY <1>1, <2>3, <2>4
<1>. QED  BY <1>1, <1>2 DEF Max

\* Finitely many naturals have a bound.
LEMMA BoundOf ==
    ASSUME NEW n \in Nat, NEW f \in [1 .. n -> Nat]
    PROVE  \E b \in Nat : \A i \in 1 .. n : f[i] <= b
<1>. DEFINE T == {m \in 0 .. n : \A b \in Nat : \E i \in 1 .. m : f[i] > b}
<1>1. SUFFICES ASSUME T # {}  PROVE FALSE
  <2>1. n \notin T
    BY <1>1
  <2>2. PICK b \in Nat : \A i \in 1 .. n : ~(f[i] > b)
    BY <2>1
  <2>. HIDE DEF T
  <2>3. \A i \in 1 .. n : f[i] \in Nat
    OBVIOUS
  <2>4. ASSUME NEW i \in 1 .. n  PROVE f[i] <= b
    <3>1. f[i] \in Nat /\ ~(f[i] > b)
      BY <2>2, <2>3
    <3>. QED  BY <3>1
  <2>. QED  BY <2>4
<1>2. PICK m \in T : \A k \in T : m <= k
  <2>1. T \in SUBSET Nat
    OBVIOUS
  <2>. HIDE DEF T
  <2>. QED  BY <1>1, <2>1, LeastOf
<1>3. m \in 0 .. n /\ m # 0
  OBVIOUS
<1>4. m \in 1 .. n /\ m - 1 \in 0 .. n /\ m - 1 \notin T
  <2>. HIDE DEF T
  <2>1. m \in 1 .. n /\ m - 1 \in 0 .. n /\ ~(m <= m - 1)
    BY <1>3
  <2>. QED  BY <1>2, <2>1
<1>5. PICK b \in Nat : \A i \in 1 .. m - 1 : ~(f[i] > b)
  BY <1>4
<1>6. f[m] \in Nat
  BY <1>4
<1>7. PICK d \in Nat : b <= d /\ f[m] <= d
  <2>1. CASE b <= f[m]
    BY <1>6, <2>1
  <2>2. CASE ~(b <= f[m])
    BY <1>6, <2>2
  <2>. QED  BY <2>1, <2>2
<1>8. \E i \in 1 .. m : f[i] > d
  OBVIOUS
<1>9. PICK i \in 1 .. m : f[i] > d
  BY <1>8
<1>10. f[i] \in Nat
  BY <1>4, <1>9
<1>. HIDE DEF T
<1>11. i \in 1 .. m - 1
  BY <1>4, <1>7, <1>9, <1>10
<1>. QED  BY <1>4, <1>5, <1>7, <1>9, <1>10, <1>11

\* The latest deadline of some rows is one of theirs and none is later.
LEMMA LatestOf ==
    ASSUME TypeOK, NEW S \in SUBSET Ids, S # {}
    PROVE  /\ \E i \in S : Latest(S) = rows[i].left
           /\ \A i \in S : rows[i].left <= Latest(S)
           /\ Latest(S) \in Nat
<1>. DEFINE L == {rows[i].left : i \in S}
            f == [i \in Ids |-> rows[i].left]
<1>1. /\ \A i \in Ids : rows[i].left \in Nat /\ f[i] = rows[i].left
      /\ f \in [Ids -> Nat]
  BY DEF TypeOK
<1>2. PICK b \in Nat : \A i \in Ids : f[i] <= b
  BY <1>1, BoundOf, CartAssumption DEF Ids
<1>3. L \in SUBSET Nat /\ L # {} /\ \A x \in L : x <= b
  BY <1>1, <1>2
<1>4. Max(L) \in L /\ \A x \in L : x <= Max(L)
  <2>. HIDE DEF L
  <2>. QED  BY <1>3, MaxOf
<1>. QED  BY <1>1, <1>4 DEF Latest

\* A hold joins the latest deadline of its cart, or starts its own.
LEMMA DeadlineOf ==
    ASSUME TypeOK, NEW o
    PROVE  /\ CartDeadline(o) \in Nat /\ CartDeadline(o) >= TTL
           /\ \A i \in HeldBy(o) : rows[i].left <= CartDeadline(o)
<1>. DEFINE L == {TTL} \cup {rows[i].left : i \in HeldBy(o)}
            f == [i \in Ids |-> rows[i].left]
<1>1. /\ \A i \in Ids : rows[i].left \in Nat /\ f[i] = rows[i].left
      /\ f \in [Ids -> Nat] /\ HeldBy(o) \subseteq Ids /\ TTL \in Nat
  BY CartAssumption DEF TypeOK, HeldBy
<1>2. PICK b \in Nat : \A i \in Ids : f[i] <= b
  BY <1>1, BoundOf, CartAssumption DEF Ids
<1>3. L \in SUBSET Nat /\ L # {} /\ \E d \in Nat : \A x \in L : x <= d
  <2>1. PICK d \in Nat : b <= d /\ TTL <= d
    BY <1>1, <1>2
  <2>. QED  BY <1>1, <1>2, <2>1
<1>4. Max(L) \in L /\ \A x \in L : x <= Max(L)
  <2>. HIDE DEF L
  <2>. QED  BY <1>3, MaxOf
<1>. QED  BY <1>1, <1>4 DEF CartDeadline

-----------------------------------------------------------------------------
(* Steps that start no row and move none: the page's own, the sweeper's, a *)
(* release, a booking.                                                     *)

PageTypes ==
    /\ page \in {"boat", "checkout", "left"}
    /\ sel \subseteq Cabins
    /\ cart \in [Cabins -> 0 .. MaxHolds]
    /\ shown \in Nat /\ lapsed \in BOOLEAN
    /\ attempt \in [step: {"none", "holding", "booking"},
                    ids: [Cabins -> 0 .. MaxHolds]]

TxKept == tx' = None \/ /\ tx # None /\ tx' \in WriteType
                        /\ tx'.owner = tx.owner /\ tx'.left = tx.left
                        /\ tx'.call.cabin = tx.call.cabin
                        /\ tx'.call.who = tx.call.who
ExtendsKept ==
    \A f \in extends' : /\ f \in WriteType
                        /\ \E e \in extends : f.owner = e.owner /\ f.left = e.left
CallsKept ==
    \A m \in net' : /\ m \in Messages /\ (m.who.account => jar.account)
                    /\ m.kind = "hold" => m.cabin \in Cabins
                    /\ m.who \in {jar, jar'} \/ \E k \in net : m.who = k.who
Ours(m) == /\ m.who \in {jar, jar'} /\ (m.who.account => jar.account)
           /\ m.kind = "hold" => m.cabin \in Cabins

(* A countdown that goes on is the one before, of the cabins from before.  *)
PageKept ==
    /\ PageTypes'
    /\ \A c \in Cabins : cart'[c] \in {0, cart[c]}
    /\ shown' > 0 /\ ~lapsed' => shown' = shown /\ ~lapsed
RowsKept ==
    /\ rows' \in [Ids -> RowType]
    /\ \A i \in Ids : rows'[i] # rows[i] =>
          /\ Held(i) /\ rows'[i].owner = rows[i].owner
          /\ rows'[i].state \in {"released", "converted", "swept"}
          /\ rows'[i].state = "swept" => i \in reclaim
ReclaimKept ==
    \A i \in reclaim' : i \in reclaim \/ (i \in Ids /\ Held(i) /\ Overdue(rows[i]))

(* A cookie that replaces another is on record.                            *)
JarKept == /\ jar' \in JarType /\ jar'.account = jar.account
           /\ past'.split \/ jar' = jar \/ jar.token = None
PastKept == /\ past' \in PastType /\ (past.split => past'.split)
            /\ past'.lost = past.lost /\ past'.unclaimed = past.unclaimed
            /\ past'.raced = past.raced /\ past'.stale = past.stale
            /\ past'.late = past.late /\ past'.dead = past.dead

QuietStep ==
    /\ UNCHANGED bounds /\ JarKept /\ PastKept
    /\ TxKept /\ ExtendsKept /\ CallsKept /\ PageKept /\ RowsKept /\ ReclaimKept

\* A quiet step keeps the types and who may hold what.
LEMMA QuietTypes ==
    ASSUME StateOK, QuietStep
    PROVE  StateOK'
<1>1. TypeOK'
  BY DEF StateOK, TypeOK, QuietStep, TxKept, ExtendsKept, CallsKept, PageKept,
     PageTypes, RowsKept, ReclaimKept, WriteType, RowType, JarKept, JarType
<1>2. past' \in PastType
  BY DEF QuietStep, PastKept
<1>3. SignedIn'
  <2>1. HeldBy("account")' \subseteq HeldBy("account")
    BY DEF QuietStep, RowsKept, HeldBy, Held
  <2>. QED  BY <2>1 DEF StateOK, SignedIn, QuietStep, TxKept, ExtendsKept,
            CallsKept, JarKept
<1>4. WritesGiveTime'
  BY DEF StateOK, WritesGiveTime, QuietStep, TxKept, ExtendsKept
<1>5. KnownAreOwn'
  <2>1. SUFFICES ASSUME NEW c \in Cabins, cart'[c] # 0
                 PROVE  /\ rows'[cart'[c]].state # "unused"
                        /\ rows'[cart'[c]].owner # "rival"
    BY DEF KnownAreOwn, Known
  <2>2. cart'[c] = cart[c] /\ cart[c] # 0 /\ cart[c] \in Ids
    BY <2>1 DEF QuietStep, PageKept, StateOK, TypeOK, Ids
  <2>3. rows[cart[c]].state # "unused" /\ rows[cart[c]].owner # "rival"
    BY <2>2 DEF StateOK, KnownAreOwn, Known
  <2>. QED  BY <2>2, <2>3 DEF QuietStep, RowsKept
<1>6. HoldsHaveCabins'
  <2>1. \A i \in Ids : Held(i)' => Held(i) /\ rows'[i] = rows[i]
    BY DEF QuietStep, RowsKept, Held
  <2>. QED  BY <2>1 DEF StateOK, HoldsHaveCabins, QuietStep, TxKept, CallsKept
<1>7. TxForCaller'
  <2>1. \A i \in Ids : rows'[i].owner = rows[i].owner
    BY DEF QuietStep, RowsKept
  <2>. QED  BY <2>1 DEF StateOK, TxForCaller, QuietStep, TxKept, OwnerOf
<1>. QED  BY <1>1, <1>2, <1>3, <1>4, <1>5, <1>6, <1>7 DEF StateOK

\* Rows only end, so fewer are live.
LEMMA QuietRows ==
    ASSUME StateOK, QuietStep
    PROVE  /\ \A i \in Ids : Held(i)' => Held(i) /\ rows'[i] = rows[i]
           /\ \A o : /\ HeldBy(o)' \subseteq HeldBy(o)
                     /\ LiveOf(o)' \subseteq LiveOf(o)
<1>1. \A i \in Ids : Held(i)' => Held(i) /\ rows'[i] = rows[i]
  BY DEF QuietStep, RowsKept, Held
<1>. QED  BY <1>1 DEF HeldBy, LiveOf, Live, Held

\* A quiet step keeps the cart's one countdown.
LEMMA QuietOne ==
    ASSUME StateOK, OneInv, QuietStep
    PROVE  OneInv'
<1>1. OneCountdown'
  BY QuietRows DEF OneInv, OneCountdown, QuietStep, PastKept, LiveOf, HeldBy
<1>2. TxReadsLatest'
  BY QuietRows DEF OneInv, TxReadsLatest, QuietStep, PastKept, TxKept, HeldBy
<1>. QED  BY <1>1, <1>2 DEF OneInv

\* Counting live rows that did not run out: fewer rows, a smaller count.
LEMMA FewerLive ==
    ASSUME NEW S \in SUBSET Ids, NEW T \in SUBSET S
    PROVE  /\ IsFiniteSet(S) /\ Cardinality(S) \in Nat /\ Cardinality(T) \in Nat
           /\ Cardinality(T) <= Cardinality(S)
<1>1. IsFiniteSet(Ids)
  BY FS_Interval, CartAssumption DEF Ids
<1>. QED  BY <1>1, FS_Subset, FS_CardinalityType

\* One more row counts for one at most.
LEMMA OneMore ==
    ASSUME NEW S, IsFiniteSet(S), Cardinality(S) \in Nat, NEW x
    PROVE  Cardinality(S \cup {x}) <= Cardinality(S) + 1
<1>1. Cardinality(S \cup {x}) = IF x \in S THEN Cardinality(S) ELSE Cardinality(S) + 1
  BY FS_AddElement
<1>. QED  BY <1>1

\* A quiet step keeps the cap.
LEMMA QuietCap ==
    ASSUME StateOK, CapInv, QuietStep
    PROVE  CapInv'
<1>1. bounds' = bounds /\ past'.dead = past.dead /\ Cap' = Cap /\ Cap \in Nat
  BY CartAssumption DEF QuietStep, PastKept, Cap, StateOK, TypeOK, ScenarioType
<1>2. \A o : /\ LiveOf(o) \ past.dead \in SUBSET Ids
             /\ LiveOf(o)' \ past'.dead \in SUBSET (LiveOf(o) \ past.dead)
  BY <1>1, QuietRows DEF LiveOf, HeldBy
<1>3. \A o : /\ Cardinality(LiveOf(o)' \ past'.dead)
                    <= Cardinality(LiveOf(o) \ past.dead)
             /\ Cardinality(LiveOf(o)' \ past'.dead) \in Nat
             /\ Cardinality(LiveOf(o) \ past.dead) \in Nat
  BY <1>2, FewerLive
<1>4. RanOut'
  BY <1>1, QuietRows DEF CapInv, RanOut
<1>5. RoomForHold'
  <2>1. SUFFICES ASSUME tx' # None
                 PROVE  RoomForHold'
    BY DEF RoomForHold
  <2>2. PICK o : o = tx.owner /\ o = tx'.owner /\ tx # None
    BY <2>1 DEF QuietStep, TxKept
  <2>3. Cardinality(LiveOf(o) \ past.dead) < Cap
    BY <2>2 DEF CapInv, RoomForHold
  <2>4. Cardinality(LiveOf(o)' \ past'.dead) < Cap'
    BY <1>1, <1>3, <2>3
  <2>. QED  BY <2>2, <2>4 DEF RoomForHold, LiveOf, HeldBy, Live, Held
<1>6. CapRespected'
  <2>1. SUFFICES ASSUME NEW o \in Owners
                 PROVE  Cardinality(LiveOf(o)' \ past'.dead) <= Cap'
    BY DEF CapRespected
  <2>2. Cardinality(LiveOf(o) \ past.dead) <= Cap
    BY DEF CapInv, CapRespected
  <2>. QED  BY <1>1, <1>3, <2>2
<1>. QED  BY <1>4, <1>5, <1>6 DEF CapInv

\* Calls go on with the tokens they have, and new ones with the browser's.
LEMMA TokensKept ==
    ASSUME StateOK, TokensFit, JarKept, CallsKept, past.split => past'.split,
           \/ tx' = None
           \/ tx # None /\ tx'.call.who = tx.call.who
           \/ \E m \in net : tx'.call.who = m.who
    PROVE  TokensFit'
<1>1. SUFFICES ASSUME ~past'.split, ~jar'.account
               PROVE  /\ \A m \in net' : m.who.token \in {None, jar'.token}
                      /\ tx' # None => tx'.call.who.token \in {None, jar'.token}
  BY DEF TokensFit
<1>2. /\ \A m \in net : m.who.token \in {None, jar.token}
      /\ tx # None => tx.call.who.token \in {None, jar.token}
      /\ jar' = jar \/ jar.token = None
  BY <1>1 DEF TokensFit, JarKept
<1>3. \A m \in net' : m.who.token \in {None, jar'.token}
  BY <1>2 DEF CallsKept
<1>4. tx' # None => tx'.call.who.token \in {None, jar'.token}
  BY <1>2
<1>. QED  BY <1>3, <1>4

\* A quiet step keeps the countdown honest.
LEMMA QuietHonest ==
    ASSUME StateOK, HonestInv, QuietStep
    PROVE  HonestInv'
<1>0. /\ past'.late = past.late /\ (past.split => past'.split)
      /\ Undisturbed' => Undisturbed
  BY DEF QuietStep, PastKept, Undisturbed
<1>1. AllClaimed'
  <2>1. SUFFICES ASSUME ~past'.unclaimed, ~past'.stale, ~past'.split
                 PROVE  /\ \A i \in Ids :
                              Live(i)' => rows'[i].owner \in {"rival", OwnerOf(jar')}
                        /\ \A e \in extends' : e.owner = OwnerOf(jar')
    BY DEF AllClaimed, OwnerOf
  <2>2. /\ \A i \in Ids : Live(i) => rows[i].owner \in {"rival", OwnerOf(jar)}
        /\ \A e \in extends : e.owner = OwnerOf(jar)
    BY <2>1 DEF HonestInv, AllClaimed, QuietStep, PastKept
  <2>3. /\ \A i \in Ids : Live(i)' => Live(i) /\ rows'[i] = rows[i]
        /\ \A i \in Ids : Live(i) => rows[i].owner # None
        /\ \A e \in extends' : /\ e.owner \in Owners
                               /\ \E f \in extends : e.owner = f.owner
    BY QuietRows DEF QuietStep, ExtendsKept, WriteType, Live, Held, StateOK,
       HoldsHaveCabins
  <2>4. OwnerOf(jar) = None \/ OwnerOf(jar') = OwnerOf(jar)
    BY <2>1 DEF OwnerOf, QuietStep, JarKept
  <2>5. None \notin Owners
    BY CartAssumption DEF Owners
  <2>. QED  BY <2>2, <2>3, <2>4, <2>5
<1>2. ExtendsFit'
  <2>2. SUFFICES ASSUME Undisturbed
                 PROVE  /\ \A e \in extends' : \A i \in LiveOf(e.owner)' :
                             e.left = rows'[i].left
                                      + IF rows'[i].extended THEN 0 ELSE Ext
                        /\ \A e, f \in extends' : e.owner = f.owner
                                                  => e.left = f.left
    BY <1>0 DEF ExtendsFit
  <2>3. /\ \A e \in extends : \A i \in LiveOf(e.owner) :
             e.left = rows[i].left + IF rows[i].extended THEN 0 ELSE Ext
        /\ \A e, f \in extends : e.owner = f.owner => e.left = f.left
    BY <2>2 DEF HonestInv, ExtendsFit
  <2>4. \A e \in extends' : \A i \in LiveOf(e.owner)' :
             e.left = rows'[i].left + IF rows'[i].extended THEN 0 ELSE Ext
    <3>1. SUFFICES ASSUME NEW e \in extends', NEW i \in LiveOf(e.owner)'
                   PROVE  e.left = rows'[i].left
                                      + IF rows'[i].extended THEN 0 ELSE Ext
      OBVIOUS
    <3>2. PICK f \in extends : e.owner = f.owner /\ e.left = f.left
      BY <3>1 DEF QuietStep, ExtendsKept
    <3>3. i \in LiveOf(f.owner) /\ rows'[i] = rows[i]
      BY <3>1, <3>2, QuietRows DEF LiveOf, HeldBy
    <3>. QED  BY <2>3, <3>2, <3>3
  <2>5. \A e, f \in extends' : e.owner = f.owner => e.left = f.left
    BY <2>3 DEF QuietStep, ExtendsKept
  <2>. QED  BY <2>4, <2>5
<1>3. OverdueAreLate'
  BY <1>0, QuietRows DEF HonestInv, OverdueAreLate, QuietStep, ReclaimKept,
     RowsKept
<1>4. CountdownIsHonest'
  <2>1. SUFFICES ASSUME shown' > 0, ~lapsed', NEW c \in Cabins, cart'[c] # 0,
                        Undisturbed
                 PROVE  \/ /\ rows'[cart'[c]].state = "held"
                           /\ rows'[cart'[c]].left >= shown'
                        \/ rows'[cart'[c]].state \in {"released", "converted"}
                        \/ cart'[c] \in past'.late
    BY <1>0 DEF CountdownIsHonest, Known, Undisturbed
  <2>2. /\ shown' = shown /\ ~lapsed /\ past'.late = past.late
        /\ cart'[c] = cart[c] /\ cart[c] # 0 /\ cart[c] \in Ids
    BY <1>0, <2>1 DEF QuietStep, PageKept, StateOK, TypeOK, Ids
  <2>3. \/ rows[cart[c]].state = "held" /\ rows[cart[c]].left >= shown
        \/ rows[cart[c]].state \in {"released", "converted"}
        \/ cart[c] \in past.late
    BY <2>1, <2>2 DEF HonestInv, CountdownIsHonest, Known, Undisturbed
  <2>4. CASE rows'[cart[c]] = rows[cart[c]]
    BY <2>2, <2>3, <2>4
  <2>5. CASE rows'[cart[c]] # rows[cart[c]]
    <3>1. \/ rows'[cart[c]].state \in {"released", "converted"}
          \/ cart[c] \in reclaim
      BY <2>2, <2>5 DEF QuietStep, RowsKept
    <3>. QED  BY <2>1, <2>2, <3>1 DEF HonestInv, OverdueAreLate
  <2>. QED  BY <2>4, <2>5
<1>5. TokensFit'
  BY TokensKept DEF HonestInv, QuietStep, PastKept, TxKept
<1>. QED  BY <1>1, <1>2, <1>3, <1>4, <1>5 DEF HonestInv

\* A call of the page carries its jar; a page that is gone hears none.
LEMMA CallOK ==
    ASSUME StateOK
    PROVE  /\ \A kind \in Kinds, c \in Cabins \cup {None}, ids \in SUBSET Ids :
                 /\ Call(kind, c, ids) \in Messages
                 /\ kind # "hold" \/ c # None => Ours(Call(kind, c, ids))
           /\ \A i \in Ids : Release(i) \in Messages /\ Ours(Release(i))
           /\ \A m \in Messages :
                 /\ Unheard(m) \in Messages /\ Unheard(m).who = m.who
                 /\ Unheard(m).kind = m.kind /\ Unheard(m).cabin = m.cabin
           /\ KnownIds \subseteq Ids
<1>1. jar \in JarType /\ cart \in [Cabins -> 0 .. MaxHolds]
  BY DEF StateOK, TypeOK, JarType
<1>2. \A kind \in Kinds, c \in Cabins \cup {None}, ids \in SUBSET Ids :
         /\ Call(kind, c, ids) \in Messages
         /\ kind # "hold" \/ c # None => Ours(Call(kind, c, ids))
  BY <1>1 DEF Call, Messages, Ours, JarType
<1>3. \A m \in Messages :
         /\ Unheard(m) \in Messages /\ Unheard(m).who = m.who
         /\ Unheard(m).kind = m.kind /\ Unheard(m).cabin = m.cabin
  BY DEF Unheard, Messages
<1>4. \A i \in Ids : Release(i) \in Messages /\ Ours(Release(i))
  <2>1. SUFFICES ASSUME NEW i \in Ids
                 PROVE  Release(i) \in Messages /\ Ours(Release(i))
    OBVIOUS
  <2>2. /\ Call("release", None, {i}) \in Messages
        /\ Ours(Call("release", None, {i}))
    BY <1>2 DEF Kinds
  <2>3. Release(i) = Unheard(Call("release", None, {i}))
    BY DEF Release, Unheard
  <2>. QED  BY <1>3, <2>2, <2>3 DEF Ours
<1>5. KnownIds \subseteq Ids
  BY <1>1 DEF KnownIds, Known, Ids
<1>. QED  BY <1>2, <1>3, <1>4, <1>5

\* New calls of the page, and calls under way that nobody hears any more.
LEMMA ListensQuiet ==
    ASSUME StateOK, NEW ms \in SUBSET net, NEW new \in SUBSET Messages,
           \A m \in new : Ours(m), NobodyListens(ms, new)
    PROVE  TxKept /\ ExtendsKept /\ CallsKept
<1>1. /\ net \subseteq Messages /\ (tx # None => tx \in WriteType)
      /\ \A e \in extends : e \in WriteType
      /\ \A m \in net : /\ m.who.account => jar.account
                        /\ m.kind = "hold" => m.cabin \in Cabins
  BY DEF StateOK, TypeOK, WriteType, SignedIn, HoldsHaveCabins
<1>2. \A w \in WriteType :
         /\ [w EXCEPT !.call = Unheard(@)] \in WriteType
         /\ [w EXCEPT !.call = Unheard(@)].owner = w.owner
         /\ [w EXCEPT !.call = Unheard(@)].left = w.left
         /\ [w EXCEPT !.call = Unheard(@)].call.cabin = w.call.cabin
         /\ [w EXCEPT !.call = Unheard(@)].call.who = w.call.who
  BY CallOK DEF WriteType
<1>3. TxKept
  BY <1>1, <1>2 DEF TxKept, NobodyListens
<1>4. ExtendsKept
  <2>1. SUFFICES ASSUME NEW f \in extends'
                 PROVE  /\ f \in WriteType
                        /\ \E e \in extends : f.owner = e.owner /\ f.left = e.left
    BY DEF ExtendsKept
  <2>2. PICK e \in extends : f = [e EXCEPT !.call = Unheard(@)]
    BY DEF NobodyListens
  <2>. QED  BY <1>1, <1>2, <2>2
<1>5. CallsKept
  BY <1>1, CallOK DEF CallsKept, NobodyListens, Ours
<1>. QED  BY <1>3, <1>4, <1>5

\* What is left alone is kept.
LEMMA Kept ==
    ASSUME StateOK
    PROVE  /\ UNCHANGED tx => TxKept
           /\ UNCHANGED extends => ExtendsKept
           /\ UNCHANGED rows => RowsKept
           /\ UNCHANGED reclaim => ReclaimKept
           /\ UNCHANGED pageVars => PageKept
           /\ UNCHANGED <<jar, past>> => JarKept /\ PastKept
           /\ net' \subseteq net => CallsKept
           /\ \A new \in SUBSET Messages :
                 /\ \A m \in new : Ours(m)
                 /\ net' \subseteq net \cup new
                 => CallsKept
<1>1. UNCHANGED tx => TxKept
  BY DEF StateOK, TypeOK, TxKept, WriteType
<1>2. UNCHANGED extends => ExtendsKept
  BY DEF StateOK, TypeOK, ExtendsKept, WriteType
<1>3. UNCHANGED rows => RowsKept
  BY DEF StateOK, TypeOK, RowsKept, RowType
<1>4. UNCHANGED reclaim => ReclaimKept
  BY DEF ReclaimKept
<1>5. UNCHANGED pageVars => PageKept
  BY DEF StateOK, TypeOK, PageKept, PageTypes, pageVars
<1>6. \A new \in SUBSET Messages :
         (\A m \in new : Ours(m)) /\ net' \subseteq net \cup new => CallsKept
  BY DEF StateOK, TypeOK, SignedIn, HoldsHaveCabins, CallsKept, Ours
<1>7. net' \subseteq net => CallsKept
  BY DEF StateOK, TypeOK, SignedIn, HoldsHaveCabins, CallsKept
<1>8. UNCHANGED <<jar, past>> => JarKept /\ PastKept
  BY DEF StateOK, TypeOK, JarKept, PastKept, JarType
<1>. QED  BY <1>1, <1>2, <1>3, <1>4, <1>5, <1>6, <1>7, <1>8

\* An unmounted page shows nothing.
LEMMA UnmountKept ==
    ASSUME StateOK, NEW next \in {"boat", "left"}, Unmount(next)
    PROVE  PageKept
<1>1. NoIds \in [Cabins -> 0 .. MaxHolds] /\ \A c \in Cabins : NoIds[c] = 0
  BY CartAssumption DEF NoIds
<1>2. Idle \in [step: {"none", "holding", "booking"},
                ids: [Cabins -> 0 .. MaxHolds]]
  BY <1>1 DEF Idle
<1>3. PageTypes'
  BY <1>1, <1>2 DEF Unmount, PageTypes
<1>. QED  BY <1>1, <1>3 DEF Unmount, PageKept

\* The calls an attempt makes are calls of the page.
LEMMA ProceedOK ==
    ASSUME StateOK, NEW ids \in [Cabins -> 0 .. MaxHolds],
           NEW rest \in SUBSET net, Proceed(ids, rest)
    PROVE  /\ CallsKept
           /\ attempt' \in [step: {"none", "holding", "booking"},
                            ids: [Cabins -> 0 .. MaxHolds]]
<1>1. sel \subseteq Cabins
  BY DEF StateOK, TypeOK
<1>0. attempt' \in [step: {"none", "holding", "booking"},
                    ids: [Cabins -> 0 .. MaxHolds]]
  BY DEF Proceed
<1>2. \/ \E c \in Cabins : net' = rest \cup {Hold(c)}
      \/ /\ \A c \in sel : ids[c] \in Ids
         /\ net' = rest \cup {Call("book", None, {ids[c] : c \in sel})}
  BY <1>1 DEF Proceed, Ids
<1>3. CASE \E c \in Cabins : net' = rest \cup {Hold(c)}
  <2>1. PICK c \in Cabins : net' = rest \cup {Hold(c)}
    BY <1>3
  <2>2. Hold(c) \in Messages /\ Ours(Hold(c))
    BY CallOK, CartAssumption DEF Hold, Kinds
  <2>3. PICK new \in SUBSET Messages : new = {Hold(c)}
    BY <2>2
  <2>4. net' \subseteq net \cup new /\ \A m \in new : Ours(m)
    BY <2>1, <2>2, <2>3
  <2>. QED  BY <1>0, <2>4, Kept
<1>4. CASE /\ \A c \in sel : ids[c] \in Ids
           /\ net' = rest \cup {Call("book", None, {ids[c] : c \in sel})}
  <2>. DEFINE b == Call("book", None, {ids[c] : c \in sel})
  <2>1. {ids[c] : c \in sel} \in SUBSET Ids
    BY <1>4
  <2>2. b \in Messages /\ Ours(b)
    BY <2>1, CallOK DEF Kinds
  <2>3. net' \subseteq net \cup {b}
    BY <1>4
  <2>. HIDE DEF b
  <2>4. PICK new \in SUBSET Messages : new = {b}
    BY <2>2
  <2>5. net' \subseteq net \cup new /\ \A m \in new : Ours(m)
    BY <2>2, <2>3, <2>4
  <2>. QED  BY <1>0, <2>5, Kept
<1>. QED  BY <1>2, <1>3, <1>4

\* What the page does with an answer that brings it nothing keeps its
\* countdown; its new call is a look at the departure.
LEMMA AnswersKept ==
    ASSUME StateOK, NEW m \in Messages,
           jar' \in JarType, jar'.account = jar.account
    PROVE  /\ NotBooked(m) => PageKept
           /\ NotExtended(m) => PageKept
           /\ \A taken \in BOOLEAN, rest \in SUBSET net :
                 HoldRefused(m, taken, rest) => PageKept /\ CallsKept
<1>1. m.heard \in BOOLEAN
  BY DEF Messages
<1>2. Idle \in [step: {"none", "holding", "booking"},
                ids: [Cabins -> 0 .. MaxHolds]]
  BY CartAssumption DEF Idle, NoIds
<1>3. PageTypes
  BY DEF StateOK, TypeOK, PageTypes
<1>4. NotBooked(m) => PageKept
  BY <1>2, <1>3 DEF NotBooked, PageKept, PageTypes
<1>5. NotExtended(m) => PageKept
  BY <1>1, <1>3 DEF NotExtended, PageKept, PageTypes
<1>6. ASSUME NEW taken \in BOOLEAN, NEW rest \in SUBSET net,
             HoldRefused(m, taken, rest)
      PROVE  PageKept /\ CallsKept
  <2>1. PageKept
    BY <1>2, <1>3, <1>6 DEF HoldRefused, PageKept, PageTypes
  <2>2. PICK look : look = Snapshot'
    OBVIOUS
  <2>3. /\ look.kind = "snapshot" /\ look.who = jar'
        /\ look = [kind |-> "snapshot", cabin |-> None, ids |-> {},
                   who |-> jar', heard |-> TRUE, fresh |-> TRUE]
    BY <2>2 DEF Snapshot, Call
  <2>5. look \in Messages /\ Ours(look)
    BY <2>3 DEF Messages, Kinds, Ours, JarType
  <2>6. PICK new \in SUBSET Messages : new = {look}
    BY <2>5
  <2>4. net' \subseteq net \cup new /\ \A n \in new : Ours(n)
    BY <1>6, <2>2, <2>5, <2>6 DEF HoldRefused
  <2>. QED  BY <2>1, <2>4, Kept
<1>. QED  BY <1>4, <1>5, <1>6

\* The boat page picks, drops and gives up cabins.
LEMMA BoatQuiet ==
    ASSUME StateOK,
           \/ \E c \in Cabins : Select(c) \/ Deselect(c)
           \/ ReleaseAllHolds \/ Reserve
    PROVE  QuietStep
<1>1. PageTypes
  BY DEF StateOK, TypeOK, PageTypes
<1>2. ASSUME NEW c \in Cabins, Select(c)  PROVE QuietStep
  <2>1. PageKept
    BY <1>1, <1>2 DEF Select, PageKept, PageTypes
  <2>2. Hold(c) \in Messages /\ Ours(Hold(c))
    BY CallOK, CartAssumption DEF Hold, Kinds
  <2>3. PICK new \in SUBSET Messages : new = {Hold(c)}
    BY <2>2
  <2>4. net' \subseteq net \cup new /\ \A n \in new : Ours(n)
    BY <1>2, <2>2, <2>3 DEF Select
  <2>. QED  BY <1>2, <2>1, <2>4, Kept DEF Select, QuietStep, server
<1>3. ASSUME NEW c \in Cabins, Deselect(c)  PROVE QuietStep
  <2>1. PageKept
    BY <1>1, <1>3, CartAssumption DEF Deselect, PageKept, PageTypes
  <2>2. Known(c) => Release(cart[c]) \in Messages /\ Ours(Release(cart[c]))
    BY CallOK DEF KnownIds
  <2>3. PICK new \in SUBSET Messages :
           new = IF Known(c) THEN {Release(cart[c])} ELSE {}
    BY <2>2
  <2>4. net' \subseteq net \cup new /\ \A n \in new : Ours(n)
    BY <1>3, <2>2, <2>3 DEF Deselect
  <2>. QED  BY <1>3, <2>1, <2>4, Kept DEF Deselect, QuietStep, server
<1>4. CASE ReleaseAllHolds
  <2>1. PageKept
    BY <1>1, <1>4, CartAssumption DEF ReleaseAllHolds, PageKept, PageTypes, NoIds
  <2>2. PICK new \in SUBSET Messages : new = {Release(i) : i \in KnownIds}
    BY CallOK
  <2>3. net' \subseteq net \cup new /\ \A n \in new : Ours(n)
    BY <1>4, <2>2, CallOK DEF ReleaseAllHolds
  <2>. QED  BY <1>4, <2>1, <2>3, Kept DEF ReleaseAllHolds, QuietStep, server
<1>5. CASE Reserve
  <2>1. PageKept
    BY <1>1, <1>5, CartAssumption DEF Reserve, PageKept, PageTypes
  <2>2. PICK new \in SUBSET Messages :
           /\ new = {Call("extend", None, {})}
           /\ \A n \in new : Ours(n)
    <3>. DEFINE x == Call("extend", None, {})
    <3>1. x \in Messages /\ Ours(x)
      BY CallOK DEF Kinds
    <3>. HIDE DEF x
    <3>2. PICK new \in SUBSET Messages : new = {x}
      BY <3>1
    <3>3. new = {Call("extend", None, {})}
      BY <3>2 DEF x
    <3>4. \A n \in new : Ours(n)
      BY <3>1, <3>2
    <3>. QED  BY <3>3, <3>4
  <2>3. TxKept /\ ExtendsKept /\ CallsKept
    <3>1. NobodyListens(net, new) /\ net \in SUBSET net
      BY <1>5, <2>2 DEF Reserve
    <3>. QED  BY <2>2, <3>1, ListensQuiet
  <2>. QED  BY <1>5, <2>1, <2>3, Kept DEF Reserve, QuietStep
<1>. QED  BY <1>2, <1>3, <1>4, <1>5

\* Leaving, closing and opening a page, and a call that fails for it.
LEMMA LeavingQuiet ==
    ASSUME StateOK, Back \/ LeaveShop \/ CloseTab \/ OpenBoat
    PROVE  QuietStep
<1>1. \E ms \in SUBSET net, new \in SUBSET Messages :
         NobodyListens(ms, new) /\ \A n \in new : Ours(n)
  <2>1. Snapshot \in Messages /\ Ours(Snapshot)
    BY CallOK DEF Snapshot, Kinds
  <2>2. CASE Back \/ LeaveShop
    <3>1. PICK next \in {"boat", "left"} : LeaveCheckout(next)
      BY <2>2 DEF Back, LeaveShop
    <3>2. PICK new \in SUBSET Messages :
            new = (IF attempt = Idle THEN {Release(i) : i \in KnownIds} ELSE {})
                  \cup (IF next = "boat" THEN {Snapshot} ELSE {})
      BY <2>1, CallOK
    <3>3. NobodyListens(net, new) /\ net \in SUBSET net
      BY <3>1, <3>2 DEF LeaveCheckout
    <3>4. \A n \in new : Ours(n)
      BY <2>1, <3>2, CallOK
    <3>. QED  BY <3>3, <3>4
  <2>3. CASE CloseTab
    BY <2>3 DEF CloseTab
  <2>4. CASE OpenBoat
    <3>1. PICK new \in SUBSET Messages : new = {Snapshot}
      BY <2>1
    <3>2. NobodyListens(net, new) /\ net \in SUBSET net
      BY <2>4, <3>1 DEF OpenBoat
    <3>. QED  BY <2>1, <3>1, <3>2
  <2>. QED  BY <2>2, <2>3, <2>4
<1>2. TxKept /\ ExtendsKept /\ CallsKept
  BY <1>1, ListensQuiet
<1>3. \E next \in {"boat", "left"} : Unmount(next)
  BY DEF Back, LeaveShop, CloseTab, OpenBoat, LeaveCheckout
<1>4. PageKept
  BY <1>3, UnmountKept
<1>5. UNCHANGED <<bounds, rows, reclaim, jar, past>>
  BY DEF Back, LeaveShop, CloseTab, OpenBoat
<1>. QED  BY <1>2, <1>4, <1>5, Kept DEF QuietStep

\* A booking attempt makes its next call, and a call fails.
LEMMA CallsQuiet ==
    ASSUME StateOK, Pay \/ \E m \in net : CallFails(m)
    PROVE  QuietStep
<1>1. PageTypes
  BY DEF StateOK, TypeOK, PageTypes
<1>2. CASE Pay
  <2>1. cart \in [Cabins -> 0 .. MaxHolds] /\ net \in SUBSET net
    BY <1>1 DEF PageTypes
  <2>2. CallsKept /\ attempt' \in [step: {"none", "holding", "booking"},
                                   ids: [Cabins -> 0 .. MaxHolds]]
    BY <1>2, <2>1, ProceedOK DEF Pay
  <2>3. PageKept
    BY <1>1, <1>2, <2>2 DEF Pay, PageKept, PageTypes
  <2>. QED  BY <1>2, <2>2, <2>3, Kept DEF Pay, QuietStep, server
<1>3. ASSUME NEW m \in net, CallFails(m)  PROVE QuietStep
  <2>1. m \in Messages /\ UNCHANGED <<bounds, server, jar, past>>
    BY <1>3 DEF CallFails, StateOK, TypeOK
  <2>2. PICK handled \in {{}, {Unheard(m)}} :
          CASE m.kind = "hold" ->
                  HoldRefused(m, FALSE, (net \ {m}) \cup handled)
            [] m.kind = "extend" ->
                  NotExtended(m) /\ net' = (net \ {m}) \cup handled
            [] m.kind = "book" ->
                  NotBooked(m) /\ net' = (net \ {m}) \cup handled
            [] OTHER -> net' = (net \ {m}) \cup handled /\ UNCHANGED pageVars
    BY <1>3 DEF CallFails
  <2>3. \/ /\ UNCHANGED <<page, sel, cart, shown, lapsed>>
           /\ attempt' = IF m.heard THEN Idle ELSE attempt
        \/ NotExtended(m) \/ NotBooked(m) \/ UNCHANGED pageVars
    BY <2>2 DEF HoldRefused
  <2>4. PageKept
    BY <2>1, <2>3, AnswersKept, Kept DEF NotBooked, StateOK, TypeOK, JarType
  <2>5. net' = (net \ {m}) \cup handled
    BY <2>2 DEF HoldRefused
  <2>6. CallsKept
    <3>1. /\ net \subseteq Messages /\ m \in net
          /\ \A n \in net : /\ n.who.account => jar.account
                            /\ n.kind = "hold" => n.cabin \in Cabins
          /\ Unheard(m) \in Messages /\ Unheard(m).who = m.who
          /\ Unheard(m).kind = m.kind /\ Unheard(m).cabin = m.cabin
      BY <2>1, CallOK DEF StateOK, TypeOK, SignedIn, HoldsHaveCabins
    <3>. QED  BY <2>1, <2>5, <3>1 DEF CallsKept
  <2>. QED  BY <2>1, <2>4, <2>6, Kept DEF QuietStep, server
<1>. QED  BY <1>2, <1>3

\* A row that ended keeps its owner.
LEMMA EndedRow ==
    ASSUME StateOK, NEW i \in Ids,
           NEW state \in {"released", "converted", "swept"}
    PROVE  /\ Ended(rows[i], state) \in RowType
           /\ Ended(rows[i], state).owner = rows[i].owner
           /\ Ended(rows[i], state).state = state
<1>1. rows[i] \in RowType
  BY DEF StateOK, TypeOK, RowType
<1>2. Never \in 0 .. Never
  BY CartAssumption DEF Never
<1>. QED  BY <1>1, <1>2 DEF Ended, Unused, RowType

\* Rows of a set that are held end, the others stay.
LEMMA RowsEnd ==
    ASSUME StateOK, NEW S \in SUBSET Ids,
           NEW state \in {"released", "converted", "swept"},
           \A i \in S : Held(i), state = "swept" => S \subseteq reclaim,
           rows' = [i \in Ids |-> IF i \in S THEN Ended(rows[i], state)
                                  ELSE rows[i]]
    PROVE  RowsKept
<1>1. rows \in [Ids -> RowType]
  BY DEF StateOK, TypeOK, RowType
<1>2. \A i \in Ids : rows'[i] = IF i \in S THEN Ended(rows[i], state) ELSE rows[i]
  OBVIOUS
<1>3. rows' \in [Ids -> RowType]
  BY <1>1, EndedRow
<1>. QED  BY <1>2, <1>3, EndedRow DEF RowsKept

\* The sweeper reads and frees rows.
LEMMA SweepQuiet ==
    ASSUME StateOK, SweepRead \/ SweepWrite
    PROVE  QuietStep
<1>1. UNCHANGED <<bounds, tx, extends, net, jar, pageVars, past>>
  BY DEF SweepRead, SweepWrite
<1>2. CallsKept
  BY <1>1, Kept
<1>3. CASE SweepRead
  <2>1. ReclaimKept
    BY <1>3 DEF SweepRead, ReclaimKept
  <2>. QED  BY <1>1, <1>2, <1>3, <2>1, Kept DEF SweepRead, QuietStep
<1>4. CASE SweepWrite
  <2>. DEFINE S == {i \in reclaim : Held(i)}
  <2>1. S \in SUBSET Ids /\ S \subseteq reclaim /\ \A i \in S : Held(i)
    BY DEF StateOK, TypeOK
  <2>2. rows' = [i \in Ids |-> IF i \in S THEN Ended(rows[i], "swept")
                               ELSE rows[i]]
    BY <1>4 DEF SweepWrite
  <2>3. RowsKept
    <3>. HIDE DEF S
    <3>. QED  BY <2>1, <2>2, RowsEnd
  <2>4. ReclaimKept
    BY <1>4 DEF SweepWrite, ReclaimKept
  <2>. QED  BY <1>1, <1>2, <2>3, <2>4, Kept DEF QuietStep
<1>. QED  BY <1>3, <1>4

\* The server releases and books.
LEMMA ServedQuiet ==
    ASSUME StateOK, NEW m \in net, ReleaseHold(m) \/ Book(m)
    PROVE  QuietStep
<1>1. m \in Messages /\ UNCHANGED <<bounds, reclaim, jar, past>>
  BY DEF ReleaseHold, Book, StateOK, TypeOK
<1>2. m.ids \in SUBSET Ids
  BY <1>1 DEF Messages
<1>3. CASE ReleaseHold(m)
  <2>. DEFINE S == {i \in m.ids : Held(i) /\ Owns(m.who, i)}
  <2>1. S \in SUBSET Ids /\ \A i \in S : Held(i)
    BY <1>2
  <2>2. rows' = [i \in Ids |-> IF i \in S THEN Ended(rows[i], "released")
                               ELSE rows[i]]
    BY <1>3 DEF ReleaseHold
  <2>3. RowsKept
    <3>. HIDE DEF S
    <3>. QED  BY <2>1, <2>2, RowsEnd
  <2>. QED  BY <1>1, <1>3, <2>3, Kept DEF ReleaseHold, QuietStep
<1>4. CASE Book(m) /\ \A i \in m.ids : Live(i) /\ Owns(m.who, i)
  <2>1. RowsKept
    <3>1. \A i \in m.ids : Held(i)
      BY <1>4 DEF Live
    <3>2. rows' = [i \in Ids |-> IF i \in m.ids THEN Ended(rows[i], "converted")
                                 ELSE rows[i]]
      BY <1>4 DEF Book
    <3>. QED  BY <1>2, <3>1, <3>2, RowsEnd
  <2>2. CASE m.heard
    <3>1. /\ Unmount("left") /\ NobodyListens(net \ {m}, {})
          /\ net \ {m} \in SUBSET net
      BY <1>4, <2>2 DEF Book
    <3>2. TxKept /\ ExtendsKept /\ CallsKept
      BY <3>1, ListensQuiet
    <3>3. PageKept
      BY <3>1, UnmountKept
    <3>. QED  BY <1>1, <2>1, <3>2, <3>3, Kept DEF QuietStep
  <2>3. CASE ~m.heard
    <3>1. net' = net \ {m} /\ UNCHANGED <<pageVars, tx, extends>>
      BY <1>4, <2>3 DEF Book
    <3>. QED  BY <1>1, <2>1, <3>1, Kept DEF QuietStep
  <2>. QED  BY <2>2, <2>3
<1>5. CASE Book(m) /\ ~\A i \in m.ids : Live(i) /\ Owns(m.who, i)
  <2>1. NotBooked(m) /\ net' = net \ {m} /\ UNCHANGED <<rows, tx, extends>>
    BY <1>5 DEF Book
  <2>2. PageKept
    BY <1>1, <2>1, AnswersKept DEF StateOK, TypeOK, JarType
  <2>. QED  BY <1>1, <2>1, <2>2, Kept DEF QuietStep
<1>. QED  BY <1>3, <1>4, <1>5

-----------------------------------------------------------------------------
(* Steps that start rows, move deadlines, count down or sign in: types.    *)

\* Hold calls under way and rows keep their kinds of owner.
LEMMA Owned ==
    ASSUME StateOK
    PROVE  /\ \A m \in net : OwnerOf(m.who) \in Owners \cup {None}
           /\ \A m \in net : \A o \in Callers(m.who) :
                 /\ o \in Owners /\ (o = "account" => jar.account)
                 /\ IF m.who = Stranger
                    THEN o \in Tokens /\ \A i \in Ids : rows[i].owner # o
                    ELSE o = OwnerOf(m.who)
           /\ \A m \in net : OwnerOf(m.who) = "account" => jar.account
           /\ HeldBy(None) = {} /\ LiveOf(None) = {} /\ None \notin Owners
           /\ "rival" \notin Owners
           /\ rows \in [Ids -> RowType]
           /\ FreeIds \subseteq Ids
           /\ \A i \in FreeIds : rows[i].state = "unused"
<1>1. \A i \in FreeIds : rows[i].state = "unused"
  BY DEF FreeIds, Unused
<1>2. FreeIds \subseteq Ids
  BY CartAssumption DEF FreeIds, Ids, StateOK, TypeOK, ScenarioType
<1>3. /\ None \notin Owners /\ "rival" \notin Owners /\ Tokens \subseteq Owners
      /\ "account" \notin Tokens /\ None # "account"
  BY CartAssumption DEF Owners
<1>4. HeldBy(None) = {} /\ LiveOf(None) = {}
  BY DEF HeldBy, LiveOf, StateOK, HoldsHaveCabins
<1>5. ASSUME NEW m \in net
      PROVE  /\ m.who \in JarType /\ (m.who.account => jar.account)
             /\ OwnerOf(m.who) \in Owners \cup {None}
             /\ OwnerOf(m.who) = "account" => m.who.account
             /\ OwnerOf(m.who) = None => m.who = Stranger
  <2>1. m.who \in JarType /\ (m.who.account => jar.account)
    BY DEF StateOK, TypeOK, Messages, JarType, SignedIn
  <2>2. /\ OwnerOf(m.who) \in Owners \cup {None}
        /\ OwnerOf(m.who) = "account" => m.who.account
    BY <1>3, <2>1 DEF OwnerOf, JarType, Owners
  <2>3. ASSUME OwnerOf(m.who) = None  PROVE m.who = Stranger
    <3>1. m.who.account = FALSE /\ m.who.token = None
      BY <1>3, <2>1, <2>3 DEF OwnerOf, JarType
    <3>. QED  BY <2>1, <3>1 DEF JarType, Stranger
  <2>. QED  BY <2>1, <2>2, <2>3
<1>6. ASSUME NEW m \in net, NEW o \in Callers(m.who)
      PROVE  /\ o \in Owners /\ (o = "account" => jar.account)
             /\ IF m.who = Stranger
                THEN o \in Tokens /\ \A i \in Ids : rows[i].owner # o
                ELSE o = OwnerOf(m.who)
  <2>1. CASE m.who = Stranger
    BY <1>3, <1>6, <2>1 DEF Callers, FreshTokens
  <2>2. CASE m.who # Stranger
    BY <1>5, <1>6, <2>2 DEF Callers
  <2>. QED  BY <2>1, <2>2
<1>7. rows \in [Ids -> RowType]
  BY DEF StateOK, TypeOK, RowType
<1>. QED  BY <1>1, <1>2, <1>3, <1>4, <1>5, <1>6, <1>7

\* The rows after a hold: the cart at its deadline, and the new row.
LEMMA HoldRows ==
    ASSUME StateOK, tx # None, NEW i \in FreeIds, NEW o \in Owners \cup {"rival"},
           rows' = [SweepForward(tx.owner, tx.left) EXCEPT ![i] =
                      NewHold(tx.call.cabin, o, tx.left)]
    PROVE  /\ tx \in WriteType /\ rows' \in [Ids -> RowType]
           /\ rows'[i].owner = o /\ rows'[i].left = tx.left
           /\ rows'[i].seen = Never /\ rows'[i].state = "held"
           /\ rows'[i].cabin = tx.call.cabin
           /\ \A j \in Ids : j # i =>
                 /\ rows'[j].owner = rows[j].owner
                 /\ rows'[j].cabin = rows[j].cabin
                 /\ rows'[j].state = rows[j].state
                 /\ rows'[j].seen = rows[j].seen
                 /\ rows'[j].extended = rows[j].extended
                 /\ rows'[j].left = IF j \in HeldBy(tx.owner) /\ rows[j].left < tx.left
                                    THEN tx.left ELSE rows[j].left
<1>1. tx \in WriteType /\ rows \in [Ids -> RowType] /\ i \in Ids
  BY Owned DEF StateOK, TypeOK, WriteType
<1>2. PICK new : new = NewHold(tx.call.cabin, o, tx.left)
  OBVIOUS
<1>3. /\ new \in RowType
      /\ new.owner = o /\ new.left = tx.left
      /\ new.seen = Never /\ new.state = "held"
      /\ new.cabin = tx.call.cabin
  <2>1. tx.call.cabin \in Cabins \cup {None} /\ Never \in 0 .. Never
    BY <1>1, CartAssumption DEF WriteType, Messages, Never
  <2>. QED  BY <1>1, <1>2, <2>1 DEF NewHold, RowType, WriteType
<1>4. PICK swept : swept = SweepForward(tx.owner, tx.left)
  OBVIOUS
<1>5. \A r \in RowType : /\ [r EXCEPT !.left = tx.left] \in RowType
                         /\ [r EXCEPT !.left = tx.left].owner = r.owner
                         /\ [r EXCEPT !.left = tx.left].cabin = r.cabin
                         /\ [r EXCEPT !.left = tx.left].state = r.state
                         /\ [r EXCEPT !.left = tx.left].seen = r.seen
                         /\ [r EXCEPT !.left = tx.left].extended = r.extended
                         /\ [r EXCEPT !.left = tx.left].left = tx.left
  BY <1>1 DEF RowType, WriteType
<1>6. /\ swept = [j \in Ids |-> swept[j]]
      /\ \A j \in Ids :
            swept[j] = IF j \in HeldBy(tx.owner) /\ rows[j].left < tx.left
                       THEN [rows[j] EXCEPT !.left = tx.left] ELSE rows[j]
  BY <1>4 DEF SweepForward
<1>7. \A j \in Ids :
         /\ swept[j] \in RowType /\ swept[j].cabin = rows[j].cabin
         /\ swept[j].owner = rows[j].owner /\ swept[j].state = rows[j].state
         /\ swept[j].seen = rows[j].seen
         /\ swept[j].extended = rows[j].extended
         /\ swept[j].left = IF j \in HeldBy(tx.owner) /\ rows[j].left < tx.left
                            THEN tx.left ELSE rows[j].left
  <2>1. TAKE j \in Ids
  <2>2. CASE j \in HeldBy(tx.owner) /\ rows[j].left < tx.left
    <3>1. rows[j] \in RowType
      BY <1>1
    <3>2. swept[j] = [rows[j] EXCEPT !.left = tx.left]
      BY <1>6, <2>2
    <3>3. /\ swept[j] \in RowType /\ swept[j].owner = rows[j].owner
          /\ swept[j].cabin = rows[j].cabin
          /\ swept[j].state = rows[j].state /\ swept[j].seen = rows[j].seen
          /\ swept[j].extended = rows[j].extended /\ swept[j].left = tx.left
      BY <1>5, <3>1, <3>2
    <3>. QED  BY <2>2, <3>3
  <2>3. CASE ~(j \in HeldBy(tx.owner) /\ rows[j].left < tx.left)
    BY <1>1, <1>6, <2>3
  <2>. QED  BY <2>2, <2>3
<1>8. /\ rows' = [j \in Ids |-> rows'[j]] /\ rows'[i] = new
      /\ \A j \in Ids : j # i => rows'[j] = swept[j]
  BY <1>1, <1>2, <1>4, <1>6
<1>9. rows' \in [Ids -> RowType]
  BY <1>3, <1>7, <1>8
<1>. QED  BY <1>1, <1>3, <1>7, <1>8, <1>9

\* The page after a hold was granted.
LEMMA GrantedOK ==
    ASSUME StateOK, NEW m \in Messages, NEW i \in Ids, NEW left \in Nat,
           HoldGranted(m, i, left, net)
    PROVE  /\ CallsKept /\ PageTypes' /\ lapsed' = lapsed
           /\ \/ cart' = cart /\ shown' = shown
              \/ /\ m.heard /\ \A c \in Cabins : cart'[c] \in {i, cart[c]}
                 /\ shown' = left
<1>1. PageTypes /\ net \in SUBSET net
  BY DEF StateOK, TypeOK, PageTypes
<1>0. \A f \in [Cabins -> 0 .. MaxHolds] :
         [f EXCEPT ![m.cabin] = i] \in [Cabins -> 0 .. MaxHolds]
  <2>1. i \in 0 .. MaxHolds
    BY CartAssumption DEF Ids
  <2>. QED  BY <2>1
<1>2. CASE ~m.heard /\ net' = net /\ UNCHANGED pageVars
  BY <1>1, <1>2, Kept DEF PageTypes, pageVars
<1>3. CASE /\ m.heard /\ cart' = [cart EXCEPT ![m.cabin] = i]
           /\ shown' = left /\ net' = net
           /\ UNCHANGED <<page, sel, lapsed, attempt>>
  <2>1. cart' \in [Cabins -> 0 .. MaxHolds]
    BY <1>0, <1>1, <1>3 DEF PageTypes
  <2>2. \A c \in Cabins : cart'[c] \in {i, cart[c]}
    BY <1>1, <1>3 DEF PageTypes
  <2>. QED  BY <1>1, <1>3, <2>1, <2>2, Kept DEF PageTypes
<1>4. CASE /\ Proceed([attempt.ids EXCEPT ![m.cabin] = i], net)
           /\ UNCHANGED <<page, sel, cart, shown, lapsed>>
  <2>1. [attempt.ids EXCEPT ![m.cabin] = i] \in [Cabins -> 0 .. MaxHolds]
    BY <1>0, <1>1 DEF PageTypes
  <2>2. /\ CallsKept
        /\ attempt' \in [step: {"none", "holding", "booking"},
                         ids: [Cabins -> 0 .. MaxHolds]]
    BY <1>1, <1>4, <2>1, ProceedOK
  <2>. QED  BY <1>1, <1>4, <2>2 DEF PageTypes
<1>. QED  BY <1>2, <1>3, <1>4 DEF HoldGranted

\* A hold commits: it takes the next row, and an extension of the cart that
\* is under way becomes stale.
Granted(i, kept) ==
    /\ tx # None /\ tx' = None /\ i \in FreeIds /\ CookieKept(kept)
    /\ rows' = [SweepForward(tx.owner, tx.left) EXCEPT ![i] =
                  NewHold(tx.call.cabin, Keeper(kept), tx.left)]
    /\ HoldGranted(tx.call, i, tx.left, net)
    /\ past' = [past EXCEPT
          !.unclaimed = @ \/ (tx.owner \in Tokens /\ jar.account),
          !.stale = @ \/ \E e \in extends : e.owner = tx.owner,
          !.split = @ \/ Splits(kept)]
    /\ UNCHANGED <<bounds, extends, reclaim, used>>

\* The cookie an answer sets is the one of the hold's owner.
LEMMA CookieFacts ==
    ASSUME StateOK, tx # None, NEW kept \in BOOLEAN, CookieKept(kept)
    PROVE  /\ jar' \in JarType /\ jar'.account = jar.account
           /\ Splits(kept) \in BOOLEAN
           /\ Splits(kept) \/ jar' = jar \/ jar.token = None
           /\ tx.owner \in Owners /\ Keeper(kept) \in {tx.owner, "rival"}
           /\ tx.call.heard => Keeper(kept) = tx.owner
           /\ Minted => tx.owner \in Tokens
           /\ \/ ~Minted /\ jar' = jar
              \/ Minted /\ kept /\ jar' = [jar EXCEPT !.token = tx.owner]
              \/ Minted /\ ~kept /\ jar' = jar /\ ~tx.call.heard
<1>1. jar \in JarType /\ tx.owner \in Owners
  BY DEF StateOK, TypeOK, JarType
<1>2. Minted => tx.owner \in Tokens
  BY DEF StateOK, TxForCaller, Minted
<1>3. CASE ~Minted
  BY <1>1, <1>3 DEF CookieKept, Splits, Keeper
<1>4. CASE Minted /\ kept
  <2>1. jar' = [jar EXCEPT !.token = tx.owner] /\ tx.owner \in Tokens
    BY <1>2, <1>4 DEF CookieKept
  <2>2. jar' \in JarType /\ jar'.account = jar.account
    BY <1>1, <2>1 DEF JarType
  <2>. QED  BY <1>1, <1>4, <2>1, <2>2 DEF Splits, Keeper
<1>5. CASE Minted /\ ~kept
  BY <1>1, <1>2, <1>5 DEF CookieKept, Splits, Keeper
<1>. QED  BY <1>3, <1>4, <1>5

\* A hold commits or finds its cabin taken.
LEMMA HoldWriteCases ==
    ASSUME StateOK, HoldWrite
    PROVE  QuietStep \/ \E i \in FreeIds, kept \in BOOLEAN : Granted(i, kept)
<1>1. /\ tx # None /\ tx.call \in Messages /\ net \in SUBSET net /\ tx' = None
      /\ UNCHANGED <<bounds, extends, reclaim, used>>
  BY DEF HoldWrite, StateOK, TypeOK
<1>2. PICK kept \in BOOLEAN : HoldTaken(kept) \/ HoldMade(kept)
  BY DEF HoldWrite
<1>3. CASE HoldTaken(kept)
  <2>1. CookieKept(kept) /\ HoldRefused(tx.call, TRUE, net) /\ UNCHANGED rows
    BY <1>3 DEF HoldTaken
  <2>2. /\ jar' \in JarType /\ jar'.account = jar.account
        /\ Splits(kept) \in BOOLEAN
        /\ Splits(kept) \/ jar' = jar \/ jar.token = None
    BY <1>1, <2>1, CookieFacts
  <2>3. PageKept /\ CallsKept
    BY <1>1, <2>1, <2>2, AnswersKept
  <2>4. PICK s \in BOOLEAN : s = (past.split \/ Splits(kept))
    BY <2>2 DEF StateOK, PastType
  <2>5. past' = [past EXCEPT !.split = s] /\ past \in PastType
    BY <1>3, <2>4 DEF HoldTaken, StateOK
  <2>6. PastKept /\ past'.split = s
    BY <2>4, <2>5 DEF PastKept, PastType
  <2>7. JarKept
    BY <2>2, <2>4, <2>6 DEF JarKept
  <2>. QED  BY <1>1, <2>1, <2>3, <2>6, <2>7, Kept DEF QuietStep, TxKept
<1>4. CASE HoldMade(kept)
  BY <1>1, <1>4 DEF HoldMade, Granted
<1>. QED  BY <1>2, <1>3, <1>4

\* A granted hold: what its history and its rows become.
LEMMA GrantedFacts ==
    ASSUME StateOK, NEW i \in FreeIds, NEW kept \in BOOLEAN, Granted(i, kept)
    PROVE  /\ i \in Ids /\ rows[i].state = "unused"
           /\ past' \in PastType
           /\ past'.raced = past.raced /\ past'.lost = past.lost
           /\ past'.late = past.late /\ past'.dead = past.dead
           /\ past'.unclaimed = (past.unclaimed \/ (tx.owner \in Tokens /\ jar.account))
           /\ past'.stale = (past.stale \/ \E e \in extends : e.owner = tx.owner)
           /\ past'.split = (past.split \/ Splits(kept))
           /\ JarKept
           /\ \A c \in Cabins : cart[c] # i
<1>1. i \in Ids /\ rows[i].state = "unused"
  BY Owned
<1>2. past \in PastType
  BY DEF StateOK
<1>0. /\ jar' \in JarType /\ jar'.account = jar.account
      /\ Splits(kept) \in BOOLEAN
      /\ Splits(kept) \/ jar' = jar \/ jar.token = None
  BY CookieFacts DEF Granted
<1>3. PICK u, s, p \in BOOLEAN :
        /\ u = (past.unclaimed \/ (tx.owner \in Tokens /\ jar.account))
        /\ s = (past.stale \/ \E e \in extends : e.owner = tx.owner)
        /\ p = (past.split \/ Splits(kept))
  BY <1>0, <1>2 DEF PastType
<1>4. past' = [past EXCEPT !.unclaimed = u, !.stale = s, !.split = p]
  BY <1>3 DEF Granted
<1>5. /\ past' \in PastType /\ past'.unclaimed = u /\ past'.stale = s
      /\ past'.split = p
      /\ past'.raced = past.raced /\ past'.lost = past.lost
      /\ past'.late = past.late /\ past'.dead = past.dead
  BY <1>2, <1>4 DEF PastType
<1>6. \A c \in Cabins : cart[c] # i
  BY <1>1, CartAssumption DEF StateOK, KnownAreOwn, Known, Ids
<1>7. JarKept
  BY <1>0, <1>3, <1>5 DEF JarKept
<1>. QED  BY <1>1, <1>3, <1>5, <1>6, <1>7

\* The rows after a granted hold.
LEMMA GrantedRows ==
    ASSUME StateOK, NEW i \in FreeIds, NEW kept \in BOOLEAN, Granted(i, kept)
    PROVE  /\ tx # None /\ tx' = None /\ tx \in WriteType /\ i \in Ids
           /\ rows' \in [Ids -> RowType]
           /\ rows'[i].owner = Keeper(kept) /\ rows'[i].left = tx.left
           /\ rows'[i].owner \in {tx.owner, "rival"}
           /\ tx.call.heard => rows'[i].owner = tx.owner
           /\ rows'[i].state = "held" /\ rows'[i].seen = Never
           /\ rows'[i].cabin = tx.call.cabin
           /\ \A j \in Ids : j # i =>
                 /\ rows'[j].owner = rows[j].owner
                 /\ rows'[j].cabin = rows[j].cabin
                 /\ rows'[j].state = rows[j].state
                 /\ rows'[j].seen = rows[j].seen
                 /\ rows'[j].extended = rows[j].extended
                 /\ rows'[j].left = IF j \in HeldBy(tx.owner) /\ rows[j].left < tx.left
                                    THEN tx.left ELSE rows[j].left
<1>1. tx # None /\ tx' = None /\ i \in Ids /\ CookieKept(kept)
  BY Owned DEF Granted
<1>2. PICK o \in Owners \cup {"rival"} : o = Keeper(kept)
  BY <1>1, CookieFacts
<1>3. rows' = [SweepForward(tx.owner, tx.left) EXCEPT ![i] =
                 NewHold(tx.call.cabin, o, tx.left)]
  BY <1>2 DEF Granted
<1>4. o \in {tx.owner, "rival"} /\ (tx.call.heard => o = tx.owner)
  BY <1>1, <1>2, CookieFacts
<1>. QED  BY <1>1, <1>2, <1>3, <1>4, HoldRows

\* A granted hold keeps the types and who may hold what.
LEMMA GrantedTypes ==
    ASSUME StateOK, NEW i \in FreeIds, NEW kept \in BOOLEAN, Granted(i, kept)
    PROVE  StateOK'
<1>1. /\ i \in Ids /\ tx # None /\ tx' = None
      /\ tx \in WriteType /\ rows' \in [Ids -> RowType]
      /\ rows'[i].owner \in {tx.owner, "rival"} /\ rows'[i].state = "held"
      /\ tx.call.heard => rows'[i].owner = tx.owner
      /\ rows'[i].cabin = tx.call.cabin
      /\ \A j \in Ids : j # i => /\ rows'[j].owner = rows[j].owner
                                 /\ rows'[j].cabin = rows[j].cabin
                                 /\ rows'[j].state = rows[j].state
  BY GrantedRows
<1>0. /\ UNCHANGED <<bounds, extends, reclaim>>
      /\ jar' \in JarType /\ jar'.account = jar.account
  BY GrantedFacts DEF Granted, JarKept
<1>2. /\ CallsKept /\ PageTypes'
      /\ \/ cart' = cart
         \/ tx.call.heard /\ \A c \in Cabins : cart'[c] \in {i, cart[c]}
  <2>1. tx.call \in Messages /\ tx.left \in Nat
    BY <1>1 DEF WriteType
  <2>. QED  BY <1>1, <2>1, GrantedOK DEF Granted
<1>3. TypeOK'
  BY <1>0, <1>1, <1>2 DEF StateOK, TypeOK, CallsKept, PageTypes, RowType, JarType
<1>4. SignedIn'
  <2>1. ~jar.account => HeldBy("account")' \subseteq HeldBy("account")
    BY <1>1, CartAssumption DEF StateOK, SignedIn, HeldBy, Held
  <2>. QED  BY <1>0, <1>1, <1>2, <2>1 DEF StateOK, SignedIn, CallsKept
<1>5. WritesGiveTime'
  BY <1>0, <1>1 DEF StateOK, WritesGiveTime
<1>6. KnownAreOwn'
  <2>1. SUFFICES ASSUME NEW c \in Cabins, cart'[c] # 0
                 PROVE  /\ rows'[cart'[c]].state # "unused"
                        /\ rows'[cart'[c]].owner # "rival"
    BY DEF KnownAreOwn, Known
  <2>4. i \in Ids /\ \A d \in Cabins : cart[d] # i
    BY GrantedFacts
  <2>2. CASE cart'[c] = i
    <3>1. tx.owner # "rival"
      BY <1>1, Owned DEF WriteType
    <3>. QED  BY <1>1, <1>2, <2>2, <2>4, <3>1
  <2>3. CASE cart'[c] # i
    <3>1. cart'[c] = cart[c] /\ cart[c] \in Ids
      BY <1>2, <2>1, <2>3 DEF StateOK, TypeOK, Ids
    <3>. QED  BY <1>1, <2>1, <2>3, <3>1 DEF StateOK, KnownAreOwn, Known
  <2>. QED  BY <2>2, <2>3
<1>7. HoldsHaveCabins'
  <2>1. rows'[i].owner # None
    BY <1>1, Owned, CartAssumption DEF WriteType
  <2>. QED  BY <1>1, <1>2, <2>1 DEF StateOK, HoldsHaveCabins, CallsKept, Held
<1>8. TxForCaller'
  BY <1>1 DEF TxForCaller
<1>. QED  BY <1>3, <1>4, <1>5, <1>6, <1>7, <1>8, GrantedFacts DEF StateOK

\* A hold reads its cart: refused by the cap, or a write to come.
LEMMA HoldReadCases ==
    ASSUME StateOK, NEW m \in net, HoldRead(m)
    PROVE  \/ QuietStep
           \/ /\ tx = None /\ tx' \in WriteType /\ tx'.owner \in Callers(m.who)
              /\ tx'.left = CartDeadline(tx'.owner) /\ tx'.left > 0
              /\ tx'.call.cabin \in Cabins /\ tx'.call = m
              /\ Cardinality(LiveOf(tx'.owner)) < Cap
              /\ CallsKept
              /\ UNCHANGED <<bounds, rows, extends, reclaim, jar, pageVars, past>>
<1>1. m \in Messages /\ net \ {m} \in SUBSET net /\ tx = None
      /\ UNCHANGED <<bounds, rows, extends, reclaim, jar, past>>
  BY DEF HoldRead, StateOK, TypeOK
<1>2. PICK o \in Callers(m.who) :
         \/ CapReached(o) /\ HoldRefused(m, TRUE, net \ {m}) /\ UNCHANGED tx
         \/ /\ ~CapReached(o)
            /\ tx' = [call |-> m, owner |-> o, left |-> CartDeadline(o)]
            /\ net' = net \ {m} /\ UNCHANGED pageVars
  BY DEF HoldRead
<1>3. CASE HoldRefused(m, TRUE, net \ {m}) /\ UNCHANGED tx
  <2>2. PageKept /\ CallsKept
    BY <1>1, <1>3, AnswersKept DEF StateOK, TypeOK, JarType
  <2>. QED  BY <1>1, <1>3, <2>2, Kept DEF QuietStep
<1>4. CASE /\ ~CapReached(o)
           /\ tx' = [call |-> m, owner |-> o, left |-> CartDeadline(o)]
           /\ net' = net \ {m} /\ UNCHANGED pageVars
  <2>1. o \in Owners
    BY Owned
  <2>2. /\ tx' = [call |-> m, owner |-> o, left |-> CartDeadline(o)]
        /\ net' = net \ {m} /\ UNCHANGED pageVars
    BY <1>4
  <2>3. CartDeadline(o) \in Nat /\ CartDeadline(o) > 0
    BY DeadlineOf, CartAssumption DEF StateOK
  <2>4. /\ tx' \in WriteType /\ tx'.owner = o /\ tx'.left = CartDeadline(o)
        /\ tx'.call = m
    BY <1>1, <2>1, <2>2, <2>3 DEF WriteType
  <2>6. m.cabin \in Cabins
    BY DEF HoldRead, StateOK, HoldsHaveCabins
  <2>5. Cardinality(LiveOf(o)) < Cap
    <3>1. Cardinality(LiveOf(o)) \in Nat /\ Cap \in Nat
      <4>1. LiveOf(o) \in SUBSET Ids
        BY DEF LiveOf, HeldBy
      <4>. QED  BY <4>1, FewerLive, CartAssumption
                DEF Cap, StateOK, TypeOK, ScenarioType
    <3>. QED  BY <1>4, <3>1 DEF CapReached
  <2>. QED  BY <1>1, <1>2, <2>2, <2>3, <2>4, <2>5, <2>6, Kept
<1>. QED  BY <1>2, <1>3, <1>4

\* A hold that read its cart keeps the types.
LEMMA HoldReadTypes ==
    ASSUME StateOK, NEW m \in net, HoldRead(m)
    PROVE  StateOK'
<1>1. CASE QuietStep
  BY <1>1, QuietTypes
<1>2. CASE ~QuietStep
  <2>1. /\ tx = None /\ tx' \in WriteType /\ tx'.owner \in Callers(m.who)
        /\ tx'.left > 0 /\ tx'.call.cabin \in Cabins /\ tx'.call = m
        /\ CallsKept
        /\ UNCHANGED <<bounds, rows, extends, reclaim, jar, pageVars, past>>
    BY <1>2, HoldReadCases
  <2>2. TypeOK'
    BY <2>1 DEF StateOK, TypeOK, CallsKept, WriteType, pageVars
  <2>3. SignedIn'
    BY <2>1, Owned DEF StateOK, SignedIn, CallsKept, HeldBy, Held
  <2>4. WritesGiveTime' /\ KnownAreOwn' /\ HoldsHaveCabins'
    BY <2>1 DEF StateOK, WritesGiveTime, KnownAreOwn, Known, pageVars,
       HoldsHaveCabins, CallsKept, Held
  <2>5. TxForCaller'
    BY <2>1, Owned DEF TxForCaller, OwnerOf
  <2>. QED  BY <2>1, <2>2, <2>3, <2>4, <2>5 DEF StateOK
<1>. QED  BY <1>1, <1>2

\* An extension reads its cart: refused, answered as before, or a write to
\* come.
LEMMA ExtendReadCases ==
    ASSUME StateOK, NEW m \in net, ExtendRead(m)
    PROVE  \/ QuietStep
           \/ /\ CallsKept /\ UNCHANGED <<bounds, server, jar, past>>
              /\ LiveOf(OwnerOf(m.who)) # {}
              /\ Extended(m, Latest(LiveOf(OwnerOf(m.who))))
           \/ /\ CallsKept
              /\ UNCHANGED <<bounds, rows, tx, reclaim, jar, pageVars, past>>
              /\ \E e \in WriteType :
                    /\ extends' = extends \cup {e}
                    /\ e.owner = OwnerOf(m.who) /\ e.call = m
                    /\ LiveOf(e.owner) # {}
                    /\ \A i \in LiveOf(e.owner) : ~rows[i].extended
                    /\ e.left = Latest(LiveOf(e.owner)) + Ext /\ e.left > 0
<1>1. /\ m \in Messages /\ CallsKept
      /\ UNCHANGED <<bounds, rows, tx, reclaim, jar, past>>
  BY Kept DEF ExtendRead, StateOK, TypeOK
<1>2. PICK o \in Owners \cup {None} : o = OwnerOf(m.who)
  BY Owned
<1>3. CASE LiveOf(o) = {} /\ NotExtended(m) /\ UNCHANGED extends
  <2>1. PageKept
    BY <1>1, <1>3, AnswersKept DEF StateOK, TypeOK, JarType
  <2>. QED  BY <1>1, <1>3, <2>1, Kept DEF QuietStep
<1>4. CASE /\ \E i \in LiveOf(o) : rows[i].extended
           /\ Extended(m, Latest(LiveOf(o)))
           /\ UNCHANGED extends
  BY <1>1, <1>2, <1>4 DEF server
<1>5. CASE /\ LiveOf(o) # {} /\ \A i \in LiveOf(o) : ~rows[i].extended
           /\ extends' = extends \cup
                 {[call |-> m, owner |-> o, left |-> Extension(o)]}
           /\ UNCHANGED pageVars
  <2>1. LiveOf(o) \in SUBSET Ids /\ \A i \in LiveOf(o) : rows[i].left > 0
    BY DEF LiveOf, HeldBy, Live
  <2>2. /\ Latest(LiveOf(o)) \in Nat
        /\ \E i \in LiveOf(o) : Latest(LiveOf(o)) = rows[i].left
    BY <1>5, <2>1, LatestOf DEF StateOK
  <2>3. Extension(o) \in Nat /\ Extension(o) > 0
        /\ Extension(o) = Latest(LiveOf(o)) + Ext
    BY <2>1, <2>2, CartAssumption DEF Extension
  <2>4. PICK e : e = [call |-> m, owner |-> o, left |-> Extension(o)]
    OBVIOUS
  <2>7. o \in Owners
    BY <1>5, Owned
  <2>5. e \in WriteType /\ e.owner = o /\ e.call = m /\ e.left = Extension(o)
    BY <1>1, <2>3, <2>4, <2>7 DEF WriteType
  <2>6. extends' = extends \cup {e}
    BY <1>5, <2>4
  <2>. QED  BY <1>1, <1>2, <1>5, <2>3, <2>5, <2>6
<1>. QED  BY <1>2, <1>3, <1>4, <1>5 DEF ExtendRead

\* A countdown that is set by an extension.
LEMMA ExtendedPage ==
    ASSUME StateOK, NEW m \in Messages, NEW left \in Nat, Extended(m, left)
    PROVE  /\ PageTypes' /\ cart' = cart /\ lapsed' = lapsed
           /\ shown' \in {shown, left}
  BY DEF Extended, StateOK, TypeOK, PageTypes

\* An extension that read its cart keeps the types.
LEMMA ExtendReadTypes ==
    ASSUME StateOK, NEW m \in net, ExtendRead(m)
    PROVE  StateOK'
<1>1. CASE QuietStep
  BY <1>1, QuietTypes
<1>2. CASE /\ CallsKept /\ UNCHANGED <<bounds, server, jar, past>>
           /\ LiveOf(OwnerOf(m.who)) # {}
           /\ Extended(m, Latest(LiveOf(OwnerOf(m.who))))
  <2>1. PICK left \in Nat : Extended(m, left)
    <3>1. LiveOf(OwnerOf(m.who)) \in SUBSET Ids
      BY DEF LiveOf, HeldBy
    <3>. QED  BY <1>2, <3>1, LatestOf DEF StateOK
  <2>2. m \in Messages
    BY DEF StateOK, TypeOK
  <2>3. PageTypes' /\ cart' = cart
    BY <2>1, <2>2, ExtendedPage
  <2>4. TypeOK'
    BY <1>2, <2>3 DEF StateOK, TypeOK, CallsKept, PageTypes, server
  <2>5. /\ SignedIn' /\ WritesGiveTime' /\ KnownAreOwn' /\ HoldsHaveCabins'
        /\ TxForCaller'
    BY <1>2, <2>3 DEF StateOK, SignedIn, WritesGiveTime, KnownAreOwn, Known,
       HoldsHaveCabins, CallsKept, HeldBy, Held, server, TxForCaller, OwnerOf
  <2>. QED  BY <1>2, <2>4, <2>5 DEF StateOK
<1>3. CASE /\ CallsKept
           /\ UNCHANGED <<bounds, rows, tx, reclaim, jar, pageVars, past>>
           /\ \E e \in WriteType :
                 /\ extends' = extends \cup {e}
                 /\ e.owner = OwnerOf(m.who) /\ e.left > 0
  <2>1. PICK e \in WriteType : /\ extends' = extends \cup {e}
                               /\ e.owner = OwnerOf(m.who) /\ e.left > 0
    BY <1>3
  <2>2. TypeOK'
    BY <1>3, <2>1 DEF StateOK, TypeOK, CallsKept, WriteType, pageVars
  <2>3. SignedIn'
    BY <1>3, <2>1, Owned DEF StateOK, SignedIn, CallsKept, HeldBy, Held
  <2>4. /\ WritesGiveTime' /\ KnownAreOwn' /\ HoldsHaveCabins'
        /\ TxForCaller'
    BY <1>3, <2>1 DEF StateOK, WritesGiveTime, KnownAreOwn, Known, pageVars,
       HoldsHaveCabins, CallsKept, Held, TxForCaller, OwnerOf
  <2>. QED  BY <1>3, <2>2, <2>3, <2>4 DEF StateOK
<1>. QED  BY <1>1, <1>2, <1>3, ExtendReadCases

\* The rows after an extension: the whole cart at its deadline.
LEMMA ExtendRows ==
    ASSUME StateOK, NEW e \in extends, ExtendWrite(e)
    PROVE  /\ e \in WriteType /\ rows' \in [Ids -> RowType]
           /\ \A j \in Ids :
                 /\ rows'[j].owner = rows[j].owner
                 /\ rows'[j].cabin = rows[j].cabin
                 /\ rows'[j].state = rows[j].state
                 /\ rows'[j].seen = rows[j].seen
                 /\ j \in HeldBy(e.owner) => /\ rows'[j].left = e.left
                                             /\ rows'[j].extended
                 /\ j \notin HeldBy(e.owner) => rows'[j] = rows[j]
           /\ extends' = extends \ {e} /\ UNCHANGED <<bounds, tx, reclaim, net, jar>>
           /\ past' \in PastType
           /\ past'.raced = (past.raced \/ (tx # None /\ tx.owner = e.owner))
           /\ past'.lost = past.lost /\ past'.unclaimed = past.unclaimed
           /\ past'.stale = past.stale /\ past'.split = past.split
           /\ past'.late = past.late /\ past'.dead = past.dead
           /\ PageTypes' /\ cart' = cart /\ lapsed' = lapsed
           /\ shown' \in {shown, e.left}
<1>1. e \in WriteType /\ rows \in [Ids -> RowType] /\ past \in PastType
  BY DEF StateOK, TypeOK, WriteType, RowType
<1>2. \A r \in RowType :
         LET x == [r EXCEPT !.left = e.left, !.extended = TRUE]
         IN  /\ x \in RowType /\ x.owner = r.owner /\ x.state = r.state
             /\ x.cabin = r.cabin
             /\ x.seen = r.seen /\ x.left = e.left /\ x.extended
  BY <1>1 DEF RowType, WriteType
<1>3. /\ rows' = [j \in Ids |-> rows'[j]]
      /\ \A j \in Ids : rows'[j] = IF j \in HeldBy(e.owner)
            THEN [rows[j] EXCEPT !.left = e.left, !.extended = TRUE]
            ELSE rows[j]
  BY DEF ExtendWrite
<1>4. \A j \in Ids :
         /\ rows'[j] \in RowType
         /\ rows'[j].owner = rows[j].owner
         /\ rows'[j].cabin = rows[j].cabin
         /\ rows'[j].state = rows[j].state
         /\ rows'[j].seen = rows[j].seen
         /\ j \in HeldBy(e.owner) => rows'[j].left = e.left /\ rows'[j].extended
         /\ j \notin HeldBy(e.owner) => rows'[j] = rows[j]
  <2>1. TAKE j \in Ids
  <2>2. rows[j] \in RowType
    BY <1>1
  <2>3. CASE j \in HeldBy(e.owner)
    <3>1. rows'[j] = [rows[j] EXCEPT !.left = e.left, !.extended = TRUE]
      BY <1>3, <2>3
    <3>. QED  BY <1>2, <2>2, <2>3, <3>1
  <2>4. CASE j \notin HeldBy(e.owner)
    BY <1>3, <2>2, <2>4
  <2>. QED  BY <2>3, <2>4
<1>5. rows' \in [Ids -> RowType]
  BY <1>3, <1>4
<1>6. PICK r \in BOOLEAN : r = (past.raced \/ (tx # None /\ tx.owner = e.owner))
  BY <1>1 DEF PastType
<1>7. past' = [past EXCEPT !.raced = r]
  BY <1>6 DEF ExtendWrite
<1>8. /\ past' \in PastType /\ past'.raced = r
      /\ past'.lost = past.lost /\ past'.unclaimed = past.unclaimed
      /\ past'.stale = past.stale /\ past'.split = past.split
      /\ past'.late = past.late /\ past'.dead = past.dead
  BY <1>1, <1>7 DEF PastType
<1>9. /\ PageTypes' /\ cart' = cart /\ lapsed' = lapsed
      /\ shown' \in {shown, e.left}
  <2>1. e.call \in Messages /\ e.left \in Nat /\ Extended(e.call, e.left)
    BY <1>1 DEF WriteType, ExtendWrite
  <2>. QED  BY <2>1, ExtendedPage
<1>10. extends' = extends \ {e} /\ UNCHANGED <<bounds, tx, reclaim, net, jar>>
  BY DEF ExtendWrite
<1>. QED  BY <1>1, <1>4, <1>5, <1>6, <1>8, <1>9, <1>10

\* A written extension keeps the types.
LEMMA ExtendWriteTypes ==
    ASSUME StateOK, NEW e \in extends, ExtendWrite(e)
    PROVE  StateOK'
<1>1. /\ rows' \in [Ids -> RowType]
      /\ \A j \in Ids : /\ rows'[j].owner = rows[j].owner
                        /\ rows'[j].cabin = rows[j].cabin
                        /\ rows'[j].state = rows[j].state
      /\ extends' \subseteq extends /\ UNCHANGED <<bounds, tx, reclaim, net, jar>>
      /\ past' \in PastType /\ PageTypes' /\ cart' = cart
  BY ExtendRows
<1>2. TypeOK'
  BY <1>1 DEF StateOK, TypeOK, PageTypes, RowType
<1>3. SignedIn' /\ WritesGiveTime' /\ KnownAreOwn' /\ HoldsHaveCabins'
  <2>1. SignedIn' /\ WritesGiveTime' /\ HoldsHaveCabins'
    BY <1>1 DEF StateOK, SignedIn, WritesGiveTime, HoldsHaveCabins, HeldBy, Held
  <2>2. \A c \in Cabins : cart[c] # 0 => cart[c] \in Ids
    BY DEF StateOK, TypeOK, Ids
  <2>3. KnownAreOwn'
    BY <1>1, <2>2 DEF StateOK, KnownAreOwn, Known
  <2>. QED  BY <2>1, <2>3
<1>4. TxForCaller'
  BY <1>1 DEF StateOK, TxForCaller, OwnerOf
<1>. QED  BY <1>1, <1>2, <1>3, <1>4 DEF StateOK

\* The page after a look at the departure: it counts down for what it knows
\* and for live rows of its caller, by the deadline of one of these.
LEMMA RestoreFacts ==
    ASSUME StateOK, NEW m \in net, RestoreHolds(m)
    PROVE  \/ QuietStep
           \/ /\ CallsKept /\ PageTypes' /\ lapsed' = lapsed
              /\ UNCHANGED <<bounds, server, jar, past>>
              /\ \A c \in Cabins :
                    cart'[c] # cart[c] => /\ cart'[c] \in Ids /\ Live(cart'[c])
                                          /\ Owns(m.who, cart'[c])
              /\ \E i \in Ids : Live(i) /\ Owns(m.who, i) /\ shown' = rows[i].left
<1>. DEFINE own == {i \in Ids : Live(i) /\ Owns(m.who, i)}
            missing == {i \in own : ~Known(rows[i].cabin)}
            restored(c) == {i \in missing : rows[i].cabin = c}
<1>1. CallsKept /\ UNCHANGED <<bounds, server, jar, past>>
  BY Kept DEF RestoreHolds
<1>2. CASE UNCHANGED pageVars
  BY <1>1, <1>2, Kept DEF QuietStep, server
<1>3. CASE ~UNCHANGED pageVars
  <2>1. /\ sel' = sel \cup {rows[i].cabin : i \in missing}
        /\ cart' = [c \in Cabins |-> IF restored(c) = {} THEN cart[c]
                                     ELSE Max(restored(c))]
        /\ \E i \in own : shown' = rows[i].left
        /\ UNCHANGED <<page, lapsed, attempt>>
    BY <1>3 DEF RestoreHolds
  <2>2. ASSUME NEW c \in Cabins, restored(c) # {}
        PROVE  Max(restored(c)) \in restored(c)
    <3>1. restored(c) \in SUBSET Nat /\ \A i \in restored(c) : i <= MaxHolds
      BY CartAssumption DEF Ids
    <3>2. MaxHolds \in Nat
      BY CartAssumption
    <3>. HIDE DEF restored
    <3>. QED  BY <2>2, <3>1, <3>2, MaxOf
  <2>3. \A c \in Cabins :
           /\ restored(c) = {} => cart'[c] = cart[c]
           /\ restored(c) # {} => cart'[c] \in restored(c)
    <3>. HIDE DEF restored
    <3>. QED  BY <2>1, <2>2
  <2>4. \A c \in Cabins :
           cart'[c] # cart[c] => /\ cart'[c] \in Ids /\ Live(cart'[c])
                                 /\ Owns(m.who, cart'[c])
    <3>1. \A c \in Cabins : restored(c) \subseteq own
      OBVIOUS
    <3>2. \A i \in own : i \in Ids /\ Live(i) /\ Owns(m.who, i)
      OBVIOUS
    <3>. HIDE DEF restored, own
    <3>. QED  BY <2>3, <3>1, <3>2
  <2>5. cart' \in [Cabins -> 0 .. MaxHolds]
    <3>1. \A c \in Cabins : cart'[c] \in 0 .. MaxHolds
      BY <2>4, CartAssumption DEF StateOK, TypeOK, Ids
    <3>2. cart' = [c \in Cabins |-> cart'[c]]
      BY <2>1
    <3>. QED  BY <3>1, <3>2
  <2>6. PICK i \in Ids : Live(i) /\ Owns(m.who, i) /\ shown' = rows[i].left
    BY <2>1
  <2>7. sel' \subseteq Cabins
    <3>1. \A j \in missing : rows[j].cabin \in Cabins
      BY DEF Live, StateOK, HoldsHaveCabins
    <3>. QED  BY <2>1, <3>1 DEF StateOK, TypeOK
  <2>8. PageTypes' /\ lapsed' = lapsed
    BY <2>1, <2>5, <2>6, <2>7, Owned DEF StateOK, TypeOK, PageTypes, RowType
  <2>. QED  BY <1>1, <2>4, <2>6, <2>8
<1>. QED  BY <1>2, <1>3

\* A look at the departure keeps the types.
LEMMA RestoreTypes ==
    ASSUME StateOK, NEW m \in net, RestoreHolds(m)
    PROVE  StateOK'
<1>1. CASE QuietStep
  BY <1>1, QuietTypes
<1>2. CASE ~QuietStep
  <2>1. /\ CallsKept /\ PageTypes'
        /\ UNCHANGED <<bounds, server, jar, past>>
        /\ \A c \in Cabins :
              cart'[c] # cart[c] => /\ cart'[c] \in Ids /\ Live(cart'[c])
                                    /\ Owns(m.who, cart'[c])
    BY <1>2, RestoreFacts
  <2>2. TypeOK'
    BY <2>1 DEF StateOK, TypeOK, CallsKept, PageTypes, server
  <2>3. SignedIn' /\ WritesGiveTime' /\ HoldsHaveCabins' /\ TxForCaller'
    BY <2>1 DEF StateOK, SignedIn, WritesGiveTime, HoldsHaveCabins, CallsKept,
       HeldBy, Held, server, TxForCaller, OwnerOf
  <2>4. KnownAreOwn'
    <3>1. m.who.token # "rival"
      BY CartAssumption DEF StateOK, TypeOK, Messages
    <3>. QED  BY <2>1, <3>1 DEF StateOK, KnownAreOwn, Known, Live, Held, Owns, server
  <2>. QED  BY <2>1, <2>2, <2>3, <2>4 DEF StateOK
<1>. QED  BY <1>1, <1>2

\* A rival's hold: its row, and all the others as they were.
LEMMA RivalRows ==
    ASSUME StateOK, NEW c \in Cabins, RivalHolds(c)
    PROVE  \E i \in FreeIds :
              /\ rows' \in [Ids -> RowType]
              /\ rows'[i].owner = "rival" /\ rows'[i].state = "held"
              /\ rows'[i].cabin = c /\ rows'[i].left = TTL
              /\ rows'[i].seen = Never
              /\ \A j \in Ids : j # i => rows'[j] = rows[j]
<1>1. PICK i \in FreeIds : rows' = [rows EXCEPT ![i] = NewHold(c, "rival", TTL)]
  BY DEF RivalHolds
<1>2. PICK new : new = NewHold(c, "rival", TTL)
  OBVIOUS
<1>3. Never \in 0 .. Never /\ TTL \in Nat
  BY CartAssumption DEF Never
<1>4. /\ new \in RowType /\ new.owner = "rival" /\ new.state = "held"
      /\ new.cabin = c /\ new.left = TTL /\ new.seen = Never
  BY <1>2, <1>3 DEF NewHold, RowType
<1>5. rows \in [Ids -> RowType] /\ i \in Ids
  BY <1>1, Owned
<1>6. rows' = [rows EXCEPT ![i] = new]
  BY <1>1, <1>2
<1>. QED  BY <1>4, <1>5, <1>6

\* A rival's hold keeps the types.
LEMMA RivalTypes ==
    ASSUME StateOK, NEW c \in Cabins, RivalHolds(c)
    PROVE  StateOK'
<1>1. UNCHANGED <<bounds, tx, extends, reclaim, net, jar, pageVars, past>>
  BY DEF RivalHolds
<1>2. PICK i \in FreeIds :
         /\ rows' \in [Ids -> RowType]
         /\ rows'[i].owner = "rival" /\ rows'[i].cabin = c
         /\ \A j \in Ids : j # i => rows'[j] = rows[j]
  BY RivalRows
<1>3. TypeOK'
  BY <1>1, <1>2 DEF StateOK, TypeOK, RowType, pageVars
<1>4. SignedIn' /\ WritesGiveTime' /\ HoldsHaveCabins' /\ TxForCaller'
  <2>1. tx' = None /\ None # "rival"
    BY CartAssumption DEF RivalHolds
  <2>. QED  BY <1>1, <1>2, <2>1 DEF StateOK, SignedIn, WritesGiveTime,
            HoldsHaveCabins, HeldBy, Held, TxForCaller
<1>5. KnownAreOwn'
  <2>1. SUFFICES ASSUME NEW d \in Cabins, cart'[d] # 0
                 PROVE  /\ rows'[cart'[d]].state # "unused"
                        /\ rows'[cart'[d]].owner # "rival"
    BY DEF KnownAreOwn, Known
  <2>2. cart'[d] = cart[d] /\ cart[d] \in Ids
    BY <1>1, <2>1 DEF StateOK, TypeOK, Ids, pageVars
  <2>3. rows[cart[d]].state # "unused" /\ rows[cart[d]].owner # "rival"
    BY <2>1, <2>2 DEF StateOK, KnownAreOwn, Known
  <2>. QED  BY <1>2, <2>2, <2>3, Owned
<1>. QED  BY <1>1, <1>3, <1>4, <1>5 DEF StateOK

\* A sign-in: rows change their owner at most, from the token to the
\* account, and all the live ones do unless the claim failed.
LEMMA LoginFacts ==
    ASSUME StateOK, Login
    PROVE  /\ UNCHANGED <<bounds, tx, extends, reclaim, net, pageVars>>
           /\ ~jar.account /\ jar'.account /\ jar' \in JarType
           /\ rows' \in [Ids -> RowType]
           /\ \A i \in Ids : /\ rows'[i].cabin = rows[i].cabin
                             /\ rows'[i].state = rows[i].state
                             /\ rows'[i].left = rows[i].left
                             /\ rows'[i].seen = rows[i].seen
                             /\ rows'[i].extended = rows[i].extended
           /\ past' \in PastType
           /\ past'.lost = past.lost /\ past'.raced = past.raced
           /\ past'.late = past.late /\ past'.dead = past.dead
           /\ past.unclaimed => past'.unclaimed
           /\ past.stale => past'.stale
           /\ past'.split = past.split
           /\ \/ /\ rows' = rows /\ past'.unclaimed
              \/ /\ extends # {} => past'.stale
                 /\ \A i \in Ids :
                       rows'[i].owner = IF i \in LiveOf(jar.token) THEN "account"
                                        ELSE rows[i].owner
<1>1. /\ UNCHANGED <<bounds, tx, extends, reclaim, net, pageVars>> /\ ~jar.account
      /\ jar \in JarType
      /\ past \in PastType /\ rows \in [Ids -> RowType]
  BY Owned DEF Login, StateOK, TypeOK, JarType
<1>2. CASE /\ ClaimForAccount
           /\ jar' = [account |-> TRUE, token |-> None]
           /\ past' = [past EXCEPT !.stale = @ \/ extends # {}]
  <2>1. PICK s \in BOOLEAN : s = (past.stale \/ extends # {})
    BY <1>1 DEF PastType
  <2>2. past' = [past EXCEPT !.stale = s]
    BY <1>2, <2>1
  <2>3. /\ past' \in PastType /\ past'.stale = s
        /\ past'.lost = past.lost /\ past'.raced = past.raced
        /\ past'.unclaimed = past.unclaimed /\ past'.split = past.split
        /\ past'.late = past.late /\ past'.dead = past.dead
    BY <1>1, <2>2 DEF PastType
  <2>8. jar' \in JarType /\ jar'.account
    BY <1>2 DEF JarType
  <2>4. \A r \in RowType :
           LET x == [r EXCEPT !.owner = "account"]
           IN  /\ x \in RowType /\ x.owner = "account" /\ x.state = r.state
               /\ x.left = r.left /\ x.seen = r.seen /\ x.cabin = r.cabin
               /\ x.extended = r.extended
    BY DEF RowType, Owners
  <2>5. /\ rows' = [i \in Ids |-> rows'[i]]
        /\ \A i \in Ids : rows'[i] = IF i \in LiveOf(jar.token)
              THEN [rows[i] EXCEPT !.owner = "account"] ELSE rows[i]
    BY <1>2 DEF ClaimForAccount
  <2>6. \A i \in Ids :
           /\ rows'[i] \in RowType
           /\ rows'[i].cabin = rows[i].cabin /\ rows'[i].state = rows[i].state
           /\ rows'[i].left = rows[i].left /\ rows'[i].seen = rows[i].seen
           /\ rows'[i].extended = rows[i].extended
           /\ rows'[i].owner = IF i \in LiveOf(jar.token) THEN "account"
                               ELSE rows[i].owner
    <3>1. TAKE i \in Ids
    <3>2. rows[i] \in RowType
      BY <1>1
    <3>3. CASE i \in LiveOf(jar.token)
      <4>1. rows'[i] = [rows[i] EXCEPT !.owner = "account"]
        BY <2>5, <3>3
      <4>. QED  BY <2>4, <3>2, <3>3, <4>1
    <3>4. CASE i \notin LiveOf(jar.token)
      BY <2>5, <3>2, <3>4
    <3>. QED  BY <3>3, <3>4
  <2>7. rows' \in [Ids -> RowType]
    BY <2>5, <2>6
  <2>. QED  BY <1>1, <1>2, <2>1, <2>3, <2>6, <2>7, <2>8
<1>3. CASE /\ jar' = [jar EXCEPT !.account = TRUE]
           /\ past' = [past EXCEPT !.unclaimed = TRUE]
           /\ UNCHANGED rows
  <2>1. jar' \in JarType /\ jar'.account
    BY <1>1, <1>3 DEF JarType
  <2>2. /\ past' \in PastType /\ past'.unclaimed /\ past'.split = past.split
        /\ past'.lost = past.lost /\ past'.raced = past.raced
        /\ past'.stale = past.stale
        /\ past'.late = past.late /\ past'.dead = past.dead
    BY <1>1, <1>3 DEF PastType
  <2>. QED  BY <1>1, <1>3, <2>1, <2>2
<1>. QED  BY <1>2, <1>3 DEF Login

\* A sign-in keeps the types.
LEMMA LoginTypes ==
    ASSUME StateOK, Login
    PROVE  StateOK'
<1>1. /\ UNCHANGED <<bounds, tx, extends, reclaim, net, pageVars>>
      /\ jar'.account /\ jar' \in JarType
      /\ rows' \in [Ids -> RowType] /\ past' \in PastType
      /\ \A i \in Ids : /\ rows'[i].cabin = rows[i].cabin
                        /\ rows'[i].state = rows[i].state
                        /\ rows'[i].owner \in {"account", rows[i].owner}
  <2>1. \A i \in Ids : rows'[i].owner \in {"account", rows[i].owner}
    BY LoginFacts
  <2>. QED  BY <2>1, LoginFacts
<1>2. TypeOK'
  BY <1>1 DEF StateOK, TypeOK, RowType, pageVars, JarType
<1>3. SignedIn' /\ WritesGiveTime' /\ HoldsHaveCabins' /\ TxForCaller'
  <2>1. "account" # None /\ "account" \notin Tokens
    BY CartAssumption
  <2>2. SignedIn' /\ WritesGiveTime' /\ HoldsHaveCabins'
    BY <1>1, <2>1 DEF StateOK, SignedIn, WritesGiveTime, HoldsHaveCabins, Held
  <2>3. TxForCaller'
    BY <1>1, <2>1 DEF StateOK, TxForCaller, OwnerOf
  <2>. QED  BY <2>2, <2>3
<1>4. KnownAreOwn'
  BY <1>1 DEF StateOK, TypeOK, KnownAreOwn, Known, Ids, pageVars
<1>. QED  BY <1>1, <1>2, <1>3, <1>4 DEF StateOK

\* A row that grows older by a unit of time.
LEMMA AgedRow ==
    ASSUME NEW r \in RowType
    PROVE  /\ Aged(r) \in RowType /\ Before(r.left) \in Nat
           /\ Aged(r).cabin = r.cabin /\ Aged(r).owner = r.owner
           /\ Aged(r).state = r.state /\ Aged(r).extended = r.extended
           /\ Aged(r).left = IF r.state = "held" THEN Before(r.left) ELSE r.left
           /\ Aged(r).seen = IF r.state = "held" /\ r.seen \in 0 .. Grace
                             THEN r.seen + 1 ELSE r.seen
           /\ [Aged(r) EXCEPT !.seen = 0] \in RowType
           /\ [Aged(r) EXCEPT !.seen = 0].cabin = r.cabin
           /\ [Aged(r) EXCEPT !.seen = 0].owner = r.owner
           /\ [Aged(r) EXCEPT !.seen = 0].state = r.state
           /\ [Aged(r) EXCEPT !.seen = 0].extended = r.extended
           /\ [Aged(r) EXCEPT !.seen = 0].left = Aged(r).left
           /\ [Aged(r) EXCEPT !.seen = 0].seen = 0
<1>1. Grace \in Nat /\ Never = Grace + 2 /\ 0 \in 0 .. Never
  BY CartAssumption DEF Never
<1>2. PICK left \in Nat :
         left = IF r.state = "held" THEN Before(r.left) ELSE r.left
  BY DEF RowType, Before
<1>3. PICK seen \in 0 .. Never :
         seen = IF r.state = "held" /\ r.seen \in 0 .. Grace
                THEN r.seen + 1 ELSE r.seen
  BY <1>1 DEF RowType
<1>4. Aged(r) = [r EXCEPT !.left = left, !.seen = seen]
  BY <1>2, <1>3 DEF Aged, RowType
<1>5. PICK x : x = [r EXCEPT !.left = left, !.seen = seen]
  OBVIOUS
<1>6. /\ x \in RowType /\ x.cabin = r.cabin /\ x.owner = r.owner
      /\ x.state = r.state /\ x.extended = r.extended
      /\ x.left = left /\ x.seen = seen
  BY <1>5 DEF RowType
<1>7. /\ [x EXCEPT !.seen = 0] \in RowType
      /\ [x EXCEPT !.seen = 0].cabin = x.cabin
      /\ [x EXCEPT !.seen = 0].owner = x.owner
      /\ [x EXCEPT !.seen = 0].state = x.state
      /\ [x EXCEPT !.seen = 0].extended = x.extended
      /\ [x EXCEPT !.seen = 0].left = x.left
      /\ [x EXCEPT !.seen = 0].seen = 0
  BY <1>1, <1>6 DEF RowType
<1>8. Before(r.left) \in Nat
  BY DEF Before, RowType
<1>9. Aged(r) = x
  BY <1>4, <1>5
<1>. QED  BY <1>2, <1>3, <1>6, <1>7, <1>8, <1>9

\* A unit of time: what it does to the rows, the page and the history.
LEMMA TickFacts ==
    ASSUME StateOK, Tick
    PROVE  /\ tx = None /\ extends = {} /\ CallsKept
           /\ UNCHANGED <<bounds, tx, extends, reclaim, jar, page, sel, cart,
                          attempt>>
           /\ shown' = Before(shown) /\ lapsed' = (lapsed \/ shown = 1)
           /\ rows' \in [Ids -> RowType]
           /\ \A i \in Ids :
                 /\ rows'[i].cabin = rows[i].cabin
                 /\ rows'[i].owner = rows[i].owner
                 /\ rows'[i].state = rows[i].state
                 /\ rows'[i].extended = rows[i].extended
                 /\ rows'[i].left = Aged(rows[i]).left
                 /\ rows'[i].seen \in {0, Aged(rows[i]).seen}
                 /\ past'.lost \/ ~Active \/ ~Held(i)
                    \/ ~(Aged(rows[i]).left > 0) \/ rows[i].owner # OwnerOf(jar)
                    \/ rows'[i].seen = 0
           /\ past' \in PastType
           /\ past'.unclaimed = past.unclaimed /\ past'.raced = past.raced
           /\ past'.stale = past.stale /\ (past.lost => past'.lost)
           /\ past'.split = past.split
           /\ past'.late = past.late \cup
                {i \in Ids : /\ Held(i) /\ Overdue(Aged(rows[i]))
                             /\ ~(i \in KnownIds /\ shown > 1 /\ ~lapsed)}
           /\ past'.dead = past.dead \cup
                {i \in Ids : Held(i) /\ Aged(rows[i]).left = 0}
<1>. DEFINE aged == [i \in Ids |-> Aged(rows[i])]
            late == {i \in Ids : /\ Held(i) /\ Overdue(aged[i])
                                 /\ ~(i \in KnownIds /\ shown > 1 /\ ~lapsed)}
            dead == {i \in Ids : Held(i) /\ aged[i].left = 0}
<1>1. /\ tx = None /\ extends = {}
      /\ UNCHANGED <<bounds, tx, extends, reclaim, jar, page, sel, cart, attempt>>
      /\ shown' = Before(shown) /\ lapsed' = (lapsed \/ shown = 1)
      /\ net' = {[m EXCEPT !.fresh = FALSE] : m \in net}
  BY DEF Tick
<1>2. rows \in [Ids -> RowType] /\ past \in PastType
  BY Owned DEF StateOK
<1>3. CallsKept
  <2>1. \A m \in Messages : /\ [m EXCEPT !.fresh = FALSE] \in Messages
                            /\ [m EXCEPT !.fresh = FALSE].who = m.who
                            /\ [m EXCEPT !.fresh = FALSE].kind = m.kind
                            /\ [m EXCEPT !.fresh = FALSE].cabin = m.cabin
    BY DEF Messages
  <2>2. /\ net \subseteq Messages
        /\ \A m \in net : /\ m.who.account => jar.account
                          /\ m.kind = "hold" => m.cabin \in Cabins
    BY DEF StateOK, TypeOK, SignedIn, HoldsHaveCabins
  <2>3. ASSUME NEW n \in net'
        PROVE  /\ n \in Messages /\ (n.who.account => jar.account)
               /\ n.kind = "hold" => n.cabin \in Cabins
               /\ \E k \in net : n.who = k.who
    <3>1. PICK m \in net : n = [m EXCEPT !.fresh = FALSE]
      BY <1>1, <2>3
    <3>2. /\ n \in Messages /\ n.who = m.who
          /\ n.kind = m.kind /\ n.cabin = m.cabin
      BY <2>1, <2>2, <3>1
    <3>. QED  BY <2>2, <3>2
  <2>. QED  BY <2>3 DEF CallsKept
<1>4. \E lost \in BOOLEAN :
         /\ past.lost => lost
         /\ rows' = aged \/ rows' = TouchHolds(aged)
         /\ lost \/ ~Active \/ rows' = TouchHolds(aged)
         /\ past' = [past EXCEPT !.lost = lost, !.late = @ \cup late,
                                  !.dead = @ \cup dead]
  <2>. HIDE DEF aged, late, dead
  <2>1. CASE /\ rows' = IF Active THEN TouchHolds(aged) ELSE aged
             /\ past' = [past EXCEPT !.late = @ \cup late, !.dead = @ \cup dead]
    <3>1. past' = [past EXCEPT !.lost = past.lost, !.late = @ \cup late,
                               !.dead = @ \cup dead]
      BY <1>2, <2>1 DEF PastType
    <3>2. past.lost \in BOOLEAN
      BY <1>2 DEF PastType
    <3>. QED  BY <2>1, <3>1, <3>2
  <2>2. CASE /\ rows' = aged
             /\ past' = [past EXCEPT !.lost = TRUE, !.late = @ \cup late,
                                      !.dead = @ \cup dead]
    BY <2>2
  <2>. QED  BY <2>1, <2>2 DEF Tick, aged, late, dead
<1>5. PICK lost \in BOOLEAN :
         /\ past.lost => lost
         /\ rows' = aged \/ rows' = TouchHolds(aged)
         /\ lost \/ ~Active \/ rows' = TouchHolds(aged)
         /\ past' = [past EXCEPT !.lost = lost, !.late = @ \cup late,
                                  !.dead = @ \cup dead]
  BY <1>4
<1>6. /\ past' \in PastType /\ past'.lost = lost
      /\ past'.unclaimed = past.unclaimed /\ past'.raced = past.raced
      /\ past'.stale = past.stale /\ past'.split = past.split
      /\ past'.late = past.late \cup late
      /\ past'.dead = past.dead \cup dead
  <2>1. late \in SUBSET Ids /\ dead \in SUBSET Ids
    OBVIOUS
  <2>. HIDE DEF late, dead
  <2>2. /\ past.late \cup late \in SUBSET Ids /\ past.dead \cup dead \in SUBSET Ids
    BY <1>2, <2>1 DEF PastType
  <2>3. PICK l, d \in SUBSET Ids : l = past.late \cup late /\ d = past.dead \cup dead
    BY <2>2
  <2>4. past' = [past EXCEPT !.lost = lost, !.late = l, !.dead = d]
    BY <1>5, <2>3
  <2>. QED  BY <1>2, <2>3, <2>4 DEF PastType
<1>7. /\ aged = [i \in Ids |-> aged[i]] /\ \A i \in Ids : aged[i] = Aged(rows[i])
  OBVIOUS
<1>8. /\ late = {i \in Ids : /\ Held(i) /\ Overdue(Aged(rows[i]))
                             /\ ~(i \in KnownIds /\ shown > 1 /\ ~lapsed)}
      /\ dead = {i \in Ids : Held(i) /\ Aged(rows[i]).left = 0}
  OBVIOUS
<1>9. /\ rows' = [i \in Ids |-> rows'[i]]
      /\ \A i \in Ids :
            /\ rows'[i] \in {aged[i], [aged[i] EXCEPT !.seen = 0]}
            /\ rows' = TouchHolds(aged) =>
                  rows'[i] = IF aged[i].state = "held" /\ aged[i].left > 0
                                /\ aged[i].owner = OwnerOf(jar)
                             THEN [aged[i] EXCEPT !.seen = 0] ELSE aged[i]
  <2>. HIDE DEF aged
  <2>. QED  BY <1>5, <1>7 DEF TouchHolds
<1>. HIDE DEF aged, late, dead
<1>10. \A i \in Ids :
          /\ rows'[i] \in RowType
          /\ rows'[i].cabin = rows[i].cabin
          /\ rows'[i].owner = rows[i].owner
          /\ rows'[i].state = rows[i].state
          /\ rows'[i].extended = rows[i].extended
          /\ rows'[i].left = Aged(rows[i]).left
          /\ rows'[i].seen \in {0, Aged(rows[i]).seen}
  <2>1. TAKE i \in Ids
  <2>2. rows[i] \in RowType
    BY <1>2
  <2>3. rows'[i] \in {Aged(rows[i]), [Aged(rows[i]) EXCEPT !.seen = 0]}
    BY <1>7, <1>9
  <2>. QED  BY <2>2, <2>3, AgedRow
<1>11. rows' \in [Ids -> RowType]
  BY <1>9, <1>10
<1>12. \A i \in Ids : \/ past'.lost \/ ~Active \/ ~Held(i)
                      \/ ~(Aged(rows[i]).left > 0) \/ rows[i].owner # OwnerOf(jar)
                      \/ rows'[i].seen = 0
  <2>1. SUFFICES ASSUME NEW i \in Ids, ~past'.lost, Active, Held(i),
                        Aged(rows[i]).left > 0, rows[i].owner = OwnerOf(jar)
                 PROVE  rows'[i].seen = 0
    OBVIOUS
  <2>2. rows' = TouchHolds(aged)
    BY <1>5, <1>6, <2>1
  <2>3. rows[i] \in RowType
    BY <1>2
  <2>4. aged[i].state = "held" /\ aged[i].left > 0 /\ aged[i].owner = OwnerOf(jar)
    BY <1>7, <2>1, <2>3, AgedRow DEF Held
  <2>5. rows'[i] = [Aged(rows[i]) EXCEPT !.seen = 0]
    BY <1>7, <1>9, <2>2, <2>4
  <2>. QED  BY <2>3, <2>5, AgedRow
<1>. QED  BY <1>1, <1>3, <1>5, <1>6, <1>8, <1>10, <1>11, <1>12

\* A unit of time keeps the types.
LEMMA TickTypes ==
    ASSUME StateOK, Tick
    PROVE  StateOK'
<1>1. /\ tx = None /\ extends = {} /\ CallsKept
      /\ UNCHANGED <<bounds, tx, extends, reclaim, jar, page, sel, cart, attempt>>
      /\ shown' = Before(shown) /\ lapsed' = (lapsed \/ shown = 1)
      /\ rows' \in [Ids -> RowType]
      /\ \A i \in Ids : /\ rows'[i].cabin = rows[i].cabin
                        /\ rows'[i].owner = rows[i].owner
                        /\ rows'[i].state = rows[i].state
      /\ past' \in PastType
  BY TickFacts
<1>2. shown' \in Nat /\ lapsed' \in BOOLEAN
  <2>1. shown \in Nat /\ lapsed \in BOOLEAN
    BY DEF StateOK, TypeOK
  <2>2. Before(shown) \in Nat
    BY <2>1 DEF Before
  <2>3. (lapsed \/ shown = 1) \in BOOLEAN
    BY <2>1
  <2>. QED  BY <1>1, <2>2, <2>3
<1>3. TypeOK'
  BY <1>1, <1>2 DEF StateOK, TypeOK, CallsKept, RowType
<1>4. SignedIn' /\ WritesGiveTime' /\ HoldsHaveCabins' /\ TxForCaller'
  BY <1>1 DEF StateOK, SignedIn, WritesGiveTime, HoldsHaveCabins, CallsKept,
     HeldBy, Held, TxForCaller
<1>5. KnownAreOwn'
  BY <1>1 DEF StateOK, TypeOK, KnownAreOwn, Known, Ids
<1>. QED  BY <1>1, <1>3, <1>4, <1>5 DEF StateOK

-----------------------------------------------------------------------------
(* Every step is quiet or one of eight, and keeps the types.               *)

\* The kinds of steps.
LEMMA StepCases ==
    ASSUME StateOK, [Next]_vars
    PROVE  \/ QuietStep
           \/ \E i \in FreeIds, kept \in BOOLEAN : Granted(i, kept)
           \/ \E m \in net : HoldRead(m) \/ ExtendRead(m) \/ RestoreHolds(m)
           \/ \E e \in extends : ExtendWrite(e)
           \/ \E c \in Cabins : RivalHolds(c)
           \/ Login \/ Tick
<1>1. CASE UNCHANGED vars
  BY <1>1, Kept DEF QuietStep, vars, server, pageVars
<1>2. CASE PageStep
  BY <1>2, BoatQuiet, LeavingQuiet, CallsQuiet DEF PageStep
<1>3. CASE SweepRead \/ SweepWrite
  BY <1>3, SweepQuiet
<1>4. CASE Commit
  BY <1>4, HoldWriteCases DEF Commit
<1>5. CASE \E m \in net : Handle(m)
  BY <1>5, ServedQuiet DEF Handle
<1>. QED  BY <1>1, <1>2, <1>3, <1>4, <1>5 DEF Next

\* The first state.
LEMMA InitOK ==
    ASSUME Init
    PROVE  StateOK /\ OneInv /\ CapInv /\ HonestInv
<1>1. /\ rows = [i \in Ids |-> Unused] /\ Unused \in RowType
      /\ \A i \in Ids : rows[i].state = "unused" /\ ~Held(i)
  <2>1. Never \in 0 .. Never
    BY CartAssumption DEF Never
  <2>2. Unused \in RowType /\ Unused.state = "unused"
    BY <2>1 DEF Unused, RowType
  <2>3. rows = [i \in Ids |-> Unused]
    BY DEF Init
  <2>. QED  BY <2>2, <2>3 DEF Held
<1>2. NoIds \in [Cabins -> 0 .. MaxHolds] /\ \A c \in Cabins : NoIds[c] = 0
  BY CartAssumption DEF NoIds
<1>3. Idle \in [step: {"none", "holding", "booking"},
                ids: [Cabins -> 0 .. MaxHolds]]
  BY <1>2 DEF Idle
<1>4. bounds \in Scenarios /\ bounds.signedIn \in BOOLEAN /\ Cap \in Nat \ {0}
  BY CartAssumption DEF Init, ScenarioType, Cap
<1>5. jar \in JarType
  BY <1>4 DEF Init, JarType
<1>6. TypeOK
  <2>1. rows \in [Ids -> RowType]
    BY <1>1
  <2>2. /\ tx = None /\ extends = {} /\ reclaim = {} /\ net = {}
        /\ page = "boat" /\ sel = {} /\ cart = NoIds /\ shown = 0
        /\ lapsed = FALSE /\ attempt = Idle
    BY DEF Init
  <2>. QED  BY <1>2, <1>3, <1>4, <1>5, <2>1, <2>2 DEF TypeOK, RowType, JarType
<1>7. past \in PastType
  BY DEF Init, PastType
<1>8. \A o : HeldBy(o) = {} /\ LiveOf(o) = {}
  BY <1>1 DEF HeldBy, LiveOf
<1>9. /\ HoldsHaveCabins /\ SignedIn /\ WritesGiveTime /\ KnownAreOwn
      /\ TxForCaller
  BY <1>1, <1>2, <1>8 DEF Init, HoldsHaveCabins, SignedIn, WritesGiveTime,
     KnownAreOwn, Known, TxForCaller
<1>10. OneInv
  BY <1>8 DEF Init, OneInv, OneCountdown, TxReadsLatest
<1>11. CapInv
  <2>1. Cardinality({}) = 0
    BY FS_EmptySet
  <2>2. \A o : Cardinality(LiveOf(o) \ past.dead) = 0
    <3>1. \A o : LiveOf(o) \ past.dead = {}
      BY <1>8
    <3>. QED  BY <2>1, <3>1
  <2>3. CapRespected
    BY <1>4, <2>2 DEF CapRespected
  <2>. QED  BY <1>1, <2>3 DEF Init, CapInv, RanOut, RoomForHold
<1>12. HonestInv
  BY <1>1 DEF Init, HonestInv, AllClaimed, ExtendsFit, OverdueAreLate,
     CountdownIsHonest, TokensFit, Live
<1>. QED  BY <1>6, <1>7, <1>9, <1>10, <1>11, <1>12 DEF StateOK

\* The types are inductive.
LEMMA TypesStep ==
    ASSUME StateOK, [Next]_vars
    PROVE  StateOK'
BY StepCases, QuietTypes, GrantedTypes, HoldReadTypes, ExtendReadTypes,
   RestoreTypes, ExtendWriteTypes, RivalTypes, LoginTypes, TickTypes

(* Types hold in every state, and no time left is negative: TypeOK of the  *)
(* carts run, for any number of cabins, rows and steps.                    *)
THEOREM CartTypes == Spec => []TypeOK
<1>1. Init => StateOK
  BY InitOK
<1>2. StateOK /\ [Next]_vars => StateOK'
  BY TypesStep
<1>3. StateOK => TypeOK
  BY DEF StateOK
<1>. QED  BY <1>1, <1>2, <1>3, PTL DEF Spec

-----------------------------------------------------------------------------
(* One countdown: the rows of an owner run out together.                   *)

\* Rows of a guest after a hold: those of its cart run out with it, the
\* others as before.
LEMMA OneGranted ==
    ASSUME StateOK, OneInv, NEW i \in FreeIds, NEW kept \in BOOLEAN,
           Granted(i, kept)
    PROVE  OneInv'
<1>1. /\ tx # None /\ tx' = None /\ i \in Ids /\ past'.raced = past.raced
      /\ rows'[i].owner \in {tx.owner, "rival"} /\ rows'[i].left = tx.left
      /\ \A j \in Ids : j # i =>
            /\ rows'[j].owner = rows[j].owner /\ rows'[j].state = rows[j].state
            /\ rows'[j].left = IF j \in HeldBy(tx.owner) /\ rows[j].left < tx.left
                               THEN tx.left ELSE rows[j].left
  <2>1. past'.raced = past.raced
    BY GrantedFacts
  <2>. QED  BY <2>1, GrantedRows
<1>2. SUFFICES ASSUME ~past.raced, NEW o \in Owners,
                      NEW j \in LiveOf(o)', NEW k \in LiveOf(o)'
               PROVE  rows'[j].left = rows'[k].left
  BY <1>1 DEF OneInv, OneCountdown, TxReadsLatest
<1>3. /\ \A l \in HeldBy(tx.owner) : rows[l].left <= tx.left
      /\ tx.left \in Nat /\ \A l \in Ids : rows[l].left \in Nat
  BY <1>1, <1>2 DEF OneInv, TxReadsLatest, StateOK, TypeOK
<1>4. CASE o = tx.owner
  <2>1. ASSUME NEW l \in LiveOf(o)'  PROVE rows'[l].left = tx.left
    <3>1. CASE l = i
      BY <1>1, <3>1
    <3>2. CASE l # i
      <4>1. l \in HeldBy(tx.owner) /\ l \in Ids
        BY <1>1, <1>4, <2>1, <3>2 DEF LiveOf, HeldBy, Held
      <4>2. rows[l].left <= tx.left /\ rows[l].left \in Nat
        BY <1>3, <4>1
      <4>. QED  BY <1>1, <1>3, <3>2, <4>1, <4>2
    <3>. QED  BY <3>1, <3>2
  <2>. QED  BY <2>1
<1>5. CASE o # tx.owner
  <2>1. ASSUME NEW l \in LiveOf(o)'
        PROVE  l \in LiveOf(o) /\ rows'[l].left = rows[l].left
    <3>1. l \in Ids /\ l # i
      BY <1>1, <1>5, <2>1, Owned DEF LiveOf, HeldBy
    <3>. QED  BY <1>1, <1>5, <2>1, <3>1 DEF LiveOf, HeldBy, Live, Held
  <2>. QED  BY <1>2, <2>1 DEF OneInv, OneCountdown
<1>. QED  BY <1>4, <1>5

\* A hold that reads its cart reads its latest deadline.
LEMMA OneHoldRead ==
    ASSUME StateOK, OneInv, NEW m \in net, HoldRead(m)
    PROVE  OneInv'
<1>1. CASE QuietStep
  BY <1>1, QuietOne
<1>2. CASE ~QuietStep
  <2>1. /\ tx'.left = CartDeadline(tx'.owner)
        /\ UNCHANGED <<rows, past>>
    BY <1>2, HoldReadCases
  <2>2. PICK o : o = tx'.owner
    OBVIOUS
  <2>3. \A i \in HeldBy(o) : rows[i].left <= CartDeadline(o)
    BY DeadlineOf DEF StateOK
  <2>4. TxReadsLatest'
    BY <2>1, <2>2, <2>3 DEF TxReadsLatest, HeldBy, Held
  <2>. QED  BY <2>1, <2>4 DEF OneInv, OneCountdown, LiveOf, HeldBy, Live, Held
<1>. QED  BY <1>1, <1>2

\* An extension gives its whole cart one deadline; the hold it did so under
\* is a race.
LEMMA OneExtendWrite ==
    ASSUME StateOK, OneInv, NEW e \in extends, ExtendWrite(e)
    PROVE  OneInv'
<1>1. /\ tx' = tx /\ past'.raced = (past.raced \/ (tx # None /\ tx.owner = e.owner))
      /\ \A j \in Ids :
            /\ rows'[j].owner = rows[j].owner /\ rows'[j].state = rows[j].state
            /\ j \in HeldBy(e.owner) => rows'[j].left = e.left
            /\ j \notin HeldBy(e.owner) => rows'[j] = rows[j]
  BY ExtendRows
<1>2. \A o : HeldBy(o)' = HeldBy(o)
  BY <1>1 DEF HeldBy, Held
<1>3. OneCountdown'
  <2>1. SUFFICES ASSUME ~past'.raced, NEW o \in Owners,
                        NEW j \in LiveOf(o)', NEW k \in LiveOf(o)'
                 PROVE  rows'[j].left = rows'[k].left
    BY DEF OneCountdown
  <2>2. j \in HeldBy(o) /\ k \in HeldBy(o) /\ j \in Ids /\ k \in Ids
    BY <1>2, <2>1 DEF LiveOf, HeldBy
  <2>3. CASE o = e.owner
    BY <1>1, <2>2, <2>3
  <2>4. CASE o # e.owner
    <3>1. rows'[j] = rows[j] /\ rows'[k] = rows[k]
      BY <1>1, <2>2, <2>4 DEF HeldBy
    <3>2. j \in LiveOf(o) /\ k \in LiveOf(o)
      BY <2>1, <2>2, <3>1 DEF LiveOf, HeldBy, Live, Held
    <3>3. ~past.raced
      BY <1>1, <2>1
    <3>. QED  BY <3>1, <3>2, <3>3 DEF OneInv, OneCountdown
  <2>. QED  BY <2>3, <2>4
<1>4. TxReadsLatest'
  <2>1. SUFFICES ASSUME tx # None, ~past'.raced, NEW i \in HeldBy(tx.owner)
                 PROVE  rows'[i].left <= tx.left
    BY <1>1, <1>2 DEF TxReadsLatest
  <2>2. i \in Ids /\ i \notin HeldBy(e.owner)
    BY <1>1, <2>1 DEF HeldBy
  <2>. QED  BY <1>1, <2>1, <2>2 DEF OneInv, TxReadsLatest
<1>. QED  BY <1>3, <1>4 DEF OneInv

\* A rival's row is no row of a cart.
LEMMA RivalLeaves ==
    ASSUME StateOK, NEW c \in Cabins, RivalHolds(c)
    PROVE  \A o \in Owners :
              /\ HeldBy(o)' = HeldBy(o) /\ LiveOf(o)' = LiveOf(o)
              /\ \A j \in HeldBy(o) : rows'[j] = rows[j]
<1>1. PICK i \in FreeIds : /\ rows'[i].owner = "rival"
                           /\ \A j \in Ids : j # i => rows'[j] = rows[j]
  BY RivalRows
<1>2. rows[i].state = "unused" /\ "rival" \notin Owners
  BY Owned
<1>. QED  BY <1>1, <1>2 DEF HeldBy, LiveOf, Live, Held

\* A rival's hold, which parts no cart.
LEMMA OneRival ==
    ASSUME StateOK, OneInv, NEW c \in Cabins, RivalHolds(c)
    PROVE  OneInv'
<1>1. UNCHANGED <<tx, past>> /\ tx = None
  BY DEF RivalHolds
<1>2. OneCountdown'
  BY <1>1, RivalLeaves DEF OneInv, OneCountdown, LiveOf
<1>. QED  BY <1>1, <1>2 DEF OneInv, TxReadsLatest

\* Who owns what after a sign-in: the account has what one token had, if
\* that, and no token has more than before.
LEMMA LoginMoves ==
    ASSUME StateOK, Login
    PROVE  /\ \A o \in Tokens : HeldBy(o)' \subseteq HeldBy(o)
                                /\ LiveOf(o)' \subseteq LiveOf(o)
           /\ \/ LiveOf("account")' = {}
              \/ \E t \in Tokens : LiveOf("account")' = LiveOf(t)
<1>0. /\ ~jar.account /\ jar.token \in Tokens \cup {None}
      /\ "account" \notin Tokens /\ LiveOf(None) = {}
      /\ HeldBy("account") = {}
  BY LoginFacts, Owned, CartAssumption DEF StateOK, TypeOK, SignedIn
<1>1. CASE rows' = rows
  <2>1. \A o : HeldBy(o)' = HeldBy(o) /\ LiveOf(o)' = LiveOf(o)
    BY <1>1 DEF HeldBy, LiveOf, Live, Held
  <2>2. LiveOf("account") = {}
    BY <1>0 DEF LiveOf
  <2>. QED  BY <2>1, <2>2
<1>2. CASE rows' # rows
  <2>1. \A i \in Ids :
           /\ rows'[i].state = rows[i].state /\ rows'[i].left = rows[i].left
           /\ rows'[i].owner = IF i \in LiveOf(jar.token) THEN "account"
                               ELSE rows[i].owner
    BY <1>2, LoginFacts
  <2>3. \A i \in Ids : Held(i)' = Held(i) /\ Live(i)' = Live(i)
    BY <2>1 DEF Held, Live
  <2>4. LiveOf("account")' = LiveOf(jar.token)
    BY <1>0, <2>1, <2>3 DEF HeldBy, LiveOf
  <2>5. \A o \in Tokens : HeldBy(o)' \subseteq HeldBy(o)
                          /\ LiveOf(o)' \subseteq LiveOf(o)
    BY <1>0, <2>1, <2>3 DEF HeldBy, LiveOf
  <2>. QED  BY <1>0, <2>4, <2>5
<1>. QED  BY <1>1, <1>2

\* A sign-in moves a whole cart.
LEMMA OneLogin ==
    ASSUME StateOK, OneInv, Login
    PROVE  OneInv'
<1>1. /\ tx' = tx /\ past'.raced = past.raced /\ ~jar.account
      /\ \A i \in Ids : rows'[i].left = rows[i].left
  BY LoginFacts
<1>2. tx # None => tx.owner \in Tokens
  BY <1>1 DEF StateOK, SignedIn, TypeOK, Owners
<1>3. \A o : HeldBy(o) \subseteq Ids /\ LiveOf(o) \subseteq Ids
  BY DEF HeldBy, LiveOf
<1>4. OneCountdown'
  <2>1. SUFFICES ASSUME ~past.raced, NEW o \in Owners,
                        NEW j \in LiveOf(o)', NEW k \in LiveOf(o)'
                 PROVE  rows'[j].left = rows'[k].left
    BY <1>1 DEF OneCountdown
  <2>2. PICK t \in Owners : j \in LiveOf(t) /\ k \in LiveOf(t)
    BY <2>1, LoginMoves DEF Owners
  <2>3. rows[j].left = rows[k].left
    BY <2>1, <2>2 DEF OneInv, OneCountdown
  <2>. QED  BY <1>1, <1>3, <2>2, <2>3
<1>5. \A o \in Tokens : HeldBy(o)' \subseteq HeldBy(o)
  BY LoginMoves
<1>6. TxReadsLatest'
  BY <1>1, <1>2, <1>3, <1>5 DEF OneInv, TxReadsLatest
<1>. QED  BY <1>4, <1>6 DEF OneInv

\* The rows of an owner age together.
LEMMA OneTick ==
    ASSUME StateOK, OneInv, Tick
    PROVE  OneInv'
<1>1. /\ tx' = None /\ past'.raced = past.raced
      /\ \A i \in Ids : /\ rows'[i].owner = rows[i].owner
                        /\ rows'[i].state = rows[i].state
                        /\ rows'[i].left = Aged(rows[i]).left
                        /\ rows[i] \in RowType
  BY TickFacts, Owned
<1>2. \A i \in Ids : Held(i) => rows'[i].left = Before(rows[i].left)
  BY <1>1, AgedRow DEF Held
<1>3. \A i \in Ids : rows[i].left \in Nat
  BY <1>1 DEF RowType
<1>4. \A o : \A i \in LiveOf(o)' : i \in LiveOf(o) /\ Held(i) /\ i \in Ids
  BY <1>1, <1>2, <1>3 DEF LiveOf, HeldBy, Live, Held, Before
<1>5. OneCountdown'
  BY <1>1, <1>2, <1>4 DEF OneInv, OneCountdown
<1>. QED  BY <1>1, <1>5 DEF OneInv, TxReadsLatest

\* Every step keeps the one countdown of a cart.
LEMMA OneStep ==
    ASSUME StateOK, OneInv, [Next]_vars
    PROVE  OneInv'
<1>1. ASSUME NEW m \in net, ExtendRead(m) \/ RestoreHolds(m)  PROVE OneInv'
  <2>1. CASE QuietStep
    BY <2>1, QuietOne
  <2>2. CASE ~QuietStep
    <3>1. UNCHANGED <<rows, tx, past>>
      BY <1>1, <2>2, ExtendReadCases, RestoreFacts DEF server
    <3>. QED  BY <3>1 DEF OneInv, OneCountdown, TxReadsLatest, LiveOf, HeldBy,
              Live, Held
  <2>. QED  BY <2>1, <2>2
<1>. QED  BY <1>1, StepCases, QuietOne, OneGranted, OneHoldRead, OneExtendWrite,
          OneRival, OneLogin, OneTick

(* The holds of one owner run out together: OneCountdown of the carts run, *)
(* for any number of cabins, rows, calls and sign-ins.                     *)
THEOREM OneCountdownPerCart == Spec => []OneCountdown
<1>1. Init => StateOK /\ OneInv
  BY InitOK
<1>2. StateOK /\ OneInv /\ [Next]_vars => StateOK' /\ OneInv'
  BY TypesStep, OneStep
<1>3. OneInv => OneCountdown
  BY DEF OneInv
<1>. QED  BY <1>1, <1>2, <1>3, PTL DEF Spec

-----------------------------------------------------------------------------
(* The cap: live rows that never ran out, counted per owner.               *)

\* What the cap counts only shrinks.
LEMMA CapShrinks ==
    ASSUME StateOK, CapInv, bounds' = bounds, tx' = None \/ tx' = tx,
           \A o \in Owners : LiveOf(o)' \ past'.dead \subseteq LiveOf(o) \ past.dead
    PROVE  RoomForHold' /\ CapRespected'
<1>1. Cap' = Cap /\ Cap \in Nat
  BY CartAssumption DEF Cap, StateOK, TypeOK, ScenarioType
<1>2. \A o \in Owners : LiveOf(o) \ past.dead \in SUBSET Ids
  BY DEF LiveOf, HeldBy
<1>3. \A o \in Owners :
         /\ Cardinality(LiveOf(o)' \ past'.dead)
                <= Cardinality(LiveOf(o) \ past.dead)
         /\ Cardinality(LiveOf(o)' \ past'.dead) \in Nat
         /\ Cardinality(LiveOf(o) \ past.dead) \in Nat
  BY <1>2, FewerLive
<1>4. RoomForHold'
  <2>1. SUFFICES ASSUME tx' # None
                 PROVE  RoomForHold'
    BY DEF RoomForHold
  <2>2. PICK o \in Owners : o = tx.owner /\ o = tx'.owner /\ tx # None
    BY <2>1 DEF StateOK, TypeOK
  <2>3. Cardinality(LiveOf(o) \ past.dead) < Cap
    BY <2>2 DEF CapInv, RoomForHold
  <2>5. /\ Cardinality(LiveOf(o)' \ past'.dead)
               <= Cardinality(LiveOf(o) \ past.dead)
        /\ Cardinality(LiveOf(o)' \ past'.dead) \in Nat
        /\ Cardinality(LiveOf(o) \ past.dead) \in Nat
    BY <1>3
  <2>4. Cardinality(LiveOf(o)' \ past'.dead) < Cap'
    BY <1>1, <2>3, <2>5
  <2>. QED  BY <2>2, <2>4 DEF RoomForHold, LiveOf, HeldBy, Live, Held
<1>5. CapRespected'
  <2>1. SUFFICES ASSUME NEW o \in Owners
                 PROVE  Cardinality(LiveOf(o)' \ past'.dead) <= Cap'
    BY DEF CapRespected
  <2>2. Cardinality(LiveOf(o) \ past.dead) <= Cap
    BY DEF CapInv, CapRespected
  <2>3. /\ Cardinality(LiveOf(o)' \ past'.dead)
               <= Cardinality(LiveOf(o) \ past.dead)
        /\ Cardinality(LiveOf(o)' \ past'.dead) \in Nat
        /\ Cardinality(LiveOf(o) \ past.dead) \in Nat
    BY <1>3
  <2>. QED  BY <1>1, <2>2, <2>3
<1>. QED  BY <1>4, <1>5

\* A granted hold adds the one row there was room for.
LEMMA CapGranted ==
    ASSUME StateOK, CapInv, NEW i \in FreeIds, NEW kept \in BOOLEAN,
           Granted(i, kept)
    PROVE  CapInv'
<1>1. /\ tx # None /\ tx' = None /\ i \in Ids /\ tx \in WriteType
      /\ rows'[i].owner \in {tx.owner, "rival"} /\ rows'[i].left = tx.left
      /\ \A j \in Ids : j # i =>
            /\ rows'[j].owner = rows[j].owner /\ rows'[j].state = rows[j].state
            /\ rows'[j].left = IF j \in HeldBy(tx.owner) /\ rows[j].left < tx.left
                               THEN tx.left ELSE rows[j].left
  BY GrantedRows
<1>2. past'.dead = past.dead /\ bounds' = bounds /\ Cap' = Cap /\ Cap \in Nat
  BY GrantedFacts, CartAssumption
     DEF Granted, Cap, StateOK, TypeOK, ScenarioType
<1>3. tx.left \in Nat /\ tx.left > 0 /\ \A j \in Ids : rows[j].left \in Nat
  BY <1>1 DEF StateOK, TypeOK, WritesGiveTime
<1>4. RanOut'
  <2>1. SUFFICES ASSUME NEW j \in Ids, Held(j)', rows'[j].left = 0
                 PROVE  j \in past.dead
    BY <1>2 DEF RanOut
  <2>2. j # i /\ Held(j) /\ rows[j].left = 0
    BY <1>1, <1>3, <2>1 DEF Held
  <2>. QED  BY <2>2 DEF CapInv, RanOut
<1>5. \A o \in Owners : LiveOf(o)' \ past.dead
                \subseteq (LiveOf(o) \ past.dead) \cup (IF o = tx.owner THEN {i} ELSE {})
  <2>1. SUFFICES ASSUME NEW o \in Owners, NEW j \in LiveOf(o)', j \notin past.dead,
                        ~(o = tx.owner /\ j = i)
                 PROVE  j \in LiveOf(o)
    OBVIOUS
  <2>2. j \in Ids /\ j # i /\ rows'[j].owner = o /\ Held(j)'
    BY <1>1, <2>1, Owned DEF LiveOf, HeldBy
  <2>3. j \in HeldBy(o) /\ Held(j)
    BY <1>1, <2>2 DEF HeldBy, Held
  <2>4. rows[j].left > 0
    BY <1>3, <2>1, <2>2, <2>3 DEF CapInv, RanOut
  <2>. QED  BY <2>3, <2>4 DEF LiveOf, Live
<1>6. CapRespected'
  <2>1. SUFFICES ASSUME NEW o \in Owners
                 PROVE  Cardinality(LiveOf(o)' \ past.dead) <= Cap
    BY <1>2 DEF CapRespected
  <2>2. PICK S \in SUBSET Ids : S = LiveOf(o) \ past.dead
    BY DEF LiveOf, HeldBy
  <2>3. IsFiniteSet(S) /\ Cardinality(S) \in Nat /\ Cardinality(S) <= Cap
    BY <2>2, FewerLive DEF CapInv, CapRespected
  <2>4. CASE o # tx.owner
    <3>1. LiveOf(o)' \ past.dead \in SUBSET S
      BY <1>5, <2>2, <2>4
    <3>. QED  BY <1>2, <2>3, <3>1, FewerLive
  <2>5. CASE o = tx.owner
    <3>1. Cardinality(S) < Cap
      BY <1>1, <2>2, <2>5 DEF CapInv, RoomForHold
    <3>2. LiveOf(o)' \ past.dead \in SUBSET (S \cup {i}) /\ S \cup {i} \in SUBSET Ids
      BY <1>1, <1>5, <2>2, <2>5
    <3>3. Cardinality(S \cup {i}) <= Cardinality(S) + 1
      BY <2>3, OneMore
    <3>4. /\ Cardinality(LiveOf(o)' \ past.dead) <= Cardinality(S \cup {i})
          /\ Cardinality(LiveOf(o)' \ past.dead) \in Nat
          /\ Cardinality(S \cup {i}) \in Nat
      BY <3>2, FewerLive
    <3>. QED  BY <1>2, <2>3, <3>1, <3>3, <3>4
  <2>. QED  BY <2>4, <2>5
<1>. QED  BY <1>1, <1>4, <1>6 DEF CapInv, RoomForHold

\* A hold that read its cart found room.
LEMMA CapHoldRead ==
    ASSUME StateOK, CapInv, NEW m \in net, HoldRead(m)
    PROVE  CapInv'
<1>1. CASE QuietStep
  BY <1>1, QuietCap
<1>2. CASE ~QuietStep
  <2>1. /\ tx' \in WriteType /\ Cardinality(LiveOf(tx'.owner)) < Cap
        /\ UNCHANGED <<bounds, rows, past>>
    BY <1>2, HoldReadCases
  <2>2. PICK o : o = tx'.owner
    OBVIOUS
  <2>3. LiveOf(o) \in SUBSET Ids /\ LiveOf(o) \ past.dead \in SUBSET LiveOf(o)
    BY DEF LiveOf, HeldBy
  <2>4. /\ Cardinality(LiveOf(o) \ past.dead) <= Cardinality(LiveOf(o))
        /\ Cardinality(LiveOf(o)) \in Nat
        /\ Cardinality(LiveOf(o) \ past.dead) \in Nat
    BY <2>3, FewerLive
  <2>5. Cap \in Nat /\ Cap' = Cap
    BY <2>1, CartAssumption DEF Cap, StateOK, TypeOK, ScenarioType
  <2>6. Cardinality(LiveOf(o) \ past.dead) < Cap
    BY <2>1, <2>2, <2>4, <2>5
  <2>7. RoomForHold'
    BY <2>1, <2>2, <2>5, <2>6 DEF RoomForHold, LiveOf, HeldBy, Live, Held
  <2>8. RanOut' /\ CapRespected'
    BY <2>1, <2>5 DEF CapInv, RanOut, CapRespected, LiveOf, HeldBy, Live, Held
  <2>. QED  BY <2>7, <2>8 DEF CapInv
<1>. QED  BY <1>1, <1>2

\* An extension makes live again only what ran out.
LEMMA CapExtendWrite ==
    ASSUME StateOK, CapInv, NEW e \in extends, ExtendWrite(e)
    PROVE  CapInv'
<1>1. /\ tx' = tx /\ bounds' = bounds /\ past'.dead = past.dead
      /\ e \in WriteType
      /\ \A j \in Ids :
            /\ rows'[j].owner = rows[j].owner /\ rows'[j].state = rows[j].state
            /\ j \in HeldBy(e.owner) => rows'[j].left = e.left
            /\ j \notin HeldBy(e.owner) => rows'[j] = rows[j]
  BY ExtendRows
<1>2. e.left > 0 /\ e.left \in Nat /\ \A j \in Ids : rows[j].left \in Nat
  BY DEF StateOK, TypeOK, WritesGiveTime
<1>3. RanOut'
  BY <1>1, <1>2 DEF CapInv, RanOut, Held
<1>4. \A o \in Owners : LiveOf(o)' \ past'.dead \subseteq LiveOf(o) \ past.dead
  <2>1. SUFFICES ASSUME NEW o \in Owners, NEW j \in LiveOf(o)', j \notin past.dead
                 PROVE  j \in LiveOf(o)
    BY <1>1
  <2>2. j \in HeldBy(o) /\ Held(j) /\ j \in Ids
    BY <1>1, <2>1 DEF LiveOf, HeldBy, Held
  <2>3. rows[j].left > 0
    BY <1>2, <2>1, <2>2 DEF CapInv, RanOut
  <2>. QED  BY <2>2, <2>3 DEF LiveOf, Live
<1>. QED  BY <1>1, <1>3, <1>4, CapShrinks DEF CapInv

\* A rival's row counts for no cart.
LEMMA CapRival ==
    ASSUME StateOK, CapInv, NEW c \in Cabins, RivalHolds(c)
    PROVE  CapInv'
<1>1. UNCHANGED <<bounds, tx, past>>
  BY DEF RivalHolds
<1>2. PICK i \in FreeIds : /\ rows'[i].left = TTL
                           /\ \A j \in Ids : j # i => rows'[j] = rows[j]
  BY RivalRows
<1>3. RanOut'
  BY <1>1, <1>2, CartAssumption DEF CapInv, RanOut, Held
<1>4. \A o \in Owners : LiveOf(o)' \ past'.dead \subseteq LiveOf(o) \ past.dead
  BY <1>1, RivalLeaves
<1>. QED  BY <1>1, <1>3, <1>4, CapShrinks DEF CapInv

\* A sign-in moves the token's cart to an account that has none.
LEMMA CapLogin ==
    ASSUME StateOK, CapInv, Login
    PROVE  CapInv'
<1>1. /\ bounds' = bounds /\ tx' = tx /\ past'.dead = past.dead /\ ~jar.account
      /\ \A i \in Ids : rows'[i].left = rows[i].left /\ rows'[i].state = rows[i].state
  BY LoginFacts
<1>2. RanOut'
  BY <1>1 DEF CapInv, RanOut, Held
<1>3. Cap' = Cap /\ Cap \in Nat
  BY <1>1, CartAssumption DEF Cap, StateOK, TypeOK, ScenarioType
<1>4. {} \ past.dead = {} /\ Cardinality({}) = 0
  BY FS_EmptySet
<1>5. ASSUME NEW o \in Tokens
      PROVE  /\ Cardinality(LiveOf(o)' \ past'.dead)
                    <= Cardinality(LiveOf(o) \ past.dead)
             /\ Cardinality(LiveOf(o)' \ past'.dead) \in Nat
             /\ Cardinality(LiveOf(o) \ past.dead) \in Nat
             /\ Cardinality(LiveOf(o) \ past.dead) <= Cap
             /\ Cardinality(LiveOf(o)' \ past'.dead) <= Cap
  <2>1. /\ LiveOf(o) \ past.dead \in SUBSET Ids
        /\ LiveOf(o)' \ past'.dead \in SUBSET (LiveOf(o) \ past.dead)
    BY <1>1, LoginMoves DEF LiveOf, HeldBy
  <2>2. Cardinality(LiveOf(o) \ past.dead) <= Cap
    BY DEF CapInv, CapRespected, Owners
  <2>3. /\ Cardinality(LiveOf(o)' \ past'.dead)
               <= Cardinality(LiveOf(o) \ past.dead)
        /\ Cardinality(LiveOf(o)' \ past'.dead) \in Nat
        /\ Cardinality(LiveOf(o) \ past.dead) \in Nat
    BY <2>1, FewerLive
  <2>. QED  BY <1>3, <2>2, <2>3
<1>6. CapRespected'
  <2>1. SUFFICES ASSUME NEW o \in Owners
                 PROVE  Cardinality(LiveOf(o)' \ past'.dead) <= Cap
    BY <1>3 DEF CapRespected
  <2>2. CASE o \in Tokens
    BY <1>5, <2>2
  <2>3. CASE o = "account"
    <3>1. CASE LiveOf(o)' = {}
      BY <1>1, <1>3, <1>4, <3>1
    <3>2. CASE \E t \in Tokens : LiveOf(o)' = LiveOf(t)
      BY <1>1, <1>5, <3>2
    <3>. QED  BY <2>3, <3>1, <3>2, LoginMoves
  <2>. QED  BY <2>2, <2>3 DEF Owners
<1>7. RoomForHold'
  <2>1. SUFFICES ASSUME tx # None
                 PROVE  Cardinality(LiveOf(tx.owner)' \ past'.dead) < Cap
    BY <1>1, <1>3 DEF RoomForHold, LiveOf, HeldBy, Live, Held
  <2>2. PICK o \in Tokens : o = tx.owner /\ o = tx'.owner
    BY <1>1, <2>1 DEF StateOK, SignedIn, TypeOK, Owners
  <2>3. Cardinality(LiveOf(o) \ past.dead) < Cap
    BY <2>1, <2>2 DEF CapInv, RoomForHold
  <2>4. Cardinality(LiveOf(o)' \ past'.dead) < Cap
    BY <1>3, <1>5, <2>3
  <2>. QED  BY <2>2, <2>4 DEF LiveOf, HeldBy, Live, Held
<1>. QED  BY <1>2, <1>6, <1>7 DEF CapInv

\* What runs out is remembered.
LEMMA CapTick ==
    ASSUME StateOK, CapInv, Tick
    PROVE  CapInv'
<1>1. /\ bounds' = bounds /\ tx' = None
      /\ \A i \in Ids : /\ rows'[i].owner = rows[i].owner
                        /\ rows'[i].state = rows[i].state
                        /\ rows'[i].left = Aged(rows[i]).left
                        /\ rows[i] \in RowType
      /\ past'.dead = past.dead \cup
            {i \in Ids : Held(i) /\ Aged(rows[i]).left = 0}
  BY TickFacts, Owned
<1>2. \A i \in Ids : /\ rows[i].left \in Nat
                     /\ Held(i) => rows'[i].left = Before(rows[i].left)
  <2>1. \A i \in Ids : Held(i) => rows'[i].left = Before(rows[i].left)
    BY <1>1, AgedRow DEF Held
  <2>. QED  BY <1>1, <2>1 DEF RowType
<1>3. RanOut'
  BY <1>1 DEF RanOut, Held
<1>4. \A o \in Owners : LiveOf(o)' \ past'.dead \subseteq LiveOf(o) \ past.dead
  <2>1. \A o \in Owners : LiveOf(o)' \subseteq LiveOf(o)
    BY <1>1, <1>2 DEF LiveOf, HeldBy, Live, Held, Before
  <2>2. past.dead \subseteq past'.dead
    BY <1>1
  <2>. QED  BY <2>1, <2>2
<1>. QED  BY <1>1, <1>3, <1>4, CapShrinks DEF CapInv

\* Every step keeps the cap.
LEMMA CapStep ==
    ASSUME StateOK, CapInv, [Next]_vars
    PROVE  CapInv'
<1>1. ASSUME NEW m \in net, ExtendRead(m) \/ RestoreHolds(m)  PROVE CapInv'
  <2>1. CASE QuietStep
    BY <2>1, QuietCap
  <2>2. CASE ~QuietStep
    <3>1. UNCHANGED <<bounds, rows, tx, past>>
      BY <1>1, <2>2, ExtendReadCases, RestoreFacts DEF server
    <3>. QED  BY <3>1 DEF CapInv, RanOut, RoomForHold, CapRespected, Cap,
              LiveOf, HeldBy, Live, Held
  <2>. QED  BY <2>1, <2>2
<1>. QED  BY <1>1, StepCases, QuietCap, CapGranted, CapHoldRead, CapExtendWrite,
          CapRival, CapLogin, CapTick

(* No owner's live holds exceed the cap, those left out that ran out once: *)
(* CapRespected of the carts run, for any number of cabins, rows, calls    *)
(* and sign-ins.                                                           *)
THEOREM CapIsRespected == Spec => []CapRespected
<1>1. Init => StateOK /\ CapInv
  BY InitOK
<1>2. StateOK /\ CapInv /\ [Next]_vars => StateOK' /\ CapInv'
  BY TypesStep, CapStep
<1>3. CapInv => CapRespected
  BY DEF CapInv
<1>. QED  BY <1>1, <1>2, <1>3, PTL DEF Spec

-----------------------------------------------------------------------------
(* The honest countdown.                                                   *)

\* A page that is gone stays deaf: its calls are unheard.
LEMMA DeafStep ==
    ASSUME StateOK, LeftIsDeaf, [Next]_vars
    PROVE  LeftIsDeaf'
<1>1. SUFFICES ASSUME page' = "left"
               PROVE  /\ shown' = 0
                      /\ \A m \in net' : ~m.heard
                      /\ tx' # None => ~tx'.call.heard
                      /\ \A e \in extends' : ~e.call.heard
  BY DEF LeftIsDeaf
<1>2. /\ \A m \in Messages : Unheard(m) \in Messages /\ ~Unheard(m).heard
      /\ \A i \in Ids : ~Release(i).heard
      /\ net \subseteq Messages /\ KnownIds \subseteq Ids
      /\ tx # None => tx \in WriteType
      /\ \A e \in extends : e \in WriteType
      /\ \A w \in WriteType : ~[w EXCEPT !.call = Unheard(@)].call.heard
  <2>1. \A m \in Messages : Unheard(m) \in Messages /\ ~Unheard(m).heard
    BY DEF Unheard, Messages
  <2>2. \A i \in Ids : ~Release(i).heard
    BY DEF Release, Call
  <2>3. \A w \in WriteType : ~[w EXCEPT !.call = Unheard(@)].call.heard
    BY <2>1 DEF WriteType
  <2>. QED  BY <2>1, <2>2, <2>3, CallOK DEF StateOK, TypeOK, WriteType
<1>3. ASSUME NEW ms \in SUBSET net, NEW new \in SUBSET Messages,
             NobodyListens(ms, new), \A m \in new : ~m.heard, shown' = 0
      PROVE  /\ shown' = 0
             /\ \A m \in net' : ~m.heard
             /\ tx' # None => ~tx'.call.heard
             /\ \A e \in extends' : ~e.call.heard
  <2>1. \A m \in net' : ~m.heard
    BY <1>2, <1>3 DEF NobodyListens
  <2>2. tx' # None => ~tx'.call.heard
    BY <1>2, <1>3 DEF NobodyListens
  <2>3. \A e \in extends' : ~e.call.heard
    BY <1>2, <1>3 DEF NobodyListens
  <2>. QED  BY <1>3, <2>1, <2>2, <2>3
<1>4. CASE page # "left"
  <2>1. \/ CloseTab \/ LeaveShop
        \/ \E m \in net : Unmount("left") /\ NobodyListens(net \ {m}, {})
    <3>1. CASE PageStep
      <4>1. ASSUME NEW m \in net, CallFails(m)  PROVE page' = page
        BY <4>1 DEF CallFails, HoldRefused, NotExtended, NotBooked, pageVars
      <4>2. CASE Pay \/ Back \/ OpenBoat \/ Reserve \/ ReleaseAllHolds
        BY <1>1, <1>4, <4>2 DEF Pay, Back, LeaveCheckout, Unmount, OpenBoat,
           Reserve, ReleaseAllHolds
      <4>3. ASSUME NEW c \in Cabins, Select(c) \/ Deselect(c)  PROVE page' = page
        BY <4>3 DEF Select, Deselect
      <4>4. Login => page' = page
        BY DEF Login, pageVars
      <4>. QED  BY <1>1, <1>4, <3>1, <4>1, <4>2, <4>3, <4>4 DEF PageStep
    <3>2. CASE SweepRead \/ SweepWrite \/ Tick \/ \E c \in Cabins : RivalHolds(c)
      BY <1>1, <1>4, <3>2 DEF SweepRead, SweepWrite, Tick, RivalHolds, pageVars
    <3>3. CASE Commit
      BY <1>1, <1>4, <3>3 DEF Commit, HoldWrite, HoldTaken, HoldMade,
         ExtendWrite, HoldRefused, HoldGranted, Extended, pageVars
    <3>4. ASSUME NEW m \in net, Handle(m)
          PROVE  Unmount("left") /\ NobodyListens(net \ {m}, {})
      <4>1. ~HoldRead(m) /\ ~ExtendRead(m)
        BY <1>1, <1>4 DEF HoldRead, ExtendRead, HoldRefused, NotExtended,
           Extended, pageVars
      <4>2. ~ReleaseHold(m) /\ ~RestoreHolds(m)
        BY <1>1, <1>4 DEF ReleaseHold, RestoreHolds, pageVars
      <4>. QED  BY <1>1, <1>4, <3>4, <4>1, <4>2 DEF Handle, Book, NotBooked,
                pageVars
    <3>5. CASE UNCHANGED vars
      BY <1>1, <1>4, <3>5 DEF vars, pageVars
    <3>. QED  BY <3>1, <3>2, <3>3, <3>4, <3>5 DEF Next
  <2>2. CASE CloseTab
    BY <1>3, <2>2 DEF CloseTab, Unmount
  <2>3. CASE LeaveShop
    <3>1. PICK new \in SUBSET Messages :
            new = IF attempt = Idle THEN {Release(i) : i \in KnownIds} ELSE {}
      BY <1>2, CallOK
    <3>2. \A m \in new : ~m.heard
      BY <1>2, <3>1
    <3>3. NobodyListens(net, new) /\ shown' = 0
      BY <2>3, <3>1 DEF LeaveShop, LeaveCheckout, Unmount
    <3>. QED  BY <1>3, <3>2, <3>3
  <2>4. ASSUME NEW m \in net, Unmount("left") /\ NobodyListens(net \ {m}, {})
        PROVE  /\ shown' = 0
               /\ \A n \in net' : ~n.heard
               /\ tx' # None => ~tx'.call.heard
               /\ \A e \in extends' : ~e.call.heard
    BY <1>3, <2>4 DEF Unmount
  <2>. QED  BY <2>1, <2>2, <2>3, <2>4
<1>5. CASE page = "left"
  <2>1. /\ shown = 0
        /\ \A m \in net : ~m.heard
        /\ tx # None => ~tx.call.heard
        /\ \A e \in extends : ~e.call.heard
    BY <1>5 DEF LeftIsDeaf
  <2>2. ASSUME shown' = shown, tx' \in {None, tx} \/ tx'.call \in net,
               \A e \in extends' : e \in extends \/ e.call \in net,
               \A m \in net' : m \in net \/ ~m.heard
        PROVE  /\ shown' = 0
               /\ \A m \in net' : ~m.heard
               /\ tx' # None => ~tx'.call.heard
               /\ \A e \in extends' : ~e.call.heard
    BY <2>1, <2>2
  <2>3. ASSUME NEW m \in net, CallFails(m)
        PROVE  /\ shown' = shown /\ tx' = tx /\ extends' = extends
               /\ \A n \in net' : n \in net \/ ~n.heard
    <3>1. ~m.heard /\ m \in Messages
      BY <1>2, <2>1
    <3>2. \E handled \in {{}, {Unheard(m)}} : net' = (net \ {m}) \cup handled
      BY <2>3, <3>1 DEF CallFails, HoldRefused
    <3>3. \A n \in net' : n \in net \/ ~n.heard
      BY <1>2, <3>1, <3>2
    <3>4. shown' = shown /\ tx' = tx /\ extends' = extends
      BY <2>3 DEF CallFails, HoldRefused, NotExtended, NotBooked, pageVars, server
    <3>. QED  BY <3>3, <3>4
  <2>4. CASE PageStep
    <3>1. \E m \in net : CallFails(m)
      BY <1>1, <1>5, <2>4 DEF PageStep, Select, Deselect, ReleaseAllHolds,
         Reserve, Pay, Back, LeaveShop, LeaveCheckout, CloseTab, OpenBoat,
         Unmount, Login
    <3>. QED  BY <2>2, <2>3, <3>1
  <2>5. CASE SweepRead \/ SweepWrite \/ \E c \in Cabins : RivalHolds(c)
    <3>1. UNCHANGED <<shown, tx, extends, net>>
      BY <2>5 DEF SweepRead, SweepWrite, RivalHolds, pageVars
    <3>. QED  BY <2>2, <3>1
  <2>6. CASE Tick
    <3>1. /\ shown' = 0 /\ tx' = tx /\ extends' = extends
          /\ net' = {[m EXCEPT !.fresh = FALSE] : m \in net}
      BY <2>1, <2>6 DEF Tick, Before
    <3>2. \A m \in Messages : [m EXCEPT !.fresh = FALSE].heard = m.heard
      BY DEF Messages
    <3>. QED  BY <1>2, <2>1, <3>1, <3>2
  <2>7. CASE HoldWrite
    <3>1. ~tx.call.heard /\ tx' = None /\ extends' = extends
      BY <2>1, <2>7 DEF HoldWrite
    <3>2. net' = net /\ shown' = shown
      BY <1>5, <2>7, <3>1 DEF HoldWrite, HoldTaken, HoldMade, HoldRefused,
         HoldGranted, pageVars
    <3>. QED  BY <2>2, <3>1, <3>2
  <2>8. ASSUME NEW e \in extends, ExtendWrite(e)
        PROVE  /\ shown' = shown /\ tx' = tx /\ extends' \subseteq extends
               /\ net' = net
    BY <2>1, <2>8 DEF ExtendWrite, Extended
  <2>9. ASSUME NEW m \in net, Handle(m)
        PROVE  /\ shown' = shown /\ (tx' \in {None, tx} \/ tx'.call \in net)
               /\ \A e \in extends' : e \in extends \/ e.call \in net
               /\ net' \subseteq net
    <3>1. ~m.heard
      BY <2>1
    <3>2. CASE HoldRead(m)
      BY <3>1, <3>2 DEF HoldRead, HoldRefused, pageVars
    <3>3. CASE ExtendRead(m)
      <4>1. shown' = shown /\ tx' = tx /\ net' \subseteq net
        BY <3>1, <3>3 DEF ExtendRead, NotExtended, Extended, pageVars
      <4>2. \A e \in extends' : e \in extends \/ e.call \in net
        BY <3>3 DEF ExtendRead
      <4>. QED  BY <4>1, <4>2
    <3>4. CASE ReleaseHold(m) \/ RestoreHolds(m) \/ Book(m)
      BY <3>1, <3>4 DEF ReleaseHold, RestoreHolds, Book, NotBooked, pageVars,
         server
    <3>. QED  BY <2>9, <3>2, <3>3, <3>4 DEF Handle
  <2>10. CASE UNCHANGED vars
    BY <2>2, <2>10 DEF vars, server, pageVars
  <2>11. ASSUME NEW e \in extends, ExtendWrite(e)
         PROVE  /\ shown' = 0
                /\ \A m \in net' : ~m.heard
                /\ tx' # None => ~tx'.call.heard
                /\ \A f \in extends' : ~f.call.heard
    BY <2>1, <2>8, <2>11
  <2>12. ASSUME NEW m \in net, Handle(m)
         PROVE  /\ shown' = 0
                /\ \A n \in net' : ~n.heard
                /\ tx' # None => ~tx'.call.heard
                /\ \A f \in extends' : ~f.call.heard
    BY <2>1, <2>9, <2>12
  <2>. QED  BY <2>4, <2>5, <2>6, <2>7, <2>10, <2>11, <2>12 DEF Next, Commit
<1>. QED  BY <1>4, <1>5

\* What a known row may be when nothing exceptional happened: live and the
\* browser's, given up, or late.
LEMMA KnownRow ==
    ASSUME StateOK, AllClaimed, OverdueAreLate, Undisturbed,
           NEW i \in Ids, rows[i].state # "unused", rows[i].owner # "rival"
    PROVE  \/ /\ Held(i) /\ rows[i].left > 0 /\ rows[i].owner = OwnerOf(jar)
              /\ i \in HeldBy(OwnerOf(jar)) /\ i \in LiveOf(OwnerOf(jar))
           \/ rows[i].state \in {"released", "converted"}
           \/ i \in past.late
<1>1. rows[i] \in RowType
  BY Owned
<1>2. CASE rows[i].state = "swept" \/ (Held(i) /\ rows[i].left = 0)
  BY <1>2 DEF OverdueAreLate, Overdue
<1>3. CASE Held(i) /\ rows[i].left > 0
  <2>1. rows[i].owner = OwnerOf(jar)
    BY <1>3 DEF AllClaimed, Undisturbed, Live
  <2>. QED  BY <1>3, <2>1 DEF HeldBy, LiveOf, Live
<1>4. rows[i].left \in Nat
  BY <1>1 DEF RowType
<1>5. rows[i].state \in {"held", "released", "converted", "swept"}
  BY <1>1 DEF RowType
<1>. QED  BY <1>2, <1>3, <1>4, <1>5 DEF Held

\* A hold that commits leaves the history undisturbed only if it found it so.
LEMMA GrantedOwner ==
    ASSUME StateOK, NEW i \in FreeIds, NEW kept \in BOOLEAN, Granted(i, kept),
           Undisturbed'
    PROVE  /\ Undisturbed /\ ~past'.unclaimed /\ ~past'.split
           /\ \A e \in extends : e.owner # tx.owner
  BY GrantedFacts DEF Undisturbed

\* A hold commits for the browser's own owner; for a token minted for it, it
\* leaves every other row alone, and either the browser had no token yet or
\* its cookie was lost with an answer nobody heard.  Else the history says so.
LEMMA GrantedFor ==
    ASSUME StateOK, TokensFit, NEW i \in FreeIds, NEW kept \in BOOLEAN,
           Granted(i, kept), ~past'.unclaimed, ~past'.split
    PROVE  \/ /\ tx.owner = OwnerOf(jar) /\ OwnerOf(jar') = OwnerOf(jar)
              /\ rows'[i].owner = tx.owner
           \/ /\ HeldBy(tx.owner) = {}
              /\ rows'[i].owner \in {"rival", OwnerOf(jar')}
              /\ \/ OwnerOf(jar) = None
                 \/ OwnerOf(jar') = OwnerOf(jar) /\ ~tx.call.heard
<1>1. /\ ~past.unclaimed /\ ~past.split /\ ~Splits(kept)
      /\ ~(tx.owner \in Tokens /\ jar.account)
  BY GrantedFacts
<1>2. /\ tx # None /\ tx \in WriteType /\ CookieKept(kept) /\ jar \in JarType
      /\ rows'[i].owner = Keeper(kept)
  <2>1. /\ tx # None /\ tx \in WriteType
        /\ rows'[i].owner = Keeper(kept)
    BY GrantedRows
  <2>2. CookieKept(kept)
    BY DEF Granted
  <2>3. jar \in JarType
    BY DEF StateOK, TypeOK, JarType
  <2>. QED  BY <2>1, <2>2, <2>3
<1>3. \/ ~Minted /\ jar' = jar
      \/ Minted /\ kept /\ jar' = [jar EXCEPT !.token = tx.owner]
      \/ Minted /\ ~kept /\ jar' = jar /\ ~tx.call.heard
  BY <1>2, CookieFacts
<1>4. CASE ~Minted /\ jar' = jar
  <2>1. tx.owner = OwnerOf(tx.call.who) /\ rows'[i].owner = tx.owner
    BY <1>2, <1>4 DEF StateOK, TxForCaller, Minted, Keeper
  <2>2. tx.call.who \in JarType /\ tx.owner \in Owners
    BY <1>2 DEF WriteType, Messages, JarType
  <2>3. CASE jar.account
    BY <1>1, <1>4, <2>1, <2>2, <2>3 DEF Owners, OwnerOf
  <2>4. CASE ~jar.account
    <3>1. tx.owner # "account" /\ ~tx.call.who.account
      BY <1>2, <2>1, <2>4 DEF StateOK, SignedIn, OwnerOf
    <3>2. tx.owner = tx.call.who.token /\ tx.owner # None
      BY <2>1, <2>2, <3>1, Owned DEF OwnerOf
    <3>3. tx.call.who.token \in {None, jar.token}
      BY <1>1, <1>2, <2>4 DEF TokensFit
    <3>. QED  BY <1>4, <2>1, <2>4, <3>2, <3>3 DEF OwnerOf
  <2>. QED  BY <2>3, <2>4
<1>5. CASE Minted
  <2>1. /\ tx.owner \in Tokens /\ ~jar.account
        /\ \A j \in Ids : rows[j].owner # tx.owner
    BY <1>1, <1>2, <1>5 DEF StateOK, TxForCaller, Minted
  <2>2. HeldBy(tx.owner) = {}
    BY <2>1 DEF HeldBy
  <2>3. CASE kept /\ jar' = [jar EXCEPT !.token = tx.owner]
    <3>1. jar.token = None /\ Keeper(kept) = tx.owner
      BY <1>1, <1>5, <2>3 DEF Splits, Keeper
    <3>2. OwnerOf(jar) = None /\ OwnerOf(jar') = tx.owner
      BY <1>2, <2>1, <2>3, <3>1 DEF OwnerOf, JarType
    <3>. QED  BY <1>2, <2>2, <3>1, <3>2
  <2>4. CASE ~kept /\ jar' = jar /\ ~tx.call.heard
    BY <1>2, <1>5, <2>2, <2>4 DEF Keeper
  <2>. QED  BY <1>3, <1>5, <2>3, <2>4
<1>. QED  BY <1>3, <1>4, <1>5

\* A granted hold keeps the countdown honest.
LEMMA HonestGranted ==
    ASSUME StateOK, HonestInv, NEW i \in FreeIds, NEW kept \in BOOLEAN,
           Granted(i, kept)
    PROVE  HonestInv'
<1>1. /\ tx # None /\ tx' = None /\ tx \in WriteType /\ i \in Ids
      /\ rows'[i].owner \in {tx.owner, "rival"} /\ rows'[i].left = tx.left
      /\ rows'[i].state = "held" /\ rows'[i].seen = Never
      /\ \A j \in Ids : j # i =>
            /\ rows'[j].owner = rows[j].owner /\ rows'[j].state = rows[j].state
            /\ rows'[j].seen = rows[j].seen
            /\ rows'[j].extended = rows[j].extended
            /\ rows'[j].left = IF j \in HeldBy(tx.owner) /\ rows[j].left < tx.left
                               THEN tx.left ELSE rows[j].left
  BY GrantedRows
<1>2. UNCHANGED <<extends, reclaim>>
  BY DEF Granted
<1>3. /\ past'.late = past.late /\ rows[i].state = "unused"
      /\ \A c \in Cabins : cart[c] # i
      /\ past.unclaimed => past'.unclaimed
      /\ past.stale => past'.stale
      /\ past.split => past'.split
      /\ JarKept
  BY GrantedFacts
<1>4. /\ tx.left \in Nat /\ tx.left > 0
      /\ \A j \in Ids : rows[j].left \in Nat
      /\ \A e \in extends : e.owner \in Owners
      /\ \A j \in Ids : Live(j) => rows[j].owner # None
  BY <1>1 DEF StateOK, TypeOK, WritesGiveTime, WriteType, HoldsHaveCabins, Live
<1>5. \A j \in Ids : j # i /\ j \notin HeldBy(tx.owner) => rows'[j].left = rows[j].left
  BY <1>1
<1>6. \A j \in Ids : j # i /\ j \in HeldBy(tx.owner) =>
         rows'[j].left >= tx.left /\ rows'[j].left >= rows[j].left
  BY <1>1, <1>4
<1>7. AllClaimed'
  <2>1. SUFFICES ASSUME ~past'.unclaimed, ~past'.stale, ~past'.split
                 PROVE  /\ \A j \in Ids :
                              Live(j)' => rows'[j].owner \in {"rival", OwnerOf(jar')}
                        /\ \A e \in extends : e.owner = OwnerOf(jar')
    BY <1>2 DEF AllClaimed, OwnerOf
  <2>2. /\ \A j \in Ids : Live(j) => rows[j].owner \in {"rival", OwnerOf(jar)}
        /\ \A e \in extends : e.owner = OwnerOf(jar)
    BY <1>3, <2>1 DEF HonestInv, AllClaimed
  <2>3. CASE /\ tx.owner = OwnerOf(jar) /\ OwnerOf(jar') = OwnerOf(jar)
             /\ rows'[i].owner = tx.owner
    <3>1. ASSUME NEW j \in Ids, Live(j)'
          PROVE  rows'[j].owner \in {"rival", OwnerOf(jar')}
      <4>1. CASE j = i
        BY <2>3, <4>1
      <4>2. CASE j # i /\ j \in HeldBy(tx.owner)
        BY <1>1, <2>3, <4>2 DEF HeldBy
      <4>3. CASE j # i /\ j \notin HeldBy(tx.owner)
        <5>1. Live(j)
          BY <1>1, <1>5, <3>1, <4>3 DEF Live, Held
        <5>. QED  BY <1>1, <2>2, <2>3, <4>3, <5>1
      <4>. QED  BY <4>1, <4>2, <4>3
    <3>. QED  BY <2>2, <2>3, <3>1
  <2>4. CASE /\ HeldBy(tx.owner) = {}
             /\ rows'[i].owner \in {"rival", OwnerOf(jar')}
             /\ OwnerOf(jar) = None \/ OwnerOf(jar') = OwnerOf(jar)
    <3>1. ASSUME NEW j \in Ids, j # i, Live(j)'
          PROVE  Live(j) /\ rows'[j].owner = rows[j].owner
      BY <1>1, <1>5, <2>4, <3>1 DEF Live, Held
    <3>2. None \notin Owners
      BY Owned
    <3>. QED  BY <1>4, <2>2, <2>4, <3>1, <3>2
  <2>. QED  BY <2>1, <2>3, <2>4, GrantedFor DEF HonestInv
<1>8. ExtendsFit'
  <2>1. SUFFICES ASSUME Undisturbed'
                 PROVE  /\ \A e \in extends : \A j \in LiveOf(e.owner)' :
                             e.left = rows'[j].left
                                      + IF rows'[j].extended THEN 0 ELSE Ext
                        /\ \A e, f \in extends : e.owner = f.owner
                                                 => e.left = f.left
    BY <1>2 DEF ExtendsFit
  <2>2. Undisturbed /\ \A e \in extends : e.owner # tx.owner
    BY <2>1, GrantedOwner
  <2>3. /\ \A e \in extends : \A j \in LiveOf(e.owner) :
             e.left = rows[j].left + IF rows[j].extended THEN 0 ELSE Ext
        /\ \A e, f \in extends : e.owner = f.owner => e.left = f.left
    BY <2>2 DEF HonestInv, ExtendsFit
  <2>4. ASSUME NEW e \in extends, NEW j \in LiveOf(e.owner)'
        PROVE  e.left = rows'[j].left + IF rows'[j].extended THEN 0 ELSE Ext
    <3>1. j \in Ids /\ j # i /\ j \notin HeldBy(tx.owner)
      BY <1>1, <1>4, <2>2, <2>4, Owned DEF LiveOf, HeldBy
    <3>2. j \in LiveOf(e.owner)
      BY <1>1, <1>5, <2>4, <3>1 DEF LiveOf, HeldBy, Live, Held
    <3>3. rows'[j].left = rows[j].left /\ rows'[j].extended = rows[j].extended
      BY <1>1, <1>5, <3>1
    <3>. QED  BY <2>3, <3>2, <3>3
  <2>. QED  BY <2>3, <2>4
<1>9. OverdueAreLate'
  <2>1. SUFFICES ASSUME Undisturbed'
                 PROVE  /\ reclaim \subseteq past.late
                        /\ \A j \in Ids : \/ Held(j)' /\ Overdue(rows'[j])
                                          \/ rows'[j].state = "swept"
                                          => j \in past.late
    BY <1>2, <1>3 DEF OverdueAreLate
  <2>2. Undisturbed
    BY <2>1, GrantedOwner
  <2>3. ~Overdue(rows'[i])
    BY <1>1, <1>4, CartAssumption DEF Overdue, Never
  <2>4. ASSUME NEW j \in Ids, j # i, Overdue(rows'[j])
        PROVE  Overdue(rows[j])
    <3>1. rows'[j].left = 0 => rows[j].left = 0
      BY <1>4, <1>5, <1>6, <2>4
    <3>. QED  BY <1>1, <2>4, <3>1 DEF Overdue
  <2>. QED  BY <1>1, <2>2, <2>3, <2>4 DEF HonestInv, OverdueAreLate, Held
<1>10. CountdownIsHonest'
  <2>1. SUFFICES ASSUME shown' > 0, ~lapsed', NEW c \in Cabins, cart'[c] # 0,
                        Undisturbed'
                 PROVE  \/ /\ rows'[cart'[c]].state = "held"
                           /\ rows'[cart'[c]].left >= shown'
                        \/ rows'[cart'[c]].state \in {"released", "converted"}
                        \/ cart'[c] \in past'.late
    BY DEF CountdownIsHonest, Known, Undisturbed
  <2>2. Undisturbed /\ ~past'.unclaimed /\ ~past'.split
    BY <2>1, GrantedOwner
  <2>3. /\ lapsed' = lapsed
        /\ \/ cart' = cart /\ shown' = shown
           \/ /\ tx.call.heard /\ \A d \in Cabins : cart'[d] \in {i, cart[d]}
              /\ shown' = tx.left
    <3>1. tx.call \in Messages /\ HoldGranted(tx.call, i, tx.left, net)
      BY <1>1 DEF WriteType, Granted
    <3>. QED  BY <1>1, <1>4, <3>1, GrantedOK
  <2>4. CASE cart'[c] = i
    <3>1. shown' = tx.left
      BY <1>3, <2>3, <2>4
    <3>. QED  BY <1>1, <1>4, <2>4, <3>1
  <2>5. CASE cart'[c] # i
    <3>1. cart'[c] = cart[c] /\ cart[c] # 0 /\ cart[c] \in Ids
      BY <2>1, <2>3, <2>5 DEF StateOK, TypeOK, Ids
    <3>2. PICK j \in Ids : j = cart[c] /\ j # i
      BY <2>5, <3>1
    <3>3. CASE tx.call.heard /\ shown' = tx.left
      <4>1. \/ Held(j) /\ j \in HeldBy(OwnerOf(jar))
            \/ rows[j].state \in {"released", "converted"}
            \/ j \in past.late
        BY <2>2, <3>1, <3>2, KnownRow DEF HonestInv, StateOK, KnownAreOwn, Known
      <4>2. OwnerOf(jar) \in {tx.owner, None}
        BY <2>2, <3>3, GrantedFor DEF HonestInv
      <4>3. \/ Held(j) /\ j \in HeldBy(tx.owner)
            \/ rows[j].state \in {"released", "converted"}
            \/ j \in past.late
        BY <4>1, <4>2, Owned
      <4>. QED  BY <1>1, <1>3, <1>6, <3>1, <3>2, <3>3, <4>3 DEF Held
    <3>5. CASE shown' = shown
      <4>1. shown \in Nat /\ rows'[j].left \in Nat
        <5>1. rows'[j].left \in Nat
          BY <1>1, <1>4, <3>2
        <5>. QED  BY <5>1 DEF StateOK, TypeOK
      <4>2. \/ rows[j].state = "held" /\ rows[j].left >= shown
            \/ rows[j].state \in {"released", "converted"}
            \/ j \in past.late
        BY <2>1, <2>2, <2>3, <3>1, <3>2, <3>5
           DEF HonestInv, CountdownIsHonest, Known, Undisturbed
      <4>3. rows'[j].left >= rows[j].left
        BY <1>4, <1>5, <1>6, <3>2
      <4>. QED  BY <1>1, <1>3, <1>4, <3>1, <3>2, <3>5, <4>1, <4>2, <4>3
    <3>. QED  BY <2>3, <3>3, <3>5
  <2>. QED  BY <2>4, <2>5
<1>11. TokensFit'
  <2>1. CallsKept
    <3>1. tx.call \in Messages /\ HoldGranted(tx.call, i, tx.left, net)
      BY <1>1 DEF WriteType, Granted
    <3>. QED  BY <1>1, <1>4, <3>1, GrantedOK
  <2>. QED  BY <1>1, <1>3, <2>1, TokensKept DEF HonestInv
<1>. QED  BY <1>7, <1>8, <1>9, <1>10, <1>11 DEF HonestInv

\* An answer that sets the countdown to the one of the cart is honest.
LEMMA HonestAnswer ==
    ASSUME StateOK, OneInv, HonestInv, NEW i \in Ids, Live(i),
           rows[i].owner # "rival", KnownAreOwn',
           UNCHANGED <<rows, tx, extends, reclaim, jar, past>>, CallsKept,
           lapsed' = lapsed, shown' \in {shown, rows[i].left},
           \A c \in Cabins : cart'[c] # cart[c] =>
              /\ cart'[c] \in Ids /\ Live(cart'[c]) /\ shown' = rows[i].left,
           cart' \in [Cabins -> 0 .. MaxHolds]
    PROVE  HonestInv'
<1>1. AllClaimed' /\ ExtendsFit' /\ OverdueAreLate'
  BY DEF HonestInv, AllClaimed, ExtendsFit, OverdueAreLate, Undisturbed,
     OwnerOf, LiveOf, HeldBy, Live, Held
<1>2. CountdownIsHonest'
  <2>1. SUFFICES ASSUME shown' > 0, ~lapsed, NEW c \in Cabins, cart'[c] # 0,
                        Undisturbed
                 PROVE  \/ /\ rows[cart'[c]].state = "held"
                           /\ rows[cart'[c]].left >= shown'
                        \/ rows[cart'[c]].state \in {"released", "converted"}
                        \/ cart'[c] \in past.late
    BY DEF CountdownIsHonest, Known, Undisturbed
  <2>2. PICK j \in Ids : j = cart'[c]
    BY <2>1 DEF Ids
  <2>3. rows[j].state # "unused" /\ rows[j].owner # "rival"
    BY <2>1, <2>2 DEF KnownAreOwn, Known
  <2>4. CASE shown' = rows[i].left
    <3>1. rows[i] \in RowType /\ rows[i].left \in Nat
      BY Owned DEF RowType
    <3>2. rows[i].owner = OwnerOf(jar) /\ i \in LiveOf(OwnerOf(jar))
      BY <2>1 DEF HonestInv, AllClaimed, Undisturbed, Live, LiveOf, HeldBy
    <3>3. OwnerOf(jar) \in Owners /\ ~past.raced
      <4>1. rows[i].owner \in Owners
        BY <3>1 DEF RowType, StateOK, HoldsHaveCabins, Live
      <4>. QED  BY <2>1, <3>2, <4>1 DEF Undisturbed
    <3>4. j \in LiveOf(OwnerOf(jar)) => rows[j].left = rows[i].left
      BY <3>2, <3>3 DEF OneInv, OneCountdown
    <3>5. \/ Held(j) /\ j \in LiveOf(OwnerOf(jar))
          \/ rows[j].state \in {"released", "converted"}
          \/ j \in past.late
      BY <2>1, <2>3, KnownRow DEF HonestInv
    <3>. QED  BY <2>2, <2>4, <3>1, <3>4, <3>5 DEF Held
  <2>5. CASE shown' # rows[i].left
    <3>1. cart'[c] = cart[c] /\ shown' = shown
      BY <2>5
    <3>. QED  BY <2>1, <3>1 DEF HonestInv, CountdownIsHonest, Known, Undisturbed
  <2>. QED  BY <2>4, <2>5
<1>3. TokensFit'
  BY Kept, TokensKept DEF HonestInv
<1>. QED  BY <1>1, <1>2, <1>3 DEF HonestInv

\* An extension that reads its cart: answered as before, or a write that
\* still fits.
LEMMA HonestExtendRead ==
    ASSUME StateOK, OneInv, HonestInv, NEW m \in net, ExtendRead(m)
    PROVE  HonestInv'
<1>1. CASE QuietStep
  BY <1>1, QuietHonest
<1>0. PICK o \in Owners \cup {None} : o = OwnerOf(m.who)
  BY Owned
<1>2. CASE /\ CallsKept
           /\ UNCHANGED <<bounds, server, jar, past>> /\ LiveOf(o) # {}
           /\ Extended(m, Latest(LiveOf(o)))
  <2>1. LiveOf(o) \in SUBSET Ids
    BY DEF LiveOf, HeldBy
  <2>2. PICK i \in LiveOf(o) : Latest(LiveOf(o)) = rows[i].left
    BY <1>2, <2>1, LatestOf DEF StateOK
  <2>3. rows[i].left \in Nat /\ m \in Messages
    BY <2>1, <2>2 DEF StateOK, TypeOK
  <2>4. cart' = cart /\ lapsed' = lapsed /\ shown' \in {shown, rows[i].left}
    BY <1>2, <2>2, <2>3, ExtendedPage
  <2>5. i \in Ids /\ Live(i) /\ rows[i].owner # "rival"
    BY <1>2, <2>2, Owned DEF LiveOf, HeldBy
  <2>6. KnownAreOwn'
    BY ExtendReadTypes DEF StateOK
  <2>. QED  BY <1>2, <2>4, <2>5, <2>6, HonestAnswer DEF server, StateOK, TypeOK
<1>3. CASE /\ CallsKept
           /\ UNCHANGED <<bounds, rows, tx, reclaim, jar, pageVars, past>>
           /\ \E e \in WriteType :
                 /\ extends' = extends \cup {e}
                 /\ e.owner = o /\ LiveOf(o) # {}
                 /\ \A i \in LiveOf(o) : ~rows[i].extended
                 /\ e.left = Latest(LiveOf(o)) + Ext
  <2>1. PICK e \in WriteType :
                 /\ extends' = extends \cup {e}
                 /\ e.owner = o /\ LiveOf(o) # {}
                 /\ \A i \in LiveOf(o) : ~rows[i].extended
                 /\ e.left = Latest(LiveOf(o)) + Ext
    BY <1>3
  <2>2. LiveOf(o) \in SUBSET Ids
    BY DEF LiveOf, HeldBy
  <2>3. PICK i \in LiveOf(o) : Latest(LiveOf(o)) = rows[i].left
    BY <2>1, <2>2, LatestOf DEF StateOK
  <2>4. i \in Ids /\ Live(i) /\ rows[i].owner = o /\ o \in Owners
    BY <2>1, <2>3, Owned DEF LiveOf, HeldBy
  <2>5. AllClaimed'
    <3>1. SUFFICES ASSUME ~past.unclaimed, ~past.stale, ~past.split
                   PROVE  e.owner = OwnerOf(jar)
      BY <1>3, <2>1 DEF HonestInv, AllClaimed, OwnerOf, Live, Held
    <3>. QED  BY <2>1, <2>4, <3>1, Owned DEF HonestInv, AllClaimed
  <2>6. ExtendsFit'
    <3>1. SUFFICES ASSUME Undisturbed
                   PROVE  /\ \A f \in extends' : \A j \in LiveOf(f.owner) :
                               f.left = rows[j].left
                                        + IF rows[j].extended THEN 0 ELSE Ext
                          /\ \A f, g \in extends' : f.owner = g.owner
                                                    => f.left = g.left
      BY <1>3 DEF ExtendsFit, Undisturbed, LiveOf, HeldBy, Live, Held
    <3>2. /\ \A f \in extends : \A j \in LiveOf(f.owner) :
               f.left = rows[j].left + IF rows[j].extended THEN 0 ELSE Ext
          /\ \A f, g \in extends : f.owner = g.owner => f.left = g.left
      BY <3>1 DEF HonestInv, ExtendsFit
    <3>3. \A j \in LiveOf(o) : rows[j].left = rows[i].left
      BY <2>3, <2>4, <3>1 DEF OneInv, OneCountdown, Undisturbed
    <3>4. \A j \in LiveOf(o) :
             e.left = rows[j].left + IF rows[j].extended THEN 0 ELSE Ext
      BY <2>1, <2>3, <3>3
    <3>5. \A f \in extends : f.owner = e.owner => f.left = e.left
      BY <2>1, <2>3, <3>2, <3>4
    <3>6. \A f \in extends' : \A j \in LiveOf(f.owner) :
             f.left = rows[j].left + IF rows[j].extended THEN 0 ELSE Ext
      BY <2>1, <3>2, <3>4
    <3>7. \A f, g \in extends' : f.owner = g.owner => f.left = g.left
      BY <2>1, <3>2, <3>5
    <3>. QED  BY <3>6, <3>7
  <2>7. OverdueAreLate' /\ CountdownIsHonest'
    BY <1>3 DEF HonestInv, OverdueAreLate, CountdownIsHonest, Undisturbed, Known,
       Held, pageVars
  <2>8. TokensFit'
    BY <1>3, Kept, TokensKept DEF HonestInv
  <2>. QED  BY <2>5, <2>6, <2>7, <2>8 DEF HonestInv
<1>. QED  BY <1>0, <1>1, <1>2, <1>3, ExtendReadCases

\* A look at the departure counts down for live rows of the browser.
LEMMA HonestRestore ==
    ASSUME StateOK, OneInv, HonestInv, NEW m \in net, RestoreHolds(m)
    PROVE  HonestInv'
<1>1. CASE QuietStep
  BY <1>1, QuietHonest
<1>2. CASE ~QuietStep
  <2>1. /\ lapsed' = lapsed /\ PageTypes' /\ CallsKept
        /\ UNCHANGED <<bounds, server, jar, past>>
        /\ \A c \in Cabins :
              cart'[c] # cart[c] => cart'[c] \in Ids /\ Live(cart'[c])
        /\ \E i \in Ids : Live(i) /\ Owns(m.who, i) /\ shown' = rows[i].left
    BY <1>2, RestoreFacts
  <2>2. PICK i \in Ids : Live(i) /\ Owns(m.who, i) /\ shown' = rows[i].left
    BY <2>1
  <2>3. rows[i].owner # "rival"
    BY <2>2, CartAssumption DEF Owns, StateOK, TypeOK, Messages
  <2>4. KnownAreOwn'
    BY RestoreTypes DEF StateOK
  <2>. QED  BY <2>1, <2>2, <2>3, <2>4, HonestAnswer DEF server, PageTypes
<1>. QED  BY <1>1, <1>2

\* A hold that reads its cart changes nothing yet.
LEMMA HonestHoldRead ==
    ASSUME StateOK, HonestInv, NEW m \in net, HoldRead(m)
    PROVE  HonestInv'
<1>1. CASE QuietStep
  BY <1>1, QuietHonest
<1>2. CASE ~QuietStep
  <2>1. /\ UNCHANGED <<bounds, rows, extends, reclaim, jar, pageVars, past>>
        /\ CallsKept /\ tx'.call = m
    BY <1>2, HoldReadCases
  <2>2. /\ AllClaimed' /\ ExtendsFit' /\ OverdueAreLate'
        /\ CountdownIsHonest'
    BY <2>1 DEF HonestInv, AllClaimed, ExtendsFit,
       OverdueAreLate, CountdownIsHonest, Undisturbed, Known, OwnerOf,
       LiveOf, HeldBy, Live, Held, pageVars
  <2>3. TokensFit'
    BY <2>1, Kept, TokensKept DEF HonestInv
  <2>. QED  BY <2>2, <2>3 DEF HonestInv
<1>. QED  BY <1>1, <1>2

\* A rival's row is new, gives time and is nobody's cabin.
LEMMA HonestRival ==
    ASSUME StateOK, HonestInv, NEW c \in Cabins, RivalHolds(c)
    PROVE  HonestInv'
<1>1. UNCHANGED <<bounds, tx, extends, reclaim, net, jar, pageVars, past>>
  BY DEF RivalHolds
<1>2. PICK i \in FreeIds : /\ rows'[i].owner = "rival" /\ rows'[i].left = TTL
                           /\ rows'[i].state = "held" /\ rows'[i].seen = Never
                           /\ \A j \in Ids : j # i => rows'[j] = rows[j]
  BY RivalRows
<1>3. i \in Ids /\ rows[i].state = "unused"
  BY Owned
<1>4. AllClaimed'
  BY <1>1, <1>2 DEF HonestInv, AllClaimed, OwnerOf, Live, Held
<1>5. ExtendsFit'
  <2>1. \A e \in extends : /\ e.owner \in Owners
                           /\ LiveOf(e.owner)' = LiveOf(e.owner)
                           /\ \A j \in LiveOf(e.owner) : rows'[j] = rows[j]
    BY RivalLeaves DEF StateOK, TypeOK, LiveOf
  <2>. QED  BY <1>1, <2>1 DEF HonestInv, ExtendsFit, Undisturbed
<1>6. OverdueAreLate'
  <2>1. ~Overdue(rows'[i])
    BY <1>2, CartAssumption DEF Overdue, Never
  <2>. QED  BY <1>1, <1>2, <2>1 DEF HonestInv, OverdueAreLate, Undisturbed, Held
<1>7. CountdownIsHonest'
  <2>1. \A d \in Cabins : cart[d] # 0 => cart[d] \in Ids /\ cart[d] # i
    BY <1>3 DEF StateOK, TypeOK, KnownAreOwn, Known, Ids
  <2>. QED  BY <1>1, <1>2, <2>1 DEF HonestInv, CountdownIsHonest, Known, pageVars
<1>8. TokensFit'
  BY <1>1 DEF HonestInv, TokensFit
<1>. QED  BY <1>4, <1>5, <1>6, <1>7, <1>8 DEF HonestInv

\* A written extension: the deadline of the whole cart, not earlier than the
\* rows had it.
LEMMA HonestExtendWrite ==
    ASSUME StateOK, HonestInv, NEW e \in extends, ExtendWrite(e)
    PROVE  HonestInv'
<1>1. /\ e \in WriteType /\ rows' \in [Ids -> RowType]
      /\ \A j \in Ids :
            /\ rows'[j].owner = rows[j].owner /\ rows'[j].state = rows[j].state
            /\ rows'[j].seen = rows[j].seen
            /\ j \in HeldBy(e.owner) => rows'[j].left = e.left /\ rows'[j].extended
            /\ j \notin HeldBy(e.owner) => rows'[j] = rows[j]
      /\ extends' = extends \ {e} /\ UNCHANGED <<bounds, tx, reclaim, net, jar>>
      /\ past'.raced = (past.raced \/ (tx # None /\ tx.owner = e.owner))
      /\ past'.lost = past.lost /\ past'.unclaimed = past.unclaimed
      /\ past'.stale = past.stale /\ past'.split = past.split
      /\ past'.late = past.late
      /\ cart' = cart /\ lapsed' = lapsed /\ shown' \in {shown, e.left}
  BY ExtendRows
<1>2. Undisturbed' => Undisturbed
  BY <1>1 DEF Undisturbed
<1>3. e.left \in Nat /\ e.left > 0 /\ \A j \in Ids : rows[j].left \in Nat
  BY <1>1 DEF WriteType, StateOK, TypeOK, WritesGiveTime
<1>4. \A j \in Ids : Held(j)' = Held(j)
  BY <1>1 DEF Held
<1>5. AllClaimed'
  <2>1. SUFFICES ASSUME ~past.unclaimed, ~past.stale, ~past.split
                 PROVE  /\ \A j \in Ids :
                              Live(j)' => rows'[j].owner \in {"rival", OwnerOf(jar)}
                        /\ \A f \in extends' : f.owner = OwnerOf(jar)
    BY <1>1 DEF AllClaimed, OwnerOf
  <2>2. /\ \A j \in Ids : Live(j) => rows[j].owner \in {"rival", OwnerOf(jar)}
        /\ \A f \in extends : f.owner = OwnerOf(jar)
    BY <2>1 DEF HonestInv, AllClaimed
  <2>3. ASSUME NEW j \in Ids, Live(j)'
        PROVE  rows'[j].owner \in {"rival", OwnerOf(jar)}
    <3>1. CASE j \in HeldBy(e.owner)
      BY <1>1, <2>2, <3>1 DEF HeldBy
    <3>2. CASE j \notin HeldBy(e.owner)
      <4>1. Live(j) /\ rows'[j] = rows[j]
        BY <1>1, <2>3, <3>2 DEF Live, Held
      <4>. QED  BY <2>2, <4>1
    <3>. QED  BY <3>1, <3>2
  <2>. QED  BY <1>1, <2>2, <2>3
<1>6. ExtendsFit'
  <2>1. SUFFICES ASSUME Undisturbed
                 PROVE  /\ \A f \in extends' : \A j \in LiveOf(f.owner)' :
                             f.left = rows'[j].left
                                      + IF rows'[j].extended THEN 0 ELSE Ext
                        /\ \A f, g \in extends' : f.owner = g.owner
                                                  => f.left = g.left
    BY <1>2 DEF ExtendsFit
  <2>2. /\ \A f \in extends : \A j \in LiveOf(f.owner) :
             f.left = rows[j].left + IF rows[j].extended THEN 0 ELSE Ext
        /\ \A f, g \in extends : f.owner = g.owner => f.left = g.left
    BY <2>1 DEF HonestInv, ExtendsFit
  <2>3. ASSUME NEW f \in extends', NEW j \in LiveOf(f.owner)'
        PROVE  f.left = rows'[j].left + IF rows'[j].extended THEN 0 ELSE Ext
    <3>1. f \in extends /\ j \in Ids /\ rows[j].owner = f.owner /\ Held(j)
      BY <1>1, <1>4, <2>3 DEF LiveOf, HeldBy
    <3>2. CASE f.owner = e.owner
      <4>1. j \in HeldBy(e.owner) /\ f.left = e.left /\ f.left \in Nat
        BY <1>3, <2>2, <3>1, <3>2 DEF HeldBy
      <4>2. rows'[j].left = e.left /\ rows'[j].extended
        BY <1>1, <3>1, <4>1
      <4>. QED  BY <1>3, <4>1, <4>2
    <3>3. CASE f.owner # e.owner
      <4>1. rows'[j] = rows[j]
        BY <1>1, <3>1, <3>3 DEF HeldBy
      <4>2. j \in LiveOf(f.owner)
        BY <2>3, <3>1, <4>1 DEF LiveOf, HeldBy, Live, Held
      <4>. QED  BY <2>2, <3>1, <4>1, <4>2
    <3>. QED  BY <3>2, <3>3
  <2>. QED  BY <1>1, <2>2, <2>3
<1>7. OverdueAreLate'
  <2>1. ASSUME NEW j \in Ids, Overdue(rows'[j])
        PROVE  Overdue(rows[j])
    <3>1. CASE j \in HeldBy(e.owner)
      BY <1>1, <1>3, <2>1, <3>1 DEF Overdue
    <3>2. CASE j \notin HeldBy(e.owner)
      BY <1>1, <2>1, <3>2
    <3>. QED  BY <3>1, <3>2
  <2>. QED  BY <1>1, <1>2, <1>4, <2>1 DEF HonestInv, OverdueAreLate
<1>8. CountdownIsHonest'
  <2>1. SUFFICES ASSUME shown' > 0, ~lapsed, NEW c \in Cabins, cart[c] # 0,
                        Undisturbed
                 PROVE  \/ /\ rows'[cart[c]].state = "held"
                           /\ rows'[cart[c]].left >= shown'
                        \/ rows'[cart[c]].state \in {"released", "converted"}
                        \/ cart[c] \in past.late
    BY <1>1, <1>2 DEF CountdownIsHonest, Known, Undisturbed
  <2>2. PICK j \in Ids : j = cart[c]
    BY <2>1 DEF StateOK, TypeOK, Ids
  <2>3. \/ /\ Held(j) /\ rows[j].owner = OwnerOf(jar)
           /\ j \in HeldBy(OwnerOf(jar)) /\ j \in LiveOf(OwnerOf(jar))
        \/ rows[j].state \in {"released", "converted"}
        \/ j \in past.late
    BY <2>1, <2>2, KnownRow DEF HonestInv, StateOK, KnownAreOwn, Known
  <2>4. CASE j \in HeldBy(OwnerOf(jar)) /\ j \in LiveOf(OwnerOf(jar)) /\ Held(j)
    <3>1. e.owner = OwnerOf(jar)
      BY <2>1 DEF HonestInv, AllClaimed, Undisturbed
    <3>2. rows'[j].left = e.left /\ rows'[j].state = "held"
      BY <1>1, <2>4, <3>1 DEF Held
    <3>3. CASE shown' = e.left
      BY <1>3, <2>2, <3>2, <3>3
    <3>4. CASE shown' = shown
      <4>1. \/ rows[j].state = "held" /\ rows[j].left >= shown
            \/ j \in past.late
        BY <2>1, <2>2, <2>4, <3>4
           DEF HonestInv, CountdownIsHonest, Known, Undisturbed, Held
      <4>2. e.left >= rows[j].left
        <5>1. e.left = rows[j].left + IF rows[j].extended THEN 0 ELSE Ext
          BY <2>1, <2>4, <3>1 DEF HonestInv, ExtendsFit
        <5>. QED  BY <1>3, <5>1, CartAssumption
      <4>3. shown \in Nat
        BY DEF StateOK, TypeOK
      <4>. QED  BY <1>3, <2>2, <3>2, <3>4, <4>1, <4>2, <4>3
    <3>. QED  BY <1>1, <3>3, <3>4
  <2>. QED  BY <1>1, <2>2, <2>3, <2>4
<1>9. TokensFit'
  BY <1>1 DEF HonestInv, TokensFit
<1>. QED  BY <1>5, <1>6, <1>7, <1>8, <1>9 DEF HonestInv

\* A sign-in changes no deadline, and hands over the live rows of the token
\* unless the history says so.
LEMMA HonestLogin ==
    ASSUME StateOK, HonestInv, Login
    PROVE  HonestInv'
<1>1. /\ UNCHANGED <<bounds, tx, extends, reclaim, net, pageVars>>
      /\ ~jar.account /\ jar'.account
      /\ \A i \in Ids : /\ rows'[i].state = rows[i].state
                        /\ rows'[i].left = rows[i].left
                        /\ rows'[i].seen = rows[i].seen
                        /\ rows'[i].extended = rows[i].extended
      /\ past'.lost = past.lost /\ past'.raced = past.raced
      /\ past'.late = past.late
      /\ past.unclaimed => past'.unclaimed
      /\ past.stale => past'.stale
      /\ past'.split = past.split
  BY LoginFacts
<1>2. \/ past'.unclaimed
      \/ /\ extends # {} => past'.stale
         /\ \A i \in Ids :
               rows'[i].owner = IF i \in LiveOf(jar.token) THEN "account"
                                ELSE rows[i].owner
  BY LoginFacts
<1>3. Undisturbed' => Undisturbed
  BY <1>1 DEF Undisturbed
<1>4. \A i \in Ids : Held(i)' = Held(i) /\ Live(i)' = Live(i)
  BY <1>1 DEF Held, Live
<1>5. AllClaimed'
  <2>1. SUFFICES ASSUME ~past'.unclaimed, ~past'.stale, ~past'.split
                 PROVE  /\ \A i \in Ids :
                              Live(i)' => rows'[i].owner \in {"rival", "account"}
                        /\ \A e \in extends' : e.owner = "account"
    BY <1>1 DEF AllClaimed, OwnerOf
  <2>2. \A i \in Ids : Live(i) => rows[i].owner \in {"rival", jar.token}
    BY <1>1, <2>1 DEF HonestInv, AllClaimed, OwnerOf
  <2>3. /\ extends' = {}
        /\ \A i \in Ids :
              rows'[i].owner = IF i \in LiveOf(jar.token) THEN "account"
                               ELSE rows[i].owner
    BY <1>1, <1>2, <2>1
  <2>. QED  BY <1>4, <2>2, <2>3 DEF LiveOf, HeldBy, Live
<1>6. ExtendsFit'
  <2>1. Undisturbed' => extends' = {}
    BY <1>1, <1>2 DEF Undisturbed
  <2>. QED  BY <2>1 DEF ExtendsFit
<1>7. OverdueAreLate'
  BY <1>1, <1>3, <1>4 DEF HonestInv, OverdueAreLate, Overdue
<1>8. CountdownIsHonest'
  <2>1. SUFFICES ASSUME shown > 0, ~lapsed, NEW c \in Cabins, cart[c] # 0,
                        Undisturbed
                 PROVE  \/ /\ rows'[cart[c]].state = "held"
                           /\ rows'[cart[c]].left >= shown
                        \/ rows'[cart[c]].state \in {"released", "converted"}
                        \/ cart[c] \in past.late
    BY <1>1, <1>3 DEF CountdownIsHonest, Known, Undisturbed, pageVars
  <2>2. cart[c] \in Ids
    BY <2>1 DEF StateOK, TypeOK, Ids
  <2>. QED  BY <1>1, <2>1, <2>2
            DEF HonestInv, CountdownIsHonest, Known, Undisturbed
<1>9. TokensFit'
  BY <1>1 DEF TokensFit
<1>. QED  BY <1>5, <1>6, <1>7, <1>8, <1>9 DEF HonestInv

\* A unit of time: the page and its rows count down together, and a page
\* that counts keeps its rows from going silent.
LEMMA HonestTick ==
    ASSUME StateOK, HonestInv, LeftIsDeaf, Tick
    PROVE  HonestInv'
<1>1. /\ UNCHANGED <<bounds, tx, extends, reclaim, jar, page, sel, cart, attempt>>
      /\ extends = {}
      /\ shown' = Before(shown) /\ lapsed' = (lapsed \/ shown = 1)
      /\ \A i \in Ids : /\ rows'[i].owner = rows[i].owner
                        /\ rows'[i].state = rows[i].state
                        /\ rows'[i].left = Aged(rows[i]).left
                        /\ rows'[i].seen \in {0, Aged(rows[i]).seen}
      /\ past'.unclaimed = past.unclaimed /\ past'.raced = past.raced
      /\ past'.stale = past.stale /\ (past.lost => past'.lost)
      /\ past'.split = past.split /\ tx = None /\ CallsKept
      /\ past'.late = past.late \cup
           {i \in Ids : /\ Held(i) /\ Overdue(Aged(rows[i]))
                        /\ ~(i \in KnownIds /\ shown > 1 /\ ~lapsed)}
  BY TickFacts
<1>2. \A i \in Ids : /\ rows[i] \in RowType /\ rows[i].left \in Nat
                     /\ Held(i)' = Held(i)
  BY <1>1, Owned DEF Held, RowType
<1>3. \A i \in Ids : Held(i) => rows'[i].left = Before(rows[i].left)
  <2>1. \A i \in Ids : rows[i] \in RowType /\ rows'[i].left = Aged(rows[i]).left
    BY <1>1, <1>2
  <2>. QED  BY <2>1, AgedRow DEF Held
<1>4. Undisturbed' => Undisturbed
  BY <1>1 DEF Undisturbed
<1>5. shown \in Nat
  BY DEF StateOK, TypeOK
<1>6. AllClaimed'
  <2>1. \A i \in Ids : Live(i)' => Live(i) /\ rows'[i].owner = rows[i].owner
    BY <1>1, <1>2, <1>3 DEF Live, Before
  <2>. QED  BY <1>1, <2>1 DEF HonestInv, AllClaimed, OwnerOf
<1>7. ExtendsFit'
  BY <1>1 DEF ExtendsFit
<1>8. OverdueAreLate'
  <2>1. SUFFICES ASSUME Undisturbed', NEW i \in Ids, Held(i),
                        Overdue(rows'[i]), i \notin past'.late
                 PROVE  FALSE
    BY <1>1, <1>2, <1>4 DEF HonestInv, OverdueAreLate
  <2>2. Overdue(Aged(rows[i]))
    <3>1. Grace \in Nat
      BY CartAssumption
    <3>. QED  BY <1>1, <2>1, <3>1 DEF Overdue
  <2>3. i \in KnownIds /\ shown > 1 /\ ~lapsed /\ i \notin past.late
    BY <1>1, <2>1, <2>2
  <2>4. PICK c \in Cabins : cart[c] = i /\ cart[c] # 0
    BY <2>3 DEF KnownIds, Known
  <2>5. rows[i].left >= shown
    BY <1>4, <2>1, <2>3, <2>4, <1>5
       DEF HonestInv, CountdownIsHonest, Known, Undisturbed, Held
  <2>6. rows'[i].left > 0 /\ Aged(rows[i]).left > 0 /\ Live(i)
    BY <1>1, <1>2, <1>3, <1>5, <2>1, <2>3, <2>5 DEF Before, Live
  <2>7. rows[i].owner = OwnerOf(jar)
    <3>1. rows[i].owner # "rival"
      BY <2>4 DEF StateOK, KnownAreOwn, Known
    <3>. QED  BY <1>4, <2>1, <2>6, <3>1 DEF HonestInv, AllClaimed, Undisturbed
  <2>8. Active
    <3>1. page # "left"
      BY <1>5, <2>3 DEF LeftIsDeaf
    <3>. QED  BY <2>3, <3>1 DEF Active, StateOK, TypeOK
  <2>9. rows'[i].seen = 0
    BY <2>1, <2>6, <2>7, <2>8, TickFacts DEF Undisturbed
  <2>. QED  BY <2>1, <2>6, <2>9, CartAssumption DEF Overdue
<1>9. CountdownIsHonest'
  <2>1. SUFFICES ASSUME shown' > 0, ~lapsed', NEW c \in Cabins, cart[c] # 0,
                        Undisturbed
                 PROVE  \/ /\ rows'[cart[c]].state = "held"
                           /\ rows'[cart[c]].left >= shown'
                        \/ rows'[cart[c]].state \in {"released", "converted"}
                        \/ cart[c] \in past'.late
    BY <1>1, <1>4 DEF CountdownIsHonest, Known, Undisturbed
  <2>2. PICK i \in Ids : i = cart[c]
    BY <2>1 DEF StateOK, TypeOK, Ids
  <2>3. shown > 0 /\ shown' = shown - 1
    BY <1>1, <1>5, <2>1 DEF Before
  <2>4. ~lapsed
    BY <1>1, <2>1
  <2>5. \/ Held(i) /\ rows[i].left >= shown
        \/ rows[i].state \in {"released", "converted"}
        \/ i \in past.late
    BY <2>1, <2>2, <2>3, <2>4
       DEF HonestInv, CountdownIsHonest, Known, Undisturbed, Held
  <2>6. CASE Held(i) /\ rows[i].left >= shown
    <3>1. rows'[i].left = rows[i].left - 1
      BY <1>2, <1>3, <1>5, <2>3, <2>6 DEF Before
    <3>. QED  BY <1>1, <1>2, <1>5, <2>2, <2>3, <2>6, <3>1 DEF Held
  <2>. QED  BY <1>1, <2>2, <2>5, <2>6
<1>10. TokensFit'
  <2>1. JarKept
    BY <1>1 DEF JarKept, StateOK, TypeOK, JarType
  <2>. QED  BY <1>1, <2>1, TokensKept DEF HonestInv
<1>. QED  BY <1>6, <1>7, <1>8, <1>9, <1>10 DEF HonestInv

\* Every step keeps the countdown honest.
LEMMA HonestStep ==
    ASSUME StateOK, OneInv, HonestInv, LeftIsDeaf, [Next]_vars
    PROVE  HonestInv'
BY StepCases, QuietHonest, HonestGranted, HonestHoldRead, HonestExtendRead,
   HonestRestore, HonestExtendWrite, HonestRival, HonestLogin, HonestTick

(* A cabin the page counts down for is held at least that long, but for    *)
(* the exceptions it names: CountdownIsHonest of the carts run, for any    *)
(* number of cabins, rows, calls and sign-ins, and any durations.          *)
THEOREM CountdownStaysHonest == Spec => []CountdownIsHonest
<1>. DEFINE IInv == StateOK /\ OneInv /\ HonestInv /\ LeftIsDeaf
<1>1. Init => IInv
  <2>1. Init => LeftIsDeaf
    BY DEF Init, LeftIsDeaf
  <2>. QED  BY <2>1, InitOK
<1>2. IInv /\ [Next]_vars => IInv'
  BY TypesStep, OneStep, HonestStep, DeafStep
<1>3. IInv => CountdownIsHonest
  BY DEF HonestInv
<1>. HIDE DEF IInv
<1>. QED  BY <1>1, <1>2, <1>3, PTL DEF Spec
=============================================================================
