---------------------------- MODULE SessionProofs ----------------------------
(***************************************************************************)
(* Theorems about Session, for any number of tabs, refreshes, code         *)
(* entries, sign-ins, tokens, codes and attempts, and any scenario:        *)
(* types, the tab that keeps its session, the session that stays ended     *)
(* and the guesses that are counted.                                       *)
(***************************************************************************)
EXTENDS Session, FiniteSetTheorems, TLAPS

TokenType == [iat: Nat, pw: Nat, session: Tokens]
PageType == {"in", "leaving", "login"}
CodeType == [number: 0 .. MaxCodes, attempts: Nat]
ResetType == [at: ResetSteps, code: 0 .. MaxCodes]

-----------------------------------------------------------------------------
(* Types.  A token that is in the jar, presented or about to be answered   *)
(* was signed, a code that is entered or reset with was sent.              *)

Signed == DOMAIN tokens

WorldOK == /\ bounds \in Scenarios /\ clock \in 1 .. bounds.seconds
           /\ up \in BOOLEAN /\ faults \in 0 .. bounds.faults
BrowserOK == /\ access \in BOOLEAN /\ jar \in Signed \cup {None}
             /\ page \in [Tabs -> PageType] /\ waiting \subseteq Tabs
StoreOK == /\ tokens \in Seq(TokenType) /\ Len(tokens) \in 1 .. MaxTokens
           /\ \A k \in Signed : tokens[k].session \in Signed
           /\ burned \in [Tokens -> Burners \cup {None}]
RequestsOK == /\ requests \in [Requests -> RequestType \cup {None}]
              /\ \A q \in Active :
                    /\ requests[q].token \in Signed
                    /\ requests[q].at = "signed" => requests[q].next \in Signed
AccountOK == /\ pw \in Nat /\ cutoff \in 0 .. clock
             /\ reset \in ResetType
             /\ reset.at = "consumed" => reset.code \in Codes
CodesOK == /\ code \in CodeType /\ (code # NoCode => code.number \in Codes)
           /\ sent \in 0 .. MaxCodes /\ sends \in 0 .. MaxSends
           /\ verifies \in [Verifies -> VerifyType \cup {None}]
           /\ tickets \in [Codes -> Nat]
LockoutOK == /\ fails \in Nat /\ logins \subseteq Logins \X Tabs
             /\ signing \in [Logins -> SigningType \cup {None}]
PastOK ==
    /\ {"failed", "ended", "overtaken", "stamped", "spared", "overlap",
        "entered", "earned", "changed"} \subseteq DOMAIN past
    /\ past.stamped \in Nat /\ past.ended \subseteq Signed
    /\ past.entered \in [Codes -> Nat] /\ past.earned \in [Codes -> Nat]
    /\ past.changed \in [Codes -> Nat]

StateOK == /\ WorldOK /\ BrowserOK /\ StoreOK /\ RequestsOK
           /\ AccountOK /\ CodesOK /\ LockoutOK /\ PastOK

-----------------------------------------------------------------------------
(* A tab has one refresh of its own under way.  A token about to be        *)
(* answered was never presented.  A token that a tab burned leaves the jar *)
(* before the tab refreshes again, unless the answer failed.               *)

OneFlight ==
    \A p, q \in Active :
       /\ requests[p].by = "page" /\ requests[q].by = "page"
       /\ requests[p].tab = requests[q].tab
       => p = q

Fresh(k) == /\ burned[k] = None /\ k # jar
            /\ \A q \in Active : requests[q].token # k
NextIsFresh ==
    /\ \A q \in Active : requests[q].at = "signed" => Fresh(requests[q].next)
    /\ \A p, q \in Active : /\ requests[p].at = "signed"
                            /\ requests[q].at = "signed"
                            /\ requests[p].next = requests[q].next
                            => p = q
    /\ \A k \in Tokens \ Signed : burned[k] = None

Rotates(q, t, k) == /\ requests[q].by = "page" /\ requests[q].tab = t
                    /\ requests[q].token = k
BurnedByTab ==
    \A t \in Tabs, k \in Tokens \ past.failed :
       burned[k] = [by |-> "page", tab |-> t] =>
          /\ jar = k => \E q \in Active : Rotates(q, t, k)
          /\ \A q \in Active : Rotates(q, t, k) =>
                requests[q].at \in {"burned", "signed"}

TabInv == OneFlight /\ NextIsFresh /\ BurnedByTab

-----------------------------------------------------------------------------
(* Nothing of a signed-out session can be rotated, but what overtook the   *)
(* sign-out; the reset's cutoff is after every older token that is not     *)
(* spared.                                                                 *)

Gone == past.ended \ past.overtaken
EndedInv ==
    /\ \A q \in Active : SessionOf(requests[q].token) \in Gone =>
          \/ requests[q].at = "refused"
          \/ requests[q].at = "sent" /\ burned[requests[q].token] # None
    /\ (jar # None /\ SessionOf(jar) \in Gone) =>
          burned[jar] # None /\ \E t \in Tabs : page[t] = "leaving"
    /\ \A q \in Active : requests[q].at = "signed" =>
          SessionOf(requests[q].next) = SessionOf(requests[q].token)

Old(k) == tokens[k].pw < past.stamped /\ SessionOf(k) \notin past.spared
OldInv ==
    /\ \A k \in Signed : Old(k) => tokens[k].iat < cutoff
    /\ \A q \in Active : requests[q].at \in {"passed", "burned", "signed"} =>
          ~Old(requests[q].token)

-----------------------------------------------------------------------------
(* A code of one entry at a time: its entries are in its count or under    *)
(* way, and once it earned a ticket it is gone.                            *)

Serial == Codes \ past.overlap
EntryOf(v, c) == verifies[v].code = c
Unsent(c) == past.entered[c] = 0 /\ past.earned[c] = 0
CountedInv ==
    /\ \A v \in Entering : verifies[v].code \in 1 .. sent
    /\ code.number <= sent
    /\ \A c \in Codes : c > sent => Unsent(c)
    /\ \A v \in Entering : /\ verifies[v].at \in {"right", "wrong"}
                           /\ verifies[v].code \in Serial
                           => Entering = {v}
    /\ \A c \in Serial : code.number = c =>
          past.entered[c] <= code.attempts
             + IF \E v \in Entering : EntryOf(v, c) THEN 1 ELSE 0
    /\ \A c \in Serial, v \in Entering :
          verifies[v].at = "count" /\ EntryOf(v, c)
             => past.entered[c] <= verifies[v].attempts + 1
    /\ \A c \in Serial : past.entered[c] <= MaxAttempts
    /\ \A c \in Serial : past.earned[c] <= 1
    /\ \A c \in Serial : past.earned[c] = 1 =>
          code.number # c /\ \A v \in Entering : ~EntryOf(v, c)

Consumed(c) == IF reset.at = "consumed" /\ reset.code = c THEN 1 ELSE 0
TicketsEarned ==
    \A c \in Codes : tickets[c] + Consumed(c) + past.changed[c] <= past.earned[c]

(* A sign-in attempt passed the lockout check once.                        *)
LoginsOnce == \A a, b \in logins : a[1] = b[1] => a = b
LockoutInv == LoginsOnce /\ LockoutBound
-----------------------------------------------------------------------------
(* How the parts of the state move *)

\* A part whose variables do not change keeps its type, and one that speaks
\* of tokens keeps it while tokens are only added.
LEMMA PartsStay ==
    ASSUME StateOK
    PROVE  /\ UNCHANGED <<bounds, clock, up, faults>> => WorldOK'
           /\ UNCHANGED <<access, jar, page, waiting, tokens>> => BrowserOK'
           /\ UNCHANGED <<tokens, burned>> => StoreOK'
           /\ UNCHANGED <<requests, tokens>> => RequestsOK'
           /\ UNCHANGED <<pw, cutoff, reset, clock>> => AccountOK'
           /\ UNCHANGED <<code, sent, sends, verifies, tickets>> => CodesOK'
           /\ UNCHANGED <<fails, logins, signing>> => LockoutOK'
           /\ UNCHANGED <<past, tokens>> => PastOK'
<1>1. UNCHANGED <<bounds, clock, up, faults>> => WorldOK'
  BY DEF StateOK, WorldOK
<1>2. UNCHANGED <<access, jar, page, waiting, tokens>> => BrowserOK'
  BY DEF StateOK, BrowserOK, Signed
<1>3. UNCHANGED <<tokens, burned>> => StoreOK'
  BY DEF StateOK, StoreOK, Signed
<1>4. UNCHANGED <<requests, tokens>> => RequestsOK'
  BY DEF StateOK, RequestsOK, Signed, Active
<1>5. UNCHANGED <<pw, cutoff, reset, clock>> => AccountOK'
  BY DEF StateOK, AccountOK
<1>6. UNCHANGED <<code, sent, sends, verifies, tickets>> => CodesOK'
  BY DEF StateOK, CodesOK
<1>7. UNCHANGED <<fails, logins, signing>> => LockoutOK'
  BY DEF StateOK, LockoutOK
<1>8. UNCHANGED <<past, tokens>> => PastOK'
  BY DEF StateOK, PastOK, Signed
<1>. QED  BY <1>1, <1>2, <1>3, <1>4, <1>5, <1>6, <1>7, <1>8

\* What was signed is a token.
LEMMA SignedTokens ==
    ASSUME StateOK
    PROVE  Signed \subseteq Tokens /\ Signed = 1 .. Len(tokens)
<1>1. /\ tokens \in Seq(TokenType) /\ Len(tokens) \in 1 .. MaxTokens
      /\ MaxTokens \in Nat
  BY SessionAssumption DEF StateOK, StoreOK
<1>2. Signed = 1 .. Len(tokens)
  BY <1>1 DEF Signed
<1>. QED  BY <1>1, <1>2 DEF Tokens

\* The request that moves on keeps what it presented.
LEMMA RequestGoesOn ==
    ASSUME StateOK, NEW q \in Requests, requests[q] # None,
           NEW to \in ServerSteps,
           requests' = [requests EXCEPT ![q].at = to]
    PROVE  /\ requests' \in [Requests -> RequestType \cup {None}]
           /\ Active' = Active /\ q \in Active
           /\ \A p \in Active : /\ requests'[p].by = requests[p].by
                               /\ requests'[p].tab = requests[p].tab
                               /\ requests'[p].token = requests[p].token
                               /\ requests'[p].next = requests[p].next
           /\ requests'[q].at = to
           /\ \A p \in Requests : p # q => requests'[p] = requests[p]
<1>1. requests \in [Requests -> RequestType \cup {None}]
      /\ requests[q] \in RequestType
  BY DEF StateOK, RequestsOK
<1>. DEFINE r == [at |-> to, by |-> requests[q].by, tab |-> requests[q].tab,
                  token |-> requests[q].token, next |-> requests[q].next]
<1>2. [requests[q] EXCEPT !.at = to] = r
  BY <1>1 DEF RequestType
<1>3. requests' = [requests EXCEPT ![q] = r]
  BY <1>2
<1>4. r \in RequestType
  BY <1>1 DEF RequestType
<1>5. /\ r.at = to /\ r.by = requests[q].by /\ r.tab = requests[q].tab
      /\ r.token = requests[q].token /\ r.next = requests[q].next
  OBVIOUS
<1>6. r # None
  BY <1>4, NoneAssumption
<1>. HIDE DEF r
<1>7. requests'[q] = r /\ \A p \in Requests : p # q => requests'[p] = requests[p]
  BY <1>1, <1>3
<1>8. requests' \in [Requests -> RequestType \cup {None}]
  BY <1>1, <1>3, <1>4
<1>9. Active' = Active /\ q \in Active
  BY <1>6, <1>7 DEF Active
<1>. QED  BY <1>5, <1>7, <1>8, <1>9 DEF Active

\* A refresh that starts presents the token in the jar.
LEMMA RequestStarts ==
    ASSUME StateOK, NEW q \in Requests \ Active, NEW t \in Tabs,
           NEW by \in Sources, jar # None,
           requests' = [requests EXCEPT ![q] = Presented(by, t)]
    PROVE  /\ requests' \in [Requests -> RequestType \cup {None}]
           /\ Active' = Active \cup {q}
           /\ requests'[q] = Presented(by, t)
           /\ \A p \in Requests : p # q => requests'[p] = requests[p]
<1>1. requests \in [Requests -> RequestType \cup {None}]
  BY DEF StateOK, RequestsOK
<1>2. jar \in Tokens
  BY SignedTokens DEF StateOK, BrowserOK
<1>3. Presented(by, t) \in RequestType
  BY <1>2 DEF Presented, RequestType, ServerSteps
<1>4. Presented(by, t) # None
  BY <1>3, NoneAssumption
<1>5. /\ requests'[q] = Presented(by, t)
      /\ \A p \in Requests : p # q => requests'[p] = requests[p]
  BY <1>1
<1>. QED  BY <1>1, <1>3, <1>4, <1>5 DEF Active

\* A refresh that was answered is gone.
LEMMA RequestEnds ==
    ASSUME StateOK, NEW q \in Active,
           requests' = [requests EXCEPT ![q] = None]
    PROVE  /\ requests' \in [Requests -> RequestType \cup {None}]
           /\ Active' = Active \ {q}
           /\ \A p \in Requests : p # q => requests'[p] = requests[p]
  BY DEF StateOK, RequestsOK, Active

\* What a server signs is added to the tokens.
LEMMA TokenAdded ==
    ASSUME StateOK, NEW session, NEW password \in Nat,
           session \in 1 .. Len(tokens) + 1,
           SignTokens(session, password), Len(tokens) < bounds.tokens
    PROVE  /\ tokens' \in Seq(TokenType) /\ Len(tokens') = Len(tokens) + 1
           /\ Len(tokens') \in 1 .. MaxTokens
           /\ Signed = 1 .. Len(tokens) /\ Signed' = Signed \cup {Len(tokens) + 1}
           /\ Len(tokens) + 1 \in Tokens \ Signed
           /\ \A k \in Signed : tokens'[k] = tokens[k]
           /\ tokens'[Len(tokens) + 1] =
                 [iat |-> clock, pw |-> password, session |-> session]
           /\ \A k \in Signed' : tokens'[k].session \in Signed'
<1>. DEFINE new == [iat |-> clock, pw |-> password, session |-> session]
<1>1. tokens \in Seq(TokenType) /\ Len(tokens) \in 1 .. MaxTokens
      /\ \A k \in Signed : tokens[k].session \in Signed
  BY DEF StateOK, StoreOK
<1>2. bounds.tokens \in 1 .. MaxTokens /\ clock \in Nat
  BY SessionAssumption DEF StateOK, WorldOK, ScenarioType
<1>3. MaxTokens \in Nat
  BY SessionAssumption
<1>4. Len(tokens) + 1 \in 1 .. MaxTokens
  BY <1>1, <1>2, <1>3
<1>5. new \in TokenType
  BY <1>2, <1>4, <1>3, <1>1 DEF TokenType, Tokens
<1>6. new.session = session
  OBVIOUS
<1>7. tokens' = Append(tokens, new)
  BY DEF SignTokens
<1>. HIDE DEF new
<1>8. /\ tokens' \in Seq(TokenType) /\ Len(tokens') = Len(tokens) + 1
      /\ \A k \in 1 .. Len(tokens) : tokens'[k] = tokens[k]
      /\ tokens'[Len(tokens) + 1] = new
  BY <1>1, <1>5, <1>7
<1>9. Signed = 1 .. Len(tokens) /\ Signed' = 1 .. Len(tokens) + 1
  BY <1>1, <1>8 DEF Signed
<1>10. Signed' = Signed \cup {Len(tokens) + 1} /\ Len(tokens) + 1 \notin Signed
  BY <1>1, <1>9
<1>11. \A k \in Signed' : tokens'[k].session \in Signed'
  BY <1>1, <1>6, <1>8, <1>9, <1>10
<1>. QED  BY <1>4, <1>8, <1>9, <1>10, <1>11 DEF new, Tokens

-----------------------------------------------------------------------------
(* Types *)

\* The client's part of a refresh, and what the pages do.
LEMMA ClientTypes ==
    ASSUME StateOK, NEW t \in Tabs,
           \/ Unauthorized(t) \/ NoRefreshToken(t) \/ Navigate(t)
           \/ LogoutAnswered(t) \/ LogoutRefused(t)
           \/ \E q \in Requests : RefreshSession(t, q) \/ TryRefresh(t, q)
    PROVE  StateOK'
<1>1. /\ access \in BOOLEAN /\ jar \in Signed \cup {None}
      /\ page \in [Tabs -> PageType] /\ waiting \subseteq Tabs
  BY DEF StateOK, BrowserOK
<1>2. ASSUME UNCHANGED <<world, store, requests, account, codes, lockout, past>>,
             access' \in BOOLEAN, jar' \in {jar, None},
             page' \in [Tabs -> PageType], waiting' \subseteq Tabs
      PROVE  StateOK'
  <2>1. BrowserOK'
    BY <1>1, <1>2 DEF BrowserOK, store, Signed
  <2>. QED  BY <1>2, <2>1, PartsStay
            DEF StateOK, world, store, account, codes, lockout
<1>3. CASE Unauthorized(t)
  BY <1>1, <1>2, <1>3 DEF Unauthorized
<1>4. CASE NoRefreshToken(t)
  BY <1>1, <1>2, <1>4 DEF NoRefreshToken, PageType
<1>5. CASE Navigate(t)
  BY <1>1, <1>2, <1>5 DEF Navigate, PageType
<1>6. CASE LogoutAnswered(t)
  BY <1>1, <1>2, <1>6 DEF LogoutAnswered, PageType
<1>7. CASE LogoutRefused(t)
  BY <1>1, <1>2, <1>7 DEF LogoutRefused, PageType
<1>8. ASSUME NEW q \in Requests, RefreshSession(t, q) \/ TryRefresh(t, q)
      PROVE  StateOK'
  <2>1. /\ q \in Requests \ Active /\ jar # None
        /\ UNCHANGED <<world, browser, store, account, codes, lockout, past>>
    BY <1>8 DEF RefreshSession, TryRefresh
  <2>2. PICK by \in Sources :
          requests' = [requests EXCEPT ![q] = Presented(by, t)]
    BY <1>8 DEF RefreshSession, TryRefresh, Sources
  <2>3. /\ requests' \in [Requests -> RequestType \cup {None}]
        /\ Active' = Active \cup {q} /\ requests'[q] = Presented(by, t)
        /\ \A p \in Requests : p # q => requests'[p] = requests[p]
    BY <2>1, <2>2, RequestStarts
  <2>4. RequestsOK'
    BY <1>1, <2>1, <2>3 DEF RequestsOK, StateOK, Presented, store, Signed, Active
  <2>. QED  BY <2>1, <2>4, PartsStay
            DEF StateOK, world, browser, store, account, codes, lockout
<1>. QED  BY <1>3, <1>4, <1>5, <1>6, <1>7, <1>8

\* The answers of a refresh.
LEMMA AnswerTypes ==
    ASSUME StateOK, NEW q \in Requests, RefreshAnswered(q) \/ RefreshRefused(q)
    PROVE  StateOK'
<1>1. /\ page \in [Tabs -> PageType] /\ waiting \subseteq Tabs
      /\ jar \in Signed \cup {None} /\ access \in BOOLEAN
  BY DEF StateOK, BrowserOK
<1>2. /\ q \in Active /\ requests[q].tab \in Tabs
      /\ requests' = [requests EXCEPT ![q] = None]
      /\ UNCHANGED <<world, store, account, codes, lockout, past>>
  BY DEF RefreshAnswered, RefreshRefused, Active, StateOK, RequestsOK, RequestType
<1>3. RequestsOK'
  <2>1. /\ requests' \in [Requests -> RequestType \cup {None}]
        /\ Active' = Active \ {q}
        /\ \A p \in Requests : p # q => requests'[p] = requests[p]
    BY <1>2, RequestEnds
  <2>. QED  BY <1>2, <2>1 DEF StateOK, RequestsOK, store, Signed, Active
<1>4. \A next \in {"in", "login"} :
         Shown(requests[q].tab, next) \in [Tabs -> PageType]
  BY <1>1, <1>2 DEF Shown, PageType
<1>5. BrowserOK'
  <2>1. CASE RefreshAnswered(q)
    <3>1. jar' \in Signed /\ access' = TRUE
      BY <1>2, <2>1 DEF RefreshAnswered, StateOK, RequestsOK
    <3>2. waiting' \subseteq Tabs /\ page' \in [Tabs -> PageType]
      BY <1>1, <1>4, <2>1 DEF RefreshAnswered
    <3>. QED  BY <1>2, <3>1, <3>2 DEF BrowserOK, store, Signed
  <2>2. CASE RefreshRefused(q)
    BY <1>1, <1>2, <1>4, <2>2 DEF RefreshRefused, BrowserOK, store, Signed
  <2>. QED  BY <2>1, <2>2
<1>. QED  BY <1>2, <1>3, <1>5, PartsStay
          DEF StateOK, world, store, account, codes, lockout

\* The history variables, one at a time.
LEMMA PastMoves ==
    ASSUME PastOK, NEW x
    PROVE  /\ \A f \in {"failed", "ended", "overtaken", "stamped", "spared",
                       "overlap", "entered", "earned", "changed"} :
                 /\ f # "spared" => [past EXCEPT !.spared = x][f] = past[f]
                 /\ f # "failed" => [past EXCEPT !.failed = x][f] = past[f]
                 /\ f # "earned" => [past EXCEPT !.earned = x][f] = past[f]
                 /\ f # "changed" => [past EXCEPT !.changed = x][f] = past[f]
           /\ [past EXCEPT !.spared = x].spared = x
           /\ [past EXCEPT !.failed = x].failed = x
           /\ [past EXCEPT !.earned = x].earned = x
           /\ [past EXCEPT !.changed = x].changed = x
  BY DEF PastOK

\* A history variable that changes alone keeps the others.
LEMMA PastTypes ==
    ASSUME PastOK, NEW x, UNCHANGED tokens,
           \/ past' = [past EXCEPT !.spared = x]
           \/ past' = [past EXCEPT !.failed = x]
           \/ past' = [past EXCEPT !.earned = x] /\ x \in [Codes -> Nat]
           \/ past' = [past EXCEPT !.changed = x] /\ x \in [Codes -> Nat]
    PROVE  PastOK'
<1>1. {"failed", "ended", "overtaken", "stamped", "spared", "overlap",
       "entered", "earned", "changed"} \subseteq DOMAIN past'
  BY DEF PastOK
<1>2. past'.stamped = past.stamped /\ past'.ended = past.ended
      /\ past'.entered = past.entered
  BY DEF PastOK
<1>3. past'.earned \in [Codes -> Nat] /\ past'.changed \in [Codes -> Nat]
  BY DEF PastOK
<1>. QED  BY <1>1, <1>2, <1>3 DEF PastOK, Signed

\* The server's part of a refresh.
LEMMA ServerTypes ==
    ASSUME StateOK, NEW q \in Requests,
           \/ CheckRevoked(q) \/ CheckCutoff(q) \/ Rotate(q) \/ SignNext(q)
           \/ RotationLost(q)
    PROVE  StateOK'
<1>1. /\ requests[q] # None /\ requests[q] \in RequestType
      /\ requests \in [Requests -> RequestType \cup {None}]
      /\ \A p \in Active :
            /\ requests[p].token \in Signed
            /\ requests[p].at = "signed" => requests[p].next \in Signed
  BY DEF CheckRevoked, CheckCutoff, Rotate, SignNext, RotationLost, StateOK,
     RequestsOK
<1>2. ASSUME NEW to \in ServerSteps \ {"signed"}, UNCHANGED tokens,
             requests' = [requests EXCEPT ![q].at = to]
      PROVE  RequestsOK'
  <2>1. /\ requests' \in [Requests -> RequestType \cup {None}]
        /\ Active' = Active /\ q \in Active
        /\ \A p \in Active : /\ requests'[p].token = requests[p].token
                            /\ requests'[p].next = requests[p].next
        /\ requests'[q].at = to
        /\ \A p \in Requests : p # q => requests'[p] = requests[p]
    BY <1>1, <1>2, RequestGoesOn
  <2>. QED  BY <1>1, <1>2, <2>1 DEF RequestsOK, Signed, Active
<1>3. CASE CheckRevoked(q)
  <2>1. RequestsOK'
    BY <1>2, <1>3 DEF CheckRevoked, Step, ServerSteps, store
  <2>. QED  BY <1>3, <2>1, PartsStay DEF CheckRevoked, StateOK, world, browser,
            store, account, codes, lockout
<1>4. CASE CheckCutoff(q)
  <2>1. RequestsOK'
    BY <1>2, <1>4 DEF CheckCutoff, Step, ServerSteps, store
  <2>2. PastOK'
    BY <1>4, PastTypes, PartsStay DEF CheckCutoff, StateOK, store
  <2>. QED  BY <1>4, <2>1, <2>2, PartsStay DEF CheckCutoff, StateOK, world,
            browser, store, account, codes, lockout
<1>5. CASE Rotate(q)
  <2>1. RequestsOK'
    BY <1>2, <1>5 DEF Rotate, Step, ServerSteps
  <2>2. [by |-> requests[q].by, tab |-> requests[q].tab] \in Burners
    BY <1>1 DEF RequestType, Burners
  <2>3. burned' \in [Tokens -> Burners \cup {None}]
    BY <1>5, <2>2 DEF Rotate, StateOK, StoreOK
  <2>4. StoreOK'
    BY <1>5, <2>3 DEF Rotate, StateOK, StoreOK, Signed
  <2>. QED  BY <1>5, <2>1, <2>4, PartsStay DEF Rotate, StateOK, world, browser,
            account, codes, lockout
<1>6. CASE RotationLost(q)
  <2>1. RequestsOK'
    BY <1>2, <1>6 DEF RotationLost, ServerSteps, store
  <2>2. PastOK'
    BY <1>6, PastTypes DEF RotationLost, StateOK, store
  <2>3. WorldOK'
    <3>1. bounds.faults \in Nat
      BY SessionAssumption DEF StateOK, WorldOK, ScenarioType
    <3>. QED  BY <1>6, <3>1 DEF RotationLost, Fault, StateOK, WorldOK
  <2>. QED  BY <1>6, <2>1, <2>2, <2>3, PartsStay DEF RotationLost, StateOK,
            browser, store, account, codes, lockout
<1>7. CASE SignNext(q)
  <2>1. PICK old \in TokenType : /\ old.session \in Signed
                                 /\ SignTokens(old.session, old.pw)
    BY <1>1, <1>7, SignedTokens DEF SignNext, StateOK, StoreOK, Active
  <2>2. /\ tokens' \in Seq(TokenType) /\ Len(tokens') \in 1 .. MaxTokens
        /\ Signed' = Signed \cup {Len(tokens) + 1}
        /\ Len(tokens) + 1 \in Tokens \ Signed
        /\ \A k \in Signed' : tokens'[k].session \in Signed'
    <3>1. old.session \in 1 .. Len(tokens) + 1 /\ old.pw \in Nat
      BY <2>1, SignedTokens DEF TokenType
    <3>2. Len(tokens) < bounds.tokens
      BY <1>7 DEF SignNext
    <3>. QED  BY <2>1, <3>1, <3>2, TokenAdded
  <2>3. StoreOK'
    BY <1>7, <2>2 DEF SignNext, StateOK, StoreOK
  <2>. DEFINE r == [requests[q] EXCEPT !.next = Len(tokens) + 1, !.at = "signed"]
  <2>4. requests' = [requests EXCEPT ![q] = r]
    BY <1>1, <1>7 DEF SignNext
  <2>5. r \in RequestType /\ r.token \in Signed' /\ r.next \in Signed'
    BY <1>1, <2>2 DEF RequestType, ServerSteps, Active
  <2>. HIDE DEF r
  <2>6. requests'[q] = r /\ \A p \in Requests : p # q => requests'[p] = requests[p]
    BY <1>1, <2>4
  <2>7. RequestsOK'
    <3>1. requests' \in [Requests -> RequestType \cup {None}]
      BY <1>1, <2>4, <2>5
    <3>2. ASSUME NEW p \in Active'
          PROVE  /\ requests'[p].token \in Signed'
                 /\ requests'[p].at = "signed" => requests'[p].next \in Signed'
      <4>1. CASE p = q
        BY <2>5, <2>6, <4>1
      <4>2. CASE p # q
        BY <1>1, <2>2, <2>6, <3>2, <4>2 DEF Active
      <4>. QED  BY <4>1, <4>2
    <3>. QED  BY <3>1, <3>2 DEF RequestsOK
  <2>8. BrowserOK' /\ PastOK'
    BY <1>7, <2>2 DEF SignNext, StateOK, BrowserOK, PastOK, browser
  <2>. QED  BY <1>7, <2>3, <2>7, <2>8, PartsStay DEF SignNext, StateOK, world,
            account, codes, lockout
<1>. QED  BY <1>3, <1>4, <1>5, <1>6, <1>7

\* A sign-out ends the session of the jar.
LEMMA PastEnds ==
    ASSUME StateOK, NEW t \in Tabs, RevokeRefresh(t)
    PROVE  /\ PastOK' /\ SessionOf(jar) \in Signed
           /\ past'.ended = past.ended \cup {SessionOf(jar)}
           /\ past'.overtaken = IF up /\ ~Rotating(SessionOf(jar))
                                THEN past.overtaken
                                ELSE past.overtaken \cup {SessionOf(jar)}
           /\ past'.failed = past.failed /\ past'.stamped = past.stamped
           /\ past'.spared = past.spared /\ past'.overlap = past.overlap
           /\ past'.entered = past.entered /\ past'.earned = past.earned
           /\ past'.changed = past.changed
<1>1. jar \in Signed /\ tokens[jar].session \in Signed
  BY DEF RevokeRefresh, StateOK, BrowserOK, StoreOK
<1>. DEFINE s == SessionOf(jar)
            out == IF up /\ ~Rotating(s) THEN past.overtaken
                   ELSE past.overtaken \cup {s}
<1>2. past' = [past EXCEPT !.ended = @ \cup {s}, !.overtaken = out]
  BY DEF RevokeRefresh
<1>3. s \in Signed
  BY <1>1 DEF SessionOf
<1>4. UNCHANGED tokens
  BY DEF RevokeRefresh
<1>. HIDE DEF s, out
<1>5. PastOK
  BY DEF StateOK
<1>6. /\ past'.ended = past.ended \cup {s} /\ past'.overtaken = out
      /\ past'.failed = past.failed /\ past'.stamped = past.stamped
      /\ past'.spared = past.spared /\ past'.overlap = past.overlap
      /\ past'.entered = past.entered /\ past'.earned = past.earned
      /\ past'.changed = past.changed /\ DOMAIN past' = DOMAIN past
  BY <1>2, <1>5 DEF PastOK
<1>7. PastOK'
  BY <1>3, <1>4, <1>5, <1>6 DEF PastOK, Signed
<1>. QED  BY <1>3, <1>6, <1>7 DEF s, out

\* A sign-in spares the session it signs, or nothing.
LEMMA PastLogsIn ==
    ASSUME StateOK, NEW l \in Logins, NEW t \in Tabs, LoginSucceeded(l, t)
    PROVE  /\ signing[l].pw \in Nat
           /\ DOMAIN past' = DOMAIN past
           /\ \A f \in {"failed", "ended", "overtaken", "stamped", "overlap",
                       "entered", "earned", "changed"} : past'[f] = past[f]
           /\ past.spared \subseteq past'.spared
           /\ signing[l].pw < past.stamped => Len(tokens) + 1 \in past'.spared
<1>1. signing[l] \in SigningType /\ PastOK
  BY DEF LoginSucceeded, SigningAt, StateOK, LockoutOK
<1>2. signing[l].pw \in Nat /\ past.stamped \in Nat
  BY <1>1 DEF SigningType, PastOK
<1>3. CASE signing[l].pw >= past.stamped
  <2>1. past' = past /\ ~(signing[l].pw < past.stamped)
    BY <1>2, <1>3 DEF LoginSucceeded
  <2>. QED  BY <1>2, <2>1
<1>4. CASE ~(signing[l].pw >= past.stamped)
  <2>1. past' = [past EXCEPT !.spared = past.spared \cup {Len(tokens) + 1}]
    BY <1>4 DEF LoginSucceeded
  <2>2. /\ DOMAIN past' = DOMAIN past
        /\ past'.spared = past.spared \cup {Len(tokens) + 1}
    BY <1>1, <2>1 DEF PastOK
  <2>3. \A f \in {"failed", "ended", "overtaken", "stamped", "overlap",
                  "entered", "earned", "changed"} : past'[f] = past[f]
    <3>1. ASSUME NEW f \in {"failed", "ended", "overtaken", "stamped", "overlap",
                          "entered", "earned", "changed"}
          PROVE  past'[f] = past[f]
      <4>1. f \in DOMAIN past /\ f # "spared"
        BY <1>1 DEF PastOK
      <4>. QED  BY <2>1, <4>1
    <3>. QED  BY <3>1
  <2>. QED  BY <1>2, <2>2, <2>3
<1>. QED  BY <1>3, <1>4

\* The steps of a sign-in before its tokens are signed.
LoginStep(l, t) ==
    \/ CheckLockout(l, t) \/ LoginFailed(l, t) \/ PasswordMatches(l, t)
    \/ FailuresCleared(l, t) \/ LoginLost(l, t)

\* They leave everything but the attempts and their count alone.
LEMMA LoginMoves ==
    ASSUME StateOK, NEW l \in Logins, NEW t \in Tabs, LoginStep(l, t)
    PROVE  /\ UNCHANGED <<browser, store, requests, account, codes, past, bounds,
                          clock, up>>
           /\ LockoutOK' /\ WorldOK'
<1>1. /\ fails \in Nat /\ logins \subseteq Logins \X Tabs /\ pw \in Nat
      /\ signing \in [Logins -> SigningType \cup {None}]
  BY DEF StateOK, LockoutOK, AccountOK
<1>2. /\ UNCHANGED <<browser, store, requests, account, codes, past, bounds,
                     clock, up>>
      /\ UNCHANGED faults \/ Fault
  BY DEF LoginStep, CheckLockout, LoginFailed, PasswordMatches, FailuresCleared,
     LoginLost, world
<1>3. WorldOK'
  <2>1. faults' \in 0 .. bounds.faults
    <3>1. faults \in 0 .. bounds.faults /\ bounds.faults \in Nat
      BY SessionAssumption DEF StateOK, WorldOK, ScenarioType
    <3>. QED  BY <1>2, <3>1 DEF Fault
  <2>. QED  BY <1>2, <2>1 DEF StateOK, WorldOK
<1>4. fails' \in Nat /\ logins' \subseteq Logins \X Tabs
  BY <1>1 DEF LoginStep, CheckLockout, LoginFailed, PasswordMatches,
     FailuresCleared, LoginLost, SignInEnds
<1>5. signing' \in [Logins -> SigningType \cup {None}]
  <2>1. CASE CheckLockout(l, t) \/ LoginFailed(l, t)
    BY <1>1, <2>1 DEF CheckLockout, LoginFailed
  <2>2. CASE PasswordMatches(l, t)
    <3>1. [at |-> "matched", pw |-> pw] \in SigningType
      BY <1>1 DEF SigningType
    <3>. QED  BY <1>1, <2>2, <3>1 DEF PasswordMatches
  <2>3. CASE FailuresCleared(l, t)
    <3>1. signing[l] \in SigningType
      BY <1>1, <2>3 DEF FailuresCleared, SigningAt
    <3>2. [signing[l] EXCEPT !.at = "cleared"] \in SigningType
      BY <3>1 DEF SigningType
    <3>. QED  BY <1>1, <2>3, <3>2 DEF FailuresCleared
  <2>4. CASE LoginLost(l, t)
    BY <1>1, <2>4 DEF LoginLost, SignInEnds
  <2>. QED  BY <2>1, <2>2, <2>3, <2>4 DEF LoginStep
<1>. QED  BY <1>2, <1>3, <1>4, <1>5 DEF LockoutOK

\* Signing in and out.
LEMMA SignTypes ==
    ASSUME StateOK, NEW t \in Tabs,
           \/ RevokeRefresh(t)
           \/ \E l \in Logins : LoginStep(l, t) \/ LoginSucceeded(l, t)
    PROVE  StateOK'
<1>1. /\ access \in BOOLEAN /\ jar \in Signed \cup {None}
      /\ page \in [Tabs -> PageType] /\ waiting \subseteq Tabs
      /\ pw \in Nat /\ fails \in Nat /\ logins \subseteq Logins \X Tabs
  BY DEF StateOK, BrowserOK, AccountOK, LockoutOK
<1>2. CASE RevokeRefresh(t)
  <2>1. BrowserOK'
    BY <1>1, <1>2 DEF RevokeRefresh, BrowserOK, PageType, Signed
  <2>2. burned' \in [Tokens -> Burners \cup {None}]
    BY <1>2 DEF RevokeRefresh, Revoked, Burners, StateOK, StoreOK
  <2>3. StoreOK'
    BY <1>2, <2>2 DEF RevokeRefresh, StateOK, StoreOK, Signed
  <2>. QED  BY <1>2, <2>1, <2>3, PastEnds, PartsStay
            DEF RevokeRefresh, StateOK, world, account, codes, lockout
<1>3. ASSUME NEW l \in Logins, LoginStep(l, t)
      PROVE  StateOK'
  BY <1>3, LoginMoves, PartsStay DEF StateOK, browser, store, account, codes
<1>4. ASSUME NEW l \in Logins, LoginSucceeded(l, t)
      PROVE  StateOK'
  <2>1. /\ tokens' \in Seq(TokenType) /\ Len(tokens') \in 1 .. MaxTokens
        /\ Signed' = Signed \cup {Len(tokens) + 1}
        /\ Len(tokens) + 1 \in Tokens \ Signed
        /\ \A k \in Signed' : tokens'[k].session \in Signed'
    <3>1. Len(tokens) + 1 \in 1 .. Len(tokens) + 1
      BY DEF StateOK, StoreOK
    <3>2. signing[l].pw \in Nat
      BY <1>4, PastLogsIn
    <3>. QED  BY <1>4, <3>1, <3>2, TokenAdded DEF LoginSucceeded
  <2>2. StoreOK'
    BY <1>4, <2>1 DEF LoginSucceeded, StateOK, StoreOK
  <2>3. BrowserOK'
    BY <1>1, <1>4, <2>1 DEF LoginSucceeded, BrowserOK, PageType
  <2>4. LockoutOK'
    BY <1>1, <1>4 DEF LoginSucceeded, SignInEnds, StateOK, LockoutOK
  <2>5. RequestsOK'
    BY <1>4, <2>1 DEF LoginSucceeded, StateOK, RequestsOK, Active
  <2>6. PastOK'
    BY <1>4, <2>1, PastLogsIn DEF StateOK, PastOK
  <2>. QED  BY <1>4, <2>2, <2>3, <2>4, <2>5, <2>6, PartsStay
            DEF LoginSucceeded, StateOK, world, account, codes
<1>. QED  BY <1>2, <1>3, <1>4

\* An entry that starts is counted, and overlaps those under way.
LEMMA PastEnters ==
    ASSUME StateOK, NEW v \in Verifies, NEW right \in BOOLEAN,
           EnterCode(v, right)
    PROVE  /\ PastOK' /\ code.number \in Codes
           /\ past'.overlap = Overlapping(code.number)
           /\ past'.entered = [past.entered EXCEPT ![code.number] = @ + 1]
           /\ past'.ended = past.ended /\ past'.overtaken = past.overtaken
           /\ past'.failed = past.failed /\ past'.stamped = past.stamped
           /\ past'.spared = past.spared /\ past'.earned = past.earned
           /\ past'.changed = past.changed
<1>. DEFINE c == code.number
            o == Overlapping(c)
<1>1. past' = [past EXCEPT !.overlap = o,
                           !.entered = [past.entered EXCEPT ![c] = @ + 1]]
  BY DEF EnterCode
<1>2. c \in Codes
  BY DEF EnterCode, StateOK, CodesOK
<1>3. UNCHANGED tokens
  BY DEF EnterCode, store
<1>. HIDE DEF c, o
<1>4. PastOK
  BY DEF StateOK
<1>5. /\ past'.overlap = o
      /\ past'.entered = [past.entered EXCEPT ![c] = @ + 1]
      /\ past'.ended = past.ended /\ past'.overtaken = past.overtaken
      /\ past'.failed = past.failed /\ past'.stamped = past.stamped
      /\ past'.spared = past.spared /\ past'.earned = past.earned
      /\ past'.changed = past.changed /\ DOMAIN past' = DOMAIN past
  BY <1>1, <1>4 DEF PastOK
<1>6. PastOK'
  BY <1>2, <1>3, <1>4, <1>5 DEF PastOK, Signed
<1>. QED  BY <1>2, <1>5, <1>6 DEF c, o

\* The steps of a code and of its entries.
LEMMA CodeTypes ==
    ASSUME StateOK,
           \/ RequestOtp \/ SendWindowLapses \/ CodeLapses \/ UsedUp
           \/ \E v \in Verifies :
                 \/ EnterCode(v, TRUE) \/ EnterCode(v, FALSE) \/ ReadAttempts(v)
                 \/ WriteAttempts(v) \/ BurnCode(v) \/ Verified(v)
           \/ \E c \in Codes : TicketLapses(c)
    PROVE  StateOK'
<1>1. /\ code \in CodeType /\ (code # NoCode => code.number \in Codes)
      /\ sent \in 0 .. MaxCodes /\ sends \in 0 .. MaxSends
      /\ verifies \in [Verifies -> VerifyType \cup {None}]
      /\ tickets \in [Codes -> Nat] /\ bounds.codes \in 0 .. MaxCodes
      /\ {MaxCodes, MaxSends} \subseteq Nat
  BY SessionAssumption DEF StateOK, CodesOK, WorldOK, ScenarioType
<1>2. NoCode \in CodeType
  BY <1>1 DEF NoCode, CodeType
<1>3. ASSUME UNCHANGED <<world, browser, store, requests, account, lockout, past>>,
             CodesOK'
      PROVE  StateOK'
  BY <1>3, PartsStay DEF StateOK, world, browser, store, account, lockout
<1>4. CASE RequestOtp
  <2>1. sends' \in 0 .. MaxSends /\ sent' \in 0 .. MaxCodes /\ sent' \in Codes
    BY <1>1, <1>4 DEF RequestOtp, Codes
  <2>2. code' \in CodeType /\ code'.number \in Codes
    BY <1>4, <2>1, <1>1 DEF RequestOtp, CodeType, Codes
  <2>. QED  BY <1>1, <1>3, <1>4, <2>1, <2>2 DEF RequestOtp, CodesOK
<1>5. CASE SendWindowLapses
  BY <1>1, <1>3, <1>5 DEF SendWindowLapses, CodesOK
<1>6. CASE CodeLapses \/ UsedUp
  BY <1>1, <1>2, <1>3, <1>6 DEF CodeLapses, UsedUp, CodesOK
<1>7. ASSUME NEW v \in Verifies, NEW right \in BOOLEAN, EnterCode(v, right)
      PROVE  StateOK'
  <2>. DEFINE e == [at |-> IF right THEN "right" ELSE "wrong",
                    code |-> code.number, attempts |-> 0]
  <2>1. e \in VerifyType
    BY <1>7, PastEnters DEF VerifyType
  <2>2. verifies' = [verifies EXCEPT ![v] = e]
    BY <1>7 DEF EnterCode
  <2>. HIDE DEF e
  <2>3. CodesOK'
    BY <1>1, <1>7, <2>1, <2>2 DEF EnterCode, CodesOK
  <2>. QED  BY <1>7, <2>3, PastEnters, PartsStay
            DEF EnterCode, StateOK, world, browser, store, account, lockout
<1>8. ASSUME NEW v \in Verifies, ReadAttempts(v)
      PROVE  StateOK'
  <2>. DEFINE e == [at |-> "count", code |-> code.number,
                    attempts |-> code.attempts]
  <2>1. code # NoCode => e \in VerifyType
    BY <1>1 DEF VerifyType, CodeType
  <2>2. verifies' = [verifies EXCEPT ![v] = IF code = NoCode THEN None ELSE e]
    BY <1>8 DEF ReadAttempts
  <2>. HIDE DEF e
  <2>3. CodesOK'
    BY <1>1, <1>8, <2>1, <2>2 DEF ReadAttempts, CodesOK
  <2>. QED  BY <1>3, <1>8, <2>3 DEF ReadAttempts
<1>9. ASSUME NEW v \in Verifies, WriteAttempts(v)
      PROVE  StateOK'
  <2>1. verifies[v] \in VerifyType
    BY <1>1, <1>9 DEF WriteAttempts
  <2>2. [verifies[v] EXCEPT !.at = "burn"] \in VerifyType
    BY <2>1 DEF VerifyType
  <2>3. verifies' \in [Verifies -> VerifyType \cup {None}]
    BY <1>1, <1>9, <2>2 DEF WriteAttempts
  <2>4. code' \in CodeType /\ code'.number \in Codes
    BY <1>1, <1>9, <2>1 DEF WriteAttempts, CodeType, VerifyType, Codes
  <2>. QED  BY <1>1, <1>3, <1>9, <2>3, <2>4 DEF WriteAttempts, CodesOK
<1>10. ASSUME NEW v \in Verifies, BurnCode(v)
       PROVE  StateOK'
  BY <1>1, <1>2, <1>3, <1>10 DEF BurnCode, CodesOK
<1>11. ASSUME NEW v \in Verifies, Verified(v)
       PROVE  StateOK'
  <2>1. verifies[v].code \in Codes
    BY <1>1, <1>11 DEF Verified, VerifyType
  <2>2. CodesOK'
    BY <1>1, <1>2, <1>11, <2>1 DEF Verified, CodesOK
  <2>3. PastOK'
    <3>. DEFINE x == [past.earned EXCEPT ![verifies[v].code] = @ + 1]
    <3>1. past' = [past EXCEPT !.earned = x]
      BY <1>11 DEF Verified
    <3>2. x \in [Codes -> Nat]
      BY <2>1 DEF StateOK, PastOK
    <3>. HIDE DEF x
    <3>. QED  BY <1>11, <3>1, <3>2, PastTypes DEF Verified, StateOK, store
  <2>. QED  BY <1>11, <2>2, <2>3, PartsStay
            DEF Verified, StateOK, world, browser, store, account, lockout
<1>12. ASSUME NEW c \in Codes, TicketLapses(c)
       PROVE  StateOK'
  <2>1. tickets' \in [Codes -> Nat]
    BY <1>1, <1>12 DEF TicketLapses
  <2>. QED  BY <1>1, <1>3, <1>12, <2>1 DEF TicketLapses, CodesOK
<1>. QED  BY <1>4, <1>5, <1>6, <1>7, <1>8, <1>9, <1>10, <1>11, <1>12

\* A reset stamps the cutoff and notes what it spares.
LEMMA PastStamps ==
    ASSUME StateOK, StampCutoff
    PROVE  /\ PastOK' /\ past'.stamped = pw
           /\ past'.spared = past.spared \cup Spared
           /\ past'.ended = past.ended /\ past'.overtaken = past.overtaken
           /\ past'.failed = past.failed /\ past'.overlap = past.overlap
           /\ past'.entered = past.entered /\ past'.earned = past.earned
           /\ past'.changed = past.changed
<1>. DEFINE s == past.spared \cup Spared
<1>1. past' = [past EXCEPT !.stamped = pw, !.spared = s]
  BY DEF StampCutoff
<1>2. PastOK /\ UNCHANGED tokens /\ pw \in Nat
  BY DEF StampCutoff, store, StateOK, AccountOK
<1>. HIDE DEF s
<1>3. /\ past'.stamped = pw /\ past'.spared = s
      /\ past'.ended = past.ended /\ past'.overtaken = past.overtaken
      /\ past'.failed = past.failed /\ past'.overlap = past.overlap
      /\ past'.entered = past.entered /\ past'.earned = past.earned
      /\ past'.changed = past.changed /\ DOMAIN past' = DOMAIN past
  BY <1>1, <1>2 DEF PastOK
<1>4. PastOK'
  BY <1>2, <1>3 DEF PastOK, Signed
<1>. QED  BY <1>3, <1>4 DEF s

\* The steps of a password reset.
LEMMA ResetTypes ==
    ASSUME StateOK,
           \/ \E c \in Codes : ConsumeTicket(c)
           \/ UpdatePassword \/ ClearLoginFailures \/ StampCutoff
    PROVE  StateOK'
<1>1. /\ pw \in Nat /\ cutoff \in 0 .. clock /\ reset \in ResetType
      /\ (reset.at = "consumed" => reset.code \in Codes)
      /\ fails \in Nat /\ clock \in Nat /\ MaxCodes \in Nat
  BY SessionAssumption
     DEF StateOK, AccountOK, LockoutOK, WorldOK, ScenarioType
<1>2. ASSUME NEW c \in Codes, ConsumeTicket(c)
      PROVE  StateOK'
  <2>1. tickets' \in [Codes -> Nat]
    BY <1>2 DEF ConsumeTicket, StateOK, CodesOK
  <2>2. CodesOK'
    BY <1>2, <2>1 DEF ConsumeTicket, StateOK, CodesOK
  <2>3. reset' \in ResetType /\ reset'.code = c
    BY <1>1, <1>2 DEF ConsumeTicket, ResetType, ResetSteps, Codes
  <2>4. AccountOK'
    BY <1>1, <1>2, <2>3 DEF ConsumeTicket, AccountOK, world
  <2>. QED  BY <1>2, <2>2, <2>4, PartsStay
            DEF ConsumeTicket, StateOK, world, browser, store, lockout
<1>3. CASE UpdatePassword
  <2>1. reset' \in ResetType /\ reset'.at = "updated"
    BY <1>1, <1>3 DEF UpdatePassword, ResetType, ResetSteps
  <2>2. AccountOK'
    BY <1>1, <1>3, <2>1 DEF UpdatePassword, AccountOK, world
  <2>3. PastOK'
    <3>. DEFINE x == [past.changed EXCEPT ![reset.code] = @ + 1]
    <3>1. past' = [past EXCEPT !.changed = x]
      BY <1>3 DEF UpdatePassword
    <3>2. x \in [Codes -> Nat]
      BY <1>1, <1>3 DEF UpdatePassword, StateOK, PastOK
    <3>. HIDE DEF x
    <3>. QED  BY <1>3, <3>1, <3>2, PastTypes DEF UpdatePassword, StateOK, store
  <2>. QED  BY <1>3, <2>2, <2>3, PartsStay
            DEF UpdatePassword, StateOK, world, browser, store, codes, lockout
<1>4. CASE ClearLoginFailures
  <2>1. reset' \in ResetType /\ reset'.at = "cleared"
    BY <1>1, <1>4 DEF ClearLoginFailures, ResetType, ResetSteps
  <2>2. AccountOK' /\ LockoutOK'
    BY <1>1, <1>4, <2>1
       DEF ClearLoginFailures, AccountOK, LockoutOK, StateOK, world
  <2>. QED  BY <1>4, <2>2, PartsStay
            DEF ClearLoginFailures, StateOK, world, browser, store, codes
<1>5. CASE StampCutoff
  <2>1. reset' \in ResetType /\ reset'.at = "idle"
    BY <1>1, <1>5 DEF StampCutoff, ResetType, ResetSteps
  <2>2. AccountOK'
    BY <1>1, <1>5, <2>1 DEF StampCutoff, Stamp, AccountOK, world
  <2>. QED  BY <1>5, <2>2, PastStamps, PartsStay
            DEF StampCutoff, StateOK, world, browser, store, codes, lockout
<1>. QED  BY <1>2, <1>3, <1>4, <1>5

\* The clock, the access cookie, Redis and the lockout window.
LEMMA WorldTypes ==
    ASSUME StateOK,
           Tick \/ AccessLapses \/ RedisFails \/ RedisReturns \/ LockoutLapses
    PROVE  StateOK'
<1>1. /\ bounds \in Scenarios /\ clock \in 1 .. bounds.seconds
      /\ up \in BOOLEAN /\ faults \in 0 .. bounds.faults
      /\ bounds.seconds \in Nat /\ bounds.faults \in Nat
      /\ cutoff \in 0 .. clock
  BY SessionAssumption DEF StateOK, WorldOK, AccountOK, ScenarioType
<1>2. CASE Tick \/ AccessLapses
  <2>1. WorldOK'
    BY <1>1, <1>2 DEF Tick, AccessLapses, Later, WorldOK
  <2>2. AccountOK'
    BY <1>1, <1>2 DEF Tick, AccessLapses, Later, AccountOK, StateOK, account
  <2>3. BrowserOK'
    BY <1>2 DEF Tick, AccessLapses, BrowserOK, StateOK, browser, store, Signed
  <2>. QED  BY <1>2, <2>1, <2>2, <2>3, PartsStay
            DEF Tick, AccessLapses, StateOK, store, codes, lockout
<1>3. CASE RedisFails \/ RedisReturns
  <2>1. faults' \in 0 .. bounds.faults /\ up' \in BOOLEAN
    <3>1. CASE RedisFails
      <4>1. faults < bounds.faults /\ faults' = faults + 1 /\ up' = FALSE
        BY <3>1 DEF RedisFails, Fault
      <4>2. faults' \in 0 .. bounds.faults
        BY <1>1, <4>1
      <4>. QED  BY <4>1, <4>2
    <3>2. CASE RedisReturns
      BY <1>1, <3>2 DEF RedisReturns
    <3>. QED  BY <1>3, <3>1, <3>2
  <2>2. UNCHANGED <<bounds, clock>>
    BY <1>3 DEF RedisFails, RedisReturns
  <2>3. WorldOK'
    BY <1>1, <2>1, <2>2 DEF WorldOK
  <2>. QED  BY <1>3, <2>3, PartsStay DEF RedisFails, RedisReturns, StateOK,
            browser, store, account, codes, lockout
<1>4. CASE LockoutLapses
  <2>1. LockoutOK'
    BY <1>4 DEF LockoutLapses, LockoutOK, StateOK
  <2>. QED  BY <1>4, <2>1, PartsStay DEF LockoutLapses, StateOK, world, browser,
            store, account, codes
<1>. QED  BY <1>2, <1>3, <1>4

\* Every step of a session keeps its types.
LEMMA StateStep == StateOK /\ [Next]_vars => StateOK'
<1>. SUFFICES ASSUME StateOK, [Next]_vars
              PROVE  StateOK'
  OBVIOUS
<1>1. CASE UNCHANGED vars
  BY <1>1, PartsStay DEF vars, StateOK, world, browser, store, account, codes,
     lockout
<1>. QED  BY <1>1, ClientTypes, AnswerTypes, ServerTypes, SignTypes, CodeTypes,
             ResetTypes, WorldTypes DEF Next, LoginStep

\* A session starts with one token, in the jar, and nothing under way.
LEMMA StateInit == Init => StateOK
<1>. SUFFICES ASSUME Init
              PROVE  StateOK
  OBVIOUS
<1>1. /\ {MaxTokens, MaxAttempts, MaxSends, LockThreshold} \subseteq Nat \ {0}
      /\ MaxCodes \in Nat /\ bounds \in ScenarioType
  BY SessionAssumption DEF Init
<1>2. 1 \in Tokens /\ 0 \in 0 .. MaxCodes /\ 0 \in 0 .. MaxSends
  BY <1>1 DEF Tokens
<1>. DEFINE k == [iat |-> 1, pw |-> 0, session |-> 1]
<1>3. k \in TokenType /\ k.session = 1
  BY <1>2 DEF TokenType
<1>4. tokens = <<k>>
  BY DEF Init
<1>. HIDE DEF k
<1>5. /\ tokens \in Seq(TokenType) /\ Len(tokens) = 1 /\ Signed = {1}
      /\ tokens[1] = k
  BY <1>3, <1>4 DEF Signed
<1>6. WorldOK
  BY <1>1 DEF Init, WorldOK, ScenarioType
<1>7. BrowserOK
  BY <1>5 DEF Init, BrowserOK, PageType
<1>8. StoreOK
  BY <1>1, <1>3, <1>5 DEF Init, StoreOK
<1>9. RequestsOK
  BY DEF Init, RequestsOK, Active
<1>10. AccountOK
  BY <1>1, <1>2 DEF Init, AccountOK, ResetType, ResetSteps
<1>11. CodesOK
  BY <1>2 DEF Init, CodesOK, CodeType, NoCode
<1>12. LockoutOK
  BY DEF Init, LockoutOK
<1>13. PastOK
  BY DEF Init, PastOK
<1>. QED  BY <1>6, <1>7, <1>8, <1>9, <1>10, <1>11, <1>12, <1>13 DEF StateOK

\* Every part of the state of a session has its type.
THEOREM SessionTypes == Spec => []TypeOK
<1>1. StateOK => TypeOK
  <2>. SUFFICES ASSUME StateOK
                PROVE  TypeOK
    OBVIOUS
  <2>1. /\ bounds.seconds \in Nat /\ clock \in 1 .. bounds.seconds
        /\ MaxTokens \in Nat
    BY SessionAssumption DEF StateOK, WorldOK, ScenarioType
  <2>2. \E n \in 0 .. MaxTokens : tokens \in [1 .. n -> TokenType]
    BY <2>1 DEF StateOK, StoreOK
  <2>3. cutoff \in 0 .. bounds.seconds
    BY <2>1 DEF StateOK, AccountOK
  <2>4. jar \in Tokens \cup {None}
    BY SignedTokens DEF StateOK, BrowserOK
  <2>. QED  BY <2>2, <2>3, <2>4 DEF StateOK, WorldOK, BrowserOK, StoreOK,
            RequestsOK, AccountOK, CodesOK, LockoutOK, TypeOK, TokenType,
            PageType, CodeType, ResetType
<1>. QED  BY <1>1, StateInit, StateStep, PTL DEF Spec

-----------------------------------------------------------------------------
(* The tab that keeps its session *)

\* The steps that touch no refresh, no refresh token and no sign-out.
ElsewhereStep ==
    \/ Tick \/ AccessLapses \/ RedisFails \/ RedisReturns \/ LockoutLapses
    \/ \E t \in Tabs :
          \/ Unauthorized(t) \/ NoRefreshToken(t) \/ Navigate(t) \/ LogoutRefused(t)
          \/ \E l \in Logins : LoginStep(l, t)
    \/ RequestOtp \/ SendWindowLapses \/ CodeLapses \/ UsedUp
    \/ \E v \in Verifies :
          \/ EnterCode(v, TRUE) \/ EnterCode(v, FALSE) \/ ReadAttempts(v)
          \/ WriteAttempts(v) \/ BurnCode(v) \/ Verified(v)
    \/ \E c \in Codes : TicketLapses(c) \/ ConsumeTicket(c)
    \/ UpdatePassword \/ ClearLoginFailures \/ StampCutoff

\* They leave the refreshes, the tokens and the jar alone, and a tab that is
\* signing out goes on doing so.
LEMMA Elsewhere ==
    ASSUME StateOK, ElsewhereStep
    PROVE  /\ UNCHANGED <<requests, tokens, burned, jar>>
           /\ past'.failed = past.failed /\ past'.ended = past.ended
           /\ past'.overtaken = past.overtaken
           /\ jar # None => \A t \in Tabs : page[t] = "leaving" =>
                                            page'[t] = "leaving"
           /\ UpdatePassword \/ StampCutoff \/
              /\ UNCHANGED <<pw, cutoff>>
              /\ past'.stamped = past.stamped /\ past'.spared = past.spared
<1>1. PastOK /\ page \in [Tabs -> PageType]
  BY DEF StateOK, BrowserOK
<1>2. CASE Tick \/ AccessLapses \/ RedisFails \/ RedisReturns \/ LockoutLapses
  BY <1>2 DEF Tick, AccessLapses, RedisFails, RedisReturns, LockoutLapses, browser,
     store, account
<1>3. ASSUME NEW t \in Tabs,
             \/ Unauthorized(t) \/ NoRefreshToken(t) \/ Navigate(t)
             \/ LogoutRefused(t)
             \/ \E l \in Logins : LoginStep(l, t)
      PROVE  /\ UNCHANGED <<requests, tokens, burned, jar, past, pw, cutoff>>
             /\ jar # None => \A p \in Tabs : page[p] = "leaving" =>
                                              page'[p] = "leaving"
  BY <1>1, <1>3, LoginMoves DEF Unauthorized, NoRefreshToken, Navigate,
     LogoutRefused, browser, store, account
<1>4. CASE \/ RequestOtp \/ SendWindowLapses \/ CodeLapses \/ UsedUp
           \/ \E v \in Verifies : ReadAttempts(v) \/ WriteAttempts(v) \/ BurnCode(v)
           \/ \E c \in Codes : TicketLapses(c) \/ ConsumeTicket(c)
           \/ ClearLoginFailures
  BY <1>4 DEF RequestOtp, SendWindowLapses, CodeLapses, UsedUp, ReadAttempts,
     WriteAttempts, BurnCode, TicketLapses, ConsumeTicket, ClearLoginFailures,
     browser, store, account
<1>5. ASSUME NEW v \in Verifies, EnterCode(v, TRUE) \/ EnterCode(v, FALSE)
      PROVE  /\ UNCHANGED <<requests, tokens, burned, jar, page>>
             /\ past'.failed = past.failed /\ past'.ended = past.ended
             /\ past'.overtaken = past.overtaken
             /\ past'.stamped = past.stamped /\ past'.spared = past.spared
             /\ UNCHANGED <<pw, cutoff>>
  BY <1>5, PastEnters DEF EnterCode, browser, store, account
<1>6. ASSUME NEW v \in Verifies, Verified(v)
      PROVE  /\ UNCHANGED <<requests, tokens, burned, jar, page>>
             /\ past'.failed = past.failed /\ past'.ended = past.ended
             /\ past'.overtaken = past.overtaken
             /\ past'.stamped = past.stamped /\ past'.spared = past.spared
             /\ UNCHANGED <<pw, cutoff>>
  BY <1>1, <1>6, PastMoves DEF Verified, browser, store, PastOK, account
<1>7. CASE UpdatePassword
  BY <1>1, <1>7 DEF UpdatePassword, browser, store, PastOK
<1>8. CASE StampCutoff
  BY <1>8, PastStamps DEF StampCutoff, browser, store
<1>. QED  BY <1>2, <1>3, <1>4, <1>5, <1>6, <1>7, <1>8 DEF ElsewhereStep

\* The others are the steps of a refresh, and those that fill or empty the jar.
LEMMA NextSteps ==
    ASSUME [Next]_vars
    PROVE  \/ UNCHANGED vars
           \/ ElsewhereStep
           \/ \E t \in Tabs :
                 \/ RevokeRefresh(t) \/ LogoutAnswered(t)
                 \/ \E q \in Requests : RefreshSession(t, q) \/ TryRefresh(t, q)
                 \/ \E l \in Logins : LoginSucceeded(l, t)
           \/ \E q \in Requests :
                 \/ CheckRevoked(q) \/ CheckCutoff(q) \/ Rotate(q) \/ SignNext(q)
                 \/ RotationLost(q) \/ RefreshAnswered(q) \/ RefreshRefused(q)
  BY DEF Next, ElsewhereStep, LoginStep

\* A refresh that starts presents the jar's token.
LEMMA RefreshStarts ==
    ASSUME StateOK, NEW t \in Tabs, NEW q \in Requests,
           RefreshSession(t, q) \/ TryRefresh(t, q)
    PROVE  /\ q \in Requests \ Active /\ jar # None /\ Active' = Active \cup {q}
           /\ UNCHANGED <<tokens, burned, jar, page, pw, cutoff, past>>
           /\ requests'[q].at = "sent" /\ requests'[q].tab = t
           /\ requests'[q].token = jar
           /\ requests'[q].by = "page" => Flights(t) = {}
           /\ \A p \in Active : p # q /\ requests'[p] = requests[p]
<1>1. /\ q \in Requests \ Active /\ jar # None
      /\ UNCHANGED <<tokens, burned, jar, page, pw, cutoff, past>>
  BY DEF RefreshSession, TryRefresh, browser, store, account
<1>2. PICK by \in Sources :
         /\ requests' = [requests EXCEPT ![q] = Presented(by, t)]
         /\ by = "page" => Flights(t) = {}
  BY DEF RefreshSession, TryRefresh, Sources
<1>3. /\ Active' = Active \cup {q} /\ requests'[q] = Presented(by, t)
      /\ \A p \in Requests : p # q => requests'[p] = requests[p]
  BY <1>1, <1>2, RequestStarts
<1>. QED  BY <1>1, <1>2, <1>3 DEF Presented, Active

\* The token that is signed is new, and of the session that was presented.
LEMMA NextSigned ==
    ASSUME StateOK, NEW q \in Requests, SignNext(q)
    PROVE  \E n \in Tokens \ Signed :
              /\ q \in Active /\ requests[q].at = "burned" /\ Active' = Active
              /\ UNCHANGED <<burned, jar, page, pw, cutoff, past>>
              /\ Signed' = Signed \cup {n}
              /\ \A k \in Signed : tokens'[k] = tokens[k]
              /\ tokens'[n].pw = tokens[requests[q].token].pw
              /\ tokens'[n].session = SessionOf(requests[q].token)
              /\ requests'[q].at = "signed" /\ requests'[q].next = n
              /\ \A p \in Active : /\ requests'[p].by = requests[p].by
                                  /\ requests'[p].tab = requests[p].tab
                                  /\ requests'[p].token = requests[p].token
              /\ \A p \in Active : p # q => requests'[p] = requests[p]
<1>1. /\ q \in Active /\ requests[q] \in RequestType /\ requests[q].at = "burned"
      /\ requests[q].token \in Signed
      /\ UNCHANGED <<burned, jar, page, pw, cutoff, past>>
  BY DEF SignNext, Active, StateOK, RequestsOK, browser, account
<1>. DEFINE old == tokens[requests[q].token]
<1>2. old \in TokenType /\ old.session \in Signed
      /\ SignTokens(old.session, old.pw)
  BY <1>1 DEF SignNext, StateOK, StoreOK, Signed
<1>. HIDE DEF old
<1>3. PICK n \in Tokens \ Signed :
         /\ n = Len(tokens) + 1 /\ Signed' = Signed \cup {n}
         /\ \A k \in Signed : tokens'[k] = tokens[k]
         /\ tokens'[n] = [iat |-> clock, pw |-> old.pw, session |-> old.session]
  <2>1. old.session \in 1 .. Len(tokens) + 1 /\ old.pw \in Nat
    BY <1>2, SignedTokens DEF TokenType
  <2>. QED  BY <1>2, <2>1, TokenAdded DEF SignNext
<1>4. tokens'[n].pw = old.pw /\ tokens'[n].session = old.session
  BY <1>3
<1>. DEFINE r == [requests[q] EXCEPT !.next = n, !.at = "signed"]
<1>5. requests' = [requests EXCEPT ![q] = r]
  BY <1>1, <1>3 DEF SignNext, StateOK, RequestsOK
<1>6. /\ r.by = requests[q].by /\ r.tab = requests[q].tab
      /\ r.token = requests[q].token /\ r.next = n /\ r.at = "signed" /\ r # None
  <2>1. r \in RequestType
    BY <1>1, <1>3 DEF RequestType, ServerSteps
  <2>2. r # None
    BY <2>1, NoneAssumption
  <2>. QED  BY <1>1, <2>2 DEF RequestType
<1>. HIDE DEF r
<1>7. /\ requests'[q] = r
      /\ \A p \in Active : p # q => requests'[p] = requests[p]
      /\ Active' = Active
  BY <1>1, <1>5, <1>6 DEF Active, StateOK, RequestsOK
<1>. QED  BY <1>1, <1>3, <1>4, <1>6, <1>7 DEF old, SessionOf

\* A sign-in signs the first token of a new session, into the jar, under the
\* password it was compared with.
LEMMA LoginSigned ==
    ASSUME StateOK, NEW l \in Logins, NEW t \in Tabs, LoginSucceeded(l, t)
    PROVE  \E n \in Tokens \ Signed :
              /\ UNCHANGED <<burned, requests, pw, cutoff>>
              /\ past'.failed = past.failed /\ past'.ended = past.ended
              /\ past'.overtaken = past.overtaken
              /\ past'.stamped = past.stamped
              /\ past.spared \subseteq past'.spared
              /\ Signed' = Signed \cup {n} /\ jar' = n
              /\ \A k \in Signed : tokens'[k] = tokens[k]
              /\ tokens'[n].session = n
              /\ tokens'[n].pw < past.stamped => n \in past'.spared
<1>. DEFINE n == Len(tokens) + 1
<1>1. n \in 1 .. n /\ signing[l].pw \in Nat
  BY PastLogsIn DEF StateOK, StoreOK
<1>2. /\ Signed' = Signed \cup {n} /\ n \in Tokens \ Signed
      /\ \A k \in Signed : tokens'[k] = tokens[k]
      /\ tokens'[n] = [iat |-> clock, pw |-> signing[l].pw, session |-> n]
  BY <1>1, TokenAdded DEF LoginSucceeded
<1>3. /\ past'.failed = past.failed /\ past'.ended = past.ended
      /\ past'.overtaken = past.overtaken /\ past'.stamped = past.stamped
      /\ past.spared \subseteq past'.spared
      /\ signing[l].pw < past.stamped => n \in past'.spared
  BY PastLogsIn
<1>. QED  BY <1>2, <1>3 DEF LoginSucceeded, account

\* A refresh that starts presents the jar's token, and is the only one of its
\* tab's client.
LEMMA TabStarts ==
    ASSUME StateOK, TabInv, NEW t \in Tabs, NEW q \in Requests,
           RefreshSession(t, q) \/ TryRefresh(t, q)
    PROVE  TabInv'
<1>1. /\ q \in Requests \ Active /\ jar # None /\ Active' = Active \cup {q}
      /\ UNCHANGED <<tokens, burned, jar, past>>
      /\ requests'[q].at = "sent" /\ requests'[q].tab = t
      /\ requests'[q].token = jar
      /\ requests'[q].by = "page" =>
            \A p \in Active : ~(requests[p].by = "page" /\ requests[p].tab = t)
      /\ \A p \in Active : p # q /\ requests'[p] = requests[p]
  BY RefreshStarts DEF Flights
<1>2. OneFlight'
  BY <1>1 DEF TabInv, OneFlight
<1>3. NextIsFresh'
  BY <1>1 DEF TabInv, NextIsFresh, Fresh, Signed
<1>4. BurnedByTab'
  <2>. SUFFICES ASSUME NEW s \in Tabs, NEW k \in Tokens \ past'.failed,
                       burned'[k] = [by |-> "page", tab |-> s]
                PROVE  /\ jar' = k => \E p \in Active' : Rotates(p, s, k)'
                       /\ \A p \in Active' : Rotates(p, s, k)' =>
                             requests'[p].at \in {"burned", "signed"}
    BY DEF BurnedByTab
  <2>1. /\ jar = k => \E p \in Active : Rotates(p, s, k)
        /\ \A p \in Active : Rotates(p, s, k) =>
              requests[p].at \in {"burned", "signed"}
    BY <1>1 DEF TabInv, BurnedByTab
  <2>2. ~Rotates(q, s, k)'
    BY <1>1, <2>1 DEF Rotates
  <2>3. \A p \in Active : Rotates(p, s, k)' = Rotates(p, s, k)
    BY <1>1 DEF Rotates
  <2>. QED  BY <1>1, <2>1, <2>2, <2>3
<1>. QED  BY <1>2, <1>3, <1>4 DEF TabInv

\* A refresh that moves on without signing keeps the one flight of a tab and
\* the freshness of the tokens about to be answered.
LEMMA TabGoesOn ==
    ASSUME StateOK, TabInv, NEW q \in Active, NEW to \in ServerSteps \ {"signed"},
           requests' = [requests EXCEPT ![q].at = to], UNCHANGED <<tokens, jar>>
    PROVE  /\ OneFlight'
           /\ (\A k \in Tokens : burned'[k] = burned[k] \/ k = requests[q].token)
                 => NextIsFresh'
           /\ Active' = Active
           /\ \A t \in Tabs, k \in Tokens, p \in Active :
                 Rotates(p, t, k)' = Rotates(p, t, k)
           /\ requests'[q].at = to
           /\ \A p \in Active : p # q => requests'[p].at = requests[p].at
<1>1. /\ Active' = Active /\ requests'[q].at = to
      /\ \A p \in Active : /\ requests'[p].by = requests[p].by
                          /\ requests'[p].tab = requests[p].tab
                          /\ requests'[p].token = requests[p].token
                          /\ requests'[p].next = requests[p].next
      /\ \A p \in Active : p # q => requests'[p].at = requests[p].at
  <2>1. q \in Requests /\ requests[q] # None
    BY DEF Active
  <2>. QED  BY <2>1, RequestGoesOn DEF Active
<1>2. OneFlight'
  BY <1>1 DEF TabInv, OneFlight
<1>3. ASSUME \A k \in Tokens : burned'[k] = burned[k] \/ k = requests[q].token
      PROVE  NextIsFresh'
  <2>1. requests[q].token \in Signed /\ Signed \subseteq Tokens /\ Signed' = Signed
    BY SignedTokens DEF StateOK, RequestsOK, Signed
  <2>2. \A p \in Active : requests'[p].at = "signed" =>
           p # q /\ requests[p].at = "signed" /\ requests[p].next \in Tokens
    BY <1>1, <2>1 DEF StateOK, RequestsOK
  <2>3. \A p \in Active : requests'[p].at = "signed" => Fresh(requests[p].next)'
    BY <1>1, <1>3, <2>2 DEF TabInv, NextIsFresh, Fresh
  <2>. QED  BY <1>1, <1>3, <2>1, <2>2, <2>3 DEF TabInv, NextIsFresh
<1>. QED  BY <1>1, <1>2, <1>3 DEF Rotates

\* The server's steps: the token that is burned is the one presented.
LEMMA TabServed ==
    ASSUME StateOK, TabInv, NEW q \in Requests,
           CheckRevoked(q) \/ CheckCutoff(q) \/ Rotate(q) \/ RotationLost(q)
    PROVE  TabInv'
<1>1. /\ q \in Active /\ requests[q] \in RequestType
      /\ burned \in [Tokens -> Burners \cup {None}]
      /\ UNCHANGED <<tokens, jar>>
  BY DEF CheckRevoked, CheckCutoff, Rotate, RotationLost, Active, StateOK,
     RequestsOK, StoreOK, browser, store
<1>2. PICK to \in ServerSteps \ {"signed"} :
         requests' = [requests EXCEPT ![q].at = to]
  BY DEF CheckRevoked, CheckCutoff, Rotate, RotationLost, Step, ServerSteps
<1>3. /\ OneFlight'
      /\ (\A k \in Tokens : burned'[k] = burned[k] \/ k = requests[q].token)
            => NextIsFresh'
      /\ Active' = Active
      /\ \A t \in Tabs, k \in Tokens, p \in Active :
            Rotates(p, t, k)' = Rotates(p, t, k)
      /\ requests'[q].at = to
      /\ \A p \in Active : p # q => requests'[p].at = requests[p].at
  BY <1>1, <1>2, TabGoesOn
<1>4. \A k \in Tokens : burned'[k] = burned[k] \/ k = requests[q].token
  BY <1>1 DEF CheckRevoked, CheckCutoff, Rotate, RotationLost, store
<1>5. past.failed \subseteq past'.failed
  <2>1. PastOK
    BY DEF StateOK
  <2>. QED  BY <2>1 DEF CheckRevoked, CheckCutoff, Rotate, RotationLost, PastOK
<1>6. BurnedByTab'
  <2>. SUFFICES ASSUME NEW t \in Tabs, NEW k \in Tokens \ past'.failed,
                       burned'[k] = [by |-> "page", tab |-> t]
                PROVE  /\ jar' = k => \E p \in Active' : Rotates(p, t, k)'
                       /\ \A p \in Active' : Rotates(p, t, k)' =>
                             requests'[p].at \in {"burned", "signed"}
    BY DEF BurnedByTab
  <2>1. CASE burned'[k] = burned[k]
    <3>1. /\ jar = k => \E p \in Active : Rotates(p, t, k)
          /\ \A p \in Active : Rotates(p, t, k) =>
                requests[p].at \in {"burned", "signed"}
      BY <1>5, <2>1 DEF TabInv, BurnedByTab
    <3>2. Rotates(q, t, k) => FALSE
      <4>1. CASE CheckRevoked(q) \/ CheckCutoff(q) \/ Rotate(q)
        BY <1>1, <3>1, <4>1 DEF CheckRevoked, CheckCutoff, Rotate, Step
      <4>2. CASE RotationLost(q)
        <5>1. requests[q].token \in past'.failed
          BY <4>2 DEF RotationLost, StateOK, PastOK
        <5>. QED  BY <5>1 DEF Rotates
      <4>. QED  BY <4>1, <4>2
    <3>. QED  BY <1>1, <1>3, <3>1, <3>2
  <2>2. CASE burned'[k] # burned[k]
    <3>1. /\ Rotate(q) /\ k = requests[q].token /\ to = "burned"
          /\ burned'[k] = [by |-> requests[q].by, tab |-> requests[q].tab]
      <4>1. Rotate(q) /\ k = requests[q].token /\ up
        BY <1>1, <1>4, <2>2 DEF CheckRevoked, CheckCutoff, Rotate, RotationLost, store
      <4>2. requests' = [requests EXCEPT ![q].at = "burned"]
        BY <4>1 DEF Rotate, Step
      <4>3. requests'[q].at = "burned"
        <5>1. q \in Requests /\ requests[q] # None
          BY <1>1 DEF Active
        <5>. QED  BY <4>2, <5>1, RequestGoesOn DEF ServerSteps
      <4>. QED  BY <1>1, <1>3, <4>1, <4>3 DEF Rotate
    <3>2. requests[q].by = "page" /\ requests[q].tab = t
      BY <3>1
    <3>3. Rotates(q, t, k)
      BY <3>1, <3>2 DEF Rotates
    <3>4. \A p \in Active : Rotates(p, t, k) => p = q
      BY <1>1, <3>3 DEF Rotates, TabInv, OneFlight
    <3>. QED  BY <1>1, <1>3, <3>1, <3>3, <3>4
  <2>. QED  BY <2>1, <2>2
<1>. QED  BY <1>3, <1>4, <1>6 DEF TabInv

\* The token that is signed is new: nobody has it yet.
LEMMA TabSigned ==
    ASSUME StateOK, TabInv, NEW q \in Requests, SignNext(q)
    PROVE  TabInv'
<1>1. PICK n \in Tokens \ Signed :
         /\ q \in Active /\ requests[q].at = "burned" /\ Active' = Active
         /\ UNCHANGED <<burned, jar, past>>
         /\ Signed' = Signed \cup {n}
         /\ requests'[q].at = "signed" /\ requests'[q].next = n
         /\ \A p \in Active : /\ requests'[p].by = requests[p].by
                             /\ requests'[p].tab = requests[p].tab
                             /\ requests'[p].token = requests[p].token
         /\ \A p \in Active : p # q => requests'[p] = requests[p]
  BY NextSigned
<1>2. \A p \in Active : requests'[p].at = "signed" =>
         \/ p = q
         \/ /\ p # q /\ requests[p].at = "signed" /\ requests[p].next \in Signed
            /\ requests'[p].next = requests[p].next
  BY <1>1 DEF StateOK, RequestsOK
<1>3. OneFlight'
  BY <1>1, <1>2 DEF TabInv, OneFlight
<1>4. NextIsFresh'
  <2>1. Fresh(n)'
    <3>1. jar # n /\ \A p \in Active : requests[p].token # n
      BY <1>1, NoneAssumption DEF StateOK, BrowserOK, RequestsOK
    <3>. QED  BY <1>1, <1>2, <3>1 DEF Fresh, TabInv, NextIsFresh
  <2>2. \A k \in Signed : Fresh(k) => Fresh(k)'
    BY <1>1, <1>2 DEF Fresh
  <2>3. \A p \in Active : requests'[p].at = "signed" => Fresh(requests[p].next)'
    <3>. SUFFICES ASSUME NEW p \in Active, requests'[p].at = "signed"
                  PROVE  Fresh(requests[p].next)'
      OBVIOUS
    <3>1. CASE p = q
      BY <1>1, <2>1, <3>1
    <3>2. CASE p # q
      BY <1>2, <2>2, <3>2 DEF TabInv, NextIsFresh
    <3>. QED  BY <3>1, <3>2
  <2>4. \A o, p \in Active : /\ requests'[o].at = "signed"
                             /\ requests'[p].at = "signed"
                             /\ requests'[o].next = requests'[p].next
                             => o = p
    BY <1>1, <1>2 DEF TabInv, NextIsFresh
  <2>. QED  BY <1>1, <2>3, <2>4 DEF TabInv, NextIsFresh
<1>5. BurnedByTab'
  <2>. SUFFICES ASSUME NEW s \in Tabs, NEW k \in Tokens \ past'.failed,
                       burned'[k] = [by |-> "page", tab |-> s]
                PROVE  /\ jar' = k => \E p \in Active' : Rotates(p, s, k)'
                       /\ \A p \in Active' : Rotates(p, s, k)' =>
                             requests'[p].at \in {"burned", "signed"}
    BY DEF BurnedByTab
  <2>1. /\ jar = k => \E p \in Active : Rotates(p, s, k)
        /\ \A p \in Active : Rotates(p, s, k) =>
              requests[p].at \in {"burned", "signed"}
    BY <1>1 DEF TabInv, BurnedByTab
  <2>2. \A p \in Active : Rotates(p, s, k)' = Rotates(p, s, k)
    BY <1>1 DEF Rotates
  <2>. QED  BY <1>1, <2>1, <2>2
<1>. QED  BY <1>3, <1>4, <1>5 DEF TabInv

\* The answer puts a fresh token into the jar; a refusal leaves the jar alone.
LEMMA TabAnswered ==
    ASSUME StateOK, TabInv, NEW q \in Requests,
           RefreshAnswered(q) \/ RefreshRefused(q)
    PROVE  TabInv'
<1>1. /\ q \in Active /\ requests' = [requests EXCEPT ![q] = None]
      /\ UNCHANGED <<tokens, burned, past>> /\ Signed' = Signed
  BY DEF RefreshAnswered, RefreshRefused, Active, store, Signed
<1>2. /\ Active' = Active \ {q}
      /\ \A p \in Active' : requests'[p] = requests[p]
  BY <1>1, RequestEnds DEF Active
<1>3. \/ requests[q].at = "refused" /\ jar' = jar
      \/ /\ requests[q].at = "signed" /\ jar' = requests[q].next
         /\ burned[jar'] = None
  BY <1>1 DEF RefreshAnswered, RefreshRefused, TabInv, NextIsFresh, Fresh
<1>4. OneFlight'
  BY <1>2 DEF TabInv, OneFlight
<1>5. NextIsFresh'
  <2>1. \A p \in Active' : requests[p].at = "signed" => requests[p].next # jar'
    BY <1>1, <1>2, <1>3 DEF TabInv, NextIsFresh, Fresh
  <2>2. \A p \in Active' : requests'[p].at = "signed" => Fresh(requests[p].next)'
    BY <1>1, <1>2, <2>1 DEF TabInv, NextIsFresh, Fresh
  <2>. QED  BY <1>1, <1>2, <2>2 DEF TabInv, NextIsFresh
<1>6. BurnedByTab'
  <2>. SUFFICES ASSUME NEW s \in Tabs, NEW k \in Tokens \ past'.failed,
                       burned'[k] = [by |-> "page", tab |-> s]
                PROVE  /\ jar' = k => \E p \in Active' : Rotates(p, s, k)'
                       /\ \A p \in Active' : Rotates(p, s, k)' =>
                             requests'[p].at \in {"burned", "signed"}
    BY DEF BurnedByTab
  <2>1. /\ jar = k => \E p \in Active : Rotates(p, s, k)
        /\ \A p \in Active : Rotates(p, s, k) =>
              requests[p].at \in {"burned", "signed"}
    BY <1>1 DEF TabInv, BurnedByTab
  <2>2. \A p \in Active' : p \in Active /\ Rotates(p, s, k)' = Rotates(p, s, k)
    BY <1>2 DEF Rotates
  <2>3. jar' = k => jar' = jar /\ requests[q].at = "refused"
    <3>1. [by |-> "page", tab |-> s] \in Burners
      BY DEF Burners, Sources
    <3>2. burned[k] # None
      BY <1>1, <3>1, NoneAssumption
    <3>. QED  BY <1>3, <3>2
  <2>. QED  BY <1>2, <2>1, <2>2, <2>3
<1>. QED  BY <1>4, <1>5, <1>6 DEF TabInv

\* Signing in and out: a sign-out burns for itself, a sign-in fills the jar
\* with a new token.
LEMMA TabSigns ==
    ASSUME StateOK, TabInv, NEW t \in Tabs,
           \/ RevokeRefresh(t) \/ LogoutAnswered(t)
           \/ \E l \in Logins : LoginSucceeded(l, t)
    PROVE  TabInv'
<1>1. /\ UNCHANGED requests /\ Active' = Active /\ past'.failed = past.failed
      /\ \A p \in Active : requests[p].at = "signed" => requests[p].next \in Signed
  <2>1. \/ UNCHANGED past
        \/ past'.failed = past.failed
    BY PastEnds, PastLogsIn DEF LogoutAnswered
  <2>. QED  BY <2>1 DEF RevokeRefresh, LogoutAnswered, LoginSucceeded, Active,
            StateOK, RequestsOK
<1>2. OneFlight'
  BY <1>1 DEF TabInv, OneFlight
<1>3. \A p \in Active, s \in Tabs, k \in Tokens : Rotates(p, s, k)' = Rotates(p, s, k)
  BY <1>1 DEF Rotates
<1>4. CASE RevokeRefresh(t)
  <2>1. /\ jar \in Signed /\ UNCHANGED <<jar, tokens>> /\ Signed' = Signed
        /\ burned \in [Tokens -> Burners \cup {None}] /\ Signed \subseteq Tokens
    BY <1>4, SignedTokens DEF RevokeRefresh, StateOK, BrowserOK, StoreOK, Signed
  <2>2. \A k \in Tokens : \/ burned'[k] = burned[k]
                          \/ /\ k = jar
                             /\ burned'[k] = [by |-> "logout", tab |-> t]
    BY <1>4, <2>1 DEF RevokeRefresh, Revoked
  <2>3. NextIsFresh'
    BY <1>1, <2>1, <2>2 DEF TabInv, NextIsFresh, Fresh
  <2>4. \A k \in Tokens, s \in Tabs : burned'[k] = [by |-> "page", tab |-> s] =>
           burned[k] = [by |-> "page", tab |-> s]
    <3>1. \A s \in Tabs : [by |-> "page", tab |-> s] # [by |-> "logout", tab |-> t]
      OBVIOUS
    <3>. QED  BY <2>2, <3>1
  <2>5. BurnedByTab'
    BY <1>1, <1>3, <2>1, <2>4 DEF TabInv, BurnedByTab
  <2>. QED  BY <1>2, <2>3, <2>5 DEF TabInv
<1>5. CASE LogoutAnswered(t)
  <2>1. jar' = None /\ UNCHANGED <<tokens, burned>> /\ Signed' = Signed
    BY <1>5 DEF LogoutAnswered, store, Signed
  <2>2. None \notin Tokens /\ Signed \subseteq Tokens
    BY NoneAssumption, SignedTokens
  <2>3. NextIsFresh'
    BY <1>1, <2>1, <2>2 DEF TabInv, NextIsFresh, Fresh
  <2>4. BurnedByTab'
    BY <1>1, <1>3, <2>1, <2>2 DEF TabInv, BurnedByTab
  <2>. QED  BY <1>2, <2>3, <2>4 DEF TabInv
<1>6. ASSUME NEW l \in Logins, LoginSucceeded(l, t)
      PROVE  TabInv'
  <2>1. PICK n \in Tokens \ Signed : /\ Signed' = Signed \cup {n} /\ jar' = n
                                     /\ UNCHANGED burned
    BY <1>6, LoginSigned
  <2>3. NextIsFresh'
    BY <1>1, <2>1 DEF TabInv, NextIsFresh, Fresh
  <2>4. BurnedByTab'
    <3>1. \A s \in Tabs : burned'[n] # [by |-> "page", tab |-> s]
      <4>1. \A s \in Tabs : [by |-> "page", tab |-> s] \in Burners
        BY DEF Burners, Sources
      <4>. QED  BY <2>1, <4>1, NoneAssumption DEF TabInv, NextIsFresh
    <3>. QED  BY <1>1, <1>3, <2>1, <3>1 DEF TabInv, BurnedByTab
  <2>. QED  BY <1>2, <2>3, <2>4 DEF TabInv
<1>. QED  BY <1>4, <1>5, <1>6

\* Whatever else happens leaves the refreshes and the tokens alone.
LEMMA TabStays ==
    ASSUME TabInv, UNCHANGED <<requests, tokens, burned, jar>>,
           past'.failed = past.failed
    PROVE  TabInv'
<1>1. Active' = Active /\ Signed' = Signed
  BY DEF Active, Signed
<1>2. OneFlight'
  BY <1>1 DEF TabInv, OneFlight
<1>3. NextIsFresh'
  BY <1>1 DEF TabInv, NextIsFresh, Fresh
<1>4. BurnedByTab'
  BY <1>1 DEF TabInv, BurnedByTab, Rotates
<1>. QED  BY <1>2, <1>3, <1>4 DEF TabInv

\* Every step keeps the session of the tab.
LEMMA TabStep == StateOK /\ TabInv /\ [Next]_vars => TabInv'
<1>. SUFFICES ASSUME StateOK, TabInv, [Next]_vars
              PROVE  TabInv'
  OBVIOUS
<1>1. CASE UNCHANGED vars
  BY <1>1, TabStays DEF vars, browser, store
<1>2. CASE ElsewhereStep
  BY <1>2, TabStays, Elsewhere
<1>. QED  BY <1>1, <1>2, NextSteps, TabStarts, TabServed, TabSigned, TabAnswered,
             TabSigns

\* A tab is never refused on a token it burned itself, unless that rotation
\* failed or its answer was lost, however many tabs and refreshes there are.
THEOREM OwnRotationIsNoRefusal == Spec => []TabKeepsItsSession
<1>1. Init => TabInv
  <2>. SUFFICES ASSUME Init
                PROVE  TabInv
    OBVIOUS
  <2>1. Active = {} /\ \A k \in Tokens : burned[k] = None
    BY DEF Init, Active
  <2>2. \A t \in Tabs : [by |-> "page", tab |-> t] # None
    BY NoneAssumption DEF Burners, Sources
  <2>. QED  BY <2>1, <2>2 DEF TabInv, OneFlight, NextIsFresh, BurnedByTab
<1>2. StateOK /\ TabInv => TabKeepsItsSession
  <2>. SUFFICES ASSUME StateOK, TabInv, NEW q \in Active,
                       requests[q].at = "refused", requests[q].by = "page",
                       burned[requests[q].token]
                          = [by |-> "page", tab |-> requests[q].tab]
                PROVE  requests[q].token \in past.failed
    BY DEF TabKeepsItsSession
  <2>1. requests[q].tab \in Tabs /\ requests[q].token \in Tokens
    BY DEF StateOK, RequestsOK, Active, RequestType
  <2>2. Rotates(q, requests[q].tab, requests[q].token)
    BY DEF Rotates
  <2>. QED  BY <2>1, <2>2 DEF TabInv, BurnedByTab
<1>. QED  BY <1>1, <1>2, StateInit, StateStep, TabStep, PTL DEF Spec

-----------------------------------------------------------------------------
(* The session that stays ended *)

\* A refresh starts with the token in the jar: no ended session's, unless the
\* jar had it.
LEMMA EndedStarts ==
    ASSUME StateOK, EndedInv, NEW t \in Tabs, NEW q \in Requests,
           RefreshSession(t, q) \/ TryRefresh(t, q)
    PROVE  EndedInv'
<1>1. /\ q \in Requests \ Active /\ jar # None /\ Active' = Active \cup {q}
      /\ UNCHANGED <<tokens, burned, jar, page, past>>
      /\ requests'[q].at = "sent" /\ requests'[q].token = jar
      /\ \A p \in Active : p # q /\ requests'[p] = requests[p]
  BY RefreshStarts
<1>. QED  BY <1>1 DEF EndedInv, SessionOf, Gone

\* What is burned stays burned, and what presents it is refused before the
\* rotation.
LEMMA EndedServed ==
    ASSUME StateOK, EndedInv, NEW q \in Requests,
           CheckRevoked(q) \/ CheckCutoff(q) \/ Rotate(q) \/ RotationLost(q)
    PROVE  EndedInv'
<1>1. /\ q \in Active /\ requests[q] \in RequestType
      /\ burned \in [Tokens -> Burners \cup {None}]
      /\ UNCHANGED <<tokens, jar, page>>
  BY DEF CheckRevoked, CheckCutoff, Rotate, RotationLost, Active, StateOK,
     RequestsOK, StoreOK, browser, store
<1>2. PICK to \in ServerSteps \ {"signed"} :
         /\ requests' = [requests EXCEPT ![q].at = to]
         /\ \/ to = "refused"
            \/ requests[q].at \in {"checked", "passed"}
            \/ requests[q].at = "sent" /\ burned[requests[q].token] = None
  BY DEF CheckRevoked, CheckCutoff, Rotate, RotationLost, Step, ServerSteps
<1>3. /\ Active' = Active /\ requests'[q].at = to
      /\ \A p \in Active : requests'[p].token = requests[p].token
      /\ \A p \in Active : requests'[p].next = requests[p].next
      /\ \A p \in Active : p # q => requests'[p] = requests[p]
  <2>1. q \in Requests /\ requests[q] # None
    BY <1>1 DEF Active
  <2>. QED  BY <1>2, <2>1, RequestGoesOn DEF Active
<1>4. past'.ended = past.ended /\ past'.overtaken = past.overtaken
  <2>1. PastOK
    BY DEF StateOK
  <2>. QED  BY <2>1 DEF CheckRevoked, CheckCutoff, Rotate, RotationLost, PastOK
<1>5. \A k \in Tokens : burned[k] # None => burned'[k] # None
  <2>1. [by |-> requests[q].by, tab |-> requests[q].tab] # None
    <3>1. [by |-> requests[q].by, tab |-> requests[q].tab] \in Burners
      BY <1>1 DEF RequestType, Burners
    <3>. QED  BY <3>1, NoneAssumption
  <2>. QED  BY <1>1, <2>1
            DEF CheckRevoked, CheckCutoff, Rotate, RotationLost, store
<1>6. \A p \in Active : requests[p].token \in Tokens
  BY SignedTokens DEF StateOK, RequestsOK
<1>7. \A p \in Active : SessionOf(requests[p].token)' \in Gone' =>
         \/ requests'[p].at = "refused"
         \/ requests'[p].at = "sent" /\ burned'[requests[p].token] # None
  <2>. SUFFICES ASSUME NEW p \in Active, SessionOf(requests[p].token) \in Gone,
                       requests'[p].at # "refused"
                PROVE  requests'[p].at = "sent" /\ burned'[requests[p].token] # None
    BY <1>1, <1>3, <1>4 DEF SessionOf, Gone
  <2>1. \/ requests[p].at = "refused"
        \/ requests[p].at = "sent" /\ burned[requests[p].token] # None
    BY DEF EndedInv
  <2>2. p # q
    BY <1>2, <1>3, <2>1
  <2>. QED  BY <1>3, <1>5, <1>6, <2>1, <2>2
<1>8. (jar' # None /\ SessionOf(jar)' \in Gone') =>
         burned'[jar] # None /\ \E t \in Tabs : page'[t] = "leaving"
  <2>1. jar \in Tokens \cup {None}
    BY SignedTokens DEF StateOK, BrowserOK
  <2>. QED  BY <1>1, <1>4, <1>5, <2>1 DEF EndedInv, SessionOf, Gone
<1>9. \A p \in Active : requests'[p].at = "signed" =>
         SessionOf(requests[p].next) = SessionOf(requests[p].token)
  BY <1>3 DEF EndedInv
<1>. QED  BY <1>1, <1>3, <1>7, <1>8, <1>9 DEF EndedInv, SessionOf

\* The next token is of the session that was presented.
LEMMA EndedSigned ==
    ASSUME StateOK, EndedInv, NEW q \in Requests, SignNext(q)
    PROVE  EndedInv'
<1>1. PICK n \in Tokens \ Signed :
         /\ q \in Active /\ requests[q].at = "burned" /\ Active' = Active
         /\ UNCHANGED <<burned, jar, page, past>>
         /\ Signed' = Signed \cup {n}
         /\ \A k \in Signed : tokens'[k] = tokens[k]
         /\ tokens'[n].session = SessionOf(requests[q].token)
         /\ requests'[q].at = "signed" /\ requests'[q].next = n
         /\ \A p \in Active : requests'[p].token = requests[p].token
         /\ \A p \in Active : p # q => requests'[p] = requests[p]
  BY NextSigned
<1>2. /\ \A p \in Active : requests[p].token \in Signed
      /\ \A p \in Active : requests[p].at = "signed" => requests[p].next \in Signed
      /\ jar \in Signed \cup {None}
  BY DEF StateOK, RequestsOK, BrowserOK
<1>3. Gone' = Gone /\ \A k \in Signed : tokens'[k].session = tokens[k].session
  BY <1>1 DEF Gone
<1>4. SessionOf(requests[q].token) \notin Gone
  BY <1>1 DEF EndedInv
<1>5. \A p \in Active : tokens'[requests'[p].token].session \in Gone =>
         \/ requests'[p].at = "refused"
         \/ requests'[p].at = "sent" /\ burned[requests'[p].token] # None
  BY <1>1, <1>2, <1>3, <1>4 DEF EndedInv, SessionOf
<1>6. (jar # None /\ tokens'[jar].session \in Gone) =>
         burned[jar] # None /\ \E t \in Tabs : page[t] = "leaving"
  BY <1>2, <1>3 DEF EndedInv, SessionOf
<1>7. \A p \in Active : requests'[p].at = "signed" =>
         tokens'[requests'[p].next].session = tokens'[requests'[p].token].session
  <2>1. tokens'[requests'[q].next].session = tokens'[requests'[q].token].session
    BY <1>1, <1>2, <1>3 DEF SessionOf
  <2>2. \A p \in Active : p # q /\ requests'[p].at = "signed" =>
           tokens'[requests'[p].next].session = tokens'[requests'[p].token].session
    BY <1>1, <1>2, <1>3 DEF EndedInv, SessionOf
  <2>. QED  BY <2>1, <2>2
<1>. QED  BY <1>1, <1>3, <1>5, <1>6, <1>7 DEF EndedInv, SessionOf

\* A tab that is signing out goes on doing so whatever its refreshes answer.
LEMMA EndedAnswered ==
    ASSUME StateOK, EndedInv, NEW q \in Requests,
           RefreshAnswered(q) \/ RefreshRefused(q)
    PROVE  EndedInv'
<1>1. /\ q \in Active /\ requests' = [requests EXCEPT ![q] = None]
      /\ UNCHANGED <<tokens, burned, past>>
      /\ \/ requests[q].at = "refused" /\ jar' = jar
         \/ requests[q].at = "signed" /\ jar' = requests[q].next
  BY DEF RefreshAnswered, RefreshRefused, Active, store
<1>2. /\ Active' = Active \ {q}
      /\ \A p \in Active' : requests'[p] = requests[p]
  BY <1>1, RequestEnds DEF Active
<1>3. \A t \in Tabs : page[t] = "leaving" => page'[t] = "leaving"
  <2>1. page \in [Tabs -> PageType]
    BY DEF StateOK, BrowserOK
  <2>. QED  BY <2>1 DEF RefreshAnswered, RefreshRefused, Shown
<1>4. requests[q].at = "signed" => SessionOf(requests[q].next) \notin Gone
  BY <1>1 DEF EndedInv
<1>. QED  BY <1>1, <1>2, <1>3, <1>4 DEF EndedInv, SessionOf, Gone

\* A sign-out that Redis heard of, with nothing of the session past its reach,
\* burned all that is left of it.
LEMMA EndedSigns ==
    ASSUME StateOK, EndedInv, NEW t \in Tabs,
           \/ RevokeRefresh(t) \/ LogoutAnswered(t)
           \/ \E l \in Logins : LoginSucceeded(l, t)
    PROVE  EndedInv'
<1>1. /\ \A p \in Active : requests[p].token \in Signed
      /\ \A p \in Active : requests[p].at = "signed" => requests[p].next \in Signed
      /\ \A p \in Active : requests[p].at \in ServerSteps
      /\ jar \in Signed \cup {None} /\ Signed \subseteq Tokens
      /\ burned \in [Tokens -> Burners \cup {None}]
      /\ page \in [Tabs -> PageType]
  BY SignedTokens DEF StateOK, RequestsOK, BrowserOK, StoreOK, Active, RequestType
<1>2. CASE RevokeRefresh(t)
  <2>1. /\ jar \in Signed /\ jar # None /\ UNCHANGED <<requests, jar, tokens>>
        /\ Active' = Active /\ page'[t] = "leaving"
        /\ past'.ended = past.ended \cup {SessionOf(jar)}
        /\ past'.overtaken = IF up /\ ~Rotating(SessionOf(jar))
                             THEN past.overtaken
                             ELSE past.overtaken \cup {SessionOf(jar)}
    BY <1>1, <1>2, PastEnds DEF RevokeRefresh, Active
  <2>2. [by |-> "logout", tab |-> t] # None
    <3>1. [by |-> "logout", tab |-> t] \in Burners
      BY DEF Burners
    <3>. QED  BY <3>1, NoneAssumption
  <2>3. /\ \A k \in Tokens : burned[k] # None => burned'[k] # None
        /\ up => burned'[jar] # None
    BY <1>1, <1>2, <2>1, <2>2 DEF RevokeRefresh, Revoked
  <2>4. \/ Gone' \subseteq Gone \ {SessionOf(jar)}
        \/ /\ up /\ ~Rotating(SessionOf(jar))
           /\ Gone' \subseteq Gone \cup {SessionOf(jar)}
    BY <2>1 DEF Gone
  <2>5. \A p \in Active : SessionOf(requests[p].token) \in Gone' =>
           \/ requests[p].at = "refused"
           \/ requests[p].at = "sent" /\ burned'[requests[p].token] # None
    <3>. SUFFICES ASSUME NEW p \in Active, SessionOf(requests[p].token) \in Gone',
                         requests[p].at # "refused"
                  PROVE  requests[p].at = "sent" /\ burned'[requests[p].token] # None
      OBVIOUS
    <3>1. CASE SessionOf(requests[p].token) \in Gone
      BY <1>1, <2>3, <3>1 DEF EndedInv
    <3>2. CASE SessionOf(requests[p].token) \notin Gone
      <4>1. /\ SessionOf(requests[p].token) = SessionOf(jar)
            /\ up /\ ~Rotating(SessionOf(jar))
        BY <2>4, <3>2
      <4>2. /\ requests[p].at \notin {"checked", "passed", "burned", "signed"}
            /\ ~(requests[p].at = "sent" /\ requests[p].token # jar
                  /\ burned[requests[p].token] = None)
        BY <4>1 DEF Rotating
      <4>3. requests[p].at = "sent"
        BY <1>1, <4>2 DEF ServerSteps
      <4>. QED  BY <1>1, <2>3, <4>1, <4>2, <4>3
    <3>. QED  BY <3>1, <3>2
  <2>6. SessionOf(jar) \in Gone' => burned'[jar] # None
    BY <2>3, <2>4
  <2>7. Gone' = (past.ended \ past.overtaken)' /\ \A k : SessionOf(k)' = SessionOf(k)
    BY <2>1 DEF Gone, SessionOf
  <2>. QED  BY <2>1, <2>5, <2>6, <2>7 DEF EndedInv
<1>3. CASE LogoutAnswered(t)
  BY <1>3 DEF LogoutAnswered, EndedInv, store, Active, Gone, SessionOf
<1>4. ASSUME NEW l \in Logins, LoginSucceeded(l, t)
      PROVE  EndedInv'
  <2>1. PICK n \in Tokens \ Signed :
           /\ UNCHANGED <<burned, requests>>
           /\ past'.ended = past.ended /\ past'.overtaken = past.overtaken
           /\ Signed' = Signed \cup {n} /\ jar' = n
           /\ \A k \in Signed : tokens'[k] = tokens[k]
           /\ tokens'[n].session = n
    BY <1>4, LoginSigned
  <2>2. Active' = Active /\ Gone' = Gone /\ n \notin Gone
    BY <2>1 DEF Active, Gone, StateOK, PastOK
  <2>. QED  BY <1>1, <2>1, <2>2 DEF EndedInv, SessionOf
<1>. QED  BY <1>2, <1>3, <1>4

\* Every step keeps the ended sessions ended.
LEMMA EndedStep == StateOK /\ EndedInv /\ [Next]_vars => EndedInv'
<1>. SUFFICES ASSUME StateOK, EndedInv, [Next]_vars
              PROVE  EndedInv'
  OBVIOUS
<1>1. CASE UNCHANGED vars
  BY <1>1 DEF vars, browser, store, EndedInv, Active, Gone, SessionOf
<1>2. CASE ElsewhereStep
  BY <1>2, Elsewhere DEF EndedInv, Active, Gone, SessionOf
<1>. QED  BY <1>1, <1>2, NextSteps, EndedStarts, EndedServed, EndedSigned,
             EndedAnswered, EndedSigns

-----------------------------------------------------------------------------
(* The password reset *)

\* Signed tokens carry an instant and the password they were signed under.
LEMMA SignedTypes ==
    ASSUME StateOK
    PROVE  \A k \in Signed : tokens[k].iat \in Nat /\ tokens[k].pw \in Nat
<1>1. tokens \in Seq(TokenType) /\ Signed = 1 .. Len(tokens)
  BY SignedTokens DEF StateOK, StoreOK
<1>2. \A k \in Signed : tokens[k] \in TokenType
  BY <1>1
<1>. QED  BY <1>2 DEF TokenType

\* A step that lets no request past the cutoff and spares no less keeps the
\* reset's promise.
LEMMA OldStays ==
    ASSUME StateOK, OldInv, UNCHANGED <<tokens, pw, cutoff>>,
           past'.stamped = past.stamped, past.spared \subseteq past'.spared,
           \A q \in Active' :
              requests'[q].at \in {"passed", "burned", "signed"} =>
                 \/ ~Old(requests'[q].token)
                 \/ SessionOf(requests'[q].token) \in past'.spared
    PROVE  OldInv'
<1>1. Signed' = Signed
  BY DEF Signed
<1>2. \A k : Old(k)' => Old(k)
  BY DEF Old, SessionOf
<1>3. \A q \in Active' :
         requests'[q].at \in {"passed", "burned", "signed"} =>
            ~(tokens[requests'[q].token].pw < past.stamped
               /\ tokens[requests'[q].token].session \notin past'.spared)
  BY DEF Old, SessionOf
<1>. QED  BY <1>1, <1>2, <1>3 DEF OldInv, Old, SessionOf

\* A request that is answered, refused or let past the cutoff.
LEMMA OldServed ==
    ASSUME StateOK, OldInv, NEW q \in Requests,
           CheckRevoked(q) \/ CheckCutoff(q) \/ Rotate(q) \/ RotationLost(q)
    PROVE  OldInv'
<1>1. /\ q \in Active /\ UNCHANGED <<tokens, pw, cutoff>>
      /\ requests[q].token \in Signed
  BY DEF CheckRevoked, CheckCutoff, Rotate, RotationLost, Active, StateOK,
     RequestsOK, account, store
<1>2. PastOK
  BY DEF StateOK
<1>3. past'.stamped = past.stamped /\ past.spared \subseteq past'.spared
  BY <1>2 DEF CheckRevoked, CheckCutoff, Rotate, RotationLost, PastOK
<1>4. PICK to \in ServerSteps \ {"signed"} :
         /\ requests' = [requests EXCEPT ![q].at = to]
         /\ \/ to \in {"refused", "checked"}
            \/ requests[q].at = "passed"
            \/ CheckCutoff(q) /\ ~(up /\ BeforeCutoff(requests[q].token))
  BY DEF CheckRevoked, CheckCutoff, Rotate, RotationLost, Step, ServerSteps
<1>5. /\ Active' = Active /\ requests'[q].at = to
      /\ requests'[q].token = requests[q].token
      /\ \A p \in Active : p # q => requests'[p] = requests[p]
  <2>1. q \in Requests /\ requests[q] # None
    BY <1>1 DEF Active
  <2>. QED  BY <1>1, <1>4, <2>1, RequestGoesOn DEF Active
<1>6. CheckCutoff(q) /\ ~(up /\ BeforeCutoff(requests[q].token)) =>
         \/ ~Old(requests[q].token)
         \/ SessionOf(requests[q].token) \in past'.spared
  <2>1. CASE up
    <3>1. ~BeforeCutoff(requests[q].token) => ~Old(requests[q].token)
      BY <1>1 DEF OldInv, BeforeCutoff
    <3>. QED  BY <2>1, <3>1
  <2>2. CASE ~up
    BY <1>2, <2>2 DEF CheckCutoff, PastOK
  <2>. QED  BY <2>1, <2>2
<1>7. \A p \in Active' :
         requests'[p].at \in {"passed", "burned", "signed"} =>
            \/ ~Old(requests'[p].token)
            \/ SessionOf(requests'[p].token) \in past'.spared
  <2>. SUFFICES ASSUME NEW p \in Active,
                       requests'[p].at \in {"passed", "burned", "signed"}
                PROVE  \/ ~Old(requests'[p].token)
                       \/ SessionOf(requests'[p].token) \in past'.spared
    BY <1>5
  <2>1. CASE p # q
    BY <1>5, <2>1 DEF OldInv
  <2>2. CASE p = q
    <3>1. \/ requests[q].at = "passed"
          \/ CheckCutoff(q) /\ ~(up /\ BeforeCutoff(requests[q].token))
      BY <1>4, <1>5, <2>2
    <3>. QED  BY <1>1, <1>5, <1>6, <2>2, <3>1 DEF OldInv
  <2>. QED  BY <2>1, <2>2
<1>. QED  BY <1>1, <1>3, <1>7, OldStays

\* The token a rotation signs is as old as the one it presented.
LEMMA OldSigned ==
    ASSUME StateOK, OldInv, NEW q \in Requests, SignNext(q)
    PROVE  OldInv'
<1>1. PICK n \in Tokens \ Signed :
         /\ q \in Active /\ requests[q].at = "burned" /\ Active' = Active
         /\ UNCHANGED <<pw, cutoff, past>>
         /\ Signed' = Signed \cup {n}
         /\ \A k \in Signed : tokens'[k] = tokens[k]
         /\ tokens'[n].pw = tokens[requests[q].token].pw
         /\ tokens'[n].session = SessionOf(requests[q].token)
         /\ requests'[q].at = "signed"
         /\ \A p \in Active : requests'[p].token = requests[p].token
         /\ \A p \in Active : p # q => requests'[p] = requests[p]
  BY NextSigned
<1>2. \A p \in Active : requests[p].token \in Signed
  BY DEF StateOK, RequestsOK
<1>3. ~Old(requests[q].token)
  BY <1>1 DEF OldInv
<1>4. /\ \A k \in Signed : Old(k)' = Old(k)
      /\ Old(n)' = Old(requests[q].token)
  BY <1>1 DEF Old, SessionOf
<1>5. \A k \in Signed' : Old(k)' => tokens'[k].iat < cutoff
  BY <1>1, <1>3, <1>4 DEF OldInv
<1>6. \A p \in Active : requests'[p].at \in {"passed", "burned", "signed"} =>
         ~Old(requests[p].token)'
  BY <1>1, <1>2, <1>3, <1>4 DEF OldInv
<1>. QED  BY <1>1, <1>5, <1>6 DEF OldInv, Old, SessionOf

\* A sign-in has a password no reset replaced, or is spared.
LEMMA OldLogin ==
    ASSUME StateOK, OldInv, NEW l \in Logins, NEW t \in Tabs, LoginSucceeded(l, t)
    PROVE  OldInv'
<1>1. PICK n \in Tokens \ Signed :
         /\ UNCHANGED <<requests, pw, cutoff>>
         /\ past'.stamped = past.stamped /\ past.spared \subseteq past'.spared
         /\ Signed' = Signed \cup {n}
         /\ \A k \in Signed : tokens'[k] = tokens[k]
         /\ tokens'[n].session = n
         /\ tokens'[n].pw < past.stamped => n \in past'.spared
  BY LoginSigned
<1>2. (\A p \in Active : requests[p].token \in Signed) /\ Active' = Active
  BY <1>1 DEF StateOK, RequestsOK, Active
<1>3. \A k \in Signed : Old(k)' => Old(k)
  BY <1>1 DEF Old, SessionOf
<1>4. ~Old(n)'
  BY <1>1 DEF Old, SessionOf
<1>. QED  BY <1>1, <1>2, <1>3, <1>4 DEF OldInv

\* The cutoff is after every token that is not spared.
LEMMA OldStamped ==
    ASSUME StateOK, OldInv, StampCutoff
    PROVE  OldInv'
<1>1. /\ UNCHANGED <<tokens, requests, pw>> /\ past'.stamped = pw
      /\ past'.spared = past.spared \cup Spared
      /\ cutoff' = IF up THEN clock ELSE cutoff
      /\ Signed' = Signed /\ Active' = Active
  BY PastStamps DEF StampCutoff, Stamp, store, Signed, Active
<1>2. /\ clock \in Nat /\ pw \in Nat /\ \A k \in Signed : tokens[k].iat \in Nat
      /\ \A p \in Active : requests[p].token \in Signed
  <2>1. clock \in Nat /\ pw \in Nat /\ \A p \in Active : requests[p].token \in Signed
    BY SessionAssumption
       DEF StateOK, WorldOK, AccountOK, RequestsOK, ScenarioType
  <2>. QED  BY <2>1, SignedTypes
<1>3. CASE ~up
  <2>1. \A k \in Signed : tokens[k].session \in Spared
    BY <1>3 DEF Spared, Signed
  <2>2. \A k \in Signed : ~Old(k)'
    BY <1>1, <2>1 DEF Old, SessionOf
  <2>. QED  BY <1>1, <1>2, <2>2 DEF OldInv
<1>4. CASE up
  <2>1. \A k \in Signed : tokens[k].iat >= clock => tokens[k].session \in Spared
    BY <1>4 DEF Spared, Signed
  <2>2. \A k \in Signed : Old(k)' => tokens[k].iat < clock
    BY <1>1, <1>2, <2>1 DEF Old, SessionOf
  <2>3. \A p \in Active : requests[p].at \in {"passed", "burned", "signed"} =>
           SessionOf(requests[p].token) \in Spared
    BY <1>4 DEF Spared
  <2>4. \A p \in Active : requests[p].at \in {"passed", "burned", "signed"} =>
           ~Old(requests[p].token)'
    BY <1>1, <2>3 DEF Old, SessionOf
  <2>. QED  BY <1>1, <1>2, <1>4, <2>2, <2>4 DEF OldInv
<1>. QED  BY <1>3, <1>4

\* Every step keeps the reset's promise.
LEMMA OldStep == StateOK /\ OldInv /\ [Next]_vars => OldInv'
<1>. SUFFICES ASSUME StateOK, OldInv, [Next]_vars
              PROVE  OldInv'
  OBVIOUS
<1>1. CASE UNCHANGED vars
  BY <1>1 DEF vars, account, store, OldInv, Active, Signed, Old, SessionOf
<1>2. CASE ElsewhereStep
  <2>1. CASE StampCutoff
    BY <2>1, OldStamped
  <2>2. CASE UpdatePassword
    <3>1. /\ pw' = pw + 1 /\ UNCHANGED <<tokens, requests, cutoff>>
          /\ past'.stamped = past.stamped /\ past'.spared = past.spared
      BY <2>2 DEF UpdatePassword, store, StateOK, PastOK
    <3>2. /\ pw \in Nat /\ past.stamped \in Nat
          /\ \A k \in Signed : tokens[k].pw \in Nat
      BY SignedTypes DEF StateOK, AccountOK, PastOK
    <3>. QED  BY <3>1, <3>2 DEF OldInv, Active, Signed, Old, SessionOf
  <2>3. CASE ~(UpdatePassword \/ StampCutoff)
    BY <1>2, <2>3, Elsewhere DEF OldInv, Active, Signed, Old, SessionOf
  <2>. QED  BY <2>1, <2>2, <2>3
<1>3. ASSUME NEW t \in Tabs, NEW q \in Requests,
             RefreshSession(t, q) \/ TryRefresh(t, q)
      PROVE  OldInv'
  <2>1. /\ Active' = Active \cup {q} /\ UNCHANGED <<tokens, pw, cutoff, past>>
        /\ requests'[q].at = "sent"
        /\ \A p \in Active : p # q /\ requests'[p] = requests[p]
    BY <1>3, RefreshStarts
  <2>. QED  BY <2>1, OldStays DEF OldInv
<1>4. ASSUME NEW q \in Requests, RefreshAnswered(q) \/ RefreshRefused(q)
      PROVE  OldInv'
  <2>1. /\ q \in Active /\ requests' = [requests EXCEPT ![q] = None]
        /\ UNCHANGED <<tokens, pw, cutoff, past>>
    BY <1>4 DEF RefreshAnswered, RefreshRefused, Active, store, account
  <2>2. Active' = Active \ {q} /\ \A p \in Active' : requests'[p] = requests[p]
    BY <2>1, RequestEnds DEF Active
  <2>. QED  BY <2>1, <2>2, OldStays DEF OldInv
<1>5. ASSUME NEW t \in Tabs, RevokeRefresh(t) \/ LogoutAnswered(t)
      PROVE  OldInv'
  <2>1. /\ UNCHANGED <<tokens, requests, pw, cutoff>>
        /\ past'.stamped = past.stamped /\ past'.spared = past.spared
    BY <1>5, PastEnds DEF RevokeRefresh, LogoutAnswered, store, account
  <2>. QED  BY <2>1 DEF OldInv, Active, Signed, Old, SessionOf
<1>. QED  BY <1>1, <1>2, <1>3, <1>4, <1>5, NextSteps, OldServed, OldSigned, OldLogin

\* A session that was signed out stays out of the jar, unless a refresh of it
\* had passed the revocation check or presented another token.  After a reset no
\* refresh of an older password reaches the rotation, but of the sessions
\* past.spared names: those of the stamp's second, those whose refresh or sign-in
\* had passed its check and signed afterwards, and all while Redis was away.
THEOREM EndedSessionsStayEnded == Spec => []EndedStaysEnded
<1>1. Init => EndedInv /\ OldInv
  <2>. SUFFICES ASSUME Init
                PROVE  EndedInv /\ OldInv
    OBVIOUS
  <2>1. Active = {} /\ Gone = {} /\ Signed = {1} /\ tokens[1].pw = 0
    BY DEF Init, Active, Gone, Signed
  <2>2. past.stamped = 0
    BY DEF Init
  <2>. QED  BY <2>1, <2>2 DEF EndedInv, OldInv, Old
<1>2. EndedInv /\ OldInv => EndedStaysEnded
  <2>. SUFFICES ASSUME EndedInv, OldInv
                PROVE  SignedOutStaysOut /\ OldSessionsEnd
    BY DEF EndedStaysEnded
  <2>1. SignedOutStaysOut
    BY DEF EndedInv, SignedOutStaysOut, Gone
  <2>2. OldSessionsEnd
    BY DEF OldInv, OldSessionsEnd, Old
  <2>. QED  BY <2>1, <2>2
<1>. QED  BY <1>1, <1>2, StateInit, StateStep, EndedStep, OldStep, PTL DEF Spec

-----------------------------------------------------------------------------
(* The guesses that are counted *)

\* The steps of a code, of its entries and of the reset it earns.
CodeStep ==
    \/ RequestOtp \/ CodeLapses \/ UsedUp
    \/ \E v \in Verifies :
          \/ EnterCode(v, TRUE) \/ EnterCode(v, FALSE) \/ ReadAttempts(v)
          \/ WriteAttempts(v) \/ BurnCode(v) \/ Verified(v)
    \/ \E c \in Codes : TicketLapses(c) \/ ConsumeTicket(c)
    \/ UpdatePassword \/ ClearLoginFailures \/ StampCutoff

\* Every other step leaves them and their counts alone.
LEMMA NotCodes ==
    ASSUME StateOK, [Next]_vars, ~CodeStep
    PROVE  /\ UNCHANGED <<code, sent, verifies, tickets, reset>>
           /\ past'.overlap = past.overlap /\ past'.entered = past.entered
           /\ past'.earned = past.earned /\ past'.changed = past.changed
<1>1. PastOK
  BY DEF StateOK
<1>2. CASE UNCHANGED vars
  BY <1>2 DEF vars, codes, account
<1>3. CASE Tick \/ AccessLapses \/ RedisFails \/ RedisReturns \/ LockoutLapses
           \/ SendWindowLapses
  BY <1>3 DEF Tick, AccessLapses, RedisFails, RedisReturns, LockoutLapses,
     SendWindowLapses, codes, account
<1>4. ASSUME NEW t \in Tabs,
             \/ Unauthorized(t) \/ NoRefreshToken(t) \/ Navigate(t)
             \/ LogoutAnswered(t) \/ LogoutRefused(t)
             \/ \E q \in Requests : RefreshSession(t, q) \/ TryRefresh(t, q)
             \/ \E l \in Logins : LoginStep(l, t)
      PROVE  UNCHANGED <<code, sent, verifies, tickets, reset, past>>
  BY <1>4, LoginMoves DEF Unauthorized, NoRefreshToken, Navigate, LogoutAnswered,
     LogoutRefused, RefreshSession, TryRefresh, codes, account
<1>5. ASSUME NEW t \in Tabs,
             RevokeRefresh(t) \/ \E l \in Logins : LoginSucceeded(l, t)
      PROVE  /\ UNCHANGED <<code, sent, verifies, tickets, reset>>
             /\ past'.overlap = past.overlap /\ past'.entered = past.entered
             /\ past'.earned = past.earned /\ past'.changed = past.changed
  <2>1. CASE RevokeRefresh(t)
    BY <2>1, PastEnds DEF RevokeRefresh, codes, account
  <2>2. ASSUME NEW l \in Logins, LoginSucceeded(l, t)
        PROVE  /\ UNCHANGED <<code, sent, verifies, tickets, reset>>
               /\ past'.overlap = past.overlap /\ past'.entered = past.entered
               /\ past'.earned = past.earned /\ past'.changed = past.changed
    BY <2>2, PastLogsIn DEF LoginSucceeded, codes, account
  <2>. QED  BY <1>5, <2>1, <2>2
<1>6. ASSUME NEW q \in Requests,
             \/ CheckRevoked(q) \/ CheckCutoff(q) \/ Rotate(q) \/ SignNext(q)
             \/ RotationLost(q) \/ RefreshAnswered(q) \/ RefreshRefused(q)
      PROVE  /\ UNCHANGED <<code, sent, verifies, tickets, reset>>
             /\ past'.overlap = past.overlap /\ past'.entered = past.entered
             /\ past'.earned = past.earned /\ past'.changed = past.changed
  BY <1>1, <1>6 DEF CheckRevoked, CheckCutoff, Rotate, SignNext, RotationLost,
     RefreshAnswered, RefreshRefused, codes, account, PastOK
<1>. QED  BY <1>2, <1>3, <1>4, <1>5, <1>6 DEF Next, CodeStep, LoginStep

\* An entry that starts overlaps those under way, or is the only one.
LEMMA CountedEnters ==
    ASSUME StateOK, CountedInv, NEW v \in Verifies, NEW right \in BOOLEAN,
           EnterCode(v, right)
    PROVE  CountedInv'
<1>. DEFINE c == code.number
<1>1. /\ v \notin Entering /\ c \in Codes /\ code.attempts < MaxAttempts
      /\ UNCHANGED <<code, sent>>
  BY PastEnters DEF EnterCode
<1>2. /\ past'.entered = [past.entered EXCEPT ![c] = @ + 1]
      /\ past'.earned = past.earned
      /\ past'.overlap = past.overlap \cup
            (IF Entering = {} THEN {} ELSE {c} \cup {verifies[w].code : w \in Entering})
  BY PastEnters DEF Overlapping
<1>3. /\ verifies'[v].code = c /\ verifies'[v].at \in {"right", "wrong"}
      /\ Entering' = Entering \cup {v}
      /\ \A w \in Entering : w # v /\ verifies'[w] = verifies[w]
  <2>. DEFINE e == [at |-> IF right THEN "right" ELSE "wrong", code |-> c,
                    attempts |-> 0]
  <2>1. verifies' = [verifies EXCEPT ![v] = e]
    BY DEF EnterCode
  <2>2. e.code = c /\ e.at \in {"right", "wrong"} /\ e \in VerifyType
    BY <1>1 DEF VerifyType
  <2>3. e # None
    BY <2>2, NoneAssumption
  <2>. HIDE DEF e
  <2>. QED  BY <1>1, <2>1, <2>2, <2>3 DEF Entering, StateOK, CodesOK
<1>4. /\ past.entered \in [Codes -> Nat] /\ past.earned \in [Codes -> Nat]
      /\ code.attempts \in Nat /\ sent \in Nat /\ MaxAttempts \in Nat /\ Codes \subseteq Nat
      /\ \A w \in Entering : verifies[w].attempts \in Nat
  <2>1. \A w \in Entering : verifies[w].attempts \in Nat
    BY DEF StateOK, CodesOK, Entering, VerifyType
  <2>2. MaxAttempts \in Nat /\ MaxCodes \in Nat
    BY SessionAssumption
  <2>. QED  BY <2>1, <2>2 DEF StateOK, PastOK, CodesOK, CodeType, Codes
<1>. HIDE DEF c
<1>5. /\ \A d \in Codes : past'.entered[d] = IF d = c THEN past.entered[d] + 1
                                             ELSE past.entered[d]
      /\ Serial' \subseteq Serial
      /\ c \in Serial' => Entering = {}
      /\ \A w \in Entering : verifies[w].code \notin Serial'
  BY <1>1, <1>2, <1>4 DEF Serial
<1>6. c \in 1 .. sent /\ \A w \in Entering : verifies[w].code \in 1 .. sent
  BY <1>1, <1>4 DEF CountedInv, c, Codes
<1>7. \A w \in Entering' : verifies'[w].code \in 1 .. sent
  BY <1>3, <1>6
<1>8. \A d \in Codes : d > sent => past'.entered[d] = 0 /\ past.earned[d] = 0
  <2>. SUFFICES ASSUME NEW d \in Codes, d > sent
                PROVE  past'.entered[d] = 0 /\ past.earned[d] = 0
    OBVIOUS
  <2>1. d # c
    BY <1>4, <1>6
  <2>2. Unsent(d)
    BY DEF CountedInv
  <2>. QED  BY <1>5, <2>1, <2>2 DEF Unsent
<1>9. \A w \in Entering' : /\ verifies'[w].at \in {"right", "wrong"}
                           /\ verifies'[w].code \in Serial'
                           => Entering' = {w}
  BY <1>3, <1>5
<1>10. \A d \in Serial' : c = d =>
          past'.entered[d] <= code.attempts
             + IF \E w \in Entering' : verifies'[w].code = d THEN 1 ELSE 0
  <2>1. c \in Serial' => past.entered[c] <= code.attempts
    <3>1. c \in Serial /\ Entering = {} =>
             past.entered[c] <= code.attempts + 0
      BY DEF CountedInv, c
    <3>. QED  BY <1>1, <1>4, <1>5, <3>1
  <2>. QED  BY <1>1, <1>3, <1>4, <1>5, <2>1
<1>11. \A d \in Serial', w \in Entering' :
          verifies'[w].at = "count" /\ verifies'[w].code = d
             => past'.entered[d] <= verifies'[w].attempts + 1
  BY <1>3, <1>5
<1>12. \A d \in Serial' : past'.entered[d] <= MaxAttempts
  <2>1. c \in Serial' => past.entered[c] + 1 <= MaxAttempts
    <3>1. c \in Serial /\ Entering = {} =>
             past.entered[c] <= code.attempts + 0
      BY DEF CountedInv, c
    <3>. QED  BY <1>1, <1>4, <1>5, <3>1
  <2>. QED  BY <1>5, <2>1 DEF CountedInv, Serial
<1>13. \A d \in Serial' : past.earned[d] = 1 =>
          c # d /\ \A w \in Entering' : verifies'[w].code # d
  BY <1>3, <1>5 DEF CountedInv, EntryOf, c
<1>. QED  BY <1>1, <1>2, <1>5, <1>7, <1>8, <1>9, <1>10, <1>11, <1>12, <1>13
          DEF CountedInv, EntryOf, Unsent, c

\* A code that is sent has no entries yet; one that is gone takes none.
LEMMA CountedSent ==
    ASSUME StateOK, CountedInv, RequestOtp \/ CodeLapses \/ UsedUp
    PROVE  CountedInv'
<1>1. /\ UNCHANGED <<verifies, past>> /\ sent <= sent'
      /\ \/ code'.number = 0 /\ sent' = sent
         \/ code'.number = sent + 1 /\ sent' = sent + 1
      /\ code'.number <= sent'
      /\ sent \in Nat
  BY DEF RequestOtp, CodeLapses, UsedUp, NoCode, StateOK, CodesOK
<1>2. Entering' = Entering /\ Serial' = Serial
  BY <1>1 DEF Entering, Serial
<1>3. /\ past.entered \in [Codes -> Nat] /\ past.earned \in [Codes -> Nat]
      /\ Codes \subseteq Nat \ {0} /\ Serial \subseteq Codes
  BY DEF StateOK, PastOK, Codes, Serial
<1>4. code'.attempts \in Nat
  BY SessionAssumption DEF RequestOtp, CodeLapses, UsedUp, NoCode
<1>5. \A c \in Codes : code'.number = c =>
         past.entered[c] = 0 /\ past.earned[c] = 0 /\ c > sent
  BY <1>1, <1>3 DEF CountedInv, Unsent
<1>6. \A v \in Entering : verifies[v].code \in 1 .. sent'
  BY <1>1 DEF CountedInv
<1>7. \A c \in Codes : c > sent' => past.entered[c] = 0 /\ past.earned[c] = 0
  BY <1>1, <1>3 DEF CountedInv, Unsent
<1>8. \A c \in Serial : code'.number = c =>
         past.entered[c] <= code'.attempts
            + IF \E v \in Entering : EntryOf(v, c) THEN 1 ELSE 0
  <2>. SUFFICES ASSUME NEW c \in Serial, code'.number = c
                PROVE  0 <= code'.attempts
                          + IF \E v \in Entering : EntryOf(v, c) THEN 1 ELSE 0
    BY <1>3, <1>5
  <2>. QED  BY <1>4
<1>9. \A c \in Serial : past.earned[c] = 1 =>
         code'.number # c /\ \A v \in Entering : ~EntryOf(v, c)
  <2>. SUFFICES ASSUME NEW c \in Serial, past.earned[c] = 1
                PROVE  code'.number # c /\ \A v \in Entering : ~EntryOf(v, c)
    OBVIOUS
  <2>1. c \in Codes /\ past.earned[c] # 0
    BY <1>3
  <2>2. \A v \in Entering : ~EntryOf(v, c)
    BY DEF CountedInv
  <2>. QED  BY <1>5, <2>1, <2>2
<1>. QED  BY <1>1, <1>2, <1>6, <1>7, <1>8, <1>9 DEF CountedInv, EntryOf, Unsent

\* A wrong entry is counted from what was read, whatever was stored since.
LEMMA CountedWrong ==
    ASSUME StateOK, CountedInv, NEW v \in Verifies, ReadAttempts(v)
    PROVE  CountedInv'
<1>1. /\ v \in Entering /\ verifies[v].at = "wrong" /\ UNCHANGED <<code, sent, past>>
      /\ verifies \in [Verifies -> VerifyType \cup {None}]
  BY DEF ReadAttempts, Entering, StateOK, CodesOK
<1>2. /\ past.entered \in [Codes -> Nat] /\ code \in CodeType /\ sent \in Nat
      /\ (code # NoCode => code.number \in Codes) /\ Serial \subseteq Codes
      /\ 0 \notin Codes
  BY DEF StateOK, PastOK, CodesOK, Codes, Serial
<1>. DEFINE e == [at |-> "count", code |-> code.number, attempts |-> code.attempts]
<1>3. verifies' = [verifies EXCEPT ![v] = IF code = NoCode THEN None ELSE e]
  BY DEF ReadAttempts
<1>4. /\ code # NoCode => e \in VerifyType /\ e # None
      /\ e.at = "count" /\ e.code = code.number /\ e.attempts = code.attempts
  <2>1. code # NoCode => e \in VerifyType
    BY <1>2 DEF VerifyType, CodeType
  <2>. QED  BY <2>1, NoneAssumption
<1>. HIDE DEF e
<1>5. /\ \A w \in Entering : w # v => w \in Entering' /\ verifies'[w] = verifies[w]
      /\ \A w \in Entering' : w # v => w \in Entering
      /\ v \in Entering' <=> code # NoCode
      /\ v \in Entering' => verifies'[v] = e
  BY <1>1, <1>3, <1>4 DEF Entering
<1>6. Serial' = Serial
  BY <1>1 DEF Serial
<1>7. code # NoCode => code.number \in 1 .. sent
  BY <1>2 DEF CountedInv, Codes
<1>8. \A w \in Entering' : verifies'[w].code \in 1 .. sent
  BY <1>4, <1>5, <1>7 DEF CountedInv
<1>9. \A w \in Entering' : /\ verifies'[w].at \in {"right", "wrong"}
                           /\ verifies'[w].code \in Serial
                           => Entering' = {w}
  BY <1>1, <1>4, <1>5 DEF CountedInv
<1>10. \A c \in Serial : code.number = c =>
          /\ \E w \in Entering' : verifies'[w].code = c
          /\ past.entered[c] <= code.attempts + 1
  <2>. SUFFICES ASSUME NEW c \in Serial, code.number = c
                PROVE  /\ \E w \in Entering' : verifies'[w].code = c
                       /\ past.entered[c] <= code.attempts + 1
    OBVIOUS
  <2>1. code # NoCode
    BY <1>2 DEF NoCode
  <2>2. past.entered[c] <= code.attempts
           + IF \E w \in Entering : EntryOf(w, c) THEN 1 ELSE 0
    BY DEF CountedInv
  <2>3. code.attempts \in Nat /\ past.entered[c] \in Nat
    BY <1>2 DEF CodeType
  <2>4. past.entered[c] <= code.attempts + 1
    BY <2>2, <2>3
  <2>. QED  BY <1>4, <1>5, <2>1, <2>4
<1>11. \A c \in Serial, w \in Entering' :
          verifies'[w].at = "count" /\ verifies'[w].code = c
             => past.entered[c] <= verifies'[w].attempts + 1
  <2>. SUFFICES ASSUME NEW c \in Serial, NEW w \in Entering',
                       verifies'[w].at = "count", verifies'[w].code = c
                PROVE  past.entered[c] <= verifies'[w].attempts + 1
    OBVIOUS
  <2>1. CASE w = v
    BY <1>4, <1>5, <1>10, <2>1
  <2>2. CASE w # v
    BY <1>5, <2>2 DEF CountedInv, EntryOf
  <2>. QED  BY <2>1, <2>2
<1>12. \A c \in Serial : past.earned[c] = 1 =>
          code.number # c /\ \A w \in Entering' : verifies'[w].code # c
  BY <1>4, <1>5 DEF CountedInv, EntryOf
<1>13. \A c \in Serial : code.number = c =>
          past.entered[c] <= code.attempts
             + IF \E w \in Entering' : verifies'[w].code = c THEN 1 ELSE 0
  BY <1>10
<1>. QED  BY <1>1, <1>6, <1>8, <1>9, <1>11, <1>12, <1>13
          DEF CountedInv, EntryOf, Unsent

\* The write of a wrong entry's count.
LEMMA CountedWrites ==
    ASSUME StateOK, CountedInv, NEW v \in Verifies, WriteAttempts(v)
    PROVE  CountedInv'
<1>. DEFINE c == verifies[v].code
            n == verifies[v].attempts + 1
<1>1. /\ v \in Entering /\ verifies[v].at = "count" /\ UNCHANGED <<sent, past>>
      /\ verifies \in [Verifies -> VerifyType \cup {None}]
      /\ code' = [number |-> c, attempts |-> n]
      /\ verifies[v] \in VerifyType
  BY DEF WriteAttempts, Entering, StateOK, CodesOK
<1>2. /\ past.entered \in [Codes -> Nat] /\ sent \in Nat /\ Serial \subseteq Codes
      /\ n \in Nat
  BY <1>1 DEF StateOK, PastOK, CodesOK, Serial, VerifyType
<1>. DEFINE e == [verifies[v] EXCEPT !.at = "burn"]
<1>3. e \in VerifyType /\ e # None /\ e.at = "burn" /\ e.code = c
  <2>1. e \in VerifyType
    BY <1>1 DEF VerifyType
  <2>. QED  BY <1>1, <2>1, NoneAssumption DEF VerifyType
<1>4. \/ verifies' = [verifies EXCEPT ![v] = None]
      \/ verifies' = [verifies EXCEPT ![v] = e]
  BY DEF WriteAttempts
<1>. HIDE DEF e
<1>5. /\ \A w \in Entering : w # v => w \in Entering' /\ verifies'[w] = verifies[w]
      /\ \A w \in Entering' : w # v => w \in Entering
      /\ v \in Entering' => verifies'[v] = e
  BY <1>1, <1>3, <1>4 DEF Entering
<1>6. Serial' = Serial /\ code'.number = c /\ code'.attempts = n
  BY <1>1 DEF Serial
<1>. HIDE DEF c, n
<1>7. c \in 1 .. sent
  BY <1>1 DEF CountedInv, c
<1>8. \A w \in Entering' : verifies'[w].code \in 1 .. sent
  BY <1>3, <1>5, <1>7 DEF CountedInv
<1>9. \A w \in Entering' : /\ verifies'[w].at \in {"right", "wrong"}
                           /\ verifies'[w].code \in Serial
                           => Entering' = {w}
  BY <1>1, <1>3, <1>5 DEF CountedInv
<1>10. c \in Serial => past.entered[c] <= n
  BY <1>1 DEF CountedInv, EntryOf, c, n
<1>11. \A d \in Serial : c = d =>
          past.entered[d] <= n
             + IF \E w \in Entering' : verifies'[w].code = d THEN 1 ELSE 0
  BY <1>2, <1>10
<1>12. \A d \in Serial, w \in Entering' :
          verifies'[w].at = "count" /\ verifies'[w].code = d
             => past.entered[d] <= verifies'[w].attempts + 1
  BY <1>3, <1>5 DEF CountedInv, EntryOf
<1>13. \A d \in Serial : past.earned[d] = 1 =>
          c # d /\ \A w \in Entering' : verifies'[w].code # d
  BY <1>1, <1>3, <1>5 DEF CountedInv, EntryOf, c
<1>. QED  BY <1>1, <1>6, <1>7, <1>8, <1>9, <1>11, <1>12, <1>13
          DEF CountedInv, EntryOf, Unsent

\* A code with its entries used up is deleted; so is one entered right, which
\* earns the one ticket of a code that has no other entry.
LEMMA CountedEnds ==
    ASSUME StateOK, CountedInv, NEW v \in Verifies, BurnCode(v) \/ Verified(v)
    PROVE  CountedInv'
<1>. DEFINE c == verifies[v].code
<1>1. /\ v \in Entering /\ UNCHANGED sent /\ code'.number = 0
      /\ verifies' = [verifies EXCEPT ![v] = None]
      /\ c \in Codes
  BY DEF BurnCode, Verified, Entering, StateOK, CodesOK, VerifyType, NoCode
<1>2. /\ past.entered \in [Codes -> Nat] /\ past.earned \in [Codes -> Nat]
      /\ Serial \subseteq Codes /\ 0 \notin Codes /\ sent \in Nat /\ Codes \subseteq Nat
  BY DEF StateOK, PastOK, CodesOK, Codes, Serial
<1>3. /\ past'.overlap = past.overlap /\ past'.entered = past.entered
      /\ \/ verifies[v].at = "burn" /\ past'.earned = past.earned
         \/ /\ verifies[v].at = "right"
            /\ past'.earned = [past.earned EXCEPT ![c] = @ + 1]
  <2>1. PastOK
    BY DEF StateOK
  <2>2. CASE BurnCode(v)
    BY <2>2 DEF BurnCode
  <2>3. CASE Verified(v)
    <3>1. past' = [past EXCEPT !.earned = [past.earned EXCEPT ![c] = @ + 1]]
      BY <2>3 DEF Verified
    <3>. QED  BY <2>1, <2>3, <3>1 DEF Verified, PastOK
  <2>. QED  BY <2>2, <2>3
<1>4. /\ Entering' = Entering \ {v} /\ Serial' = Serial
      /\ \A w \in Entering' : verifies'[w] = verifies[w] /\ w # v /\ w \in Entering
  BY <1>1, <1>3 DEF Entering, Serial, StateOK, CodesOK
<1>5. c \in 1 .. sent
  BY <1>1 DEF CountedInv
<1>. HIDE DEF c
<1>6. \A d \in Codes : d # c => past'.earned[d] = past.earned[d]
  BY <1>2, <1>3
<1>7. c \in Serial => past.earned[c] = 0
  <2>. SUFFICES ASSUME c \in Serial, past.earned[c] # 0
                PROVE  FALSE
    OBVIOUS
  <2>1. past.earned[c] <= 1 /\ past.earned[c] \in Nat
    BY <1>2 DEF CountedInv
  <2>2. past.earned[c] = 1
    BY <2>1
  <2>. QED  BY <1>1, <2>2 DEF CountedInv, EntryOf, c
<1>8. c \in Serial => past'.earned[c] <= 1
  BY <1>2, <1>3, <1>7
<1>9. \A d \in Serial : past'.earned[d] <= 1
  BY <1>2, <1>6, <1>8 DEF CountedInv
<1>10. \A w \in Entering' : verifies'[w].code \in 1 .. sent
  BY <1>4 DEF CountedInv
<1>11. \A d \in Codes : d > sent => past.entered[d] = 0 /\ past'.earned[d] = 0
  <2>. SUFFICES ASSUME NEW d \in Codes, d > sent
                PROVE  past.entered[d] = 0 /\ past'.earned[d] = 0
    OBVIOUS
  <2>1. d # c
    BY <1>2, <1>5
  <2>2. Unsent(d)
    BY DEF CountedInv
  <2>. QED  BY <1>6, <2>1, <2>2 DEF Unsent
<1>12. \A w \in Entering' : /\ verifies'[w].at \in {"right", "wrong"}
                           /\ verifies'[w].code \in Serial
                           => Entering' = {w}
  BY <1>1, <1>4 DEF CountedInv
<1>13. \A d \in Serial : code'.number # d
  BY <1>1, <1>2
<1>14. \A d \in Serial, w \in Entering' :
          verifies'[w].at = "count" /\ verifies'[w].code = d
             => past.entered[d] <= verifies'[w].attempts + 1
  BY <1>4 DEF CountedInv, EntryOf
<1>15. \A d \in Serial : past'.earned[d] = 1 =>
          \A w \in Entering' : verifies'[w].code # d
  <2>. SUFFICES ASSUME NEW d \in Serial, past'.earned[d] = 1, NEW w \in Entering',
                       verifies'[w].code = d
                PROVE  FALSE
    OBVIOUS
  <2>1. CASE d = c
    <3>1. verifies[v].at = "right"
      BY <1>2, <1>3, <1>7, <2>1
    <3>2. Entering = {v}
      BY <1>1, <2>1, <3>1 DEF CountedInv, c
    <3>. QED  BY <1>4, <3>2
  <2>2. CASE d # c
    BY <1>2, <1>4, <1>6, <2>2 DEF CountedInv, EntryOf
  <2>. QED  BY <2>1, <2>2
<1>. QED  BY <1>1, <1>2, <1>3, <1>4, <1>9, <1>10, <1>11, <1>12, <1>13, <1>14, <1>15
          DEF CountedInv, EntryOf, Unsent

\* The entries of a code keep their count through every step.
LEMMA CountedStep == StateOK /\ CountedInv /\ [Next]_vars => CountedInv'
<1>. SUFFICES ASSUME StateOK, CountedInv, [Next]_vars
              PROVE  CountedInv'
  OBVIOUS
<1>1. ASSUME UNCHANGED <<code, sent, verifies>>, past'.overlap = past.overlap,
             past'.entered = past.entered, past'.earned = past.earned
      PROVE  CountedInv'
  BY <1>1 DEF CountedInv, Entering, Serial, EntryOf, Unsent
<1>2. CASE ~CodeStep
  BY <1>1, <1>2, NotCodes
<1>3. ASSUME NEW c \in Codes, TicketLapses(c) \/ ConsumeTicket(c)
      PROVE  CountedInv'
  BY <1>1, <1>3 DEF TicketLapses, ConsumeTicket
<1>4. CASE UpdatePassword
  <2>1. PastOK
    BY DEF StateOK
  <2>. QED  BY <1>1, <1>4, <2>1 DEF UpdatePassword, PastOK, codes
<1>5. CASE ClearLoginFailures
  BY <1>1, <1>5 DEF ClearLoginFailures, codes
<1>6. CASE StampCutoff
  BY <1>1, <1>6, PastStamps DEF StampCutoff, codes
<1>. QED  BY <1>2, <1>3, <1>4, <1>5, <1>6, CountedEnters, CountedSent, CountedWrong,
             CountedWrites, CountedEnds DEF CodeStep

\* A ticket is used once, and a password is changed once for it.
LEMMA TicketsStep == StateOK /\ TicketsEarned /\ [Next]_vars => TicketsEarned'
<1>. SUFFICES ASSUME StateOK, TicketsEarned, [Next]_vars
              PROVE  TicketsEarned'
  OBVIOUS
<1>1. /\ tickets \in [Codes -> Nat] /\ past.earned \in [Codes -> Nat]
      /\ past.changed \in [Codes -> Nat] /\ PastOK
      /\ \A c \in Codes : Consumed(c) \in Nat
  BY DEF StateOK, CodesOK, PastOK, Consumed
<1>2. ASSUME UNCHANGED <<tickets, reset>>, past'.earned = past.earned,
             past'.changed = past.changed
      PROVE  TicketsEarned'
  BY <1>2 DEF TicketsEarned, Consumed
<1>3. CASE ~CodeStep
  BY <1>2, <1>3, NotCodes
<1>4. CASE RequestOtp \/ CodeLapses \/ UsedUp
  BY <1>2, <1>4 DEF RequestOtp, CodeLapses, UsedUp, account
<1>5. ASSUME NEW v \in Verifies,
             \/ EnterCode(v, TRUE) \/ EnterCode(v, FALSE) \/ ReadAttempts(v)
             \/ WriteAttempts(v) \/ BurnCode(v)
      PROVE  TicketsEarned'
  BY <1>2, <1>5, PastEnters
     DEF EnterCode, ReadAttempts, WriteAttempts, BurnCode, account
<1>6. ASSUME NEW v \in Verifies, Verified(v)
      PROVE  TicketsEarned'
  <2>1. verifies[v].code \in Codes
    BY <1>6 DEF Verified, StateOK, CodesOK, VerifyType
  <2>2. past' = [past EXCEPT !.earned =
                    [past.earned EXCEPT ![verifies[v].code] = @ + 1]]
    BY <1>6 DEF Verified
  <2>3. /\ past'.earned = [past.earned EXCEPT ![verifies[v].code] = @ + 1]
        /\ past'.changed = past.changed
    BY <1>1, <2>2 DEF PastOK
  <2>4. /\ tickets' = [tickets EXCEPT ![verifies[v].code] = @ + 1]
        /\ \A c \in Codes : Consumed(c)' = Consumed(c)
    BY <1>6 DEF Verified, account, Consumed
  <2>. QED  BY <1>1, <2>1, <2>3, <2>4 DEF TicketsEarned
<1>7. ASSUME NEW d \in Codes, TicketLapses(d)
      PROVE  TicketsEarned'
  <2>1. /\ tickets' = [tickets EXCEPT ![d] = @ - 1] /\ tickets[d] > 0
        /\ past' = past /\ \A c \in Codes : Consumed(c)' = Consumed(c)
    BY <1>7 DEF TicketLapses, account, Consumed
  <2>. QED  BY <1>1, <2>1 DEF TicketsEarned
<1>8. ASSUME NEW d \in Codes, ConsumeTicket(d)
      PROVE  TicketsEarned'
  <2>1. /\ tickets' = [tickets EXCEPT ![d] = @ - 1] /\ tickets[d] > 0 /\ past' = past
        /\ \A c \in Codes : Consumed(c) = 0
        /\ \A c \in Codes : Consumed(c)' = IF c = d THEN 1 ELSE 0
    BY <1>8 DEF ConsumeTicket, Consumed
  <2>. QED  BY <1>1, <2>1 DEF TicketsEarned
<1>9. CASE UpdatePassword
  <2>1. reset.code \in Codes
    BY <1>9 DEF UpdatePassword, StateOK, AccountOK
  <2>2. past' = [past EXCEPT !.changed = [past.changed EXCEPT ![reset.code] = @ + 1]]
    BY <1>9 DEF UpdatePassword
  <2>3. /\ past'.changed = [past.changed EXCEPT ![reset.code] = @ + 1]
        /\ past'.earned = past.earned
    BY <1>1, <2>2 DEF PastOK
  <2>4. /\ UNCHANGED tickets
        /\ \A c \in Codes : Consumed(c) = IF c = reset.code THEN 1 ELSE 0
        /\ \A c \in Codes : Consumed(c)' = 0
    BY <1>9 DEF UpdatePassword, codes, Consumed, StateOK, AccountOK, ResetType
  <2>. QED  BY <1>1, <2>1, <2>3, <2>4 DEF TicketsEarned
<1>10. CASE ClearLoginFailures \/ StampCutoff
  <2>1. UNCHANGED tickets /\ past'.earned = past.earned /\ past'.changed = past.changed
    BY <1>10, PastStamps DEF ClearLoginFailures, StampCutoff, codes
  <2>2. \A c \in Codes : Consumed(c)' = 0
    BY <1>10 DEF ClearLoginFailures, StampCutoff, Consumed, StateOK, AccountOK,
       ResetType
  <2>3. \A c \in Codes : Consumed(c) = 0
    BY <1>10 DEF ClearLoginFailures, StampCutoff, Consumed
  <2>. QED  BY <1>1, <2>1, <2>2, <2>3 DEF TicketsEarned
<1>. QED  BY <1>3, <1>4, <1>5, <1>6, <1>7, <1>8, <1>9, <1>10 DEF CodeStep

\* No two attempts under way share a slot, so there are no more than slots.
LEMMA LoginsCounted ==
    ASSUME NEW S \in SUBSET (Logins \X Tabs), \A a, b \in S : a[1] = b[1] => a = b
    PROVE  IsFiniteSet(S) /\ Cardinality(S) <= Cardinality(Logins)
<1>. DEFINE slot == [a \in S |-> a[1]]
<1>1. slot \in [S -> Logins]
  OBVIOUS
<1>2. \A a, b \in S : slot[a] = slot[b] => a = b
  OBVIOUS
<1>. HIDE DEF slot
<1>3. slot \in Injection(S, Logins)
  BY <1>1, <1>2 DEF Injection, IsInjective
<1>. QED  BY <1>3, FS_Injection, SessionAssumption

\* Each attempt reads the count below the threshold before it adds to it.
LEMMA LockoutStep == StateOK /\ LockoutInv /\ [Next]_vars => LockoutInv'
<1>. SUFFICES ASSUME StateOK, LockoutInv, [Next]_vars
              PROVE  LockoutInv'
  OBVIOUS
<1>1. /\ fails \in Nat /\ logins \subseteq Logins \X Tabs /\ LockThreshold \in Nat
      /\ logins' \subseteq Logins \X Tabs
  BY StateStep, SessionAssumption DEF StateOK, LockoutOK
<1>2. /\ IsFiniteSet(logins) /\ Cardinality(logins) \in Nat
      /\ Cardinality(Logins) \in Nat
  BY <1>1, LoginsCounted, FS_CardinalityType, SessionAssumption
     DEF LockoutInv, LoginsOnce
<1>3. ASSUME logins' \subseteq logins, fails' \in {0, fails}
      PROVE  LockoutInv'
  <2>1. LoginsOnce'
    BY <1>3 DEF LockoutInv, LoginsOnce
  <2>2. Cardinality(logins') <= Cardinality(logins) /\ Cardinality(logins') \in Nat
    BY <1>2, <1>3, FS_Subset, FS_CardinalityType
  <2>3. fails' <= fails /\ fails' \in Nat
    BY <1>1, <1>3
  <2>4. LockoutBound'
    BY <1>1, <1>2, <2>2, <2>3 DEF LockoutInv, LockoutBound
  <2>. QED  BY <2>1, <2>4 DEF LockoutInv
<1>4. ASSUME NEW l \in Logins, NEW t \in Tabs, CheckLockout(l, t)
      PROVE  LockoutInv'
  <2>1. /\ logins' = logins \cup {<<l, t>>} /\ fails' = fails /\ fails < LockThreshold
        /\ \A p \in Tabs : <<l, p>> \notin logins
    BY <1>1, <1>4 DEF CheckLockout, Locked
  <2>2. LoginsOnce'
    BY <1>1, <2>1 DEF LockoutInv, LoginsOnce
  <2>3. Cardinality(logins') <= Cardinality(Logins) /\ Cardinality(logins') \in Nat
    <3>1. IsFiniteSet(logins')
      BY <1>2, <2>1, FS_AddElement
    <3>2. Cardinality(logins') \in Nat
      BY <3>1, FS_CardinalityType
    <3>3. Cardinality(logins') <= Cardinality(Logins)
      BY <1>1, <2>2, LoginsCounted DEF LoginsOnce
    <3>. QED  BY <3>2, <3>3
  <2>. QED  BY <1>1, <1>2, <2>1, <2>2, <2>3 DEF LockoutInv, LockoutBound
<1>5. ASSUME NEW l \in Logins, NEW t \in Tabs, LoginFailed(l, t)
      PROVE  LockoutInv'
  <2>1. /\ logins' = logins \ {<<l, t>>} /\ <<l, t>> \in logins
        /\ fails' \in {fails, fails + 1}
    BY <1>5 DEF LoginFailed
  <2>2. LoginsOnce'
    BY <2>1 DEF LockoutInv, LoginsOnce
  <2>3. Cardinality(logins') = Cardinality(logins) - 1
    BY <1>2, <2>1, FS_RemoveElement
  <2>. QED  BY <1>1, <1>2, <2>1, <2>2, <2>3 DEF LockoutInv, LockoutBound
<1>6. ASSUME NEW l \in Logins, NEW t \in Tabs,
             \/ PasswordMatches(l, t) \/ FailuresCleared(l, t) \/ LoginLost(l, t)
             \/ LoginSucceeded(l, t)
      PROVE  LockoutInv'
  BY <1>3, <1>6 DEF PasswordMatches, FailuresCleared, LoginLost, LoginSucceeded,
     SignInEnds
<1>7. CASE LockoutLapses \/ ClearLoginFailures
  BY <1>3, <1>7 DEF LockoutLapses, ClearLoginFailures
<1>8. CASE UNCHANGED vars
  BY <1>3, <1>8 DEF vars, lockout
<1>9. CASE Tick \/ AccessLapses \/ RedisFails \/ RedisReturns \/ RequestOtp
           \/ SendWindowLapses \/ CodeLapses \/ UsedUp
  BY <1>3, <1>9 DEF Tick, AccessLapses, RedisFails, RedisReturns, RequestOtp,
     SendWindowLapses, CodeLapses, UsedUp, lockout
<1>10. ASSUME NEW t \in Tabs,
              \/ Unauthorized(t) \/ NoRefreshToken(t) \/ Navigate(t)
              \/ RevokeRefresh(t) \/ LogoutAnswered(t) \/ LogoutRefused(t)
              \/ \E q \in Requests : RefreshSession(t, q) \/ TryRefresh(t, q)
       PROVE  LockoutInv'
  BY <1>3, <1>10 DEF Unauthorized, NoRefreshToken, Navigate, RevokeRefresh,
     LogoutAnswered, LogoutRefused, RefreshSession, TryRefresh, lockout
<1>11. ASSUME NEW q \in Requests,
              \/ CheckRevoked(q) \/ CheckCutoff(q) \/ Rotate(q) \/ SignNext(q)
              \/ RotationLost(q) \/ RefreshAnswered(q) \/ RefreshRefused(q)
       PROVE  LockoutInv'
  BY <1>3, <1>11 DEF CheckRevoked, CheckCutoff, Rotate, SignNext, RotationLost,
     RefreshAnswered, RefreshRefused, lockout
<1>12. ASSUME NEW v \in Verifies,
              \/ EnterCode(v, TRUE) \/ EnterCode(v, FALSE) \/ ReadAttempts(v)
              \/ WriteAttempts(v) \/ BurnCode(v) \/ Verified(v)
       PROVE  LockoutInv'
  BY <1>3, <1>12 DEF EnterCode, ReadAttempts, WriteAttempts, BurnCode, Verified,
     lockout
<1>13. ASSUME NEW c \in Codes, TicketLapses(c) \/ ConsumeTicket(c)
       PROVE  LockoutInv'
  BY <1>3, <1>13 DEF TicketLapses, ConsumeTicket, lockout
<1>14. CASE UpdatePassword \/ StampCutoff
  BY <1>3, <1>14 DEF UpdatePassword, StampCutoff, lockout
<1>. QED  BY <1>4, <1>5, <1>6, <1>7, <1>8, <1>9, <1>10, <1>11, <1>12, <1>13, <1>14
          DEF Next

\* A code whose entries never overlapped is compared MaxAttempts times, earns
\* one ticket and changes the password once; sign-ins that overlap the lockout
\* add at most one failure each.
THEOREM EveryGuessCounts == Spec => []GuessesAreCounted
<1>1. Init => CountedInv /\ TicketsEarned /\ LockoutInv
  <2>. SUFFICES ASSUME Init
                PROVE  CountedInv /\ TicketsEarned /\ LockoutInv
    OBVIOUS
  <2>1. /\ Entering = {} /\ code.number = 0 /\ sent = 0 /\ past.overlap = {}
        /\ past.entered = [c \in Codes |-> 0] /\ past.earned = [c \in Codes |-> 0]
        /\ past.changed = [c \in Codes |-> 0] /\ tickets = [c \in Codes |-> 0]
        /\ reset.at = "idle" /\ fails = 0 /\ logins = {}
    BY DEF Init, Entering
  <2>2. MaxAttempts \in Nat /\ LockThreshold \in Nat \ {0} /\ 0 \notin Codes
        /\ Cardinality(Logins) \in Nat
    BY SessionAssumption, FS_CardinalityType DEF Codes
  <2>3. CountedInv
    BY <2>1, <2>2 DEF CountedInv, Serial, Unsent
  <2>4. TicketsEarned
    BY <2>1 DEF TicketsEarned, Consumed
  <2>5. LockoutInv
    BY <2>1, <2>2, FS_EmptySet DEF LockoutInv, LoginsOnce, LockoutBound
  <2>. QED  BY <2>3, <2>4, <2>5
<1>2. StateOK /\ CountedInv /\ TicketsEarned /\ LockoutInv => GuessesAreCounted
  <2>. SUFFICES ASSUME StateOK, CountedInv, TicketsEarned, LockoutInv
                PROVE  SerialCodeIsSpent /\ LockoutBound
    BY DEF GuessesAreCounted
  <2>1. ASSUME NEW c \in Codes \ past.overlap
        PROVE  /\ past.entered[c] <= MaxAttempts /\ past.earned[c] <= 1
               /\ past.changed[c] <= 1
    <3>1. past.entered[c] <= MaxAttempts /\ past.earned[c] <= 1
      BY DEF CountedInv, Serial
    <3>2. tickets[c] + Consumed(c) + past.changed[c] <= past.earned[c]
      BY DEF TicketsEarned
    <3>3. /\ tickets[c] \in Nat /\ Consumed(c) \in Nat /\ past.changed[c] \in Nat
          /\ past.earned[c] \in Nat
      BY DEF StateOK, CodesOK, PastOK, Consumed
    <3>. QED  BY <3>1, <3>2, <3>3
  <2>. QED  BY <2>1 DEF SerialCodeIsSpent, LockoutInv
<1>. QED  BY <1>1, <1>2, StateInit, StateStep, CountedStep, TicketsStep, LockoutStep,
             PTL DEF Spec
=============================================================================
