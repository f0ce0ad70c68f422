------------------------------ MODULE Session -------------------------------
(***************************************************************************)
(* The session of one account: the two cookies of its browser, the         *)
(* single-use refresh tokens behind them, signing in and out, and the      *)
(* reset of a forgotten password.                                          *)
(*                                                                         *)
(* The browser's tabs share one cookie jar.  A call made after the access  *)
(* cookie lapsed is answered 401 and makes its tab refresh; a navigation   *)
(* makes the edge middleware refresh.  The server checks the presented     *)
(* token against the revocation list, then against the cutoff of the last  *)
(* reset, burns it, and signs the next one: four awaits, between which     *)
(* every other request runs.                                               *)
(*                                                                         *)
(* One behaviour is bounded by one scenario of Scenarios, chosen at the    *)
(* start: which tabs are open and how many requests of each kind overlap.  *)
(***************************************************************************)
EXTENDS Naturals, FiniteSets, Sequences

CONSTANTS
    Tabs,          \* the tabs of the browser
    Requests,      \* refresh requests that may be under way
    Verifies,      \* code entries that may be under way
    Logins,        \* sign-in attempts that may be under way
    None,
    MaxTokens,     \* refresh tokens ever signed
    MaxAttempts,   \* wrong entries that burn a code
    MaxSends,      \* codes sent per window
    MaxCodes,      \* codes ever sent
    LockThreshold, \* failed sign-ins that lock the phone
    Scenarios      \* bounds of one behaviour, see ScenarioType

ScenarioType == [tabs: SUBSET Tabs, requests: SUBSET Requests,
                 verifies: SUBSET Verifies, logins: SUBSET Logins,
                 faults: Nat, seconds: Nat \ {0}, tokens: 1 .. MaxTokens,
                 codes: 0 .. MaxCodes, wrong: Nat, lapses: BOOLEAN]

ASSUME SessionAssumption ==
    /\ {MaxTokens, MaxAttempts, MaxSends, LockThreshold} \subseteq Nat \ {0}
    /\ MaxCodes \in Nat
    /\ Scenarios \subseteq ScenarioType
    /\ IsFiniteSet(Logins)

VARIABLES
    bounds,    \* the scenario of this behaviour
    clock,     \* the second every server reads
    up,        \* Redis answers
    faults,    \* faults that already happened
    access,    \* the jar holds a live access cookie
    jar,       \* the refresh token in the jar
    tokens,    \* every refresh token signed
    burned,    \* the revocation list, with who burned each token
    cutoff,    \* the second stamped by the last password reset
    requests,  \* refreshes under way
    page,      \* what each tab shows
    waiting,   \* tabs with a call that was answered 401
    pw,        \* version of the account's password
    code,      \* the stored one-time code: number and wrong entries
    sent,      \* codes sent so far
    sends,     \* sends counted in the window
    verifies,  \* code entries under way
    tickets,   \* unused reset tickets, by the code that earned them
    reset,     \* the password reset under way
    fails,     \* failed sign-ins counted in the window
    logins,    \* sign-in attempts that passed the lockout check
    signing,   \* those of them whose password was compared and right
    past       \* history variables of the properties

world == <<bounds, clock, up, faults>>
browser == <<access, jar, page, waiting>>
store == <<tokens, burned>>
account == <<pw, cutoff, reset>>
codes == <<code, sent, sends, verifies, tickets>>
lockout == <<fails, logins, signing>>
vars == <<world, browser, store, requests, account, codes, lockout, past>>

-----------------------------------------------------------------------------
(* State *)

Tokens == 1 .. MaxTokens
Codes == 1 .. MaxCodes
Sources == {"page", "edge"}
Burners == [by: Sources \cup {"logout"}, tab: Tabs]
ServerSteps == {"sent", "checked", "passed", "burned", "signed", "refused"}
RequestType == [at: ServerSteps, by: Sources, tab: Tabs, token: Tokens,
                next: Tokens \cup {None}]
VerifyType == [at: {"right", "wrong", "count", "burn"}, code: Codes,
               attempts: Nat]
ResetSteps == {"idle", "consumed", "updated", "cleared"}
SigningType == [at: {"matched", "cleared"}, pw: Nat]

ASSUME NoneAssumption ==
    None \notin Tokens \cup Burners \cup RequestType \cup VerifyType
             \cup SigningType

TypeOK ==
    /\ bounds \in Scenarios
    /\ clock \in 1 .. bounds.seconds
    /\ {up, access} \subseteq BOOLEAN
    /\ faults \in 0 .. bounds.faults
    /\ jar \in Tokens \cup {None}
    /\ \E n \in 0 .. MaxTokens :
          tokens \in [1 .. n -> [iat: Nat, pw: Nat, session: Tokens]]
    /\ burned \in [Tokens -> Burners \cup {None}]
    /\ cutoff \in 0 .. bounds.seconds
    /\ requests \in [Requests -> RequestType \cup {None}]
    /\ page \in [Tabs -> {"in", "leaving", "login"}]
    /\ waiting \subseteq Tabs
    /\ pw \in Nat
    /\ code \in [number: 0 .. MaxCodes, attempts: Nat]
    /\ sent \in 0 .. MaxCodes
    /\ sends \in 0 .. MaxSends
    /\ verifies \in [Verifies -> VerifyType \cup {None}]
    /\ tickets \in [Codes -> Nat]
    /\ reset \in [at: ResetSteps, code: 0 .. MaxCodes]
    /\ fails \in Nat
    /\ logins \subseteq Logins \X Tabs
    /\ signing \in [Logins -> SigningType \cup {None}]

Init ==
    /\ bounds \in Scenarios
    /\ clock = 1 /\ up = TRUE /\ faults = 0
    /\ access = TRUE /\ jar = 1
    /\ tokens = <<[iat |-> 1, pw |-> 0, session |-> 1]>>
    /\ burned = [t \in Tokens |-> None]
    /\ cutoff = 0 /\ pw = 0
    /\ requests = [q \in Requests |-> None]
    /\ page = [t \in Tabs |-> "in"] /\ waiting = {}
    /\ code = [number |-> 0, attempts |-> 0] /\ sent = 0 /\ sends = 0
    /\ verifies = [v \in Verifies |-> None]
    /\ tickets = [c \in Codes |-> 0]
    /\ reset = [at |-> "idle", code |-> 0]
    /\ fails = 0 /\ logins = {} /\ signing = [l \in Logins |-> None]
    /\ past = [failed |-> {}, ended |-> {}, overtaken |-> {}, stamped |-> 0,
               spared |-> {}, overlap |-> {}, entered |-> [c \in Codes |-> 0],
               earned |-> [c \in Codes |-> 0], changed |-> [c \in Codes |-> 0]]

Active == {q \in Requests : requests[q] # None}
SessionOf(t) == tokens[t].session

Fault == faults < bounds.faults /\ faults' = faults + 1

(* signTokens: a refresh token with its own jti and the second it was       *)
(* signed in, for a sign-in or for the rotation of an earlier token.       *)
SignTokens(session, password) ==
    tokens' = Append(tokens, [iat |-> clock, pw |-> password,
                              session |-> session])

-----------------------------------------------------------------------------
(* Refresh, on the client *)

(* A call of tab t after the access cookie lapsed: the guard of the API    *)
(* answers 401.                                                            *)
Unauthorized(t) ==
    /\ t \in bounds.tabs /\ page[t] = "in" /\ ~access
    /\ waiting' = waiting \cup {t}
    /\ UNCHANGED <<world, access, jar, page, store, requests, account, codes,
                   lockout, past>>

(* Mutant of Flights: each 401 starts a refresh of its own.                *)
FlightsUnshared(t) == {}

(* The refreshes a tab's own api client has under way: every 401 of the    *)
(* tab waits for the same one.                                             *)
Flights(t) == {q \in Active : requests[q].by = "page" /\ requests[q].tab = t}

Presented(by, t) == [at |-> "sent", by |-> by, tab |-> t, token |-> jar,
                     next |-> None]

RefreshSession(t, q) ==
    /\ t \in waiting /\ Flights(t) = {}
    /\ q \in bounds.requests \ Active
    /\ jar # None
    /\ requests' = [requests EXCEPT ![q] = Presented("page", t)]
    /\ UNCHANGED <<world, browser, store, account, codes, lockout, past>>

(* With no refresh token in the jar there is nothing to present: the tab   *)
(* leaves for the sign-in page.                                            *)
NoRefreshToken(t) ==
    /\ t \in waiting /\ Flights(t) = {} /\ jar = None
    /\ page' = [page EXCEPT ![t] = "login"]
    /\ waiting' = waiting \ {t}
    /\ UNCHANGED <<world, access, jar, store, requests, account, codes,
                   lockout, past>>

(* A navigation of tab t: the middleware lets it through with an access    *)
(* cookie, refreshes first with a refresh token alone, and redirects with  *)
(* neither.  Prefetches are navigations too, so a tab may have several.    *)
Navigate(t) ==
    /\ t \in bounds.tabs /\ page[t] # "leaving"
    /\ access \/ jar = None
    /\ page' = [page EXCEPT ![t] = IF access THEN "in" ELSE "login"]
    /\ page' # page
    /\ UNCHANGED <<world, access, jar, waiting, store, requests, account, codes,
                   lockout, past>>

TryRefresh(t, q) ==
    /\ t \in bounds.tabs /\ page[t] # "leaving"
    /\ ~access /\ jar # None
    /\ q \in bounds.requests \ Active
    /\ requests' = [requests EXCEPT ![q] = Presented("edge", t)]
    /\ UNCHANGED <<world, browser, store, account, codes, lockout, past>>

(* What tab t shows next; one that is signing out awaits that answer.       *)
Shown(t, next) == IF page[t] = "leaving" THEN page ELSE [page EXCEPT ![t] = next]

(* The answer replaces the cookies of the whole browser; the calls of the  *)
(* tab that waited are replayed, one whose 401 is still under way is not   *)
(* among them.                                                             *)
RefreshAnswered(q) ==
    /\ requests[q] # None /\ requests[q].at = "signed"
    /\ LET r == requests[q] IN
          /\ jar' = r.next /\ access' = TRUE
          /\ \/ waiting' = IF r.by = "page" THEN waiting \ {r.tab} ELSE waiting
             \/ UNCHANGED waiting
          /\ page' = IF r.by = "edge" THEN Shown(r.tab, "in") ELSE page
    /\ requests' = [requests EXCEPT ![q] = None]
    /\ UNCHANGED <<world, store, account, codes, lockout, past>>

(* A refused refresh ends the page: the interceptor leaves for the sign-in *)
(* page, the middleware lets the layout find no access cookie and          *)
(* redirect.                                                               *)
RefreshRefused(q) ==
    /\ requests[q] # None /\ requests[q].at = "refused"
    /\ LET r == requests[q] IN
          /\ page' = Shown(r.tab, "login")
          /\ waiting' = IF r.by = "page" THEN waiting \ {r.tab} ELSE waiting
    /\ requests' = [requests EXCEPT ![q] = None]
    /\ UNCHANGED <<world, access, jar, store, account, codes, lockout, past>>

-----------------------------------------------------------------------------
(* Refresh, on the server *)

Step(q, from, to) ==
    /\ requests[q] # None /\ requests[q].at = from
    /\ requests' = [requests EXCEPT ![q].at = to]

(* isRefreshJtiRevoked: without Redis every token counts as revoked.       *)
CheckRevoked(q) ==
    /\ requests[q] # None
    /\ Step(q, "sent", IF up /\ burned[requests[q].token] = None
                         THEN "checked" ELSE "refused")
    /\ UNCHANGED <<world, browser, store, account, codes, lockout, past>>

(* Mutant of BeforeCutoff: the cutoff's own second is taken off.           *)
BeforeCutoffLate(t) == tokens[t].iat + 1 < cutoff

(* Tokens of a second before the last reset are refused.                   *)
BeforeCutoff(t) == tokens[t].iat < cutoff

(* getPwChanged: without Redis there is no cutoff.                         *)
CheckCutoff(q) ==
    /\ requests[q] # None
    /\ Step(q, "checked", IF up /\ BeforeCutoff(requests[q].token)
                            THEN "refused" ELSE "passed")
    /\ past' = IF up THEN past ELSE
                 [past EXCEPT !.spared = @ \cup {SessionOf(requests[q].token)}]
    /\ UNCHANGED <<world, browser, store, account, codes, lockout>>

(* revokeRefreshJti: the presented token is burned, a failure is a 500.    *)
Rotate(q) ==
    /\ requests[q] # None
    /\ Step(q, "passed", IF up THEN "burned" ELSE "refused")
    /\ burned' = IF ~up THEN burned ELSE
          [burned EXCEPT ![requests[q].token] =
              [by |-> requests[q].by, tab |-> requests[q].tab]]
    /\ UNCHANGED <<world, browser, tokens, account, codes, lockout, past>>

SignNext(q) ==
    /\ requests[q] # None /\ requests[q].at = "burned"
    /\ Len(tokens) < bounds.tokens
    /\ LET old == tokens[requests[q].token] IN
          SignTokens(old.session, old.pw)
    /\ requests' = [requests EXCEPT ![q].at = "signed",
                                    ![q].next = Len(tokens) + 1]
    /\ UNCHANGED <<world, browser, burned, account, codes, lockout, past>>

(* The audit row of a rotation fails after the old token was burned, or    *)
(* the answer with the new one is lost.                                    *)
RotationLost(q) ==
    /\ requests[q] # None /\ requests[q].at \in {"burned", "signed"}
    /\ Fault
    /\ requests' = [requests EXCEPT ![q].at = "refused"]
    /\ past' = [past EXCEPT !.failed = @ \cup {requests[q].token}]
    /\ UNCHANGED <<bounds, clock, up, browser, store, account, codes, lockout>>

-----------------------------------------------------------------------------
(* Signing in and out *)

(* What a sign-out cannot reach, since it burns the jar's token alone: a   *)
(* refresh of the session that has passed the revocation check, or one     *)
(* that presented another live token of it (two rotations of one token     *)
(* leave two).                                                             *)
Rotating(session) ==
    \E q \in Active :
       LET r == requests[q] IN
       /\ SessionOf(r.token) = session
       /\ \/ r.at \in {"checked", "passed", "burned", "signed"}
          \/ r.at = "sent" /\ r.token # jar /\ burned[r.token] = None

(* Mutant of Revoked: the sign-out only clears the cookies.                *)
RevokedLeft(t) == burned

Revoked(t) == IF up THEN [burned EXCEPT ![jar] = [by |-> "logout", tab |-> t]]
              ELSE burned

(* POST /auth/logout burns the refresh token of the jar; a failing store   *)
(* is caught and the sign-out goes on.                                     *)
RevokeRefresh(t) ==
    /\ t \in bounds.tabs /\ page[t] = "in" /\ access /\ jar # None
    /\ page' = [page EXCEPT ![t] = "leaving"]
    /\ burned' = Revoked(t)
    /\ past' = [past EXCEPT
          !.ended = @ \cup {SessionOf(jar)},
          !.overtaken = IF up /\ ~Rotating(SessionOf(jar)) THEN @
                        ELSE @ \cup {SessionOf(jar)}]
    /\ UNCHANGED <<world, access, jar, waiting, tokens, requests, account, codes,
                   lockout>>

LogoutAnswered(t) ==
    /\ page[t] = "leaving"
    /\ page' = [page EXCEPT ![t] = "login"]
    /\ access' = FALSE /\ jar' = None
    /\ UNCHANGED <<world, waiting, store, requests, account, codes, lockout, past>>

(* The guard refuses a sign-out without an access cookie, the CSRF check   *)
(* one with a stale token: the page leaves all the same.                   *)
LogoutRefused(t) ==
    /\ t \in bounds.tabs /\ page[t] = "in"
    /\ page' = [page EXCEPT ![t] = "login"]
    /\ waiting' = waiting \ {t}
    /\ UNCHANGED <<world, access, jar, store, requests, account, codes, lockout,
                   past>>

(* Mutant of Locked: the threshold itself is let through.                  *)
LockedLate == fails > LockThreshold

Locked == fails >= LockThreshold

(* login: the lockout is read first, and counts saturate without Redis.    *)
CheckLockout(l, t) ==
    /\ t \in bounds.tabs /\ page[t] = "login"
    /\ l \in bounds.logins /\ ~\E p \in Tabs : <<l, p>> \in logins
    /\ up /\ ~Locked
    /\ logins' = logins \cup {<<l, t>>}
    /\ UNCHANGED <<world, browser, store, requests, account, codes, fails, signing,
                   past>>

LoginFailed(l, t) ==
    /\ <<l, t>> \in logins /\ signing[l] = None
    /\ fails < bounds.wrong
    /\ logins' = logins \ {<<l, t>>}
    /\ fails' = IF up THEN fails + 1 ELSE fails
    /\ UNCHANGED <<world, browser, store, requests, account, codes, signing, past>>

(* The account is read and the password compared with the hash read; what  *)
(* follows are three more awaits, and nobody reads the account again.      *)
PasswordMatches(l, t) ==
    /\ <<l, t>> \in logins /\ signing[l] = None
    /\ signing' = [signing EXCEPT ![l] = [at |-> "matched", pw |-> pw]]
    /\ UNCHANGED <<world, browser, store, requests, account, codes, fails, logins,
                   past>>

SigningAt(l, t, step) ==
    /\ <<l, t>> \in logins
    /\ signing[l] # None /\ signing[l].at = step

FailuresCleared(l, t) ==
    /\ SigningAt(l, t, "matched")
    /\ fails' = IF up THEN 0 ELSE fails
    /\ signing' = [signing EXCEPT ![l].at = "cleared"]
    /\ UNCHANGED <<world, browser, store, requests, account, codes, logins, past>>

SignInEnds(l, t) ==
    /\ logins' = logins \ {<<l, t>>}
    /\ signing' = [signing EXCEPT ![l] = None]

(* The audit row of a sign-in fails: the request does.                     *)
LoginLost(l, t) ==
    /\ SigningAt(l, t, "cleared") /\ Fault
    /\ SignInEnds(l, t)
    /\ UNCHANGED <<bounds, clock, up, browser, store, requests, account, codes,
                   fails, past>>

(* The tokens are signed and their cookies set; a session of a password    *)
(* that a reset has replaced and stamped meanwhile outlives the reset.     *)
LoginSucceeded(l, t) ==
    /\ SigningAt(l, t, "cleared") /\ Len(tokens) < bounds.tokens
    /\ SignInEnds(l, t)
    /\ SignTokens(Len(tokens) + 1, signing[l].pw)
    /\ past' = IF signing[l].pw >= past.stamped THEN past
               ELSE [past EXCEPT !.spared = @ \cup {Len(tokens) + 1}]
    /\ jar' = Len(tokens) + 1 /\ access' = TRUE
    /\ page' = [page EXCEPT ![t] = "in"]
    /\ waiting' = waiting \ {t}
    /\ UNCHANGED <<world, burned, requests, account, codes, fails>>

LockoutLapses ==
    /\ bounds.lapses /\ fails > 0 /\ fails' = 0
    /\ UNCHANGED <<world, browser, store, requests, account, codes, logins,
                   signing, past>>

-----------------------------------------------------------------------------
(* One-time codes *)

(* requestOtp: a new code overwrites the stored one.                       *)
RequestOtp ==
    /\ up /\ sends < MaxSends /\ sent < bounds.codes
    /\ sends' = sends + 1 /\ sent' = sent + 1
    /\ code' = [number |-> sent + 1, attempts |-> 0]
    /\ UNCHANGED <<world, browser, store, requests, account, verifies, tickets,
                   lockout, past>>

SendWindowLapses ==
    /\ bounds.lapses /\ sends > 0 /\ sends' = 0
    /\ UNCHANGED <<world, browser, store, requests, account, code, sent, verifies,
                   tickets, lockout, past>>

NoCode == [number |-> 0, attempts |-> 0]

CodeLapses ==
    /\ bounds.lapses /\ code # NoCode /\ code' = NoCode
    /\ UNCHANGED <<world, browser, store, requests, account, sent, sends, verifies,
                   tickets, lockout, past>>

Entering == {v \in Verifies : verifies[v] # None}

(* The codes entered while another entry of the phone was under way.       *)
Overlapping(c) == past.overlap \cup
    (IF Entering = {} THEN {} ELSE {c} \cup {verifies[v].code : v \in Entering})

(* getOtp and the comparison: a code with its entries used up is deleted.  *)
EnterCode(v, right) ==
    /\ up /\ v \in bounds.verifies \ Entering /\ code # NoCode
    /\ code.attempts < MaxAttempts
    /\ right \/ bounds.wrong > 0
    /\ verifies' = [verifies EXCEPT ![v] =
          [at |-> IF right THEN "right" ELSE "wrong", code |-> code.number,
           attempts |-> 0]]
    /\ past' = [past EXCEPT !.overlap = Overlapping(code.number),
                            !.entered[code.number] = @ + 1]
    /\ UNCHANGED <<world, browser, store, requests, account, code, sent, sends,
                   tickets, lockout>>

UsedUp ==
    /\ up /\ code.attempts >= MaxAttempts
    /\ code' = NoCode
    /\ UNCHANGED <<world, browser, store, requests, account, sent, sends, verifies,
                   tickets, lockout, past>>

(* recordOtpAttempt is a read and a write: the entry it read is written    *)
(* back, whatever happened to the code between the two.                    *)
ReadAttempts(v) ==
    /\ verifies[v] # None /\ verifies[v].at = "wrong"
    /\ verifies' = [verifies EXCEPT ![v] =
          IF code = NoCode THEN None
          ELSE [at |-> "count", code |-> code.number, attempts |-> code.attempts]]
    /\ UNCHANGED <<world, browser, store, requests, account, code, sent, sends,
                   tickets, lockout, past>>

WriteAttempts(v) ==
    /\ verifies[v] # None /\ verifies[v].at = "count"
    /\ LET n == verifies[v].attempts + 1 IN
          /\ code' = [number |-> verifies[v].code, attempts |-> n]
          /\ verifies' = [verifies EXCEPT ![v] =
                IF n < MaxAttempts THEN None ELSE [@ EXCEPT !.at = "burn"]]
    /\ UNCHANGED <<world, browser, store, requests, account, sent, sends, tickets,
                   lockout, past>>

BurnCode(v) ==
    /\ verifies[v] # None /\ verifies[v].at = "burn"
    /\ code' = NoCode
    /\ verifies' = [verifies EXCEPT ![v] = None]
    /\ UNCHANGED <<world, browser, store, requests, account, sent, sends, tickets,
                   lockout, past>>

(* Mutant of Verified: the code is left to lapse by itself.                *)
VerifiedOnly(v) ==
    /\ verifies[v] # None /\ verifies[v].at = "right"
    /\ tickets' = [tickets EXCEPT ![verifies[v].code] = @ + 1]
    /\ verifies' = [verifies EXCEPT ![v] = None]
    /\ past' = [past EXCEPT !.earned[verifies[v].code] = @ + 1]
    /\ UNCHANGED <<world, browser, store, requests, account, code, sent, sends, lockout>>

(* The right code is deleted and earns a ticket.                           *)
Verified(v) ==
    /\ verifies[v] # None /\ verifies[v].at = "right"
    /\ code' = NoCode
    /\ tickets' = [tickets EXCEPT ![verifies[v].code] = @ + 1]
    /\ verifies' = [verifies EXCEPT ![v] = None]
    /\ past' = [past EXCEPT !.earned[verifies[v].code] = @ + 1]
    /\ UNCHANGED <<world, browser, store, requests, account, sent, sends, lockout>>

TicketLapses(c) ==
    /\ bounds.lapses /\ tickets[c] > 0
    /\ tickets' = [tickets EXCEPT ![c] = @ - 1]
    /\ UNCHANGED <<world, browser, store, requests, account, code, sent, sends,
                   verifies, lockout, past>>

-----------------------------------------------------------------------------
(* resetPassword: the ticket, the password, the lockout, the cutoff *)

ConsumeTicket(c) ==
    /\ up /\ reset.at = "idle" /\ tickets[c] > 0
    /\ tickets' = [tickets EXCEPT ![c] = @ - 1]
    /\ reset' = [at |-> "consumed", code |-> c]
    /\ UNCHANGED <<world, browser, store, requests, pw, cutoff, code, sent, sends,
                   verifies, lockout, past>>

UpdatePassword ==
    /\ reset.at = "consumed"
    /\ pw' = pw + 1 /\ reset' = [reset EXCEPT !.at = "updated"]
    /\ past' = [past EXCEPT !.changed[reset.code] = @ + 1]
    /\ UNCHANGED <<world, browser, store, requests, cutoff, codes, lockout>>

ClearLoginFailures ==
    /\ reset.at = "updated"
    /\ fails' = IF up THEN 0 ELSE fails
    /\ reset' = [reset EXCEPT !.at = "cleared"]
    /\ UNCHANGED <<world, browser, store, requests, pw, cutoff, codes, logins,
                   signing, past>>

(* The sessions that outlive the stamp: those signed in the same second,   *)
(* those whose refresh had already passed the cutoff, and every one when   *)
(* Redis is away.                                                          *)
Spared ==
    IF ~up THEN {tokens[t].session : t \in DOMAIN tokens}
    ELSE {tokens[t].session : t \in {u \in DOMAIN tokens : tokens[u].iat >= clock}}
         \cup {SessionOf(requests[q].token) : q \in
                 {r \in Active : requests[r].at \in {"passed", "burned", "signed"}}}

(* Mutant of Stamp: the seconds are rounded up.                            *)
StampUp == clock + 1

Stamp == clock

StampCutoff ==
    /\ reset.at = "cleared"
    /\ cutoff' = IF up THEN Stamp ELSE cutoff
    /\ reset' = [at |-> "idle", code |-> 0]
    /\ past' = [past EXCEPT !.stamped = pw, !.spared = @ \cup Spared]
    /\ UNCHANGED <<world, browser, store, requests, pw, codes, lockout>>

-----------------------------------------------------------------------------
(* The world *)

Later == clock < bounds.seconds /\ clock' = clock + 1

Tick ==
    /\ Later
    /\ UNCHANGED <<bounds, up, faults, browser, store, requests, account, codes,
                   lockout, past>>

(* Fifteen minutes after it was set.                                       *)
AccessLapses ==
    /\ access /\ Later /\ access' = FALSE
    /\ UNCHANGED <<bounds, up, faults, jar, page, waiting, store, requests, account,
                   codes, lockout, past>>

RedisFails ==
    /\ up /\ Fault /\ up' = FALSE
    /\ UNCHANGED <<bounds, clock, browser, store, requests, account, codes, lockout,
                   past>>

RedisReturns ==
    /\ ~up /\ up' = TRUE
    /\ UNCHANGED <<bounds, clock, faults, browser, store, requests, account, codes,
                   lockout, past>>

Next ==
    \/ Tick \/ AccessLapses \/ RedisFails \/ RedisReturns
    \/ \E t \in Tabs :
          \/ Unauthorized(t) \/ NoRefreshToken(t) \/ Navigate(t)
          \/ RevokeRefresh(t) \/ LogoutAnswered(t) \/ LogoutRefused(t)
          \/ \E q \in Requests : RefreshSession(t, q) \/ TryRefresh(t, q)
          \/ \E l \in Logins :
                \/ CheckLockout(l, t) \/ LoginFailed(l, t) \/ PasswordMatches(l, t)
                \/ FailuresCleared(l, t) \/ LoginLost(l, t) \/ LoginSucceeded(l, t)
    \/ \E q \in Requests :
          \/ CheckRevoked(q) \/ CheckCutoff(q) \/ Rotate(q) \/ SignNext(q)
          \/ RotationLost(q) \/ RefreshAnswered(q) \/ RefreshRefused(q)
    \/ LockoutLapses \/ RequestOtp \/ SendWindowLapses \/ CodeLapses \/ UsedUp
    \/ \E v \in Verifies :
          \/ EnterCode(v, TRUE) \/ EnterCode(v, FALSE) \/ ReadAttempts(v)
          \/ WriteAttempts(v) \/ BurnCode(v) \/ Verified(v)
    \/ \E c \in Codes : TicketLapses(c) \/ ConsumeTicket(c)
    \/ UpdatePassword \/ ClearLoginFailures \/ StampCutoff

Spec == Init /\ [][Next]_vars

-----------------------------------------------------------------------------
(* Properties *)

(* A tab is never refused on a token it burned itself, unless that         *)
(* rotation failed or its answer was lost: the 401s of one tab share one   *)
(* refresh (lib/api.ts), so parallel calls do not sign their tab out.      *)
TabKeepsItsSession ==
    \A q \in Active :
       LET r == requests[q] IN
       (r.at = "refused" /\ r.by = "page"
          /\ burned[r.token] = [by |-> "page", tab |-> r.tab])
       => r.token \in past.failed

(* A session that was signed out does not come back into the jar, unless   *)
(* a refresh of it had already passed the revocation check or presented    *)
(* another live token, or Redis was away, when the sign-out burned the     *)
(* token of the jar (AuthService.revokeRefresh).                           *)
SignedOutStaysOut ==
    (jar # None /\ SessionOf(jar) \in past.ended /\ \A t \in Tabs : page[t] # "leaving")
    => SessionOf(jar) \in past.overtaken

(* After a reset has stamped its cutoff, no refresh of an older password's *)
(* session reaches the rotation, whichever tokens that session holds: its  *)
(* next refresh is refused (PasswordResetService.resetPassword).  Excepted *)
(* by name (past.spared): sessions of the stamp's own second, a refresh or *)
(* a sign-in that had passed its check and signed after the stamp, and a   *)
(* stamp or a check without Redis.                                         *)
OldSessionsEnd ==
    \A q \in Active :
       LET r == requests[q] IN
       (r.at = "passed" /\ tokens[r.token].pw < past.stamped)
       => SessionOf(r.token) \in past.spared

(* What was ended stays ended: a signed-out session stays out of the jar,  *)
(* and a password reset ends the sessions of the old password.             *)
EndedStaysEnded == SignedOutStaysOut /\ OldSessionsEnd

(* Quoted: a cutoff is stamped "so any pre-existing session is logged out  *)
(* on its next refresh".  Then no token of an older password is newer than *)
(* the cutoff; a refresh of the stamp's own second, or a refresh or a      *)
(* sign-in under way, signs one (PasswordResetService.resetPassword).      *)
NoneOutlivesReset ==
    \A k \in DOMAIN tokens :
       tokens[k].pw < past.stamped => tokens[k].iat <= cutoff

(* A code whose entries never overlapped is compared at most MaxAttempts   *)
(* times, earns at most one ticket and changes the password at most once   *)
(* (PasswordResetService.verifyOtp, RedisService.recordOtpAttempt).        *)
SerialCodeIsSpent ==
    \A c \in Codes \ past.overlap :
       past.entered[c] <= MaxAttempts /\ past.earned[c] <= 1 /\ past.changed[c] <= 1

(* Sign-ins that overlap the lockout are bounded: each attempt reads the   *)
(* counter before it adds to it (AuthService.login).                       *)
LockoutBound == fails + Cardinality(logins) < LockThreshold + Cardinality(Logins)

(* Wrong guesses are counted, of a code and of a password, up to what      *)
(* overlapping requests can add between a read and a write of the count.   *)
GuessesAreCounted == SerialCodeIsSpent /\ LockoutBound
=============================================================================
