----------------------------- MODULE MCSession ------------------------------
(***************************************************************************)
(* Small instances of Session for TLC.                                     *)
(***************************************************************************)
EXTENDS Session, TLC

Bounded(ts, qs, vs, ls, f, s, k, c, w, d) ==
    [tabs |-> ts, requests |-> qs, verifies |-> vs, logins |-> ls, faults |-> f,
     seconds |-> s, tokens |-> k, codes |-> c, wrong |-> w, lapses |-> d]

Singles(S) == {{x} : x \in S}

(* Two tabs refresh and sign out; one tab does, and signs in again, with a *)
(* fault; one tab does while the password is reset; one tab's refreshes    *)
(* and the middleware's leave two live tokens when it signs out; sign-ins  *)
(* overlap; code entries overlap; a sign-in is under way while the         *)
(* password is reset, and its session refreshes later.                     *)
Overlaps ==
    { Bounded(Tabs, Requests, {}, {}, 0, 2, 3, 0, 0, FALSE) }
    \cup { Bounded(t, Requests, {}, l, 1, 2, 3, 0, 0, FALSE) :
             t \in Singles(Tabs), l \in Singles(Logins) }
    \cup { Bounded(t, Requests, v, {}, 1, 2, 3, 1, 0, FALSE) :
             t \in Singles(Tabs), v \in Singles(Verifies) }
    \cup { Bounded(t, Requests, {}, {}, 0, 2, 4, 0, 0, FALSE) :
             t \in Singles(Tabs) }
    \cup { Bounded(t, {}, v, Logins, 1, 1, 3, 1, 9, TRUE) :
             t \in Singles(Tabs), v \in Singles(Verifies) }
    \cup { Bounded({}, {}, Verifies, {}, 0, 1, 3, 2, 1, FALSE) }
    \cup { Bounded(t, q, v, l, 0, 3, 3, 1, 0, FALSE) :
             t \in Singles(Tabs), q \in Singles(Requests),
             v \in Singles(Verifies), l \in Singles(Logins) }

Symmetric == Permutations(Tabs) \cup Permutations(Requests)
             \cup Permutations(Verifies) \cup Permutations(Logins)
=============================================================================
