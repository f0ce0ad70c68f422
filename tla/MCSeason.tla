------------------------------ MODULE MCSeason ------------------------------
(* Instances of Season for TLC: what may happen in one season.             *)
EXTENDS Season

Nothing == [saves |-> 0, moves |-> 0, cancels |-> 0, revives |-> 0,
            manual |-> 0, edits |-> 0, checkouts |-> 0, cancellations |-> 0,
            faults |-> 0, atonce |-> 2]
(* One process repeats the notices; two do, with a resend and two mishaps. *)
Calm == [resends |-> 0, mishaps |-> 0,
         processes |-> {CHOOSE s \in Scanners : TRUE}]
Busy == [resends |-> 1, mishaps |-> 2, processes |-> Scanners]

(* Two saves at once, the first of which finds no schedule.                *)
Overlap == [Nothing EXCEPT !.saves = 2, !.faults = 1]

(* A guest books a departure of a schedule that is saved again.            *)
Resave == [Nothing EXCEPT !.saves = 2, !.checkouts = 1, !.cancellations = 1,
                          !.atonce = 1]

(* What the schedule made is moved, and the operating dates are edited.    *)
Changes == [Nothing EXCEPT !.saves = 1, !.edits = 1, !.moves = 1]

(* What the schedule made is cancelled and revived.                        *)
Undo == [Nothing EXCEPT !.saves = 2, !.cancels = 1, !.revives = 1, !.atonce = 1]

(* A departure with guests is moved, or cancelled, or both.                *)
Move == [Nothing EXCEPT !.manual = 1, !.moves = 2, !.checkouts = 2,
                        !.cancellations = 1]
Tell == [Nothing EXCEPT !.manual = 1, !.cancels = 1, !.checkouts = 2,
                        !.faults = 1]

(* A guest of a cancelled departure is told; the console sends the notice  *)
(* again, and a scan stops.                                                *)
Retry == [Nothing EXCEPT !.manual = 1, !.cancels = 1, !.checkouts = 1,
                         !.atonce = 1]

Seasons ==
    {[left |-> Overlap, operating |-> {0, 2}, budget |-> Calm],
     [left |-> Resave, operating |-> 0 .. 2, budget |-> Calm],
     [left |-> Changes, operating |-> {0, 2}, budget |-> Calm],
     [left |-> Undo, operating |-> 0 .. 1, budget |-> Calm],
     [left |-> Move, operating |-> {0, 1}, budget |-> Calm],
     [left |-> Tell, operating |-> {0}, budget |-> Calm],
     [left |-> Retry, operating |-> {0}, budget |-> Busy]}
=============================================================================
