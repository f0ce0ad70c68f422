---------------------------- MODULE SeasonProofs ----------------------------
(***************************************************************************)
(* Theorems about Season, for any number of guests, requests, schedules,   *)
(* departures, notices and server processes, any calendar and any number   *)
(* of attempts. Notify comes first, in any company: the retries and the    *)
(* copies of a notice are bounded. That proof counts scans: which have a   *)
(* row on their list, which have just sent it and with which answer.       *)
(***************************************************************************)
EXTENDS Season, TLAPS, FiniteSetTheorems

RowType == [about: Topics \cup {None}, delivered: BOOLEAN, count: Nat,
            next: {"none", "later", "due"}, resent: BOOLEAN, tries: Nat,
            copies: Nat, redo: Nat]
ScanType == [todo: SUBSET (NoteIds \X Nat), row: NoteIds \cup {None},
             read: Nat, ok: BOOLEAN]

Failed(i) == {s \in Scanners : scans[s].row = i /\ ~scans[s].ok}
Took(i) == {s \in Scanners : scans[s].row = i /\ scans[s].ok}
Past(i) == {s \in Scanners : \A m \in scans[s].todo : m[1] # i}

(* A scan only remembers rows in use and counts that are not above theirs, *)
(* and a row it is sending is no longer on its list.                       *)
ScansKnowRows ==
    \A s \in Scanners :
        /\ scans[s].row # None =>
              /\ notes[scans[s].row].about # None
              /\ scans[s].read <= notes[scans[s].row].count
        /\ \A m \in scans[s].todo : /\ notes[m[1]].about # None
                                    /\ m[2] <= notes[m[1]].count
                                    /\ m[1] # scans[s].row

(* A row still open was sent once, once for each attempt it counts, and    *)
(* once for each scan that has yet to count its own.                       *)
TriesCount ==
    \A i \in NoteIds :
        notes[i].about # None /\ ~notes[i].resent /\ ~notes[i].delivered
        => /\ notes[i].tries >= notes[i].count + 1 + Cardinality(Failed(i))
           /\ notes[i].next = "none" => notes[i].count >= MaxAttempts

(* The copies of an open row are those of scans about to record them; those*)
(* of any row, of scans that do not have it on their list.                 *)
CopiesOpen ==
    \A i \in NoteIds : ~notes[i].delivered =>
        notes[i].copies <= notes[i].redo + Cardinality(Took(i))
CopiesPast ==
    \A i \in NoteIds :
        notes[i].copies <= notes[i].redo + Cardinality(Past(i))

(* Only a row in use is on the schedule.                                   *)
UnusedIsBlank ==
    \A i \in NoteIds : notes[i].next # "none" => notes[i].about # None

NotifyInv == /\ NotifyTypeOK /\ ScansKnowRows /\ UnusedIsBlank
             /\ TriesCount /\ CopiesOpen /\ CopiesPast

\* The sets of scans are finite, and numbers of them are naturals.
LEMMA ScanSets ==
    ASSUME NEW S \in SUBSET Scanners
    PROVE  IsFiniteSet(S) /\ Cardinality(S) \in Nat
                          /\ Cardinality(S) <= Cardinality(Scanners)
  BY NotifyAssumption, FS_Subset, FS_CardinalityType

\* A larger set of scans has at least as many.
LEMMA MoreScans ==
    ASSUME NEW S \in SUBSET Scanners, NEW T \in SUBSET S
    PROVE  Cardinality(T) <= Cardinality(S)
  BY ScanSets, FS_Subset

\* One scan more, or one less.
LEMMA OneScan ==
    ASSUME NEW S \in SUBSET Scanners, NEW s \in Scanners
    PROVE  /\ s \notin S => Cardinality(S \cup {s}) = Cardinality(S) + 1
           /\ s \in S => Cardinality(S \ {s}) = Cardinality(S) - 1
  BY ScanSets, FS_AddElement, FS_RemoveElement

\* A row with other numbers of sends is a row.
LEMMA RowNumbers ==
    ASSUME NEW n \in RowType, NEW t \in Nat, NEW c \in Nat, NEW d \in Nat
    PROVE  [n EXCEPT !.tries = t, !.copies = c, !.redo = d] \in RowType
  BY DEF RowType

\* What a row learns of a send: the answer that the provider took it.
LEMMA OkType == \A a \in Answers : Ok(a) \in BOOLEAN
  BY DEF Ok

\* Sending changes the numbers of sends and of copies of a row; a copy the row
\* does not learn of is counted in redo.
LEMMA SentType ==
    ASSUME NEW n \in RowType, NEW a \in Answers
    PROVE  /\ Sent(n, a) \in RowType
           /\ Sent(n, a).tries = n.tries + 1
           /\ Sent(n, a).redo >= n.redo
           /\ Sent(n, a).copies + n.redo =
                 n.copies + Sent(n, a).redo + (IF Ok(a) THEN 1 ELSE 0)
           /\ Sent(n, a).about = n.about
           /\ Sent(n, a).delivered = n.delivered
           /\ Sent(n, a).count = n.count
           /\ Sent(n, a).next = n.next
           /\ Sent(n, a).resent = n.resent
<1>. DEFINE sent(c, d) == [n EXCEPT !.tries = n.tries + 1, !.copies = c,
                                    !.redo = d]
            more == IF a = "refused" THEN n.copies ELSE n.copies + 1
            again == IF a = "lost" THEN n.redo + 1 ELSE n.redo
<1>1. /\ n.tries + 1 \in Nat /\ n.copies \in Nat /\ n.redo \in Nat
      /\ more \in Nat /\ again \in Nat
  BY DEF RowType
<1>2. Sent(n, a) = sent(more, again)
  BY DEF Sent, RowType
<1>3. again >= n.redo
      /\ more + n.redo = n.copies + again + (IF Ok(a) THEN 1 ELSE 0)
  <2>1. CASE a = "took"
    BY <1>1, <2>1 DEF Ok
  <2>2. CASE a = "refused"
    BY <1>1, <2>2 DEF Ok
  <2>3. CASE a = "lost"
    BY <1>1, <2>3 DEF Ok
  <2>. QED  BY <2>1, <2>2, <2>3 DEF Answers
<1>4. ASSUME NEW c \in Nat, NEW d \in Nat
      PROVE  /\ sent(c, d) \in RowType
             /\ sent(c, d).tries = n.tries + 1
             /\ sent(c, d).copies = c /\ sent(c, d).redo = d
             /\ sent(c, d).about = n.about /\ sent(c, d).delivered = n.delivered
             /\ sent(c, d).count = n.count /\ sent(c, d).next = n.next
             /\ sent(c, d).resent = n.resent
  <2>1. sent(c, d) \in RowType
    BY <1>1, RowNumbers
  <2>2. /\ sent(c, d).tries = n.tries + 1
        /\ sent(c, d).copies = c /\ sent(c, d).redo = d
        /\ sent(c, d).about = n.about /\ sent(c, d).delivered = n.delivered
        /\ sent(c, d).count = n.count /\ sent(c, d).next = n.next
        /\ sent(c, d).resent = n.resent
    BY DEF RowType
  <2>. QED  BY <2>1, <2>2
<1>. HIDE DEF sent, more, again
<1>. QED  BY <1>1, <1>2, <1>3, <1>4

\* A row that was just sent for the first time.
FirstSend(n, ok) == /\ n.count = 0 /\ n.tries = 1
                    /\ n.copies <= n.redo + (IF ok THEN 1 ELSE 0)

\* The same, of what the row is sent from: an unused row.
LEMMA SentBlank ==
    ASSUME NEW a \in Answers
    PROVE  Sent(Blank, a) \in RowType /\ FirstSend(Sent(Blank, a), Ok(a))
<1>1. /\ Blank \in RowType /\ Blank.tries = 0 /\ Blank.copies = 0
      /\ Blank.count = 0 /\ Blank.redo = 0
  BY DEF Blank, RowType
<1>2. /\ Sent(Blank, a) \in RowType
      /\ Sent(Blank, a).count = 0 /\ Sent(Blank, a).tries = 0 + 1
      /\ Sent(Blank, a).copies + 0 =
            0 + Sent(Blank, a).redo + (IF Ok(a) THEN 1 ELSE 0)
  BY <1>1, SentType
<1>3. Sent(Blank, a).copies \in Nat /\ Sent(Blank, a).redo \in Nat
  BY <1>2 DEF RowType
<1>. QED  BY <1>2, <1>3 DEF FirstSend

\* What a notice puts in the table.
LEMMA NewRows ==
    ASSUME NEW topic \in Topics, NEW a \in Answers
    PROVE  /\ Recorded(topic, a) \in RowType
           /\ FirstSend(Recorded(topic, a), Ok(a))
           /\ Recorded(topic, a).about = topic
           /\ Recorded(topic, a).delivered = Ok(a)
           /\ ~Ok(a) => Recorded(topic, a).next = "later"
<1>. DEFINE n == Sent(Blank, a)
            next == IF Ok(a) THEN "none" ELSE "later"
<1>1. n \in RowType /\ FirstSend(n, Ok(a)) /\ Ok(a) \in BOOLEAN
  BY SentBlank, OkType
<1>2. next \in {"none", "later"} /\ (~Ok(a) => next = "later")
  OBVIOUS
<1>3. Recorded(topic, a) = [n EXCEPT !.about = topic, !.delivered = Ok(a),
                                     !.next = next]
  BY DEF Recorded
<1>. HIDE DEF n, next
<1>4. Recorded(topic, a) \in RowType
  BY <1>1, <1>2, <1>3 DEF RowType
<1>5. /\ FirstSend(Recorded(topic, a), Ok(a))
      /\ Recorded(topic, a).about = topic
      /\ Recorded(topic, a).next = next
  BY <1>1, <1>3 DEF RowType, FirstSend
<1>6. Recorded(topic, a).delivered = Ok(a)
  BY <1>1, <1>3 DEF RowType
<1>. QED  BY <1>2, <1>4, <1>5, <1>6

ResentRow(topic, a) == [Sent(Blank, a) EXCEPT !.about = topic,
                                              !.delivered = Ok(a),
                                              !.resent = TRUE]

\* What a console resend puts in the table.
LEMMA ResentRows ==
    ASSUME NEW topic \in Topics, NEW a \in Answers
    PROVE  LET n == ResentRow(topic, a)
           IN  /\ n \in RowType /\ FirstSend(n, Ok(a))
               /\ n.about = topic /\ n.delivered = Ok(a) /\ n.resent
<1>. DEFINE n == ResentRow(topic, a)
<1>. DEFINE first == Sent(Blank, a)
<1>1. first \in RowType /\ FirstSend(first, Ok(a)) /\ Ok(a) \in BOOLEAN
  BY SentBlank, OkType
<1>2. n = [first EXCEPT !.about = topic, !.delivered = Ok(a), !.resent = TRUE]
  BY DEF ResentRow
<1>. HIDE DEF first, n
<1>3. n \in RowType
  BY <1>1, <1>2 DEF RowType
<1>4. FirstSend(n, Ok(a)) /\ n.about = topic
  BY <1>1, <1>2 DEF RowType, FirstSend
<1>5. n.delivered = Ok(a)
  BY <1>1, <1>2 DEF RowType
<1>6. n.resent
  BY <1>1, <1>2 DEF RowType
<1>. QED  BY <1>3, <1>4, <1>5, <1>6 DEF n

\* The sets of scans are sets of scans.
LEMMA ScanSetTypes ==
    ASSUME NEW i
    PROVE  /\ Failed(i) \in SUBSET Scanners /\ Took(i) \in SUBSET Scanners
           /\ Past(i) \in SUBSET Scanners
  BY DEF Failed, Took, Past

\* A new row is unknown to every scan.
LEMMA RowAdded ==
    ASSUME NotifyInv, NEW i \in NextRow, NEW n \in RowType, NEW ok \in BOOLEAN,
           FirstSend(n, ok), n.about \in Topics, n.delivered = ok,
           ~ok /\ ~n.resent => n.next = "later",
           notes' = [notes EXCEPT ![i] = n], UNCHANGED scans,
           budget' \in BudgetType
    PROVE  NotifyInv'
<1>. USE DEF NotifyInv
<1>1. i \in NoteIds /\ notes[i].about = None
  BY DEF NextRow, Unused
<1>2. n.about # None
  BY NotifyAssumption
<1>3. notes' \in [NoteIds -> RowType]
  BY DEF NotifyTypeOK, RowType
<1>4. /\ notes'[i] = n
      /\ \A j \in NoteIds \ {i} : notes'[j] = notes[j]
  BY <1>1 DEF NotifyTypeOK
<1>5. NotifyTypeOK'
  BY <1>3 DEF NotifyTypeOK, RowType
<1>6. \A s \in Scanners : /\ scans[s].row # i
                          /\ \A m \in scans[s].todo : m[1] # i
  BY <1>1, NotifyAssumption DEF ScansKnowRows
<1>7. ScansKnowRows'
  <2>. SUFFICES ASSUME NEW s \in Scanners
                PROVE  /\ scans[s].row # None =>
                             /\ notes'[scans[s].row].about # None
                             /\ scans[s].read <= notes'[scans[s].row].count
                       /\ \A m \in scans[s].todo :
                             /\ notes'[m[1]].about # None
                             /\ m[2] <= notes'[m[1]].count
                             /\ m[1] # scans[s].row
    BY DEF ScansKnowRows
  <2>1. scans[s].row \in NoteIds \cup {None}
        /\ \A m \in scans[s].todo : m[1] \in NoteIds
    BY DEF NotifyTypeOK
  <2>. QED  BY <1>4, <1>6, <2>1 DEF ScansKnowRows
<1>8. \A j : Failed(j)' = Failed(j) /\ Took(j)' = Took(j) /\ Past(j)' = Past(j)
  BY DEF Failed, Took, Past
<1>f. n.redo \in Nat /\ n.copies \in Nat
  BY DEF RowType
<1>9. Failed(i) = {} /\ Took(i) = {} /\ Past(i) = Scanners
  BY <1>6 DEF Failed, Took, Past
<1>10. Cardinality({}) = 0 /\ Cardinality(Scanners) \in Nat \ {0}
  BY NotifyAssumption, FS_EmptySet, FS_CardinalityType
<1>11. TriesCount'
  <2>. SUFFICES ASSUME NEW j \in NoteIds, notes'[j].about # None,
                       ~notes'[j].resent, ~notes'[j].delivered
                PROVE  /\ notes'[j].tries >=
                             notes'[j].count + 1 + Cardinality(Failed(j)')
                       /\ notes'[j].next = "none" =>
                             notes'[j].count >= MaxAttempts
    BY DEF TriesCount
  <2>1. CASE j = i
    BY <1>f, <1>4, <1>8, <1>9, <1>10, <2>1 DEF FirstSend
  <2>2. CASE j # i
    BY <1>4, <1>8, <2>2 DEF TriesCount
  <2>. QED  BY <2>1, <2>2
<1>12. CopiesOpen'
  <2>. SUFFICES ASSUME NEW j \in NoteIds, ~notes'[j].delivered
                PROVE  notes'[j].copies <=
                          notes'[j].redo + Cardinality(Took(j)')
    BY DEF CopiesOpen
  <2>1. CASE j = i
    BY <1>f, <1>4, <1>8, <1>9, <1>10, <2>1 DEF FirstSend
  <2>2. CASE j # i
    BY <1>4, <1>8, <2>2 DEF CopiesOpen
  <2>. QED  BY <2>1, <2>2
<1>13. CopiesPast'
  <2>. SUFFICES ASSUME NEW j \in NoteIds
                PROVE  notes'[j].copies <=
                          notes'[j].redo + Cardinality(Past(j)')
    BY DEF CopiesPast
  <2>1. CASE j = i
    BY <1>f, <1>4, <1>8, <1>9, <1>10, <2>1 DEF FirstSend
  <2>2. CASE j # i
    BY <1>4, <1>8, <2>2 DEF CopiesPast
  <2>. QED  BY <2>1, <2>2
<1>14. UnusedIsBlank'
  BY <1>2, <1>4 DEF UnusedIsBlank
<1>. QED  BY <1>5, <1>7, <1>11, <1>12, <1>13, <1>14

\* A notice of another component, and a console resend, add a row.
LEMMA AddsARow ==
    ASSUME NotifyInv,
           \/ Tells
           \/ \E i \in NoteIds : Resend(i)
    PROVE  NotifyInv'
<1>1. CASE Tells
  <2>1. PICK topic \in Topics, a \in Answers :
           Notice(topic, a) /\ UNCHANGED <<scans, budget>>
    BY <1>1 DEF Tells
  <2>2. PICK i \in NextRow : notes' = [notes EXCEPT ![i] = Recorded(topic, a)]
    BY <2>1 DEF Notice
  <2>3. budget' \in BudgetType
    BY <2>1 DEF NotifyInv, NotifyTypeOK
  <2>4. PICK ok, n : ok = Ok(a) /\ n = Recorded(topic, a)
    OBVIOUS
  <2>5. /\ ok \in BOOLEAN /\ n \in RowType /\ FirstSend(n, ok)
        /\ n.about \in Topics /\ n.delivered = ok
        /\ ~ok /\ ~n.resent => n.next = "later"
    BY <2>4, NewRows, OkType
  <2>6. notes' = [notes EXCEPT ![i] = n] /\ UNCHANGED scans
    BY <2>1, <2>2, <2>4
  <2>. QED  BY <2>3, <2>5, <2>6, RowAdded
<1>2. CASE \E i \in NoteIds : Resend(i)
  <2>1. PICK i \in NoteIds : Resend(i)
    BY <1>2
  <2>2. PICK a \in Answers, new \in NextRow :
           notes' = [notes EXCEPT ![new] = ResentRow(notes[i].about, a)]
    BY <2>1 DEF Resend, ResentRow
  <2>3. budget' \in BudgetType
    <3>1. budget \in BudgetType
      BY DEF NotifyInv, NotifyTypeOK
    <3>2. /\ budget' = [budget EXCEPT !.resends = budget.resends - 1]
          /\ budget.resends > 0
      BY <2>1 DEF Resend
    <3>3. budget.resends - 1 \in Nat
      BY <3>1, <3>2 DEF BudgetType
    <3>. QED  BY <3>1, <3>2, <3>3 DEF BudgetType
  <2>4. notes[i].about \in Topics
    BY <2>1 DEF NotifyInv, NotifyTypeOK, Resend, Unused
  <2>5. UNCHANGED scans
    BY <2>1 DEF Resend
  <2>6. PICK ok, n : ok = Ok(a) /\ n = ResentRow(notes[i].about, a)
    OBVIOUS
  <2>7. /\ ok \in BOOLEAN /\ n \in RowType /\ FirstSend(n, ok)
        /\ n.about \in Topics /\ n.delivered = ok /\ n.resent
    BY <2>4, <2>6, ResentRows, OkType
  <2>8. notes' = [notes EXCEPT ![new] = n]
    BY <2>2, <2>6
  <2>. QED  BY <2>3, <2>5, <2>7, <2>8, RowAdded
<1>. QED  BY <1>1, <1>2

\* A retry falls due; nothing else of the row changes.
LEMMA RetryFallsDue ==
    ASSUME NotifyInv, NEW i \in NoteIds, FallsDue(i)
    PROVE  NotifyInv'
<1>1. notes \in [NoteIds -> RowType]
  BY DEF NotifyInv, NotifyTypeOK, RowType
<1>2. /\ notes' = [notes EXCEPT ![i].next = "due"]
      /\ UNCHANGED <<scans, budget>>
  BY DEF FallsDue
<1>3. /\ notes' \in [NoteIds -> RowType]
      /\ notes'[i].next = "due"
      /\ \A j \in NoteIds : j # i => notes'[j] = notes[j]
      /\ \A j \in NoteIds : /\ notes'[j].about = notes[j].about
                            /\ notes'[j].count = notes[j].count
                            /\ notes'[j].tries = notes[j].tries
                            /\ notes'[j].copies = notes[j].copies
                            /\ notes'[j].redo = notes[j].redo
  <2>1. notes' \in [NoteIds -> RowType]
    BY <1>1, <1>2 DEF RowType
  <2>2. /\ notes'[i].next = "due"
        /\ \A j \in NoteIds : j # i => notes'[j] = notes[j]
    BY <1>1, <1>2 DEF RowType
  <2>3. /\ notes'[i].about = notes[i].about
        /\ notes'[i].count = notes[i].count
        /\ notes'[i].tries = notes[i].tries
        /\ notes'[i].copies = notes[i].copies
        /\ notes'[i].redo = notes[i].redo
    BY <1>1, <1>2 DEF RowType
  <2>. QED  BY <2>1, <2>2, <2>3
<1>4. notes'[i].delivered = notes[i].delivered
  BY <1>1, <1>2 DEF RowType
<1>5. notes'[i].resent = notes[i].resent
  BY <1>1, <1>2 DEF RowType
<1>6. \A j : Failed(j)' = Failed(j) /\ Took(j)' = Took(j) /\ Past(j)' = Past(j)
  BY <1>2 DEF Failed, Took, Past
<1>7. NotifyTypeOK'
  BY <1>2, <1>3 DEF NotifyInv, NotifyTypeOK, RowType
<1>8. ScansKnowRows'
  <2>1. \A s \in Scanners : /\ scans[s].row \in NoteIds \cup {None}
                            /\ \A m \in scans[s].todo : m[1] \in NoteIds
    BY DEF NotifyInv, NotifyTypeOK
  <2>. QED  BY <1>2, <1>3, <2>1 DEF NotifyInv, ScansKnowRows
<1>9. TriesCount'
  <2>1. \A j \in NoteIds : notes'[j].next = "none" => notes[j].next = "none"
    BY <1>3
  <2>. QED  BY <1>3, <1>4, <1>5, <1>6, <2>1 DEF NotifyInv, TriesCount
<1>10. CopiesOpen'
  BY <1>3, <1>4, <1>6 DEF NotifyInv, CopiesOpen
<1>11. CopiesPast'
  BY <1>3, <1>6 DEF NotifyInv, CopiesPast
<1>12. UnusedIsBlank'
  <2>1. notes[i].about # None
    BY DEF NotifyInv, UnusedIsBlank, FallsDue
  <2>. QED  BY <1>3, <2>1 DEF NotifyInv, UnusedIsBlank
<1>. QED  BY <1>7, <1>8, <1>9, <1>10, <1>11, <1>12 DEF NotifyInv

\* A scan that only reads: the rows it takes on its list are not delivered.
LEMMA ScanReads ==
    ASSUME NotifyInv, NEW s \in Scanners, ScanRead(s)
    PROVE  NotifyInv'
<1>. DEFINE list == {<<i, notes[i].count>> : i \in Due}
<1>1. /\ scans \in [Scanners -> ScanType] /\ notes \in [NoteIds -> RowType]
      /\ scans[s].row = None
      /\ scans' = [scans EXCEPT ![s].todo = list]
      /\ UNCHANGED <<notes, budget>>
  BY DEF NotifyInv, NotifyTypeOK, ScanRead, ScanType, RowType
<1>2. Due \subseteq NoteIds /\ \A i \in Due : ~notes[i].delivered
  BY DEF Due
<1>3. /\ list \in SUBSET (NoteIds \X Nat)
      /\ \A m \in list : m[1] \in Due /\ m[2] = notes[m[1]].count
  BY <1>1, <1>2 DEF RowType
<1>. HIDE DEF list
<1>4. /\ scans'[s].row = None /\ scans'[s].todo = list
      /\ scans'[s].read = scans[s].read
      /\ \A r \in Scanners : r # s => scans'[r] = scans[r]
      /\ \A r \in Scanners : scans'[r].row = scans[r].row
  BY <1>1 DEF ScanType
<1>5. scans'[s].ok = scans[s].ok
  BY <1>1 DEF ScanType
<1>6. scans' \in [Scanners -> ScanType]
  BY <1>1, <1>3 DEF ScanType
<1>7. NotifyTypeOK'
  BY <1>1, <1>6 DEF NotifyInv, NotifyTypeOK, ScanType
<1>8. \A i \in NoteIds : Failed(i)' = Failed(i) /\ Took(i)' = Took(i)
  BY <1>4, <1>5 DEF Failed, Took
<1>9. ScansKnowRows'
  <2>. SUFFICES ASSUME NEW r \in Scanners
                PROVE  /\ scans'[r].row # None =>
                             /\ notes[scans'[r].row].about # None
                             /\ scans'[r].read <= notes[scans'[r].row].count
                       /\ \A m \in scans'[r].todo :
                             /\ notes[m[1]].about # None
                             /\ m[2] <= notes[m[1]].count
                             /\ m[1] # scans'[r].row
    BY <1>1 DEF ScansKnowRows
  <2>1. CASE r = s
    <3>1. \A i \in Due : notes[i].about # None /\ notes[i].count \in Nat
      <4>1. \A i \in NoteIds : notes[i].next = "due" => notes[i].about # None
        BY DEF NotifyInv, UnusedIsBlank
      <4>. QED  BY <4>1, <1>1 DEF Due, RowType
    <3>2. \A m \in list : /\ notes[m[1]].about # None
                          /\ m[2] <= notes[m[1]].count /\ m[1] # None
      <4>. SUFFICES ASSUME NEW m \in list
                    PROVE  /\ notes[m[1]].about # None
                           /\ m[2] <= notes[m[1]].count /\ m[1] # None
        OBVIOUS
      <4>1. m[1] \in Due /\ m[2] = notes[m[1]].count
        BY <1>3
      <4>2. m[1] # None /\ m[2] \in Nat
        BY <4>1, <1>2, <3>1, NotifyAssumption
      <4>. QED  BY <4>1, <4>2, <3>1
    <3>. QED  BY <1>4, <2>1, <3>2
  <2>2. CASE r # s
    BY <1>4, <2>2 DEF NotifyInv, ScansKnowRows
  <2>. QED  BY <2>1, <2>2
<1>10. TriesCount' /\ CopiesOpen'
  BY <1>1, <1>8 DEF NotifyInv, TriesCount, CopiesOpen
<1>11. CopiesPast'
  <2>. SUFFICES ASSUME NEW i \in NoteIds
                PROVE  notes[i].copies <= notes[i].redo + Cardinality(Past(i)')
    BY <1>1 DEF CopiesPast
  <2>1. /\ notes[i].copies \in Nat /\ notes[i].redo \in Nat
        /\ Past(i)' \in SUBSET Scanners
    BY <1>1 DEF RowType, Past
  <2>2. CASE i \in Due
    <3>1. notes[i].copies <= notes[i].redo + Cardinality(Took(i))
      BY <1>2, <2>2 DEF NotifyInv, CopiesOpen
    <3>2. Took(i) \subseteq Past(i)'
      <4>. SUFFICES ASSUME NEW r \in Scanners, scans[r].row = i, scans[r].ok
                    PROVE  \A m \in scans'[r].todo : m[1] # i
        BY DEF Took, Past
      <4>1. r # s
        BY <1>1, NotifyAssumption
      <4>. QED  BY <1>4, <4>1, NotifyAssumption DEF NotifyInv, ScansKnowRows
    <3>3. /\ Cardinality(Took(i)) <= Cardinality(Past(i)')
          /\ Cardinality(Took(i)) \in Nat /\ Cardinality(Past(i)') \in Nat
      BY <2>1, <3>2, MoreScans, ScanSets, ScanSetTypes
    <3>. QED  BY <2>1, <3>1, <3>3
  <2>3. CASE i \notin Due
    <3>1. notes[i].copies <= notes[i].redo + Cardinality(Past(i))
      BY DEF NotifyInv, CopiesPast
    <3>2. Past(i) \subseteq Past(i)'
      BY <1>3, <1>4, <2>3 DEF Past
    <3>3. /\ Cardinality(Past(i)) <= Cardinality(Past(i)')
          /\ Cardinality(Past(i)) \in Nat /\ Cardinality(Past(i)') \in Nat
      BY <2>1, <3>2, MoreScans, ScanSets, ScanSetTypes
    <3>. QED  BY <2>1, <3>1, <3>3
  <2>. QED  BY <2>2, <2>3
<1>12. UnusedIsBlank'
  BY <1>1 DEF NotifyInv, UnusedIsBlank
<1>. QED  BY <1>7, <1>9, <1>10, <1>11, <1>12 DEF NotifyInv

\* A send: one more try, and one more copy if the provider took it.
LEMMA ScanSends ==
    ASSUME NotifyInv, NEW s \in Scanners, ScanDispatch(s)
    PROVE  NotifyInv'
<1>0. PICK n \in scans[s].todo, a \in Answers :
         /\ scans' = [scans EXCEPT ![s] =
                        [todo |-> {m \in @.todo : m[1] # n[1]},
                         row |-> n[1], read |-> n[2], ok |-> Ok(a)]]
         /\ notes' = [notes EXCEPT ![n[1]] = Sent(@, a)]
  BY DEF ScanDispatch
<1>a. PICK ok \in BOOLEAN : ok = Ok(a)
  BY OkType
<1>1. /\ scans' = [scans EXCEPT ![s] =
                     [todo |-> {m \in @.todo : m[1] # n[1]},
                      row |-> n[1], read |-> n[2], ok |-> ok]]
      /\ notes' = [notes EXCEPT ![n[1]] = Sent(@, a)]
  BY <1>0, <1>a
<1>. DEFINE i == n[1]
            rest == {m \in scans[s].todo : m[1] # n[1]}
<1>2. /\ scans \in [Scanners -> ScanType] /\ notes \in [NoteIds -> RowType]
      /\ scans[s].row = None /\ UNCHANGED budget
  BY DEF NotifyInv, NotifyTypeOK, ScanDispatch, ScanType, RowType
<1>3. /\ i \in NoteIds /\ n[2] \in Nat /\ i # None
      /\ n = <<n[1], n[2]>>
      /\ rest \in SUBSET (NoteIds \X Nat)
  BY <1>2, NotifyAssumption DEF ScanType
<1>4. /\ scans'[s].todo = rest /\ scans'[s].row = i
      /\ scans'[s].read = n[2] /\ scans'[s].ok = ok
      /\ \A r \in Scanners : r # s => scans'[r] = scans[r]
      /\ scans' \in [Scanners -> ScanType]
  <2>1. [todo |-> rest, row |-> i, read |-> n[2], ok |-> ok] \in ScanType
    BY <1>3 DEF ScanType
  <2>2. scans' = [scans EXCEPT ![s] =
                    [todo |-> rest, row |-> i, read |-> n[2], ok |-> ok]]
    BY <1>1
  <2>. HIDE DEF rest, i
  <2>. QED  BY <1>2, <2>1, <2>2
<1>5. /\ notes'[i] = Sent(notes[i], a) /\ notes[i] \in RowType
      /\ \A j \in NoteIds : j # i => notes'[j] = notes[j]
      /\ notes' \in [NoteIds -> RowType]
  <2>1. notes' = [notes EXCEPT ![i] = Sent(notes[i], a)]
    BY <1>1
  <2>2. notes[i] \in RowType
    BY <1>2, <1>3
  <2>3. Sent(notes[i], a) \in RowType
    BY <2>2, SentType
  <2>. HIDE DEF i
  <2>. QED  BY <1>2, <1>3, <2>1, <2>2, <2>3
<1>6. \A m \in rest : m[1] # i /\ m \in scans[s].todo
  OBVIOUS
<1>. HIDE DEF rest, i
<1>7. /\ notes'[i].tries = notes[i].tries + 1
      /\ notes'[i].redo >= notes[i].redo
      /\ notes'[i].copies + notes[i].redo =
            notes[i].copies + notes'[i].redo + (IF ok THEN 1 ELSE 0)
      /\ notes'[i].about = notes[i].about
      /\ notes'[i].delivered = notes[i].delivered
      /\ notes'[i].count = notes[i].count
      /\ notes'[i].next = notes[i].next
      /\ notes'[i].resent = notes[i].resent
  BY <1>5, <1>a, SentType
<1>b. {notes[i].copies, notes'[i].copies, notes[i].redo, notes'[i].redo}
         \subseteq Nat
  BY <1>3, <1>5 DEF RowType
<1>8. NotifyTypeOK'
  BY <1>2, <1>4, <1>5 DEF NotifyInv, NotifyTypeOK, ScanType, RowType
<1>9. notes[i].about # None /\ n[2] <= notes[i].count
  BY DEF NotifyInv, ScansKnowRows, i
<1>10. \A j \in NoteIds : /\ notes'[j].about = notes[j].about
                          /\ notes'[j].count = notes[j].count
  BY <1>5, <1>7
<1>11. ScansKnowRows'
  <2>. SUFFICES ASSUME NEW r \in Scanners
                PROVE  /\ scans'[r].row # None =>
                             /\ notes'[scans'[r].row].about # None
                             /\ scans'[r].read <= notes'[scans'[r].row].count
                       /\ \A m \in scans'[r].todo :
                             /\ notes'[m[1]].about # None
                             /\ m[2] <= notes'[m[1]].count
                             /\ m[1] # scans'[r].row
    BY DEF ScansKnowRows
  <2>1. /\ scans[r].row \in NoteIds \cup {None}
        /\ \A m \in scans[r].todo : m[1] \in NoteIds
    BY <1>2 DEF ScanType
  <2>2. CASE r = s
    BY <1>3, <1>4, <1>6, <1>9, <1>10, <2>1, <2>2 DEF NotifyInv, ScansKnowRows
  <2>3. CASE r # s
    BY <1>4, <1>10, <2>1, <2>3 DEF NotifyInv, ScansKnowRows
  <2>. QED  BY <2>2, <2>3
<1>12. UnusedIsBlank'
  BY <1>5, <1>7, <1>9 DEF NotifyInv, UnusedIsBlank
<1>13. \A j \in NoteIds : j # i => /\ Failed(j)' = Failed(j)
                                   /\ Took(j)' = Took(j)
                                   /\ Past(j) \subseteq Past(j)'
  <2>. SUFFICES ASSUME NEW j \in NoteIds, j # i
                PROVE  /\ Failed(j)' = Failed(j) /\ Took(j)' = Took(j)
                       /\ Past(j) \subseteq Past(j)'
    OBVIOUS
  <2>1. j # None
    BY NotifyAssumption
  <2>2. Failed(j)' = Failed(j) /\ Took(j)' = Took(j)
    BY <1>2, <1>4, <2>1 DEF Failed, Took
  <2>3. Past(j) \subseteq Past(j)'
    BY <1>4, <1>6 DEF Past
  <2>. QED  BY <2>2, <2>3
<1>14. /\ s \notin Failed(i) /\ s \notin Took(i) /\ s \notin Past(i)
       /\ s \in Past(i)' /\ Past(i) \subseteq Past(i)'
  <2>1. s \notin Failed(i) /\ s \notin Took(i)
    BY <1>2, <1>3 DEF Failed, Took
  <2>2. s \notin Past(i)
    BY DEF Past, i
  <2>3. s \in Past(i)' /\ Past(i) \subseteq Past(i)'
    BY <1>4, <1>6 DEF Past
  <2>. QED  BY <2>1, <2>2, <2>3
<1>15. /\ Failed(i)' = IF ok THEN Failed(i) ELSE Failed(i) \cup {s}
       /\ Took(i)' = IF ok THEN Took(i) \cup {s} ELSE Took(i)
  <2>1. CASE ok = TRUE
    BY <1>2, <1>3, <1>4, <2>1 DEF Failed, Took
  <2>2. CASE ok = FALSE
    BY <1>2, <1>3, <1>4, <2>2 DEF Failed, Took
  <2>. QED  BY <2>1, <2>2
<1>16. \A j \in NoteIds : /\ Failed(j) \in SUBSET Scanners
                          /\ Took(j) \in SUBSET Scanners
                          /\ Past(j) \in SUBSET Scanners
                          /\ Past(j)' \in SUBSET Scanners
                          /\ Cardinality(Failed(j)) \in Nat
                          /\ Cardinality(Took(j)) \in Nat
                          /\ Cardinality(Past(j)) \in Nat
                          /\ Cardinality(Past(j)') \in Nat
  <2>1. \A j \in NoteIds : Past(j)' \in SUBSET Scanners
    BY DEF Past
  <2>. QED  BY <2>1, ScanSetTypes, ScanSets
<1>17. TriesCount'
  <2>. SUFFICES ASSUME NEW j \in NoteIds, notes'[j].about # None,
                       ~notes'[j].resent, ~notes'[j].delivered
                PROVE  /\ notes'[j].tries >=
                             notes'[j].count + 1 + Cardinality(Failed(j)')
                       /\ notes'[j].next = "none" =>
                             notes'[j].count >= MaxAttempts
    BY DEF TriesCount
  <2>1. CASE j = i
    <3>1. /\ notes[i].tries >= notes[i].count + 1 + Cardinality(Failed(i))
          /\ notes[i].next = "none" => notes[i].count >= MaxAttempts
      BY <1>3, <1>7, <2>1 DEF NotifyInv, TriesCount
    <3>2. Cardinality(Failed(i)') <= Cardinality(Failed(i)) + 1
          /\ Cardinality(Failed(i)') \in Nat
      BY <1>3, <1>14, <1>15, <1>16, OneScan
    <3>3. notes[i].tries \in Nat /\ notes[i].count \in Nat
      BY <1>5 DEF RowType
    <3>. QED  BY <1>3, <1>7, <1>16, <2>1, <3>1, <3>2, <3>3
  <2>2. CASE j # i
    BY <1>5, <1>13, <2>2 DEF NotifyInv, TriesCount
  <2>. QED  BY <2>1, <2>2
<1>18. CopiesOpen'
  <2>. SUFFICES ASSUME NEW j \in NoteIds, ~notes'[j].delivered
                PROVE  notes'[j].copies <=
                          notes'[j].redo + Cardinality(Took(j)')
    BY DEF CopiesOpen
  <2>1. CASE j = i
    <3>1. notes[i].copies <= notes[i].redo + Cardinality(Took(i))
      BY <1>3, <1>7, <2>1 DEF NotifyInv, CopiesOpen
    <3>2. /\ ok => Cardinality(Took(i)') = Cardinality(Took(i)) + 1
          /\ ~ok => Cardinality(Took(i)') = Cardinality(Took(i))
      BY <1>3, <1>14, <1>15, <1>16, OneScan
    <3>. QED  BY <1>3, <1>7, <1>b, <1>16, <2>1, <3>1, <3>2
  <2>2. CASE j # i
    BY <1>5, <1>13, <2>2 DEF NotifyInv, CopiesOpen
  <2>. QED  BY <2>1, <2>2
<1>19. CopiesPast'
  <2>. SUFFICES ASSUME NEW j \in NoteIds
                PROVE  notes'[j].copies <=
                          notes'[j].redo + Cardinality(Past(j)')
    BY DEF CopiesPast
  <2>1. notes[j].copies <= notes[j].redo + Cardinality(Past(j))
    BY DEF NotifyInv, CopiesPast
  <2>2. CASE j = i
    <3>1. Cardinality(Past(i) \cup {s}) = Cardinality(Past(i)) + 1
      BY <1>3, <1>14, <1>16, OneScan
    <3>2. Past(i) \cup {s} \subseteq Past(i)'
      BY <1>14
    <3>3. Cardinality(Past(i)) + 1 <= Cardinality(Past(i)')
      BY <1>3, <1>16, <3>1, <3>2, MoreScans
    <3>4. notes'[i].copies + notes[i].redo <= notes[i].copies + notes'[i].redo + 1
      BY <1>7, <1>b
    <3>. QED  BY <1>3, <1>b, <1>16, <2>1, <2>2, <3>3, <3>4
  <2>3. CASE j # i
    <3>1. Cardinality(Past(j)) <= Cardinality(Past(j)')
      BY <1>13, <1>16, <2>3, MoreScans
    <3>2. notes[j].copies \in Nat /\ notes[j].redo \in Nat
      BY <1>2 DEF RowType
    <3>. QED  BY <1>5, <1>16, <2>1, <2>3, <3>1, <3>2
  <2>. QED  BY <2>2, <2>3
<1>. QED  BY <1>8, <1>11, <1>12, <1>17, <1>18, <1>19 DEF NotifyInv

\* What the update after a send makes of the row.
LEMMA UpdatedRow ==
    ASSUME NEW n \in RowType, NEW read \in Nat, NEW ok \in BOOLEAN, NEW u,
           u = IF n.delivered THEN n
               ELSE IF ok THEN Delivered(n) ELSE Refused(n, read)
    PROVE  /\ u \in RowType
           /\ u.about = n.about /\ u.tries = n.tries /\ u.copies = n.copies
           /\ u.redo = n.redo /\ u.count >= n.count
           /\ u.resent <=> n.resent
           /\ n.delivered => u.delivered
           /\ ~u.delivered => /\ ~ok /\ u.count = n.count + 1
                              /\ u.next = "none" => read + 1 >= MaxAttempts
<1>1. CASE n.delivered
  BY <1>1 DEF RowType
<1>2. CASE ~n.delivered /\ ok
  <2>1. u = [n EXCEPT !.delivered = TRUE, !.next = "none"]
    BY <1>2 DEF Delivered
  <2>2. u \in RowType /\ u.delivered
    BY <2>1 DEF RowType
  <2>3. /\ u.about = n.about /\ u.tries = n.tries /\ u.copies = n.copies
        /\ u.redo = n.redo /\ u.count = n.count /\ u.count \in Nat
    BY <2>1 DEF RowType
  <2>4. u.resent = n.resent
    BY <2>1 DEF RowType
  <2>. QED  BY <1>2, <2>2, <2>3, <2>4
<1>3. CASE ~n.delivered /\ ~ok
  <2>. DEFINE next == IF read + 1 >= MaxAttempts THEN "none" ELSE "later"
  <2>1. u = [n EXCEPT !.count = n.count + 1, !.next = next]
    BY <1>3 DEF Refused, RowType
  <2>2. /\ next \in {"none", "later", "due"}
        /\ next = "none" => read + 1 >= MaxAttempts
        /\ n.count + 1 \in Nat /\ n.count \in Nat
    BY DEF RowType
  <2>. HIDE DEF next
  <2>3. u \in RowType
    BY <2>1, <2>2 DEF RowType
  <2>4. /\ u.about = n.about /\ u.tries = n.tries /\ u.copies = n.copies
        /\ u.redo = n.redo /\ u.count = n.count + 1 /\ u.next = next
    BY <2>1 DEF RowType
  <2>5. u.resent = n.resent
    BY <2>1 DEF RowType
  <2>. QED  BY <1>3, <2>2, <2>3, <2>4, <2>5
<1>. QED  BY <1>1, <1>2, <1>3

\* The update after a send: a refusal is counted as the scan forgets it.
LEMMA ScanUpdates ==
    ASSUME NotifyInv, NEW s \in Scanners, ScanUpdate(s)
    PROVE  NotifyInv'
<1>. PICK i, ok, read :
       i = scans[s].row /\ ok = scans[s].ok /\ read = scans[s].read
  OBVIOUS
<1>. DEFINE u == IF notes[i].delivered THEN notes[i]
                 ELSE IF ok THEN Delivered(notes[i]) ELSE Refused(notes[i], read)
<1>1. /\ scans \in [Scanners -> ScanType] /\ notes \in [NoteIds -> RowType]
      /\ i \in NoteIds /\ i # None /\ read \in Nat /\ ok \in BOOLEAN
      /\ notes[i] \in RowType /\ UNCHANGED budget
      /\ notes' = [notes EXCEPT ![i] = u]
      /\ scans' = [scans EXCEPT ![s].row = None, ![s].read = 0, ![s].ok = FALSE]
  <2>1. scans \in [Scanners -> ScanType] /\ notes \in [NoteIds -> RowType]
    BY DEF NotifyInv, NotifyTypeOK, ScanType, RowType
  <2>2. i # None /\ i \in NoteIds \cup {None} /\ read \in Nat /\ ok \in BOOLEAN
    BY <2>1 DEF ScanUpdate, ScanType
  <2>. QED  BY <2>1, <2>2 DEF ScanUpdate
<1>2. notes[i].about # None /\ read <= notes[i].count
  BY <1>1 DEF NotifyInv, ScansKnowRows
<1>. HIDE DEF u
<1>3. /\ u \in RowType
      /\ u.about = notes[i].about /\ u.tries = notes[i].tries
      /\ u.copies = notes[i].copies
      /\ u.redo = notes[i].redo /\ u.count >= notes[i].count
      /\ u.resent <=> notes[i].resent
      /\ notes[i].delivered => u.delivered
      /\ ~u.delivered => /\ ~ok /\ u.count = notes[i].count + 1
                         /\ u.next = "none" => read + 1 >= MaxAttempts
  BY <1>1, UpdatedRow DEF u
<1>4. /\ notes' \in [NoteIds -> RowType] /\ notes'[i] = u
      /\ \A j \in NoteIds : j # i => notes'[j] = notes[j]
  BY <1>1, <1>3
<1>5. /\ scans' \in [Scanners -> ScanType]
      /\ scans'[s].row = None /\ scans'[s].todo = scans[s].todo
      /\ scans'[s].read = 0
      /\ \A r \in Scanners : r # s => scans'[r] = scans[r]
  BY <1>1 DEF ScanType
<1>6. NotifyTypeOK'
  BY <1>1, <1>4, <1>5 DEF NotifyInv, NotifyTypeOK, ScanType, RowType
<1>7. \A j \in NoteIds : /\ notes'[j].about = notes[j].about
                         /\ notes'[j].count >= notes[j].count
                         /\ notes'[j].count \in Nat /\ notes[j].count \in Nat
  BY <1>1, <1>3, <1>4 DEF RowType
<1>8. ScansKnowRows'
  <2>. SUFFICES ASSUME NEW r \in Scanners
                PROVE  /\ scans'[r].row # None =>
                             /\ notes'[scans'[r].row].about # None
                             /\ scans'[r].read <= notes'[scans'[r].row].count
                       /\ \A m \in scans'[r].todo :
                             /\ notes'[m[1]].about # None
                             /\ m[2] <= notes'[m[1]].count
                             /\ m[1] # scans'[r].row
    BY DEF ScansKnowRows
  <2>1. /\ scans[r].row \in NoteIds \cup {None} /\ scans[r].read \in Nat
        /\ \A m \in scans[r].todo : m[1] \in NoteIds /\ m[2] \in Nat
    BY <1>1 DEF ScanType
  <2>2. \A m \in scans[r].todo : /\ notes[m[1]].about # None
                                 /\ m[2] <= notes[m[1]].count
                                 /\ m[1] # scans[r].row
    BY DEF NotifyInv, ScansKnowRows
  <2>3. \A m \in scans[r].todo : /\ notes'[m[1]].about # None
                                 /\ m[2] <= notes'[m[1]].count
    BY <1>7, <2>1, <2>2
  <2>4. CASE r = s
    <3>1. \A m \in scans[r].todo : m[1] # None
      BY <2>1, NotifyAssumption
    <3>. QED  BY <1>5, <2>3, <2>4, <3>1
  <2>5. CASE r # s
    <3>1. scans[r].row # None =>
             /\ notes[scans[r].row].about # None
             /\ scans[r].read <= notes[scans[r].row].count
      BY DEF NotifyInv, ScansKnowRows
    <3>. QED  BY <1>5, <1>7, <2>1, <2>2, <2>3, <2>5, <3>1
  <2>. QED  BY <2>4, <2>5
<1>9. UnusedIsBlank'
  BY <1>2, <1>3, <1>4 DEF NotifyInv, UnusedIsBlank
<1>10. /\ \A j \in NoteIds : Past(j)' = Past(j)
       /\ \A j \in NoteIds \ {i} : Failed(j)' = Failed(j) /\ Took(j)' = Took(j)
       /\ Failed(i)' = Failed(i) \ {s} /\ (~ok => s \in Failed(i))
       /\ ~ok => Took(i)' = Took(i)
  <2>1. \A j \in NoteIds : j # None
    BY NotifyAssumption
  <2>2. \A j \in NoteIds : Past(j)' = Past(j)
    BY <1>5 DEF Past
  <2>3. \A j \in NoteIds \ {i} : Failed(j)' = Failed(j) /\ Took(j)' = Took(j)
    BY <1>5, <2>1 DEF Failed, Took
  <2>4. Failed(i)' = Failed(i) \ {s} /\ (~ok => s \in Failed(i))
    BY <1>1, <1>5 DEF Failed
  <2>5. ~ok => Took(i)' = Took(i)
    BY <1>1, <1>5 DEF Took
  <2>. QED  BY <2>2, <2>3, <2>4, <2>5
<1>11. TriesCount'
  <2>. SUFFICES ASSUME NEW j \in NoteIds, notes'[j].about # None,
                       ~notes'[j].resent, ~notes'[j].delivered
                PROVE  /\ notes'[j].tries >=
                             notes'[j].count + 1 + Cardinality(Failed(j)')
                       /\ notes'[j].next = "none" =>
                             notes'[j].count >= MaxAttempts
    BY DEF TriesCount
  <2>1. CASE j = i
    <3>1. notes[i].tries >= notes[i].count + 1 + Cardinality(Failed(i))
      BY <1>1, <1>3, <1>4, <2>1 DEF NotifyInv, TriesCount
    <3>2. /\ Cardinality(Failed(i)') = Cardinality(Failed(i)) - 1
          /\ Cardinality(Failed(i)) \in Nat
      BY <1>3, <1>4, <1>10, <2>1, ScanSets, ScanSetTypes, OneScan
    <3>3. /\ u.tries = notes[i].tries /\ u.count = notes[i].count + 1
          /\ u.next = "none" => read + 1 >= MaxAttempts
          /\ u.tries \in Nat /\ notes[i].count \in Nat
      BY <1>1, <1>3, <1>4, <2>1 DEF RowType
    <3>. QED  BY <1>1, <1>2, <1>4, <2>1, <3>1, <3>2, <3>3, NotifyAssumption
  <2>2. CASE j # i
    BY <1>4, <1>10, <2>2 DEF NotifyInv, TriesCount
  <2>. QED  BY <2>1, <2>2
<1>12. CopiesOpen'
  BY <1>3, <1>4, <1>10 DEF NotifyInv, CopiesOpen
<1>13. CopiesPast'
  BY <1>3, <1>4, <1>10 DEF NotifyInv, CopiesPast
<1>. QED  BY <1>6, <1>8, <1>9, <1>11, <1>12, <1>13 DEF NotifyInv

\* A scan that stops keeps its last copy off the row, and redo counts it.
LEMMA ScanEndsEarly ==
    ASSUME NotifyInv, NEW s \in Scanners, ScanStops(s)
    PROVE  NotifyInv'
<1>1. /\ scans \in [Scanners -> ScanType] /\ notes \in [NoteIds -> RowType]
      /\ scans' = [scans EXCEPT ![s] = Unread]
      /\ notes' = [j \in NoteIds |->
                     IF j = scans[s].row /\ scans[s].ok
                     THEN [notes[j] EXCEPT !.redo = @ + 1] ELSE notes[j]]
  BY DEF NotifyInv, NotifyTypeOK, ScanStops, ScanType, RowType
<1>2. budget' \in BudgetType
  <2>1. budget \in BudgetType
    BY DEF NotifyInv, NotifyTypeOK
  <2>2. /\ budget' = [budget EXCEPT !.mishaps = budget.mishaps - 1]
        /\ budget.mishaps > 0
    BY DEF ScanStops
  <2>3. budget.mishaps - 1 \in Nat
    BY <2>1, <2>2 DEF BudgetType
  <2>. QED  BY <2>1, <2>2, <2>3 DEF BudgetType
<1>3. /\ notes' \in [NoteIds -> RowType]
      /\ \A j \in NoteIds :
            /\ notes'[j].about = notes[j].about
            /\ notes'[j].count = notes[j].count
            /\ notes'[j].next = notes[j].next
            /\ notes'[j].tries = notes[j].tries
            /\ notes'[j].copies = notes[j].copies
            /\ notes'[j].delivered <=> notes[j].delivered
            /\ notes'[j].resent <=> notes[j].resent
            /\ notes'[j].redo = IF j = scans[s].row /\ scans[s].ok
                                THEN notes[j].redo + 1 ELSE notes[j].redo
  <2>. SUFFICES ASSUME NEW j \in NoteIds
                PROVE  /\ notes'[j] \in RowType
                       /\ notes'[j].about = notes[j].about
                       /\ notes'[j].count = notes[j].count
                       /\ notes'[j].next = notes[j].next
                       /\ notes'[j].tries = notes[j].tries
                       /\ notes'[j].copies = notes[j].copies
                       /\ notes'[j].delivered <=> notes[j].delivered
                       /\ notes'[j].resent <=> notes[j].resent
                       /\ notes'[j].redo = IF j = scans[s].row /\ scans[s].ok
                                           THEN notes[j].redo + 1
                                           ELSE notes[j].redo
    BY <1>1
  <2>1. CASE j = scans[s].row /\ scans[s].ok
    <3>1. /\ notes'[j] = [notes[j] EXCEPT !.redo = notes[j].redo + 1]
          /\ notes[j] \in RowType /\ notes[j].redo + 1 \in Nat
      BY <1>1, <2>1 DEF RowType
    <3>2. notes'[j] \in RowType
      BY <3>1 DEF RowType
    <3>3. /\ notes'[j].about = notes[j].about
          /\ notes'[j].count = notes[j].count
          /\ notes'[j].next = notes[j].next
          /\ notes'[j].tries = notes[j].tries
          /\ notes'[j].copies = notes[j].copies
          /\ notes'[j].redo = notes[j].redo + 1
      BY <3>1 DEF RowType
    <3>4. notes'[j].delivered = notes[j].delivered
      BY <3>1 DEF RowType
    <3>5. notes'[j].resent = notes[j].resent
      BY <3>1 DEF RowType
    <3>. QED  BY <2>1, <3>2, <3>3, <3>4, <3>5
  <2>2. CASE ~(j = scans[s].row /\ scans[s].ok)
    BY <1>1, <2>2
  <2>. QED  BY <2>1, <2>2
<1>4. /\ scans' \in [Scanners -> ScanType]
      /\ scans'[s].row = None /\ scans'[s].todo = {}
      /\ \A r \in Scanners : r # s => scans'[r] = scans[r]
  <2>1. Unread \in ScanType /\ Unread.row = None /\ Unread.todo = {}
    BY DEF Unread, ScanType
  <2>. QED  BY <1>1, <2>1
<1>5. NotifyTypeOK'
  BY <1>2, <1>3, <1>4 DEF NotifyTypeOK, ScanType, RowType
<1>6. ScansKnowRows'
  <2>. SUFFICES ASSUME NEW r \in Scanners
                PROVE  /\ scans'[r].row # None =>
                             /\ notes'[scans'[r].row].about # None
                             /\ scans'[r].read <= notes'[scans'[r].row].count
                       /\ \A m \in scans'[r].todo :
                             /\ notes'[m[1]].about # None
                             /\ m[2] <= notes'[m[1]].count
                             /\ m[1] # scans'[r].row
    BY DEF ScansKnowRows
  <2>1. CASE r = s
    BY <1>4, <2>1
  <2>2. CASE r # s
    <3>1. /\ scans[r].row \in NoteIds \cup {None}
          /\ \A m \in scans[r].todo : m[1] \in NoteIds
      BY <1>1 DEF ScanType
    <3>. QED  BY <1>3, <1>4, <2>2, <3>1 DEF NotifyInv, ScansKnowRows
  <2>. QED  BY <2>1, <2>2
<1>7. UnusedIsBlank'
  BY <1>3 DEF NotifyInv, UnusedIsBlank
<1>8. \A j \in NoteIds : /\ Failed(j)' \subseteq Failed(j)
                         /\ Past(j) \subseteq Past(j)'
                         /\ Took(j)' = Took(j) \ {s}
  <2>1. \A j \in NoteIds : j # None
    BY NotifyAssumption
  <2>2. \A j \in NoteIds : Failed(j)' \subseteq Failed(j)
    BY <1>4, <2>1 DEF Failed
  <2>3. \A j \in NoteIds : Past(j) \subseteq Past(j)'
    BY <1>4 DEF Past
  <2>4. \A j \in NoteIds : Took(j)' = Took(j) \ {s}
    BY <1>4, <2>1 DEF Took
  <2>. QED  BY <2>2, <2>3, <2>4
<1>9. \A j \in NoteIds : /\ Failed(j) \in SUBSET Scanners
                         /\ Took(j) \in SUBSET Scanners
                         /\ Past(j) \in SUBSET Scanners
                         /\ Past(j)' \in SUBSET Scanners
                         /\ Cardinality(Failed(j)) \in Nat
                         /\ Cardinality(Took(j)) \in Nat
                         /\ Cardinality(Past(j)) \in Nat
                         /\ Cardinality(Past(j)') \in Nat
  <2>1. \A j \in NoteIds : Past(j)' \in SUBSET Scanners
    BY DEF Past
  <2>. QED  BY <2>1, ScanSetTypes, ScanSets
<1>10. TriesCount'
  <2>. SUFFICES ASSUME NEW j \in NoteIds, notes'[j].about # None,
                       ~notes'[j].resent, ~notes'[j].delivered
                PROVE  /\ notes'[j].tries >=
                             notes'[j].count + 1 + Cardinality(Failed(j)')
                       /\ notes'[j].next = "none" =>
                             notes'[j].count >= MaxAttempts
    BY DEF TriesCount
  <2>1. /\ notes[j].tries >= notes[j].count + 1 + Cardinality(Failed(j))
        /\ notes[j].next = "none" => notes[j].count >= MaxAttempts
    BY <1>3 DEF NotifyInv, TriesCount
  <2>2. /\ Cardinality(Failed(j)') <= Cardinality(Failed(j))
        /\ Cardinality(Failed(j)') \in Nat
    BY <1>8, <1>9, MoreScans, ScanSets
  <2>3. notes[j].tries \in Nat /\ notes[j].count \in Nat
    BY <1>1 DEF RowType
  <2>. QED  BY <1>3, <1>9, <2>1, <2>2, <2>3
<1>11. CopiesOpen'
  <2>. SUFFICES ASSUME NEW j \in NoteIds, ~notes'[j].delivered
                PROVE  notes'[j].copies <=
                          notes'[j].redo + Cardinality(Took(j)')
    BY DEF CopiesOpen
  <2>1. notes[j].copies <= notes[j].redo + Cardinality(Took(j))
    BY <1>3 DEF NotifyInv, CopiesOpen
  <2>2. notes[j].copies \in Nat /\ notes[j].redo \in Nat
    BY <1>1 DEF RowType
  <2>3. CASE s \in Took(j)
    <3>1. j = scans[s].row /\ scans[s].ok
      BY <2>3 DEF Took
    <3>2. Cardinality(Took(j)') = Cardinality(Took(j)) - 1
      BY <1>8, <1>9, <2>3, OneScan
    <3>. QED  BY <1>3, <1>9, <2>1, <2>2, <3>1, <3>2
  <2>4. CASE s \notin Took(j)
    <3>1. Took(j)' = Took(j)
      BY <1>8, <2>4
    <3>2. notes'[j].redo >= notes[j].redo
      BY <1>3, <2>2
    <3>3. notes'[j].redo \in Nat
      BY <1>3 DEF RowType
    <3>. QED  BY <1>3, <1>9, <2>1, <2>2, <3>1, <3>2, <3>3
  <2>. QED  BY <2>3, <2>4
<1>12. CopiesPast'
  <2>. SUFFICES ASSUME NEW j \in NoteIds
                PROVE  notes'[j].copies <=
                          notes'[j].redo + Cardinality(Past(j)')
    BY DEF CopiesPast
  <2>1. notes[j].copies <= notes[j].redo + Cardinality(Past(j))
    BY DEF NotifyInv, CopiesPast
  <2>2. Cardinality(Past(j)) <= Cardinality(Past(j)')
    BY <1>8, <1>9, MoreScans
  <2>3. notes[j].copies \in Nat /\ notes[j].redo \in Nat
    BY <1>1 DEF RowType
  <2>4. notes'[j].redo >= notes[j].redo /\ notes'[j].redo \in Nat
    BY <1>3, <2>3 DEF RowType
  <2>. QED  BY <1>3, <1>9, <2>1, <2>2, <2>3, <2>4
<1>. QED  BY <1>5, <1>6, <1>7, <1>10, <1>11, <1>12 DEF NotifyInv

\* A mishap of another component leaves the notices alone.
LEMMA OthersMishap ==
    ASSUME NotifyInv, MishapElsewhere
    PROVE  NotifyInv'
<1>1. budget' \in BudgetType
  <2>1. budget \in BudgetType
    BY DEF NotifyInv, NotifyTypeOK
  <2>2. /\ budget' = [budget EXCEPT !.mishaps = budget.mishaps - 1]
        /\ budget.mishaps > 0
    BY DEF MishapElsewhere
  <2>3. budget.mishaps - 1 \in Nat
    BY <2>1, <2>2 DEF BudgetType
  <2>. QED  BY <2>1, <2>2, <2>3 DEF BudgetType
<1>. QED  BY <1>1 DEF MishapElsewhere, NotifyInv, NotifyTypeOK, ScansKnowRows,
     UnusedIsBlank, TriesCount, CopiesOpen, CopiesPast, Failed, Took, Past

\* An empty table satisfies the invariant.
LEMMA NotifyInitInv == NotifyInit => NotifyInv
<1>. SUFFICES ASSUME NotifyInit
              PROVE  NotifyInv
  OBVIOUS
<1>1. /\ Blank \in RowType /\ Blank.about = None /\ Blank.next = "none"
      /\ Blank.copies = 0 /\ Blank.redo = 0
      /\ Unread \in ScanType /\ Unread.row = None /\ Unread.todo = {}
  BY DEF Blank, Unread, RowType, ScanType
<1>2. /\ \A i \in NoteIds : notes[i] = Blank
      /\ \A s \in Scanners : scans[s] = Unread
      /\ notes \in [NoteIds -> RowType] /\ scans \in [Scanners -> ScanType]
  BY <1>1 DEF NotifyInit
<1>3. NotifyTypeOK
  BY <1>2 DEF NotifyInit, NotifyTypeOK, RowType, ScanType
<1>4. ScansKnowRows /\ UnusedIsBlank /\ TriesCount
  BY <1>1, <1>2 DEF ScansKnowRows, UnusedIsBlank, TriesCount
<1>5. CopiesOpen /\ CopiesPast
  <2>1. \A i \in NoteIds : /\ Cardinality(Took(i)) \in Nat
                           /\ Cardinality(Past(i)) \in Nat
    BY ScanSetTypes, ScanSets
  <2>. QED  BY <1>1, <1>2, <2>1 DEF CopiesOpen, CopiesPast
<1>. QED  BY <1>3, <1>4, <1>5 DEF NotifyInv

\* Every step of the notices keeps the invariant.
LEMMA NotifyNextInv == NotifyInv /\ [NotifyNext]_notifyVars => NotifyInv'
<1>. SUFFICES ASSUME NotifyInv, [NotifyNext]_notifyVars
              PROVE  NotifyInv'
  OBVIOUS
<1>1. ASSUME NEW i \in NoteIds, Resend(i)
      PROVE  NotifyInv'
  BY <1>1, AddsARow
<1>2. ASSUME NEW i \in NoteIds, FallsDue(i)
      PROVE  NotifyInv'
  BY <1>2, RetryFallsDue
<1>3. ASSUME NEW s \in Scanners, Scan(s) \/ ScanStops(s)
      PROVE  NotifyInv'
  BY <1>3, ScanReads, ScanSends, ScanUpdates, ScanEndsEarly DEF Scan
<1>4. CASE Tells
  BY <1>4, AddsARow
<1>5. CASE MishapElsewhere
  BY <1>5, OthersMishap
<1>6. CASE UNCHANGED notifyVars
  BY <1>6 DEF notifyVars, NotifyInv, NotifyTypeOK, ScansKnowRows,
     UnusedIsBlank, TriesCount, CopiesOpen, CopiesPast, Failed, Took, Past
<1>. QED  BY <1>1, <1>2, <1>3, <1>4, <1>5, <1>6 DEF NotifyNext, NotifyStep

\* The invariant bounds retries and copies.
LEMMA InvBoundsRetries == NotifyInv => RetriesBounded
<1>. SUFFICES ASSUME NotifyInv, NEW i \in NoteIds
              PROVE  /\ /\ notes[i].about # None /\ ~notes[i].resent
                        /\ ~notes[i].delivered
                        /\ notes[i].next = "none" \/ notes[i].count >= MaxAttempts
                        => notes[i].tries > MaxAttempts
                     /\ notes[i].copies <= notes[i].redo + Cardinality(Scanners)
  BY DEF RetriesBounded, NeverGivenUpEarly, CopiesBounded
<1>1. /\ notes[i].tries \in Nat /\ notes[i].count \in Nat
      /\ notes[i].copies \in Nat /\ notes[i].redo \in Nat
  BY DEF NotifyInv, NotifyTypeOK
<1>2. /\ Cardinality(Failed(i)) \in Nat /\ Cardinality(Past(i)) \in Nat
      /\ Cardinality(Past(i)) <= Cardinality(Scanners)
      /\ Cardinality(Scanners) \in Nat /\ MaxAttempts \in Nat
  BY ScanSetTypes, ScanSets, NotifyAssumption
<1>3. notes[i].copies <= notes[i].redo + Cardinality(Past(i))
  BY DEF NotifyInv, CopiesPast
<1>4. notes[i].about # None /\ ~notes[i].resent /\ ~notes[i].delivered
      => /\ notes[i].tries >= notes[i].count + 1 + Cardinality(Failed(i))
         /\ notes[i].next = "none" => notes[i].count >= MaxAttempts
  BY DEF NotifyInv, TriesCount
<1>. QED  BY <1>1, <1>2, <1>3, <1>4

\* Whatever the other components send and wherever processes stop, a notice
\* is given up only after its attempts and its copies stay bounded.
THEOREM NotifyRetriesBounded == NotifySpec => []RetriesBounded
  BY NotifyInitInv, NotifyNextInv, InvBoundsRetries, PTL DEF NotifySpec

-----------------------------------------------------------------------------
(* The departures, the schedules and the requests *)

\* What a request remembers, by the step it is at.
LEMMA JobKinds ==
    ASSUME NEW j \in JobTypes
    PROVE  /\ j.at = "create" => j.weekdays \in [SlotNos -> SUBSET Weekdays]
           /\ j.at = "update" => /\ j.sched \in Scheds /\ j.rows \subseteq SlotNos
                                 /\ j.weekdays \in [SlotNos -> SUBSET Weekdays]
           /\ j.at = "reconcile" =>
                 /\ j.sched \in Scheds /\ j.gone \subseteq DepIds
                 /\ j.weekdays \in [SlotNos -> SUBSET Weekdays]
           /\ j.at = "generate" => j.scheds \subseteq Scheds
           /\ j.at = "add" => /\ j.todo \subseteq Slots \X Dates
                              /\ j.scheds \subseteq Scheds
                              /\ j.known \subseteq DepIds
           /\ j.at = "move" => j.dep \in DepIds /\ j.date \in Dates
           /\ j.at = "cancel" => j.dep \in DepIds /\ j.tell \subseteq Guests
           /\ j.at = "revive" => j.dep \in DepIds
           /\ j.at = "tell" => j.tell \subseteq Guests
  BY DEF JobTypes

\* Every kind of job is one.
LEMMA JobsAreJobs ==
    /\ Idle \in JobTypes
    /\ \A week \in [SlotNos -> SUBSET Weekdays] :
          [at |-> "create", weekdays |-> week] \in JobTypes
    /\ \A week \in [SlotNos -> SUBSET Weekdays], i \in Scheds,
          rows \in SUBSET SlotNos :
          [at |-> "update", sched |-> i, weekdays |-> week, rows |-> rows]
             \in JobTypes
    /\ \A week \in [SlotNos -> SUBSET Weekdays], i \in Scheds,
          gone \in SUBSET DepIds :
          [at |-> "reconcile", sched |-> i, weekdays |-> week, gone |-> gone]
             \in JobTypes
    /\ \A rest \in SUBSET Scheds : Done(rest) \in JobTypes
    /\ \A todo \in (SUBSET (Slots \X Dates)) \ {{}}, rest \in SUBSET Scheds,
          known \in SUBSET DepIds :
          [at |-> "add", todo |-> todo, scheds |-> rest, known |-> known]
             \in JobTypes
    /\ \A d \in DepIds, date \in Dates :
          [at |-> "move", dep |-> d, date |-> date] \in JobTypes
    /\ \A d \in DepIds, tell \in SUBSET Guests :
          [at |-> "cancel", dep |-> d, tell |-> tell] \in JobTypes
    /\ \A d \in DepIds : [at |-> "revive", dep |-> d] \in JobTypes
    /\ \A tell \in (SUBSET Guests) \ {{}} :
          [at |-> "tell", tell |-> tell] \in JobTypes
  BY DEF JobTypes, Idle, Done

SchedType == [state: {"none", "active", "retired"},
              weekdays: [SlotNos -> SUBSET Weekdays], rows: SUBSET SlotNos]
DepType == [state: {"none", "scheduled", "in_progress", "completed",
                    "cancelled"},
            slot: Slots \cup {Manual}, date: Dates,
            moved: BOOLEAN, twin: BOOLEAN]
GuestType == [stage: {"new", "intent", "paying", "booked", "cancelled"},
              dep: 0 .. MaxDeps, saw: Dates, late: BOOLEAN]

\* A request goes on to another step of its own.
LEMMA JobBecomes ==
    ASSUME TripTypeOK, NEW w \in Workers, NEW job \in JobTypes, Becomes(w, job)
    PROVE  jobs' \in [Workers -> JobTypes]
  BY DEF TripTypeOK, Becomes

\* The rest of the state keeps its type while only requests move.
LEMMA OnlyJobs ==
    ASSUME TripTypeOK, jobs' \in [Workers -> JobTypes],
           UNCHANGED <<today, operating, scheds, deps, guests, refilled>>
    PROVE  TripTypeOK'
  BY DEF TripTypeOK

\* A departure keeps its type when its status or its date changes.
LEMMA DepStates ==
    ASSUME NEW x \in DepType, NEW date \in Dates,
           NEW st \in {"scheduled", "in_progress", "completed", "cancelled"}
    PROVE  /\ [x EXCEPT !.state = st] \in DepType
           /\ [x EXCEPT !.date = date, !.moved = TRUE] \in DepType
  BY DEF DepType

\* A move writes the date, and that it moved the departure if that is another.
LEMMA MoveWrites ==
    ASSUME NEW w \in Workers, MoveWrite(w), deps \in [DepIds -> DepType],
           jobs[w].dep \in DepIds
    PROVE  \/ deps[jobs[w].dep].date = jobs[w].date /\ UNCHANGED deps
           \/ /\ deps[jobs[w].dep].date # jobs[w].date
              /\ deps' = [deps EXCEPT ![jobs[w].dep] =
                            [@ EXCEPT !.date = jobs[w].date, !.moved = TRUE]]
<1>1. CASE deps[jobs[w].dep].date = jobs[w].date
  BY <1>1 DEF MoveWrite
<1>2. CASE deps[jobs[w].dep].date # jobs[w].date
  <2>1. deps' = [deps EXCEPT ![jobs[w].dep].date = jobs[w].date,
                             ![jobs[w].dep].moved = TRUE]
    BY <1>2 DEF MoveWrite
  <2>. QED  BY <1>2, <2>1 DEF DepType
<1>. QED  BY <1>1, <1>2

\* A save and the generation after it keep the types.
LEMMA SaveTypes ==
    ASSUME TripTypeOK, NEW w \in Workers,
           SaveCreate(w) \/ SaveRead(w) \/ SaveWrite(w)
    PROVE  TripTypeOK'
<1>1. /\ jobs[w] \in JobTypes /\ scheds \in [Scheds -> SchedType]
      /\ deps \in [DepIds -> DepType]
  BY DEF TripTypeOK, SchedType, DepType
<1>2. CASE SaveCreate(w)
  <2>1. jobs[w].weekdays \in [SlotNos -> SUBSET Weekdays]
    BY <1>1, <1>2, JobKinds DEF SaveCreate, At
  <2>2. PICK i \in Unsaved :
          /\ scheds' = [scheds EXCEPT ![i] =
                [state |-> "active", weekdays |-> jobs[w].weekdays,
                 rows |-> {n \in SlotNos : jobs[w].weekdays[n] # {}}]]
          /\ Becomes(w, [at |-> "generate", scheds |-> {i}])
    BY <1>2 DEF SaveCreate
  <2>3. i \in Scheds /\ [at |-> "generate", scheds |-> {i}] = Done({i})
    BY DEF Unsaved, Done
  <2>4. jobs' \in [Workers -> JobTypes]
    BY <2>2, <2>3, JobsAreJobs, JobBecomes
  <2>5. scheds' \in [Scheds -> SchedType]
    BY <1>1, <2>1, <2>2, <2>3 DEF SchedType
  <2>. QED  BY <1>2, <2>4, <2>5 DEF SaveCreate, TripTypeOK, SchedType
<1>3. CASE SaveRead(w)
  <2>1. /\ jobs[w].sched \in Scheds
        /\ jobs[w].weekdays \in [SlotNos -> SUBSET Weekdays]
    BY <1>1, <1>3, JobKinds DEF SaveRead, At
  <2>2. PICK gone \in SUBSET DepIds :
          Becomes(w, [at |-> "reconcile", sched |-> jobs[w].sched,
                      weekdays |-> jobs[w].weekdays, gone |-> gone])
    BY <1>3 DEF SaveRead, Reconciled, Existing
  <2>3. jobs' \in [Workers -> JobTypes]
    BY <2>1, <2>2, JobsAreJobs, JobBecomes
  <2>. QED  BY <1>3, <2>3, OnlyJobs DEF SaveRead
<1>4. CASE SaveWrite(w)
  <2>1. /\ jobs[w].sched \in Scheds /\ jobs[w].gone \subseteq DepIds
        /\ jobs[w].weekdays \in [SlotNos -> SUBSET Weekdays]
    BY <1>1, <1>4, JobKinds DEF SaveWrite, At
  <2>2. /\ scheds' = [i \in Scheds |->
             IF i = jobs[w].sched
             THEN [state |-> "active", weekdays |-> jobs[w].weekdays,
                   rows |-> SlotNos]
             ELSE IF i \in Active THEN [scheds[i] EXCEPT !.state = "retired"]
             ELSE scheds[i]]
        /\ deps' = [d \in DepIds |->
             IF d \in jobs[w].gone THEN [deps[d] EXCEPT !.state = "cancelled"]
             ELSE deps[d]]
        /\ Becomes(w, [at |-> "generate", scheds |-> {jobs[w].sched}])
    BY <1>4 DEF SaveWrite
  <2>3. scheds' \in [Scheds -> SchedType]
    BY <1>1, <2>1, <2>2 DEF SchedType
  <2>4. deps' \in [DepIds -> DepType]
    <3>1. 0 \in Dates
      BY ScheduleAssumption DEF Dates
    <3>. QED  BY <1>1, <2>2, <3>1, DepStates
  <2>5. jobs' \in [Workers -> JobTypes]
    <3>1. [at |-> "generate", scheds |-> {jobs[w].sched}] = Done({jobs[w].sched})
      BY DEF Done
    <3>. QED  BY <2>1, <2>2, <3>1, JobsAreJobs, JobBecomes
  <2>. QED  BY <1>4, <2>3, <2>4, <2>5
            DEF SaveWrite, TripTypeOK, SchedType, DepType
<1>. QED  BY <1>2, <1>3, <1>4

\* A new departure has its type, and a number that was free.
LEMMA AddTypes ==
    ASSUME TripTypeOK, NEW new \in Fresh, NEW slot \in Slots \cup {Manual},
           NEW date \in Dates, NEW known, AddDep(new, slot, date, known)
    PROVE  deps' \in [DepIds -> DepType]
<1>1. new \in DepIds /\ deps \in [DepIds -> DepType]
  BY DEF Fresh, TripTypeOK, DepType
<1>. DEFINE same == {d \in Existing : deps[d].slot = slot /\ deps[d].date = date}
            twin == ~(same \subseteq known)
<1>2. deps' = [deps EXCEPT ![new] =
                 [state |-> "scheduled", slot |-> slot, date |-> date,
                  moved |-> FALSE, twin |-> twin]]
  BY DEF AddDep
<1>3. twin \in BOOLEAN
  OBVIOUS
<1>. HIDE DEF twin
<1>. QED  BY <1>1, <1>2, <1>3 DEF DepType

\* A generation keeps the types.
LEMMA GenTypes ==
    ASSUME TripTypeOK, NEW w \in Workers, GenRead(w) \/ GenAdd(w)
    PROVE  TripTypeOK'
<1>1. jobs[w] \in JobTypes /\ operating \subseteq Dates
  BY DEF TripTypeOK
<1>2. CASE GenRead(w)
  <2>1. jobs[w].scheds \subseteq Scheds
    BY <1>1, <1>2, JobKinds DEF GenRead, At
  <2>2. PICK i \in jobs[w].scheds :
          LET rest == jobs[w].scheds \ {i}
              todo == Wanted(i) \ Generated IN
          Becomes(w, IF i \notin Active \/ todo = {} THEN Done(rest)
                     ELSE [at |-> "add", todo |-> todo, scheds |-> rest,
                           known |-> Existing])
    BY <1>2 DEF GenRead
  <2>3. Wanted(i) \subseteq Slots \X Dates
    BY <1>1, <2>1, <2>2 DEF Wanted, Slots
  <2>4. Existing \subseteq DepIds
    BY DEF Existing
  <2>. DEFINE rest == jobs[w].scheds \ {i}
              todo == Wanted(i) \ Generated
  <2>5. Done(rest) \in JobTypes
    BY <2>1, JobsAreJobs
  <2>6. todo # {} => [at |-> "add", todo |-> todo, scheds |-> rest,
                      known |-> Existing] \in JobTypes
    <3>1. todo \in SUBSET (Slots \X Dates) /\ rest \in SUBSET Scheds
      BY <2>1, <2>3
    <3>. HIDE DEF todo, rest
    <3>. QED  BY <2>4, <3>1, JobsAreJobs
  <2>7. PICK job \in JobTypes : Becomes(w, job)
    BY <2>2, <2>5, <2>6
  <2>. QED  BY <1>2, <2>7, JobBecomes, OnlyJobs DEF GenRead
<1>3. CASE GenAdd(w)
  <2>1. /\ jobs[w].todo \subseteq Slots \X Dates
        /\ jobs[w].scheds \subseteq Scheds /\ jobs[w].known \subseteq DepIds
    BY <1>1, <1>3, JobKinds DEF GenAdd, At
  <2>2. PICK k \in jobs[w].todo, new \in Fresh :
          /\ AddDep(new, k[1], k[2], jobs[w].known)
          /\ Becomes(w, IF jobs[w].todo \ {k} = {} THEN Done(jobs[w].scheds)
                        ELSE [jobs[w] EXCEPT !.todo = jobs[w].todo \ {k},
                                             !.known = @ \cup {new}])
    BY <1>3 DEF GenAdd
  <2>3. deps' \in [DepIds -> DepType]
    BY <2>1, <2>2, AddTypes
  <2>4. jobs' \in [Workers -> JobTypes]
    <3>1. CASE jobs[w].todo \ {k} = {}
      BY <2>1, <2>2, <3>1, JobsAreJobs, JobBecomes
    <3>2. CASE jobs[w].todo \ {k} # {}
      <4>1. jobs[w] \in [at: {"add"}, todo: (SUBSET (Slots \X Dates)) \ {{}},
                         scheds: SUBSET Scheds, known: SUBSET DepIds]
        BY <1>1, <1>3 DEF GenAdd, At, JobTypes
      <4>2. new \in DepIds
        BY <2>2 DEF Fresh
      <4>3. [jobs[w] EXCEPT !.todo = jobs[w].todo \ {k},
                            !.known = @ \cup {new}] \in
              [at: {"add"}, todo: (SUBSET (Slots \X Dates)) \ {{}},
               scheds: SUBSET Scheds, known: SUBSET DepIds]
        BY <3>2, <4>1, <4>2
      <4>4. [jobs[w] EXCEPT !.todo = jobs[w].todo \ {k},
                            !.known = @ \cup {new}] \in JobTypes
        BY <4>3 DEF JobTypes
      <4>. QED  BY <2>2, <3>2, <4>4, JobBecomes
    <3>. QED  BY <3>1, <3>2
  <2>. QED  BY <1>3, <2>3, <2>4 DEF GenAdd, TripTypeOK, DepType
<1>. QED  BY <1>2, <1>3

\* The owner's requests keep the types: what they read first.
LEMMA CheckTypes ==
    ASSUME TripTypeOK, NEW w \in Workers,
           \/ \E week \in [SlotNos -> SUBSET Weekdays] : SaveStart(w, week)
           \/ \E d \in DepIds : \/ CancelRead(w, d) \/ ReviveCheck(w, d)
                                \/ \E date \in Dates : MoveCheck(w, d, date)
    PROVE  TripTypeOK'
<1>1. ASSUME NEW week \in [SlotNos -> SUBSET Weekdays], SaveStart(w, week)
      PROVE  TripTypeOK'
  <2>1. \A i \in Scheds : scheds[i].rows \in SUBSET SlotNos
    BY DEF TripTypeOK
  <2>2. PICK job \in JobTypes : Becomes(w, job)
    BY <1>1, <2>1, JobsAreJobs DEF SaveStart, Active
  <2>. QED  BY <1>1, <2>2, JobBecomes, OnlyJobs DEF SaveStart
<1>2. ASSUME NEW d \in DepIds, CancelRead(w, d)
      PROVE  TripTypeOK'
  <2>1. Booked(d) \in SUBSET Guests
    BY DEF Booked
  <2>2. PICK job \in JobTypes : Becomes(w, job)
    BY <1>2, <2>1, JobsAreJobs DEF CancelRead
  <2>. QED  BY <1>2, <2>2, JobBecomes, OnlyJobs DEF CancelRead
<1>3. ASSUME NEW d \in DepIds, ReviveCheck(w, d)
      PROVE  TripTypeOK'
  <2>2. PICK job \in JobTypes : Becomes(w, job)
    BY <1>3, JobsAreJobs DEF ReviveCheck
  <2>. QED  BY <1>3, <2>2, JobBecomes, OnlyJobs DEF ReviveCheck
<1>4. ASSUME NEW d \in DepIds, NEW date \in Dates, MoveCheck(w, d, date)
      PROVE  TripTypeOK'
  <2>2. PICK job \in JobTypes : Becomes(w, job)
    BY <1>4, JobsAreJobs DEF MoveCheck
  <2>. QED  BY <1>4, <2>2, JobBecomes, OnlyJobs DEF MoveCheck
<1>. QED  BY <1>1, <1>2, <1>3, <1>4

\* What they write.
LEMMA WriteTypes ==
    ASSUME TripTypeOK, NEW w \in Workers,
           MoveWrite(w) \/ CancelWrite(w) \/ ReviveWrite(w)
    PROVE  TripTypeOK'
<1>1. jobs[w] \in JobTypes /\ deps \in [DepIds -> DepType]
  BY DEF TripTypeOK, DepType
<1>2. CASE MoveWrite(w)
  <2>1. jobs[w].dep \in DepIds /\ jobs[w].date \in Dates
    BY <1>1, <1>2, JobKinds DEF MoveWrite, At
  <2>2. \/ UNCHANGED deps
        \/ deps' = [deps EXCEPT ![jobs[w].dep] =
                      [@ EXCEPT !.date = jobs[w].date, !.moved = TRUE]]
    BY <1>1, <1>2, <2>1, MoveWrites
  <2>3. [deps[jobs[w].dep] EXCEPT !.date = jobs[w].date, !.moved = TRUE]
           \in DepType
    BY <1>1, <2>1, DepStates
  <2>4. deps' \in [DepIds -> DepType]
    BY <1>1, <2>1, <2>2, <2>3
  <2>5. jobs' \in [Workers -> JobTypes]
    BY <1>2, JobsAreJobs, JobBecomes DEF MoveWrite
  <2>. QED  BY <1>2, <2>4, <2>5 DEF MoveWrite, TripTypeOK, DepType
<1>3. CASE CancelWrite(w)
  <2>1. jobs[w].dep \in DepIds /\ jobs[w].tell \subseteq Guests
    BY <1>1, <1>3, JobKinds DEF CancelWrite, At
  <2>2. deps' = [deps EXCEPT ![jobs[w].dep] = [@ EXCEPT !.state = "cancelled"]]
    BY <1>3 DEF CancelWrite
  <2>3. 0 \in Dates
    BY ScheduleAssumption DEF Dates
  <2>4. [deps[jobs[w].dep] EXCEPT !.state = "cancelled"] \in DepType
    BY <1>1, <2>1, <2>3, DepStates
  <2>5. deps' \in [DepIds -> DepType]
    BY <1>1, <2>1, <2>2, <2>4
  <2>6. PICK job \in JobTypes : Becomes(w, job)
    BY <1>3, <2>1, JobsAreJobs DEF CancelWrite
  <2>7. jobs' \in [Workers -> JobTypes]
    BY <2>6, JobBecomes
  <2>. QED  BY <1>3, <2>5, <2>7 DEF CancelWrite, TripTypeOK, DepType
<1>4. CASE ReviveWrite(w)
  <2>1. jobs[w].dep \in DepIds
    BY <1>1, <1>4, JobKinds DEF ReviveWrite, At
  <2>2. deps' = [deps EXCEPT ![jobs[w].dep] = [@ EXCEPT !.state = "scheduled"]]
    BY <1>4 DEF ReviveWrite
  <2>3. 0 \in Dates
    BY ScheduleAssumption DEF Dates
  <2>4. [deps[jobs[w].dep] EXCEPT !.state = "scheduled"] \in DepType
    BY <1>1, <2>1, <2>3, DepStates
  <2>5. deps' \in [DepIds -> DepType]
    BY <1>1, <2>1, <2>2, <2>4
  <2>6. jobs' \in [Workers -> JobTypes]
    BY <1>4, JobsAreJobs, JobBecomes DEF ReviveWrite
  <2>. QED  BY <1>4, <2>5, <2>6 DEF ReviveWrite, TripTypeOK, DepType
<1>. QED  BY <1>2, <1>3, <1>4

\* A departure added by hand and an edit of the operating dates.
LEMMA OwnerTypes ==
    ASSUME TripTypeOK,
           \/ \E date \in Dates : CreateDeparture(date)
           \/ \E dates \in SUBSET Dates : EditOperatingDates(dates)
    PROVE  TripTypeOK'
<1>1. ASSUME NEW date \in Dates, CreateDeparture(date)
      PROVE  TripTypeOK'
  <2>1. deps' \in [DepIds -> DepType]
    BY <1>1, AddTypes DEF CreateDeparture
  <2>. QED  BY <1>1, <2>1 DEF CreateDeparture, TripTypeOK, DepType
<1>2. ASSUME NEW dates \in SUBSET Dates, EditOperatingDates(dates)
      PROVE  TripTypeOK'
  BY <1>2 DEF EditOperatingDates, TripTypeOK
<1>. QED  BY <1>1, <1>2

\* What the guests do.
LEMMA GuestTypes ==
    ASSUME TripTypeOK, NEW g \in Guests,
           \/ Confirm(g) \/ Pay(g) \/ CancelBooking(g)
           \/ \E d \in DepIds : BeginCheckout(g, d)
    PROVE  TripTypeOK'
<1>1. guests \in [Guests -> GuestType] /\ guests[g] \in GuestType
      /\ deps \in [DepIds -> DepType]
  BY DEF TripTypeOK, GuestType, DepType
<1>2. ASSUME NEW n \in GuestType, guests' = [guests EXCEPT ![g] = n],
             UNCHANGED <<today, operating, scheds, deps, jobs, refilled>>
      PROVE  TripTypeOK'
  <2>1. guests' \in [Guests -> GuestType]
    BY <1>1, <1>2
  <2>. QED  BY <1>2, <2>1 DEF TripTypeOK, GuestType
<1>3. CASE Confirm(g)
  <2>1. [guests[g] EXCEPT !.stage = "paying"] \in GuestType
    BY <1>1 DEF GuestType
  <2>. QED  BY <1>2, <1>3, <2>1 DEF Confirm
<1>4. CASE Pay(g)
  <2>1. Overtaken(g) \in BOOLEAN
    BY DEF Overtaken
  <2>2. guests' = [guests EXCEPT ![g] = [@ EXCEPT !.stage = "booked",
                                                  !.late = Overtaken(g)]]
    BY <1>1, <1>4 DEF Pay, GuestType
  <2>3. [guests[g] EXCEPT !.stage = "booked", !.late = Overtaken(g)]
           \in GuestType
    BY <1>1, <2>1 DEF GuestType
  <2>. QED  BY <1>2, <1>4, <2>2, <2>3 DEF Pay
<1>5. CASE CancelBooking(g)
  <2>1. [guests[g] EXCEPT !.stage = "cancelled"] \in GuestType
    BY <1>1 DEF GuestType
  <2>. QED  BY <1>2, <1>5, <2>1 DEF CancelBooking
<1>6. ASSUME NEW d \in DepIds, BeginCheckout(g, d)
      PROVE  TripTypeOK'
  <2>1. d \in 0 .. MaxDeps /\ deps[d].date \in Dates
    BY <1>1, ScheduleAssumption DEF DepIds, DepType
  <2>2. guests' = [guests EXCEPT ![g] = [@ EXCEPT !.stage = "intent",
                                           !.dep = d, !.saw = deps[d].date]]
    BY <1>1, <1>6 DEF BeginCheckout, GuestType
  <2>3. [guests[g] EXCEPT !.stage = "intent", !.dep = d, !.saw = deps[d].date]
           \in GuestType
    BY <1>1, <2>1 DEF GuestType
  <2>. QED  BY <1>2, <1>6, <2>2, <2>3 DEF BeginCheckout
<1>. QED  BY <1>3, <1>4, <1>5, <1>6

\* The clock, the refill and a failure.
LEMMA ClockTypes ==
    ASSUME TripTypeOK,
           \/ \E d \in DepIds : Advance(d)
           \/ NextDay \/ RefillStart
           \/ \E w \in Workers : JobFails(w)
    PROVE  TripTypeOK'
<1>1. Nightly \in Workers
  BY DEF Workers
<1>2. ASSUME NEW d \in DepIds, Advance(d)
      PROVE  TripTypeOK'
  <2>1. deps \in [DepIds -> DepType] /\ 0 \in Dates
    BY ScheduleAssumption DEF TripTypeOK, DepType, Dates
  <2>2. \/ deps' = [deps EXCEPT ![d] = [@ EXCEPT !.state = "in_progress"]]
        \/ deps' = [deps EXCEPT ![d] = [@ EXCEPT !.state = "completed"]]
    BY <1>2 DEF Advance
  <2>3. deps' \in [DepIds -> DepType]
    BY <2>1, <2>2, DepStates
  <2>. QED  BY <1>2, <2>3 DEF Advance, TripTypeOK, DepType
<1>3. CASE NextDay
  <2>1. today' = today + 1 /\ today < LastDay /\ refilled' = FALSE
    BY <1>3 DEF NextDay
  <2>2. today' \in 0 .. LastDay
    BY <2>1, ScheduleAssumption DEF TripTypeOK
  <2>. QED  BY <1>3, <2>1, <2>2 DEF NextDay, TripTypeOK
<1>4. CASE RefillStart
  <2>1. Done(Active) \in JobTypes
    BY JobsAreJobs DEF Active
  <2>2. jobs' \in [Workers -> JobTypes] /\ refilled' = TRUE
    BY <1>1, <1>4, <2>1, JobBecomes DEF RefillStart
  <2>. QED  BY <1>4, <2>2 DEF RefillStart, TripTypeOK
<1>5. ASSUME NEW w \in Workers, JobFails(w)
      PROVE  TripTypeOK'
  <2>1. jobs[Nightly].at = "add" => jobs[Nightly].scheds \subseteq Scheds
    BY <1>1, JobKinds DEF TripTypeOK
  <2>2. PICK job \in JobTypes : Becomes(w, job)
    BY <1>5, <2>1, JobsAreJobs DEF JobFails, At
  <2>. QED  BY <1>5, <2>2, JobBecomes, OnlyJobs DEF JobFails
<1>. QED  BY <1>2, <1>3, <1>4, <1>5

\* A guest told, whatever the provider answers.
LEMMA TellTypes ==
    ASSUME TripTypeOK, NEW w \in Workers, TellGuest(w)
    PROVE  TripTypeOK'
<1>1. jobs[w].tell \subseteq Guests
  BY JobKinds DEF TellGuest, At, TripTypeOK
<1>2. PICK g \in jobs[w].tell, a \in Answers :
        Becomes(w, AfterTelling(jobs[w].tell \ {g}, Ok(a)))
  BY DEF TellGuest
<1>3. AfterTelling(jobs[w].tell \ {g}, Ok(a)) \in JobTypes
  BY <1>1, JobsAreJobs DEF AfterTelling
<1>. QED  BY <1>2, <1>3, JobBecomes, OnlyJobs DEF TellGuest

\* Every step of the season keeps the types of its departures.
LEMMA TripTypeStep == TripTypeOK /\ [Next]_vars => TripTypeOK'
<1>. SUFFICES ASSUME TripTypeOK, [Next]_vars
              PROVE  TripTypeOK'
  OBVIOUS
<1>1. CASE OwnerStarts
  <2>1. Desks \subseteq Workers
    BY DEF Workers
  <2>. QED  BY <1>1, <2>1, CheckTypes, OwnerTypes DEF OwnerStarts
<1>2. ASSUME NEW w \in Workers, Works(w)
      PROVE  TripTypeOK'
  BY <1>2, SaveTypes, GenTypes, WriteTypes DEF Works
<1>3. CASE TripStep
  BY <1>1, <1>2, <1>3, GuestTypes, ClockTypes DEF TripStep
<1>4. ASSUME NEW w \in Workers, TellGuest(w) \/ RequestFails(w)
      PROVE  TripTypeOK'
  BY <1>4, TellTypes, ClockTypes DEF RequestFails
<1>5. CASE UNCHANGED tripVars
  BY <1>5 DEF tripVars, TripTypeOK
<1>. QED  BY <1>3, <1>4, <1>5 DEF Next, vars

\* The season starts with the types in place.
LEMMA TripTypeInit == Init => TripTypeOK
<1>. SUFFICES ASSUME Init
              PROVE  TripTypeOK
  OBVIOUS
<1>1. 0 \in Dates /\ 0 \in 0 .. MaxDeps /\ 0 \in 0 .. LastDay
  BY ScheduleAssumption DEF Dates
<1>2. NoSched \in SchedType /\ NoDep \in DepType /\ NoGuest \in GuestType
  BY <1>1 DEF NoSched, NoDep, NoGuest, SchedType, DepType, GuestType
<1>. QED  BY <1>1, <1>2, JobsAreJobs
          DEF Init, TripInit, TripTypeOK, SchedType, DepType, GuestType

-----------------------------------------------------------------------------
(* Season keeps the promises of its two parts *)

\* Whatever a request or a guest does, the notices see a notice of theirs,
\* or nothing.
LEMMA SeasonTells == TripTypeOK /\ [Next]_vars => [NotifyNext]_notifyVars
<1>. SUFFICES ASSUME TripTypeOK, [Next]_vars
              PROVE  NotifyNext \/ UNCHANGED notifyVars
  OBVIOUS
<1>1. CASE TripStep /\ UNCHANGED <<notifyVars, untold>>
  BY <1>1
<1>2. CASE NotifyStep /\ UNCHANGED <<tripVars, untold>>
  BY <1>2 DEF NotifyNext
<1>3. ASSUME NEW w \in Workers, TellGuest(w)
      PROVE  Tells
  <2>1. jobs[w].tell \subseteq Guests
    BY <1>3, JobKinds DEF TellGuest, At, TripTypeOK
  <2>2. PICK g \in jobs[w].tell, a \in Answers : Notice(g, a)
    BY <1>3 DEF TellGuest
  <2>. QED  BY <1>3, <2>1, <2>2, SeasonAssumption DEF TellGuest, Tells
<1>4. ASSUME NEW w \in Workers, RequestFails(w)
      PROVE  UNCHANGED notifyVars
  BY <1>4 DEF RequestFails
<1>5. CASE UNCHANGED vars
  BY <1>5 DEF vars
<1>. QED  BY <1>1, <1>2, <1>3, <1>4, <1>5 DEF Next, NotifyNext

\* A season is a behaviour of the notices: all that is proved of NotifySpec
\* holds of it.
THEOREM SeasonImplementsNotify == Spec => NotifySpec
<1>1. Init => NotifyInit
  BY DEF Init
<1>. QED  BY <1>1, TripTypeInit, TripTypeStep, SeasonTells, PTL
          DEF Spec, NotifySpec

\* Notices about trips are given up only after their attempts, and the copies
\* a guest gets stay bounded.
THEOREM SeasonRetriesBounded == Spec => []RetriesBounded
  BY SeasonImplementsNotify, NotifyRetriesBounded, PTL

UntoldOK == untold \subseteq Guests

\* Only guests are left untold.
LEMMA UntoldGuests == TripTypeOK /\ UntoldOK /\ [Next]_vars => UntoldOK'
<1>. SUFFICES ASSUME TripTypeOK, untold \subseteq Guests, [Next]_vars
              PROVE  untold' \subseteq Guests
  BY DEF UntoldOK
<1>1. ASSUME NEW w \in Workers, RequestFails(w)
      PROVE  untold' \subseteq Guests
  BY <1>1, JobKinds DEF RequestFails, At, TripTypeOK
<1>2. ASSUME NEW w \in Workers, TellGuest(w)
      PROVE  untold' = untold
  BY <1>2 DEF TellGuest
<1>. QED  BY <1>1, <1>2 DEF Next, vars

\* Every part of the state of a season has its type.
THEOREM SeasonTypes == Spec => []TypeOK
<1>1. Init => TripTypeOK /\ UntoldOK /\ NotifyInv
  BY TripTypeInit, NotifyInitInv DEF Init, UntoldOK
<1>2. NotifyInv => NotifyTypeOK
  BY DEF NotifyInv
<1>3. TripTypeOK /\ UntoldOK /\ NotifyTypeOK => TypeOK
  BY DEF TypeOK, UntoldOK
<1>. QED  BY <1>1, <1>2, <1>3, TripTypeStep, UntoldGuests, SeasonTells,
             NotifyNextInv, PTL DEF Spec

-----------------------------------------------------------------------------
(* Departures and the guests on them *)

\* What a step may do to a departure: a number in use stays in use, a slot
\* is for ever, and a date changes only with a move.
DepsGrow ==
    \A d \in Existing :
        /\ d \in Existing' /\ deps'[d].slot = deps[d].slot
        /\ deps'[d].twin = deps[d].twin
        /\ deps[d].moved => deps'[d].moved
        /\ deps'[d].date # deps[d].date =>
              /\ deps'[d].moved
              /\ \E w \in Workers : /\ At(w, "move") /\ jobs[w].dep = d
                                     /\ jobs[w].date # deps[d].date

\* A new departure leaves the others alone.
LEMMA AddGrows ==
    ASSUME TripTypeOK, NEW new \in Fresh, NEW slot \in Slots \cup {Manual},
           NEW date \in Dates, NEW known, AddDep(new, slot, date, known)
    PROVE  /\ DepsGrow /\ new \notin Existing
           /\ Existing' = Existing \cup {new}
           /\ \A d \in DepIds : d # new => deps'[d] = deps[d]
           /\ deps'[new].slot = slot /\ deps'[new].date = date
           /\ (\E e \in Existing : /\ deps[e].slot = slot
                                   /\ deps[e].date = date /\ e \notin known)
              => deps'[new].twin
<1>1. new \in DepIds \ Existing
  BY DEF Fresh
<1>. DEFINE same == {d \in Existing : deps[d].slot = slot /\ deps[d].date = date}
<1>2. PICK twin : twin = ~(same \subseteq known)
  OBVIOUS
<1>3. deps' = [deps EXCEPT ![new] =
                 [state |-> "scheduled", slot |-> slot, date |-> date,
                  moved |-> FALSE, twin |-> twin]]
  BY <1>2 DEF AddDep
<1>4. /\ \A d \in DepIds : d # new => deps'[d] = deps[d]
      /\ deps'[new] = [state |-> "scheduled", slot |-> slot, date |-> date,
                       moved |-> FALSE, twin |-> twin]
  BY <1>1, <1>3 DEF TripTypeOK
<1>5. Existing' = Existing \cup {new}
  BY <1>1, <1>4 DEF Existing
<1>6. DepsGrow
  BY <1>1, <1>4, <1>5 DEF DepsGrow, Existing
<1>7. (\E e \in Existing : /\ deps[e].slot = slot
                           /\ deps[e].date = date /\ e \notin known)
      => deps'[new].twin
  <2>1. (\E e \in Existing : /\ deps[e].slot = slot
                             /\ deps[e].date = date /\ e \notin known) => twin
    BY <1>2
  <2>2. deps'[new].twin = twin
    BY <1>4
  <2>. QED  BY <2>1, <2>2
<1>8. deps'[new].slot = slot /\ deps'[new].date = date
  BY <1>4
<1>. QED  BY <1>1, <1>4, <1>5, <1>6, <1>7, <1>8

\* A status that changes leaves the rest of a departure alone.
LEMMA StateGrows ==
    ASSUME TripTypeOK, NEW D \in SUBSET DepIds,
           NEW st \in {"scheduled", "in_progress", "completed", "cancelled"},
           deps' = [d \in DepIds |-> IF d \in D THEN [deps[d] EXCEPT !.state = st]
                                     ELSE deps[d]]
    PROVE  /\ DepsGrow
           /\ \A d \in DepIds : /\ deps'[d].slot = deps[d].slot
                                /\ deps'[d].date = deps[d].date
                                /\ deps'[d].moved = deps[d].moved
                                /\ deps'[d].twin = deps[d].twin
<1>1. \A d \in DepIds : deps[d] \in DepType
  BY DEF TripTypeOK, DepType
<1>2. \A d \in DepIds : /\ deps'[d].slot = deps[d].slot
                        /\ deps'[d].date = deps[d].date
                        /\ deps[d].state # "none" => deps'[d].state # "none"
  BY <1>1 DEF DepType
<1>3. \A d \in DepIds : deps'[d].moved = deps[d].moved
  BY <1>1 DEF DepType
<1>4. \A d \in DepIds : deps'[d].twin = deps[d].twin
  BY <1>1 DEF DepType
<1>. QED  BY <1>2, <1>3, <1>4 DEF DepsGrow, Existing

(* A request is about departures that exist.                               *)
OfTrips(job) ==
    /\ job.at \in {"move", "cancel", "revive"} => job.dep \in Existing
    /\ job.at = "reconcile" => job.gone \subseteq Existing
RequestsHaveTrips == \A w \in Workers : OfTrips(jobs[w])

(* A guest's departure is one; nobody is booked on a departure about to be *)
(* given another date but who overtook the move.                           *)
GuestsHaveTrips ==
    \A g \in Guests : guests[g].stage # "new" => guests[g].dep \in Existing
MovesAreFree ==
    \A w \in Workers : At(w, "move") =>
        \A g \in Booked(jobs[w].dep) :
            guests[g].late \/ jobs[w].date = deps[jobs[w].dep].date

(* A generation has yet to add no trip that it saw and that was not moved. *)
AddsAreMissing ==
    \A w \in Workers : At(w, "add") =>
        /\ jobs[w].known \subseteq Existing
        /\ \A k \in jobs[w].todo, d \in jobs[w].known :
              deps[d].slot = k[1] /\ deps[d].date = k[2] => deps[d].moved

GuestsInv == /\ RequestsHaveTrips /\ GuestsHaveTrips /\ MovesAreFree
             /\ GuestsKeepTheirDate
SlotsInv == AddsAreMissing /\ OneTripPerSlotDay
TripInv == TripTypeOK /\ GuestsInv /\ SlotsInv

\* The guests are safe while departures change as they may and every move
\* that starts is of a free departure or to the date it has.
LEMMA GuestsAreSafe ==
    ASSUME TripInv, DepsGrow, UNCHANGED guests,
           \A w \in Workers :
              \/ jobs'[w] = jobs[w]
              \/ /\ OfTrips(jobs'[w])
                 /\ jobs'[w].at = "move" =>
                       \/ Booked(jobs'[w].dep) = {}
                       \/ jobs'[w].date = deps'[jobs'[w].dep].date
    PROVE  GuestsInv'
<1>1. \A d \in Existing : d \in Existing'
  BY DEF DepsGrow
<1>2. GuestsHaveTrips'
  BY <1>1 DEF TripInv, GuestsInv, GuestsHaveTrips
<1>3. ASSUME NEW g \in Guests, guests[g].stage = "booked", ~guests[g].late
      PROVE  deps'[guests[g].dep].date = deps[guests[g].dep].date
  <2>1. guests[g].dep \in Existing
    BY <1>3 DEF TripInv, GuestsInv, GuestsHaveTrips
  <2>2. \A w \in Workers : At(w, "move") /\ jobs[w].dep = guests[g].dep
           => jobs[w].date = deps[guests[g].dep].date
    BY <1>3 DEF TripInv, GuestsInv, MovesAreFree, Booked
  <2>. QED  BY <2>1, <2>2 DEF DepsGrow
<1>4. MovesAreFree'
  <2>. SUFFICES ASSUME NEW w \in Workers, jobs'[w].at = "move",
                       NEW g \in Guests, guests[g].stage = "booked",
                       guests[g].dep = jobs'[w].dep, ~guests[g].late
                PROVE  jobs'[w].date = deps'[jobs'[w].dep].date
    BY DEF MovesAreFree, At, Booked
  <2>1. g \in Booked(jobs'[w].dep)
    BY DEF Booked
  <2>2. CASE jobs'[w] = jobs[w]
    BY <1>3, <2>1, <2>2 DEF TripInv, GuestsInv, MovesAreFree, At
  <2>3. CASE jobs'[w] # jobs[w]
    <3>1. Booked(jobs'[w].dep) # {}
      BY <2>1
    <3>. QED  BY <2>3, <3>1
  <2>. QED  BY <2>2, <2>3
<1>5. GuestsKeepTheirDate'
  BY <1>3 DEF TripInv, GuestsInv, GuestsKeepTheirDate
<1>6. RequestsHaveTrips'
  BY <1>1 DEF TripInv, GuestsInv, RequestsHaveTrips, OfTrips
<1>. QED  BY <1>2, <1>4, <1>5, <1>6 DEF GuestsInv

\* The slots are safe while no departure is added and every generation that
\* starts leaves out what it saw.
LEMMA SlotsAreSafe ==
    ASSUME TripInv, DepsGrow, Existing' = Existing,
           \A w \in Workers : jobs'[w].at = "add" =>
              \/ jobs'[w] = jobs[w]
              \/ /\ jobs'[w].known = Existing /\ UNCHANGED deps
                 /\ jobs'[w].todo \cap Generated = {}
                 /\ jobs'[w].todo \subseteq Slots \X Dates
    PROVE  SlotsInv'
<1>1. AddsAreMissing'
  <2>. SUFFICES ASSUME NEW w \in Workers, jobs'[w].at = "add"
                PROVE  /\ jobs'[w].known \subseteq Existing
                       /\ \A k \in jobs'[w].todo, d \in jobs'[w].known :
                             deps'[d].slot = k[1] /\ deps'[d].date = k[2]
                             => deps'[d].moved
    BY DEF AddsAreMissing, At
  <2>1. CASE jobs'[w] = jobs[w]
    <3>1. /\ jobs[w].known \subseteq Existing
          /\ \A k \in jobs[w].todo, d \in jobs[w].known :
                deps[d].slot = k[1] /\ deps[d].date = k[2] => deps[d].moved
      BY <2>1 DEF TripInv, SlotsInv, AddsAreMissing, At
    <3>. QED  BY <2>1, <3>1 DEF DepsGrow
  <2>2. CASE /\ jobs'[w].known = Existing /\ UNCHANGED deps
             /\ jobs'[w].todo \cap Generated = {}
             /\ jobs'[w].todo \subseteq Slots \X Dates
    <3>1. ASSUME NEW k \in jobs'[w].todo, NEW d \in Existing,
                 deps[d].slot = k[1], deps[d].date = k[2]
          PROVE  FALSE
      <4>1. k = <<deps[d].slot, deps[d].date>>
        BY <2>2, <3>1
      <4>2. k \in Generated
        BY <4>1 DEF Generated
      <4>. QED  BY <2>2, <4>2
    <3>. QED  BY <2>2, <3>1
  <2>. QED  BY <2>1, <2>2
<1>2. OneTripPerSlotDay'
  <2>. SUFFICES ASSUME NEW d \in Existing, NEW e \in Existing, d # e,
                       deps'[d].slot = deps'[e].slot, deps'[d].slot # Manual,
                       deps'[d].date = deps'[e].date
                PROVE  \E x \in {d, e} : deps'[x].moved \/ deps'[x].twin
    BY DEF OneTripPerSlotDay
  <2>1. CASE deps'[d].date = deps[d].date /\ deps'[e].date = deps[e].date
    <3>1. PICK x \in {d, e} : deps[x].moved \/ deps[x].twin
      <4>1. /\ deps[d].slot = deps[e].slot /\ deps[d].slot # Manual
            /\ deps[d].date = deps[e].date
        BY <2>1 DEF DepsGrow
      <4>. QED  BY <4>1 DEF TripInv, SlotsInv, OneTripPerSlotDay
    <3>2. x \in Existing
      BY <3>1
    <3>3. deps'[x].twin = deps[x].twin /\ (deps[x].moved => deps'[x].moved)
      BY <3>2 DEF DepsGrow
    <3>. QED  BY <3>1, <3>3
  <2>2. CASE deps'[d].date # deps[d].date \/ deps'[e].date # deps[e].date
    BY <2>2 DEF DepsGrow
  <2>. QED  BY <2>1, <2>2
<1>. QED  BY <1>1, <1>2 DEF SlotsInv

\* The slots are safe when a departure is added that either is of no slot or
\* is one that a generation found missing.
LEMMA AddIsSafe ==
    ASSUME TripInv, NEW new \in Fresh, NEW slot \in Slots \cup {Manual},
           NEW date \in Dates, NEW known, AddDep(new, slot, date, known),
           slot # Manual => \A d \in known \cap Existing :
              deps[d].slot = slot /\ deps[d].date = date => deps[d].moved,
           \A w \in Workers : jobs'[w].at = "add" =>
              /\ jobs[w].at = "add" /\ jobs'[w].todo \subseteq jobs[w].todo
              /\ \/ jobs'[w].known = jobs[w].known
                 \/ /\ jobs'[w].known = jobs[w].known \cup {new}
                    /\ <<slot, date>> \notin jobs'[w].todo
                    /\ jobs'[w].todo \subseteq Slots \X Dates
    PROVE  SlotsInv'
<1>1. /\ DepsGrow /\ new \notin Existing
      /\ Existing' = Existing \cup {new}
      /\ \A d \in Existing : deps'[d] = deps[d]
      /\ deps'[new].slot = slot /\ deps'[new].date = date
      /\ (\E e \in Existing : /\ deps[e].slot = slot
                              /\ deps[e].date = date /\ e \notin known)
         => deps'[new].twin
  <2>1. \A d \in Existing : d \in DepIds
    BY DEF Existing
  <2>. QED  BY <2>1, AddGrows DEF TripInv
<1>2. AddsAreMissing'
  <2>. SUFFICES ASSUME NEW w \in Workers, jobs'[w].at = "add"
                PROVE  /\ jobs'[w].known \subseteq Existing'
                       /\ \A k \in jobs'[w].todo, d \in jobs'[w].known :
                             deps'[d].slot = k[1] /\ deps'[d].date = k[2]
                             => deps'[d].moved
    BY DEF AddsAreMissing, At
  <2>1. /\ jobs[w].known \subseteq Existing
        /\ \A k \in jobs[w].todo, d \in jobs[w].known :
              deps[d].slot = k[1] /\ deps[d].date = k[2] => deps[d].moved
    BY DEF TripInv, SlotsInv, AddsAreMissing, At
  <2>2. ASSUME jobs'[w].known = jobs[w].known \cup {new},
               <<slot, date>> \notin jobs'[w].todo,
               jobs'[w].todo \subseteq Slots \X Dates,
               NEW k \in jobs'[w].todo
        PROVE  ~ (deps'[new].slot = k[1] /\ deps'[new].date = k[2])
    <3>1. k = <<k[1], k[2]>>
      BY <2>2
    <3>. QED  BY <1>1, <2>2, <3>1
  <2>. QED  BY <1>1, <2>1, <2>2
<1>3. OneTripPerSlotDay'
  <2>. SUFFICES ASSUME NEW d \in Existing', NEW e \in Existing', d # e,
                       deps'[d].slot = deps'[e].slot, deps'[d].slot # Manual,
                       deps'[d].date = deps'[e].date
                PROVE  \E x \in {d, e} : deps'[x].moved \/ deps'[x].twin
    BY DEF OneTripPerSlotDay
  <2>1. CASE d # new /\ e # new
    BY <1>1, <2>1 DEF TripInv, SlotsInv, OneTripPerSlotDay
  <2>2. ASSUME NEW x \in Existing, deps[x].slot = slot, deps[x].date = date,
               slot # Manual
        PROVE  deps'[x].moved \/ deps'[new].twin
    <3>1. CASE x \in known
      BY <1>1, <2>2, <3>1
    <3>2. CASE x \notin known
      BY <1>1, <2>2, <3>2
    <3>. QED  BY <3>1, <3>2
  <2>3. CASE d = new
    BY <1>1, <2>2, <2>3
  <2>4. CASE e = new
    BY <1>1, <2>2, <2>4
  <2>. QED  BY <2>1, <2>3, <2>4
<1>. QED  BY <1>2, <1>3 DEF SlotsInv

\* A step of one request that changes no departure and no guest.
LEMMA RequestIsSafe ==
    ASSUME TripInv, NEW w \in Workers, NEW job \in JobTypes, Becomes(w, job),
           UNCHANGED <<deps, guests>>, OfTrips(job),
           job.at = "move" => \/ Booked(job.dep) = {}
                              \/ job.date = deps[job.dep].date,
           job.at = "add" => /\ job.known = Existing
                             /\ job.todo \cap Generated = {}
    PROVE  GuestsInv' /\ SlotsInv'
<1>1. DepsGrow /\ Existing' = Existing
  BY DEF DepsGrow, Existing
<1>2. \A v \in Workers : jobs'[v] = IF v = w THEN job ELSE jobs[v]
  BY DEF Becomes, TripInv, TripTypeOK
<1>3. job.at = "add" => job.todo \subseteq Slots \X Dates
  BY JobKinds
<1>4. GuestsInv'
  BY <1>1, <1>2, GuestsAreSafe
<1>5. SlotsInv'
  BY <1>1, <1>2, <1>3, SlotsAreSafe
<1>. QED  BY <1>4, <1>5

\* A step that changes the status of departures that exist.
LEMMA StatusIsSafe ==
    ASSUME TripInv, NEW D \in SUBSET Existing,
           NEW st \in {"scheduled", "in_progress", "completed", "cancelled"},
           deps' = [d \in DepIds |-> IF d \in D THEN [deps[d] EXCEPT !.state = st]
                                     ELSE deps[d]],
           UNCHANGED guests,
           \A w \in Workers : \/ jobs'[w] = jobs[w]
                              \/ jobs'[w].at \in {"idle", "generate", "tell"}
    PROVE  GuestsInv' /\ SlotsInv'
<1>1. D \in SUBSET DepIds
  BY DEF Existing
<1>2. DepsGrow
  BY <1>1, StateGrows DEF TripInv
<1>3. Existing' = Existing
  <2>1. \A d \in DepIds \ Existing : deps'[d] = deps[d]
    OBVIOUS
  <2>2. Existing' \subseteq Existing
    BY <2>1 DEF Existing
  <2>. QED  BY <1>2, <2>2 DEF DepsGrow
<1>4. \A w \in Workers : jobs'[w].at \in {"idle", "generate", "tell"} =>
         OfTrips(jobs'[w]) /\ jobs'[w].at # "move" /\ jobs'[w].at # "add"
  BY DEF OfTrips
<1>5. GuestsInv'
  BY <1>2, <1>4, GuestsAreSafe
<1>6. SlotsInv'
  BY <1>2, <1>3, <1>4, SlotsAreSafe
<1>. QED  BY <1>5, <1>6

\* A step of the guests, the clock or the notices that touches neither the
\* departures nor the requests.
LEMMA OthersAreSafe ==
    ASSUME TripInv, UNCHANGED <<deps, jobs, guests>>
    PROVE  GuestsInv' /\ SlotsInv'
<1>1. DepsGrow /\ Existing' = Existing
  BY DEF DepsGrow, Existing
<1>. QED  BY <1>1, GuestsAreSafe, SlotsAreSafe

\* What a guest does: a booking that overtakes a change is marked late.
LEMMA GuestIsSafe ==
    ASSUME TripInv, NEW g \in Guests,
           \/ Confirm(g) \/ Pay(g) \/ CancelBooking(g)
           \/ \E d \in DepIds : BeginCheckout(g, d)
    PROVE  GuestsInv' /\ SlotsInv'
<1>1. /\ UNCHANGED <<deps, jobs>> /\ Existing' = Existing
      /\ guests \in [Guests -> GuestType] /\ guests[g] \in GuestType
      /\ \A h \in Guests : h # g => guests'[h] = guests[h]
  <2>1. UNCHANGED <<deps, jobs>> /\ Existing' = Existing
    BY DEF Confirm, Pay, CancelBooking, BeginCheckout, Existing
  <2>2. guests \in [Guests -> GuestType]
    BY DEF TripInv, TripTypeOK, GuestType
  <2>3. PICK n : guests' = [guests EXCEPT ![g] = n]
    <3>1. CASE Confirm(g) \/ CancelBooking(g)
      BY <3>1 DEF Confirm, CancelBooking
    <3>2. CASE Pay(g)
      <4>1. guests' = [guests EXCEPT ![g] = [[@ EXCEPT !.stage = "booked"]
                                               EXCEPT !.late = Overtaken(g)]]
        BY <2>2, <3>2 DEF Pay
      <4>. QED  BY <4>1
    <3>3. ASSUME NEW d \in DepIds, BeginCheckout(g, d)
          PROVE  \E n : guests' = [guests EXCEPT ![g] = n]
      <4>1. guests' = [guests EXCEPT ![g] = [@ EXCEPT !.stage = "intent",
                                              !.dep = d, !.saw = deps[d].date]]
        BY <2>2, <3>3 DEF BeginCheckout
      <4>. QED  BY <4>1
    <3>. QED  BY <3>1, <3>2, <3>3
  <2>. QED  BY <2>1, <2>2, <2>3
<1>2. SlotsInv'
  BY <1>1 DEF TripInv, SlotsInv, AddsAreMissing, OneTripPerSlotDay, At
<1>3. RequestsHaveTrips'
  BY <1>1 DEF TripInv, GuestsInv, RequestsHaveTrips, OfTrips
<1>4. ASSUME guests'[g].stage # "booked", guests'[g].dep \in Existing
      PROVE  GuestsHaveTrips' /\ MovesAreFree' /\ GuestsKeepTheirDate'
  BY <1>1, <1>4 DEF TripInv, GuestsInv, GuestsHaveTrips, MovesAreFree,
     GuestsKeepTheirDate, Booked, At
<1>5. CASE Confirm(g)
  <2>1. guests'[g].stage = "paying" /\ guests'[g].dep = guests[g].dep
        /\ guests[g].stage = "intent"
    BY <1>1, <1>5 DEF Confirm, GuestType
  <2>2. guests[g].dep \in Existing
    BY <2>1 DEF TripInv, GuestsInv, GuestsHaveTrips
  <2>. QED  BY <1>2, <1>3, <1>4, <2>1, <2>2 DEF GuestsInv
<1>6. CASE CancelBooking(g)
  <2>1. guests'[g].stage = "cancelled" /\ guests'[g].dep = guests[g].dep
        /\ guests[g].stage = "booked"
    BY <1>1, <1>6 DEF CancelBooking, GuestType
  <2>2. guests[g].dep \in Existing
    BY <2>1 DEF TripInv, GuestsInv, GuestsHaveTrips
  <2>. QED  BY <1>2, <1>3, <1>4, <2>1, <2>2 DEF GuestsInv
<1>7. ASSUME NEW d \in DepIds, BeginCheckout(g, d)
      PROVE  GuestsInv' /\ SlotsInv'
  <2>1. guests'[g].stage = "intent" /\ guests'[g].dep = d
    BY <1>1, <1>7 DEF BeginCheckout, GuestType
  <2>2. d \in Existing
    BY <1>7 DEF BeginCheckout, Existing
  <2>. QED  BY <1>2, <1>3, <1>4, <2>1, <2>2 DEF GuestsInv
<1>8. CASE Pay(g)
  <2>1. /\ guests[g].stage = "paying" /\ guests'[g].stage = "booked"
        /\ guests'[g].dep = guests[g].dep /\ guests'[g].saw = guests[g].saw
    BY <1>1, <1>8 DEF Pay, GuestType
  <2>2. guests'[g].late <=> Overtaken(g)
    BY <1>1, <1>8 DEF Pay, GuestType
  <2>3. GuestsHaveTrips'
    BY <1>1, <2>1 DEF TripInv, GuestsInv, GuestsHaveTrips
  <2>4. MovesAreFree'
    <3>. SUFFICES ASSUME NEW w \in Workers, At(w, "move"), NEW h \in Guests,
                         guests'[h].stage = "booked",
                         guests'[h].dep = jobs[w].dep
                  PROVE  guests'[h].late \/ jobs[w].date = deps[jobs[w].dep].date
      BY <1>1 DEF MovesAreFree, Booked, At
    <3>1. CASE h = g
      BY <2>1, <2>2, <3>1 DEF Overtaken
    <3>2. CASE h # g
      BY <1>1, <3>2 DEF TripInv, GuestsInv, MovesAreFree, Booked
    <3>. QED  BY <3>1, <3>2
  <2>5. GuestsKeepTheirDate'
    <3>. SUFFICES ASSUME NEW h \in Guests, guests'[h].stage = "booked",
                         ~guests'[h].late
                  PROVE  deps[guests'[h].dep].date = guests'[h].saw
      BY <1>1 DEF GuestsKeepTheirDate
    <3>1. CASE h = g
      BY <2>1, <2>2, <3>1 DEF Overtaken
    <3>2. CASE h # g
      BY <1>1, <3>2 DEF TripInv, GuestsInv, GuestsKeepTheirDate
    <3>. QED  BY <3>1, <3>2
  <2>. QED  BY <1>2, <1>3, <2>3, <2>4, <2>5 DEF GuestsInv
<1>. QED  BY <1>5, <1>6, <1>7, <1>8

\* The steps of a save and of a generation.
LEMMA SaveIsSafe ==
    ASSUME TripInv, NEW w \in Workers,
           \/ \E week \in [SlotNos -> SUBSET Weekdays] : SaveStart(w, week)
           \/ SaveCreate(w) \/ SaveRead(w) \/ SaveWrite(w) \/ GenRead(w)
    PROVE  GuestsInv' /\ SlotsInv'
<1>1. jobs[w] \in JobTypes /\ (\A v \in Workers : OfTrips(jobs[v]))
  BY DEF TripInv, TripTypeOK, GuestsInv, RequestsHaveTrips
<1>2. ASSUME NEW week \in [SlotNos -> SUBSET Weekdays], SaveStart(w, week)
      PROVE  GuestsInv' /\ SlotsInv'
  <2>1. \A i \in Scheds : scheds[i].rows \in SUBSET SlotNos
    BY DEF TripInv, TripTypeOK
  <2>2. PICK job \in JobTypes : /\ Becomes(w, job)
                                /\ job.at \in {"create", "update"}
    BY <1>2, <2>1, JobsAreJobs DEF SaveStart, Active
  <2>3. OfTrips(job) /\ job.at # "move" /\ job.at # "add"
    BY <2>2 DEF OfTrips
  <2>. QED  BY <1>2, <2>2, <2>3, RequestIsSafe DEF SaveStart
<1>3. CASE SaveCreate(w)
  <2>1. PICK i \in Scheds : Becomes(w, Done({i}))
    BY <1>3 DEF SaveCreate, Unsaved, Done
  <2>2. Done({i}) \in JobTypes /\ Done({i}).at \in {"idle", "generate"}
    BY JobsAreJobs DEF Done, Idle
  <2>3. /\ OfTrips(Done({i})) /\ Done({i}).at # "move"
        /\ Done({i}).at # "add"
    BY <2>2 DEF OfTrips
  <2>. QED  BY <1>3, <2>1, <2>2, <2>3, RequestIsSafe DEF SaveCreate
<1>4. CASE SaveRead(w)
  <2>1. /\ jobs[w].sched \in Scheds
        /\ jobs[w].weekdays \in [SlotNos -> SUBSET Weekdays]
    BY <1>1, <1>4, JobKinds DEF SaveRead, At
  <2>2. PICK gone \in SUBSET Existing :
          Becomes(w, [at |-> "reconcile", sched |-> jobs[w].sched,
                      weekdays |-> jobs[w].weekdays, gone |-> gone])
    BY <1>4 DEF SaveRead, Reconciled
  <2>3. gone \in SUBSET DepIds
    BY DEF Existing
  <2>4. PICK job \in JobTypes : /\ Becomes(w, job) /\ job.at = "reconcile"
                                /\ job.gone \subseteq Existing
    BY <2>1, <2>2, <2>3, JobsAreJobs
  <2>5. OfTrips(job) /\ job.at # "move" /\ job.at # "add"
    BY <2>4 DEF OfTrips
  <2>. QED  BY <1>4, <2>4, <2>5, RequestIsSafe DEF SaveRead
<1>5. CASE SaveWrite(w)
  <2>1. jobs[w].gone \subseteq Existing
    BY <1>1, <1>5 DEF SaveWrite, At, OfTrips
  <2>2. /\ deps' = [d \in DepIds |->
             IF d \in jobs[w].gone THEN [deps[d] EXCEPT !.state = "cancelled"]
             ELSE deps[d]]
        /\ Becomes(w, [at |-> "generate", scheds |-> {jobs[w].sched}])
        /\ UNCHANGED guests
    BY <1>5 DEF SaveWrite
  <2>3. \A v \in Workers : jobs'[v] = jobs[v] \/ jobs'[v].at = "generate"
    BY <2>2 DEF Becomes, TripInv, TripTypeOK
  <2>. QED  BY <2>1, <2>2, <2>3, StatusIsSafe
<1>6. CASE GenRead(w)
  <2>1. jobs[w].scheds \subseteq Scheds /\ operating \subseteq Dates
    BY <1>1, <1>6, JobKinds DEF GenRead, At, TripInv, TripTypeOK
  <2>2. PICK i \in jobs[w].scheds :
          LET rest == jobs[w].scheds \ {i}
              todo == Wanted(i) \ Generated IN
          Becomes(w, IF i \notin Active \/ todo = {} THEN Done(rest)
                     ELSE [at |-> "add", todo |-> todo, scheds |-> rest,
                           known |-> Existing])
    BY <1>6 DEF GenRead
  <2>. DEFINE rest == jobs[w].scheds \ {i}
              todo == Wanted(i) \ Generated
              add == [at |-> "add", todo |-> todo, scheds |-> rest,
                      known |-> Existing]
  <2>3. Wanted(i) \subseteq Slots \X Dates /\ rest \in SUBSET Scheds
    BY <2>1, <2>2 DEF Wanted, Slots
  <2>4. /\ Done(rest) \in JobTypes
        /\ Done(rest).at \in {"idle", "generate"}
    BY <2>3, JobsAreJobs DEF Done, Idle
  <2>5. todo \in SUBSET (Slots \X Dates) /\ todo \cap Generated = {}
    BY <2>3
  <2>6. CASE Becomes(w, Done(rest))
    <3>. HIDE DEF rest
    <3>1. /\ OfTrips(Done(rest)) /\ Done(rest).at # "move"
          /\ Done(rest).at # "add"
      BY <2>4 DEF OfTrips
    <3>. QED  BY <1>6, <2>4, <2>6, <3>1, RequestIsSafe DEF GenRead
  <2>7. CASE todo # {} /\ Becomes(w, add)
    <3>1. Existing \in SUBSET DepIds
      BY DEF Existing
    <3>2. /\ add.at = "add" /\ add.known = Existing
          /\ add.todo \cap Generated = {}
      BY <2>5
    <3>. HIDE DEF todo, rest
    <3>3. add \in JobTypes
      BY <2>3, <2>5, <2>7, <3>1, JobsAreJobs
    <3>. HIDE DEF add
    <3>4. OfTrips(add)
      BY <3>2 DEF OfTrips
    <3>. QED  BY <1>6, <2>7, <3>2, <3>3, <3>4, RequestIsSafe DEF GenRead
  <2>. QED  BY <2>2, <2>6, <2>7
<1>. QED  BY <1>2, <1>3, <1>4, <1>5, <1>6

\* A departure that is added.
LEMMA NewTripIsSafe ==
    ASSUME TripInv,
           \/ \E w \in Workers : GenAdd(w)
           \/ \E date \in Dates : CreateDeparture(date)
    PROVE  GuestsInv' /\ SlotsInv'
<1>1. ASSUME NEW date \in Dates, CreateDeparture(date)
      PROVE  GuestsInv' /\ SlotsInv'
  <2>1. PICK new \in Fresh : AddDep(new, Manual, date, Existing)
    BY <1>1 DEF CreateDeparture
  <2>2. DepsGrow
    BY <2>1, AddGrows DEF TripInv
  <2>3. UNCHANGED <<jobs, guests>>
    BY <1>1 DEF CreateDeparture
  <2>4. GuestsInv'
    BY <2>2, <2>3, GuestsAreSafe
  <2>5. SlotsInv'
    BY <2>1, <2>3, AddIsSafe
  <2>. QED  BY <2>4, <2>5
<1>2. ASSUME NEW w \in Workers, GenAdd(w)
      PROVE  GuestsInv' /\ SlotsInv'
  <2>1. /\ jobs[w].at = "add" /\ jobs[w] \in JobTypes
        /\ jobs \in [Workers -> JobTypes]
    BY <1>2 DEF GenAdd, At, TripInv, TripTypeOK
  <2>2. /\ jobs[w].todo \subseteq Slots \X Dates
        /\ jobs[w].scheds \subseteq Scheds /\ jobs[w].known \subseteq DepIds
    BY <2>1, JobKinds
  <2>3. PICK k \in jobs[w].todo, new \in Fresh :
          /\ AddDep(new, k[1], k[2], jobs[w].known)
          /\ Becomes(w, IF jobs[w].todo \ {k} = {} THEN Done(jobs[w].scheds)
                        ELSE [jobs[w] EXCEPT !.todo = jobs[w].todo \ {k},
                                             !.known = @ \cup {new}])
    BY <1>2 DEF GenAdd
  <2>4. /\ k = <<k[1], k[2]>> /\ k[1] \in Slots /\ k[2] \in Dates
        /\ UNCHANGED guests
    <3>1. k \in Slots \X Dates
      BY <2>2
    <3>2. UNCHANGED guests
      BY <1>2 DEF GenAdd
    <3>. QED  BY <3>1, <3>2
  <2>5. DepsGrow
    BY <2>3, <2>4, AddGrows DEF TripInv
  <2>6. PICK job : /\ jobs' = [jobs EXCEPT ![w] = job]
                   /\ \/ job.at \in {"idle", "generate"}
                      \/ /\ job.at = "add" /\ job.todo = jobs[w].todo \ {k}
                         /\ job.known = jobs[w].known \cup {new}
    <3>1. CASE jobs[w].todo \ {k} = {}
      <4>1. Done(jobs[w].scheds).at \in {"idle", "generate"}
        BY DEF Done, Idle
      <4>. QED  BY <2>3, <3>1, <4>1 DEF Becomes
    <3>2. CASE jobs[w].todo \ {k} # {}
      <4>. DEFINE job == [jobs[w] EXCEPT !.todo = jobs[w].todo \ {k},
                                         !.known = jobs[w].known \cup {new}]
      <4>1. jobs[w] \in [at: {"add"}, todo: (SUBSET (Slots \X Dates)) \ {{}},
                         scheds: SUBSET Scheds, known: SUBSET DepIds]
        BY <2>1 DEF JobTypes
      <4>2. /\ job.at = "add" /\ job.todo = jobs[w].todo \ {k}
            /\ job.known = jobs[w].known \cup {new}
        BY <4>1
      <4>3. jobs' = [jobs EXCEPT ![w] = job]
        BY <2>3, <3>2 DEF Becomes
      <4>. QED  BY <4>2, <4>3
    <3>. QED  BY <3>1, <3>2
  <2>7. \A v \in Workers : jobs'[v] = IF v = w THEN job ELSE jobs[v]
    BY <2>1, <2>6
  <2>8. OfTrips(job) /\ job.at # "move"
    BY <2>6 DEF OfTrips
  <2>9. GuestsInv'
    BY <2>4, <2>5, <2>7, <2>8, GuestsAreSafe
  <2>10. \A d \in jobs[w].known :
            deps[d].slot = k[1] /\ deps[d].date = k[2] => deps[d].moved
    BY <2>1 DEF TripInv, SlotsInv, AddsAreMissing, At
  <2>11. \A v \in Workers : jobs'[v].at = "add" =>
              /\ jobs[v].at = "add" /\ jobs'[v].todo \subseteq jobs[v].todo
              /\ \/ jobs'[v].known = jobs[v].known
                 \/ /\ jobs'[v].known = jobs[v].known \cup {new}
                    /\ <<k[1], k[2]>> \notin jobs'[v].todo
                    /\ jobs'[v].todo \subseteq Slots \X Dates
    <3>. SUFFICES ASSUME NEW v \in Workers, jobs'[v].at = "add"
                  PROVE  /\ jobs[v].at = "add"
                         /\ jobs'[v].todo \subseteq jobs[v].todo
                         /\ \/ jobs'[v].known = jobs[v].known
                            \/ /\ jobs'[v].known = jobs[v].known \cup {new}
                               /\ <<k[1], k[2]>> \notin jobs'[v].todo
                               /\ jobs'[v].todo \subseteq Slots \X Dates
      OBVIOUS
    <3>1. CASE v = w
      <4>1. /\ jobs'[v].todo = jobs[w].todo \ {k}
            /\ jobs'[v].known = jobs[w].known \cup {new}
        BY <2>6, <2>7, <3>1
      <4>2. <<k[1], k[2]>> \notin jobs'[v].todo
        BY <2>4, <4>1
      <4>. QED  BY <2>1, <2>2, <3>1, <4>1, <4>2
    <3>2. CASE v # w
      BY <2>7, <3>2
    <3>. QED  BY <3>1, <3>2
  <2>12. SlotsInv'
    BY <2>3, <2>4, <2>10, <2>11, AddIsSafe
  <2>. QED  BY <2>9, <2>12
<1>. QED  BY <1>1, <1>2

\* The owner's changes of a departure.
LEMMA ChangeIsSafe ==
    ASSUME TripInv, NEW w \in Workers,
           \/ \E d \in DepIds : \/ CancelRead(w, d) \/ ReviveCheck(w, d)
                                \/ \E date \in Dates : MoveCheck(w, d, date)
           \/ MoveWrite(w) \/ CancelWrite(w) \/ ReviveWrite(w)
    PROVE  GuestsInv' /\ SlotsInv'
<1>1. /\ jobs[w] \in JobTypes /\ jobs \in [Workers -> JobTypes]
      /\ \A v \in Workers : OfTrips(jobs[v])
  BY DEF TripInv, TripTypeOK, GuestsInv, RequestsHaveTrips
<1>2. ASSUME NEW d \in DepIds, CancelRead(w, d)
      PROVE  GuestsInv' /\ SlotsInv'
  <2>1. Booked(d) \in SUBSET Guests /\ d \in Existing
    BY <1>2 DEF CancelRead, Booked
  <2>2. PICK job \in JobTypes : /\ Becomes(w, job) /\ job.at = "cancel"
                                /\ job.dep = d
    BY <1>2, <2>1, JobsAreJobs DEF CancelRead
  <2>3. OfTrips(job) /\ job.at # "move" /\ job.at # "add"
    BY <2>1, <2>2 DEF OfTrips
  <2>. QED  BY <1>2, <2>2, <2>3, RequestIsSafe DEF CancelRead
<1>3. ASSUME NEW d \in DepIds, ReviveCheck(w, d)
      PROVE  GuestsInv' /\ SlotsInv'
  <2>1. d \in Existing
    BY <1>3 DEF ReviveCheck, Existing
  <2>2. PICK job \in JobTypes : /\ Becomes(w, job) /\ job.at = "revive"
                                /\ job.dep = d
    BY <1>3, JobsAreJobs DEF ReviveCheck
  <2>3. OfTrips(job) /\ job.at # "move" /\ job.at # "add"
    BY <2>1, <2>2 DEF OfTrips
  <2>. QED  BY <1>3, <2>2, <2>3, RequestIsSafe DEF ReviveCheck
<1>4. ASSUME NEW d \in DepIds, NEW date \in Dates, MoveCheck(w, d, date)
      PROVE  GuestsInv' /\ SlotsInv'
  <2>1. d \in Existing /\ (date = deps[d].date \/ Booked(d) = {})
    BY <1>4 DEF MoveCheck, FreeToMove
  <2>2. PICK job \in JobTypes : /\ Becomes(w, job) /\ job.at = "move"
                                /\ job.dep = d /\ job.date = date
    BY <1>4, JobsAreJobs DEF MoveCheck
  <2>3. /\ OfTrips(job) /\ job.at # "add"
        /\ Booked(job.dep) = {} \/ job.date = deps[job.dep].date
    BY <2>1, <2>2 DEF OfTrips
  <2>. QED  BY <1>4, <2>2, <2>3, RequestIsSafe DEF MoveCheck
<1>5. CASE MoveWrite(w)
  <2>1. jobs[w].at = "move" /\ jobs[w].dep \in Existing
    BY <1>1, <1>5 DEF MoveWrite, At, OfTrips
  <2>2. jobs' = [jobs EXCEPT ![w] = Idle] /\ UNCHANGED guests
    BY <1>5 DEF MoveWrite, Becomes
  <2>3. \A v \in Workers : jobs'[v] = IF v = w THEN Idle ELSE jobs[v]
    BY <1>1, <2>2
  <2>4. deps \in [DepIds -> DepType] /\ Existing \subseteq DepIds
    BY DEF TripInv, TripTypeOK, DepType, Existing
  <2>5. /\ \A d \in DepIds : d # jobs[w].dep => deps'[d] = deps[d]
        /\ deps'[jobs[w].dep].state = deps[jobs[w].dep].state
        /\ deps'[jobs[w].dep].slot = deps[jobs[w].dep].slot
        /\ deps'[jobs[w].dep].twin = deps[jobs[w].dep].twin
    <3>1. CASE UNCHANGED deps
      BY <3>1
    <3>2. CASE deps' = [deps EXCEPT ![jobs[w].dep] =
                         [@ EXCEPT !.date = jobs[w].date, !.moved = TRUE]]
      BY <2>1, <2>4, <3>2 DEF DepType
    <3>. QED  BY <1>5, <2>1, <2>4, <3>1, <3>2, MoveWrites
  <2>6. \/ deps'[jobs[w].dep] = deps[jobs[w].dep]
        \/ /\ deps'[jobs[w].dep].moved /\ deps'[jobs[w].dep].date = jobs[w].date
           /\ deps[jobs[w].dep].date # jobs[w].date
    <3>1. CASE UNCHANGED deps
      BY <3>1
    <3>2. CASE /\ deps[jobs[w].dep].date # jobs[w].date
               /\ deps' = [deps EXCEPT ![jobs[w].dep] =
                            [@ EXCEPT !.date = jobs[w].date, !.moved = TRUE]]
      BY <2>1, <2>4, <3>2 DEF DepType
    <3>. QED  BY <1>5, <2>1, <2>4, <3>1, <3>2, MoveWrites
  <2>7. Existing' = Existing
    BY <2>1, <2>4, <2>5 DEF Existing
  <2>8. DepsGrow
    BY <2>1, <2>4, <2>5, <2>6, <2>7 DEF DepsGrow, At
  <2>9. Idle.at = "idle" /\ OfTrips(Idle)
    BY DEF Idle, OfTrips
  <2>10. GuestsInv'
    BY <2>2, <2>3, <2>8, <2>9, GuestsAreSafe
  <2>11. SlotsInv'
    BY <2>3, <2>7, <2>8, <2>9, SlotsAreSafe
  <2>. QED  BY <2>10, <2>11
<1>6. CASE CancelWrite(w)
  <2>1. jobs[w].dep \in Existing
    BY <1>1, <1>6 DEF CancelWrite, At, OfTrips
  <2>2. PICK job : Becomes(w, job) /\ job.at \in {"idle", "tell"}
    BY <1>6 DEF CancelWrite, Idle
  <2>3. \A v \in Workers : jobs'[v] = IF v = w THEN job ELSE jobs[v]
    BY <1>1, <2>2 DEF Becomes
  <2>4. deps' = [d \in DepIds |-> IF d \in {jobs[w].dep}
                                  THEN [deps[d] EXCEPT !.state = "cancelled"]
                                  ELSE deps[d]]
    BY <1>6, <2>1 DEF CancelWrite, TripInv, TripTypeOK
  <2>5. PICK D \in SUBSET Existing :
          deps' = [d \in DepIds |-> IF d \in D
                                    THEN [deps[d] EXCEPT !.state = "cancelled"]
                                    ELSE deps[d]]
    BY <2>1, <2>4
  <2>6. \A v \in Workers : \/ jobs'[v] = jobs[v]
                           \/ jobs'[v].at \in {"idle", "generate", "tell"}
    BY <2>2, <2>3
  <2>7. UNCHANGED guests
    BY <1>6 DEF CancelWrite
  <2>. QED  BY <2>5, <2>6, <2>7, StatusIsSafe
<1>7. CASE ReviveWrite(w)
  <2>1. jobs[w].dep \in Existing
    BY <1>1, <1>7 DEF ReviveWrite, At, OfTrips
  <2>2. Becomes(w, Idle) /\ Idle.at = "idle"
    BY <1>7 DEF ReviveWrite, Idle
  <2>3. \A v \in Workers : jobs'[v] = IF v = w THEN Idle ELSE jobs[v]
    BY <1>1, <2>2 DEF Becomes
  <2>4. deps' = [d \in DepIds |-> IF d \in {jobs[w].dep}
                                  THEN [deps[d] EXCEPT !.state = "scheduled"]
                                  ELSE deps[d]]
    BY <1>7, <2>1 DEF ReviveWrite, TripInv, TripTypeOK
  <2>5. PICK D \in SUBSET Existing :
          deps' = [d \in DepIds |-> IF d \in D
                                    THEN [deps[d] EXCEPT !.state = "scheduled"]
                                    ELSE deps[d]]
    BY <2>1, <2>4
  <2>6. \A v \in Workers : \/ jobs'[v] = jobs[v]
                           \/ jobs'[v].at \in {"idle", "generate", "tell"}
    BY <2>2, <2>3
  <2>7. UNCHANGED guests
    BY <1>7 DEF ReviveWrite
  <2>. QED  BY <2>5, <2>6, <2>7, StatusIsSafe
<1>. QED  BY <1>2, <1>3, <1>4, <1>5, <1>6, <1>7

\* The clock, the start of the refill, a failure and a notice.
LEMMA ClockIsSafe ==
    ASSUME TripInv,
           \/ \E d \in DepIds : Advance(d)
           \/ RefillStart
           \/ \E w \in Workers : JobFails(w) \/ TellGuest(w)
    PROVE  GuestsInv' /\ SlotsInv'
<1>1. ASSUME NEW d \in DepIds, Advance(d)
      PROVE  GuestsInv' /\ SlotsInv'
  <2>1. d \in Existing
    BY <1>1 DEF Advance, Existing
  <2>2. PICK st \in {"in_progress", "completed"} :
          deps' = [deps EXCEPT ![d].state = st]
    BY <1>1 DEF Advance
  <2>3. deps' = [e \in DepIds |-> IF e \in {d}
                                  THEN [deps[e] EXCEPT !.state = st]
                                  ELSE deps[e]]
    BY <2>1, <2>2 DEF TripInv, TripTypeOK
  <2>. QED  BY <1>1, <2>1, <2>3, StatusIsSafe DEF Advance
<1>2. ASSUME NEW w \in Workers, NEW rest \in SUBSET Scheds,
             UNCHANGED <<deps, guests>>,
             Becomes(w, Done(rest)) \/ Becomes(w, Idle)
      PROVE  GuestsInv' /\ SlotsInv'
  <2>1. PICK job \in JobTypes : /\ Becomes(w, job)
                                /\ job.at \in {"idle", "generate"}
    BY <1>2, JobsAreJobs DEF Done, Idle
  <2>2. OfTrips(job) /\ job.at # "move" /\ job.at # "add"
    BY <2>1 DEF OfTrips
  <2>. QED  BY <1>2, <2>1, <2>2, RequestIsSafe
<1>3. Nightly \in Workers
  BY DEF Workers
<1>4. CASE RefillStart
  BY <1>2, <1>3, <1>4 DEF RefillStart, Active
<1>5. ASSUME NEW w \in Workers, JobFails(w)
      PROVE  GuestsInv' /\ SlotsInv'
  <2>1. jobs[Nightly].at = "add" => jobs[Nightly].scheds \subseteq Scheds
    BY <1>3, JobKinds DEF TripInv, TripTypeOK
  <2>2. UNCHANGED <<deps, guests>>
    BY <1>5 DEF JobFails
  <2>3. CASE Becomes(w, Idle)
    BY <1>2, <2>2, <2>3
  <2>4. CASE w = Nightly /\ At(w, "add") /\ Becomes(w, Done(jobs[w].scheds))
    BY <1>2, <2>1, <2>2, <2>4 DEF At
  <2>. QED  BY <1>5, <2>3, <2>4 DEF JobFails
<1>6. ASSUME NEW w \in Workers, TellGuest(w)
      PROVE  GuestsInv' /\ SlotsInv'
  <2>1. jobs[w].tell \subseteq Guests
    BY <1>6, JobKinds DEF TellGuest, At, TripInv, TripTypeOK
  <2>2. PICK g \in jobs[w].tell, a \in Answers :
          Becomes(w, AfterTelling(jobs[w].tell \ {g}, Ok(a)))
    BY <1>6 DEF TellGuest
  <2>3. PICK job \in JobTypes : Becomes(w, job) /\ job.at \in {"idle", "tell"}
    BY <2>1, <2>2, JobsAreJobs DEF AfterTelling, Idle
  <2>4. OfTrips(job) /\ job.at # "move" /\ job.at # "add"
    BY <2>3 DEF OfTrips
  <2>. QED  BY <1>6, <2>3, <2>4, RequestIsSafe DEF TellGuest
<1>. QED  BY <1>1, <1>4, <1>5, <1>6

\* Every step of the season keeps guests and slots safe.
LEMMA TripInvStep == TripInv /\ [Next]_vars => TripInv'
<1>. SUFFICES ASSUME TripInv, [Next]_vars
              PROVE  GuestsInv' /\ SlotsInv'
  BY TripTypeStep DEF TripInv
<1>1. CASE OwnerStarts
  <2>1. Desks \subseteq Workers
    BY DEF Workers
  <2>2. ASSUME NEW dates \in SUBSET Dates, EditOperatingDates(dates)
        PROVE  GuestsInv' /\ SlotsInv'
    BY <2>2, OthersAreSafe DEF EditOperatingDates
  <2>. QED  BY <1>1, <2>1, <2>2, SaveIsSafe, ChangeIsSafe, NewTripIsSafe
            DEF OwnerStarts
<1>2. ASSUME NEW w \in Workers, Works(w)
      PROVE  GuestsInv' /\ SlotsInv'
  BY <1>2, SaveIsSafe, ChangeIsSafe, NewTripIsSafe DEF Works
<1>3. CASE NextDay
  BY <1>3, OthersAreSafe DEF NextDay
<1>4. CASE TripStep
  BY <1>1, <1>2, <1>3, <1>4, GuestIsSafe, ClockIsSafe DEF TripStep
<1>5. ASSUME NEW w \in Workers, TellGuest(w) \/ RequestFails(w)
      PROVE  GuestsInv' /\ SlotsInv'
  BY <1>5, ClockIsSafe DEF RequestFails
<1>6. CASE UNCHANGED tripVars
  BY <1>6, OthersAreSafe DEF tripVars
<1>. QED  BY <1>4, <1>5, <1>6 DEF Next, vars

\* A season starts without departures, requests and bookings.
LEMMA TripInvInit == Init => TripInv
<1>. SUFFICES ASSUME Init
              PROVE  GuestsInv /\ SlotsInv
  BY TripTypeInit DEF TripInv
<1>1. /\ \A w \in Workers : jobs[w].at = "idle"
      /\ \A g \in Guests : guests[g].stage = "new"
      /\ Existing = {}
  BY DEF Init, TripInit, Idle, NoGuest, NoDep, Existing
<1>. QED  BY <1>1 DEF GuestsInv, SlotsInv, RequestsHaveTrips, OfTrips,
          GuestsHaveTrips, MovesAreFree, GuestsKeepTheirDate, AddsAreMissing,
          OneTripPerSlotDay, At

\* Whatever saves, refills, moves and cancellations come, in whatever order
\* their steps interleave, a guest sails on the day the checkout showed, but
\* for a booking that overtook a change.
THEOREM SeasonKeepsDates == Spec => []GuestsKeepTheirDate
<1>1. TripInv => GuestsKeepTheirDate
  BY DEF TripInv, GuestsInv
<1>. QED  BY <1>1, TripInvInit, TripInvStep, PTL DEF Spec

\* And a slot has one departure a day, but for moves and for generations
\* that overlap.
THEOREM SeasonOneTrip == Spec => []OneTripPerSlotDay
<1>1. TripInv => OneTripPerSlotDay
  BY DEF TripInv, SlotsInv
<1>. QED  BY <1>1, TripInvInit, TripInvStep, PTL DEF Spec

-----------------------------------------------------------------------------
(* The guests who are told *)

(* A cancellation under way has read every guest its departure has, and a  *)
(* save cancels no departure with a guest, but for guests who booked after *)
(* the read.                                                               *)
CancelsKnowGuests ==
    \A w \in Workers : At(w, "cancel") =>
        \A g \in Booked(jobs[w].dep) : guests[g].late \/ g \in jobs[w].tell
SavesSpareGuests ==
    \A w \in Workers : At(w, "reconcile") =>
        \A d \in jobs[w].gone : \A g \in Booked(d) : guests[g].late

Told(g) == \/ \E i \in NoteIds : notes[i].about = g
           \/ \E w \in Workers : At(w, "tell") /\ g \in jobs[w].tell
           \/ g \in untold

TellInv == CancelsKnowGuests /\ SavesSpareGuests /\ GuestsAreTold

\* A row of the notices that is in use stays about what it is about.
LEMMA AboutStays ==
    ASSUME NotifyTypeOK, [NotifyNext]_notifyVars, NEW i \in NoteIds,
           notes[i].about # None
    PROVE  notes'[i].about = notes[i].about
<1>1. /\ notes \in [NoteIds -> RowType] /\ i \notin NextRow
      /\ \A j \in NoteIds : \A n : notes' = [notes EXCEPT ![j] = n] =>
            notes'[i] = IF j = i THEN n ELSE notes[i]
  BY DEF NotifyTypeOK, RowType, NextRow, Unused
<1>2. NextRow \subseteq NoteIds
  BY DEF NextRow, Unused
<1>3. ASSUME NEW topic \in Topics, NEW a \in Answers, Notice(topic, a)
      PROVE  notes'[i].about = notes[i].about
  BY <1>1, <1>2, <1>3 DEF Notice
<1>4. ASSUME NEW j \in NoteIds, Resend(j)
      PROVE  notes'[i].about = notes[i].about
  BY <1>1, <1>2, <1>4 DEF Resend
<1>5. ASSUME NEW j \in NoteIds, FallsDue(j)
      PROVE  notes'[i].about = notes[i].about
  <2>1. notes' = [notes EXCEPT ![j] = [@ EXCEPT !.next = "due"]]
    BY <1>5 DEF FallsDue
  <2>2. [notes[i] EXCEPT !.next = "due"].about = notes[i].about
    BY <1>1 DEF RowType
  <2>. QED  BY <1>1, <2>1, <2>2
<1>6. ASSUME NEW s \in Scanners, ScanRead(s)
      PROVE  notes'[i].about = notes[i].about
  BY <1>6 DEF ScanRead
<1>7. ASSUME NEW s \in Scanners, ScanDispatch(s)
      PROVE  notes'[i].about = notes[i].about
  <2>1. PICK n \in scans[s].todo, a \in Answers :
          notes' = [notes EXCEPT ![n[1]] = Sent(@, a)]
    BY <1>7 DEF ScanDispatch
  <2>2. n[1] \in NoteIds
    BY DEF NotifyTypeOK
  <2>3. Sent(notes[i], a).about = notes[i].about
    BY <1>1 DEF Sent, RowType
  <2>. QED  BY <1>1, <2>1, <2>2, <2>3
<1>8. ASSUME NEW s \in Scanners, ScanUpdate(s)
      PROVE  notes'[i].about = notes[i].about
  <2>1. scans[s].row \in NoteIds
    BY <1>8 DEF ScanUpdate, NotifyTypeOK
  <2>2. PICK n : /\ notes' = [notes EXCEPT ![scans[s].row] = n]
                 /\ LET row == notes[scans[s].row] IN
                      n \in {row, Delivered(row), Refused(row, scans[s].read)}
    BY <1>8 DEF ScanUpdate
  <2>3. Delivered(notes[i]).about = notes[i].about
    BY <1>1 DEF Delivered, RowType
  <2>4. Refused(notes[i], scans[s].read).about = notes[i].about
    BY <1>1 DEF Refused, RowType
  <2>. QED  BY <1>1, <2>1, <2>2, <2>3, <2>4
<1>9. ASSUME NEW s \in Scanners, ScanStops(s)
      PROVE  notes'[i].about = notes[i].about
  <2>1. notes'[i] \in {notes[i], [notes[i] EXCEPT !.redo = @ + 1]}
    BY <1>9 DEF ScanStops
  <2>2. [notes[i] EXCEPT !.redo = @ + 1].about = notes[i].about
    BY <1>1 DEF RowType
  <2>. QED  BY <2>1, <2>2
<1>. QED  BY <1>3, <1>4, <1>5, <1>6, <1>7, <1>8, <1>9
          DEF NotifyNext, NotifyStep, Tells, MishapElsewhere, Scan, notifyVars

\* A guest's notice is on record once the request has sent it.
LEMMA NoticeRecorded ==
    ASSUME NotifyTypeOK, NEW g \in Topics, NEW a \in Answers, Notice(g, a)
    PROVE  \E i \in NoteIds : notes'[i].about = g
<1>1. PICK i \in NextRow : notes' = [notes EXCEPT ![i] = Recorded(g, a)]
  BY DEF Notice
<1>2. i \in NoteIds
  BY DEF NextRow, Unused
<1>3. Recorded(g, a).about = g
  BY DEF Recorded, Sent, Blank
<1>4. notes'[i] = Recorded(g, a)
  BY <1>1, <1>2 DEF NotifyTypeOK
<1>. QED  BY <1>2, <1>3, <1>4

\* A request that is telling guests stays at it, tells one or fails.
LEMMA TellersGoOn ==
    ASSUME TripTypeOK, [Next]_vars, NEW w \in Workers, At(w, "tell")
    PROVE  \/ jobs'[w] = jobs[w] /\ untold \subseteq untold'
           \/ TellGuest(w) \/ RequestFails(w)
<1>1. \A v \in Workers : \A job : Becomes(v, job) =>
         jobs'[w] = IF v = w THEN job ELSE jobs[w]
  BY DEF Becomes, TripTypeOK
<1>2. ASSUME NEW v \in Workers, Works(v)
      PROVE  jobs'[w] = jobs[w]
  <2>1. v # w
    BY <1>2 DEF Works, SaveCreate, SaveRead, SaveWrite, GenRead, GenAdd,
       MoveWrite, CancelWrite, ReviveWrite, At
  <2>2. \E job : Becomes(v, job)
    BY <1>2 DEF Works, SaveCreate, SaveRead, SaveWrite, GenRead, GenAdd,
       MoveWrite, CancelWrite, ReviveWrite
  <2>. QED  BY <1>1, <2>1, <2>2
<1>3. ASSUME OwnerStarts
      PROVE  jobs'[w] = jobs[w]
  <2>1. ASSUME NEW v \in Desks,
               \/ \E week \in [SlotNos -> SUBSET Weekdays] : SaveStart(v, week)
               \/ \E d \in DepIds : \/ CancelRead(v, d) \/ ReviveCheck(v, d)
                                    \/ \E date \in Dates : MoveCheck(v, d, date)
        PROVE  jobs'[w] = jobs[w]
    <3>1. v \in Workers
      BY DEF Workers
    <3>2. At(v, "idle")
      BY <2>1 DEF SaveStart, CancelRead, ReviveCheck, MoveCheck
    <3>3. \E job : Becomes(v, job)
      BY <2>1 DEF SaveStart, CancelRead, ReviveCheck, MoveCheck
    <3>. QED  BY <1>1, <3>1, <3>2, <3>3 DEF At
  <2>2. ASSUME NEW date \in Dates, CreateDeparture(date)
        PROVE  jobs'[w] = jobs[w]
    BY <2>2 DEF CreateDeparture
  <2>3. ASSUME NEW dates \in SUBSET Dates, EditOperatingDates(dates)
        PROVE  jobs'[w] = jobs[w]
    BY <2>3 DEF EditOperatingDates
  <2>. QED  BY <1>3, <2>1, <2>2, <2>3 DEF OwnerStarts
<1>4. ASSUME RefillStart
      PROVE  jobs'[w] = jobs[w]
  <2>1. Nightly \in Workers /\ Nightly # w
    BY <1>4 DEF Workers, RefillStart, At
  <2>. QED  BY <1>1, <1>4, <2>1 DEF RefillStart
<1>5. ASSUME NEW g \in Guests,
             \/ Confirm(g) \/ Pay(g) \/ CancelBooking(g)
             \/ \E d \in DepIds : BeginCheckout(g, d)
      PROVE  jobs'[w] = jobs[w]
  BY <1>5 DEF Confirm, Pay, CancelBooking, BeginCheckout
<1>6. TripStep => jobs'[w] = jobs[w]
  BY <1>2, <1>3, <1>4, <1>5 DEF TripStep, NextDay, Advance
<1>7. ASSUME NEW v \in Workers, v # w, TellGuest(v)
      PROVE  jobs'[w] = jobs[w] /\ untold \subseteq untold'
  BY <1>1, <1>7 DEF TellGuest
<1>8. ASSUME NEW v \in Workers, v # w, RequestFails(v)
      PROVE  jobs'[w] = jobs[w] /\ untold \subseteq untold'
  BY <1>1, <1>8 DEF RequestFails, JobFails
<1>9. CASE NotifyStep /\ UNCHANGED <<tripVars, untold>>
  BY <1>9 DEF tripVars
<1>10. CASE UNCHANGED vars
  BY <1>10 DEF vars, tripVars
<1>11. CASE TripStep /\ UNCHANGED <<notifyVars, untold>>
  BY <1>6, <1>11
<1>. QED  BY <1>7, <1>8, <1>9, <1>10, <1>11 DEF Next

\* Nobody is ever left untold that was not before, but by a failure.
LEMMA UntoldGrows == [Next]_vars => untold \subseteq untold'
  BY DEF Next, TellGuest, RequestFails, vars

\* A guest who was told, or is about to be, stays so.
LEMMA ToldStays ==
    ASSUME TripTypeOK, NotifyTypeOK, [Next]_vars, NEW g \in Guests, Told(g)
    PROVE  Told(g)'
<1>1. None # g /\ g \in Topics
  BY NotifyAssumption, SeasonAssumption
<1>2. CASE \E i \in NoteIds : notes[i].about = g
  BY <1>1, <1>2, SeasonTells, AboutStays DEF Told
<1>3. CASE g \in untold
  BY <1>3, UntoldGrows DEF Told
<1>4. ASSUME NEW w \in Workers, At(w, "tell"), g \in jobs[w].tell
      PROVE  Told(g)'
  <2>1. CASE jobs'[w] = jobs[w]
    BY <1>4, <2>1 DEF Told, At
  <2>2. CASE RequestFails(w)
    BY <1>4, <2>2 DEF RequestFails, Told
  <2>3. CASE TellGuest(w)
    <3>1. PICK h \in jobs[w].tell, a \in Answers :
            /\ Notice(h, a)
            /\ Becomes(w, AfterTelling(jobs[w].tell \ {h}, Ok(a)))
      BY <2>3 DEF TellGuest
    <3>2. CASE h = g
      BY <1>1, <3>1, <3>2, NoticeRecorded DEF Told
    <3>3. CASE h # g
      <4>1. /\ jobs'[w] = [at |-> "tell", tell |-> jobs[w].tell \ {h}]
            /\ g \in jobs[w].tell \ {h}
        BY <1>4, <3>1, <3>3 DEF Becomes, TripTypeOK, AfterTelling
      <4>. QED  BY <4>1 DEF Told, At
    <3>. QED  BY <3>2, <3>3
  <2>. QED  BY <1>4, <2>1, <2>2, <2>3, TellersGoOn
<1>. QED  BY <1>2, <1>3, <1>4 DEF Told

\* Guests are told of what was cancelled while no departure is cancelled,
\* nobody books, and every cancellation and save that starts has read the
\* guests there are.
LEMMA NoticesAreSafe ==
    ASSUME TripInv, NotifyTypeOK, TellInv, [Next]_vars, UNCHANGED guests,
           \A d \in DepIds : deps'[d].state = "cancelled"
                              => deps[d].state = "cancelled",
           \A w \in Workers :
              \/ jobs'[w] = jobs[w]
              \/ /\ jobs'[w].at = "cancel" =>
                       Booked(jobs'[w].dep) \subseteq jobs'[w].tell
                 /\ jobs'[w].at = "reconcile" =>
                       \A d \in jobs'[w].gone : Booked(d) = {}
    PROVE  TellInv'
<1>1. CancelsKnowGuests'
  BY DEF TellInv, CancelsKnowGuests, At, Booked
<1>2. SavesSpareGuests'
  BY DEF TellInv, SavesSpareGuests, At, Booked
<1>3. ASSUME NEW g \in Guests, guests[g].stage = "booked", ~guests[g].late,
             deps'[guests[g].dep].state = "cancelled"
      PROVE  Told(g)'
  <2>1. guests[g].dep \in DepIds
    BY <1>3 DEF TripInv, GuestsInv, GuestsHaveTrips, Existing
  <2>2. Told(g)
    BY <1>3, <2>1 DEF TellInv, GuestsAreTold, Told
  <2>. QED  BY <2>2, ToldStays DEF TripInv
<1>4. GuestsAreTold'
  BY <1>3 DEF GuestsAreTold, Told
<1>. QED  BY <1>1, <1>2, <1>4 DEF TellInv

\* The same of a step of one request.
LEMMA QuietRequest ==
    ASSUME TripInv, NotifyTypeOK, TellInv, [Next]_vars, UNCHANGED guests,
           \A d \in DepIds : deps'[d].state = "cancelled"
                              => deps[d].state = "cancelled",
           NEW w \in Workers, NEW job, Becomes(w, job),
           job.at = "cancel" => Booked(job.dep) \subseteq job.tell,
           job.at = "reconcile" => \A d \in job.gone : Booked(d) = {}
    PROVE  TellInv'
<1>1. \A v \in Workers : jobs'[v] = IF v = w THEN job ELSE jobs[v]
  BY DEF Becomes, TripInv, TripTypeOK
<1>. QED  BY <1>1, NoticesAreSafe

\* A new departure, a move and a revival cancel nothing.
LEMMA NothingCancelled ==
    ASSUME TripInv,
           \/ UNCHANGED deps
           \/ \E new \in Fresh : \E slot, date, known : AddDep(new, slot, date, known)
           \/ \E w \in Workers : MoveWrite(w) \/ ReviveWrite(w)
           \/ \E d \in DepIds : Advance(d)
    PROVE  \A d \in DepIds : deps'[d].state = "cancelled"
                              => deps[d].state = "cancelled"
<1>1. deps \in [DepIds -> DepType] /\ Fresh \subseteq DepIds
  BY DEF TripInv, TripTypeOK, DepType, Fresh
<1>2. ASSUME NEW new \in Fresh, NEW slot, NEW date, NEW known,
             AddDep(new, slot, date, known), NEW d \in DepIds
      PROVE  deps'[d].state = "cancelled" => deps[d].state = "cancelled"
  <2>1. PICK twin : deps' = [deps EXCEPT ![new] =
                 [state |-> "scheduled", slot |-> slot, date |-> date,
                  moved |-> FALSE, twin |-> twin]]
    BY <1>2 DEF AddDep
  <2>. QED  BY <1>1, <2>1
<1>3. ASSUME NEW w \in Workers, MoveWrite(w), NEW d \in DepIds
      PROVE  deps'[d].state = "cancelled" => deps[d].state = "cancelled"
  <2>1. jobs[w].dep \in DepIds
    BY <1>3, JobKinds DEF MoveWrite, At, TripInv, TripTypeOK
  <2>2. \/ UNCHANGED deps
        \/ deps' = [deps EXCEPT ![jobs[w].dep] =
                      [@ EXCEPT !.date = jobs[w].date, !.moved = TRUE]]
    BY <1>1, <1>3, <2>1, MoveWrites
  <2>3. [deps[jobs[w].dep] EXCEPT !.date = jobs[w].date, !.moved = TRUE].state
          = deps[jobs[w].dep].state
    BY <1>1, <2>1 DEF DepType
  <2>. QED  BY <1>1, <2>1, <2>2, <2>3
<1>4. ASSUME NEW w \in Workers, ReviveWrite(w), NEW d \in DepIds
      PROVE  deps'[d].state = "cancelled" => deps[d].state = "cancelled"
  <2>1. jobs[w].dep \in DepIds
    BY <1>4, JobKinds DEF ReviveWrite, At, TripInv, TripTypeOK
  <2>2. deps' = [deps EXCEPT ![jobs[w].dep] = [@ EXCEPT !.state = "scheduled"]]
    BY <1>4 DEF ReviveWrite
  <2>3. [deps[jobs[w].dep] EXCEPT !.state = "scheduled"].state = "scheduled"
    BY <1>1, <2>1 DEF DepType
  <2>. QED  BY <1>1, <2>1, <2>2, <2>3
<1>5. ASSUME NEW e \in DepIds, Advance(e), NEW d \in DepIds
      PROVE  deps'[d].state = "cancelled" => deps[d].state = "cancelled"
  <2>1. PICK st \in {"in_progress", "completed"} :
          deps' = [deps EXCEPT ![e] = [@ EXCEPT !.state = st]]
    BY <1>5 DEF Advance
  <2>2. [deps[e] EXCEPT !.state = st].state = st
    BY <1>1 DEF DepType
  <2>. QED  BY <1>1, <2>1, <2>2
<1>. QED  BY <1>2, <1>3, <1>4, <1>5

\* A save reads no departure with guests, and a cancellation all of them.
LEMMA ReadsAreSafe ==
    ASSUME TripInv, NotifyTypeOK, TellInv, [Next]_vars, NEW w \in Workers,
           \/ \E week \in [SlotNos -> SUBSET Weekdays] : SaveStart(w, week)
           \/ SaveCreate(w) \/ SaveRead(w) \/ GenRead(w)
           \/ \E d \in DepIds : \/ CancelRead(w, d) \/ ReviveCheck(w, d)
                                \/ \E date \in Dates : MoveCheck(w, d, date)
    PROVE  TellInv'
<1>1. UNCHANGED <<deps, guests>>
  BY DEF SaveStart, SaveCreate, SaveRead, GenRead, CancelRead, ReviveCheck,
     MoveCheck
<1>2. CASE SaveRead(w)
  <2>1. PICK gone \in SUBSET Reconciled(jobs[w].sched, jobs[w].rows) :
          Becomes(w, [at |-> "reconcile", sched |-> jobs[w].sched,
                      weekdays |-> jobs[w].weekdays, gone |-> gone])
    BY <1>2 DEF SaveRead
  <2>2. \A d \in gone : Booked(d) = {}
    BY DEF Reconciled, EverBooked, Booked
  <2>. QED  BY <1>1, <2>1, <2>2, NothingCancelled, QuietRequest
<1>3. ASSUME NEW d \in DepIds, CancelRead(w, d)
      PROVE  TellInv'
  BY <1>1, <1>3, NothingCancelled, QuietRequest DEF CancelRead
<1>4. CASE GenRead(w)
  <2>1. PICK job : /\ Becomes(w, job)
                   /\ job.at \in {"idle", "generate", "add"}
    BY <1>4 DEF GenRead, Done, Idle
  <2>. QED  BY <1>1, <2>1, NothingCancelled, QuietRequest
<1>5. CASE SaveCreate(w)
  BY <1>1, <1>5, NothingCancelled, QuietRequest DEF SaveCreate
<1>6. ASSUME NEW week \in [SlotNos -> SUBSET Weekdays], SaveStart(w, week)
      PROVE  TellInv'
  BY <1>1, <1>6, NothingCancelled, QuietRequest DEF SaveStart
<1>7. ASSUME NEW d \in DepIds, ReviveCheck(w, d)
      PROVE  TellInv'
  BY <1>1, <1>7, NothingCancelled, QuietRequest DEF ReviveCheck
<1>8. ASSUME NEW d \in DepIds, NEW date \in Dates, MoveCheck(w, d, date)
      PROVE  TellInv'
  BY <1>1, <1>8, NothingCancelled, QuietRequest DEF MoveCheck
<1>. QED  BY <1>2, <1>3, <1>4, <1>5, <1>6, <1>7, <1>8

\* A save and a cancellation write what they read: whom they cancel under is
\* told, or booked late.
LEMMA CancelsAreSafe ==
    ASSUME TripInv, NotifyTypeOK, TellInv, [Next]_vars, NEW w \in Workers,
           SaveWrite(w) \/ CancelWrite(w)
    PROVE  TellInv'
<1>1. /\ deps \in [DepIds -> DepType] /\ UNCHANGED guests
      /\ \A v \in Workers : \A job : Becomes(w, job) =>
            jobs'[v] = IF v = w THEN job ELSE jobs[v]
  BY DEF SaveWrite, CancelWrite, Becomes, TripInv, TripTypeOK, DepType
<1>2. ASSUME NEW job, Becomes(w, job), job.at \in {"idle", "generate", "tell"}
      PROVE  CancelsKnowGuests' /\ SavesSpareGuests'
  BY <1>1, <1>2 DEF TellInv, CancelsKnowGuests, SavesSpareGuests, At, Booked
<1>3. ASSUME NEW g \in Guests, guests[g].stage = "booked"
      PROVE  guests[g].dep \in DepIds
  BY <1>3 DEF TripInv, GuestsInv, GuestsHaveTrips, Existing
<1>4. ASSUME NEW g \in Guests, guests[g].stage = "booked", ~guests[g].late,
             deps[guests[g].dep].state = "cancelled"
      PROVE  Told(g)'
  <2>1. Told(g)
    BY <1>4 DEF TellInv, GuestsAreTold, Told
  <2>. QED  BY <2>1, ToldStays DEF TripInv
<1>5. CASE SaveWrite(w)
  <2>1. ASSUME NEW g \in Guests, guests[g].stage = "booked", ~guests[g].late,
               deps'[guests[g].dep].state = "cancelled"
        PROVE  Told(g)'
    <3>1. guests[g].dep \notin jobs[w].gone
      BY <1>5, <2>1 DEF TellInv, SavesSpareGuests, SaveWrite, Booked
    <3>2. deps'[guests[g].dep] = deps[guests[g].dep]
      BY <1>3, <1>5, <2>1, <3>1 DEF SaveWrite
    <3>. QED  BY <1>4, <2>1, <3>2
  <2>2. GuestsAreTold'
    BY <1>1, <2>1 DEF GuestsAreTold, Told
  <2>3. CancelsKnowGuests' /\ SavesSpareGuests'
    BY <1>2, <1>5 DEF SaveWrite
  <2>. QED  BY <2>2, <2>3 DEF TellInv
<1>6. CASE CancelWrite(w)
  <2>1. jobs[w].dep \in DepIds
    BY <1>6, JobKinds DEF CancelWrite, At, TripInv, TripTypeOK
  <2>2. \A d \in DepIds : d # jobs[w].dep => deps'[d] = deps[d]
    BY <1>1, <1>6 DEF CancelWrite
  <2>3. ASSUME NEW g \in Guests, guests[g].stage = "booked", ~guests[g].late,
               deps'[guests[g].dep].state = "cancelled"
        PROVE  Told(g)'
    <3>1. CASE guests[g].dep = jobs[w].dep
      <4>1. g \in jobs[w].tell
        BY <1>6, <2>3, <3>1
           DEF TellInv, CancelsKnowGuests, CancelWrite, Booked
      <4>2. jobs'[w] = [at |-> "tell", tell |-> jobs[w].tell]
        BY <1>1, <1>6, <4>1 DEF CancelWrite
      <4>. QED  BY <4>1, <4>2 DEF Told, At
    <3>2. CASE guests[g].dep # jobs[w].dep
      BY <1>3, <1>4, <2>2, <2>3, <3>2
    <3>. QED  BY <3>1, <3>2
  <2>4. GuestsAreTold'
    BY <1>1, <2>3 DEF GuestsAreTold, Told
  <2>5. PICK job : Becomes(w, job) /\ job.at \in {"idle", "tell"}
    BY <1>6 DEF CancelWrite, Idle
  <2>. QED  BY <1>2, <2>4, <2>5 DEF TellInv
<1>. QED  BY <1>5, <1>6

\* The other writes cancel nothing.
LEMMA OtherWritesAreSafe ==
    ASSUME TripInv, NotifyTypeOK, TellInv, [Next]_vars, NEW w \in Workers,
           GenAdd(w) \/ MoveWrite(w) \/ ReviveWrite(w)
    PROVE  TellInv'
<1>1. UNCHANGED guests
  BY DEF GenAdd, MoveWrite, ReviveWrite
<1>2. CASE GenAdd(w)
  <2>1. \E new \in Fresh : \E slot, date, known : AddDep(new, slot, date, known)
    BY <1>2 DEF GenAdd
  <2>2. jobs[w] \in JobTypes
    BY DEF TripInv, TripTypeOK
  <2>3. PICK job : Becomes(w, job) /\ job.at \in {"idle", "generate", "add"}
    <3>1. PICK k \in jobs[w].todo, new \in Fresh :
            Becomes(w, IF jobs[w].todo \ {k} = {} THEN Done(jobs[w].scheds)
                       ELSE [jobs[w] EXCEPT !.todo = jobs[w].todo \ {k},
                                            !.known = @ \cup {new}])
      BY <1>2 DEF GenAdd
    <3>2. CASE jobs[w].todo \ {k} = {}
      BY <3>1, <3>2 DEF Done, Idle
    <3>3. CASE jobs[w].todo \ {k} # {}
      <4>1. jobs[w] \in [at: {"add"}, todo: (SUBSET (Slots \X Dates)) \ {{}},
                         scheds: SUBSET Scheds, known: SUBSET DepIds]
        BY <1>2, <2>2 DEF GenAdd, At, JobTypes
      <4>2. [jobs[w] EXCEPT !.todo = jobs[w].todo \ {k},
                            !.known = @ \cup {new}].at = "add"
        BY <4>1
      <4>. QED  BY <3>1, <3>3, <4>2
    <3>. QED  BY <3>2, <3>3
  <2>. QED  BY <1>1, <2>1, <2>3, NothingCancelled, QuietRequest
<1>3. CASE MoveWrite(w) \/ ReviveWrite(w)
  <2>1. Becomes(w, Idle)
    BY <1>3 DEF MoveWrite, ReviveWrite
  <2>. QED  BY <1>1, <1>3, <2>1, NothingCancelled, QuietRequest DEF Idle
<1>. QED  BY <1>2, <1>3

\* The clock, the refill, a failure, a notice and an owner's edits.
LEMMA QuietIsSafe ==
    ASSUME TripInv, NotifyTypeOK, TellInv, [Next]_vars,
           \/ \E date \in Dates : CreateDeparture(date)
           \/ \E d \in DepIds : Advance(d)
           \/ RefillStart
           \/ \E w \in Workers : JobFails(w) \/ TellGuest(w)
           \/ UNCHANGED <<deps, guests, jobs>>
    PROVE  TellInv'
<1>1. ASSUME NEW date \in Dates, CreateDeparture(date)
      PROVE  TellInv'
  BY <1>1, NothingCancelled, NoticesAreSafe DEF CreateDeparture
<1>2. ASSUME NEW d \in DepIds, Advance(d)
      PROVE  TellInv'
  BY <1>2, NothingCancelled, NoticesAreSafe DEF Advance
<1>3. CASE UNCHANGED <<deps, guests, jobs>>
  BY <1>3, NothingCancelled, NoticesAreSafe
<1>4. CASE RefillStart
  BY <1>4, NothingCancelled, QuietRequest DEF RefillStart, Done, Idle, Workers
<1>5. ASSUME NEW w \in Workers, JobFails(w)
      PROVE  TellInv'
  BY <1>5, NothingCancelled, QuietRequest DEF JobFails, Done, Idle
<1>6. ASSUME NEW w \in Workers, TellGuest(w)
      PROVE  TellInv'
  BY <1>6, NothingCancelled, QuietRequest DEF TellGuest, AfterTelling, Idle
<1>. QED  BY <1>1, <1>2, <1>3, <1>4, <1>5, <1>6

\* Who books while a cancellation or a save that read before is under way
\* books late.
LEMMA BookingsAreSafe ==
    ASSUME TripInv, NotifyTypeOK, TellInv, [Next]_vars, NEW g \in Guests,
           \/ Confirm(g) \/ Pay(g) \/ CancelBooking(g)
           \/ \E d \in DepIds : BeginCheckout(g, d)
    PROVE  TellInv'
<1>1. guests \in [Guests -> GuestType] /\ UNCHANGED <<deps, jobs>>
  BY DEF TripInv, TripTypeOK, GuestType, Confirm, Pay, CancelBooking,
     BeginCheckout
<1>2. ASSUME NEW h \in Guests, guests'[h].stage = "booked"
      PROVE  \/ guests'[h] = guests[h]
             \/ /\ guests[h].dep = guests'[h].dep
                /\ guests'[h].late <=> Overtaken(h)
  <2>1. CASE Pay(g)
    <3>1. guests' = [guests EXCEPT ![g] = [[@ EXCEPT !.stage = "booked"]
                                             EXCEPT !.late = Overtaken(g)]]
      BY <1>1, <2>1 DEF Pay
    <3>2. CASE h = g
      BY <1>1, <3>1, <3>2 DEF GuestType
    <3>3. CASE h # g
      BY <1>1, <3>1, <3>3
    <3>. QED  BY <3>2, <3>3
  <2>2. CASE CancelBooking(g)
    <3>1. guests' = [guests EXCEPT ![g] = [@ EXCEPT !.stage = "cancelled"]]
      BY <2>2 DEF CancelBooking
    <3>2. [guests[g] EXCEPT !.stage = "cancelled"].stage = "cancelled"
      BY <1>1 DEF GuestType
    <3>. QED  BY <1>1, <1>2, <3>1, <3>2
  <2>3. CASE Confirm(g)
    <3>1. guests' = [guests EXCEPT ![g] = [@ EXCEPT !.stage = "paying"]]
      BY <2>3 DEF Confirm
    <3>2. [guests[g] EXCEPT !.stage = "paying"].stage = "paying"
      BY <1>1 DEF GuestType
    <3>. QED  BY <1>1, <1>2, <3>1, <3>2
  <2>4. ASSUME NEW d \in DepIds, BeginCheckout(g, d)
        PROVE  guests'[h] = guests[h]
    <3>1. guests' = [guests EXCEPT ![g] = [@ EXCEPT !.stage = "intent",
                                            !.dep = d, !.saw = deps[d].date]]
      BY <1>1, <2>4 DEF BeginCheckout
    <3>2. [guests[g] EXCEPT !.stage = "intent", !.dep = d,
                            !.saw = deps[d].date].stage = "intent"
      BY <1>1 DEF GuestType
    <3>. QED  BY <1>1, <1>2, <3>1, <3>2
  <2>. QED  BY <2>1, <2>2, <2>3, <2>4
<1>3. CancelsKnowGuests'
  <2>. SUFFICES ASSUME NEW w \in Workers, At(w, "cancel"), NEW h \in Guests,
                       guests'[h].stage = "booked",
                       guests'[h].dep = jobs[w].dep
                PROVE  guests'[h].late \/ h \in jobs[w].tell
    BY <1>1 DEF CancelsKnowGuests, Booked, At
  <2>. QED  BY <1>2 DEF TellInv, CancelsKnowGuests, Booked, Overtaken
<1>4. SavesSpareGuests'
  <2>. SUFFICES ASSUME NEW w \in Workers, At(w, "reconcile"), NEW h \in Guests,
                       guests'[h].stage = "booked",
                       guests'[h].dep \in jobs[w].gone
                PROVE  guests'[h].late
    BY <1>1 DEF SavesSpareGuests, Booked, At
  <2>. QED  BY <1>2 DEF TellInv, SavesSpareGuests, Booked, Overtaken
<1>5. GuestsAreTold'
  <2>. SUFFICES ASSUME NEW h \in Guests, guests'[h].stage = "booked",
                       ~guests'[h].late,
                       deps[guests'[h].dep].state = "cancelled"
                PROVE  Told(h)'
    BY <1>1 DEF GuestsAreTold, Told
  <2>1. guests'[h] = guests[h]
    BY <1>2 DEF Overtaken
  <2>2. Told(h)
    BY <2>1 DEF TellInv, GuestsAreTold, Told
  <2>. QED  BY <2>2, ToldStays DEF TripInv
<1>. QED  BY <1>3, <1>4, <1>5 DEF TellInv

\* Every step of the season tells the guests it should.
LEMMA TellInvStep ==
    TripInv /\ NotifyTypeOK /\ TellInv /\ [Next]_vars => TellInv'
<1>. SUFFICES ASSUME TripInv, NotifyTypeOK, TellInv, [Next]_vars
              PROVE  TellInv'
  OBVIOUS
<1>1. CASE OwnerStarts
  <2>1. Desks \subseteq Workers
    BY DEF Workers
  <2>2. ASSUME NEW dates \in SUBSET Dates, EditOperatingDates(dates)
        PROVE  TellInv'
    BY <2>2, QuietIsSafe DEF EditOperatingDates
  <2>. QED  BY <1>1, <2>1, <2>2, ReadsAreSafe, QuietIsSafe DEF OwnerStarts
<1>2. ASSUME NEW w \in Workers, Works(w)
      PROVE  TellInv'
  BY <1>2, ReadsAreSafe, CancelsAreSafe, OtherWritesAreSafe DEF Works
<1>3. CASE NextDay
  BY <1>3, QuietIsSafe DEF NextDay
<1>4. CASE TripStep
  BY <1>1, <1>2, <1>3, <1>4, BookingsAreSafe, QuietIsSafe DEF TripStep
<1>5. ASSUME NEW w \in Workers, TellGuest(w) \/ RequestFails(w)
      PROVE  TellInv'
  BY <1>5, QuietIsSafe DEF RequestFails
<1>6. CASE UNCHANGED tripVars
  BY <1>6, QuietIsSafe DEF tripVars
<1>. QED  BY <1>4, <1>5, <1>6 DEF Next, vars

\* Every guest booked on a departure that the owner or a save cancels has a
\* notice on record or is about to be told, whatever refuses, fails or
\* overlaps, but for who booked after the cancellation had read its guests
\* and whom a failed request left untold.
THEOREM SeasonTellsGuests == Spec => []GuestsAreTold
<1>1. Init => TellInv
  BY DEF Init, TripInit, Idle, NoGuest, TellInv, CancelsKnowGuests,
     SavesSpareGuests, GuestsAreTold, At
<1>2. TypeOK => NotifyTypeOK
  BY DEF TypeOK
<1>3. TellInv => GuestsAreTold
  BY DEF TellInv
<1>. QED  BY <1>1, <1>2, <1>3, TripInvInit, TripInvStep, TellInvStep,
             SeasonTypes, PTL DEF Spec
=============================================================================
