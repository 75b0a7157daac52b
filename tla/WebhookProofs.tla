--------------------------- MODULE WebhookProofs ---------------------------
(***************************************************************************)
(* Proofs about WebhookDelivery, for every set of rows and pods and every  *)
(* bound.  All but OneWorkerOverlaps hold for any number of retry workers: *)
(* what several of them, or a rejected tick, do to a row is counted by     *)
(* overlaps.                                                               *)
(***************************************************************************)
EXTENDS WebhookDelivery, TLAPS

-----------------------------------------------------------------------------
(* Any number of pods                                                      *)

\* A success was acknowledged, also while it is still to be written.
Acked ==
  /\ SuccessMeansAcked
  /\ \A a \in Acts : att[a].pc \in {"bodyOk", "ok"} => RowOf(a) \in acked

\* A row's attempts never exceed MAX_ATTEMPTS, and RetryBudget.
Budget == (\A d \in Rows : row[d].attempts <= MAX_ATTEMPTS) /\ RetryBudget

\* A tick is given up only for a failed update, so that its number is a Tick.
TicksCounted == dbErrors <= MaxDbErrors /\ \A p \in Pods : tick[p] <= dbErrors + 1

IInv == TypeOK /\ Acked /\ Budget /\ TicksCounted

LEMMA InitIInv == Init => IInv
  BY WebhookConstants DEF Init, IInv, TypeOK, Acked, SuccessMeansAcked, Budget, RetryBudget,
     RowType, NoRow, NoAttempt, Acts, RowOf, Phases, TicksCounted, Ticks

LEMMA ActParts == \A a \in Acts : RowOf(a) \in Rows /\ PodOf(a) \in Pods
  BY DEF Acts, RowOf, PodOf

LEMMA CountedType ==
  ASSUME NEW f \in [Rows -> Nat], NEW D
  PROVE  /\ Counted(f, D) \in [Rows -> Nat]
         /\ \A d \in Rows : Counted(f, D)[d] = f[d] + IF d \in D THEN 1 ELSE 0
  BY DEF Counted

\* An attempt ends by writing a record that respects the invariant.
LEMMA EndKeepsIInv ==
  ASSUME NEW a \in Acts, NEW r \in RowType, IInv, EndsWith(a, r),
         uncounted' \in [Rows -> Nat],
         r.status = "success" => RowOf(a) \in acked,
         r.attempts <= MAX_ATTEMPTS,
         r.next # "null" => r.status = "pending" /\ r.attempts \in 1 .. (MAX_ATTEMPTS - 1)
  PROVE  IInv'
<1>1. TypeOK'
  BY ActParts DEF EndsWith, IInv, TypeOK, bounds
<1>2. Acked'
  BY ActParts DEF EndsWith, IInv, TypeOK, Acked, SuccessMeansAcked, NoAttempt
<1>3. Budget'
  BY ActParts, WebhookConstants DEF EndsWith, IInv, TypeOK, Budget, RetryBudget, NoAttempt
<1>4. TicksCounted'
  BY DEF EndsWith, IInv, TicksCounted, bounds
<1> QED
  BY <1>1, <1>2, <1>3, <1>4 DEF IInv

LEMMA NotCountedType ==
  ASSUME IInv, NEW a \in Acts, NotCounted(a) \/ UNCHANGED uncounted
  PROVE  uncounted' \in [Rows -> Nat]
  BY CountedType DEF NotCounted, IInv, TypeOK

\* An attempt moves on or vanishes, and its row is not written.
LEMMA MoveKeepsIInv ==
  ASSUME IInv, NEW a \in Acts, att[a].pc \in Phases,
         \/ att' = [att EXCEPT ![a] = NoAttempt]
         \/ \E pc \in Phases : /\ att' = [att EXCEPT ![a].pc = pc]
                               /\ pc \in {"bodyOk", "ok"} => RowOf(a) \in acked',
         UNCHANGED <<row, event, begun, overlaps, replays, crashes>>,
         acked \subseteq acked', acked' \subseteq Rows, uncounted' \in [Rows -> Nat],
         tick' \in [Pods -> Nat], \A p \in Pods : tick'[p] \in 1 .. (dbErrors' + 1),
         dbErrors' \in Nat, dbErrors' <= MaxDbErrors
  PROVE  IInv'
<1> USE ActParts, WebhookConstants
<1>1. tick' \in [Pods -> Ticks]
  BY DEF Ticks
<1>2. TypeOK'
  <2>1. att' \in [Acts -> [pc : Phases, n : Nat \ {0}] \cup {NoAttempt}]
    <3>1. att \in [Acts -> [pc : Phases, n : Nat \ {0}] \cup {NoAttempt}] /\ att[a] # NoAttempt
      BY DEF IInv, TypeOK, NoAttempt, Phases
    <3>2. \A pc \in Phases : [att[a] EXCEPT !.pc = pc] \in [pc : Phases, n : Nat \ {0}]
      BY <3>1
    <3> QED
      BY <3>1, <3>2
  <2> QED
    BY <1>1, <2>1 DEF IInv, TypeOK
<1>3. Acked'
  BY DEF IInv, TypeOK, Acked, SuccessMeansAcked, NoAttempt
<1>4. Budget'
  BY DEF IInv, TypeOK, Budget, RetryBudget, NoAttempt
<1>5. TicksCounted'
  BY DEF TicksCounted
<1> QED
  BY <1>2, <1>3, <1>4, <1>5 DEF IInv

LEMMA NextIInv == IInv /\ [Next]_vars => IInv'
<1> USE WebhookConstants, ActParts
<1> SUFFICES ASSUME IInv, [Next]_vars PROVE IInv'
  OBVIOUS
<1>t. /\ tick \in [Pods -> Nat] /\ dbErrors \in Nat /\ dbErrors <= MaxDbErrors
      /\ \A p \in Pods : tick[p] \in 1 .. (dbErrors + 1)
      /\ begun \in [Rows -> Nat] /\ overlaps \in [Rows -> Nat] /\ uncounted \in [Rows -> Nat]
  BY DEF IInv, TypeOK, TicksCounted, Ticks
<1>1. ASSUME NEW p \in Pods, Publish(p) PROVE IInv'
  BY <1>1 DEF Publish, IInv, TypeOK, Acked, SuccessMeansAcked, Budget, RetryBudget, counts, bounds,
     Unused, TicksCounted
<1>2. ASSUME NEW p \in Pods, NEW d \in Rows, Create(p, d) PROVE IInv'
  <2>1. <<p, First, d>> \in Acts /\ RowOf(<<p, First, d>>) = d
    BY DEF Acts, RowOf
  <2>0. begun' \in [Rows -> Nat]
    BY <1>2, <1>t, CountedType DEF Create
  <2>5. att' \in [Acts -> [pc : Phases, n : Nat \ {0}] \cup {NoAttempt}]
    BY <1>2, <2>1 DEF Create, IInv, TypeOK, Phases
  <2>6. row' \in [Rows -> RowType] /\ event' \in [Pods -> SUBSET Rows]
    BY <1>2 DEF Create, IInv, TypeOK, RowType
  <2>2. TypeOK'
    BY <1>2, <2>0, <2>5, <2>6 DEF Create, IInv, TypeOK, bounds
  <2>3. Acked'
    BY <1>2, <2>1 DEF Create, IInv, TypeOK, Acked, SuccessMeansAcked, RowType
  <2>4. Budget'
    BY <1>2, <2>1 DEF Create, IInv, TypeOK, Budget, RetryBudget, RowType
  <2> QED
    BY <1>2, <2>2, <2>3, <2>4 DEF IInv, TicksCounted, Create, bounds
<1>3. ASSUME NEW p \in Pods, NEW d \in Rows, Replay(p, d) PROVE IInv'
  <2>1. row' \in [Rows -> RowType]
    <3>1. row \in [Rows -> RowType]
      BY DEF IInv, TypeOK
    <3>2. [row[d] EXCEPT !.status = "pending", !.next = "null"] \in RowType
      BY <3>1 DEF RowType
    <3> QED
      BY <1>3, <3>1, <3>2 DEF Replay
  <2>2. event' \in [Pods -> SUBSET Rows] /\ replays' \in Nat
    BY <1>3 DEF Replay, IInv, TypeOK, Unused
  <2>3. \A e \in Rows : /\ row'[e].attempts = row[e].attempts
                        /\ row'[e] # row[e] => row'[e].status = "pending" /\ row'[e].next = "null"
    BY <1>3 DEF Replay, IInv, TypeOK, RowType
  <2>4. UNCHANGED <<att, tick, acked, begun, uncounted, overlaps, crashes, dbErrors>>
    BY <1>3 DEF Replay, counts
  <2> HIDE <1>3
  <2> QED
    BY <2>1, <2>2, <2>3, <2>4 DEF IInv, TypeOK, Acked, SuccessMeansAcked, Budget, RetryBudget,
       TicksCounted, counts
<1>4. ASSUME NEW a \in Acts, Block(a) PROVE IInv'
  <2>0. uncounted' \in [Rows -> Nat]
    BY <1>4, NotCountedType DEF Block
  <2>1. \A n \in Nat : n <= MAX_ATTEMPTS /\ EndsWith(a, Failed(n)) => IInv'
    BY <2>0, EndKeepsIInv DEF Failed, RowType
  <2>2. row[RowOf(a)].attempts \in Nat /\ row[RowOf(a)].attempts <= MAX_ATTEMPTS
    BY DEF IInv, TypeOK, RowType, Budget
  <2>3. att[a].n \in Nat /\ att[a].n <= MAX_ATTEMPTS
    BY DEF IInv, TypeOK, Budget, RetryBudget, NoAttempt
  <2> QED
    BY <1>4, <2>1, <2>2, <2>3 DEF Block
<1>5. ASSUME NEW a \in Acts, Post(a) PROVE IInv'
  BY <1>5, <1>t, MoveKeepsIInv DEF Post, MoveTo, counts, bounds, Phases, IInv, TypeOK
<1>6. ASSUME NEW a \in Acts, Answer(a) PROVE IInv'
  <2>1. /\ att[a].pc \in Phases /\ acked \subseteq acked' /\ acked' \subseteq Rows
        /\ \E pc \in Phases : /\ att' = [att EXCEPT ![a].pc = pc]
                              /\ pc \in {"bodyOk", "ok"} => RowOf(a) \in acked'
    BY <1>6 DEF Answer, MoveTo, Phases, IInv, TypeOK
  <2> QED
    BY <1>6, <1>t, <2>1, MoveKeepsIInv DEF Answer, counts, bounds
<1>7. ASSUME NEW a \in Acts, TimeOut(a) PROVE IInv'
  BY <1>7, <1>t, MoveKeepsIInv DEF TimeOut, MoveTo, counts, bounds, Phases, IInv, TypeOK
<1>8. ASSUME NEW a \in Acts, ReadBody(a) PROVE IInv'
  <2>1. /\ att[a].pc \in Phases
        /\ \E pc \in Phases : /\ att' = [att EXCEPT ![a].pc = pc]
                              /\ pc \in {"bodyOk", "ok"} => RowOf(a) \in acked
    BY <1>8 DEF ReadBody, MoveTo, Phases, IInv, Acked
  <2> QED
    BY <1>8, <1>t, <2>1, MoveKeepsIInv DEF ReadBody, counts, bounds, IInv, TypeOK
<1>9. ASSUME NEW a \in Acts, WriteSuccess(a) PROVE IInv'
  <2>1. RowOf(a) \in acked /\ att[a].n \in Nat /\ att[a].n <= MAX_ATTEMPTS
    BY <1>9 DEF WriteSuccess, IInv, TypeOK, Acked, Budget, RetryBudget, NoAttempt
  <2> QED
    BY <1>9, <1>t, <2>1, EndKeepsIInv DEF WriteSuccess, Succeeded, RowType
<1>10. ASSUME NEW a \in Acts, WriteFailure(a) PROVE IInv'
  <2>1. att[a].n \in 1 .. MAX_ATTEMPTS
    BY <1>10 DEF WriteFailure, IInv, TypeOK, Budget, RetryBudget, NoAttempt
  <2>2. LET r == FailedAttempt(att[a].n)
        IN  /\ r \in RowType /\ r.status # "success" /\ r.attempts <= MAX_ATTEMPTS
            /\ r.next # "null" => r.status = "pending" /\ r.attempts \in 1 .. (MAX_ATTEMPTS - 1)
    BY <2>1 DEF FailedAttempt, Failed, RowType
  <2> QED
    BY <1>10, <1>t, <2>2, EndKeepsIInv DEF WriteFailure
<1>11. ASSUME NEW a \in Acts, DbError(a) PROVE IInv'
  <2>1. \/ att' = [att EXCEPT ![a] = NoAttempt]
        \/ \E pc \in Phases : att' = [att EXCEPT ![a].pc = pc] /\ pc \notin {"bodyOk", "ok"}
    BY <1>11 DEF DbError, MoveTo, Phases
  <2>2. att[a].pc \in Phases /\ uncounted' \in [Rows -> Nat]
    BY <1>11, NotCountedType DEF DbError, Phases
  <2>3. /\ dbErrors' \in Nat /\ dbErrors' <= MaxDbErrors
        /\ \A p \in Pods : tick'[p] \in 1 .. (dbErrors' + 1)
    BY <1>11, <1>t DEF DbError, UpdateThrows
  <2> QED
    BY <1>11, <1>t, <2>1, <2>2, <2>3, MoveKeepsIInv DEF DbError, UpdateThrows, IInv, TypeOK
<1>16. ASSUME NEW a \in Acts, SecretFails(a) PROVE IInv'
  <2>1. att[a].pc \in Phases /\ uncounted' \in [Rows -> Nat] /\ att' = [att EXCEPT ![a] = NoAttempt]
    BY <1>16, NotCountedType DEF SecretFails, Phases
  <2>2. dbErrors' = dbErrors + 1 /\ dbErrors' <= MaxDbErrors
    BY <1>16, <1>t DEF SecretFails, UpdateThrows
  <2>3. tick' \in [Pods -> Nat] /\ \A p \in Pods : tick'[p] \in {tick[p], tick[p] + 1}
    BY <1>16, <1>t DEF SecretFails
  <2>4. \A p \in Pods : tick'[p] \in 1 .. (dbErrors' + 1)
    BY <1>t, <2>2, <2>3
  <2>5. dbErrors' \in Nat
    BY <1>t, <2>2
  <2> QED
    BY <1>16, <2>1, <2>2, <2>3, <2>4, <2>5, MoveKeepsIInv DEF SecretFails, UpdateThrows, IInv, TypeOK
<1>12. ASSUME NEW d \in Rows, BecomeDue(d) PROVE IInv'
  BY <1>12 DEF BecomeDue, IInv, TypeOK, Acked, SuccessMeansAcked, Budget, RetryBudget, counts,
     bounds, RowType, TicksCounted
<1>13. ASSUME NEW p \in Pods, Tick(p) PROVE IInv'
  <2>1. PICK S \in Batches : Retry(p, S)
    BY <1>13 DEF Tick
  <2>2. \A d \in S : d \in Rows /\ row[d].next # "null"
    BY <2>1 DEF Batches, Due
  <2>3. \A d \in S : row[d].attempts + 1 \in 1 .. MAX_ATTEMPTS
    BY <2>2 DEF IInv, Budget, RetryBudget, TypeOK, RowType
  <2>4. begun' \in [Rows -> Nat] /\ overlaps' \in [Rows -> Nat]
    BY <1>t, <2>1, CountedType DEF Retry
  <2>5. ASSUME NEW a \in Acts
        PROVE  \/ att'[a] = att[a]
               \/ /\ att'[a].pc = "begin" /\ att'[a].n \in 1 .. MAX_ATTEMPTS
                  /\ att'[a] \in [pc : Phases, n : Nat \ {0}]
    <3>1. CASE att'[a] # att[a]
      <4>1. att'[a] = [pc |-> "begin", n |-> row[RowOf(a)].attempts + 1] /\ RowOf(a) \in S
        BY <2>1, <3>1 DEF Retry
      <4>2. row[RowOf(a)].attempts + 1 \in 1 .. MAX_ATTEMPTS
        BY <2>3, <4>1
      <4> QED
        BY <4>1, <4>2 DEF Phases
    <3> QED
      BY <3>1
  <2>6. /\ UNCHANGED <<row, event, tick, acked, uncounted, replays, crashes, dbErrors>>
        /\ att' = [a \in Acts |-> att'[a]]
    BY <2>1 DEF Retry, bounds
  <2>7. TypeOK'
    <3>1. att' \in [Acts -> [pc : Phases, n : Nat \ {0}] \cup {NoAttempt}]
      <4>1. \A a \in Acts : att'[a] \in [pc : Phases, n : Nat \ {0}] \cup {NoAttempt}
        BY <2>5 DEF IInv, TypeOK
      <4> QED
        BY <2>6, <4>1
    <3> QED
      BY <2>4, <2>6, <3>1 DEF IInv, TypeOK
  <2>8. Acked' /\ Budget'
    BY <2>5, <2>6 DEF IInv, TypeOK, Acked, SuccessMeansAcked, Budget, RetryBudget, NoAttempt
  <2> QED
    BY <2>6, <2>7, <2>8 DEF IInv, TicksCounted
<1>14. ASSUME NEW p \in Pods, Crash(p) PROVE IInv'
  <2>1. uncounted' \in [Rows -> Nat]
    BY <1>14, <1>t, CountedType DEF Crash
  <2>2. TypeOK'
    BY <1>14, <2>1 DEF Crash, IInv, TypeOK
  <2>3. Acked' /\ Budget'
    BY <1>14 DEF Crash, IInv, TypeOK, Acked, SuccessMeansAcked, Budget, RetryBudget, NoAttempt
  <2> QED
    BY <1>14, <2>2, <2>3 DEF Crash, IInv, TicksCounted
<1>15. CASE UNCHANGED vars
  BY <1>15 DEF vars, counts, bounds, IInv, TypeOK, Acked, SuccessMeansAcked, Budget, RetryBudget,
     TicksCounted
<1> QED
  BY <1>1, <1>2, <1>3, <1>4, <1>5, <1>6, <1>7, <1>8, <1>9, <1>10, <1>11, <1>12, <1>13, <1>14, <1>15,
     <1>16
  DEF Next, PodStep, AttemptStep

\* TypeCorrect: the rows, the activities and the counters keep their types.
THEOREM TypeCorrect == Spec => []TypeOK
  BY InitIInv, NextIInv, PTL DEF Spec, IInv

\* DeliveredWasAcked: for any number of pods, rows, crashes, failed updates and
\* replays, attemptDelivery marks a row success only if its subscriber answered 2xx.
THEOREM DeliveredWasAcked == Spec => []SuccessMeansAcked
<1>1. IInv => SuccessMeansAcked
  BY DEF IInv, Acked
<1> QED
  BY <1>1, InitIInv, NextIInv, PTL DEF Spec

\* BudgetKept: for any number of pods, a row the retry worker may read has
\* attempts left and no attempt is numbered beyond MAX_ATTEMPTS.
THEOREM BudgetKept == Spec => []RetryBudget
<1>1. IInv => RetryBudget
  BY DEF IInv, Budget
<1> QED
  BY <1>1, InitIInv, NextIInv, PTL DEF Spec

-----------------------------------------------------------------------------
(* The attempts of a row                                                   *)

\* A row is planned by one event at most, which has yet to create it.
Planned(d) ==
  /\ \A p, q \in Pods : d \in event[p] /\ d \in event[q] => p = q
  /\ \A p \in Pods : d \in event[p] => row[d].status = "none"

\* A row yet to be created is blank.
Blank(d) ==
  row[d].status = "none" => row[d] = NoRow /\ overlaps[d] = 0 /\ begun[d] = 0 /\ ~Attempted(d)

\* Unless attempts of the row have overlapped, an attempt is the only one, the
\* row is pending and counts those before it; a first attempt has no retry time.
Sole(d) ==
  overlaps[d] = 0 =>
    /\ \A a \in Acts : Running(a) /\ RowOf(a) = d =>
         /\ row[d].status = "pending" /\ att[a].n = row[d].attempts + 1
         /\ a[2] = First => row[d].next = "null"
    /\ \A a, b \in Acts : Running(a) /\ Running(b) /\ RowOf(a) = d /\ RowOf(b) = d => a = b

\* Whatever number is written next, the attempts begun are accounted for by it.
Accounted(d) ==
  /\ begun[d] <= row[d].attempts + uncounted[d] + overlaps[d] + 1
  /\ \A a \in Acts : Running(a) /\ RowOf(a) = d => begun[d] <= att[a].n + uncounted[d] + overlaps[d]
  /\ ~Attempted(d) => begun[d] <= row[d].attempts + uncounted[d] + overlaps[d]

RowsInv == \A d \in Rows : Planned(d) /\ Blank(d) /\ Sole(d) /\ Accounted(d)

\* No attempt belongs to a tick yet to come.
Numbered == \A a \in Acts : Running(a) /\ a[2] # First => a[2] <= tick[PodOf(a)]

SInv == IInv /\ RowsInv /\ Numbered

LEMMA InitSInv == Init => SInv
<1> SUFFICES ASSUME Init PROVE SInv
  OBVIOUS
<1>1. IInv
  BY InitIInv
<1>2. Numbered /\ \A d \in Rows : ~Attempted(d) /\ \A a \in Acts : ~Running(a)
  BY DEF Init, Numbered, Running, Attempted
<1>3. RowsInv
  BY <1>2 DEF Init, RowsInv, Planned, Blank, Sole, Accounted, NoRow
<1> QED
  BY <1>1, <1>2, <1>3 DEF SInv

\* The facts about one row that the next lemmas start from.
LEMMA RowFacts ==
  ASSUME SInv, NEW d \in Rows
  PROVE  /\ row[d] \in RowType /\ row[d].attempts \in Nat
         /\ begun[d] \in Nat /\ uncounted[d] \in Nat /\ overlaps[d] \in Nat
         /\ Planned(d) /\ Blank(d) /\ Sole(d) /\ Accounted(d)
         /\ \A a \in Acts : Running(a) => att[a].n \in Nat /\ att[a].pc \in Phases
  BY DEF SInv, RowsInv, IInv, TypeOK, RowType, Running, NoAttempt

\* No attempt of the row begins or ends; its status may be reset and its retry
\* time may pass or be removed.
LEMMA KeptRow ==
  ASSUME SInv, NEW d \in Rows,
         \A a \in Acts : RowOf(a) = d => (Running(a)' <=> Running(a)) /\ att'[a].n = att[a].n,
         begun'[d] = begun[d], uncounted'[d] = uncounted[d], overlaps'[d] = overlaps[d],
         \/ row'[d] = row[d]
         \/ /\ row[d].status # "none" /\ row'[d].status \in {row[d].status, "pending"}
            /\ row'[d].attempts = row[d].attempts
            /\ row[d].next = "null" => row'[d].next = "null"
  PROVE  Blank(d)' /\ Sole(d)' /\ Accounted(d)'
<1>1. Attempted(d)' <=> Attempted(d)
  BY DEF Attempted
<1>2. Blank(d)'
  BY <1>1, RowFacts DEF Blank
<1>3. Sole(d)'
  <2>1. ASSUME overlaps'[d] = 0, NEW a \in Acts, Running(a)', RowOf(a) = d
        PROVE  /\ row'[d].status = "pending" /\ att'[a].n = row'[d].attempts + 1
               /\ a[2] = First => row'[d].next = "null"
    <3>1. overlaps[d] = 0 /\ Running(a) /\ att'[a].n = att[a].n
      BY <2>1
    <3>2. /\ row[d].status = "pending" /\ att[a].n = row[d].attempts + 1
          /\ a[2] = First => row[d].next = "null"
      BY <2>1, <3>1, RowFacts DEF Sole
    <3> QED
      BY <3>1, <3>2
  <2>2. overlaps'[d] = 0 => \A a, b \in Acts :
          Running(a)' /\ Running(b)' /\ RowOf(a) = d /\ RowOf(b) = d => a = b
    BY RowFacts DEF Sole
  <2> QED
    BY <2>1, <2>2 DEF Sole
<1>4. Accounted(d)'
  BY <1>1, RowFacts DEF Accounted
<1> QED
  BY <1>2, <1>3, <1>4

\* The attempt a of a row ends: its number is written, or it is uncounted.
LEMMA EndedRow ==
  ASSUME SInv, NEW a \in Acts, Running(a), NEW d \in Rows, d = RowOf(a),
         ~Running(a)', \A b \in Acts : b # a => att'[b] = att[b],
         begun'[d] = begun[d], overlaps'[d] = overlaps[d], row'[d] \in RowType,
         row'[d].status # "none",
         \/ row'[d].attempts = att[a].n /\ uncounted'[d] = uncounted[d]
         \/ row'[d].attempts = row[d].attempts /\ uncounted'[d] = uncounted[d] + 1
  PROVE  Blank(d)' /\ Sole(d)' /\ Accounted(d)'
<1>1. \A b \in Acts : Running(b)' => Running(b) /\ b # a /\ att'[b] = att[b]
  BY DEF Running
<1>2. Blank(d)'
  BY DEF Blank
<1>3. Sole(d)'
  <2>1. overlaps'[d] = 0 => \A b \in Acts : RowOf(b) = d => ~Running(b)'
    BY <1>1, RowFacts DEF Sole
  <2> QED
    BY <2>1 DEF Sole
<1>4. Accounted(d)'
  <2>1. begun[d] <= row'[d].attempts + uncounted'[d] + overlaps[d]
    BY RowFacts DEF Accounted
  <2>2. \A b \in Acts : Running(b)' /\ RowOf(b) = d
          => att'[b].n \in Nat /\ begun[d] <= att'[b].n + uncounted'[d] + overlaps[d]
    BY <1>1, RowFacts DEF Accounted
  <2>3. row'[d].attempts \in Nat /\ uncounted'[d] \in Nat
    BY RowFacts DEF RowType
  <2> QED
    BY <2>1, <2>2, <2>3, RowFacts DEF Accounted
<1> QED
  BY <1>2, <1>3, <1>4

\* An event that loses rows, or none, plans nothing new.
LEMMA KeptPlans ==
  ASSUME SInv, NEW d \in Rows, \A p \in Pods : d \in event'[p] => d \in event[p],
         row'[d] = row[d] \/ row[d].status # "none"
  PROVE  Planned(d)'
  BY RowFacts DEF Planned

\* An event plans unused rows only.
LEMMA AddedPlans ==
  ASSUME SInv, NEW d \in Rows, NEW p \in Pods, NEW S \in SUBSET Unused,
         event' = [event EXCEPT ![p] = S], row'[d] = row[d] \/ row[d].status # "none"
  PROVE  Planned(d)'
<1>1. \A q \in Pods : event'[q] = IF q = p THEN S ELSE event[q]
  BY DEF SInv, IInv, TypeOK
<1>2. d \in S => row[d].status = "none" /\ \A q \in Pods : d \notin event[q]
  BY DEF Unused
<1> QED
  BY <1>1, <1>2, RowFacts DEF Planned

\* One attempt moves on, or ends; the rest of the table is untouched.
LEMMA AttemptSInv ==
  ASSUME SInv, IInv', NEW a \in Acts, AttemptStep(a)
  PROVE  SInv'
<1> DEFINE d == RowOf(a)
<1>t. /\ row \in [Rows -> RowType] /\ uncounted \in [Rows -> Nat] /\ tick \in [Pods -> Ticks]
      /\ att \in [Acts -> [pc : Phases, n : Nat \ {0}] \cup {NoAttempt}]
  BY DEF SInv, IInv, TypeOK
<1>1. Running(a) /\ d \in Rows /\ att[a].n \in Nat
  BY <1>t, ActParts DEF AttemptStep, Block, Post, Answer, TimeOut, ReadBody, WriteSuccess, WriteFailure,
     DbError, SecretFails, Running, NoAttempt
<1>2. UNCHANGED <<event, begun, overlaps>>
  BY DEF AttemptStep, Block, Post, Answer, TimeOut, ReadBody, WriteSuccess, WriteFailure,
     DbError, SecretFails, EndsWith, UpdateThrows, counts
<1>3. \A b \in Acts : b # a => att'[b] = att[b]
  BY <1>t DEF AttemptStep, Block, Post, Answer, TimeOut, ReadBody, WriteSuccess, WriteFailure,
     DbError, SecretFails, EndsWith, MoveTo
<1>4. \A e \in Rows : e # d => row'[e] = row[e] /\ uncounted'[e] = uncounted[e]
  <2>1. UNCHANGED row \/ \E r \in RowType : row' = [row EXCEPT ![d] = r]
    <3>1. \A n \in Nat : Succeeded(n) \in RowType /\ Failed(n) \in RowType /\ FailedAttempt(n) \in RowType
      BY DEF Succeeded, Failed, FailedAttempt, RowType
    <3> QED
      BY <1>1, <1>t, <3>1 DEF AttemptStep, Block, Post, Answer, TimeOut, ReadBody, WriteSuccess,
         WriteFailure, DbError, SecretFails, EndsWith, UpdateThrows, RowType
  <2>2. UNCHANGED uncounted \/ NotCounted(a)
    BY DEF AttemptStep, Block, Post, Answer, TimeOut, ReadBody, WriteSuccess, WriteFailure,
       DbError, SecretFails, counts
  <2> QED
    BY <1>t, <2>1, <2>2, CountedType DEF NotCounted
<1>5. \A p \in Pods : tick'[p] \in Nat /\ tick[p] <= tick'[p]
  BY <1>t DEF Ticks, AttemptStep, Block, Post, Answer, TimeOut, ReadBody, WriteSuccess, WriteFailure,
     DbError, SecretFails, EndsWith
<1>6. ASSUME NEW pc \in Phases, MoveTo(a, pc), UNCHANGED <<row, uncounted>>
      PROVE  Blank(d)' /\ Sole(d)' /\ Accounted(d)'
  <2>1. \A b \in Acts : (Running(b)' <=> Running(b)) /\ att'[b].n = att[b].n
    BY <1>t, <1>1, <1>6 DEF MoveTo, Running, NoAttempt, Phases
  <2> QED
    BY <1>1, <1>2, <1>6, <2>1, KeptRow
<1>7. ASSUME att' = [att EXCEPT ![a] = NoAttempt], row'[d] \in RowType, row'[d].status # "none",
             \/ row'[d].attempts = att[a].n /\ uncounted'[d] = uncounted[d]
             \/ row'[d].attempts = row[d].attempts /\ uncounted'[d] = uncounted[d] + 1
      PROVE  Blank(d)' /\ Sole(d)' /\ Accounted(d)'
  <2>1. ~Running(a)'
    BY <1>t, <1>7 DEF Running
  <2> QED
    BY <1>1, <1>2, <1>3, <1>7, <2>1, EndedRow
<1>8. NotCounted(a) => uncounted'[d] = uncounted[d] + 1
  BY <1>t, <1>1, CountedType DEF NotCounted
<1>9. row[d].status # "none" /\ row[d] \in RowType /\ row[d].attempts \in Nat
  BY <1>1, RowFacts DEF Blank, Attempted
<1>10. Blank(d)' /\ Sole(d)' /\ Accounted(d)'
  <2>1. CASE Block(a)
    <3>1. PICK n \in Nat : /\ row' = [row EXCEPT ![d] = Failed(n)]
                           /\ \/ n = row[d].attempts /\ NotCounted(a)
                              \/ n = att[a].n /\ UNCHANGED uncounted
      BY <1>1, <1>9, <2>1 DEF Block, EndsWith
    <3>2. row'[d] = Failed(n) /\ att' = [att EXCEPT ![a] = NoAttempt]
      BY <1>t, <1>1, <2>1, <3>1 DEF Block, EndsWith
    <3> QED
      BY <1>7, <1>8, <3>1, <3>2 DEF Failed, RowType
  <2>2. CASE Post(a) \/ Answer(a) \/ TimeOut(a) \/ ReadBody(a)
    <3>1. \E pc \in Phases : MoveTo(a, pc) /\ UNCHANGED <<row, uncounted>>
      BY <2>2 DEF Post, Answer, TimeOut, ReadBody, Phases, counts
    <3> QED
      BY <1>6, <3>1
  <2>3. CASE WriteSuccess(a)
    <3>1. row'[d] = Succeeded(att[a].n) /\ att' = [att EXCEPT ![a] = NoAttempt] /\ UNCHANGED uncounted
      BY <1>t, <1>1, <2>3 DEF WriteSuccess, EndsWith
    <3> QED
      BY <1>1, <1>7, <3>1 DEF Succeeded, RowType
  <2>4. CASE WriteFailure(a)
    <3>1. row'[d] = FailedAttempt(att[a].n) /\ att' = [att EXCEPT ![a] = NoAttempt] /\ UNCHANGED uncounted
      BY <1>t, <1>1, <2>4 DEF WriteFailure, EndsWith
    <3> QED
      BY <1>1, <1>7, <3>1 DEF FailedAttempt, Failed, RowType
  <2>5. CASE DbError(a) \/ SecretFails(a)
    <3>1. UNCHANGED row
      BY <2>5 DEF DbError, SecretFails, UpdateThrows
    <3>2. \/ MoveTo(a, "bad") /\ UNCHANGED uncounted
          \/ att' = [att EXCEPT ![a] = NoAttempt] /\ NotCounted(a)
      BY <2>5 DEF DbError, SecretFails
    <3> QED
      BY <1>6, <1>7, <1>8, <1>9, <3>1, <3>2 DEF Phases
  <2> QED
    BY <2>1, <2>2, <2>3, <2>4, <2>5 DEF AttemptStep
<1>11. ASSUME NEW e \in Rows PROVE Planned(e)' /\ Blank(e)' /\ Sole(e)' /\ Accounted(e)'
  <2>1. Planned(e)'
    BY <1>2, <1>4, <1>9, KeptPlans
  <2>2. CASE e # d
    <3>1. \A b \in Acts : RowOf(b) = e => b # a
      BY <2>2
    <3>2. \A b \in Acts : RowOf(b) = e => (Running(b)' <=> Running(b)) /\ att'[b].n = att[b].n
      BY <1>3, <3>1 DEF Running
    <3> QED
      BY <1>2, <1>4, <2>1, <2>2, <3>2, KeptRow
  <2> QED
    BY <1>10, <2>1, <2>2
<1>12. Numbered'
  <2>1. \A b \in Acts : Running(b)' => Running(b)
    BY <1>1, <1>3 DEF Running
  <2>2. \A b \in Acts : PodOf(b) \in Pods /\ b[2] \in Nat
    BY WebhookConstants DEF Acts, PodOf, First, Ticks
  <2>3. \A p \in Pods : tick[p] \in Nat
    BY <1>t DEF Ticks
  <2> QED
    BY <1>5, <2>1, <2>2, <2>3 DEF SInv, Numbered
<1> QED
  BY <1>11, <1>12 DEF SInv, RowsInv

LEMMA CreateSInv ==
  ASSUME SInv, IInv', NEW p \in Pods, NEW d \in Rows, Create(p, d)
  PROVE  SInv'
<1> DEFINE c == <<p, First, d>>
<1>t. /\ row \in [Rows -> RowType] /\ event \in [Pods -> SUBSET Rows] /\ begun \in [Rows -> Nat]
      /\ att \in [Acts -> [pc : Phases, n : Nat \ {0}] \cup {NoAttempt}]
  BY DEF SInv, IInv, TypeOK
<1>1. c \in Acts /\ RowOf(c) = d /\ c[2] = First
  BY DEF Acts, RowOf
<1>2. row[d] = NoRow /\ overlaps[d] = 0 /\ begun[d] = 0 /\ ~Attempted(d) /\ uncounted[d] \in Nat
  BY RowFacts DEF Create, Planned, Blank
<1>3. /\ \A e \in Rows : e # d => row'[e] = row[e] /\ begun'[e] = begun[e]
      /\ row'[d] = [status |-> "pending", attempts |-> 0, next |-> "null"] /\ begun'[d] = 1
      /\ UNCHANGED <<tick, uncounted, overlaps>>
  BY <1>t, <1>2, CountedType DEF Create
<1>4. \A b \in Acts : att'[b] = IF b = c THEN [pc |-> "begin", n |-> 1] ELSE att[b]
  BY <1>1, <1>t DEF Create
<1>5. \A q \in Pods : event'[q] \subseteq event[q] /\ d \notin event'[q]
  <2>1. \A q \in Pods : event'[q] = IF q = p THEN event[p] \ {d} ELSE event[q]
    BY <1>t DEF Create
  <2>2. \A q \in Pods : d \in event[q] => q = p
    BY RowFacts DEF Create, Planned
  <2> QED
    BY <2>1, <2>2
<1>6. \A b \in Acts : RowOf(b) = d => (Running(b)' <=> b = c)
  BY <1>1, <1>2, <1>4 DEF Running, Attempted, NoAttempt
<1>7. ASSUME NEW e \in Rows PROVE Planned(e)' /\ Blank(e)' /\ Sole(e)' /\ Accounted(e)'
  <2>1. Planned(e)'
    BY <1>3, <1>5, RowFacts DEF Planned
  <2>2. CASE e # d
    <3>1. \A b \in Acts : RowOf(b) = e => att'[b] = att[b]
      BY <1>1, <1>4, <2>2
    <3> QED
      BY <1>3, <2>1, <2>2, <3>1, KeptRow DEF Running
  <2>3. CASE e = d
    <3>1. Blank(d)'
      BY <1>3 DEF Blank
    <3>2. Sole(d)'
      BY <1>1, <1>3, <1>4, <1>6 DEF Sole
    <3>3. Attempted(d)'
      BY <1>1, <1>6 DEF Attempted
    <3>4. Accounted(d)'
      BY <1>2, <1>3, <1>4, <1>6, <3>3 DEF Accounted
    <3> QED
      BY <2>1, <2>3, <3>1, <3>2, <3>4
  <2> QED
    BY <2>2, <2>3
<1>8. Numbered'
  BY <1>1, <1>3, <1>4 DEF SInv, Numbered, Running
<1> QED
  BY <1>7, <1>8 DEF SInv, RowsInv

LEMMA TickSInv ==
  ASSUME SInv, IInv', NEW p \in Pods, Tick(p)
  PROVE  SInv'
<1>t. begun \in [Rows -> Nat] /\ overlaps \in [Rows -> Nat] /\ tick \in [Pods -> Nat]
  BY DEF SInv, IInv, TypeOK, Ticks
<1>1. PICK S \in Batches : Retry(p, S)
  BY DEF Tick
<1>2. S \subseteq Rows /\ \A d \in S : row[d].status = "pending" /\ row[d].next = "due"
  BY <1>1 DEF Batches, Due
<1>3. UNCHANGED <<row, event, tick, uncounted>>
  BY <1>1 DEF Retry
<1>4. \A d \in Rows : /\ begun'[d] = begun[d] + IF d \in S THEN 1 ELSE 0
                      /\ overlaps'[d] = overlaps[d] + IF d \in S /\ Attempted(d) THEN 1 ELSE 0
  BY <1>t, <1>1, CountedType DEF Retry
<1>5. \A b \in Acts :
        att'[b] = IF PodOf(b) = p /\ b[2] = tick[p] /\ RowOf(b) \in S
                    THEN [pc |-> "begin", n |-> row[RowOf(b)].attempts + 1] ELSE att[b]
  BY <1>1 DEF Retry
<1>6. ASSUME NEW e \in Rows PROVE Planned(e)' /\ Blank(e)' /\ Sole(e)' /\ Accounted(e)'
  <2>1. Planned(e)'
    BY <1>3, KeptPlans
  <2>2. CASE e \notin S
    <3>1. \A b \in Acts : RowOf(b) = e => att'[b] = att[b]
      BY <1>5, <2>2
    <3>2. begun'[e] = begun[e] /\ overlaps'[e] = overlaps[e]
      BY <1>4, <2>2, RowFacts
    <3> QED
      BY <1>3, <2>1, <3>1, <3>2, KeptRow DEF Running
  <2>3. CASE e \in S
    <3> DEFINE new == <<p, tick[p], e>>
               r == [pc |-> "begin", n |-> row[e].attempts + 1]
    <3>1. new \in Acts /\ RowOf(new) = e /\ PodOf(new) = p /\ new[2] = tick[p] /\ new[2] # First
      BY DEF Acts, RowOf, PodOf, SInv, IInv, TypeOK, Ticks, First
    <3>2. \A b \in Acts : PodOf(b) = p /\ b[2] = tick[p] /\ RowOf(b) = e => b = new
      BY DEF Acts, RowOf, PodOf
    <3>3. \A b \in Acts : RowOf(b) = e => att'[b] = IF b = new THEN r ELSE att[b]
      BY <1>5, <2>3, <3>1, <3>2
    <3>4. Attempted(e)' /\ row[e].status = "pending"
      <4>1. att'[new] # NoAttempt
        BY <3>1, <3>3 DEF NoAttempt
      <4>2. \E b \in Acts : RowOf(b) = e /\ att'[b] # NoAttempt
        BY <3>1, <4>1
      <4> QED
        BY <1>2, <2>3, <4>2 DEF Running, Attempted
    <3>5. Blank(e)'
      BY <1>3, <3>4 DEF Blank
    <3>6. Sole(e)'
      <4>1. CASE Attempted(e)
        <5>1. overlaps'[e] # 0
          BY <1>4, <2>3, <4>1, RowFacts
        <5> QED
          BY <5>1 DEF Sole
      <4>2. CASE ~Attempted(e)
        <5>1. \A b \in Acts : Running(b)' /\ RowOf(b) = e => b = new
          BY <3>3, <4>2 DEF Running, Attempted
        <5>2. att'[new] = r
          BY <3>1, <3>3
        <5> QED
          BY <1>3, <3>1, <3>4, <5>1, <5>2 DEF Sole
      <4> QED
        BY <4>1, <4>2
    <3>7. Accounted(e)'
      <4> DEFINE spare == uncounted[e] + overlaps[e]
      <4>1. /\ begun[e] \in Nat /\ uncounted[e] \in Nat /\ overlaps[e] \in Nat
            /\ row[e].attempts \in Nat /\ begun'[e] = begun[e] + 1
        BY <1>4, <2>3, RowFacts
      <4>2. CASE Attempted(e)
        <5>1. overlaps'[e] = overlaps[e] + 1
          BY <1>4, <2>3, <4>2
        <5>2. begun[e] <= row[e].attempts + uncounted[e] + overlaps[e] + 1
          BY RowFacts DEF Accounted
        <5>3. ASSUME NEW b \in Acts, Running(b)', RowOf(b) = e
              PROVE  begun'[e] <= att'[b].n + uncounted[e] + overlaps'[e]
          <6>1. CASE b = new
            BY <3>3, <4>1, <5>1, <5>2, <5>3, <6>1
          <6>2. CASE b # new
            <7>1. att'[b] = att[b] /\ Running(b)
              BY <3>3, <5>3, <6>2 DEF Running
            <7>2. att[b].n \in Nat /\ begun[e] <= att[b].n + uncounted[e] + overlaps[e]
              BY <5>3, <7>1, RowFacts DEF Accounted
            <7> QED
              BY <4>1, <5>1, <7>1, <7>2
          <6> QED
            BY <6>1, <6>2
        <5> QED
          BY <1>3, <3>4, <4>1, <5>1, <5>2, <5>3 DEF Accounted
      <4>3. CASE ~Attempted(e)
        <5>1. overlaps'[e] = overlaps[e]
          BY <1>4, <4>1, <4>3
        <5>2. begun[e] <= row[e].attempts + uncounted[e] + overlaps[e]
          BY <4>3, RowFacts DEF Accounted
        <5>3. \A b \in Acts : Running(b)' /\ RowOf(b) = e => att'[b] = r
          BY <3>3, <4>3 DEF Running, Attempted
        <5> QED
          BY <1>3, <3>4, <4>1, <5>1, <5>2, <5>3 DEF Accounted
      <4> QED
        BY <4>2, <4>3
    <3> QED
      BY <2>1, <3>5, <3>6, <3>7
  <2> QED
    BY <2>2, <2>3
<1>7. Numbered'
  <2>1. \A b \in Acts : Running(b)' => Running(b) \/ (PodOf(b) = p /\ b[2] = tick[p])
    BY <1>5 DEF Running
  <2> QED
    BY <1>t, <1>3, <2>1 DEF SInv, Numbered
<1> QED
  BY <1>6, <1>7 DEF SInv, RowsInv

LEMMA CrashSInv ==
  ASSUME SInv, IInv', NEW p \in Pods, Crash(p)
  PROVE  SInv'
<1> DEFINE hit == {RowOf(a) : a \in {b \in Acts : PodOf(b) = p /\ Running(b)}}
<1>t. uncounted \in [Rows -> Nat] /\ event \in [Pods -> SUBSET Rows]
  BY DEF SInv, IInv, TypeOK
<1>1. /\ UNCHANGED <<row, tick, begun, overlaps>>
      /\ \A d \in Rows : uncounted'[d] = uncounted[d] + IF d \in hit THEN 1 ELSE 0
      /\ \A b \in Acts : att'[b] = IF PodOf(b) = p THEN NoAttempt ELSE att[b]
      /\ \A q \in Pods : event'[q] \subseteq event[q]
  BY <1>t, CountedType DEF Crash
<1>2. \A b \in Acts : Running(b)' => Running(b) /\ att'[b] = att[b]
  BY <1>1 DEF Running
<1>3. ASSUME NEW e \in Rows PROVE Planned(e)' /\ Blank(e)' /\ Sole(e)' /\ Accounted(e)'
  <2>1. Planned(e)'
    BY <1>1, KeptPlans
  <2>2. Attempted(e)' => Attempted(e)
    BY <1>2 DEF Attempted
  <2>3. Blank(e)'
    BY <1>1, <2>2, RowFacts DEF Blank
  <2>4. Sole(e)'
    BY <1>1, <1>2, RowFacts DEF Sole
  <2>5. Accounted(e)'
    <3>1. /\ begun[e] \in Nat /\ uncounted[e] \in Nat /\ overlaps[e] \in Nat /\ row[e].attempts \in Nat
          /\ begun[e] <= row[e].attempts + uncounted[e] + overlaps[e] + 1
          /\ uncounted'[e] \in {uncounted[e], uncounted[e] + 1}
      BY <1>1, RowFacts DEF Accounted
    <3>2. ASSUME NEW b \in Acts, Running(b)', RowOf(b) = e
          PROVE  begun[e] <= att'[b].n + uncounted'[e] + overlaps[e]
      <4>1. att'[b] = att[b] /\ att[b].n \in Nat /\ begun[e] <= att[b].n + uncounted[e] + overlaps[e]
        BY <1>2, <3>2, RowFacts DEF Accounted
      <4> QED
        BY <3>1, <4>1
    <3>3. ASSUME ~Attempted(e)' PROVE begun[e] <= row[e].attempts + uncounted'[e] + overlaps[e]
      <4>1. CASE e \in hit
        BY <1>1, <3>1, <4>1
      <4>2. CASE e \notin hit
        <5>1. \A b \in Acts : Running(b) /\ RowOf(b) = e => Running(b)'
          BY <1>1, <4>2 DEF Running
        <5>2. ~Attempted(e)
          BY <3>3, <5>1 DEF Attempted
        <5> QED
          BY <3>1, <5>2, RowFacts DEF Accounted
      <4> QED
        BY <4>1, <4>2
    <3> QED
      BY <1>1, <3>1, <3>2, <3>3 DEF Accounted
  <2> QED
    BY <2>1, <2>3, <2>4, <2>5
<1>4. Numbered'
  BY <1>1, <1>2 DEF SInv, Numbered
<1> QED
  BY <1>3, <1>4 DEF SInv, RowsInv

LEMMA NextSInv == SInv /\ [Next]_vars => SInv'
<1> SUFFICES ASSUME SInv, [Next]_vars PROVE SInv'
  OBVIOUS
<1>i. IInv'
  BY NextIInv DEF SInv
<1>t. row \in [Rows -> RowType]
  BY DEF SInv, IInv, TypeOK
<1>1. ASSUME UNCHANGED <<att, tick, begun, uncounted, overlaps>>,
             \A d \in Rows :
               /\ Planned(d)'
               /\ \/ row'[d] = row[d]
                  \/ /\ row[d].status # "none" /\ row'[d].status \in {row[d].status, "pending"}
                     /\ row'[d].attempts = row[d].attempts
                     /\ row[d].next = "null" => row'[d].next = "null"
      PROVE  SInv'
  <2>1. \A a \in Acts : Running(a)' <=> Running(a)
    BY <1>1 DEF Running
  <2>2. RowsInv'
    BY <1>1, <2>1, KeptRow DEF RowsInv
  <2> QED
    BY <1>i, <1>1, <2>1, <2>2 DEF SInv, Numbered
<1>2. ASSUME NEW p \in Pods, Publish(p) PROVE SInv'
  <2>1. PICK S \in SUBSET Unused : event' = [event EXCEPT ![p] = S]
    BY <1>2 DEF Publish
  <2>2. \A d \in Rows : Planned(d)'
    BY <1>2, <2>1, AddedPlans DEF Publish
  <2> QED
    BY <1>1, <1>2, <2>2 DEF Publish, counts
<1>3. ASSUME NEW p \in Pods, NEW d \in Rows, Replay(p, d) PROVE SInv'
  <2>1. PICK S \in SUBSET Unused : event' = [event EXCEPT ![p] = S]
    BY <1>3 DEF Replay
  <2>2. \A e \in Rows : e # d => row'[e] = row[e]
    BY <1>3, <1>t DEF Replay
  <2>3. /\ row[d].status # "none" /\ row'[d].status = "pending"
        /\ row'[d].attempts = row[d].attempts /\ row'[d].next = "null"
    BY <1>3, <1>t DEF Replay, RowType
  <2>4. \A e \in Rows : Planned(e)'
    BY <2>1, <2>2, <2>3, AddedPlans
  <2> QED
    BY <1>1, <1>3, <2>2, <2>3, <2>4 DEF Replay, counts
<1>4. ASSUME NEW d \in Rows, BecomeDue(d) PROVE SInv'
  <2>1. \A e \in Rows : e # d => row'[e] = row[e]
    BY <1>4, <1>t DEF BecomeDue
  <2>2. /\ row[d].next # "null" /\ row'[d].status = row[d].status
        /\ row'[d].attempts = row[d].attempts
    BY <1>4, <1>t DEF BecomeDue, RowType
  <2>3. row[d].status # "none"
    BY <2>2, RowFacts DEF Blank, NoRow
  <2>4. \A e \in Rows : Planned(e)'
    BY <1>4, <2>1, <2>3, KeptPlans DEF BecomeDue
  <2> QED
    BY <1>1, <1>4, <2>1, <2>2, <2>3, <2>4 DEF BecomeDue, counts
<1>5. CASE UNCHANGED vars
  <2>1. \A e \in Rows : Planned(e)'
    BY <1>5, KeptPlans DEF vars
  <2> QED
    BY <1>1, <1>5, <2>1 DEF vars, counts
<1> QED
  BY <1>i, <1>2, <1>3, <1>4, <1>5, AttemptSInv, CreateSInv, TickSInv, CrashSInv DEF Next, PodStep

\* AttemptsCounted: for any number of pods, crashes, replays, failed updates and
\* rejected ticks, a row is attempted at most MAX_ATTEMPTS times beyond the
\* attempts whose number was not written and those begun over a running one.
THEOREM AttemptsCounted == Spec => []AttemptsAccounted
<1>1. ASSUME SInv, NEW d \in Rows
      PROVE  begun[d] <= MAX_ATTEMPTS + uncounted[d] + overlaps[d]
  <2>1. /\ MAX_ATTEMPTS \in Nat /\ begun[d] \in Nat /\ uncounted[d] \in Nat /\ overlaps[d] \in Nat
        /\ row[d].attempts \in Nat /\ row[d].attempts <= MAX_ATTEMPTS
    BY <1>1, RowFacts, WebhookConstants DEF SInv, IInv, Budget
  <2>2. CASE ~Attempted(d)
    BY <1>1, <2>1, <2>2, RowFacts DEF Accounted
  <2>3. ASSUME NEW a \in Acts, RowOf(a) = d, Running(a)
        PROVE  begun[d] <= MAX_ATTEMPTS + uncounted[d] + overlaps[d]
    <3>1. att[a].n \in Nat /\ att[a].n <= MAX_ATTEMPTS
      BY <1>1, <2>3, RowFacts DEF SInv, IInv, Budget, RetryBudget
    <3> QED
      BY <1>1, <2>1, <2>3, <3>1, RowFacts DEF Accounted
  <2> QED
    BY <2>2, <2>3 DEF Attempted
<1>2. SInv => AttemptsAccounted
  BY <1>1 DEF AttemptsAccounted
<1> QED
  BY <1>2, InitSInv, NextSInv, PTL DEF Spec

\* SuccessStands: for any number of pods, only a replay takes a row out of
\* success unless its attempts have overlapped; no attempt that ends late does.
THEOREM SuccessStands == Spec => SuccessIsFinal
<1> DEFINE Kept == \A d \in Rows : row[d].status = "success" =>
                     \/ row'[d].status = "success" \/ overlaps[d] > 0
                     \/ \E p \in Pods : Replay(p, d)
<1>1. SInv /\ [Next]_vars => Kept
  <2> SUFFICES ASSUME SInv, [Next]_vars, NEW d \in Rows, row[d].status = "success", ~(overlaps[d] > 0)
               PROVE  row'[d].status = "success" \/ \E p \in Pods : Replay(p, d)
    OBVIOUS
  <2>t. row \in [Rows -> RowType] /\ \A p \in Pods : d \notin event[p]
    BY RowFacts DEF SInv, IInv, TypeOK, Planned
  <2>0. overlaps[d] = 0
    BY RowFacts
  <2>1. \A a \in Acts : RowOf(a) = d => att[a] = NoAttempt
    BY <2>0, RowFacts DEF Sole, Running
  <2>2. ASSUME NEW a \in Acts, AttemptStep(a) PROVE row'[d] = row[d]
    <3>1. att[a] # NoAttempt
      BY <2>2 DEF AttemptStep, Block, Post, Answer, TimeOut, ReadBody, WriteSuccess,
         WriteFailure, DbError, SecretFails, NoAttempt
    <3>2. RowOf(a) # d
      BY <2>1, <3>1
    <3>3. row' = row \/ \E r \in {row'[RowOf(a)]} : row' = [row EXCEPT ![RowOf(a)] = r]
      BY <2>2, <2>t, ActParts DEF AttemptStep, Block, EndsWith, Post, Answer, TimeOut, ReadBody,
         WriteSuccess, WriteFailure, DbError, SecretFails, UpdateThrows
    <3> QED
      BY <3>2, <3>3, <2>t
  <2>3. ASSUME NEW p \in Pods, PodStep(p)
        PROVE  row'[d] = row[d] \/ \E q \in Pods : Replay(q, d)
    <3>1. ASSUME NEW e \in Rows, Create(p, e) PROVE row'[d] = row[d]
      BY <3>1, <2>t DEF Create
    <3>2. ASSUME NEW e \in Rows, Replay(p, e) PROVE row'[d] = row[d] \/ Replay(p, d)
      BY <3>2, <2>t DEF Replay
    <3>3. CASE Publish(p) \/ Tick(p) \/ Crash(p)
      BY <3>3 DEF Publish, Tick, Retry, Crash
    <3> QED
      BY <2>3, <3>1, <3>2, <3>3 DEF PodStep
  <2>4. ASSUME NEW e \in Rows, BecomeDue(e) PROVE row'[d].status = row[d].status
    BY <2>4, <2>t DEF BecomeDue, RowType
  <2> QED
    BY <2>2, <2>3, <2>4 DEF Next, vars
<1>3. Spec => [][Kept]_vars
  BY <1>1, NextSInv, InitSInv, PTL DEF Spec
<1> QED
  BY <1>3 DEF SuccessIsFinal

-----------------------------------------------------------------------------
(* One pod, hence one retry worker                                         *)

OnePod == \A p, q \in Pods : p = q

\* A tick that begins an attempt of a row finds another of the row running only
\* if an earlier tick of the pod was rejected.
LEMMA NextOverlap == OnePod /\ SInv /\ OverlapNeedsRejection /\ [Next]_vars => OverlapNeedsRejection'
<1> SUFFICES ASSUME OnePod, SInv, OverlapNeedsRejection, [Next]_vars,
                    NEW d \in Rows, overlaps'[d] > 0, \A p \in Pods : ~(tick'[p] > 1)
             PROVE  FALSE
  BY DEF OverlapNeedsRejection
<1>t. tick \in [Pods -> Nat] /\ \A p \in Pods : tick[p] >= 1
  BY DEF SInv, IInv, TypeOK, Ticks
<1>1. \A p \in Pods : tick'[p] >= tick[p] /\ tick'[p] \in Nat
  <2>1. ASSUME NEW a \in Acts, AttemptStep(a) PROVE \A p \in Pods : tick'[p] >= tick[p] /\ tick'[p] \in Nat
    <3>1. UNCHANGED tick \/ tick' = [tick EXCEPT ![PodOf(a)] = @ + 1]
      BY <2>1 DEF AttemptStep, Block, EndsWith, Post, Answer, TimeOut, ReadBody,
         WriteSuccess, WriteFailure, DbError, SecretFails
    <3> QED
      BY <1>t, <3>1
  <2>2. ASSUME NEW p \in Pods, PodStep(p) PROVE UNCHANGED tick
    <3>1. ASSUME NEW e \in Rows, Create(p, e) \/ Replay(p, e) PROVE UNCHANGED tick
      BY <3>1 DEF Create, Replay
    <3>2. CASE Publish(p) \/ Tick(p) \/ Crash(p)
      BY <3>2 DEF Publish, Tick, Retry, Crash
    <3> QED
      BY <2>2, <3>1, <3>2 DEF PodStep
  <2>3. ASSUME NEW e \in Rows, BecomeDue(e) PROVE UNCHANGED tick
    BY <2>3 DEF BecomeDue
  <2>4. CASE UNCHANGED vars
    BY <1>t, <2>4 DEF vars
  <2> QED
    BY <1>t, <2>1, <2>2, <2>3, <2>4 DEF Next
<1>2. \A p \in Pods : tick[p] = 1
  <2> SUFFICES ASSUME NEW p \in Pods PROVE tick[p] = 1
    OBVIOUS
  <2>1. ~(tick'[p] > 1) /\ tick'[p] >= tick[p] /\ tick'[p] \in Nat /\ tick[p] \in Nat /\ tick[p] >= 1
    BY <1>t, <1>1
  <2> QED
    BY <2>1
<1>3. overlaps[d] = 0
  BY <1>2, RowFacts DEF OverlapNeedsRejection
<1>4. PICK p \in Pods : Tick(p)
  <2>1. overlaps' # overlaps
    BY <1>3
  <2>2. ASSUME NEW a \in Acts, AttemptStep(a) PROVE UNCHANGED overlaps
    BY <2>2 DEF AttemptStep, Block, EndsWith, Post, Answer, TimeOut, ReadBody,
       WriteSuccess, WriteFailure, DbError, SecretFails, UpdateThrows, counts
  <2>3. ASSUME NEW p \in Pods, PodStep(p), ~Tick(p) PROVE UNCHANGED overlaps
    <3>1. ASSUME NEW e \in Rows, Create(p, e) \/ Replay(p, e) PROVE UNCHANGED overlaps
      BY <3>1 DEF Create, Replay, counts
    <3>2. CASE Publish(p) \/ Crash(p)
      BY <3>2 DEF Publish, Crash, counts
    <3> QED
      BY <2>3, <3>1, <3>2 DEF PodStep
  <2>4. ASSUME NEW e \in Rows, BecomeDue(e) PROVE UNCHANGED overlaps
    BY <2>4 DEF BecomeDue, counts
  <2>5. CASE UNCHANGED vars
    BY <2>1, <2>5 DEF vars, counts
  <2>6. CASE \E q \in Pods : PodStep(q)
    <3>1. PICK q \in Pods : PodStep(q)
      BY <2>6
    <3>2. Tick(q)
      BY <2>1, <2>3, <3>1
    <3> QED
      BY <3>2
  <2>7. ASSUME NEW a \in Acts, AttemptStep(a) PROVE FALSE
    BY <2>1, <2>2, <2>7
  <2>8. ASSUME NEW e \in Rows, BecomeDue(e) PROVE FALSE
    BY <2>1, <2>4, <2>8
  <2> QED
    BY <2>1, <2>5, <2>6, <2>7, <2>8 DEF Next
<1>5. PICK S \in Batches : Retry(p, S)
  BY <1>4 DEF Tick
<1>6. d \in S /\ Attempted(d) /\ row[d].next = "due"
  <2>1. overlaps'[d] = overlaps[d] + IF d \in {e \in S : Attempted(e)} THEN 1 ELSE 0
    <3>1. overlaps \in [Rows -> Nat]
      BY DEF SInv, IInv, TypeOK
    <3>2. overlaps' = Counted(overlaps, {e \in S : Attempted(e)})
      BY <1>5 DEF Retry
    <3> QED
      BY <3>1, <3>2, CountedType
  <2>2. d \in S /\ Attempted(d)
    BY <1>3, <2>1
  <2> QED
    BY <1>5, <2>2 DEF Batches, Due
<1>7. PICK a \in Acts : RowOf(a) = d /\ Running(a)
  BY <1>6 DEF Attempted
<1>8. a[2] # First /\ a = <<PodOf(a), a[2], d>> /\ PodOf(a) = p /\ a[2] \in Nat /\ a[2] >= 1
  <2>1. a[2] # First
    BY <1>3, <1>6, <1>7, RowFacts DEF Sole
  <2>2. a[2] \in Ticks /\ a = <<PodOf(a), a[2], d>>
    BY <1>7, <2>1 DEF Acts, RowOf, PodOf
  <2> QED
    BY <2>1, <2>2, ActParts DEF OnePod, Ticks
<1>9. a[2] = tick[p]
  <2>1. a[2] <= tick[p]
    BY <1>7, <1>8 DEF SInv, Numbered
  <2> QED
    BY <1>2, <1>8, <2>1
<1>10. ~Running(<<p, tick[p], d>>)
  BY <1>4 DEF Tick, TickOver
<1> QED
  BY <1>7, <1>8, <1>9, <1>10

\* OneWorkerOverlaps: with one pod, attempts of a row overlap only after a tick
\* was rejected while attempts of it were still running.
THEOREM OneWorkerOverlaps == OnePod => (Spec => []OverlapNeedsRejection)
<1> SUFFICES ASSUME OnePod PROVE Spec => []OverlapNeedsRejection
  OBVIOUS
<1>1. Init => OverlapNeedsRejection
  BY DEF Init, OverlapNeedsRejection
<1>2. SInv /\ OverlapNeedsRejection /\ [Next]_vars => OverlapNeedsRejection'
  BY NextOverlap
<1> QED
  BY <1>1, <1>2, InitSInv, NextSInv, PTL DEF Spec

-----------------------------------------------------------------------------
(* The rows as Delivery sees them                                          *)

Status == [d \in Rows |-> IF overlaps[d] > 0 THEN "overlapped" ELSE row[d].status]
Tries == [d \in Rows |-> IF overlaps[d] > 0 THEN 0 ELSE row[d].attempts]
Requested == [d \in Rows |-> IF overlaps[d] > 0 THEN "none" ELSE Request(d)]

\* What an attempt at pc knows of its request.
Answered(pc) ==
  IF pc = "headers" THEN "waiting"
  ELSE IF pc \in {"bodyOk", "ok"} THEN "accepted"
  ELSE IF pc \in {"bodyBad", "bad"} THEN "rejected"
  ELSE "none"

\* The request of a row is that of its only attempt.
RequestIsTheAttempts ==
  \A d \in Rows : overlaps[d] = 0 =>
    /\ \A a \in Acts : Running(a) /\ RowOf(a) = d => Request(d) = Answered(att[a].pc)
    /\ ~Attempted(d) => Request(d) = "none"

LEMMA RequestsKnown == SInv => RequestIsTheAttempts
<1> SUFFICES ASSUME SInv, NEW d \in Rows, overlaps[d] = 0
             PROVE  /\ \A a \in Acts : Running(a) /\ RowOf(a) = d => Request(d) = Answered(att[a].pc)
                    /\ ~Attempted(d) => Request(d) = "none"
  BY DEF RequestIsTheAttempts
<1>1. ASSUME NEW a \in Acts, Running(a), RowOf(a) = d PROVE Request(d) = Answered(att[a].pc)
  <2>1. ASSUME NEW pcs, "none" \notin pcs PROVE At(d, pcs) <=> att[a].pc \in pcs
    <3>1. ASSUME NEW b \in Acts, RowOf(b) = d, att[b].pc \in pcs PROVE b = a
      <4>1. Running(b)
        BY <2>1, <3>1 DEF Running, NoAttempt
      <4> QED
        BY <1>1, <3>1, <4>1, RowFacts DEF Sole
    <3> QED
      BY <1>1, <3>1 DEF At
  <2>2. /\ At(d, {"headers"}) <=> att[a].pc \in {"headers"}
        /\ At(d, {"bodyOk", "ok"}) <=> att[a].pc \in {"bodyOk", "ok"}
        /\ At(d, {"bodyBad", "bad"}) <=> att[a].pc \in {"bodyBad", "bad"}
    BY <2>1
  <2> QED
    BY <2>2 DEF Request, Answered
<1>2. ASSUME ~Attempted(d) PROVE Request(d) = "none"
  BY <1>2 DEF Request, At, Attempted, Running, NoAttempt
<1> QED
  BY <1>1, <1>2

\* A row none of whose attempts moves keeps its request.
LEMMA KeptRequest ==
  ASSUME NEW d \in Rows, \A b \in Acts : RowOf(b) = d => att'[b] = att[b]
  PROVE  Request(d)' = Request(d)
<1>1. \A pcs : At(d, pcs)' <=> At(d, pcs)
  BY DEF At
<1> QED
  BY <1>1 DEF Request

\* A row whose attempts begin at most has none.
LEMMA NoRequest ==
  ASSUME NEW d \in Rows, \A b \in Acts : RowOf(b) = d => att'[b] = NoAttempt \/ att'[b].pc = "begin"
  PROVE  Request(d)' = "none"
<1>1. \A pcs : "none" \notin pcs /\ "begin" \notin pcs => ~At(d, pcs)'
  BY DEF At, NoAttempt
<1>2. ~At(d, {"headers"})' /\ ~At(d, {"bodyOk", "ok"})' /\ ~At(d, {"bodyBad", "bad"})'
  BY <1>1
<1> QED
  BY <1>2 DEF Request

\* A step of an attempt that nothing overlaps moves the request of its row only.
LEMMA OneAttemptMoves ==
  ASSUME SInv, SInv', NEW a \in Acts, Running(a), overlaps[RowOf(a)] = 0, UNCHANGED overlaps,
         \A b \in Acts : b # a => att'[b] = att[b]
  PROVE  /\ Requested' = [Requested EXCEPT ![RowOf(a)] = Answered(att'[a].pc)]
         /\ Requested[RowOf(a)] = Answered(att[a].pc)
<1> DEFINE d == RowOf(a)
<1>1. d \in Rows
  BY ActParts
<1>2. Request(d) = Answered(att[a].pc)
  BY <1>1, RequestsKnown DEF RequestIsTheAttempts
<1>3. RequestIsTheAttempts'
  <2>1. SInv' => RequestIsTheAttempts'
    BY RequestsKnown, PTL
  <2> QED
    BY <2>1
<1>4. Request(d)' = Answered(att'[a].pc)
  <2>1. CASE Running(a)'
    BY <1>1, <1>3, <2>1 DEF RequestIsTheAttempts
  <2>2. CASE ~Running(a)'
    <3>1. \A b \in Acts : RowOf(b) = d => att'[b] = NoAttempt
      BY <1>1, <2>2, RowFacts DEF Sole, Running
    <3>2. Answered(att'[a].pc) = "none"
      BY <2>2 DEF Running, NoAttempt, Answered
    <3> QED
      BY <1>1, <3>1, <3>2, NoRequest
  <2> QED
    BY <2>1, <2>2
<1>5. ASSUME NEW e \in Rows, e # d PROVE Request(e)' = Request(e)
  BY <1>5, KeptRequest
<1>6. ~(overlaps[d] > 0) /\ UNCHANGED overlaps
  OBVIOUS
<1>7. \A e \in Rows : Request(e)' = IF e = d THEN Answered(att'[a].pc) ELSE Request(e)
  BY <1>4, <1>5
<1> QED
  BY <1>1, <1>2, <1>6, <1>7 DEF Requested

LEMMA EndRefines ==
  ASSUME SInv, NEW a \in Acts, NEW r \in RowType, EndsWith(a, r), overlaps[RowOf(a)] = 0
  PROVE  /\ Status' = [Status EXCEPT ![RowOf(a)] = r.status]
         /\ Tries' = [Tries EXCEPT ![RowOf(a)] = r.attempts]
         /\ att'[a] = NoAttempt /\ \A b \in Acts : b # a => att'[b] = att[b]
<1>1. /\ \A e \in Rows : row'[e] = IF e = RowOf(a) THEN r ELSE row[e]
      /\ \A b \in Acts : att'[b] = IF b = a THEN NoAttempt ELSE att[b]
      /\ UNCHANGED overlaps /\ RowOf(a) \in Rows
  BY ActParts DEF EndsWith, SInv, IInv, TypeOK
<1>2. ~(overlaps[RowOf(a)] > 0)
  OBVIOUS
<1> QED
  BY <1>1, <1>2 DEF Status, Tries

\* A row whose attempts have overlapped takes no further step.
LEMMA OverlappedStutters ==
  ASSUME SInv, NEW d \in Rows, overlaps[d] > 0, UNCHANGED overlaps,
         \A e \in Rows : e # d => row'[e] = row[e],
         \A b \in Acts : RowOf(b) # d => att'[b] = att[b]
  PROVE  UNCHANGED Sequential!vars
<1>1. \A e \in Rows : e # d => Request(e)' = Request(e)
  BY KeptRequest
<1>2. UNCHANGED <<Status, Tries, Requested>>
  BY <1>1 DEF Status, Tries, Requested
<1> QED
  BY <1>2 DEF Sequential!vars, Status, Tries, Requested

\* An attempt that overlaps another is a stuttering step.
LEMMA OverlappedAttempt ==
  ASSUME SInv, NEW a \in Acts, AttemptStep(a), overlaps[RowOf(a)] > 0
  PROVE  UNCHANGED Sequential!vars
<1>t. /\ row \in [Rows -> RowType]
      /\ att \in [Acts -> [pc : Phases, n : Nat \ {0}] \cup {NoAttempt}]
  BY DEF SInv, IInv, TypeOK
<1>1. UNCHANGED overlaps
  BY DEF AttemptStep, Block, Post, Answer, TimeOut, ReadBody, WriteSuccess, WriteFailure,
     DbError, SecretFails, EndsWith, UpdateThrows, counts
<1>2. \A b \in Acts : RowOf(b) # RowOf(a) => att'[b] = att[b]
  BY <1>t DEF AttemptStep, Block, Post, Answer, TimeOut, ReadBody, WriteSuccess, WriteFailure,
     DbError, SecretFails, EndsWith, MoveTo
<1>3. \A e \in Rows : e # RowOf(a) => row'[e] = row[e]
  <2>1. UNCHANGED row \/ \E r \in {row'[RowOf(a)]} : row' = [row EXCEPT ![RowOf(a)] = r]
    BY <1>t, ActParts DEF AttemptStep, Block, EndsWith, Post, Answer, TimeOut, ReadBody,
       WriteSuccess, WriteFailure, DbError, SecretFails, UpdateThrows
  <2> QED
    BY <1>t, <2>1
<1> QED
  BY <1>1, <1>2, <1>3, ActParts, OverlappedStutters

LEMMA AttemptRefines ==
  ASSUME SInv, SInv', NEW a \in Acts, AttemptStep(a), overlaps[RowOf(a)] = 0
  PROVE  [Sequential!Next]_Sequential!vars
<1> DEFINE d == RowOf(a)
<1>0. UNCHANGED overlaps /\ ~(overlaps[d] > 0)
  BY DEF AttemptStep, Block, Post, Answer, TimeOut, ReadBody, WriteSuccess, WriteFailure,
     DbError, SecretFails, EndsWith, UpdateThrows, counts
<1>1. /\ Running(a) /\ d \in Rows /\ att[a].pc \in Phases /\ att[a].n \in Nat
      /\ Status[d] = "pending" /\ Tries[d] = row[d].attempts /\ att[a].n = Tries[d] + 1
      /\ Tries[d] \in Nat /\ att[a].n <= MAX_ATTEMPTS
  <2>1. Running(a) /\ d \in Rows
    BY ActParts DEF AttemptStep, Block, Post, Answer, TimeOut, ReadBody, WriteSuccess, WriteFailure,
                    DbError, SecretFails, Running, NoAttempt
  <2>2. /\ row[d].attempts \in Nat /\ att[a].pc \in Phases /\ att[a].n \in Nat
        /\ row[d].status = "pending" /\ att[a].n = row[d].attempts + 1
    BY <2>1, RowFacts DEF Sole
  <2>3. Status[d] = row[d].status /\ Tries[d] = row[d].attempts
    BY <1>0, <2>1 DEF Status, Tries
  <2> QED
    BY <2>1, <2>2, <2>3 DEF SInv, IInv, Budget, RetryBudget
<1>2. Requested[d] = Answered(att[a].pc)
  BY <1>0, <1>1, RequestsKnown DEF RequestIsTheAttempts, Requested
<1>3. ASSUME UNCHANGED row PROVE UNCHANGED <<Status, Tries>>
  BY <1>0, <1>3 DEF Status, Tries
<1>4. ASSUME NEW pc \in Phases, MoveTo(a, pc), UNCHANGED row
      PROVE  /\ Requested' = [Requested EXCEPT ![d] = Answered(pc)]
             /\ UNCHANGED <<Status, Tries>>
  <2>1. att'[a].pc = pc /\ \A b \in Acts : b # a => att'[b] = att[b]
    BY <1>1, <1>4 DEF MoveTo, SInv, IInv, TypeOK, Running, NoAttempt
  <2> QED
    BY <1>0, <1>1, <1>3, <1>4, <2>1, OneAttemptMoves
<1>5. ASSUME NEW r \in RowType, EndsWith(a, r)
      PROVE  /\ Requested' = [Requested EXCEPT ![d] = "none"]
             /\ Status' = [Status EXCEPT ![d] = r.status]
             /\ Tries' = [Tries EXCEPT ![d] = r.attempts]
  <2>1. Answered(NoAttempt.pc) = "none"
    BY DEF Answered, NoAttempt
  <2> QED
    BY <1>0, <1>1, <1>5, <2>1, EndRefines, OneAttemptMoves
<1>6. DOMAIN Status = Rows /\ DOMAIN Tries = Rows /\ DOMAIN Requested = Rows
  BY DEF Status, Tries, Requested
<1> HIDE DEF d
<1>7. CASE Block(a)
  <2>1. PICK n \in {row[d].attempts, att[a].n} : EndsWith(a, Failed(n))
    BY <1>7 DEF Block, d
  <2>2. Failed(n) \in RowType /\ Failed(n).status = "failed" /\ Failed(n).attempts = n
    BY <1>1, <2>1 DEF Failed, RowType
  <2>3. Requested[d] = "none"
    BY <1>2, <1>7 DEF Block, Answered
  <2>4. Requested' = Requested
    BY <1>1, <1>5, <1>6, <2>1, <2>2, <2>3 DEF Requested
  <2>5. Status' = [Status EXCEPT ![d] = "failed"] /\ Tries' = [Tries EXCEPT ![d] = n]
    BY <1>5, <2>1, <2>2
  <2>6. Tries' \in {Tries, [Tries EXCEPT ![d] = @ + 1]}
    BY <1>1, <2>1, <2>5 DEF Tries
  <2>7. Sequential!Refuse(d)
    BY <1>1, <2>3, <2>4, <2>5, <2>6 DEF Sequential!Refuse, Status, Tries, Requested
  <2> QED
    BY <1>1, <2>7 DEF Sequential!Next
<1>8. CASE Post(a)
  <2>1. Requested[d] = "none" /\ MoveTo(a, "headers") /\ UNCHANGED row
    BY <1>2, <1>8 DEF Post, Answered
  <2>2. Requested' = [Requested EXCEPT ![d] = "waiting"] /\ UNCHANGED <<Status, Tries>>
    BY <1>4, <2>1 DEF Answered, Phases
  <2>3. Tries[d] < MAX_ATTEMPTS
    BY <1>1, WebhookConstants
  <2>4. Sequential!Send(d)
    BY <1>1, <2>1, <2>2, <2>3 DEF Sequential!Send, Sequential!SetRequest, Status, Tries, Requested
  <2> QED
    BY <1>1, <2>4 DEF Sequential!Next
<1>9. ASSUME att[a].pc = "headers", MoveTo(a, "bodyOk"), UNCHANGED row
      PROVE  Sequential!Next
  <2>1. Requested[d] = "waiting"
    BY <1>2, <1>9 DEF Answered
  <2>2. Requested' = [Requested EXCEPT ![d] = "accepted"] /\ UNCHANGED <<Status, Tries>>
    BY <1>4, <1>9 DEF Answered, Phases
  <2>3. Sequential!Accept(d)
    BY <2>1, <2>2 DEF Sequential!Accept, Sequential!SetRequest, Status, Tries, Requested
  <2> QED
    BY <1>1, <2>3 DEF Sequential!Next
<1>10. ASSUME NEW pc \in {"bodyBad", "bad"}, att[a].pc \in {"headers", "bodyOk", "ok"},
              MoveTo(a, pc), UNCHANGED row
       PROVE  Sequential!Next
  <2>1. Requested[d] \in {"waiting", "accepted"}
    BY <1>2, <1>10 DEF Answered
  <2>2. pc \in Phases /\ Answered(pc) = "rejected"
    BY DEF Answered, Phases
  <2>3. Requested' = [Requested EXCEPT ![d] = "rejected"] /\ UNCHANGED <<Status, Tries>>
    BY <1>4, <1>10, <2>2
  <2>4. Sequential!Reject(d)
    BY <2>1, <2>3 DEF Sequential!Reject, Sequential!SetRequest, Status, Tries, Requested
  <2> QED
    BY <1>1, <2>4 DEF Sequential!Next
<1>11. ASSUME NEW pc \in Phases, Answered(pc) = Answered(att[a].pc), MoveTo(a, pc), UNCHANGED row
       PROVE  UNCHANGED Sequential!vars
  <2>1. Requested' = Requested
    BY <1>1, <1>2, <1>4, <1>6, <1>11 DEF Requested
  <2> QED
    BY <1>3, <1>11, <2>1 DEF Sequential!vars, Status, Tries, Requested
<1>12. CASE Answer(a)
  BY <1>9, <1>10, <1>12 DEF Answer
<1>13. CASE TimeOut(a)
  BY <1>10, <1>13 DEF TimeOut
<1>14. CASE ReadBody(a)
  <2>1. UNCHANGED row
    BY <1>14 DEF ReadBody
  <2>2. CASE att[a].pc = "bodyOk" /\ MoveTo(a, "ok")
    BY <1>11, <2>1, <2>2 DEF Answered, Phases
  <2>3. CASE att[a].pc = "bodyOk" /\ MoveTo(a, "bad")
    BY <1>10, <2>1, <2>3
  <2>4. CASE att[a].pc = "bodyBad" /\ MoveTo(a, "bad")
    BY <1>11, <2>1, <2>4 DEF Answered, Phases
  <2> QED
    BY <1>14, <2>2, <2>3, <2>4 DEF ReadBody
<1>15. CASE WriteSuccess(a)
  <2>1. Requested[d] = "accepted"
    BY <1>2, <1>15 DEF WriteSuccess, Answered
  <2>2. Succeeded(att[a].n) \in RowType /\ EndsWith(a, Succeeded(att[a].n))
    BY <1>1, <1>15 DEF WriteSuccess, Succeeded, RowType
  <2>3. /\ Requested' = [Requested EXCEPT ![d] = "none"]
        /\ Status' = [Status EXCEPT ![d] = "success"]
        /\ Tries' = [Tries EXCEPT ![d] = @ + 1]
    BY <1>1, <1>5, <2>2 DEF Succeeded
  <2>4. Sequential!Succeed(d)
    BY <1>1, <2>1, <2>3
       DEF Sequential!Succeed, Sequential!End, Sequential!SetRequest, Status, Tries, Requested
  <2> QED
    BY <1>1, <2>4 DEF Sequential!Next
<1>16. CASE WriteFailure(a)
  <2> DEFINE r == FailedAttempt(att[a].n)
             outcome == IF Tries[d] + 1 < MAX_ATTEMPTS THEN "pending" ELSE "failed"
  <2>1. Requested[d] = "rejected"
    BY <1>2, <1>16 DEF WriteFailure, Answered
  <2>2. r \in RowType /\ r.status = outcome /\ r.attempts = Tries[d] + 1
    BY <1>1 DEF FailedAttempt, Failed, RowType
  <2>3. EndsWith(a, r)
    BY <1>16 DEF WriteFailure
  <2> HIDE DEF r
  <2>4. /\ Requested' = [Requested EXCEPT ![d] = "none"]
        /\ Status' = [Status EXCEPT ![d] = outcome]
        /\ Tries' = [Tries EXCEPT ![d] = @ + 1]
    BY <1>5, <2>2, <2>3
  <2>5. Sequential!Fail(d)
    BY <1>1, <2>1, <2>4
       DEF Sequential!Fail, Sequential!End, Sequential!SetRequest, Status, Tries, Requested
  <2> QED
    BY <1>1, <2>5 DEF Sequential!Next
<1>17. CASE DbError(a) \/ SecretFails(a)
  <2>1. CASE att[a].pc = "ok" /\ MoveTo(a, "bad") /\ UNCHANGED row
    BY <1>10, <2>1
  <2>2. CASE att' = [att EXCEPT ![a] = NoAttempt] /\ UNCHANGED row
    <3>1. att'[a] = NoAttempt /\ \A b \in Acts : b # a => att'[b] = att[b]
      BY <2>2 DEF SInv, IInv, TypeOK
    <3>2. Requested' = [Requested EXCEPT ![d] = "none"]
      BY <1>0, <1>1, <3>1, OneAttemptMoves DEF Answered, NoAttempt, d
    <3>3. Requested' = [e \in Rows |-> IF e \in {d} THEN "none" ELSE Requested[e]]
      BY <1>6, <3>2
    <3>4. Sequential!Lose({d})
      BY <1>3, <2>2, <3>3 DEF Sequential!Lose, Status, Tries, Requested
    <3> QED
      BY <1>1, <3>4 DEF Sequential!Next
  <2> QED
    BY <1>17, <2>1, <2>2 DEF DbError, SecretFails, UpdateThrows
<1> QED
  BY <1>7, <1>8, <1>12, <1>13, <1>14, <1>15, <1>16, <1>17 DEF AttemptStep

LEMMA PodRefines ==
  ASSUME SInv, SInv', NEW p \in Pods, PodStep(p)
  PROVE  [Sequential!Next]_Sequential!vars
<1>t. /\ row \in [Rows -> RowType] /\ overlaps \in [Rows -> Nat]
      /\ att \in [Acts -> [pc : Phases, n : Nat \ {0}] \cup {NoAttempt}]
  BY DEF SInv, IInv, TypeOK
<1>1. ASSUME UNCHANGED <<row, att, overlaps>> PROVE UNCHANGED Sequential!vars
  <2>1. \A e \in Rows : Request(e)' = Request(e)
    BY <1>1, KeptRequest
  <2>2. UNCHANGED <<Status, Tries, Requested>>
    BY <1>1, <2>1 DEF Status, Tries, Requested
  <2> QED
    BY <2>2 DEF Sequential!vars, Status, Tries, Requested
<1>2. CASE Publish(p)
  BY <1>1, <1>2 DEF Publish, counts
<1>3. ASSUME NEW d \in Rows, Create(p, d) PROVE Sequential!Next
  <2>1. row[d] = NoRow /\ ~(overlaps[d] > 0) /\ ~Attempted(d)
    BY <1>3, RowFacts DEF Create, Planned, Blank
  <2>2. /\ \A e \in Rows : row'[e] = IF e = d THEN [status |-> "pending", attempts |-> 0, next |-> "null"]
                                     ELSE row[e]
        /\ UNCHANGED overlaps
    BY <1>t, <1>3 DEF Create
  <2>3. \A b \in Acts : att'[b] = att[b] \/ (RowOf(b) = d /\ att'[b].pc = "begin")
    BY <1>t, <1>3 DEF Create, RowOf
  <2>4. Request(d) = "none" /\ Request(d)' = "none"
    <3>1. RequestIsTheAttempts
      BY RequestsKnown
    <3>2. \A b \in Acts : RowOf(b) = d => att'[b] = NoAttempt \/ att'[b].pc = "begin"
      BY <2>1, <2>3 DEF Attempted, Running
    <3>3. overlaps[d] = 0
      BY <1>t, <2>1
    <3> QED
      BY <2>1, <3>1, <3>2, <3>3, NoRequest DEF RequestIsTheAttempts
  <2>5. \A e \in Rows : Request(e)' = Request(e)
    <3>1. \A e \in Rows : e # d => Request(e)' = Request(e)
      BY <2>3, KeptRequest
    <3> QED
      BY <2>4, <3>1
  <2>6. /\ Status[d] = "none" /\ UNCHANGED <<Tries, Requested>>
        /\ Status' = [Status EXCEPT ![d] = "pending"]
    <3>1. /\ row[d].status = "none" /\ row[d].attempts = 0
          /\ row'[d].status = "pending" /\ row'[d].attempts = 0
          /\ \A e \in Rows : e # d => row'[e] = row[e]
      BY <2>1, <2>2 DEF NoRow
    <3>2. UNCHANGED Tries
      BY <2>2, <3>1 DEF Tries
    <3>3. UNCHANGED Requested
      BY <2>2, <2>5 DEF Requested
    <3> QED
      BY <2>1, <2>2, <3>1, <3>2, <3>3 DEF Status
  <2>7. Sequential!Make(d)
    BY <2>6 DEF Sequential!Make, Status, Tries, Requested
  <2> QED
    BY <2>7 DEF Sequential!Next
<1>4. ASSUME NEW d \in Rows, Replay(p, d) PROVE [Sequential!Next]_Sequential!vars
  <2>1. /\ row'[d].status = "pending" /\ row'[d].attempts = row[d].attempts /\ row[d].status # "none"
        /\ \A e \in Rows : e # d => row'[e] = row[e]
        /\ UNCHANGED <<att, overlaps>>
    BY <1>t, <1>4 DEF Replay, RowType, counts
  <2>2. CASE overlaps[d] > 0
    BY <2>1, <2>2, OverlappedStutters
  <2>3. CASE ~(overlaps[d] > 0)
    <3>1. \A e \in Rows : Request(e)' = Request(e)
      BY <2>1, KeptRequest
    <3>2. row[d].status \notin {"none", "overlapped"}
      BY <1>t, <2>1 DEF RowType
    <3>3. /\ Status[d] \notin {"none", "overlapped"} /\ UNCHANGED <<Tries, Requested>>
          /\ Status' = [Status EXCEPT ![d] = "pending"]
      BY <2>1, <2>3, <3>1, <3>2 DEF Status, Tries, Requested
    <3>4. Sequential!Reset(d)
      BY <3>3 DEF Sequential!Reset, Status, Tries, Requested
    <3> QED
      BY <3>4 DEF Sequential!Next
  <2> QED
    BY <2>2, <2>3
<1>5. CASE Tick(p)
  <2>1. PICK S \in Batches : Retry(p, S)
    BY <1>5 DEF Tick
  <2> DEFINE D == {d \in S : Attempted(d) /\ ~(overlaps[d] > 0)}
  <2>2. D \in SUBSET Rows /\ \A d \in S : d \in Rows /\ row[d].status = "pending"
    BY <2>1 DEF Batches, Due
  <2>3. UNCHANGED row
    BY <2>1 DEF Retry
  <2>4. \A e \in Rows : overlaps'[e] > 0 <=> overlaps[e] > 0 \/ (e \in S /\ Attempted(e))
    <3>1. \A e \in Rows : overlaps'[e] = overlaps[e] + IF e \in {d \in S : Attempted(d)} THEN 1 ELSE 0
      BY <1>t, <2>1, CountedType DEF Retry
    <3> QED
      BY <1>t, <3>1
  <2>5. \A b \in Acts : att'[b] = att[b] \/ (att'[b].pc = "begin" /\ RowOf(b) \in S)
    BY <2>1 DEF Retry
  <2>6. ASSUME NEW e \in Rows, ~(overlaps'[e] > 0) PROVE Request(e)' = Request(e)
    <3>1. CASE e \in S
      <4>1. ~Attempted(e) /\ overlaps[e] = 0
        BY <1>t, <2>4, <2>6, <3>1
      <4>2. Request(e) = "none"
        BY <4>1, RequestsKnown DEF RequestIsTheAttempts
      <4>3. \A b \in Acts : RowOf(b) = e => att'[b] = NoAttempt \/ att'[b].pc = "begin"
        BY <2>5, <4>1 DEF Attempted, Running
      <4> QED
        BY <4>2, <4>3, NoRequest
    <3>2. CASE e \notin S
      BY <2>5, <3>2, KeptRequest
    <3> QED
      BY <3>1, <3>2
  <2>7. /\ \A e \in D : Status[e] = "pending"
        /\ Status' = [e \in Rows |-> IF e \in D THEN "overlapped" ELSE Status[e]]
        /\ Tries' = [e \in Rows |-> IF e \in D THEN 0 ELSE Tries[e]]
    BY <2>2, <2>3, <2>4 DEF Status, Tries
  <2>8. Requested' = [e \in Rows |-> IF e \in D THEN "none" ELSE Requested[e]]
    BY <2>2, <2>4, <2>6 DEF Requested
  <2> HIDE DEF D
  <2>x. PICK X \in SUBSET Rows : X = D
    BY <2>2
  <2>9. Sequential!Overlap(X)
    BY <2>x, <2>7, <2>8 DEF Sequential!Overlap, Status, Tries, Requested
  <2> QED
    BY <2>9 DEF Sequential!Next
<1>6. CASE Crash(p)
  <2> DEFINE D == {d \in Rows : \E b \in Acts : PodOf(b) = p /\ RowOf(b) = d /\ Running(b)}
  <2>1. \A b \in Acts : att'[b] = IF PodOf(b) = p THEN NoAttempt ELSE att[b]
    BY <1>6 DEF Crash
  <2>2. UNCHANGED <<row, overlaps>>
    BY <1>6 DEF Crash
  <2>3. ASSUME NEW e \in Rows, ~(overlaps[e] > 0)
        PROVE  Request(e)' = IF e \in D THEN "none" ELSE Request(e)
    <3>1. overlaps[e] = 0
      BY <1>t, <2>3
    <3>2. CASE e \in D
      <4>1. \A b \in Acts : RowOf(b) = e => att'[b] = NoAttempt
        BY <2>1, <3>1, <3>2, RowFacts DEF Sole, Running
      <4> QED
        BY <3>2, <4>1, NoRequest
    <3>3. CASE e \notin D
      <4>1. \A b \in Acts : RowOf(b) = e => att'[b] = att[b]
        BY <2>1, <3>3 DEF Running
      <4> QED
        BY <3>3, <4>1, KeptRequest
    <3> QED
      BY <3>2, <3>3
  <2>4. UNCHANGED <<Status, Tries>>
    BY <2>2 DEF Status, Tries
  <2>5. Requested' = [e \in Rows |-> IF e \in D THEN "none" ELSE Requested[e]]
    BY <2>2, <2>3 DEF Requested
  <2>6. D \in SUBSET Rows
    OBVIOUS
  <2> HIDE DEF D
  <2>x. PICK X \in SUBSET Rows : X = D
    BY <2>6
  <2>7. Sequential!Lose(X)
    BY <2>x, <2>4, <2>5 DEF Sequential!Lose, Status, Tries, Requested
  <2> QED
    BY <2>7 DEF Sequential!Next
<1> QED
  BY <1>2, <1>3, <1>4, <1>5, <1>6 DEF PodStep

LEMMA NextRefines ==
  ASSUME SInv, [Next]_vars
  PROVE  [Sequential!Next]_Sequential!vars
<1>1. SInv'
  BY NextSInv
<1>2. ASSUME (\E d \in Rows : BecomeDue(d)) \/ UNCHANGED vars
      PROVE  UNCHANGED Sequential!vars
  <2>1. row \in [Rows -> RowType] /\ UNCHANGED <<att, overlaps>>
    BY <1>2 DEF BecomeDue, vars, counts, SInv, IInv, TypeOK
  <2>2. \A d \in Rows : row'[d].status = row[d].status /\ row'[d].attempts = row[d].attempts
    BY <1>2, <2>1 DEF BecomeDue, vars, RowType
  <2>3. \A d \in Rows : Request(d)' = Request(d)
    BY <2>1, KeptRequest
  <2>4. UNCHANGED <<Status, Tries, Requested>>
    BY <2>1, <2>2, <2>3 DEF Status, Tries, Requested
  <2> QED
    BY <2>4 DEF Sequential!vars, Status, Tries, Requested
<1>3. ASSUME NEW a \in Acts, AttemptStep(a) PROVE [Sequential!Next]_Sequential!vars
  <2>1. overlaps[RowOf(a)] \in Nat
    BY ActParts DEF SInv, IInv, TypeOK
  <2>2. CASE overlaps[RowOf(a)] = 0
    BY <1>1, <1>3, <2>2, AttemptRefines
  <2>3. CASE overlaps[RowOf(a)] > 0
    BY <1>3, <2>3, OverlappedAttempt
  <2> QED
    BY <2>1, <2>2, <2>3
<1> QED
  BY <1>1, <1>2, <1>3, PodRefines DEF Next

LEMMA InitRefines == Init => Sequential!Init
<1> SUFFICES ASSUME Init PROVE Sequential!Init
  OBVIOUS
<1>1. \A d \in Rows : row[d].status = "none" /\ row[d].attempts = 0 /\ ~(overlaps[d] > 0)
  BY DEF Init, NoRow
<1>2. \A d \in Rows : Request(d) = "none"
  BY DEF Init, Request, At, NoAttempt
<1> QED
  BY <1>1, <1>2 DEF Sequential!Init

\* DispatcherImplementsDelivery: whatever the pods, ticks, crashes, replays and
\* failed updates, a row goes through its attempts one at a time, and what is
\* written of an attempt is what its own request was answered, until an attempt
\* of the row is begun over another (attemptDelivery, retryPendingDeliveries).
THEOREM DispatcherImplementsDelivery == Spec => ImplementsDelivery
<1>1. SInv /\ [Next]_vars => SInv'
  BY NextSInv
<1>2. SInv /\ [Next]_vars => [Sequential!Next]_Sequential!vars
  BY NextRefines
<1> QED
  BY <1>1, <1>2, InitSInv, InitRefines, PTL DEF Spec, ImplementsDelivery, Sequential!Spec
=============================================================================
