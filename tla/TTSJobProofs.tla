----------------------------- MODULE TTSJobProofs -----------------------------
(***************************************************************************)
(* Proofs about TTSJob, for any processes, streams, jobs and cancellations.*)
(* The streams keep StreamInv (JobStreamProofs) whoever emits; a job that  *)
(* was cancelled in time is failed, and stands before a check of its row   *)
(* or has stopped (Stopping).                                              *)
(***************************************************************************)
EXTENDS TTSJob, JobStreamProofs

Workers == [at : Stages, done : 0 .. Segments, owes : {"nothing"} \cup Statuses]

JobTypeOK ==
  /\ row \in [Jobs -> {"none", "pending"} \cup Statuses]
  /\ worker \in [Jobs -> Workers]
  /\ cancel \in [Cancels -> {"idle", "read", "written", "done"}]
  /\ cancelled \in [Jobs -> BOOLEAN]

\* A job that has no row has no worker, and a segment to synthesise is left.
Underway ==
  \A j \in Jobs :
    /\ row[j] = "none" => worker[j].at = "none"
    /\ worker[j].at \in {"none", "start", "segments", "synthesise"} => worker[j].done < Segments

Stopping ==
  \A j \in Jobs : cancelled[j] =>
    /\ row[j] = "failed"
    /\ worker[j].at \in {"failing", "over", "dead"} \/ CheckToCome(j)

JobInv == JobTypeOK /\ Underway /\ Stopping
Inv == StreamInv /\ JobInv

USE StreamAssumption, JobAssumption

-----------------------------------------------------------------------------
LEMMA InvAtInit == Init => Inv
<1> SUFFICES ASSUME Init PROVE Inv
  OBVIOUS
<1>1. StreamInv
  BY InvInit DEF Init
<1>2. JobTypeOK
  BY DEF Init, JobTypeOK, Workers, Stages
<1>3. Underway /\ Stopping
  BY DEF Init, Underway, Stopping
<1> QED
  BY <1>1, <1>2, <1>3 DEF Inv, JobInv

\* A step of one job changes its row and its worker only.
LEMMA JobTypeStep ==
  ASSUME JobTypeOK, NEW j \in Jobs, NEW w \in Workers, NEW s \in {"none", "pending"} \cup Statuses,
         worker' = [worker EXCEPT ![j] = w], row' = [row EXCEPT ![j] = s],
         UNCHANGED <<cancel, cancelled>>
  PROVE  /\ JobTypeOK'
         /\ worker'[j] = w /\ row'[j] = s /\ cancelled'[j] = cancelled[j]
         /\ \A i \in Jobs : i # j => /\ worker'[i] = worker[i] /\ row'[i] = row[i]
                                     /\ cancelled'[i] = cancelled[i]
  BY DEF JobTypeOK

LEMMA JobOne ==
  ASSUME JobInv, NEW j \in Jobs, NEW w \in Workers, NEW s \in {"none", "pending"} \cup Statuses,
         worker' = [worker EXCEPT ![j] = w], row' = [row EXCEPT ![j] = s],
         UNCHANGED <<cancel, cancelled>>,
         s = "none" => w.at = "none",
         w.at \in {"none", "start", "segments", "synthesise"} => w.done < Segments,
         cancelled[j] => /\ s = "failed"
                         /\ \/ w.at \in {"failing", "over", "dead", "segments"}
                            \/ w.at = "synthesise" /\ w.done + 1 < Segments
  PROVE  JobInv'
<1>1. /\ JobTypeOK'
      /\ worker'[j] = w /\ row'[j] = s /\ cancelled'[j] = cancelled[j]
      /\ \A i \in Jobs : i # j => /\ worker'[i] = worker[i] /\ row'[i] = row[i]
                                  /\ cancelled'[i] = cancelled[i]
  BY JobTypeStep DEF JobInv
<1>2. Underway'
  BY <1>1 DEF JobInv, Underway
<1>3. Stopping'
  BY <1>1 DEF JobInv, Stopping, CheckToCome
<1> QED
  BY <1>1, <1>2, <1>3 DEF JobInv

\* A move, with the segments done.
LEMMA MoveIs ==
  ASSUME JobTypeOK, NEW j \in Jobs, NEW stage \in Stages, NEW owes \in {"nothing"} \cup Statuses,
         Move(j, stage, owes)
  PROVE  \E w \in Workers : /\ w.at = stage /\ w.owes = owes /\ w.done = worker[j].done
                            /\ worker' = [worker EXCEPT ![j] = w]
<1> DEFINE w == [worker[j] EXCEPT !.at = stage, !.owes = owes]
<1>1. worker[j] \in Workers
  BY DEF JobTypeOK
<1>2. w \in Workers /\ w.at = stage /\ w.owes = owes /\ w.done = worker[j].done
  BY <1>1 DEF Workers
<1>3. worker' = [worker EXCEPT ![j] = w]
  BY <1>1 DEF Move, JobTypeOK, Workers
<1> QED
  BY <1>2, <1>3

LEMMA JobMove ==
  ASSUME JobInv, NEW j \in Jobs, NEW stage \in Stages, NEW owes \in {"nothing"} \cup Statuses,
         NEW s \in {"none", "pending"} \cup Statuses,
         Move(j, stage, owes), row' = [row EXCEPT ![j] = s], UNCHANGED <<cancel, cancelled>>,
         s = "none" => stage = "none",
         stage \in {"none", "start", "segments", "synthesise"} => worker[j].done < Segments,
         cancelled[j] => /\ s = "failed"
                         /\ \/ stage \in {"failing", "over", "dead", "segments"}
                            \/ stage = "synthesise" /\ worker[j].done + 1 < Segments
  PROVE  JobInv'
<1>1. JobTypeOK
  BY DEF JobInv
<1>2. PICK w \in Workers : /\ w.at = stage /\ w.owes = owes /\ w.done = worker[j].done
                           /\ worker' = [worker EXCEPT ![j] = w]
  BY <1>1, MoveIs
<1> QED
  BY <1>2, JobOne

LEMMA JobInvStep ==
  ASSUME JobInv, NEW j \in Jobs, JobStep(j)
  PROVE  JobInv'
<1> USE DEF At, SetRow, Quietly
<1>1. /\ row[j] \in {"none", "pending"} \cup Statuses
      /\ worker[j] \in Workers
      /\ row = [row EXCEPT ![j] = row[j]]
      /\ JobTypeOK
  BY DEF JobInv, JobTypeOK
<1>2. /\ row[j] = "none" => worker[j].at = "none"
      /\ worker[j].at \in {"none", "start", "segments", "synthesise"} => worker[j].done < Segments
      /\ cancelled[j] => /\ row[j] = "failed"
                         /\ \/ worker[j].at \in {"failing", "over", "dead", "segments"}
                            \/ worker[j].at = "synthesise" /\ worker[j].done + 1 < Segments
  BY DEF JobInv, Underway, Stopping, CheckToCome
<1>3. CASE Create(j)
  BY <1>2, <1>3, JobMove DEF Create, Stages, Statuses
<1>4. CASE Start(j)
  BY <1>2, <1>4, JobMove DEF Start, Stages, Statuses
<1>5. CASE Check(j)
  <2>1. CASE row[j] = "failed"
    <3>1. Move(j, "over", "nothing") /\ row' = [row EXCEPT ![j] = row[j]]
      BY <1>1, <1>5, <2>1 DEF Check
    <3> QED
      BY <1>1, <1>2, <1>5, <2>1, <3>1, JobMove DEF Check, Stages, Statuses
  <2>2. CASE row[j] # "failed"
    <3>1. Move(j, "synthesise", "nothing") /\ row' = [row EXCEPT ![j] = row[j]]
      BY <1>1, <1>5, <2>2 DEF Check
    <3> QED
      BY <1>1, <1>2, <1>5, <2>2, <3>1, JobMove DEF Check, Stages, Statuses
  <2> QED
    BY <2>1, <2>2
<1>6. CASE Synthesise(j)
  <2> DEFINE n == worker[j].done + 1
             w == [at |-> IF n = Segments THEN "merge" ELSE "segments", done |-> n, owes |-> "processing"]
  <2>1. worker[j].done \in Nat /\ worker[j].done < Segments /\ Segments \in Nat
    BY <1>1, <1>2, <1>6 DEF Synthesise, Workers
  <2>2. w \in Workers /\ w.at = (IF n = Segments THEN "merge" ELSE "segments") /\ w.done = n
    BY <2>1 DEF Workers, Stages, Statuses
  <2>3. worker' = [worker EXCEPT ![j] = w] /\ row' = [row EXCEPT ![j] = row[j]]
    BY <1>1, <1>6 DEF Synthesise
  <2>4. row[j] # "none"
    BY <1>2, <1>6 DEF Synthesise
  <2>5. w.at \in {"none", "start", "segments", "synthesise"} => w.done < Segments
    BY <2>1, <2>2
  <2>6. cancelled[j] => row[j] = "failed" /\ w.at = "segments"
    BY <1>2, <1>6, <2>1, <2>2 DEF Synthesise
  <2>7. UNCHANGED <<cancel, cancelled>>
    BY <1>6 DEF Synthesise
  <2> HIDE DEF w
  <2>8. /\ row[j] = "none" => w.at = "none"
        /\ cancelled[j] => /\ row[j] = "failed"
                           /\ \/ w.at \in {"failing", "over", "dead", "segments"}
                              \/ w.at = "synthesise" /\ w.done + 1 < Segments
    BY <2>4, <2>6
  <2>9. w \in Workers
    BY <2>2
  <2> QED
    BY <1>1, <2>3, <2>5, <2>7, <2>8, <2>9, JobOne
<1>7. CASE Merge(j)
  <2>1. row' = [row EXCEPT ![j] = row[j]]
    BY <1>1, <1>7 DEF Merge
  <2> QED
    BY <1>1, <1>2, <1>7, <2>1, JobMove DEF Merge, Stages, Statuses
<1>8. CASE Finish(j)
  BY <1>2, <1>8, JobMove DEF Finish, Stages, Statuses
<1>9. CASE Announce(j)
  <2>1. /\ row' = [row EXCEPT ![j] = row[j]] /\ worker[j].at \in Stages
        /\ Move(j, worker[j].at, "nothing") /\ UNCHANGED <<cancel, cancelled>>
    BY <1>1, <1>9 DEF Announce, Workers
  <2> QED
    BY <1>1, <1>2, <2>1, JobMove
<1>10. CASE Throw(j)
  <2>1. /\ row' = [row EXCEPT ![j] = row[j]] /\ Move(j, "failing", "nothing")
        /\ UNCHANGED <<cancel, cancelled>> /\ worker[j].at # "none"
    BY <1>1, <1>10 DEF Throw, Active
  <2> QED
    BY <1>1, <1>2, <2>1, JobMove DEF Stages
<1>11. CASE Recover(j)
  BY <1>2, <1>11, JobMove DEF Recover, Stages, Statuses
<1>12. CASE RecoverFails(j)
  <2>1. /\ row' = [row EXCEPT ![j] = row[j]] /\ UNCHANGED <<cancel, cancelled>>
        /\ worker[j].at # "none"
        /\ Move(j, IF worker[j].at = "failing" THEN "dead" ELSE "over", "nothing")
    BY <1>1, <1>12 DEF RecoverFails
  <2>2. CASE worker[j].at = "failing"
    BY <1>1, <1>2, <2>1, <2>2, JobMove DEF Stages
  <2>3. CASE worker[j].at # "failing"
    BY <1>1, <1>2, <2>1, <2>3, JobMove DEF Stages
  <2> QED
    BY <2>2, <2>3
<1> QED
  BY <1>3, <1>4, <1>5, <1>6, <1>7, <1>8, <1>9, <1>10, <1>11, <1>12 DEF JobStep

LEMMA JobInvCancel ==
  ASSUME JobInv, NEW k \in Cancels, CancelStep(k)
  PROVE  JobInv'
<1>1. CASE Ask(k) \/ CancelAnnounced(k) \/ CancelFails(k)
  <2>1. UNCHANGED <<row, worker, cancelled>>
    BY <1>1 DEF Ask, CancelAnnounced, CancelFails
  <2>2. cancel' \in [Cancels -> {"idle", "read", "written", "done"}]
    BY <1>1 DEF Ask, CancelAnnounced, CancelFails, JobInv, JobTypeOK
  <2> QED
    BY <2>1, <2>2 DEF JobInv, JobTypeOK, Underway, Stopping, CheckToCome
<1>2. CASE CancelRow(k)
  <2> DEFINE j == Target[k]
  <2>1. /\ j \in Jobs /\ worker' = worker
        /\ row' = [row EXCEPT ![j] = "failed"]
        /\ cancelled' = [cancelled EXCEPT ![j] = cancelled[j] \/ CheckToCome(j)]
        /\ cancel' = [cancel EXCEPT ![k] = "written"]
    BY <1>2 DEF CancelRow, SetRow
  <2>2. JobTypeOK'
    BY <2>1 DEF JobInv, JobTypeOK, Statuses
  <2>3. /\ row'[j] = "failed" /\ (cancelled'[j] => cancelled[j] \/ CheckToCome(j))
        /\ \A i \in Jobs : i # j => row'[i] = row[i] /\ cancelled'[i] = cancelled[i]
    BY <2>1 DEF JobInv, JobTypeOK
  <2> HIDE DEF j
  <2>4. Underway'
    BY <2>1, <2>3 DEF JobInv, Underway
  <2>5. Stopping'
    BY <2>1, <2>3 DEF JobInv, Stopping, CheckToCome
  <2> QED
    BY <2>2, <2>4, <2>5 DEF JobInv
<1> QED
  BY <1>1, <1>2 DEF CancelStep

LEMMA JobInvCrash ==
  ASSUME JobInv, NEW p \in Processes, Crash(p)
  PROVE  JobInv'
<1>1. /\ worker' = [j \in Jobs |-> IF Site[j] = p /\ worker[j].at # "none"
                                   THEN [worker[j] EXCEPT !.at = "dead", !.owes = "nothing"] ELSE worker[j]]
      /\ cancel' = [k \in Cancels |-> IF Site[k] = p /\ cancel[k] # "idle" THEN "done" ELSE cancel[k]]
      /\ UNCHANGED <<row, cancelled>>
  BY DEF Crash
<1>2. ASSUME NEW j \in Jobs
      PROVE  /\ worker'[j] \in Workers
             /\ worker'[j] = worker[j] \/ (worker'[j].at = "dead" /\ worker[j].at # "none")
  <2>1. worker[j] \in Workers
    BY DEF JobInv, JobTypeOK
  <2> QED
    BY ZenonT(30), <1>1, <2>1 DEF Workers, Stages
<1>3. JobTypeOK'
  BY ZenonT(30), <1>1, <1>2 DEF JobInv, JobTypeOK
<1>4. Underway'
  BY ZenonT(30), <1>1, <1>2 DEF JobInv, Underway
<1>5. Stopping'
  BY ZenonT(30), <1>1, <1>2 DEF JobInv, Stopping, CheckToCome
<1> QED
  BY <1>3, <1>4, <1>5 DEF JobInv

-----------------------------------------------------------------------------
LEMMA InvNext ==
  ASSUME Inv, [Next]_vars PROVE Inv'
<1>1. CASE StreamStep /\ UNCHANGED jobVars
  <2>1. StreamInv'
    BY <1>1, InvStep DEF Inv
  <2>2. JobInv'
    BY <1>1 DEF Inv, jobVars, JobInv, JobTypeOK, Underway, Stopping, CheckToCome
  <2> QED
    BY <2>1, <2>2 DEF Inv
<1>2. ASSUME NEW j \in Jobs, JobStep(j) PROVE Inv'
  <2>1. JobInv'
    BY <1>2, JobInvStep DEF Inv
  <2>2. StreamInv'
    <3>1. CASE Announce(j)
      <4>1. /\ Emit(Site[j]) /\ Site[j] \in Processes
            /\ UNCHANGED <<highest, buffer, channel, streamVars, faults>>
        BY <3>1 DEF Announce, Healthy
      <4> QED
        BY <4>1, InvEmit DEF Inv
    <3>2. CASE ~ Announce(j)
      <4>1. UNCHANGED <<busVars, streamVars>>
        BY <1>2, <3>2 DEF JobStep, Create, Start, Check, Synthesise, Merge, Finish, Throw, Recover,
                          RecoverFails, Quietly
      <4>2. faults \in Nat
        BY DEF Inv, StreamInv, StreamTypeOK
      <4>3. faults' \in Nat
        BY <1>2, <3>2, <4>2 DEF JobStep, Create, Start, Check, Synthesise, Merge, Finish, Throw,
                                Recover, RecoverFails, Healthy, Fault
      <4> QED
        BY <4>1, <4>3, InvQuiet DEF Inv
    <3> QED
      BY <3>1, <3>2
  <2> QED
    BY <2>1, <2>2 DEF Inv
<1>3. ASSUME NEW k \in Cancels, CancelStep(k) PROVE Inv'
  <2>1. JobInv'
    BY <1>3, JobInvCancel DEF Inv
  <2>2. StreamInv'
    <3>1. CASE CancelAnnounced(k)
      <4>1. /\ Emit(Site[k]) /\ Site[k] \in Processes
            /\ UNCHANGED <<highest, buffer, channel, streamVars, faults>>
        BY <3>1 DEF CancelAnnounced, Healthy
      <4> QED
        BY <4>1, InvEmit DEF Inv
    <3>2. CASE Ask(k) \/ CancelRow(k) \/ CancelFails(k)
      <4>1. UNCHANGED <<busVars, streamVars>>
        BY <3>2 DEF Ask, CancelRow, CancelFails
      <4>2. faults \in Nat
        BY DEF Inv, StreamInv, StreamTypeOK
      <4>3. faults' \in Nat
        BY <3>2, <4>2 DEF Ask, CancelRow, CancelFails, Healthy, Fault
      <4> QED
        BY <4>1, <4>3, InvQuiet DEF Inv
    <3> QED
      BY <1>3, <3>1, <3>2 DEF CancelStep
  <2> QED
    BY <2>1, <2>2 DEF Inv
<1>4. ASSUME NEW p \in Processes, Crash(p) PROVE Inv'
  <2>1. StreamsCrash(p)
    BY <1>4 DEF Crash
  <2> QED
    BY <1>4, <2>1, InvCrash, JobInvCrash DEF Inv
<1>5. CASE UNCHANGED vars
  <2>1. UNCHANGED <<busVars, streamVars, faults, jobVars>>
    BY <1>5 DEF vars
  <2>2. StreamInv'
    BY <2>1, InvQuiet DEF Inv, StreamInv, StreamTypeOK
  <2>3. JobInv'
    BY <2>1 DEF Inv, jobVars, JobInv, JobTypeOK, Underway, Stopping, CheckToCome
  <2> QED
    BY <2>2, <2>3 DEF Inv
<1> QED
  BY <1>1, <1>2, <1>3, <1>4, <1>5 DEF Next

LEMMA InvAlways == Spec => []Inv
<1>1. Init => Inv
  BY InvAtInit
<1>2. Inv /\ [Next]_vars => Inv'
  BY InvNext
<1> QED
  BY <1>1, <1>2, PTL DEF Spec

\* The variables of the bus, the streams, the jobs and the cancellations keep
\* their types; in particular the count of a user's streams never falls below zero.
THEOREM TypeCorrect == Spec => []TypeOK
<1>1. Inv => TypeOK
  BY DEF Inv, StreamInv, JobInv, JobTypeOK, TypeOK, Workers
<1> QED
  BY <1>1, InvAlways, PTL

\* No browser receives an event again or an older one, over any number of
\* connections, replays, crashes and lost messages (routes/realtime.ts:118-122).
THEOREM NoEventTwice == Spec => []NoRepeat
<1>1. Inv => NoRepeat
  BY DEF Inv, StreamInv, Written, NoRepeat
<1> QED
  BY <1>1, InvAlways, PTL

\* No pod serves more streams of a user than it may, and its count is the number
\* it serves, leaked ones included (routes/realtime.ts:77-86, 133-142).
THEOREM CapHolds == Spec => []CapKept
<1>1. Inv => CapKept
  BY DEF Inv, StreamInv
<1> QED
  BY <1>1, InvAlways, PTL

\* A job cancelled while a check of its row is to come is never completed, for any
\* number of segments (TTSService.ts:75-77, 98-102).
THEOREM CancelSticks == Spec => []CancelHonoured
<1>1. Inv => CancelHonoured
  BY DEF Inv, JobInv, Stopping, CancelHonoured
<1> QED
  BY <1>1, InvAlways, PTL

\* An ordered event on its way to the browser stays on its way, arrives, or is lost
\* to Redis, to the subscription or with the connection: the handler skips none
\* (routes/realtime.ts:110-155).
THEOREM HandlerSkipsNone == Spec => NothingSkipped
<1> DEFINE Kept == \A e \in Known \cup wire : e.ordered /\ OnItsWay(e) => KeptOrLost(e)
<1>1. Inv /\ [Next]_vars => [Kept]_vars
  <2> SUFFICES ASSUME Inv, Next, NEW e \in Known \cup wire, e.ordered, OnItsWay(e)
               PROVE  KeptOrLost(e)
    OBVIOUS
  <2>1. e \in Events /\ StreamInv
    BY KnownType DEF Inv, StreamInv, StreamTypeOK
  <2>2. ASSUME UNCHANGED <<buffer, channel, streamVars>> PROVE KeptOrLost(e)
    <3>1. UNCHANGED <<Listening, lastId, conn, channel>>
      BY <2>2 DEF streamVars, Listening
    <3> QED
      BY <2>1, <3>1, KeptSame
  <2>3. CASE StreamStep
    BY <2>1, <2>3, KeptStep
  <2>4. ASSUME NEW j \in Jobs, JobStep(j) PROVE KeptOrLost(e)
    <3>1. UNCHANGED <<buffer, channel, streamVars>>
      BY <2>4 DEF JobStep, Create, Start, Check, Synthesise, Merge, Finish, Announce, Throw, Recover,
                  RecoverFails, Quietly, busVars
    <3> QED
      BY <2>2, <3>1
  <2>5. ASSUME NEW k \in Cancels, CancelStep(k) PROVE KeptOrLost(e)
    <3>1. UNCHANGED <<buffer, channel, streamVars>>
      BY <2>5 DEF CancelStep, Ask, CancelRow, CancelAnnounced, CancelFails, busVars
    <3> QED
      BY <2>2, <3>1
  <2>6. ASSUME NEW p \in Processes, Crash(p) PROVE KeptOrLost(e)
    <3>1. StreamsCrash(p)
      BY <2>6 DEF Crash
    <3> QED
      BY <2>1, <3>1, KeptCrash
  <2> QED
    BY <2>3, <2>4, <2>5, <2>6 DEF Next
<1>2. Spec => [][Kept]_vars
  BY <1>1, InvAlways, PTL DEF Spec
<1> QED
  BY <1>2 DEF NothingSkipped
=============================================================================
