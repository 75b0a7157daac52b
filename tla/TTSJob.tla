-------------------------------- MODULE TTSJob --------------------------------
(***************************************************************************)
(* Text-to-speech jobs and their cancellation,                             *)
(* backend/src/services/TTSService.ts, over the event bus: a job runs      *)
(* fire-and-forget in the process that created it, and the status in its   *)
(* row is written by the job and by cancellations in any process.  Each    *)
(* change of a row is announced by a later step.                           *)
(***************************************************************************)
EXTENDS JobStream

CONSTANTS
  Jobs,      \* the user's jobs
  Cancels,   \* calls of cancelJob
  Target,    \* Target[k]: the job that cancellation k is for
  Segments   \* segments of a job's text

ASSUME JobAssumption ==
  /\ Segments \in Nat \ {0}
  /\ \A k \in Cancels : Target[k] \in Jobs /\ Site[k] \in Processes
  /\ \A j \in Jobs : Site[j] \in Processes

VARIABLES
  row,       \* row[j]: the status in the row of job j
  worker,    \* worker[j]: how far processJob is, and the status it has yet to announce
  cancel,    \* cancel[k]: how far cancellation k is
  cancelled  \* ghost: a cancellation of j was written while a check of it was still to come

jobVars == <<row, worker, cancel, cancelled>>
vars == <<busVars, streamVars, faults, jobVars>>

Statuses == {"processing", "completed", "failed"}
Stages == {"none", "start", "segments", "synthesise", "merge", "finish", "failing", "over", "dead"}
Active == {"start", "segments", "synthesise", "merge", "finish"}

\* The types of the variables.
TypeOK ==
  /\ StreamTypeOK
  /\ row \in [Jobs -> {"none", "pending"} \cup Statuses]
  /\ worker \in [Jobs -> [at : Stages, done : 0 .. Segments, owes : {"nothing"} \cup Statuses]]
  /\ cancel \in [Cancels -> {"idle", "read", "written", "done"}]
  /\ cancelled \in [Jobs -> BOOLEAN]

Init ==
  /\ StreamInit
  /\ row = [j \in Jobs |-> "none"]
  /\ worker = [j \in Jobs |-> [at |-> "none", done |-> 0, owes |-> "nothing"]]
  /\ cancel = [k \in Cancels |-> "idle"]
  /\ cancelled = [j \in Jobs |-> FALSE]

-----------------------------------------------------------------------------
At(j, stage) == worker[j].at = stage /\ worker[j].owes = "nothing"
\* The worker of j goes to a stage, owing an announcement.
Move(j, stage, owes) == worker' = [worker EXCEPT ![j].at = stage, ![j].owes = owes]
SetRow(j, status) == row' = [row EXCEPT ![j] = status]
Quietly == UNCHANGED <<busVars, streamVars, cancel, cancelled>>

Create(j) ==
  /\ row[j] = "none"
  /\ SetRow(j, "pending") /\ Move(j, "start", "nothing")
  /\ Quietly /\ Healthy

Start(j) ==
  /\ At(j, "start")
  /\ SetRow(j, "processing") /\ Move(j, "segments", "processing")
  /\ Quietly /\ Healthy

\* Mutant: a cancelled job goes on.
CheckNothing(j) ==
  /\ At(j, "segments")
  /\ Move(j, "synthesise", "nothing")
  /\ UNCHANGED row /\ Quietly /\ Healthy

\* Before each segment: is the job still wanted?
Check(j) ==
  /\ At(j, "segments")
  /\ Move(j, IF row[j] = "failed" THEN "over" ELSE "synthesise", "nothing")
  /\ UNCHANGED row /\ Quietly /\ Healthy

Synthesise(j) ==
  LET n == worker[j].done + 1 IN
  /\ At(j, "synthesise")
  /\ worker' = [worker EXCEPT ![j] = [at |-> IF n = Segments THEN "merge" ELSE "segments",
                                      done |-> n, owes |-> "processing"]]
  /\ UNCHANGED row /\ Quietly /\ Healthy

Merge(j) ==
  /\ At(j, "merge")
  /\ Move(j, "finish", "processing")
  /\ UNCHANGED row /\ Quietly /\ Healthy

Finish(j) ==
  /\ At(j, "finish")
  /\ SetRow(j, "completed") /\ Move(j, "over", "completed")
  /\ Quietly /\ Healthy

\* The row is read again for its user, and the event emitted.
Announce(j) ==
  /\ worker[j].owes # "nothing" /\ worker[j].at \notin {"dead", "failing"}
  /\ Emit(Site[j])
  /\ Move(j, worker[j].at, "nothing")
  /\ UNCHANGED <<highest, buffer, channel, streamVars, row, cancel, cancelled>> /\ Healthy

\* A call fails, an announcement of the end included.
Throw(j) ==
  /\ worker[j].at \in Active \/ (worker[j].at = "over" /\ worker[j].owes = "completed")
  /\ Move(j, "failing", "nothing")
  /\ UNCHANGED row /\ Quietly /\ Fault

\* Mutant: an error is only logged.
RecoverNothing(j) ==
  /\ At(j, "failing")
  /\ Move(j, "over", "nothing")
  /\ UNCHANGED row /\ Quietly /\ Healthy

\* The handler of the fire-and-forget call stores the failure ...
Recover(j) ==
  /\ At(j, "failing")
  /\ SetRow(j, "failed") /\ Move(j, "over", "failed")
  /\ Quietly /\ Healthy

\* ... or fails to.
RecoverFails(j) ==
  /\ At(j, "failing") \/ (worker[j].at = "over" /\ worker[j].owes = "failed")
  /\ Move(j, IF worker[j].at = "failing" THEN "dead" ELSE "over", "nothing")
  /\ UNCHANGED row /\ Quietly /\ Healthy

-----------------------------------------------------------------------------
Ask(k) ==
  /\ cancel[k] = "idle" /\ row[Target[k]] \in {"pending", "processing"}
  /\ cancel' = [cancel EXCEPT ![k] = "read"]
  /\ UNCHANGED <<busVars, streamVars, row, worker, cancelled>> /\ Healthy

\* A check of the row of j is still to come.
CheckToCome(j) ==
  \/ worker[j].at = "segments"
  \/ worker[j].at = "synthesise" /\ worker[j].done + 1 < Segments

CancelRow(k) ==
  LET j == Target[k] IN
  /\ cancel[k] = "read"
  /\ cancel' = [cancel EXCEPT ![k] = "written"]
  /\ SetRow(j, "failed")
  /\ cancelled' = [cancelled EXCEPT ![j] = @ \/ CheckToCome(j)]
  /\ UNCHANGED <<busVars, streamVars, worker>> /\ Healthy

CancelAnnounced(k) ==
  /\ cancel[k] = "written"
  /\ cancel' = [cancel EXCEPT ![k] = "done"]
  /\ Emit(Site[k])
  /\ UNCHANGED <<highest, buffer, channel, streamVars, row, worker, cancelled>> /\ Healthy

CancelFails(k) ==
  /\ cancel[k] \in {"read", "written"}
  /\ cancel' = [cancel EXCEPT ![k] = "done"]
  /\ Fault
  /\ UNCHANGED <<busVars, streamVars, row, worker, cancelled>>

\* Process p is killed and started again; nothing resumes its jobs.
Crash(p) ==
  /\ StreamsCrash(p)
  /\ worker' = [j \in Jobs |-> IF Site[j] = p /\ worker[j].at # "none"
                               THEN [worker[j] EXCEPT !.at = "dead", !.owes = "nothing"] ELSE worker[j]]
  /\ cancel' = [k \in Cancels |-> IF Site[k] = p /\ cancel[k] # "idle" THEN "done" ELSE cancel[k]]
  /\ UNCHANGED <<row, cancelled>>

JobStep(j) ==
  \/ Create(j) \/ Start(j) \/ Check(j) \/ Synthesise(j) \/ Merge(j) \/ Finish(j)
  \/ Announce(j) \/ Throw(j) \/ Recover(j) \/ RecoverFails(j)

CancelStep(k) == Ask(k) \/ CancelRow(k) \/ CancelAnnounced(k) \/ CancelFails(k)

Next ==
  \/ StreamStep /\ UNCHANGED jobVars
  \/ \E j \in Jobs : JobStep(j)
  \/ \E k \in Cancels : CancelStep(k)
  \/ \E p \in Processes : Crash(p)

\* A job that was created runs on its own until it ends, fails or dies.
Fairness == \A j \in Jobs : WF_vars(JobStep(j) /\ row[j] # "none")

Spec == Init /\ [][Next]_vars /\ Fairness

-----------------------------------------------------------------------------
\* A job cancelled while a check of its row is still to come is never completed
\* (TTSService.ts:75-77, 98-102); one cancelled before it starts, or after its
\* last check, can be.
CancelHonoured == \A j \in Jobs : cancelled[j] => row[j] # "completed"

\* A job settles, unless its process dies or its failure cannot be stored
\* (TTSService.ts:42-50).
JobSettles ==
  \A j \in Jobs :
    row[j] = "pending" ~> row[j] \in {"completed", "failed"} \/ worker[j].at = "dead"

\* An event that is on its way to the browser reaches it, over dispatching, replays
\* and reconnections, or is lost for a reason that is none of the handler's making
\* (routes/realtime.ts:110-155).  Only ordered events count: one that two processes
\* append in the other order of their numbers, or that follows an expired counter,
\* may be passed over.
NothingSkipped ==
  [][\A e \in Known \cup wire : e.ordered /\ OnItsWay(e) => KeptOrLost(e)]_vars
=============================================================================
