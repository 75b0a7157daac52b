------------------------------- MODULE Payout -------------------------------
(***************************************************************************)
(* The payout pipeline of backend/src/jobs/payoutJob.ts: executePayout,    *)
(* its single (processPayoutJob) and batch (processBatchPayoutJob) job     *)
(* processors, the lock they take through LockService.withLock, and the    *)
(* BullMQ queue that starts, retries and re-queues the attempts.           *)
(*                                                                         *)
(* A slot is one asynchronous activity of a worker process: a processor    *)
(* running an attempt of a job, or the body of a withLock call that was    *)
(* rejected while the body was still running.  Several slots of several    *)
(* processes interleave at every await.                                    *)
(***************************************************************************)
EXTENDS Integers, Sequences, FiniteSets

CONSTANTS
  Jobs,            \* BullMQ job ids
  Requests,        \* payout data (recipient, amount, currency, ...)
  Keyed,           \* the requests whose recipientType is crypto or wallet
  Valid,           \* the requests that pass validation
  Groups,          \* payout group ids
  GroupOf,         \* the group of a request
  Workload,        \* the jobs the producers enqueue, with their payouts
  Batch,           \* those that processBatchPayoutJob processes
  Procs,           \* worker processes
  Slots,           \* activities
  ProcOf,          \* the process of a slot
  MaxAttempts,     \* BullMQ attempts of a job (5 in payoutQueue.ts)
  MaxStalled,      \* BullMQ maxStalledCount (1 by default)
  MaxAdminRetries, \* bound: manual retries of a failed job
  NoJob, NoReq, NoSlot

ASSUME PayoutConstants ==
  /\ Keyed \subseteq Requests
  /\ Valid \subseteq Requests
  /\ GroupOf \in [Requests -> Groups]
  /\ DOMAIN Workload \subseteq Jobs
  /\ \A j \in DOMAIN Workload : Workload[j] \in Seq(Requests) /\ Workload[j] # <<>>
  /\ Batch \subseteq DOMAIN Workload
  /\ ProcOf \in [Slots -> Procs]
  /\ MaxAttempts \in Nat \ {0}
  /\ MaxStalled \in Nat
  /\ MaxAdminRetries \in Nat
  /\ NoJob \notin Jobs /\ NoReq \notin Requests /\ NoSlot \notin Slots

VARIABLES
  state,     \* state[j]: the BullMQ state of job j
  items,     \* items[j]: the payouts carried by job j
  attempts,  \* attempts[j]: attemptsMade of j
  stalls,    \* stalls[j]: times BullMQ found j stalled
  retries,   \* retries[j]: manual retries of j
  lock,      \* lock[<<j, g>>]: slot whose token is in lock:payout:g:j in Redis
  txn,       \* txn[<<j, r>>]: PayoutTransaction row of the hash of r under key j
  paid,      \* paid[<<j, r>>]: payments submitted for r under key j
  failures,  \* PayoutFailure rows, as <<job, request>> pairs
  run        \* run[w]: what slot w is executing

queueVars == <<state, items, attempts, stalls, retries>>
vars == <<state, items, attempts, stalls, retries, lock, txn, paid, failures, run>>

Hashes == Jobs \X Requests
KeyedHashes == Jobs \X Keyed

Idle == [pc |-> "idle", job |-> NoJob, i |-> 0, req |-> NoReq, oks |-> <<>>, call |-> "none"]

\* The awaits inside the callback given to withLock.
InLock == {"find", "create", "submit", "confirm", "finish"}

\* A run is "live" while BullMQ waits for its outcome, "stale" once the job was
\* taken from it as stalled, "detached" when it is the body of a withLock call
\* that was rejected.
Calls == {"live", "stale", "detached"}

Runs == [pc : InLock \cup {"start", "settle"}, job : Jobs, i : Nat \ {0}, req : Requests,
         oks : Seq(BOOLEAN), call : Calls]

TypeOK ==
  /\ state \in [Jobs -> {"absent", "waiting", "active", "completed", "failed"}]
  /\ items \in [Jobs -> Seq(Requests)]
  /\ attempts \in [Jobs -> Nat]
  /\ stalls \in [Jobs -> Nat]
  /\ retries \in [Jobs -> Nat]
  /\ lock \in [Jobs \X Groups -> Slots \cup {NoSlot}]
  /\ txn \in [Hashes -> {"none", "pending", "confirmed"}]
  /\ paid \in [Hashes -> Nat]
  /\ failures \subseteq Hashes
  /\ run \in [Slots -> Runs \cup {Idle}]

Init ==
  /\ state = [j \in Jobs |-> "absent"]
  /\ items = [j \in Jobs |-> <<>>]
  /\ attempts = [j \in Jobs |-> 0]
  /\ stalls = [j \in Jobs |-> 0]
  /\ retries = [j \in Jobs |-> 0]
  /\ lock = [k \in Jobs \X Groups |-> NoSlot]
  /\ txn = [h \in Hashes |-> "none"]
  /\ paid = [h \in Hashes |-> 0]
  /\ failures = {}
  /\ run = [w \in Slots |-> Idle]

-----------------------------------------------------------------------------
(* Names for the parts of a run                                            *)

Hash(w) == <<run[w].job, run[w].req>>
LockKey(w) == <<run[w].job, GroupOf[run[w].req]>>

Busy(w) == run[w].pc # "idle"
IsDetached(w) == run[w].call = "detached"

\* The payout at the run's position ends with outcome ok; its handler goes on.
SettledAs(r, ok) == [r EXCEPT !.pc = "settle", !.oks = Append(r.oks, ok)]

\* currentLock.unlock(): compare-and-delete in Redis, and a failure to reach
\* Redis is caught and leaves the key to its TTL.
Unlock(w) ==
  \/ UNCHANGED lock
  \/ /\ lock[LockKey(w)] = w
     /\ lock' = [lock EXCEPT ![LockKey(w)] = NoSlot]

\* Mutant: the failure row swaps its two columns.
RecordFailureSwapped(w) == failures' = failures \cup {<<run[w].req, run[w].job>>}

\* payoutFailure.create: an error while recording the failure is only logged.
RecordFailure(w) == failures' = failures \/ failures' = failures \cup {Hash(w)}

-----------------------------------------------------------------------------
(* The queue: producers, BullMQ and the operator                           *)

\* processPayout, schedulePayout and processBatchPayouts add a job.
Enqueue(j) ==
  /\ j \in DOMAIN Workload
  /\ state[j] = "absent"
  /\ state' = [state EXCEPT ![j] = "waiting"]
  /\ items' = [items EXCEPT ![j] = Workload[j]]
  /\ UNCHANGED <<attempts, stalls, retries, lock, txn, paid, failures, run>>

\* A worker takes a waiting job.
Start(w, j) ==
  /\ ~Busy(w)
  /\ state[j] = "waiting"
  /\ state' = [state EXCEPT ![j] = "active"]
  /\ run' = [run EXCEPT ![w] = [pc |-> "start", job |-> j, i |-> 1, req |-> items[j][1],
                                oks |-> <<>>, call |-> "live"]]
  /\ UNCHANGED <<items, attempts, stalls, retries, lock, txn, paid, failures>>

\* What a stalled job becomes: waiting again, or failed beyond the limit.
AfterStall(j) == IF stalls[j] < MaxStalled THEN "waiting" ELSE "failed"

\* BullMQ takes the job from a run whose process stopped renewing the job lock
\* but is still alive; the run goes on without knowing.
Stall(w) ==
  /\ run[w].call = "live"
  /\ state' = [state EXCEPT ![run[w].job] = AfterStall(run[w].job)]
  /\ stalls' = [stalls EXCEPT ![run[w].job] = @ + 1]
  /\ run' = [run EXCEPT ![w].call = "stale"]
  /\ UNCHANGED <<items, attempts, retries, lock, txn, paid, failures>>

\* A worker process dies: every activity in it ends, its locks stay in Redis
\* until they expire, and its jobs are found stalled.
Crash(p) ==
  LET dead == {w \in Slots : ProcOf[w] = p /\ Busy(w)}
      lost == {run[w].job : w \in {x \in dead : run[x].call = "live"}}
  IN /\ dead # {}
     /\ run' = [w \in Slots |-> IF w \in dead THEN Idle ELSE run[w]]
     /\ state' = [j \in Jobs |-> IF j \in lost THEN AfterStall(j) ELSE state[j]]
     /\ stalls' = [j \in Jobs |-> IF j \in lost THEN stalls[j] + 1 ELSE stalls[j]]
     /\ UNCHANGED <<items, attempts, retries, lock, txn, paid, failures>>

\* retryFailedPayout and the admin service: job.retry() on a failed job.
AdminRetry(j) ==
  /\ state[j] = "failed"
  /\ retries[j] < MaxAdminRetries
  /\ state' = [state EXCEPT ![j] = "waiting"]
  /\ retries' = [retries EXCEPT ![j] = @ + 1]
  /\ UNCHANGED <<items, attempts, stalls, lock, txn, paid, failures, run>>

-----------------------------------------------------------------------------
(* executePayout                                                           *)

\* Validation passed and redlock granted the lock; only crypto and wallet
\* payouts consult the PayoutTransaction table.
Acquire(w) ==
  /\ run[w].pc = "start"
  /\ run[w].req \in Valid
  /\ lock[LockKey(w)] = NoSlot
  /\ lock' = [lock EXCEPT ![LockKey(w)] = w]
  /\ run' = [run EXCEPT ![w].pc = IF run[w].req \in Keyed THEN "find" ELSE "submit"]
  /\ UNCHANGED <<queueVars, txn, paid, failures>>

\* Mutant: the lock is waited for without end.
RejectInvalid(w) ==
  /\ run[w].pc = "start"
  /\ run[w].req \notin Valid
  /\ run' = [run EXCEPT ![w] = SettledAs(run[w], FALSE)]
  /\ RecordFailure(w)
  /\ UNCHANGED <<queueVars, lock, txn, paid>>

\* Validation, a progress update or the lock acquisition throws.
RejectEarly(w) ==
  /\ run[w].pc = "start"
  /\ run' = [run EXCEPT ![w] = SettledAs(run[w], FALSE)]
  /\ RecordFailure(w)
  /\ UNCHANGED <<queueVars, lock, txn, paid>>

\* payoutTransaction.findUnique: an existing row means "skip the submission".
Find(w) ==
  /\ run[w].pc = "find"
  /\ run' = [run EXCEPT ![w].pc = IF txn[Hash(w)] = "none" THEN "create" ELSE "finish"]
  /\ UNCHANGED <<queueVars, lock, txn, paid, failures>>

\* Mutant: no unique index on transactionHash.
CreateNotUnique(w) ==
  /\ run[w].pc = "create"
  /\ txn' = [txn EXCEPT ![Hash(w)] = "pending"]
  /\ run' = [run EXCEPT ![w].pc = "submit"]
  /\ UNCHANGED <<queueVars, lock, paid, failures>>

\* Mutant: the row is created as confirmed, before the submission.
CreateConfirmed(w) ==
  /\ run[w].pc = "create"
  /\ txn[Hash(w)] = "none"
  /\ txn' = [txn EXCEPT ![Hash(w)] = "confirmed"]
  /\ run' = [run EXCEPT ![w].pc = "submit"]
  /\ UNCHANGED <<queueVars, lock, paid, failures>>

\* payoutTransaction.create, against the unique index on transactionHash.
Create(w) ==
  /\ run[w].pc = "create"
  /\ txn[Hash(w)] = "none"
  /\ txn' = [txn EXCEPT ![Hash(w)] = "pending"]
  /\ run' = [run EXCEPT ![w].pc = "submit"]
  /\ UNCHANGED <<queueVars, lock, paid, failures>>

\* The payment rail accepts the payment.
Submit(w) ==
  /\ run[w].pc = "submit"
  /\ paid' = [paid EXCEPT ![Hash(w)] = @ + 1]
  /\ run' = [run EXCEPT ![w].pc = IF run[w].req \in Keyed THEN "confirm" ELSE "finish"]
  /\ UNCHANGED <<queueVars, lock, txn, failures>>

\* payoutTransaction.update(status: 'confirmed').
Confirm(w) ==
  /\ run[w].pc = "confirm"
  /\ txn' = [txn EXCEPT ![Hash(w)] = "confirmed"]
  /\ run' = [run EXCEPT ![w].pc = "finish"]
  /\ UNCHANGED <<queueVars, lock, paid, failures>>

\* The callback returns; withLock unlocks and hands the result to its caller.
\* Nobody listens to a detached callback.
Finish(w) ==
  /\ run[w].pc = "finish"
  /\ IF IsDetached(w)
       THEN run' = [run EXCEPT ![w] = Idle] /\ UNCHANGED lock
       ELSE run' = [run EXCEPT ![w] = SettledAs(run[w], TRUE)] /\ Unlock(w)
  /\ UNCHANGED <<queueVars, txn, paid, failures>>

\* Mutant: the attempt tries a payout whose callback threw once more.
BodyThrowsAgain(w) ==
  /\ run[w].pc \in InLock \ {"submit"}
  /\ run' = [run EXCEPT ![w].pc = "start"]
  /\ Unlock(w)
  /\ UNCHANGED <<queueVars, txn, paid, failures>>

\* A database call or a progress update inside the callback throws; creating a
\* row whose hash exists always does (P2002).
BodyThrows(w) ==
  /\ run[w].pc \in InLock \ {"submit"}
  /\ IF IsDetached(w)
       THEN run' = [run EXCEPT ![w] = Idle] /\ UNCHANGED <<lock, failures>>
       ELSE /\ run' = [run EXCEPT ![w] = SettledAs(run[w], FALSE)]
            /\ Unlock(w)
            /\ RecordFailure(w)
  /\ UNCHANGED <<queueVars, txn, paid>>

\* The lock's TTL passes in Redis before an extension reaches it.
ExpireLock(k) ==
  /\ lock[k] # NoSlot
  /\ lock' = [lock EXCEPT ![k] = NoSlot]
  /\ UNCHANGED <<queueVars, txn, paid, failures, run>>

\* Extending the TTL fails: withLock rejects and its caller goes on in another
\* slot of the process, while the callback, which ignores its AbortSignal,
\* keeps running in this one.
ExtendFails(w, v) ==
  /\ run[w].pc \in InLock
  /\ ~IsDetached(w)
  /\ ~Busy(v) /\ ProcOf[v] = ProcOf[w]
  /\ run' = [run EXCEPT ![w].call = "detached", ![v] = SettledAs(run[w], FALSE)]
  /\ Unlock(w)
  /\ RecordFailure(w)
  /\ UNCHANGED <<queueVars, txn, paid>>

-----------------------------------------------------------------------------
(* The processors, after executePayout returned or threw                   *)

\* The progress update is through: processBatchPayoutJob moves to the next
\* payout of the batch.
NextItem(w) ==
  /\ run[w].pc = "settle"
  /\ run[w].i < Len(items[run[w].job])
  /\ run' = [run EXCEPT ![w].pc = "start", ![w].i = @ + 1,
                        ![w].req = items[run[w].job][run[w].i + 1]]
  /\ UNCHANGED <<queueVars, lock, txn, paid, failures>>

AtEnd(w) == run[w].pc = "settle" /\ run[w].i >= Len(items[run[w].job])

\* Mutant: only the outcome of the last payout counts.
FailedLast(w) == {n \in DOMAIN run[w].oks : n = Len(run[w].oks) /\ ~run[w].oks[n]}

FailedItems(w) == {n \in DOMAIN run[w].oks : ~run[w].oks[n]}

\* Every payout went through (or was skipped): the job completes.  BullMQ
\* refuses the outcome of a run it took the job from.
Complete(w) ==
  /\ AtEnd(w)
  /\ FailedItems(w) = {}
  /\ state' = IF run[w].call = "live" THEN [state EXCEPT ![run[w].job] = "completed"] ELSE state
  /\ run' = [run EXCEPT ![w] = Idle]
  /\ UNCHANGED <<items, attempts, stalls, retries, lock, txn, paid, failures>>

\* addBulkJobs: one new job per failed payout of the batch, under a new id.
\* The injection f names the new job of each failed position.
SpawnedBy(w, f) ==
  [j \in Jobs |-> IF \E n \in FailedItems(w) : f[n] = j
                    THEN <<items[run[w].job][CHOOSE n \in FailedItems(w) : f[n] = j]>>
                    ELSE items[j]]

\* Mutant: the last attempt is not counted as the last.
AfterThrowOneMore(w) ==
  LET j == run[w].job
  IN IF run[w].call = "live"
       THEN [state EXCEPT ![j] = IF attempts[j] < MaxAttempts THEN "waiting" ELSE "failed"]
       ELSE state

\* The states of the jobs once the attempt of w is reported failed.
AfterThrow(w) ==
  LET j == run[w].job
  IN IF run[w].call = "live"
       THEN [state EXCEPT ![j] = IF attempts[j] + 1 < MaxAttempts THEN "waiting" ELSE "failed"]
       ELSE state

CountAttempt(w) ==
  attempts' = IF run[w].call = "live" THEN [attempts EXCEPT ![run[w].job] = @ + 1] ELSE attempts

\* The attempt of w ends with an error and has added no job.
AttemptFails(w) ==
  /\ run[w].pc = "settle"
  /\ state' = AfterThrow(w)
  /\ CountAttempt(w)
  /\ run' = [run EXCEPT ![w] = Idle]
  /\ UNCHANGED <<items, stalls, retries, lock, txn, paid, failures>>

\* A single payout that failed, or a batch whose addBulkJobs call threw.
ThrowOut(w) == AtEnd(w) /\ FailedItems(w) # {} /\ AttemptFails(w)

\* job.updateProgress of the batch loop throws, outside the try of the payout
\* and after any of them: the later payouts are not reached and the earlier
\* failures are not re-enqueued.
ProgressThrows(w) == run[w].job \in Batch /\ AttemptFails(w)

\* A batch re-enqueues its failed payouts one by one, then throws as well.
ReEnqueue(w) ==
  /\ AtEnd(w)
  /\ run[w].job \in Batch
  /\ FailedItems(w) # {}
  /\ \E f \in [FailedItems(w) -> {j \in Jobs \ DOMAIN Workload : state[j] = "absent"}] :
       /\ \A m, n \in FailedItems(w) : f[m] = f[n] => m = n
       /\ items' = SpawnedBy(w, f)
       /\ state' = [j \in Jobs |-> IF \E n \in FailedItems(w) : f[n] = j
                                     THEN "waiting" ELSE AfterThrow(w)[j]]
  /\ CountAttempt(w)
  /\ run' = [run EXCEPT ![w] = Idle]
  /\ UNCHANGED <<stalls, retries, lock, txn, paid, failures>>

-----------------------------------------------------------------------------
Body(w) == \/ Acquire(w) \/ RejectEarly(w) \/ Find(w) \/ Create(w) \/ Submit(w)
           \/ Confirm(w) \/ Finish(w) \/ BodyThrows(w)

Handler(w) == NextItem(w) \/ Complete(w) \/ ThrowOut(w) \/ ProgressThrows(w) \/ ReEnqueue(w)

Next ==
  \/ \E j \in Jobs : Enqueue(j) \/ AdminRetry(j)
  \/ \E w \in Slots, j \in Jobs : Start(w, j)
  \/ \E w \in Slots : Stall(w) \/ Body(w) \/ Handler(w)
  \/ \E w, v \in Slots : ExtendFails(w, v)
  \/ \E p \in Procs : Crash(p)
  \/ \E k \in Jobs \X Groups : ExpireLock(k)

\* The event loop of a live process runs every ready continuation, and a worker
\* with a free slot takes a waiting job.  Crashes, stalls, expiries, failures
\* of the extension and the operator are never forced.
Fairness ==
  /\ \A w \in Slots : WF_vars(Body(w)) /\ WF_vars(Handler(w))
  /\ \A j \in Jobs : SF_vars(\E w \in Slots : Start(w, j))

Spec == Init /\ [][Next]_vars

FairSpec == Spec /\ Fairness

-----------------------------------------------------------------------------
(* What the pipeline guarantees                                            *)

\* A crypto or wallet payout is submitted at most once under its idempotency
\* key, through retries, stalls, crashes and callbacks that outlive their lock
\* (executePayout: the unique transactionHash arbitrates, not the lock).
AtMostOncePayment == \A h \in KeyedHashes : paid[h] <= 1

\* A job reported completed has, for each of its payouts, a PayoutTransaction
\* row (crypto, wallet) or a payment (bank, paypal): no position of a batch is
\* dropped by the loop, its retries or its stale runs.
CompletedIsAccounted ==
  \A j \in Jobs : state[j] = "completed" =>
    \A n \in DOMAIN items[j] :
      LET h == <<j, items[j][n]>>
      IN IF items[j][n] \in Keyed THEN txn[h] # "none" ELSE paid[h] >= 1

\* The attempts of a job that BullMQ has started: the failed ones, the stalled
\* ones, and the one that is running or has completed it.
Tries(j) == attempts[j] + stalls[j] + IF state[j] \in {"active", "completed"} THEN 1 ELSE 0

\* Retrying ends: BullMQ fails a job after MaxAttempts thrown attempts or after
\* MaxStalled tolerated stalls, and from there each manual retry buys it one
\* more of either, also when several runs of the job are alive (payoutQueue.ts
\* attempts, retryFailedPayout).
RetriesAreBounded ==
  \A j \in Jobs : /\ attempts[j] <= MaxAttempts + retries[j]
                  /\ stalls[j] <= MaxStalled + 1 + retries[j]

\* Bank and PayPal payouts have no row to stop a second submission: what bounds
\* them is that an attempt passes each position of its job once, whatever became
\* of its lock, so a position is paid no more often than its job was attempted
\* (processBatchPayoutJob, withLock).
OnePaymentPerAttempt ==
  \A j \in Jobs : \A n \in DOMAIN items[j] :
    (\A m \in DOMAIN items[j] : items[j][m] = items[j][n] => m = n)
      => paid[<<j, items[j][n]>>] <= Tries(j)

\* The table and the rail behave as the abstract specification PayOnce says:
\* claim, then one payment, then confirmation, per hash.
PO == INSTANCE PayOnce WITH Hashes <- Hashes, Claimed <- KeyedHashes

ImplementsPayOnce == PO!Spec

\* A waiting job is eventually completed or failed: attempts, stalls and
\* re-queues are all counted, so retrying ends.
EveryJobSettles ==
  \A j \in Jobs : state[j] = "waiting" ~> state[j] \in {"completed", "failed"}

-----------------------------------------------------------------------------
(* What the comments say of it                                             *)

\* payoutJob.ts:240 "entries already paid by an earlier attempt of this batch
\* job - are detected and skipped": what is reported completed has been paid.
CompletedIsPaid ==
  \A j \in Jobs : state[j] = "completed" =>
    \A n \in DOMAIN items[j] : paid[<<j, items[j][n]>>] >= 1

\* payoutJob.ts:239-241 "Duplicate entries in the same batch - or entries already
\* paid by an earlier attempt of this batch job - are detected and skipped rather
\* than paid again": one payout of one batch is paid under one key only.
PaidUnderOneKey ==
  \A r \in Keyed, j, k \in Jobs : paid[<<j, r>>] > 0 /\ paid[<<k, r>>] > 0 => j = k
=============================================================================
