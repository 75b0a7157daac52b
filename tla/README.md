# TLA+ models of the SocialFlow AI dashboard

This directory holds TLA+ specifications of the core of the SocialFlow backend (`backend/src`) and of
the parts of its clients where concurrency matters, the TLC configurations that check them on
small instances, and machine-checked (TLAPS) proofs of the properties that matter most.
`PROJECT.json` lists every run, the source lines behind every definition, the hazards the
properties are aimed at, the disagreements found between code and comments, and the theorems.

    tlc -workers 2 -config payout_single.cfg MCPayout.tla     # one run
    tlapm PayoutProofs.tla                                    # one proof module

## 1. Inventory

The backend is an Express application (`app.ts`, `server.ts`) over Postgres (Prisma, READ
COMMITTED), Redis and BullMQ. It is deployed as several pods of several processes: API servers,
which also run most queue workers, and `workers/standalone.ts`. The concurrency that matters is
between processes (rows, Redis keys, jobs) and, inside one process, between asynchronous calls
that interleave at every `await`.

| Component (source) | State | Operations | Interacts with | Hard behaviour | What makes it correct |
|---|---|---|---|---|---|
| Payout pipeline (`jobs/payoutJob.ts`, `queues/payoutQueue.ts`) | PayoutTransaction and PayoutFailure rows, job states, lock keys | enqueue, execute a payout, batch, re-enqueue failures | LockService, BullMQ, payment rails | retries, stalls, expired locks, crash between row and payment, a batch attempt that ends half-way | a payout is paid once, a completed job is a paid one |
| Outgoing webhooks (`services/WebhookDispatcher.ts`, `jobs/webhookRetryJob.ts`, `controllers/webhooks.ts`) | WebhookDelivery rows | dispatch, attempt, retry tick, replay | BullMQ repeatable job, subscribers | un-awaited attempts, rejected and overlapping ticks, stale rows, restarts, hanging subscribers | success means acknowledged and stands, attempts are bounded and one at a time but for known overlaps, deliveries settle |
| Credits and billing (`services/BillingService.ts`, `middleware/requireCredits.ts`) | Subscription, CreditLog and StripeEvent rows | provision, deduct, refund, Stripe webhooks | Stripe, AI and publishing workers | read-then-write under READ COMMITTED, redelivered and reordered events | the balance stays within zero and the allowance, an action is charged once per reference, calls are lost to no other call |
| Distributed lock (`utils/LockService.ts`) | Redis lock keys, per-resource in-process mutexes | withLock, tryLock, releaseLock | Redlock, payouts | hand-off and eviction of mutexes, lock extension, aborts | mutual exclusion in one process, no waiter forgotten |
| Organizations (`controllers/organization.ts`) | members and roles, the name | create, add, change role, remove or leave, rename, get, list | Postgres, cache | check-then-act over three queries without a transaction, by concurrent requests | an organization keeps an owner, owners alone give and take that role |
| Cache (`utils/cache.ts`) | Redis values, in-flight fetches of each process | withCache, invalidate | Redis, its callers' fetchers | a fetch that began before an invalidation and is stored after it, lost UNLINKs | a stale answer has a known cause, and ends |
| Text-to-speech (`services/TTSService.ts`) | TTSJob rows, a fire-and-forget job in memory | create, process by segments, cancel | providers, event bus | cancellation racing every status write, crash of the only process that knows the job | a cancellation that a check can still see is final, a job settles |
| Event bus and streams (`lib/eventBus.ts`, `routes/realtime.ts`, `services/SSETicketService.ts`, `services/SocketService.ts`) | Redis counter, replay buffer and channel; streams counted per user | emit, publish, serve a stream, replay | Redis, text-to-speech, browsers | numbers taken before the append, live events during a replay, reconnection, closed connections | no event twice, none passed over by the handler, the cap counts the streams there are |
| Publishing worker (`workers/index.ts`, `queues/socialQueue.ts`) | publish and schedule jobs | publish-post, schedule-post, AI jobs | Billing refunds, social platforms | refund at every failed attempt, retry after a partial success | published means paid, one refund per action |
| Job queues (`queues/queueManager.ts`) | queues, workers | createWorker, addJob, retryJob, closeAll | BullMQ | deduplication, shutdown order | one worker per queue, jobs not lost on close |
| Migration service (`admin/migrationService.ts`) | a Redis lock, MigrationHistory | run, dry-run, rollback, release | Redis, Postgres | lock expiry, release of a lock owned by another | one migration at a time |
| Dynamic configuration (`services/DynamicConfigService.ts`) | per-process cache, table | get, set, create, refresh | Postgres | refresh racing a write | a read after a write sees it |
| Video (`services/VideoService.ts`, `queues/VideoQueue.ts`) | job progress, files | submit, transcode | ffmpeg | retry after clean-up | a retry finds its input |
| Sessions (`services/AuthBlacklistService.ts`, `AccountLockoutService.ts`, `TwoFactorLockoutService.ts`) | revocations, failure counters | revoke, count a failure, lock | Redis | counters with a time to live | a revoked token is rejected, a locked account stays locked |
| Graceful shutdown (`server.ts`) | shutdown flag, open servers and queues | shutdown on signal | every queue and client | repeated signals, forced exit | clients are closed after their users |
| TikTok, YouTube, Facebook, cohort, email and pruning jobs (`jobs/*`) | job rows, tokens | poll, refresh, prune | platforms | repeated triggers, partial failure | a job's outcome is reported once |
| Web client session (`src/auth/refresh.ts`, `src/auth/tokenStore.ts`) | access and refresh tokens, in-flight refresh | refresh, retry a request, log out | backend sessions | concurrent 401s, logout during a refresh | one refresh at a time, a logout is final |

The first eight are modelled, each with its own operations in full but for what `PROJECT.json` names; section 6 says why the others are not.

## 2. Modules

| Module | Contents |
|---|---|
| `PayOnce` | abstract specification: a hash is claimed, then paid once, then confirmed |
| `Payout` | payout pipeline; refines `PayOnce` |
| `MCPayout`, `PayoutProofs` | instances and proofs of `Payout` |
| `Delivery` | abstract specification: what the dispatcher promises about each delivery, without pods, ticks and times |
| `WebhookDelivery` | outgoing webhooks; refines `Delivery`, row by row until attempts of the row overlap |
| `MCWebhookDelivery`, `WebhookProofs` | instances and proofs |
| `CreditLedger` | abstract specification: calls that change a balance at once or not at all, and events whose amounts come from an earlier look at it |
| `Billing` | the credit account of one user, with Stripe as its environment; refines `CreditLedger` |
| `Sums` | lemmas on the sum of a function over a finite set, for `BillingProofs` |
| `MCBilling`, `BillingProofs` | instances and proofs |
| `FifoLock` | abstract specification: the functions of one process and key run one at a time, in the order of their calls |
| `LockService` | calls of `withLock`, with Redis and without; refines `FifoLock` without |
| `MCLockService`, `LockProofs` | instance and proofs |
| `Cache` | `withCache` and invalidation in several processes over one Redis; parameterised by what its caller caches |
| `Membership` | the members of an organization, over `Cache` |
| `MCMembership`, `MembershipProofs` | instance and proofs |
| `JobStream` | the event bus and the streams of one user, from the emitting process to the browser |
| `TTSJob` | text-to-speech jobs and their cancellation, over `JobStream` |
| `MCTTSJob`, `JobStreamProofs`, `TTSJobProofs` | instance and proofs |

In every module an action is what one process does between two awaits, or what one database statement
does: everything may happen in between.

### Payout

`run[w]` is an asynchronous activity of a worker process: its program counter names the next await of
`executePayout` (`find`, `create`, `submit`, `confirm`, `finish`), or says that the processor has yet to
call it (`start`) or has its outcome (`settle`). `call` tells an activity whose result BullMQ waits for
(`live`) from one whose job was taken away as stalled (`stale`) and from the callback of a `withLock`
call that has rejected (`detached`): no caller of `withLock` looks at its `AbortSignal`, so the callback runs
on. `txn` is the PayoutTransaction table by hash (job id and request: the job id is the idempotency
key), `failures` the PayoutFailure table, `lock` the Redis keys, `paid` what reached the payment rail;
`state`, `items`, `attempts`, `stalls` and `retries` are BullMQ's. `Acquire` to `BodyThrows` are
`executePayout`, `NextItem` to `ReEnqueue` the two processors, `Enqueue`, `Start`, `Stall`, `Crash` and
`AdminRetry` the queue and its operator. An error of a database call is possible at each of them. `ProgressThrows` is
the progress update of the batch loop (`payoutJob.ts:290`), the one call there that no `try` surrounds: when Redis refuses it, the
attempt ends after any of its payouts, the later ones are not reached and the earlier failures are not re-enqueued.

No worker runs the batch in this repository: `createPayoutWorker` registers `processPayoutJob` only, for batch jobs as
for single ones, and `processBatchPayoutJob` is exported by `jobs/index.ts` and called by the tests. The batch is
modelled as the processor it is written to be, under BullMQ's attempts and stalls.

Validation, hashing and the progress bar are abstracted; a request is a model value.

The lock is part of this module as one compare-and-delete key per group, which is what
`LockService` promises with Redis; `LockService` models what happens inside, and without Redis.

### WebhookDelivery

`row` is the WebhookDelivery table, with `nextRetryAt` as *null*, *later* or *due*. `att` holds the
attempts under way: the un-awaited first one of a row and the retries of the ticks of each pod, with the attempt number
each was started with. `Publish` and `Create` are `dispatchEvent`, `Block` to
`SecretFails` are `attemptDelivery` one await at a time (a failed update of a success is handled as a failed attempt, one of a failure
or of a blocked attempt writes nothing), `Tick` is `retryPendingDeliveries` under the repeatable job, `Replay` is
`replayDelivery`. `acked` and the counts `begun`, `uncounted` and `overlaps` record what the properties are about. Signing, headers
and the subscription table are abstracted: they only decide how many rows an event makes.

A worker has one slot, and a tick holds it until its `Promise.all` settles. That is the end of the whole batch, unless
`resolveSigningSecret` throws: its update is awaited outside the `.catch` of the attempts (`WebhookDispatcher.ts:542-547`, `:230`), so
`Promise.all` rejects at once, the job fails and the slot takes the next tick while the other attempts of the rejected one run on.
`SecretFails` gives the pod its next tick number (`tick[p]`), and the attempts of the old number stay. Only rejected ticks take a
number, since the attempts of a tick that returned are over; a rejection takes a failed update, so the numbers are bounded by theirs.

### Billing

One user's Subscription row as other transactions see it (`sub`) and as the transaction that holds its row
lock has updated it (`draft`, `owner`): Postgres's READ COMMITTED, on which the code relies. `pc[c]` is the
next statement of a deduction or refund (`deductCreditsForTokens` is a deduction without a reference), `hd[h]` that of a webhook
handler, with the row it read and the answer of Stripe, which it uses later. `log` keeps the unique keys of the CreditLog
(user, action and reference; every refund is logged as `credit:topup`), `recorded` the StripeEvent rows. Stripe changes its subscription, sends an event for each
change, in any order and again until it is acknowledged.

`CreditLedger` keeps the account, what each handler has seen of it (`seen`) and which calls and events are done. Its events may
make of the account only what the amounts of their handler come to (`Outcomes`): the credits left alone, a new month, or, worked out from
`seen`, another plan or the end of the subscription. A call that commits between a handler's look and such an event is forgotten
there as it is in the code (`BillingService.ts:480-482`); the refinement says that this is the only way to lose one.

### LockService

`call[c]` is where a call of `withLock` stands and `body[c]` whether its function runs: they are two things,
since a call rejects when an extension fails and its function goes on. With Redis: `Lock`,
`LockFails` (also with the key left behind when the answer of Redis is lost), `ExtendFails`, `Expire`,
`Unlock`. Without: `Acquire`, `HandOver` and `GoIdle` are `AsyncMutex.acquire` and `release` with the map of
mutexes by key; a mutex is named by the call that created it. `Crash` ends a process, which may come
back with or without Redis.

### Cache and Membership

`Cache` keeps what can go wrong between a database and Redis: `cache[k]` is the value stored under a key, `copies` are
the values that a process read and has not yet stored, in stage `read` (its fetch is in the single-flight map,
so the process starts no second one) or `sent` (the map has forgotten it, the SET is under way). `Fetch`, `Settle`,
`Store` and `StoreFails` are `withCache`, `Unlink` one key of an invalidation, `Forget` an invalidation that is lost or
was never written. Two ghosts record why a stored value may be stale: a copy is `late` once its key was invalidated,
and a key is `excused` once a late copy was stored or nothing will unlink it.

`Membership` composes it with the requests of `controllers/organization.ts`: `role` and `name` are the rows,
`req[r]` a request with the query it awaits (`target`, `count`, `write`), what it read (`as`, its caller's role) and
the keys it has yet to unlink (`todo`). `Begin`, `ReadTarget`, `CountOwners` and `Write` are the
queries, `Invalidate` the keys one by one; `GiveUp` and `InvalidationLost` are a query that throws or a
process that dies. `View` is what the fetchers of `getOrganization` and `listOrganizations` select. `dis` and `raced` are
ghosts: the owners changed after a request had read them, and such a request unseated an owner.

### JobStream and TTSJob

`JobStream` follows one user's progress events. `Emit` takes a number from Redis (`counter`), `Publish` is the MULTI that
appends to the `buffer`, trims it and publishes (`channel[p]`, what the subscription of a pod has yet to dispatch).
`conn[c]` is a request for a stream: awaiting its ticket, awaiting the replay (`replay`, then `answered` once Redis has run
LRANGE), `live`, left by its browser, or leaked. `last`, `pending`, `missed` and `wire` are the variables of the
handler that serves the stream the browser listens to, `lastId` the browser's last event id, `counted[p]` the
entry of the user in `userStreams`. Serving, replaying, dispatching and closing are one action per continuation
of the handler; messages of the subscription can be lost, LRANGE and MULTI can throw, keys expire while nothing
happens, pods crash. The browser is external: it reads in order, and reconnects with its last event id.

`TTSJob` EXTENDS it and supplies the events: `row[j]` is the status in the database, `worker[j]` the await of
`processJob` and the status it has yet to announce, `cancel[k]` that of a `cancelJob`. `updateStatus` writes the row in one
step and announces it in a later one, as the code does, so that a cancellation's write and event can come between.
`cancelled` is a ghost: a cancellation was written while a check of the row was still to come.

## 3. Runs

| Run | Instance | Shows |
|---|---|---|
| `payout_single` | one crypto job, two processes with three activities, 2 attempts, 1 stall, 1 manual retry | types; paid at most once under its key; the attempts and stalls of a job are bounded; refinement of `PayOnce`; every waiting job settles |
| `payout_batch` | a batch of a bank and a crypto payout, two processes, 2 attempts, one re-enqueued job | a completed job has a row or a payment for each payout; a payout is paid no more often than its job was attempted, attempts cut short by the progress update included |
| `payout_skipped` (violation) | one crypto job, one process | a payout whose attempt died between row and payment is skipped and reported completed |
| `payout_rekeyed` (violation) | a batch of one crypto payout | a payout that failed after it was submitted is re-enqueued under a new key and paid again |
| `webhook_pods` | one row, two pods, 3 attempts, two replays, a crash, two failed updates | types; success means acknowledged; the retry budget; attempts begun are accounted for |
| `webhook_one_worker` | two rows in one batch, one pod, 2 attempts, a replay, a crash, a failed update | attempts overlap only after a rejected tick; a success is final but for overlaps; refinement of `Delivery`; every scheduled retry ends if bodies do |
| `webhook_stranded` (violation) | one row, one pod, a crash | a pending row whose first attempt died is never retried |
| `billing_account` | two deductions of one action with one reference, one of another action with the same, a refund, two events, two handlers, plans of 2 and 3 credits | types; balance within zero and allowance; one charge per action and reference; one effect per event; refinement of `CreditLedger` |
| `billing_resurrected` (violation) | two events, two handlers | a cancelled subscription stays active |
| `lock_service` | three calls in one process, one in another, one key | types; exclusion in a process; overlap only after a lost lock; eviction; refinement of `FifoLock`; every call settles |
| `membership` | two users, two requests out of seven operations, an "org" and a "list" key, one process, two copies | types; an owner remains unless a race unseated the last; the owner role comes from owners; stale answers are explained; they end |
| `job_stream` | a job of one segment in a pod, a cancellation in another process, two requests for a stream, a buffer of two events, one fault | types; no event twice; the cap; a cancellation is honoured; no event passed over; every job settles |

A passing run explores its whole state space. The four violation runs check what a comment of the code promises; `PROJECT.json`
quotes it under `findings`.

**Bounds.** Two actors are enough for every race listed under `hazards`: each needs one that reads
and another that writes in between. Payouts need a third activity for the caller that goes on beside
its detached callback. Two attempts are one retry; a stall and a manual retry come on top, so a job is run up to
four times. The two slots of `payout_batch` are in different processes, so the failed
lock extension, which needs a free slot of its own process for the caller that goes on, does not occur there; `payout_single` has it, and the
batch's invariants are proved for any slots and processes. Three webhook attempts leave a middle one, the only kind with a
retry behind it and a retry before it; rows of `webhook_pods` do not meet, since every pod there may tick for the one row on its own,
and two failed updates give a pod three ticks at a time. In `webhook_one_worker` both rows fit in a batch (50 in the code), so that
the failed update of one rejects the tick of the other; that a tick leaves rows behind it for ever needs more rows than any bound,
and no run shows it. Plans of two and three credits and deductions of one and two let the balance be short, exact and
sufficient; a plan change goes up and down. Three calls in one process make a queue of two, so
that a mutex is handed over, evicted and created anew. Two requests are enough to count the same two owners or
to overtake each other's invalidations; two keys are one of each kind, of different users; two copies are a late one
and a fresh one, in one process whose single-flight map forgets the first when it settles; a second process would only add the
same pair of copies again. A job of one segment emits up to six events with its cancellation, so a buffer of two is
trimmed, and two requests are a reconnection; the numbers of two processes meet because the job and its
cancellation emit from different ones; one fault of any kind can meet any of this. Crashes of locks and payouts are not bounded by a
counter: stalls bound them in `Payout`, settled calls in `LockService`.

**Fairness.** `Payout!FairSpec`: an event loop runs every continuation that is ready (weak fairness of
`Body` and `Handler` per activity); a waiting job is taken by a worker of the pool (strong fairness of `Start`, since
activities may all be busy in between). Stalls, crashes, expiries and retries are never forced.
`WebhookDelivery!Fairness`: time passes, the repeatable job ticks, the abort timer bounds the wait for
headers. Nothing is assumed of the bodies of the answers: the abort timer is cleared before the body is read
(`WebhookDispatcher.ts:474`), and a subscriber that hangs there takes the pod's only retry slot for ever. That they end is
therefore a hypothesis of the property itself (`BodiesEnd` in `ScheduledRetryEnds`), whose statement is false without it. `PatientSpec`
assumes as much for the violation run `webhook_stranded`, so that its counterexample is not a hanging body.
`LockService!FairSpec`: while calls can take steps some call does, and the functions end;
fairness over all calls together is the weakest form that says so. It assumes that Redis answers or fails: the client retries a command
without bound while the connection is down, and a call that waits for such a command does not settle. Billing
states no liveness: its calls are requests that may fail at every statement.
`Membership!Fairness`: a fetch that was answered settles, Redis executes or refuses the SET, and the time to live of a
stored value ends (every SET in `cache.ts` carries one); requests are not forced, so "when the writes are over" is a matter of
their own. `TTSJob!Fairness`: an event loop runs a job that was created; nothing is assumed of the stream,
of Redis or of the browser.

## 4. Proofs

The proof modules are checked by tlapm for every value of the constants, from the named assumptions on
the constants (`PayoutConstants`, `WebhookConstants`, `BillingConstants`, `NoSubIsNoRow`, `LockConstants`,
`KeysAssumption`, `OpsAssumption`, `StartsAssumption`, `UsersAssumption`, `StreamAssumption`, `JobAssumption`: the constants are of their
types, the null values are no member of what they stand beside, an operation is one its route accepts, an
organization that exists at first has an owner, and the users and requests for streams are finitely many where they are counted).

- **`PayoutProofs`**: `TypeCorrect`; `PaidAtMostOnce`; `PayoutImplementsPayOnce`; `CompletedAccounted`. "Paid at most once"
  says nothing of an activity that is about to submit. `SubmitInv` adds that such an activity owns the pending row of its hash, that only
  one activity can, and that the hash is unpaid. The lock does not occur in the invariant: the unique index
  on `transactionHash` alone carries the argument, which is why it survives a lost lock. `RunsGood` adds, for completed jobs,
  that each good outcome a run has gathered has its row or payment, that the run stands at the payout of its position, and that
  a callback about to return has claimed or paid; rows and payments are never taken back (`AccountedStays`), the
  payouts of a job never change (`ItemsStay`), and only a run that is still listened to completes its job (`NewlyCompleted`).
  `RetryingIsBounded`: BullMQ compares its counts when an attempt ends, so `QueuedInv` states where they stand while the job is
  queued or runs, and `CallsInv` that BullMQ listens to one run of a job at a time; `JobStep` is all that any action does
  to one job. `PaidOncePerAttempt` covers the rails without a row to claim: the runs that may still pay a position are
  charged to the attempts as well (`CountInv`: payments plus the cardinality of `Payers` stay within `Tries`). A run leaves
  `Payers` as it submits, and when `withLock` rejects, the caller takes the detached callback's place for
  the positions behind it, so no step but the start of an attempt adds one. An attempt that the progress update cuts short
  leaves `Payers` with its payments made, and its next start is counted as any other.
- **`WebhookProofs`**: `TypeCorrect`, `DeliveredWasAcked`, `BudgetKept`, `AttemptsCounted`, `SuccessStands`,
  `DispatcherImplementsDelivery`, for any number of pods, batches and rejected ticks; `OneWorkerOverlaps` alone assumes a single pod.
  `SInv` says of each row that one event at most is about to create it (`Planned`), that nothing has touched it before (`Blank`), that while
  its attempts have not overlapped one of them runs at most, numbered one above the row's and with the row still pending
  (`Sole`), and that the attempts begun are those the row counts, those that run and those not counted (`Accounted`). An
  attempt is begun over another only by a tick, which counts it in `overlaps` (and takes the row out of `Sole`): so a late
  failure finds a success to overwrite only there. For one pod, `Numbered` (no attempt belongs to a tick yet to come) tells that
  an attempt that still runs when the slot is free is of an older tick, which was rejected. For the refinement the request that `Delivery` sees of a row is that of its only
  attempt, so that each step of an attempt is one of the row's, a tick that starts several is none, and a crash loses the
  requests of some rows at once.
- **`BillingProofs`**: `TypeCorrect`, `NeverOverdrawn`, `ReferenceChargedOnce`, `EventAppliedOnce`, `AllowanceNeverExceeded`,
  `BillingImplementsLedger`.
  `NoOverdraft` needs the rows that handlers read earlier and compute from to be non-negative (`Reads`), and
  that whoever owns the row lock stands between its UPDATE and COMMIT (`Pending`). The allowance is a bound on a sum over the
  refunds made. `Granted` extends it to the row being written, which counts the refund under way. What the sum gains with one
  refund more is a fact about a fold, proved in `Sums` by induction on the number of elements: the library's induction theorems
  take an operator as a parameter, so the induction there goes over a set of numbers instead, and rests on the well-foundedness of
  `<`. For the ledger, `OneAway` says that the row pending under the lock is one operation away from the committed one, which
  no other transaction has changed since: a call's cost, or one of the outcomes that `CreditLedger` allows an event whose
  handler found the row it read. So each COMMIT is the ledger's operation; of the other steps the look at the row and its end without a
  COMMIT are the ledger's too, and the rest stutter.
- **`LockProofs`**: `TypeCorrect`, `OneAtATime`, `OverlapNeedsLoss`, `IdleEvicted`, `MutexesImplementFifoLock`. With Redis a running function is
  explained by its token (`Tokens`). Without it, the mutex in the map is the one that everyone who waits or
  holds uses (`Users`), it was made by a call of that process and key (`Registered`), and its queue holds exactly
  those who wait, each once (`Queues`): without the last a hand-over could wake a call twice. For the refinement, `Served` adds that a
  mutex in the map has a holder, whose function runs: the short-lived mutexes that one key goes through then act as one queue.
- **`MembershipProofs`**: `TypeCorrect`, `LastOwnerStays`, `NoSilentStaleness`, `OwnersRule`. `Counted` says that while a request that
  nothing has overtaken (`dis`) is about to unseat an owner there are two; `Granted` that such a request read its caller as an
  owner; `Traced` that a value on its way to Redis is what the database holds, or has been or
  will be overtaken by an UNLINK. The cardinality of the owners is handled with the library's facts on finite sets.
- **`JobStreamProofs`, `TTSJobProofs`**: `TypeCorrect`, `NoEventTwice`, `CapHolds`, `CancelSticks`, `HandlerSkipsNone`. The invariant
  `StreamInv` says that what is on the wire lies between the browser's last id and the handler's `lastSent` (`Written`), that
  known events have different numbers, none above the counter or the highest one appended (`Numbered`), and that the ordered
  events of the buffer, of the channels and of what the handler holds back are above what stands before them (`Sorted`): hence a
  message that is dropped for its number has been written, or is not ordered. `TTSJobProofs` shows that the steps of jobs and cancellations keep it and adds
  what a cancelled job's worker can still do.

Model-checked only: liveness (`EveryJobSettles`, `ScheduledRetryEnds`, `CallsSettle`, `EventuallyFresh`, `JobSettles`), which is
beyond the prover. Every invariant, action property and refinement that a run checks and finds true is also a theorem.

Still without an abstract specification are `Cache` (a register that may answer with an older value until its
time to live ends), the streams (each browser reads a subsequence of what was emitted) and the life of a text-to-speech job: the
refinements to state and prove next.

## 5. Where code and comments differ

Shown by a run: `payout_skipped`, `payout_rekeyed`, `webhook_stranded`, `billing_resurrected`. Seen while
modelling, with no run of their own:

- Ticks of two pods overlap and send a row more than `MAX_ATTEMPTS` times, and a late failure can overwrite a
  success (`WebhookDispatcher.ts:534`); so do the ticks of one pod after one was rejected (`WebhookDispatcher.ts:544`), although
  `webhookRetryJob.ts` says that a single pod runs each tick. The properties name these rows (`overlaps`).
- `replayDelivery` sets the old row to pending with no retry time, where nothing picks it up (`controllers/webhooks.ts:196`).
- `LockService.ts:111-112` says the abort of a failed extension is there "so a second worker is never let in alongside it";
  no function reads the signal, so it is (the case `lost` in `LossExplainsOverlap`).
- A plan change computes its credits from a row read earlier: a deduction that commits in between is
  forgotten (`Outcomes` in `CreditLedger`), although `BillingService.ts:480` speaks of "preserving credits already used this period".
- An event whose Stripe fetch fails is recorded as processed and never sent again (`BillingService.ts:444`).
- `cache.ts:75` says the "fetcher is called at most once per cache interval regardless of request concurrency". A caller whose GET
  answered nil before another fetch settled looks at the single-flight map only afterwards, and fetches again; a caller that
  attaches to a fetch begun before a write gets the value from before it.
- `updateOrganization` unlinks the list of its caller only: the other members see the old name until the time to live ends
  (`Unlisted`; a case of `StaleExplained`).
- `organization.ts:181` "Never let the org end up without an owner": two owners demoted or removed at the same time are each
  counted while the other is there (`raced` in `OwnerKept`).
- `eventBus.ts:9,30` call the sequence numbers monotonically increasing: the counter expires an hour after the last event and starts
  again at one, below the last id of a browser that stayed connected. Two processes can append in the other order of
  their numbers, and the handler then passes over the lower one (`ordered` in `NothingSkipped`).
- A browser that reconnects before it has received an event sends no id, so what was emitted in between is not replayed; an event that
  was trimmed from the buffer before LRANGE is passed over even if the subscription still delivers it.
- The 'close' listener of `realtime.ts` is registered after the ticket is awaited: a connection closed before that takes a slot
  for ever (`leaked`). A native EventSource reconnects with the same URL, whose single-use ticket is gone, and gets 401.
- Every pod listens to the bus and emits through the Redis adapter of Socket.IO, so a room receives one copy per pod
  (`SocketService.ts:55-59`); `useJobStream.ts` listens for `job:progress`, which `SocketService` calls `job_progress`.
- Text-to-speech: a cancellation before the job's first write or after its last check is overwritten; one that read the row before it was
  completed turns a completed job to failed; a failed re-read after the `completed` write does so, too; a job
  whose process restarts stays `processing`; a `processing` event may follow the `failed` of a cancellation.
- `workers/index.ts:260` says "credits were deducted before the job was enqueued": no route uses `requireCredits`, and nothing but
  `schedule-post` itself enqueues social jobs.

## 6. Not modelled

- **Publishing worker**: it has no producer besides itself, and no deduction its refunds could be compared with; a job is one platform
  call under BullMQ's retries, which the payout model has with more to go wrong.
- **Web client session, migration service, dynamic configuration**: small, and each with one race, listed under `hazards`. The
  configuration's (a refresh overtaken by a write) is that of the cache; the client session's (a refresh that ends after
  a logout) and the migration lock's (deleted without a look at its owner) would be the next to add.
- **Authentication and lockout**: single Redis commands with a time to live, and look-ups. `modules/auth` is not mounted, and its
  controller refers to a `config` it does not declare.
- **Video transcoding**: sequential; its one defect, the input deleted before a retry, is a matter for a unit test.
- **Job queues, scheduled and platform jobs**: a registry of BullMQ queues, and one platform call per job. `jobs/workers.ts`, which
  starts them, breaks off in the middle of a statement at line 155 and does not compile, though `server.ts` imports it.
- **AI, moderation, monitoring, server lifecycle, persistence**: calls of external services, metrics, a sequence of close calls and
  connection set-up. The crashes, rows and keys that matter are steps of the models above.
- **Earlier copies** (`backend/src/modules/**`, `backend/src/shared/**`) repeat the services in an older form.
- **Web user interface**: most of the code by lines, and rendering, form state and translations throughout; nothing runs concurrently
  there but the session above, so the share of the repository's lines that the models stand for stays small.
- **Within the modelled components**: recurring payout schedules, which subscriptions a webhook event matches, checkout and portal sessions,
  `tryLock` and `releaseLock` (no caller), `invalidateCache` with literal keys, `SocketService`, the bus without Redis and the
  cap on streams per process.

Terraform, Kubernetes and CI files keep no state that a model checker could say anything about.
