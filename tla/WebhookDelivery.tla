-------------------------- MODULE WebhookDelivery --------------------------
(***************************************************************************)
(* Outgoing webhooks: dispatchEvent, attemptDelivery and                   *)
(* retryPendingDeliveries of backend/src/services/WebhookDispatcher.ts,    *)
(* the repeatable job of backend/src/jobs/webhookRetryJob.ts that calls    *)
(* the last one, and replayDelivery of backend/src/controllers/webhooks.ts *)
(*                                                                         *)
(* Attempts run concurrently: the first attempt of a row is started by     *)
(* dispatchEvent and not awaited, the later ones by the retry worker of    *)
(* each pod, which has one slot for ticks (concurrency: 1).  Promise.all   *)
(* rejects with the first attempt that does: the slot is then free while   *)
(* the other attempts of the tick run on.  Which subscriptions are active  *)
(* only decides how many rows an event creates.                            *)
(***************************************************************************)
EXTENDS Integers, FiniteSets

CONSTANTS
  Rows,         \* WebhookDelivery ids
  Pods,         \* server processes, each with a retry worker
  MAX_ATTEMPTS, \* 5 in WebhookDispatcher.ts
  Take,         \* rows one tick reads (50)
  MaxReplays,   \* bound: replays requested by users
  MaxCrashes,   \* bound: processes killed
  MaxDbErrors   \* bound: updates of a row that fail

ASSUME WebhookConstants ==
  /\ MAX_ATTEMPTS \in Nat \ {0}
  /\ Take \in Nat \ {0}
  /\ MaxReplays \in Nat /\ MaxCrashes \in Nat /\ MaxDbErrors \in Nat

VARIABLES
  row,       \* row[d]: the WebhookDelivery row d
  event,     \* event[p]: rows a dispatchEvent call of pod p has yet to create
  att,       \* att[a]: the attempt that activity a is making
  tick,      \* tick[p]: number of the tick that has, or will have, p's slot
  acked,     \* rows for which the subscriber answered 2xx
  begun,     \* begun[d]: attempts begun for d
  uncounted, \* uncounted[d]: those that ended and did not write their number
  overlaps,  \* overlaps[d]: those begun while another attempt of d was running
  replays, crashes, dbErrors \* counters for the bounds

counts == <<begun, uncounted, overlaps>>
bounds == <<replays, crashes, dbErrors>>
vars == <<row, event, att, tick, acked, counts, bounds>>

\* An activity is a pod's first attempt of a row, or the retry of one of its
\* ticks.  Only a tick that was rejected needs a number of its own: the attempts
\* of one that returned are over.
First == 0
Ticks == 1 .. (MaxDbErrors + 1)
Acts == Pods \X ({First} \cup Ticks) \X Rows
PodOf(a) == a[1]
RowOf(a) == a[3]

\* The awaits of attemptDelivery: validating the URL, waiting for the response
\* headers, reading the body, and writing the outcome.
Phases == {"begin", "headers", "bodyOk", "bodyBad", "ok", "bad"}

NoAttempt == [pc |-> "none", n |-> 0]
NoRow == [status |-> "none", attempts |-> 0, next |-> "null"]

\* next stands for nextRetryAt: null, in the future, or in the past.
RowType == [status : {"none", "pending", "success", "failed"}, attempts : Nat,
            next : {"null", "later", "due"}]

TypeOK ==
  /\ row \in [Rows -> RowType]
  /\ event \in [Pods -> SUBSET Rows]
  /\ att \in [Acts -> [pc : Phases, n : Nat \ {0}] \cup {NoAttempt}]
  /\ tick \in [Pods -> Ticks]
  /\ acked \subseteq Rows
  /\ begun \in [Rows -> Nat] /\ uncounted \in [Rows -> Nat] /\ overlaps \in [Rows -> Nat]
  /\ replays \in Nat /\ crashes \in Nat /\ dbErrors \in Nat

Init ==
  /\ row = [d \in Rows |-> NoRow]
  /\ event = [p \in Pods |-> {}]
  /\ att = [a \in Acts |-> NoAttempt]
  /\ tick = [p \in Pods |-> 1]
  /\ acked = {}
  /\ begun = [d \in Rows |-> 0]
  /\ uncounted = [d \in Rows |-> 0]
  /\ overlaps = [d \in Rows |-> 0]
  /\ replays = 0 /\ crashes = 0 /\ dbErrors = 0

Running(a) == att[a] # NoAttempt
Attempted(d) == \E a \in Acts : RowOf(a) = d /\ Running(a)

\* f with one more for every row of D.
Counted(f, D) == [d \in Rows |-> f[d] + IF d \in D THEN 1 ELSE 0]

-----------------------------------------------------------------------------
(* dispatchEvent and replayDelivery                                        *)

\* Row ids no event has used or is about to use.
Unused == {d \in Rows : row[d].status = "none" /\ \A p \in Pods : d \notin event[p]}

\* dispatchEvent reads the active subscriptions: one row will be made for each.
Publish(p) ==
  /\ event[p] = {}
  /\ \E S \in SUBSET Unused : S # {} /\ event' = [event EXCEPT ![p] = S]
  /\ UNCHANGED <<row, att, tick, acked, counts, bounds>>

\* The row is created and its first attempt started, not awaited.
Create(p, d) ==
  /\ d \in event[p]
  /\ event' = [event EXCEPT ![p] = @ \ {d}]
  /\ row' = [row EXCEPT ![d] = [status |-> "pending", attempts |-> 0, next |-> "null"]]
  /\ att' = [att EXCEPT ![<<p, First, d>>] = [pc |-> "begin", n |-> 1]]
  /\ begun' = Counted(begun, {d})
  /\ UNCHANGED <<tick, acked, uncounted, overlaps, bounds>>

\* Mutant: the old row is sent again at once, too.
ReplayAtOnce(p, d) ==
  /\ replays < MaxReplays
  /\ event[p] = {}
  /\ row[d].status # "none"
  /\ row' = [row EXCEPT ![d] = [@ EXCEPT !.status = "pending", !.next = "null"]]
  /\ att' = [att EXCEPT ![<<p, First, d>>] = [pc |-> "begin", n |-> row[d].attempts + 1]]
  /\ begun' = Counted(begun, {d})
  /\ replays' = replays + 1
  /\ UNCHANGED <<event, tick, acked, uncounted, overlaps, crashes, dbErrors>>

\* replayDelivery resets the old row, whatever its status, and dispatches the
\* event anew, which makes new rows.
Replay(p, d) ==
  /\ replays < MaxReplays
  /\ event[p] = {}
  /\ row[d].status # "none"
  /\ row' = [row EXCEPT ![d] = [@ EXCEPT !.status = "pending", !.next = "null"]]
  /\ \E S \in SUBSET Unused : event' = [event EXCEPT ![p] = S]
  /\ replays' = replays + 1
  /\ UNCHANGED <<att, tick, acked, counts, crashes, dbErrors>>

-----------------------------------------------------------------------------
(* attemptDelivery                                                         *)

\* What the update of a row writes at the end of attempt n.
Succeeded(n) == [status |-> "success", attempts |-> n, next |-> "null"]
Failed(n) == [status |-> "failed", attempts |-> n, next |-> "null"]

\* Mutant: one attempt too many is scheduled.
FailedAttemptLate(n) ==
  IF n <= MAX_ATTEMPTS THEN [status |-> "pending", attempts |-> n, next |-> "later"]
  ELSE Failed(n)

FailedAttempt(n) ==
  IF n < MAX_ATTEMPTS THEN [status |-> "pending", attempts |-> n, next |-> "later"]
  ELSE Failed(n)

\* The attempt of a ends and its row becomes r.
EndsWith(a, r) ==
  /\ row' = [row EXCEPT ![RowOf(a)] = r]
  /\ att' = [att EXCEPT ![a] = NoAttempt]
  /\ UNCHANGED <<event, tick, acked, begun, overlaps, bounds>>

NotCounted(a) == uncounted' = Counted(uncounted, {RowOf(a)})

\* Mutant: the attempt that was blocked is taken off the count.
BlockUncounted(a) ==
  /\ att[a].pc = "begin"
  /\ EndsWith(a, Failed(row[RowOf(a)].attempts - 1))
  /\ NotCounted(a)

\* resolveSigningSecret cannot decrypt the secret, or assertSafeUrl rejects the
\* URL: failed for good; only the latter writes the number of attempts.
Block(a) ==
  /\ att[a].pc = "begin"
  /\ \/ EndsWith(a, Failed(row[RowOf(a)].attempts)) /\ NotCounted(a)
     \/ EndsWith(a, Failed(att[a].n)) /\ UNCHANGED uncounted

MoveTo(a, pc) == att' = [att EXCEPT ![a].pc = pc]

\* safeFetch sends the request.
Post(a) ==
  /\ att[a].pc = "begin"
  /\ MoveTo(a, "headers")
  /\ UNCHANGED <<row, event, tick, acked, counts, bounds>>

\* The response headers arrive; the abort timer is cleared.
Answer(a) ==
  /\ att[a].pc = "headers"
  /\ \/ MoveTo(a, "bodyOk") /\ acked' = acked \cup {RowOf(a)}
     \/ MoveTo(a, "bodyBad") /\ UNCHANGED acked
  /\ UNCHANGED <<row, event, tick, counts, bounds>>

\* The abort timer fires, or the connection fails, before the headers.
TimeOut(a) ==
  /\ att[a].pc = "headers"
  /\ MoveTo(a, "bad")
  /\ UNCHANGED <<row, event, tick, acked, counts, bounds>>

\* readBodyCapped finishes, or the connection fails while it reads.
ReadBody(a) ==
  /\ \/ att[a].pc = "bodyOk" /\ MoveTo(a, "ok")
     \/ att[a].pc \in {"bodyOk", "bodyBad"} /\ MoveTo(a, "bad")
  /\ UNCHANGED <<row, event, tick, acked, counts, bounds>>

\* Mutant: res.ok is not looked at before the success is written.
WriteAnySuccess(a) ==
  att[a].pc \in {"ok", "bad"} /\ EndsWith(a, Succeeded(att[a].n)) /\ UNCHANGED uncounted

WriteSuccess(a) ==
  att[a].pc = "ok" /\ EndsWith(a, Succeeded(att[a].n)) /\ UNCHANGED uncounted

WriteFailure(a) ==
  att[a].pc = "bad" /\ EndsWith(a, FailedAttempt(att[a].n)) /\ UNCHANGED uncounted

\* An update of the row throws, and the attempt does or does not go on.
UpdateThrows ==
  /\ dbErrors < MaxDbErrors
  /\ dbErrors' = dbErrors + 1
  /\ UNCHANGED <<row, event, acked, begun, overlaps, replays, crashes>>

\* The update of a success throws inside the try and is handled as a failed
\* attempt; that of a failure, or of a URL that was refused, ends the attempt,
\* and its caller's catch only logs.
DbError(a) ==
  /\ UpdateThrows
  /\ \/ att[a].pc = "ok" /\ MoveTo(a, "bad") /\ UNCHANGED uncounted
     \/ /\ att[a].pc \in {"begin", "bad"}
        /\ att' = [att EXCEPT ![a] = NoAttempt]
        /\ NotCounted(a)
  /\ UNCHANGED tick

\* The update of resolveSigningSecret throws.  In a tick nothing catches it:
\* Promise.all rejects, the job fails and the slot takes the next tick, while
\* the other attempts of this one go on.
SecretFails(a) ==
  /\ UpdateThrows
  /\ att[a].pc = "begin"
  /\ att' = [att EXCEPT ![a] = NoAttempt]
  /\ NotCounted(a)
  /\ tick' = IF a[2] = tick[PodOf(a)] THEN [tick EXCEPT ![PodOf(a)] = @ + 1] ELSE tick

-----------------------------------------------------------------------------
(* retryPendingDeliveries                                                  *)

\* Time passes nextRetryAt.
BecomeDue(d) ==
  /\ row[d].next = "later"
  /\ row' = [row EXCEPT ![d].next = "due"]
  /\ UNCHANGED <<event, att, tick, acked, counts, bounds>>

\* Mutant: the last attempt is never due.
DueOneShort == {d \in Rows : /\ row[d].status = "pending" /\ row[d].next = "due"
                            /\ row[d].attempts + 1 < MAX_ATTEMPTS}

Due == {d \in Rows : row[d].status = "pending" /\ row[d].next = "due"}

\* The slot of p is free: every attempt of its tick has ended, or none begun.
TickOver(p) == \A d \in Rows : ~Running(<<p, tick[p], d>>)

\* Pod p's worker starts the next attempt of every row of S, in parallel.
Retry(p, S) ==
  /\ S # {}
  /\ att' = [a \in Acts |-> IF PodOf(a) = p /\ a[2] = tick[p] /\ RowOf(a) \in S
                            THEN [pc |-> "begin", n |-> row[RowOf(a)].attempts + 1]
                            ELSE att[a]]
  /\ begun' = Counted(begun, S)
  /\ overlaps' = Counted(overlaps, {d \in S : Attempted(d)})
  /\ UNCHANGED <<row, event, tick, acked, uncounted, bounds>>

\* The batch findMany({..., take: 50}) may return, in no particular order.
Batches == {S \in SUBSET Due : Cardinality(S) = Take \/ (S = Due /\ Cardinality(S) < Take)}

\* Mutant: a tick starts although the previous one has not returned.
TickOverlapping(p) == \E S \in Batches : Retry(p, S)

\* The worker of pod p runs a tick that finds something to do.
Tick(p) == TickOver(p) /\ \E S \in Batches : Retry(p, S)

-----------------------------------------------------------------------------
(* The environment and the specification                                   *)

\* Pod p is killed: its calls are gone, a later process takes its place.
Crash(p) ==
  /\ crashes < MaxCrashes
  /\ event' = [event EXCEPT ![p] = {}]
  /\ att' = [a \in Acts |-> IF PodOf(a) = p THEN NoAttempt ELSE att[a]]
  /\ uncounted' = Counted(uncounted, {RowOf(a) : a \in {b \in Acts : PodOf(b) = p /\ Running(b)}})
  /\ crashes' = crashes + 1
  /\ UNCHANGED <<row, tick, acked, begun, overlaps, replays, dbErrors>>

AttemptStep(a) ==
  \/ Block(a) \/ Post(a) \/ Answer(a) \/ TimeOut(a) \/ ReadBody(a)
  \/ WriteSuccess(a) \/ WriteFailure(a) \/ DbError(a) \/ SecretFails(a)

PodStep(p) ==
  \/ Publish(p) \/ Tick(p) \/ Crash(p)
  \/ \E d \in Rows : Create(p, d) \/ Replay(p, d)

Next ==
  \/ \E p \in Pods : PodStep(p)
  \/ \E a \in Acts : AttemptStep(a)
  \/ \E d \in Rows : BecomeDue(d)

Spec == Init /\ [][Next]_vars

\* What the code and time guarantee: the event loop runs every call on, the
\* abort timer bounds the wait for the headers, the job ticks every minute.
Fairness ==
  /\ \A d \in Rows : WF_vars(BecomeDue(d))
  /\ \A p \in Pods : WF_vars(Tick(p)) /\ \A d \in Rows : WF_vars(Create(p, d))
  /\ \A a \in Acts : /\ WF_vars(Block(a) \/ Post(a))
                     /\ WF_vars(Answer(a) \/ TimeOut(a))
                     /\ WF_vars(WriteSuccess(a) \/ WriteFailure(a))

FairSpec == Spec /\ Fairness

\* What it takes besides: subscribers that finish the body they started.
PatientSpec == FairSpec /\ \A a \in Acts : WF_vars(ReadBody(a))

-----------------------------------------------------------------------------
(* Properties                                                              *)

\* attemptDelivery writes 'success' only when the subscriber answered 2xx, and
\* no mix of retries, replays and failed updates makes another row successful.
SuccessMeansAcked == \A d \in Rows : row[d].status = "success" => d \in acked

\* Whatever the pods, crashes and replays: a row the retry worker may pick up
\* has attempts left, so that RETRY_DELAYS_MS is never indexed out of range and
\* an attempt is never numbered beyond MAX_ATTEMPTS.
RetryBudget ==
  /\ \A d \in Rows : row[d].next # "null" =>
       row[d].status = "pending" /\ row[d].attempts \in 1 .. (MAX_ATTEMPTS - 1)
  /\ \A a \in Acts : att[a].n <= MAX_ATTEMPTS

\* Whatever the pods, crashes, replays and rejected ticks: a row is attempted no
\* more than MAX_ATTEMPTS times, but for the attempts whose number nobody wrote
\* and for those that were begun over one still running, each of which costs at
\* most one more (retryPendingDeliveries counts by the number it read).
AttemptsAccounted ==
  \A d \in Rows : begun[d] <= MAX_ATTEMPTS + uncounted[d] + overlaps[d]

\* A success is overwritten only by a replay, or if attempts of the row have
\* overlapped, when a late failure of one can follow the success of the other.
SuccessIsFinal ==
  [][\A d \in Rows : row[d].status = "success" =>
       \/ row'[d].status = "success" \/ overlaps[d] > 0
       \/ \E p \in Pods : Replay(p, d)]_vars

\* With a single retry worker, attempts of a row overlap only after a tick was
\* rejected: the one slot keeps ticks that return apart, and a first attempt has
\* no retry time to be found by (webhookRetryJob.ts: "only one pod runs each
\* tick").
OverlapNeedsRejection ==
  (\E d \in Rows : overlaps[d] > 0) => \E p \in Pods : tick[p] > 1

\* How far the requests of a row are.
At(d, pcs) == \E a \in Acts : RowOf(a) = d /\ att[a].pc \in pcs

Request(d) ==
  IF At(d, {"headers"}) THEN "waiting"
  ELSE IF At(d, {"bodyOk", "ok"}) THEN "accepted"
  ELSE IF At(d, {"bodyBad", "bad"}) THEN "rejected"
  ELSE "none"

\* A row whose attempts have overlapped is out of the promise.
Sequential == INSTANCE Delivery WITH
  status <- [d \in Rows |-> IF overlaps[d] > 0 THEN "overlapped" ELSE row[d].status],
  tries <- [d \in Rows |-> IF overlaps[d] > 0 THEN 0 ELSE row[d].attempts],
  request <- [d \in Rows |-> IF overlaps[d] > 0 THEN "none" ELSE Request(d)]

\* The pods, their ticks and the attempts they run in parallel behave, row by
\* row, as Delivery says, as long as no attempt of the row is begun over another:
\* no answer of one request is written as the outcome of another, and no attempt
\* outlives the one that follows it.
ImplementsDelivery == Sequential!Spec

\* If every body that a subscriber begins to send ends some day, a row that has a
\* retry time is retried until it is settled or a replay resets it: a crashed or
\* rejected tick, a failed update or another row of the batch makes none
\* forgotten (attemptDelivery sets no limit on the time readBodyCapped takes).
BodiesEnd == \A a \in Acts : []<>(att[a].pc \notin {"bodyOk", "bodyBad"})

ScheduledRetryEnds ==
  BodiesEnd => \A d \in Rows : row[d].next # "null" ~> row[d].next = "null"

\* "Each delivery is persisted so retries survive restarts": a pending delivery
\* ends delivered or failed.
DeliverySettles == \A d \in Rows : row[d].status = "pending" ~> row[d].status \in {"success", "failed"}
=============================================================================
