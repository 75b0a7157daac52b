------------------------------ MODULE Billing ------------------------------
(***************************************************************************)
(* The credit account of one user: provisionUser, deductCredits,           *)
(* deductCreditsForTokens, refundCredits and handleWebhook of              *)
(* backend/src/services/BillingService.ts, statement by statement, on the  *)
(* READ COMMITTED isolation of Postgres; and, external, the subscription   *)
(* at Stripe and the events it sends in any order, again and again.        *)
(*                                                                         *)
(* Every transaction updates the user's Subscription row at most once.     *)
(* From then on it holds the row lock (owner) and its version of the row   *)
(* (draft) until it commits; the others read the committed row (sub).      *)
(***************************************************************************)
EXTENDS Integers, FiniteSetsExt

CONSTANTS
  Calls,    \* calls of the three credit operations
  Kind,     \* Kind[c]: "deduct" or "refund"
  Action,   \* Action[c]: the CreditAction it deducts or refunds
  Actions,  \* CreditActions
  Topup,    \* "credit:topup", under which every refund is logged
  Cost,     \* Cost[c]: credits call c deducts or refunds
  Ref,      \* Ref[c]: its referenceId, or NoRef
  Refs,     \* referenceIds
  Plans,    \* subscription plans
  Free,     \* the plan of a user who never paid
  Credits,  \* Credits[p]: PLAN_CREDITS
  Events,   \* Stripe event ids
  Handlers, \* concurrent calls of handleWebhook
  NoRef, NoTx, NoSub, NoEvent

ASSUME BillingConstants ==
  /\ Kind \in [Calls -> {"deduct", "refund"}]
  /\ Action \in [Calls -> Actions] /\ Topup \in Actions
  /\ Cost \in [Calls -> Nat \ {0}]
  /\ Ref \in [Calls -> Refs \cup {NoRef}] /\ NoRef \notin Refs
  /\ Free \in Plans /\ Credits \in [Plans -> Nat]
  /\ Calls \cap Handlers = {} /\ NoTx \notin Calls \cup Handlers
  /\ NoEvent \notin Events

VARIABLES
  sub,      \* the committed Subscription row, or NoSub
  draft,    \* the row as the owner of the lock has updated it
  owner,    \* transaction holding the row lock, or NoTx
  log,      \* keys of the committed CreditLog rows that have a reference
  pc,       \* pc[c]: the next statement of call c, or its outcome
  hd,       \* hd[h]: what webhook handler h is doing
  recorded, \* committed StripeEvent rows
  applied,  \* applied[e]: times the effect of event e was committed
  stripe,   \* the subscription at Stripe
  sent      \* sent[e]: the type of event e once Stripe sends it

account == <<sub, draft, owner, log>>
events == <<hd, recorded, applied>>
vars == <<sub, draft, owner, log, pc, hd, recorded, applied, stripe, sent>>

Statuses == {"active", "past_due", "canceled"}
\* linked: stripeSubscriptionId is set.
Rows == [plan : Plans, status : Statuses, linked : BOOLEAN, remaining : Int, monthly : Nat]
\* What the ledger keeps of a row.
Accounts == [plan : Plans, balance : Int, allowance : Nat]
ASSUME NoSubIsNoRow == NoSub \notin Rows \cup Accounts

LogKeys == [action : Actions, ref : Refs]
Types == {"updated", "deleted", "renewed", "failed"}
\* What subscriptions.retrieve answers for a subscription that goes on.
Running == [plan : Plans, status : {"active", "past_due"}]

\* read is the row the handler found, got what Stripe answered.
Nothing == [pc |-> "idle", ev |-> NoEvent, read |-> NoSub]
Handling == [pc : {"find", "commit"}, ev : Events, read : {NoSub}]
            \cup [pc : {"fetch", "write", "commit"}, ev : Events, read : Rows]
            \cup [pc : {"sync", "commit"}, ev : Events, read : Rows, got : Running]

\* The first statement: a deduction with a reference starts with the look at the
\* log.  deductCreditsForTokens is a deduction without a reference.
First(c) == IF Kind[c] = "deduct" /\ Ref[c] # NoRef THEN "prior" ELSE "check"

TypeOK ==
  /\ sub \in Rows \cup {NoSub}
  /\ draft \in Rows \cup {NoSub}
  /\ owner \in Calls \cup Handlers \cup {NoTx}
  /\ log \subseteq LogKeys
  /\ pc \in [Calls -> {"prior", "check", "update", "log", "committed", "known", "threw"}]
  /\ hd \in [Handlers -> Handling \cup {Nothing}]
  /\ recorded \subseteq Events
  /\ applied \in [Events -> Nat]
  /\ stripe \in [plan : Plans, status : Statuses \cup {"none"}]
  /\ sent \in [Events -> Types \cup {"none"}]

Init ==
  /\ sub = NoSub /\ draft = NoSub /\ owner = NoTx /\ log = {}
  /\ pc = [c \in Calls |-> First(c)]
  /\ hd = [h \in Handlers |-> Nothing]
  /\ recorded = {} /\ applied = [e \in Events |-> 0]
  /\ stripe = [plan |-> Free, status |-> "none"]
  /\ sent = [e \in Events |-> "none"]

-----------------------------------------------------------------------------
(* Transactions on the row                                                 *)

\* UPDATE: waits for the row lock, then works on the row last committed.
Update(t, row) ==
  /\ owner = NoTx
  /\ owner' = t
  /\ draft' = row
  /\ UNCHANGED <<sub, log>>

Commit(t, rows) ==
  /\ owner = t
  /\ sub' = draft
  /\ log' = log \cup rows
  /\ owner' = NoTx /\ draft' = NoSub

\* ROLLBACK gives up the lock and the version, if t had come to them.
Rollback(t) ==
  /\ IF owner = t THEN owner' = NoTx /\ draft' = NoSub ELSE UNCHANGED <<owner, draft>>
  /\ UNCHANGED <<sub, log>>

-----------------------------------------------------------------------------
(* provisionUser                                                           *)

NewUser == [plan |-> Free, status |-> "active", linked |-> FALSE,
            remaining |-> Credits[Free], monthly |-> Credits[Free]]

\* The row is inserted; a call that finds it or loses the race returns it.
Provision ==
  /\ sub = NoSub
  /\ sub' = NewUser
  /\ UNCHANGED <<draft, owner, log, pc, events, stripe, sent>>

-----------------------------------------------------------------------------
(* deductCredits, deductCreditsForTokens and refundCredits                 *)

LogAction(c) == IF Kind[c] = "refund" THEN Topup ELSE Action[c]

\* The unique index of CreditLog, for this user.
Key(c) == [action |-> LogAction(c), ref |-> Ref[c]]
Logged(c) == Ref[c] # NoRef /\ Key(c) \in log

Go(c, to) == pc' = [pc EXCEPT ![c] = to]

rest == <<events, stripe, sent>>

\* creditLog.findUnique on (user, action, reference).
Prior(c) ==
  /\ pc[c] = "prior"
  /\ Go(c, IF Logged(c) THEN "known" ELSE IF Kind[c] = "deduct" THEN "check" ELSE "update")
  /\ UNCHANGED <<account, rest>>

\* subscription.findUnique and the tests on it.
Check(c) ==
  /\ pc[c] = "check"
  /\ IF Kind[c] = "refund"
       THEN Go(c, IF sub = NoSub THEN "threw" ELSE "prior")
       ELSE Go(c, IF sub = NoSub THEN "threw"
                  ELSE IF sub.status = "active" THEN "update" ELSE "threw")
  /\ UNCHANGED <<account, rest>>

\* Mutant: the balance is tested when the subscription is read, not by the UPDATE.
DecrementUnguarded(c) ==
  /\ pc[c] = "update"
  /\ Kind[c] = "deduct"
  /\ Update(c, [sub EXCEPT !.remaining = @ - Cost[c]])
  /\ Go(c, "log")
  /\ UNCHANGED rest

\* updateMany WHERE creditsRemaining >= cost, tested under the row lock.
Decrement(c) ==
  /\ pc[c] = "update"
  /\ Kind[c] = "deduct"
  /\ owner = NoTx
  /\ IF sub.remaining >= Cost[c]
       THEN Update(c, [sub EXCEPT !.remaining = @ - Cost[c]]) /\ Go(c, "log")
       ELSE Go(c, "threw") /\ UNCHANGED account
  /\ UNCHANGED rest

Increment(c) ==
  /\ pc[c] = "update"
  /\ Kind[c] = "refund"
  /\ Update(c, [sub EXCEPT !.remaining = @ + Cost[c]])
  /\ Go(c, "log")
  /\ UNCHANGED rest

\* Mutant: the log has no unique index on (user, action, reference).
WriteLogTwice(c) ==
  /\ pc[c] = "log"
  /\ Commit(c, {Key(c)} \cap LogKeys)
  /\ Go(c, "committed")
  /\ UNCHANGED rest

\* creditLog.create and COMMIT, or the unique index throws (P2002).
WriteLog(c) ==
  /\ pc[c] = "log"
  /\ IF Logged(c)
       THEN Rollback(c) /\ Go(c, "threw")
       ELSE /\ Commit(c, {Key(c)} \cap LogKeys)
            /\ Go(c, "committed")
  /\ UNCHANGED rest

\* Mutant: the statements are not in one $transaction: the update stays.
FailOutsideTransaction(c) ==
  /\ pc[c] \in {"prior", "check", "update", "log"}
  /\ IF owner = c THEN Commit(c, {}) ELSE UNCHANGED account
  /\ Go(c, "threw")
  /\ UNCHANGED rest

\* A statement fails or the process dies: the transaction is rolled back.
Fail(c) ==
  /\ pc[c] \in {"prior", "check", "update", "log"}
  /\ Rollback(c)
  /\ Go(c, "threw")
  /\ UNCHANGED rest

-----------------------------------------------------------------------------
(* Stripe: the subscription and the events about it                        *)

\* Stripe gives a change its event, which it sends until it is answered.
Emit(type) == \E e \in Events : sent[e] = "none" /\ sent' = [sent EXCEPT ![e] = type]

Subscribe ==
  /\ stripe.status = "none" /\ sub # NoSub
  /\ \E p \in Plans : stripe' = [plan |-> p, status |-> "active"]
  /\ Emit("updated")
  /\ UNCHANGED <<account, pc, events>>

Live == stripe.status \in {"active", "past_due"}

ChangePlan ==
  /\ Live
  /\ \E p \in Plans \ {stripe.plan} : stripe' = [stripe EXCEPT !.plan = p]
  /\ Emit("updated")
  /\ UNCHANGED <<account, pc, events>>

CancelAtStripe ==
  /\ Live
  /\ stripe' = [stripe EXCEPT !.status = "canceled"]
  /\ Emit("deleted")
  /\ UNCHANGED <<account, pc, events>>

Invoice ==
  /\ Live
  /\ \/ Emit("renewed") /\ stripe' = [stripe EXCEPT !.status = "active"]
     \/ Emit("failed") /\ stripe' = [stripe EXCEPT !.status = "past_due"]
  /\ UNCHANGED <<account, pc, events>>

-----------------------------------------------------------------------------
(* handleWebhook                                                           *)

Busy(e) == \E h \in Handlers : hd[h].ev = e
Becomes(h, r) == hd' = [hd EXCEPT ![h] = r]

\* Mutant: a replayed event is not recognised.
ReceiveAgain(h, e) ==
  /\ hd[h] = Nothing
  /\ sent[e] # "none"
  /\ Becomes(h, [pc |-> "find", ev |-> e, read |-> NoSub])
  /\ UNCHANGED <<account, pc, recorded, applied, stripe, sent>>

\* stripeEvent.createMany(skipDuplicates): inserts the id, or waits for the
\* transaction that is inserting it.  A duplicate is ignored.
Receive(h, e) ==
  /\ hd[h] = Nothing
  /\ sent[e] # "none" /\ e \notin recorded /\ ~Busy(e)
  /\ Becomes(h, [pc |-> "find", ev |-> e, read |-> NoSub])
  /\ UNCHANGED <<account, pc, recorded, applied, stripe, sent>>

Type(h) == sent[hd[h].ev]
\* Handler h goes on without the row.
At(h, to) == [pc |-> to, ev |-> hd[h].ev, read |-> NoSub]

\* findFirst by customer, or by stripeSubscriptionId for a deletion.
Find(h) ==
  /\ hd[h].pc = "find"
  /\ IF sub = NoSub \/ (Type(h) = "deleted" /\ ~sub.linked)
       THEN Becomes(h, At(h, "commit"))
       ELSE Becomes(h, [pc |-> IF Type(h) = "updated" THEN "fetch" ELSE "write",
                        ev |-> hd[h].ev, read |-> sub])
  /\ UNCHANGED <<account, pc, recorded, applied, stripe, sent>>

\* Mutant: a subscription that has ended is not told from one that goes on.
FetchEnded(h) ==
  /\ hd[h].pc = "fetch"
  /\ Becomes(h, [pc |-> "sync", ev |-> hd[h].ev, read |-> hd[h].read, got |-> stripe])
  /\ UNCHANGED <<account, pc, recorded, applied, stripe, sent>>

\* subscriptions.retrieve: the answer is used unless the call fails or the
\* subscription has ended or names no known plan.
Fetch(h) ==
  /\ hd[h].pc = "fetch"
  /\ \/ Becomes(h, At(h, "commit"))
     \/ /\ Live
        /\ Becomes(h, [pc |-> "sync", ev |-> hd[h].ev, read |-> hd[h].read, got |-> stripe])
  /\ UNCHANGED <<account, pc, recorded, applied, stripe, sent>>

Least(x, y) == IF x <= y THEN x ELSE y
Greatest(x, y) == IF x <= y THEN y ELSE x

\* The row as Stripe has it (got), with the credits adjusted to a new plan from
\* the row r that was read.
Synced(r, got) ==
  LET used == Greatest(0, r.monthly - r.remaining)
      same == got.plan = r.plan
  IN  [plan |-> got.plan, status |-> got.status, linked |-> TRUE,
       monthly |-> IF same THEN sub.monthly ELSE Credits[got.plan],
       remaining |-> IF same THEN sub.remaining ELSE Greatest(0, Credits[got.plan] - used)]

\* Mutant: the end of a subscription takes the allowance but leaves the credits.
CanceledKeepingCredits(r) ==
  [plan |-> Free, status |-> "canceled", linked |-> FALSE,
   monthly |-> Credits[Free], remaining |-> r.remaining]

Canceled(r) ==
  [plan |-> Free, status |-> "canceled", linked |-> FALSE,
   monthly |-> Credits[Free], remaining |-> Least(r.remaining, Credits[Free])]

Renewed(r) ==
  [plan |-> sub.plan, status |-> sub.status, linked |-> sub.linked,
   monthly |-> Credits[r.plan], remaining |-> Credits[r.plan]]

PastDue == [sub EXCEPT !.status = "past_due"]

\* subscription.update with values computed from the row read earlier.
Write(h) ==
  /\ \/ /\ hd[h].pc = "sync"
        /\ Update(h, Synced(hd[h].read, hd[h].got))
     \/ /\ hd[h].pc = "write"
        /\ \/ Type(h) = "deleted" /\ Update(h, Canceled(hd[h].read))
           \/ Type(h) = "renewed" /\ Update(h, Renewed(hd[h].read))
           \/ Type(h) = "failed" /\ Update(h, PastDue)
  /\ hd' = [hd EXCEPT ![h].pc = "commit"]
  /\ UNCHANGED <<pc, recorded, applied, stripe, sent>>

\* COMMIT of the event row with the update, if there was one.
Finish(h) ==
  /\ hd[h].pc = "commit"
  /\ IF owner = h THEN Commit(h, {}) ELSE UNCHANGED account
  /\ recorded' = recorded \cup {hd[h].ev}
  /\ applied' = [applied EXCEPT ![hd[h].ev] = @ + 1]
  /\ Becomes(h, Nothing)
  /\ UNCHANGED <<pc, stripe, sent>>

\* A statement or a Stripe call throws, or the process dies: Stripe gets no 2xx
\* answer and sends the event again.
Abort(h) ==
  /\ hd[h] # Nothing
  /\ Rollback(h)
  /\ Becomes(h, Nothing)
  /\ UNCHANGED <<pc, recorded, applied, stripe, sent>>

-----------------------------------------------------------------------------
CallStep(c) ==
  Prior(c) \/ Check(c) \/ Decrement(c) \/ Increment(c) \/ WriteLog(c) \/ Fail(c)

HandlerStep(h) == Find(h) \/ Fetch(h) \/ Write(h) \/ Finish(h)

Next ==
  \/ Provision
  \/ \E c \in Calls : CallStep(c)
  \/ Subscribe \/ ChangePlan \/ CancelAtStripe \/ Invoice
  \/ \E h \in Handlers : HandlerStep(h) \/ Abort(h) \/ \E e \in Events : Receive(h, e)

Spec == Init /\ [][Next]_vars

-----------------------------------------------------------------------------
(* Properties                                                              *)

\* No mix of concurrent deductions, refunds and Stripe events, whose absolute
\* writes come from stale reads, makes the balance negative.
NoOverdraft ==
  /\ sub # NoSub => sub.remaining >= 0
  /\ owner # NoTx => draft.remaining >= 0

\* Nor does it give more credits than the monthly allowance of the row and the
\* refunds made (BillingService: PLAN_CREDITS, Math.min and Math.max).
RefundsMade == {c \in Calls : Kind[c] = "refund" /\ pc[c] = "committed"}
Refunded == MapThenSumSet(LAMBDA c : Cost[c], RefundsMade)
AllowanceKept == sub # NoSub => sub.remaining <= sub.monthly + Refunded

\* The deductions of one action with one reference change the balance once, and
\* so do the refunds with one reference, however many calls race for it.
ChargedOnce ==
  \A c, d \in Calls :
    /\ Ref[c] # NoRef /\ Key(c) = Key(d)
    /\ pc[c] = "committed" /\ pc[d] = "committed"
    => c = d

\* "a replayed event.id hits the PK and is ignored": redelivered and concurrent
\* deliveries of an event take effect once.
AppliedOnce == \A e \in Events : applied[e] <= 1

\* What the credits of a row, if there is one, are to the ledger.
CreditsOf(r) ==
  IF r = NoSub THEN NoSub
  ELSE [plan |-> r.plan, balance |-> r.remaining, allowance |-> r.monthly]

Ledger == INSTANCE CreditLedger WITH
  NoAccount <- NoSub,
  account <- CreditsOf(sub),
  seen <- [h \in Handlers |-> CreditsOf(hd[h].read)],
  done <- {c \in Calls : pc[c] = "committed"},
  processed <- recorded

\* Behind the row lock and the unique index each call takes effect at once on the
\* balance last committed, or not at all, and each event once, by the amounts it
\* works out from the row its handler found: a new month apart, only a change of
\* plan or a cancellation can forget a call, and only one that committed since then.
ImplementsLedger == Ledger!Spec

\* "re-fetch the authoritative state so a delayed `updated` event cannot resurrect
\* a cancelled subscription": once all its events are processed, a subscription
\* that ended at Stripe is not active here.
NoResurrection ==
  /\ stripe.status = "canceled"
  /\ \A e \in Events : sent[e] # "none" => e \in recorded
  => ~(sub.status = "active" /\ sub.linked)
=============================================================================
