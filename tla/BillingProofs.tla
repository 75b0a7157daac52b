--------------------------- MODULE BillingProofs ---------------------------
(***************************************************************************)
(* Proofs about Billing, for any calls, handlers, events and plans: the    *)
(* types, the balance that is never negative and never more than the       *)
(* allowance and the refunds made, references and events that take effect  *)
(* once, and the ledger that all of them amount to.  They need no bound    *)
(* and no fairness.                                                        *)
(***************************************************************************)
EXTENDS Billing, Sums

-----------------------------------------------------------------------------
(* The account                                                             *)

\* Who holds the row lock is between its UPDATE and its COMMIT, and a call or a
\* handler that has passed its look at the subscription found a row.
Pending ==
  /\ owner \in Calls => draft \in Rows /\ pc[owner] = "log"
  /\ owner \in Handlers =>
       draft \in Rows /\ hd[owner].pc = "commit" /\ hd[owner].read # NoSub
  /\ \A c \in Calls :
       /\ pc[c] = "log" => owner = c
       /\ pc[c] = "update" => sub # NoSub
       /\ pc[c] = "prior" /\ Kind[c] # "deduct" => sub # NoSub

\* The rows handlers compute from, however stale, were never overdrawn.
Reads ==
  \A h \in Handlers : hd[h].read # NoSub => sub # NoSub /\ hd[h].read.remaining >= 0

IInv == TypeOK /\ Pending /\ Reads /\ NoOverdraft

\* What a handler's record holds at each of its statements.
LEMMA HandlerParts ==
  ASSUME TypeOK, NEW h \in Handlers
  PROVE  /\ hd[h] = Nothing <=> hd[h].pc = "idle"
         /\ hd[h].pc \in {"idle", "find", "commit", "fetch", "write", "sync"}
         /\ hd[h].pc = "idle" => hd[h].ev = NoEvent
         /\ hd[h].pc # "idle" => hd[h].ev \in Events
         /\ hd[h].pc \in {"fetch", "write", "sync"} => hd[h].read \in Rows
         /\ hd[h].pc \in {"idle", "find"} => hd[h].read = NoSub
         /\ hd[h].read \in Rows \cup {NoSub}
         /\ hd[h].pc = "sync" => hd[h].got \in Running
  BY DEF TypeOK, Nothing, Handling

\* Every row a handler writes is a row, and not overdrawn if the ones it is made
\* from were not.
LEMMA WrittenRows ==
  ASSUME sub \in Rows, sub.remaining >= 0,
         NEW r \in Rows, r.remaining >= 0
  PROVE  /\ \A got \in Running : Synced(r, got) \in Rows /\ Synced(r, got).remaining >= 0
         /\ Canceled(r) \in Rows /\ Canceled(r).remaining >= 0
         /\ Renewed(r) \in Rows /\ Renewed(r).remaining >= 0
         /\ PastDue \in Rows /\ PastDue.remaining >= 0
<1>1. Credits[Free] \in Nat /\ Credits[r.plan] \in Nat /\ Free \in Plans
  BY BillingConstants DEF Rows
<1>2. ASSUME NEW got \in Running
      PROVE  Synced(r, got) \in Rows /\ Synced(r, got).remaining >= 0
  <2>0. Credits[got.plan] \in Nat /\ got.plan \in Plans /\ got.status \in Statuses
    BY BillingConstants DEF Running, Statuses
  <2> DEFINE left == Greatest(0, Credits[got.plan] - Greatest(0, r.monthly - r.remaining))
  <2>1. left \in Nat
    BY <2>0 DEF Rows, Greatest
  <2>2. sub.monthly \in Nat /\ sub.remaining \in Nat
    BY DEF Rows
  <2> HIDE DEF left
  <2>3. Synced(r, got) =
          [plan |-> got.plan, status |-> got.status, linked |-> TRUE,
           monthly |-> IF got.plan = r.plan THEN sub.monthly ELSE Credits[got.plan],
           remaining |-> IF got.plan = r.plan THEN sub.remaining ELSE left]
    BY DEF Synced, left
  <2> QED
    BY <2>0, <2>1, <2>2, <2>3 DEF Rows
<1>3. Canceled(r) \in Rows /\ Canceled(r).remaining >= 0
  BY <1>1 DEF Canceled, Least, Rows, Statuses
<1>4. Renewed(r) \in Rows /\ Renewed(r).remaining >= 0
  BY <1>1 DEF Renewed, Rows
<1>5. PastDue \in Rows /\ PastDue.remaining >= 0
  BY DEF PastDue, Rows, Statuses
<1> QED
  BY <1>2, <1>3, <1>4, <1>5

LEMMA InitIInv == Init => IInv
  BY BillingConstants DEF Init, IInv, TypeOK, Pending, Reads, NoOverdraft, Nothing, First

LEMMA ProvisionKeepsIInv == IInv /\ Provision => IInv'
<1> SUFFICES ASSUME IInv, Provision PROVE IInv'
  OBVIOUS
<1>1. NewUser \in Rows /\ NewUser.remaining >= 0
  BY BillingConstants DEF NewUser, Rows, Statuses
<1>2. TypeOK'
  BY <1>1 DEF IInv, TypeOK, Provision, events
<1> QED
  BY <1>1, <1>2 DEF IInv, Provision, Pending, Reads, NoOverdraft, events

\* One statement of deductCredits, deductCreditsForTokens or refundCredits.
LEMMA CallKeepsIInv == ASSUME IInv, NEW c \in Calls, CallStep(c) PROVE IInv'
<1> USE BillingConstants, NoSubIsNoRow
<1>1. UNCHANGED <<hd, recorded, applied, stripe, sent>>
  BY DEF CallStep, Prior, Check, Decrement, Increment, WriteLog, Fail, rest, events
<1>2. CASE Prior(c)
  BY <1>1, <1>2 DEF Prior, Go, account, IInv, TypeOK, Pending, Reads, NoOverdraft
<1>3. CASE Check(c)
  BY <1>1, <1>3 DEF Check, Go, account, IInv, TypeOK, Pending, Reads, NoOverdraft
<1>4. CASE Decrement(c)
  <2>1. CASE sub.remaining >= Cost[c]
    <3>1. sub \in Rows
      BY <1>4 DEF Decrement, IInv, TypeOK, Pending
    <3>2. draft' \in Rows /\ draft'.remaining >= 0
      BY <1>4, <2>1, <3>1 DEF Decrement, Update, Rows
    <3> QED
      BY <1>1, <1>4, <2>1, <3>2 DEF Decrement, Update, Go, IInv, TypeOK, Pending, Reads, NoOverdraft
  <2>2. CASE ~(sub.remaining >= Cost[c])
    BY <1>1, <1>4, <2>2 DEF Decrement, Go, account, IInv, TypeOK, Pending, Reads, NoOverdraft
  <2> QED
    BY <2>1, <2>2
<1>5. CASE Increment(c)
  <2>1. sub \in Rows /\ sub # NoSub
    BY <1>5 DEF Increment, IInv, TypeOK, Pending
  <2>2. draft' \in Rows /\ draft'.remaining >= 0
    <3>1. sub.remaining + Cost[c] \in Int /\ sub.remaining + Cost[c] >= 0
      BY <2>1 DEF Rows, IInv, NoOverdraft, Pending
    <3>2. draft' = [sub EXCEPT !.remaining = sub.remaining + Cost[c]]
      BY <1>5 DEF Increment, Update
    <3> HIDE DEF IInv
    <3> QED
      BY <2>1, <3>1, <3>2 DEF Rows
  <2> QED
    BY <1>1, <1>5, <2>2 DEF Increment, Update, Go, IInv, TypeOK, Pending, Reads, NoOverdraft
<1>6. CASE WriteLog(c)
  <2>1. owner = c /\ draft \in Rows
    BY <1>6 DEF WriteLog, IInv, Pending
  <2>2. CASE Logged(c)
    BY <1>1, <1>6, <2>1, <2>2 DEF WriteLog, Rollback, Go, IInv, TypeOK, Pending, Reads, NoOverdraft
  <2>3. CASE ~Logged(c)
    BY <1>1, <1>6, <2>1, <2>3 DEF WriteLog, Commit, Go, IInv, TypeOK, Pending, Reads, NoOverdraft
  <2> QED
    BY <2>2, <2>3
<1>7. CASE Fail(c)
  BY <1>1, <1>7 DEF Fail, Rollback, Go, IInv, TypeOK, Pending, Reads, NoOverdraft
<1> QED
  BY <1>2, <1>3, <1>4, <1>5, <1>6, <1>7 DEF CallStep

\* A change at Stripe touches only the subscription there and the events sent.
LEMMA StripeKeepsIInv ==
  IInv /\ (Subscribe \/ ChangePlan \/ CancelAtStripe \/ Invoice) => IInv'
<1> SUFFICES ASSUME IInv, Subscribe \/ ChangePlan \/ CancelAtStripe \/ Invoice PROVE IInv'
  OBVIOUS
<1>1. UNCHANGED <<account, pc, events>>
  BY DEF Subscribe, ChangePlan, CancelAtStripe, Invoice
<1>2. stripe' \in [plan : Plans, status : Statuses \cup {"none"}]
  BY DEF Subscribe, ChangePlan, CancelAtStripe, Invoice, IInv, TypeOK, Statuses
<1>3. sent' \in [Events -> Types \cup {"none"}]
  BY DEF Subscribe, ChangePlan, CancelAtStripe, Invoice, Emit, IInv, TypeOK, Types
<1> QED
  BY <1>1, <1>2, <1>3 DEF account, events, IInv, TypeOK, Pending, Reads, NoOverdraft

\* One statement of handleWebhook.
LEMMA HandlerKeepsIInv ==
  ASSUME IInv, NEW h \in Handlers,
         HandlerStep(h) \/ Abort(h) \/ \E e \in Events : Receive(h, e)
  PROVE  IInv'
<1> USE BillingConstants, NoSubIsNoRow, HandlerParts
<1> USE DEF Becomes, At
<1>0. TypeOK
  BY DEF IInv
<1>1. UNCHANGED <<pc, stripe, sent>>
  BY DEF HandlerStep, Find, Fetch, Write, Finish, Abort, Receive
<1>2. ASSUME NEW e \in Events, Receive(h, e) PROVE IInv'
  <2>1. hd' \in [Handlers -> Handling \cup {Nothing}]
    BY <1>0, <1>2 DEF Receive, TypeOK, Handling
  <2> QED
    BY <1>0, <1>1, <1>2, <2>1 DEF Receive, account, IInv, TypeOK, Pending, Reads, NoOverdraft
<1>3. CASE Find(h)
  <2>1. hd' \in [Handlers -> Handling \cup {Nothing}]
    BY <1>0, <1>3 DEF Find, TypeOK, Handling
  <2>2. hd'[h].pc \in {"commit", "fetch", "write"}
        /\ (hd'[h].read # NoSub => sub # NoSub /\ hd'[h].read = sub)
    BY <1>0, <1>3 DEF Find, TypeOK
  <2>3. \A g \in Handlers \ {h} : hd'[g] = hd[g]
    BY <1>0, <1>3 DEF Find, TypeOK
  <2>4. UNCHANGED <<account, recorded, applied>> /\ hd[h].pc = "find"
    BY <1>3 DEF Find
  <2> HIDE <1>3
  <2> QED
    BY <1>1, <2>1, <2>2, <2>3, <2>4 DEF account, IInv, TypeOK, Pending, Reads, NoOverdraft
<1>4. CASE Fetch(h)
  <2>1. hd[h].read \in Rows /\ hd[h].ev \in Events /\ hd[h].pc = "fetch"
    BY <1>0, <1>4 DEF Fetch
  <2>2. hd' \in [Handlers -> Handling \cup {Nothing}]
    <3>1. CASE hd' = [hd EXCEPT ![h] = [pc |-> "commit", ev |-> hd[h].ev, read |-> NoSub]]
      BY <1>0, <2>1, <3>1 DEF TypeOK, Handling
    <3>2. CASE Live /\ hd' = [hd EXCEPT ![h] =
                 [pc |-> "sync", ev |-> hd[h].ev, read |-> hd[h].read, got |-> stripe]]
      <4>1. stripe \in Running
        BY <1>0, <3>2 DEF TypeOK, Live, Running
      <4> QED
        BY <1>0, <2>1, <3>2, <4>1 DEF TypeOK, Handling
    <3> QED
      BY <1>4, <3>1, <3>2 DEF Fetch
  <2>3. hd'[h].pc \in {"commit", "sync"} /\ hd'[h].read \in {NoSub, hd[h].read}
    BY <1>0, <1>4 DEF Fetch, TypeOK
  <2>4. \A g \in Handlers \ {h} : hd'[g] = hd[g]
    BY <1>0, <1>4 DEF Fetch, TypeOK
  <2>5. UNCHANGED <<account, recorded, applied>>
    BY <1>4 DEF Fetch
  <2> HIDE <1>4
  <2> QED
    BY <1>1, <2>1, <2>2, <2>3, <2>4, <2>5 DEF account, IInv, TypeOK, Pending, Reads, NoOverdraft
<1>5. CASE Write(h)
  <2>1. hd[h].pc \in {"sync", "write"} /\ hd[h].ev \in Events /\ hd[h].read \in Rows
    BY <1>0, <1>5 DEF Write
  <2>2. sub \in Rows /\ sub.remaining >= 0 /\ hd[h].read.remaining >= 0
    BY <2>1, NoSubIsNoRow DEF IInv, TypeOK, Reads, NoOverdraft
  <2>3. draft' \in Rows /\ draft'.remaining >= 0
    <3>1. CASE hd[h].pc = "sync"
      <4>1. hd[h].got \in Running
        BY <1>0, <3>1
      <4>2. draft' = Synced(hd[h].read, hd[h].got)
        BY <1>5, <3>1 DEF Write, Update
      <4> QED
        BY <2>1, <2>2, <4>1, <4>2, WrittenRows
    <3>2. CASE hd[h].pc = "write"
      <4>1. draft' \in {Canceled(hd[h].read), Renewed(hd[h].read), PastDue}
        BY <1>5, <3>2 DEF Write, Update
      <4> QED
        BY <2>1, <2>2, <4>1, WrittenRows
    <3> QED
      BY <2>1, <3>1, <3>2
  <2>4. owner = NoTx /\ owner' = h /\ UNCHANGED <<sub, log, recorded, applied>>
    BY <1>5 DEF Write, Update
  <2>5. hd' = [hd EXCEPT ![h].pc = "commit"]
    BY <1>5 DEF Write
  <2>6. hd' \in [Handlers -> Handling \cup {Nothing}]
    <3>1. [hd[h] EXCEPT !.pc = "commit"] \in Handling
      BY <1>0, <2>1 DEF TypeOK, Handling, Nothing
    <3> QED
      BY <1>0, <2>5, <3>1 DEF TypeOK
  <2>7. /\ hd'[h].pc = "commit" /\ hd'[h].read = hd[h].read
         /\ \A g \in Handlers \ {h} : hd'[g] = hd[g]
    BY <1>0, <2>1, <2>5 DEF TypeOK, Handling, Nothing
  <2>8. hd[h].read # NoSub /\ sub # NoSub
    BY <2>1, <2>2
  <2> HIDE <1>5
  <2>9. TypeOK'
    BY <1>0, <1>1, <2>3, <2>4, <2>6 DEF TypeOK
  <2>10. Pending'
    BY <1>0, <1>1, <2>3, <2>4, <2>7, <2>8 DEF IInv, TypeOK, Pending
  <2>11. Reads' /\ NoOverdraft'
    BY <1>0, <2>2, <2>3, <2>4, <2>7, <2>8 DEF IInv, Reads, NoOverdraft
  <2> QED
    BY <2>9, <2>10, <2>11 DEF IInv
<1>6. CASE Finish(h)
  <2>1. hd[h].pc = "commit" /\ hd[h].ev \in Events
    BY <1>0, <1>6 DEF Finish
  <2>2. hd' = [hd EXCEPT ![h] = Nothing]
    BY <1>6 DEF Finish
  <2>3. recorded' \subseteq Events /\ applied' \in [Events -> Nat]
    BY <1>0, <1>6, <2>1 DEF Finish, TypeOK
  <2>4. CASE owner = h
    <3>1. sub' = draft /\ log' = log /\ owner' = NoTx /\ draft' = NoSub /\ draft \in Rows
      BY <1>6, <2>4 DEF Finish, Commit, IInv, Pending
    <3> HIDE <1>6
    <3>2. TypeOK'
      BY <1>0, <1>1, <2>2, <2>3, <3>1 DEF TypeOK
    <3>3. Pending'
      BY <1>0, <1>1, <2>2, <2>4, <3>1 DEF IInv, TypeOK, Pending, Nothing
    <3>4. Reads' /\ NoOverdraft'
      BY <1>0, <2>2, <2>4, <3>1 DEF IInv, TypeOK, Reads, NoOverdraft, Nothing
    <3> QED
      BY <3>2, <3>3, <3>4 DEF IInv
  <2>5. CASE owner # h
    <3>1. UNCHANGED account
      BY <1>6, <2>5 DEF Finish
    <3> HIDE <1>6
    <3> QED
      BY <1>0, <1>1, <2>2, <2>3, <2>5, <3>1
      DEF account, IInv, TypeOK, Pending, Reads, NoOverdraft, Nothing
  <2> QED
    BY <2>4, <2>5
<1>7. CASE Abort(h)
  BY <1>0, <1>1, <1>7 DEF Abort, Rollback, IInv, TypeOK, Pending, Reads, NoOverdraft, Nothing
<1> QED
  BY <1>2, <1>3, <1>4, <1>5, <1>6, <1>7 DEF HandlerStep

LEMMA NextIInv == IInv /\ [Next]_vars => IInv'
<1> SUFFICES ASSUME IInv, [Next]_vars PROVE IInv'
  OBVIOUS
<1>1. CASE UNCHANGED vars
  BY <1>1 DEF vars, account, IInv, TypeOK, Pending, Reads, NoOverdraft
<1> QED
  BY <1>1, ProvisionKeepsIInv, CallKeepsIInv, StripeKeepsIInv, HandlerKeepsIInv DEF Next

\* TypeOK: the variables of the account and of its callers keep their types.
THEOREM TypeCorrect == Spec => []TypeOK
  BY InitIInv, NextIInv, PTL DEF Spec, IInv

\* NoOverdraft: the WHERE clause of the deduction, tested under the row lock, and
\* the bounds of the absolute writes keep the balance from going below zero.
THEOREM NeverOverdrawn == Spec => []NoOverdraft
  BY InitIInv, NextIInv, PTL DEF Spec, IInv
-----------------------------------------------------------------------------
(* References and events                                                   *)

\* A committed call has left its key in the log, where the next one finds it.
Charged ==
  /\ \A c \in Calls : pc[c] = "committed" /\ Ref[c] # NoRef => Key(c) \in log
  /\ ChargedOnce

LEMMA NextCharged == TypeOK /\ Charged /\ [Next]_vars => Charged'
<1> SUFFICES ASSUME TypeOK, Charged, [Next]_vars PROVE Charged'
  OBVIOUS
<1>1. ASSUME NEW c \in Calls, WriteLog(c), ~Logged(c) PROVE Charged'
  <2>1. log' = log \cup ({Key(c)} \cap LogKeys) /\ pc' = [pc EXCEPT ![c] = "committed"]
    BY <1>1 DEF WriteLog, Commit, Go
  <2>2. Ref[c] # NoRef => Key(c) \in LogKeys /\ Key(c) \notin log
    BY <1>1, BillingConstants DEF Logged, Key, LogAction, LogKeys
  <2>3. \A d \in Calls : pc'[d] = "committed" => d = c \/ pc[d] = "committed"
    BY <2>1 DEF TypeOK
  <2>4. \A d, e \in Calls : Key(d) = Key(e) => Ref[d] = Ref[e]
    BY DEF Key
  <2>5. \A d \in Calls : pc'[d] = "committed" /\ Ref[d] # NoRef => Key(d) \in log'
    BY <2>1, <2>2, <2>3 DEF Charged
  <2>6. \A d \in Calls : pc[d] = "committed" /\ Ref[d] # NoRef => Key(d) # Key(c)
    BY <2>2, <2>4 DEF Charged
  <2> QED
    BY <2>3, <2>4, <2>5, <2>6 DEF Charged, ChargedOnce
<1>2. ASSUME log \subseteq log', \A c \in Calls : pc'[c] = "committed" => pc[c] = "committed"
      PROVE  Charged'
  BY <1>2 DEF Charged, ChargedOnce
<1>3. ASSUME NEW c \in Calls, CallStep(c) PROVE Charged'
  <2>1. CASE WriteLog(c) /\ ~Logged(c)
    BY <1>1, <2>1
  <2>2. CASE ~(WriteLog(c) /\ ~Logged(c))
    <3>1. log' = log
      BY <1>3, <2>2 DEF CallStep, Prior, Check, Decrement, Increment, WriteLog, Fail,
         Update, Rollback, account
    <3>2. \E to \in {"check", "update", "log", "prior", "known", "threw"} :
            pc' = [pc EXCEPT ![c] = to]
      BY <1>3, <2>2 DEF CallStep, Prior, Check, Decrement, Increment, WriteLog, Fail, Go
    <3> QED
      BY <1>2, <3>1, <3>2 DEF TypeOK
  <2> QED
    BY <2>1, <2>2
<1>4. ASSUME NEW h \in Handlers,
             HandlerStep(h) \/ Abort(h) \/ \E e \in Events : Receive(h, e)
      PROVE  Charged'
  <2>1. pc' = pc /\ log \subseteq log'
    BY <1>4 DEF HandlerStep, Find, Fetch, Write, Finish, Abort, Receive, Update, Commit,
       Rollback, account
  <2> QED
    BY <1>2, <2>1
<1>5. CASE Provision \/ Subscribe \/ ChangePlan \/ CancelAtStripe \/ Invoice \/ UNCHANGED vars
  <2>1. pc' = pc /\ log' = log
    BY <1>5 DEF Provision, Subscribe, ChangePlan, CancelAtStripe, Invoice, vars, account
  <2> QED
    BY <1>2, <2>1
<1> QED
  BY <1>3, <1>4, <1>5 DEF Next

\* ChargedOnce: the look at the log is only a short cut; the unique index on
\* (user, action, reference) lets one of the racing transactions commit.
THEOREM ReferenceChargedOnce == Spec => []ChargedOnce
<1>1. Init => Charged
  BY DEF Init, Charged, ChargedOnce, First
<1> QED
  BY <1>1, NextCharged, TypeCorrect, PTL DEF Spec, Charged

\* A handler works on an event that is not recorded and that no other works on.
Once ==
  /\ \A e \in Events : e \notin recorded => applied[e] = 0
  /\ \A h \in Handlers : hd[h].pc # "idle" => hd[h].ev \notin recorded
  /\ \A g, h \in Handlers : hd[h].pc # "idle" /\ g # h => hd[g].ev # hd[h].ev
  /\ AppliedOnce

LEMMA NextOnce == TypeOK /\ Once /\ [Next]_vars => Once'
<1> SUFFICES ASSUME TypeOK, Once, [Next]_vars PROVE Once'
  OBVIOUS
<1> USE BillingConstants, HandlerParts
<1>1. ASSUME NEW h \in Handlers, NEW e \in Events, Receive(h, e) PROVE Once'
  <2>1. /\ e \notin recorded /\ \A g \in Handlers : hd[g].ev # e
        /\ UNCHANGED <<recorded, applied>>
    BY <1>1 DEF Receive, Busy
  <2>2. hd'[h].ev = e /\ \A g \in Handlers \ {h} : hd'[g] = hd[g]
    BY <1>1 DEF Receive, Becomes, TypeOK
  <2> QED
    BY <2>1, <2>2 DEF Once, AppliedOnce
<1>2. ASSUME NEW h \in Handlers, Finish(h) PROVE Once'
  <2>1. hd[h].pc = "commit" /\ hd[h].ev \in Events /\ hd[h].ev \notin recorded
    BY <1>2 DEF Finish, Once
  <2>2. /\ hd' = [hd EXCEPT ![h] = Nothing]
        /\ recorded' = recorded \cup {hd[h].ev}
        /\ applied' = [applied EXCEPT ![hd[h].ev] = @ + 1]
    BY <1>2 DEF Finish, Becomes
  <2>3. applied[hd[h].ev] = 0
    BY <2>1 DEF Once
  <2> QED
    BY <2>1, <2>2, <2>3 DEF TypeOK, Once, AppliedOnce, Nothing
<1>3. ASSUME NEW h \in Handlers, Abort(h) PROVE Once'
  BY <1>3 DEF Abort, Becomes, TypeOK, Once, AppliedOnce, Nothing
<1>4. ASSUME NEW h \in Handlers, Find(h) \/ Fetch(h) \/ Write(h) PROVE Once'
  <2>1. UNCHANGED <<recorded, applied>>
    BY <1>4 DEF Find, Fetch, Write
  <2>2. hd[h].pc # "idle" /\ \A g \in Handlers \ {h} : hd'[g] = hd[g]
    BY <1>4 DEF Find, Fetch, Write, Becomes, At, TypeOK
  <2>3. hd'[h].ev = hd[h].ev
    <3>1. CASE Find(h) \/ Fetch(h)
      BY <3>1 DEF Find, Fetch, Becomes, At, TypeOK
    <3>2. CASE Write(h)
      BY <3>2 DEF Write, TypeOK, Handling, Nothing
    <3> QED
      BY <1>4, <3>1, <3>2
  <2> QED
    BY <2>1, <2>2, <2>3 DEF Once, AppliedOnce
<1>5. ASSUME UNCHANGED events PROVE Once'
  BY <1>5 DEF events, Once, AppliedOnce
<1>6. ASSUME NEW c \in Calls, CallStep(c) PROVE Once'
  BY <1>5, <1>6 DEF CallStep, Prior, Check, Decrement, Increment, WriteLog, Fail, rest
<1>7. CASE Provision \/ Subscribe \/ ChangePlan \/ CancelAtStripe \/ Invoice \/ UNCHANGED vars
  BY <1>5, <1>7 DEF Provision, Subscribe, ChangePlan, CancelAtStripe, Invoice, vars, events
<1> QED
  BY <1>1, <1>2, <1>3, <1>4, <1>6, <1>7 DEF Next, HandlerStep

\* AppliedOnce: the primary key of StripeEvent, inserted in the transaction of the
\* effect, keeps redelivered and concurrent deliveries from taking effect again.
THEOREM EventAppliedOnce == Spec => []AppliedOnce
<1>1. Init => Once
  BY DEF Init, Once, AppliedOnce, Nothing
<1> QED
  BY <1>1, NextOnce, TypeCorrect, PTL DEF Spec, Once
-----------------------------------------------------------------------------
(* The allowance                                                           *)

\* The refund a pending transaction is about to make.
PendingRefund == IF owner \in Calls /\ Kind[owner] = "refund" THEN Cost[owner] ELSE 0

\* The row being written keeps within the allowance, counting its own refund.
Granted ==
  /\ IsFiniteSet(RefundsMade)
  /\ owner # NoTx => draft.remaining <= draft.monthly + Refunded + PendingRefund
  /\ AllowanceKept

LEMMA RefundedTotal == Refunded = Total(Cost, RefundsMade)
  BY DEF Refunded, Total

LEMMA RefundedNat == IsFiniteSet(RefundsMade) => Refunded \in Nat /\ PendingRefund \in Nat
<1> SUFFICES ASSUME IsFiniteSet(RefundsMade) PROVE Refunded \in Nat /\ PendingRefund \in Nat
  OBVIOUS
<1>1. \A c \in RefundsMade : Cost[c] \in Nat
  BY BillingConstants DEF RefundsMade
<1>2. PendingRefund \in Nat
  BY BillingConstants DEF PendingRefund
<1> QED
  BY <1>1, <1>2, RefundedTotal, TotalNat

\* A step that commits no refund leaves their sum.
LEMMA SameRefunds ==
  ASSUME \A c \in Calls : Kind[c] = "refund" => (pc'[c] = "committed" <=> pc[c] = "committed")
  PROVE  RefundsMade' = RefundsMade /\ Refunded' = Refunded
<1>1. RefundsMade' = RefundsMade
  BY DEF RefundsMade
<1>2. Refunded = Total(Cost, RefundsMade)
  BY RefundedTotal
<1>3. (Refunded = Total(Cost, RefundsMade))'
  BY RefundedTotal, PTL
<1> QED
  BY <1>1, <1>2, <1>3

\* A refund that commits adds its credits to it.
LEMMA OneRefundMore ==
  ASSUME IsFiniteSet(RefundsMade), NEW c \in Calls, Kind[c] = "refund",
         TypeOK, pc[c] # "committed", pc' = [pc EXCEPT ![c] = "committed"]
  PROVE  IsFiniteSet(RefundsMade') /\ Refunded' = Refunded + Cost[c]
<1>1. RefundsMade' = RefundsMade \cup {c} /\ c \notin RefundsMade
  BY DEF RefundsMade, TypeOK
<1>2. Refunded = Total(Cost, RefundsMade)
  BY RefundedTotal
<1>3. (Refunded = Total(Cost, RefundsMade))'
  BY RefundedTotal, PTL
<1>4. \A x \in RefundsMade \cup {c} : Cost[x] \in Nat
  BY BillingConstants DEF RefundsMade
<1>5. IsFiniteSet(RefundsMade')
  BY <1>1, FS_AddElement
<1>6. Total(Cost, RefundsMade \cup {c}) = Total(Cost, RefundsMade) + Cost[c]
  BY <1>1, <1>4, TotalAdd
<1> QED
  BY <1>1, <1>2, <1>3, <1>5, <1>6

\* A step that touches neither the row nor a refund.
LEMMA GrantedStays ==
  ASSUME Granted, UNCHANGED <<sub, draft, owner>>,
         \A c \in Calls : Kind[c] = "refund" => (pc'[c] = "committed" <=> pc[c] = "committed")
  PROVE  Granted'
<1>1. RefundsMade' = RefundsMade /\ Refunded' = Refunded
  BY SameRefunds
<1>2. PendingRefund' = PendingRefund
  BY DEF PendingRefund
<1> QED
  BY <1>1, <1>2 DEF Granted, AllowanceKept

LEMMA CallKeepsGranted ==
  ASSUME IInv, Granted, NEW c \in Calls, CallStep(c)
  PROVE  Granted'
<1> USE BillingConstants, NoSubIsNoRow
<1>0. Refunded \in Nat /\ PendingRefund \in Nat /\ Cost[c] \in Nat /\ c # NoTx
  BY RefundedNat DEF Granted
<1>1. CASE Prior(c) \/ Check(c) \/ (Decrement(c) /\ UNCHANGED account)
  <2>1. UNCHANGED <<sub, draft, owner>> /\ pc[c] # "committed"
    BY <1>1 DEF Prior, Check, Decrement, account
  <2>2. \E to \in {"check", "update", "prior", "known", "threw", "log"} : pc' = [pc EXCEPT ![c] = to]
    BY <1>1 DEF Prior, Check, Decrement, Go
  <2> QED
    BY <2>1, <2>2, GrantedStays DEF IInv, TypeOK
<1>2. CASE Decrement(c) /\ ~UNCHANGED account
  <2>1. /\ owner' = c /\ UNCHANGED sub /\ Kind[c] # "refund" /\ pc[c] = "update"
        /\ draft' = [sub EXCEPT !.remaining = @ - Cost[c]]
        /\ pc' = [pc EXCEPT ![c] = "log"]
    BY <1>2 DEF Decrement, Update, Go
  <2>2. sub \in Rows /\ sub # NoSub
    BY <2>1 DEF IInv, TypeOK, Pending
  <2>3. RefundsMade' = RefundsMade /\ Refunded' = Refunded
    BY <2>1, SameRefunds DEF IInv, TypeOK
  <2>4. PendingRefund' = 0
    BY <2>1 DEF PendingRefund
  <2>5. sub.remaining <= sub.monthly + Refunded
    BY <2>2 DEF Granted, AllowanceKept
  <2>6. draft'.remaining = sub.remaining - Cost[c] /\ draft'.monthly = sub.monthly
    BY <2>1, <2>2 DEF Rows
  <2>7. draft'.remaining <= draft'.monthly + Refunded' + PendingRefund'
    BY <1>0, <2>2, <2>3, <2>4, <2>5, <2>6 DEF Rows
  <2>8. AllowanceKept'
    BY <2>1, <2>3 DEF Granted, AllowanceKept
  <2> QED
    BY <2>3, <2>7, <2>8 DEF Granted
<1>3. CASE Increment(c)
  <2>1. /\ owner' = c /\ UNCHANGED sub /\ Kind[c] = "refund" /\ pc[c] = "update"
        /\ draft' = [sub EXCEPT !.remaining = @ + Cost[c]]
        /\ pc' = [pc EXCEPT ![c] = "log"]
    BY <1>3 DEF Increment, Update, Go
  <2>2. sub \in Rows /\ sub # NoSub
    BY <2>1 DEF IInv, TypeOK, Pending
  <2>3. RefundsMade' = RefundsMade /\ Refunded' = Refunded
    BY <2>1, SameRefunds DEF IInv, TypeOK
  <2>4. PendingRefund' = Cost[c]
    BY <2>1 DEF PendingRefund
  <2>5. sub.remaining <= sub.monthly + Refunded
    BY <2>2 DEF Granted, AllowanceKept
  <2>6. draft'.remaining = sub.remaining + Cost[c] /\ draft'.monthly = sub.monthly
    BY <2>1, <2>2 DEF Rows
  <2>7. draft'.remaining <= draft'.monthly + Refunded' + PendingRefund'
    BY <1>0, <2>2, <2>3, <2>4, <2>5, <2>6 DEF Rows
  <2>8. AllowanceKept'
    BY <2>1, <2>3 DEF Granted, AllowanceKept
  <2> QED
    BY <2>3, <2>7, <2>8 DEF Granted
<1>4. CASE Fail(c) \/ (WriteLog(c) /\ Logged(c))
  <2>1. /\ pc[c] # "committed" /\ pc' = [pc EXCEPT ![c] = "threw"] /\ UNCHANGED sub
        /\ owner' = NoTx \/ UNCHANGED <<owner, draft>>
    BY <1>4 DEF Fail, WriteLog, Rollback, Go
  <2>2. RefundsMade' = RefundsMade /\ Refunded' = Refunded
    BY <2>1, SameRefunds DEF IInv, TypeOK
  <2> QED
    BY <2>1, <2>2 DEF Granted, AllowanceKept, PendingRefund
<1>5. CASE WriteLog(c) /\ ~Logged(c)
  <2>1. /\ owner = c /\ sub' = draft /\ owner' = NoTx /\ pc[c] = "log"
        /\ pc' = [pc EXCEPT ![c] = "committed"] /\ draft \in Rows
    BY <1>5 DEF WriteLog, Commit, Go, IInv, Pending
  <2>2. draft.remaining <= draft.monthly + Refunded + PendingRefund
    BY <1>0, <2>1 DEF Granted
  <2>3. CASE Kind[c] = "refund"
    <3>1. IsFiniteSet(RefundsMade') /\ Refunded' = Refunded + Cost[c]
      BY <2>1, <2>3, OneRefundMore DEF Granted, IInv
    <3>2. PendingRefund = Cost[c]
      BY <2>1, <2>3 DEF PendingRefund
    <3>3. sub'.remaining <= sub'.monthly + Refunded'
      BY <1>0, <2>1, <2>2, <3>1, <3>2 DEF Rows
    <3> QED
      BY <2>1, <3>1, <3>3 DEF Granted, AllowanceKept
  <2>4. CASE Kind[c] # "refund"
    <3>1. RefundsMade' = RefundsMade /\ Refunded' = Refunded
      BY <2>1, <2>4, SameRefunds DEF IInv, TypeOK
    <3>2. PendingRefund = 0
      BY <2>1, <2>4 DEF PendingRefund
    <3>3. sub'.remaining <= sub'.monthly + Refunded'
      BY <1>0, <2>1, <2>2, <3>1, <3>2 DEF Rows
    <3> QED
      BY <2>1, <3>1, <3>3 DEF Granted, AllowanceKept
  <2> QED
    BY <2>3, <2>4
<1> QED
  BY <1>1, <1>2, <1>3, <1>4, <1>5 DEF CallStep

\* Every row a handler writes keeps within its own allowance, or keeps the columns
\* of the committed row.
LEMMA WrittenAllowance ==
  ASSUME sub \in Rows, NEW k \in Nat, sub.remaining <= sub.monthly + k, NEW r \in Rows
  PROVE  /\ \A got \in Running : Synced(r, got).remaining <= Synced(r, got).monthly + k
         /\ Canceled(r).remaining <= Canceled(r).monthly + k
         /\ Renewed(r).remaining <= Renewed(r).monthly + k
         /\ PastDue.remaining <= PastDue.monthly + k
<1>1. Credits[Free] \in Nat /\ Credits[r.plan] \in Nat
  BY BillingConstants DEF Rows
<1>2. ASSUME NEW got \in Running
      PROVE  Synced(r, got).remaining <= Synced(r, got).monthly + k
  <2>1. Credits[got.plan] \in Nat
    BY BillingConstants DEF Running
  <2>2. r.monthly - r.remaining \in Int
    BY DEF Rows
  <2> DEFINE used == Greatest(0, r.monthly - r.remaining)
  <2>3. used \in Nat
    BY <2>2 DEF Greatest
  <2> HIDE DEF used
  <2>4. Greatest(0, Credits[got.plan] - used) <= Credits[got.plan] + k
    BY <2>1, <2>3 DEF Greatest
  <2>5. /\ Synced(r, got).monthly = IF got.plan = r.plan THEN sub.monthly ELSE Credits[got.plan]
        /\ Synced(r, got).remaining = IF got.plan = r.plan THEN sub.remaining
                                      ELSE Greatest(0, Credits[got.plan] - used)
    BY DEF Synced, used
  <2> QED
    BY <2>4, <2>5
<1>3. Canceled(r).remaining <= Canceled(r).monthly + k
  BY <1>1 DEF Canceled, Least, Rows
<1>4. Renewed(r).remaining <= Renewed(r).monthly + k
  BY <1>1 DEF Renewed
<1>5. PastDue.remaining <= PastDue.monthly + k
  BY DEF PastDue, Rows
<1> QED
  BY <1>2, <1>3, <1>4, <1>5

LEMMA HandlerKeepsGranted ==
  ASSUME IInv, Granted, NEW h \in Handlers,
         HandlerStep(h) \/ Abort(h) \/ \E e \in Events : Receive(h, e)
  PROVE  Granted'
<1> USE BillingConstants, NoSubIsNoRow
<1>0. Refunded \in Nat /\ PendingRefund \in Nat /\ h \notin Calls /\ h # NoTx
  BY RefundedNat DEF Granted
<1>1. pc' = pc /\ RefundsMade' = RefundsMade /\ Refunded' = Refunded
  <2>1. pc' = pc
    BY DEF HandlerStep, Find, Fetch, Write, Finish, Abort, Receive
  <2> QED
    BY <2>1, SameRefunds
<1>2. CASE Find(h) \/ Fetch(h) \/ (\E e \in Events : Receive(h, e)) \/ (Finish(h) /\ owner # h)
  <2>1. UNCHANGED <<sub, draft, owner>>
    BY <1>2 DEF Find, Fetch, Receive, Finish, account
  <2> QED
    BY <1>1, <2>1, GrantedStays
<1>3. CASE Write(h)
  <2>1. hd[h].pc \in {"sync", "write"} /\ hd[h].read \in Rows
    BY <1>3, HandlerParts DEF Write, IInv
  <2>2. sub \in Rows /\ sub.remaining <= sub.monthly + Refunded
    BY <2>1 DEF IInv, TypeOK, Reads, Granted, AllowanceKept
  <2>3. owner' = h /\ UNCHANGED sub
    BY <1>3 DEF Write, Update
  <2>4. draft'.remaining <= draft'.monthly + Refunded
    <3>1. CASE hd[h].pc = "sync"
      <4>1. hd[h].got \in Running
        BY <3>1, HandlerParts DEF IInv
      <4>2. draft' = Synced(hd[h].read, hd[h].got)
        BY <1>3, <3>1 DEF Write, Update
      <4> QED
        BY <1>0, <2>1, <2>2, <4>1, <4>2, WrittenAllowance
    <3>2. CASE hd[h].pc = "write"
      <4>1. draft' \in {Canceled(hd[h].read), Renewed(hd[h].read), PastDue}
        BY <1>3, <3>2 DEF Write, Update
      <4> QED
        BY <1>0, <2>1, <2>2, <4>1, WrittenAllowance
    <3> QED
      BY <2>1, <3>1, <3>2
  <2>5. PendingRefund' = 0
    BY <1>0, <2>3 DEF PendingRefund
  <2>6. draft'.remaining <= draft'.monthly + Refunded' + PendingRefund'
    <3>1. draft' \in Rows
      BY <1>0, <2>3, HandlerKeepsIInv DEF IInv, Pending
    <3> QED
      BY <1>0, <1>1, <2>4, <2>5, <3>1 DEF Rows
  <2>7. AllowanceKept'
    BY <1>1, <2>3 DEF Granted, AllowanceKept
  <2> QED
    BY <1>1, <2>6, <2>7 DEF Granted
<1>4. CASE Finish(h) /\ owner = h
  <2>1. sub' = draft /\ owner' = NoTx /\ draft \in Rows
    BY <1>4 DEF Finish, Commit, IInv, Pending
  <2>2. PendingRefund = 0
    BY <1>0, <1>4 DEF PendingRefund
  <2>3. sub'.remaining <= sub'.monthly + Refunded'
    BY <1>0, <1>1, <1>4, <2>1, <2>2 DEF Granted, Rows
  <2> QED
    BY <1>1, <2>1, <2>3 DEF Granted, AllowanceKept
<1>5. CASE Abort(h)
  <2>1. UNCHANGED sub /\ (owner' = NoTx \/ UNCHANGED <<owner, draft>>)
    BY <1>5 DEF Abort, Rollback
  <2> QED
    BY <1>1, <2>1 DEF Granted, AllowanceKept, PendingRefund
<1> QED
  BY <1>2, <1>3, <1>4, <1>5 DEF HandlerStep

LEMMA NextGranted == IInv /\ Granted /\ [Next]_vars => Granted'
<1> SUFFICES ASSUME IInv, Granted, [Next]_vars PROVE Granted'
  OBVIOUS
<1>1. CASE Provision
  <2>1. /\ sub' = NewUser /\ UNCHANGED <<draft, owner, pc>>
    BY <1>1 DEF Provision
  <2>2. RefundsMade' = RefundsMade /\ Refunded' = Refunded /\ Refunded \in Nat
    BY <2>1, SameRefunds, RefundedNat DEF Granted
  <2>3. NewUser.remaining <= NewUser.monthly + Refunded
    BY <2>2, BillingConstants DEF NewUser
  <2> QED
    BY <2>1, <2>2, <2>3 DEF Granted, AllowanceKept, PendingRefund
<1>2. CASE Subscribe \/ ChangePlan \/ CancelAtStripe \/ Invoice \/ UNCHANGED vars
  <2>1. UNCHANGED <<sub, draft, owner, pc>>
    BY <1>2 DEF Subscribe, ChangePlan, CancelAtStripe, Invoice, vars, account
  <2> QED
    BY <2>1, GrantedStays
<1> QED
  BY <1>1, <1>2, CallKeepsGranted, HandlerKeepsGranted DEF Next

\* AllowanceKept: deductions and refunds work on the row under its lock and the
\* absolute writes of the handlers stay within PLAN_CREDITS, so that only refunds
\* made take the balance above the monthly allowance.
THEOREM AllowanceNeverExceeded == Spec => []AllowanceKept
<1>1. Init => Granted
  <2>1. Init => RefundsMade = {}
    BY DEF Init, RefundsMade, First
  <2> QED
    BY <2>1, FS_EmptySet DEF Init, Granted, AllowanceKept
<1> QED
  BY <1>1, InitIInv, NextIInv, NextGranted, PTL DEF Spec, Granted
-----------------------------------------------------------------------------
(* The ledger                                                              *)

Account == CreditsOf(sub)
Seen == [h \in Handlers |-> CreditsOf(hd[h].read)]
Succeeded == {c \in Calls : pc[c] = "committed"}

\* The row is what an event makes of the committed row now, found earlier as r.
Allowed(now, r, row) == CreditsOf(row) \in Ledger!Outcomes(CreditsOf(now), CreditsOf(r))

\* The row pending under the lock is one operation away from the committed one,
\* which no other transaction has changed since.
OneAway ==
  /\ owner # NoTx => sub # NoSub
  /\ owner \in Calls /\ Kind[owner] # "refund" =>
       sub.remaining >= Cost[owner] /\ draft = [sub EXCEPT !.remaining = @ - Cost[owner]]
  /\ owner \in Calls /\ Kind[owner] = "refund" =>
       draft = [sub EXCEPT !.remaining = @ + Cost[owner]]
  /\ owner \in Handlers => Allowed(sub, hd[owner].read, draft)

LEMMA CreditsOfRow ==
  ASSUME NEW r \in Rows
  PROVE  /\ CreditsOf(r) = [plan |-> r.plan, balance |-> r.remaining, allowance |-> r.monthly]
         /\ CreditsOf(r) \in Accounts /\ CreditsOf(r) # NoSub
<1>1. r # NoSub
  BY NoSubIsNoRow
<1>2. CreditsOf(r) = [plan |-> r.plan, balance |-> r.remaining, allowance |-> r.monthly]
  BY <1>1 DEF CreditsOf
<1>3. CreditsOf(r) \in Accounts
  BY <1>2 DEF Rows, Accounts
<1> QED
  BY <1>2, <1>3, NoSubIsNoRow

LEMMA WrittenAllowed ==
  ASSUME sub \in Rows, NEW r \in Rows
  PROVE  /\ \A got \in Running : Synced(r, got) \in Rows => Allowed(sub, r, Synced(r, got))
         /\ Canceled(r) \in Rows => Allowed(sub, r, Canceled(r))
         /\ Renewed(r) \in Rows => Allowed(sub, r, Renewed(r))
         /\ PastDue \in Rows => Allowed(sub, r, PastDue)
<1> DEFINE s == CreditsOf(r)
           a == CreditsOf(sub)
<1>1. Credits[Free] \in Int /\ r.remaining \in Int /\ r.monthly \in Int
  BY BillingConstants DEF Rows
<1>2. /\ s = [plan |-> r.plan, balance |-> r.remaining, allowance |-> r.monthly]
      /\ a = [plan |-> sub.plan, balance |-> sub.remaining, allowance |-> sub.monthly]
  BY CreditsOfRow
<1>3. s.plan = r.plan /\ s.balance = r.remaining /\ s.allowance = r.monthly
  BY <1>2
<1>4. \A row \in Rows :
        CreditsOf(row) = [plan |-> row.plan, balance |-> row.remaining, allowance |-> row.monthly]
  BY CreditsOfRow
<1> HIDE DEF s, a
<1>5. \A row \in Rows : CreditsOf(row) \in Ledger!Outcomes(a, s) => Allowed(sub, r, row)
  BY DEF Allowed, a, s
<1>6. ASSUME NEW got \in Running, Synced(r, got) \in Rows
      PROVE  CreditsOf(Synced(r, got)) \in Ledger!Outcomes(a, s)
  <2>1. Credits[got.plan] \in Int /\ got.plan \in Plans
    BY BillingConstants DEF Running
  <2>2. CASE got.plan = r.plan
    <3>1. CreditsOf(Synced(r, got)) =
            [plan |-> r.plan, balance |-> sub.remaining, allowance |-> sub.monthly]
      BY <1>4, <1>6, <2>2 DEF Synced
    <3>2. CreditsOf(Synced(r, got)) = [a EXCEPT !.plan = s.plan]
      BY <1>2, <1>3, <3>1
    <3> QED
      BY <3>2 DEF Ledger!Outcomes
  <2>3. CASE got.plan # r.plan
    <3>1. Greatest(0, r.monthly - r.remaining) = Ledger!Used(s)
          /\ Ledger!Used(s) \in Int
      BY <1>1, <1>3 DEF Greatest, Ledger!Used, Ledger!AtLeast0
    <3> DEFINE left == Ledger!AtLeast0(Credits[got.plan] - Ledger!Used(s))
    <3>2. Greatest(0, Credits[got.plan] - Ledger!Used(s)) = left
      BY <2>1, <3>1 DEF Greatest, Ledger!AtLeast0
    <3>3. CreditsOf(Synced(r, got)) =
            [plan |-> got.plan, balance |-> left, allowance |-> Credits[got.plan]]
      BY <1>4, <1>6, <2>3, <3>1, <3>2 DEF Synced
    <3>4. CreditsOf(Synced(r, got)) = Ledger!Of(got.plan, left)
      BY <3>3 DEF Ledger!Of
    <3> QED
      BY <1>3, <2>1, <2>3, <3>4 DEF Ledger!Outcomes
  <2> QED
    BY <2>2, <2>3
<1>7. ASSUME Canceled(r) \in Rows
      PROVE  CreditsOf(Canceled(r)) \in Ledger!Outcomes(a, s)
  <2>1. Least(r.remaining, Credits[Free]) = Ledger!Left(s)
    BY <1>1, <1>3 DEF Least, Ledger!Left, Ledger!AtMost
  <2>2. CreditsOf(Canceled(r)) =
          [plan |-> Free, balance |-> Ledger!Left(s), allowance |-> Credits[Free]]
    BY <1>4, <1>7, <2>1 DEF Canceled
  <2> QED
    BY <2>2 DEF Ledger!Of, Ledger!Outcomes
<1>8. ASSUME Renewed(r) \in Rows
      PROVE  CreditsOf(Renewed(r)) \in Ledger!Outcomes(a, s)
  <2>1. CreditsOf(Renewed(r)) =
          [plan |-> sub.plan, balance |-> Credits[r.plan], allowance |-> Credits[r.plan]]
    BY <1>4, <1>8 DEF Renewed
  <2> QED
    BY <1>2, <1>3, <2>1 DEF Ledger!Outcomes
<1>9. ASSUME PastDue \in Rows
      PROVE  CreditsOf(PastDue) \in Ledger!Outcomes(a, s)
  <2>1. CreditsOf(PastDue) = a
    BY <1>2, <1>4, <1>9 DEF PastDue, Rows
  <2> QED
    BY <2>1 DEF Ledger!Outcomes
<1> QED
  BY <1>5, <1>6, <1>7, <1>8, <1>9

\* A step that leaves the row and the lock, or gives up the lock.
LEMMA OneAwayStays ==
  ASSUME OneAway, UNCHANGED sub,
         \/ owner' = NoTx
         \/ UNCHANGED <<owner, draft>> /\ (owner \in Handlers => hd'[owner].read = hd[owner].read)
  PROVE  OneAway'
<1> USE BillingConstants
<1>1. CASE owner' = NoTx
  BY <1>1 DEF OneAway
<1>2. CASE UNCHANGED <<owner, draft>> /\ (owner \in Handlers => hd'[owner].read = hd[owner].read)
  BY <1>2 DEF OneAway
<1> QED
  BY <1>1, <1>2

LEMMA CallKeepsOneAway ==
  ASSUME IInv, OneAway, NEW c \in Calls, CallStep(c)
  PROVE  OneAway'
<1> USE BillingConstants
<1>0. hd' = hd
  BY DEF CallStep, Prior, Check, Decrement, Increment, WriteLog, Fail, rest, events
<1>1. CASE Prior(c) \/ Check(c) \/ Fail(c) \/ (WriteLog(c) /\ Logged(c))
  <2>1. UNCHANGED sub /\ (owner' = NoTx \/ UNCHANGED <<owner, draft>>)
    BY <1>1 DEF Prior, Check, Fail, WriteLog, Rollback, account
  <2> QED
    BY <1>0, <2>1, OneAwayStays
<1>2. CASE Decrement(c)
  <2>1. CASE sub.remaining >= Cost[c]
    <3>1. sub # NoSub
      BY <1>2 DEF Decrement, IInv, Pending
    <3> QED
      BY <1>2, <2>1, <3>1 DEF Decrement, Update, OneAway
  <2>2. CASE ~(sub.remaining >= Cost[c])
    BY <1>0, <1>2, <2>2, OneAwayStays DEF Decrement, account
  <2> QED
    BY <2>1, <2>2
<1>3. CASE Increment(c)
  <2>1. sub # NoSub
    BY <1>3 DEF Increment, IInv, Pending
  <2> QED
    BY <1>3, <2>1 DEF Increment, Update, OneAway
<1>4. CASE WriteLog(c) /\ ~Logged(c)
  BY <1>4 DEF WriteLog, Commit, OneAway
<1> QED
  BY <1>1, <1>2, <1>3, <1>4 DEF CallStep

LEMMA HandlerKeepsOneAway ==
  ASSUME IInv, OneAway, NEW h \in Handlers,
         HandlerStep(h) \/ Abort(h) \/ \E e \in Events : Receive(h, e)
  PROVE  OneAway'
<1> USE BillingConstants
<1>1. CASE Find(h) \/ Fetch(h) \/ Abort(h) \/ (\E e \in Events : Receive(h, e))
           \/ (Finish(h) /\ owner # h)
  <2>1. UNCHANGED sub /\ (owner' = NoTx \/ UNCHANGED <<owner, draft>>)
    BY <1>1 DEF Find, Fetch, Abort, Receive, Finish, Rollback, account
  <2>2. \A g \in Handlers \ {h} : hd'[g] = hd[g]
    BY <1>1 DEF Find, Fetch, Abort, Receive, Finish, Becomes, IInv, TypeOK
  <2>3. owner' # NoTx => owner # h
    <3>1. owner = h => hd[h].pc = "commit"
      BY DEF IInv, Pending
    <3>2. Find(h) \/ Fetch(h) \/ (\E e \in Events : Receive(h, e)) => hd[h].pc # "commit"
      <4>1. \A e \in Events : Receive(h, e) => hd[h] = Nothing
        BY DEF Receive
      <4>2. (Find(h) => hd[h].pc = "find") /\ (Fetch(h) => hd[h].pc = "fetch")
        BY DEF Find, Fetch
      <4> QED
        BY <4>1, <4>2 DEF Nothing
    <3>3. Abort(h) /\ owner = h => owner' = NoTx
      BY DEF Abort, Rollback
    <3> QED
      BY <1>1, <3>1, <3>2, <3>3
  <2> QED
    BY <2>1, <2>2, <2>3, OneAwayStays
<1>2. CASE Write(h)
  <2>1. hd[h].pc \in {"sync", "write"} /\ hd[h].read \in Rows
    BY <1>2, HandlerParts DEF Write, IInv
  <2>2. sub \in Rows /\ sub # NoSub
    BY <2>1, NoSubIsNoRow DEF IInv, TypeOK, Reads
  <2>3. owner' = h /\ UNCHANGED sub /\ hd'[h].read = hd[h].read
    BY <1>2, <2>1 DEF Write, Update, IInv, TypeOK, Handling, Nothing
  <2>4. draft' \in Rows
    BY <2>3, HandlerKeepsIInv DEF IInv, Pending
  <2>5. Allowed(sub, hd[h].read, draft')
    <3>1. CASE hd[h].pc = "sync"
      <4>1. hd[h].got \in Running
        BY <3>1, HandlerParts DEF IInv
      <4>2. draft' = Synced(hd[h].read, hd[h].got)
        BY <1>2, <3>1 DEF Write, Update
      <4> QED
        BY <2>1, <2>2, <2>4, <4>1, <4>2, WrittenAllowed
    <3>2. CASE hd[h].pc = "write"
      <4>1. draft' \in {Canceled(hd[h].read), Renewed(hd[h].read), PastDue}
        BY <1>2, <3>2 DEF Write, Update
      <4> QED
        BY <2>1, <2>2, <2>4, <4>1, WrittenAllowed
    <3> QED
      BY <2>1, <3>1, <3>2
  <2> QED
    BY <2>2, <2>3, <2>5 DEF OneAway
<1>3. CASE Finish(h) /\ owner = h
  BY <1>3 DEF Finish, Commit, OneAway
<1> QED
  BY <1>1, <1>2, <1>3 DEF HandlerStep

LEMMA NextOneAway == IInv /\ OneAway /\ [Next]_vars => OneAway'
<1> SUFFICES ASSUME IInv, OneAway, [Next]_vars PROVE OneAway'
  OBVIOUS
<1>1. CASE Provision
  BY <1>1, BillingConstants DEF Provision, OneAway
<1>2. CASE Subscribe \/ ChangePlan \/ CancelAtStripe \/ Invoice \/ UNCHANGED vars
  <2>1. UNCHANGED <<sub, draft, owner, hd>>
    BY <1>2 DEF Subscribe, ChangePlan, CancelAtStripe, Invoice, vars, account, events
  <2> QED
    BY <2>1, OneAwayStays
<1> QED
  BY <1>1, <1>2, CallKeepsOneAway, HandlerKeepsOneAway DEF Next

\* A step that changes nothing the ledger shows.
LEMMA LedgerStutters ==
  ASSUME UNCHANGED <<sub, recorded>>, Succeeded' = Succeeded, Seen' = Seen
  PROVE  UNCHANGED Ledger!vars
  BY DEF Ledger!vars, Succeeded, Seen

\* A call's COMMIT is its step in the ledger; its other statements are none.
LEMMA CallRefines ==
  ASSUME IInv, Charged, OneAway, NEW c \in Calls, CallStep(c)
  PROVE  [Ledger!Next]_(Ledger!vars)
<1> USE BillingConstants, NoSubIsNoRow
<1>0. UNCHANGED recorded /\ Seen' = Seen
  BY DEF CallStep, Prior, Check, Decrement, Increment, WriteLog, Fail, rest, events, Seen
<1>1. CASE ~(WriteLog(c) /\ ~Logged(c))
  <2>1. UNCHANGED sub
    BY <1>1 DEF CallStep, Prior, Check, Decrement, Increment, WriteLog, Fail,
       Update, Rollback, account
  <2>2. pc[c] # "committed" /\ \E to \in {"prior", "check", "update", "log", "known", "threw"} :
          pc' = [pc EXCEPT ![c] = to]
    BY <1>1 DEF CallStep, Prior, Check, Decrement, Increment, WriteLog, Fail, Go
  <2>3. Succeeded' = Succeeded
    BY <2>2 DEF Succeeded, IInv, TypeOK
  <2> QED
    BY <1>0, <2>1, <2>3, LedgerStutters
<1>2. CASE WriteLog(c) /\ ~Logged(c)
  <2>1. /\ owner = c /\ sub' = draft /\ pc[c] = "log" /\ draft \in Rows
        /\ pc' = [pc EXCEPT ![c] = "committed"]
    BY <1>2 DEF WriteLog, Commit, Go, IInv, Pending
  <2>2. sub \in Rows /\ sub # NoSub /\ sub' # NoSub /\ Account # NoSub
    BY <2>1, CreditsOfRow DEF OneAway, IInv, TypeOK, Account
  <2>3. Succeeded' = Succeeded \cup {c} /\ c \notin Succeeded
    BY <2>1 DEF Succeeded, IInv, TypeOK
  <2>4. \A d \in Succeeded : ~Ledger!SameEntry(c, d)
    <3>1. \A d \in Succeeded : Ref[d] # NoRef => Key(d) \in log
      BY DEF Charged, Succeeded
    <3>2. Ref[c] # NoRef => Key(c) \notin log
      BY <1>2 DEF Logged
    <3>3. \A d \in Succeeded : Ledger!SameEntry(c, d) => Ref[c] # NoRef /\ Ref[d] # NoRef /\ Key(c) = Key(d)
      BY DEF Ledger!SameEntry, Ledger!LogAction, Key, LogAction
    <3> QED
      BY <3>1, <3>2, <3>3
  <2>5. ASSUME NEW d \in Int, sub' = [sub EXCEPT !.remaining = @ + d] PROVE Ledger!Enter(c, d)
    <3>1. sub'.plan = sub.plan /\ sub'.monthly = sub.monthly /\ sub'.remaining = sub.remaining + d
      BY <2>2, <2>5 DEF Rows
    <3>2. Account' = [plan |-> sub.plan, balance |-> sub.remaining + d, allowance |-> sub.monthly]
          /\ Account = [plan |-> sub.plan, balance |-> sub.remaining, allowance |-> sub.monthly]
      BY <2>2, <3>1 DEF Account, CreditsOf
    <3>3. Account' = [Account EXCEPT !.balance = @ + d]
      BY <3>2
    <3> QED
      BY <1>0, <2>3, <2>4, <3>3 DEF Ledger!Enter, Succeeded, Seen, Account
  <2>6. Account.balance = sub.remaining /\ Account = CreditsOf(sub)
    BY <2>2 DEF Account, CreditsOf
  <2>7. CASE Kind[c] = "refund"
    <3>1. sub' = [sub EXCEPT !.remaining = @ + Cost[c]] /\ Cost[c] \in Int
      BY <2>1, <2>7 DEF OneAway
    <3>2. Ledger!Enter(c, Cost[c])
      BY <2>5, <3>1
    <3> QED
      BY <2>2, <2>6, <2>7, <3>2 DEF Ledger!Next, Ledger!Refund
  <2>8. CASE Kind[c] # "refund"
    <3>1. /\ sub' = [sub EXCEPT !.remaining = @ - Cost[c]] /\ sub.remaining >= Cost[c]
          /\ Cost[c] \in Int /\ 0 - Cost[c] \in Int
      BY <2>1, <2>8 DEF OneAway
    <3>2. sub' = [sub EXCEPT !.remaining = @ + (0 - Cost[c])]
      BY <2>2, <3>1 DEF Rows
    <3>3. Ledger!Enter(c, 0 - Cost[c])
      BY <2>5, <3>1, <3>2
    <3> QED
      BY <2>2, <2>6, <2>8, <3>1, <3>3 DEF Ledger!Next, Ledger!Charge
  <2> QED
    BY <2>7, <2>8
<1> QED
  BY <1>1, <1>2

\* The look at the subscription and the COMMIT are a handler's steps in the ledger.
LEMMA HandlerRefines ==
  ASSUME IInv, Once, OneAway, NEW h \in Handlers,
         HandlerStep(h) \/ Abort(h) \/ \E e \in Events : Receive(h, e)
  PROVE  [Ledger!Next]_(Ledger!vars)
<1> USE BillingConstants, NoSubIsNoRow
<1>0. Succeeded' = Succeeded
  BY DEF HandlerStep, Find, Fetch, Write, Finish, Abort, Receive, Succeeded
<1>1. TypeOK /\ Seen[h] = CreditsOf(hd[h].read) /\ CreditsOf(NoSub) = NoSub
  BY DEF IInv, Seen, CreditsOf
<1>2. ASSUME UNCHANGED <<sub, recorded>>, Seen' = [Seen EXCEPT ![h] = NoSub]
      PROVE  Ledger!Drop(h)
  BY <1>0, <1>2 DEF Ledger!Drop, Succeeded, Seen
<1>3. /\ \A g \in Handlers \ {h} : hd'[g] = hd[g]
      /\ Seen' = [Seen EXCEPT ![h] = CreditsOf(hd'[h].read)]
  <2>1. \A g \in Handlers \ {h} : hd'[g] = hd[g]
    BY <1>1 DEF HandlerStep, Find, Fetch, Write, Finish, Abort, Receive, Becomes, TypeOK
  <2> QED
    BY <2>1 DEF Seen
<1>4. CASE \E e \in Events : Receive(h, e)
  <2>1. PICK e \in Events : Receive(h, e)
    BY <1>4
  <2>2. /\ UNCHANGED <<sub, recorded>> /\ hd[h].read = NoSub
        /\ hd'[h].read = NoSub
    BY <1>1, <2>1 DEF Receive, Becomes, account, Nothing, TypeOK
  <2>4. Seen' = Seen
    BY <1>3, <2>2 DEF Seen
  <2> QED
    BY <1>0, <2>2, <2>4, LedgerStutters
<1>5. CASE Find(h)
  <2>1. UNCHANGED <<sub, recorded>> /\ hd[h].read = NoSub
    BY <1>1, <1>5, HandlerParts DEF Find, account
  <2>2. CASE hd' = [hd EXCEPT ![h] = At(h, "commit")]
    <3>1. hd'[h].read = NoSub
      BY <1>1, <2>2 DEF At, TypeOK
    <3>2. Seen' = Seen
      BY <1>3, <2>1, <3>1 DEF Seen
    <3> QED
      BY <1>0, <2>1, <3>2, LedgerStutters
  <2>3. CASE sub # NoSub /\ hd' = [hd EXCEPT ![h] =
               [pc |-> IF Type(h) = "updated" THEN "fetch" ELSE "write",
                ev |-> hd[h].ev, read |-> sub]]
    <3>1. hd'[h].read = sub /\ Seen' = [Seen EXCEPT ![h] = CreditsOf(sub)]
      BY <1>1, <1>3, <2>3 DEF TypeOK
    <3>2. CreditsOf(sub) # NoSub
      BY <1>1, <2>3, CreditsOfRow DEF TypeOK
    <3>3. Ledger!Look(h)
      BY <1>0, <1>1, <2>1, <3>1, <3>2 DEF Ledger!Look, Succeeded, Seen
    <3> QED
      BY <3>3 DEF Ledger!Next
  <2> QED
    BY <1>5, <2>2, <2>3 DEF Find, Becomes
<1>6. CASE Fetch(h)
  <2>1. UNCHANGED <<sub, recorded>>
    BY <1>6 DEF Fetch, account
  <2>2. CASE hd' = [hd EXCEPT ![h] = At(h, "commit")]
    <3>1. hd'[h].read = NoSub /\ Seen' = [Seen EXCEPT ![h] = NoSub]
      BY <1>1, <1>3, <2>2 DEF At, TypeOK
    <3> QED
      BY <1>2, <2>1, <3>1 DEF Ledger!Next
  <2>3. CASE hd' = [hd EXCEPT ![h] =
               [pc |-> "sync", ev |-> hd[h].ev, read |-> hd[h].read, got |-> stripe]]
    <3>1. hd'[h].read = hd[h].read
      BY <1>1, <2>3 DEF TypeOK
    <3>2. Seen' = Seen
      BY <1>3, <3>1 DEF Seen
    <3> QED
      BY <1>0, <2>1, <3>2, LedgerStutters
  <2> QED
    BY <1>6, <2>2, <2>3 DEF Fetch, Becomes
<1>7. CASE Write(h)
  <2>1. UNCHANGED <<sub, recorded>>
    BY <1>7 DEF Write, Update
  <2>2. hd[h].pc \in {"sync", "write"} /\ hd' = [hd EXCEPT ![h].pc = "commit"]
    BY <1>7 DEF Write
  <2>3. \A g \in Handlers : hd'[g].read = hd[g].read
    BY <1>1, <2>2 DEF TypeOK, Handling, Nothing
  <2>4. Seen' = Seen
    BY <2>3 DEF Seen
  <2> QED
    BY <1>0, <2>1, <2>4, LedgerStutters
<1>8. CASE Abort(h)
  <2>1. UNCHANGED <<sub, recorded>> /\ hd' = [hd EXCEPT ![h] = Nothing]
    BY <1>8 DEF Abort, Rollback, Becomes
  <2>2. hd'[h].read = NoSub /\ Seen' = [Seen EXCEPT ![h] = NoSub]
    BY <1>1, <1>3, <2>1 DEF Nothing, TypeOK
  <2> QED
    BY <1>2, <2>1, <2>2 DEF Ledger!Next
<1>9. CASE Finish(h)
  <2>1. PICK e \in Events : e = hd[h].ev
    BY <1>1, <1>9, HandlerParts DEF Finish
  <2>2. e \notin recorded /\ recorded' = recorded \cup {e} /\ hd' = [hd EXCEPT ![h] = Nothing]
    BY <1>9, <2>1 DEF Finish, Becomes, Once
  <2>3. hd'[h].read = NoSub /\ Seen' = [Seen EXCEPT ![h] = NoSub]
    BY <1>1, <1>3, <2>2 DEF Nothing, TypeOK
  <2>4. Ledger!Take(e)
    BY <1>0, <2>2 DEF Ledger!Take, Succeeded
  <2>5. ASSUME hd[h].read \in Rows, Account' \in Ledger!Outcomes(Account, Seen[h])
        PROVE  Ledger!Next
    <3>1. Seen[h] # NoSub
      BY <1>1, <2>5, CreditsOfRow
    <3>2. Ledger!Process(h, e)
      BY <2>3, <2>4, <2>5, <3>1 DEF Ledger!Process, Seen, Account
    <3> QED
      BY <3>2 DEF Ledger!Next
  <2>6. hd[h].read \in Rows \cup {NoSub}
    BY <1>1, HandlerParts
  <2>7. CASE owner = h
    <3>1. sub' = draft /\ hd[h].read # NoSub
      BY <1>9, <2>7 DEF Finish, Commit, IInv, Pending
    <3>2. Allowed(sub, hd[h].read, draft)
      BY <2>7 DEF OneAway
    <3>3. Account' \in Ledger!Outcomes(Account, Seen[h])
      BY <1>1, <3>1, <3>2 DEF Allowed, Account
    <3> QED
      BY <2>5, <2>6, <3>1, <3>3
  <2>8. CASE owner # h
    <3>1. UNCHANGED sub /\ Account' = Account
      BY <1>9, <2>8 DEF Finish, account, Account
    <3>2. CASE hd[h].read # NoSub
      <4>1. Account' \in Ledger!Outcomes(Account, Seen[h])
        BY <3>1 DEF Ledger!Outcomes
      <4> QED
        BY <2>5, <2>6, <3>2, <4>1
    <3>3. CASE hd[h].read = NoSub
      <4>1. Seen' = Seen
        BY <1>1, <2>3, <3>3 DEF Seen
      <4>2. Ledger!Ignore(e)
        BY <2>4, <3>1, <4>1 DEF Ledger!Ignore, Seen
      <4> QED
        BY <4>2 DEF Ledger!Next
    <3> QED
      BY <3>2, <3>3
  <2> QED
    BY <2>7, <2>8
<1> QED
  BY <1>4, <1>5, <1>6, <1>7, <1>8, <1>9 DEF HandlerStep

LEMMA NextRefines ==
  IInv /\ Charged /\ Once /\ OneAway /\ [Next]_vars => [Ledger!Next]_(Ledger!vars)
<1> SUFFICES ASSUME IInv, Charged, Once, OneAway, [Next]_vars
             PROVE  [Ledger!Next]_(Ledger!vars)
  OBVIOUS
<1>1. CASE Provision
  <2>1. sub = NoSub /\ sub' = NewUser /\ UNCHANGED <<pc, recorded, hd>>
    BY <1>1 DEF Provision, events
  <2>2. NewUser \in Rows
    BY BillingConstants DEF NewUser, Rows, Statuses
  <2>3. Account = NoSub /\ Account' = Ledger!Of(Free, Credits[Free])
    BY <2>1, <2>2, CreditsOfRow DEF Account, CreditsOf, NewUser, Ledger!Of
  <2>4. Ledger!Open
    BY <2>1, <2>3 DEF Ledger!Open, Account
  <2> QED
    BY <2>4 DEF Ledger!Next
<1>2. CASE Subscribe \/ ChangePlan \/ CancelAtStripe \/ Invoice \/ UNCHANGED vars
  <2>1. UNCHANGED <<sub, pc, recorded, hd>>
    BY <1>2 DEF Subscribe, ChangePlan, CancelAtStripe, Invoice, vars, account, events
  <2> QED
    BY <2>1, LedgerStutters DEF Succeeded, Seen
<1> QED
  BY <1>1, <1>2, CallRefines, HandlerRefines DEF Next

\* ImplementsLedger: a call acts on the balance last committed because it keeps
\* the row lock from its UPDATE to its COMMIT; a handler works out its amounts from
\* the row it found, so that a plan change or a cancellation forgets the calls that
\* committed between its look and its own COMMIT, and, but for a new month, nothing
\* else does.
THEOREM BillingImplementsLedger == Spec => ImplementsLedger
<1>1. Init => Ledger!Init
  BY DEF Init, Ledger!Init, First, CreditsOf, Nothing
<1>2. Init => IInv /\ Charged /\ Once /\ OneAway
  BY InitIInv, BillingConstants
  DEF Init, Charged, ChargedOnce, Once, AppliedOnce, OneAway, First, Nothing
<1>3. IInv => TypeOK
  BY DEF IInv
<1> QED
  BY <1>1, <1>2, <1>3, NextIInv, NextCharged, NextOnce, NextOneAway, NextRefines, PTL
  DEF Spec, ImplementsLedger, Ledger!Spec
=============================================================================
