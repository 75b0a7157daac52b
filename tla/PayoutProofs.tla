---------------------------- MODULE PayoutProofs ----------------------------
(***************************************************************************)
(* For every set of jobs, requests, processes and slots, and every bound:  *)
(* the payout pipeline is type correct, pays a crypto or wallet payout at  *)
(* most once under its key, implements PayOnce, and reports no job         *)
(* completed with a payout that is neither claimed nor paid.               *)
(*                                                                         *)
(* AtMostOncePayment is not inductive: it says nothing of the runs that    *)
(* are about to submit.  SubmitInv adds that such a run owns the pending   *)
(* row of its hash, which only one run can have created, and that the hash *)
(* is unpaid.  The lock is not mentioned: the argument rests on the unique *)
(* index alone, which is why it survives a lost lock.                      *)
(*                                                                         *)
(* The rails without a key have no index.  What bounds them is counted:    *)
(* the attempts of a job are bounded, and a payout is paid no more often   *)
(* than its job was attempted.                                             *)
(***************************************************************************)
EXTENDS Payout, FiniteSetTheorems, TLAPS

\* Positions and outcomes of a run stay within the payouts of its job, and the
\* payouts of a job never change once it is enqueued.
RunInv ==
  /\ \A j \in Jobs : state[j] # "absent" => items[j] # <<>>
  /\ \A w \in Slots : Busy(w) =>
       /\ state[run[w].job] # "absent"
       /\ run[w].i <= Len(items[run[w].job])
       /\ Len(run[w].oks) = IF run[w].pc = "settle" THEN run[w].i ELSE run[w].i - 1

TypeInv == TypeOK /\ RunInv

\* A run about to claim, submit or confirm stands where its row says.
SubmitInv ==
  /\ \A h \in KeyedHashes : paid[h] <= 1 /\ (txn[h] = "none" => paid[h] = 0)
  /\ \A w \in Slots : run[w].pc \in {"find", "create", "confirm"} => run[w].req \in Keyed
  /\ \A w \in Slots : run[w].pc = "submit" /\ run[w].req \in Keyed =>
       txn[Hash(w)] = "pending" /\ paid[Hash(w)] = 0
  /\ \A w \in Slots : run[w].pc = "confirm" => txn[Hash(w)] # "none" /\ paid[Hash(w)] = 1
  /\ \A w, v \in Slots :
       /\ run[w].pc = "submit" /\ run[v].pc = "submit"
       /\ run[w].req \in Keyed /\ Hash(w) = Hash(v)
       => w = v

-----------------------------------------------------------------------------
(* Type correctness                                                        *)

LEMMA RunFields ==
  ASSUME TypeOK, NEW w \in Slots, Busy(w)
  PROVE  /\ run[w] \in Runs
         /\ run[w].job \in Jobs
         /\ run[w].req \in Requests
         /\ Hash(w) \in Hashes
         /\ LockKey(w) \in Jobs \X Groups
BY PayoutConstants DEF TypeOK, Busy, Idle, Runs, Hash, LockKey, Hashes

LEMMA InitTypeInv == Init => TypeInv
BY DEF Init, TypeInv, TypeOK, RunInv, Idle, Busy, Hashes

\* A busy slot's run r is replaced by r2: what keeps the run part of TypeInv.
LEMMA RunStep ==
  ASSUME TypeInv, NEW w \in Slots, NEW r \in Runs,
         run' = [run EXCEPT ![w] = r],
         state[r.job] # "absent", r.i <= Len(items[r.job]),
         Len(r.oks) = IF r.pc = "settle" THEN r.i ELSE r.i - 1,
         UNCHANGED items,
         \A j \in Jobs : state[j] # "absent" <=> state'[j] # "absent"
  PROVE  run' \in [Slots -> Runs \cup {Idle}] /\ RunInv'
<1>1. run' \in [Slots -> Runs \cup {Idle}]
  BY DEF TypeInv, TypeOK
<1>2. ASSUME NEW v \in Slots, Busy(v)'
      PROVE  /\ run'[v].job \in Jobs
             /\ state'[run'[v].job] # "absent"
             /\ run'[v].i <= Len(items'[run'[v].job])
             /\ Len(run'[v].oks) = IF run'[v].pc = "settle" THEN run'[v].i ELSE run'[v].i - 1
  <2>1. CASE v = w
    <3>1. run'[v] = r
      BY <2>1 DEF TypeInv, TypeOK
    <3>2. r.job \in Jobs
      BY DEF Runs
    <3> QED BY <3>1, <3>2
  <2>2. CASE v # w
    <3>1. run'[v] = run[v] /\ Busy(v)
      BY <1>2, <2>2 DEF TypeInv, TypeOK, Busy
    <3>2. run[v].job \in Jobs
      BY <3>1, RunFields DEF TypeInv
    <3> QED BY <3>1, <3>2 DEF TypeInv, RunInv
  <2> QED BY <2>1, <2>2
<1> QED
  BY <1>1, <1>2 DEF RunInv, TypeInv

\* The same when the slot becomes idle.
LEMMA IdleStep ==
  ASSUME TypeInv, NEW w \in Slots, run' = [run EXCEPT ![w] = Idle],
         UNCHANGED items,
         \A j \in Jobs : state[j] # "absent" <=> state'[j] # "absent"
  PROVE  run' \in [Slots -> Runs \cup {Idle}] /\ RunInv'
<1>1. run' \in [Slots -> Runs \cup {Idle}]
  BY DEF TypeInv, TypeOK
<1>2. ASSUME NEW v \in Slots, Busy(v)'
      PROVE  run'[v] = run[v] /\ Busy(v) /\ run[v].job \in Jobs
  <2>1. v # w
    BY <1>2 DEF Busy, Idle, TypeInv, TypeOK
  <2>2. run'[v] = run[v] /\ Busy(v)
    BY <1>2, <2>1 DEF TypeInv, TypeOK, Busy
  <2> QED BY <2>2, RunFields DEF TypeInv
<1> QED
  BY <1>1, <1>2 DEF RunInv, TypeInv

\* The same for a step that only moves the program counter of a run.
LEMMA PcStep ==
  ASSUME TypeInv, NEW w \in Slots, Busy(w), run[w].pc # "settle",
         NEW p \in InLock, run' = [run EXCEPT ![w].pc = p], UNCHANGED <<items, state>>
  PROVE  run' \in [Slots -> Runs \cup {Idle}] /\ RunInv'
<1> DEFINE r == [run[w] EXCEPT !.pc = p]
<1>1. run[w] \in Runs
  BY RunFields DEF TypeInv
<1>2. r \in Runs /\ r.job = run[w].job /\ r.i = run[w].i /\ r.oks = run[w].oks /\ r.pc = p
  BY <1>1 DEF Runs
<1>3. run' = [run EXCEPT ![w] = r]
  OBVIOUS
<1>4. p # "settle"
  BY DEF InLock
<1>5. state[r.job] # "absent" /\ r.i <= Len(items[r.job]) /\ Len(r.oks) = r.i - 1
  BY <1>2 DEF TypeInv, RunInv
<1> HIDE DEF r
<1> QED BY <1>2, <1>3, <1>4, <1>5, RunStep

\* A run that settles its position has one more outcome.
LEMMA Settled ==
  ASSUME TypeInv, NEW w \in Slots, Busy(w), run[w].pc # "settle", NEW ok \in BOOLEAN
  PROVE  LET r == SettledAs(run[w], ok)
         IN /\ r \in Runs /\ r.pc = "settle"
            /\ state[r.job] # "absent" /\ r.i <= Len(items[r.job]) /\ Len(r.oks) = r.i
<1>1. run[w] \in Runs /\ run[w].oks \in Seq(BOOLEAN) /\ run[w].i \in Nat \ {0}
  BY RunFields DEF TypeInv, Runs
<1>2. Append(run[w].oks, ok) \in Seq(BOOLEAN) /\ Len(Append(run[w].oks, ok)) = Len(run[w].oks) + 1
  BY <1>1
<1>3. Len(run[w].oks) = run[w].i - 1 /\ state[run[w].job] # "absent"
      /\ run[w].i <= Len(items[run[w].job])
  BY DEF TypeInv, RunInv
<1> DEFINE r == SettledAs(run[w], ok)
<1>4. r = [run[w] EXCEPT !.pc = "settle", !.oks = Append(run[w].oks, ok)]
  BY DEF SettledAs
<1> HIDE DEF r
<1>5. r \in Runs /\ r.pc = "settle" /\ r.job = run[w].job /\ r.i = run[w].i
      /\ r.oks = Append(run[w].oks, ok)
  BY <1>1, <1>2, <1>4 DEF Runs
<1>6. Len(r.oks) = Len(run[w].oks) + 1
  BY <1>2, <1>5
<1>7. Len(r.oks) = r.i
  BY <1>1, <1>3, <1>5, <1>6
<1> QED BY <1>3, <1>5, <1>7 DEF r

LEMMA UnlockType ==
  ASSUME TypeOK, NEW w \in Slots, Unlock(w)
  PROVE  lock' \in [Jobs \X Groups -> Slots \cup {NoSlot}]
BY DEF TypeOK, Unlock

LEMMA FailureType ==
  ASSUME TypeOK, NEW w \in Slots, Busy(w), RecordFailure(w)
  PROVE  failures' \subseteq Hashes
BY RunFields DEF TypeOK, RecordFailure

LEMMA BodyTypeInv ==
  ASSUME TypeInv, NEW w \in Slots, Body(w)
  PROVE  TypeInv'
<1> USE DEF TypeInv
<1>1. Busy(w) /\ run[w].pc # "settle"
  BY DEF Body, Acquire, RejectEarly, Find, Create, Submit, Confirm, Finish, BodyThrows,
         Busy, InLock
<1>2. Hash(w) \in Hashes /\ LockKey(w) \in Jobs \X Groups
  BY <1>1, RunFields
<1>3. CASE Acquire(w)
  <2>1. run' \in [Slots -> Runs \cup {Idle}] /\ RunInv'
    BY <1>1, <1>3, PcStep DEF Acquire, InLock, queueVars
  <2> QED BY <1>2, <1>3, <2>1 DEF Acquire, TypeOK, queueVars
<1>4. CASE RejectEarly(w)
  <2>1. run' \in [Slots -> Runs \cup {Idle}] /\ RunInv'
    BY <1>1, <1>4, Settled, RunStep DEF RejectEarly, queueVars
  <2> QED BY <1>1, <1>4, <2>1, FailureType DEF RejectEarly, TypeOK, queueVars
<1>5. CASE Find(w)
  <2>1. run' \in [Slots -> Runs \cup {Idle}] /\ RunInv'
    BY <1>1, <1>5, PcStep DEF Find, InLock, queueVars
  <2> QED BY <1>5, <2>1 DEF Find, TypeOK, queueVars
<1>6. CASE Create(w)
  <2>1. run' \in [Slots -> Runs \cup {Idle}] /\ RunInv'
    BY <1>1, <1>6, PcStep DEF Create, InLock, queueVars
  <2> QED BY <1>2, <1>6, <2>1 DEF Create, TypeOK, queueVars
<1>7. CASE Submit(w)
  <2>1. run' \in [Slots -> Runs \cup {Idle}] /\ RunInv'
    BY <1>1, <1>7, PcStep DEF Submit, InLock, queueVars
  <2> QED BY <1>2, <1>7, <2>1 DEF Submit, TypeOK, queueVars
<1>8. CASE Confirm(w)
  <2>1. run' \in [Slots -> Runs \cup {Idle}] /\ RunInv'
    BY <1>1, <1>8, PcStep DEF Confirm, InLock, queueVars
  <2> QED BY <1>2, <1>8, <2>1 DEF Confirm, TypeOK, queueVars
<1>9. CASE Finish(w)
  <2>1. run' \in [Slots -> Runs \cup {Idle}] /\ RunInv'
    BY <1>1, <1>9, Settled, RunStep, IdleStep DEF Finish, queueVars
  <2> QED BY <1>9, <2>1, UnlockType DEF Finish, TypeOK, queueVars
<1>10. CASE BodyThrows(w)
  <2>1. run' \in [Slots -> Runs \cup {Idle}] /\ RunInv'
    BY <1>1, <1>10, Settled, RunStep, IdleStep DEF BodyThrows, queueVars
  <2> QED BY <1>1, <1>10, <2>1, UnlockType, FailureType DEF BodyThrows, TypeOK, queueVars
<1> QED
  BY <1>3, <1>4, <1>5, <1>6, <1>7, <1>8, <1>9, <1>10 DEF Body
LEMMA HandlerTypeInv ==
  ASSUME TypeInv, NEW w \in Slots, Handler(w)
  PROVE  TypeInv'
<1> USE DEF TypeInv
<1>1. Busy(w) /\ run[w].pc = "settle"
  BY DEF Handler, ThrowOut, ProgressThrows, NextItem, Complete, AttemptFails, ReEnqueue, AtEnd, Busy
<1>2. /\ run[w] \in Runs /\ run[w].job \in Jobs /\ run[w].i \in Nat \ {0}
      /\ run[w].oks \in Seq(BOOLEAN)
      /\ state[run[w].job] # "absent"
      /\ items[run[w].job] \in Seq(Requests)
      /\ run[w].i <= Len(items[run[w].job])
      /\ Len(run[w].oks) = run[w].i
  BY <1>1, RunFields DEF Runs, RunInv, TypeOK
<1>3. CASE NextItem(w)
  <2> DEFINE i == run[w].i + 1
             q == items[run[w].job][i]
             r == [run[w] EXCEPT !.pc = "start", !.i = i, !.req = q]
  <2>1. i \in Nat \ {0} /\ i <= Len(items[run[w].job]) /\ q \in Requests
    BY <1>2, <1>3 DEF NextItem
  <2>2. i = run[w].i + 1
    OBVIOUS
  <2>3. run' = [run EXCEPT ![w] = r]
    BY <1>3 DEF NextItem
  <2> HIDE DEF i, q
  <2>4. r \in Runs /\ r.pc = "start" /\ r.job = run[w].job /\ r.i = i
        /\ r.oks = run[w].oks
    BY <1>2, <2>1 DEF Runs
  <2>5. r.i <= Len(items[r.job]) /\ Len(r.oks) = r.i - 1 /\ state[r.job] # "absent"
    BY <1>2, <2>1, <2>2, <2>4
  <2> HIDE DEF r
  <2>6. run' \in [Slots -> Runs \cup {Idle}] /\ RunInv'
    BY <1>3, <2>3, <2>4, <2>5, RunStep DEF NextItem, queueVars
  <2> QED BY <1>3, <2>6 DEF NextItem, TypeOK, queueVars
<1>4. CASE Complete(w)
  <2>1. run' \in [Slots -> Runs \cup {Idle}] /\ RunInv'
    BY <1>2, <1>4, IdleStep DEF Complete, TypeOK
  <2> QED BY <1>2, <1>4, <2>1 DEF Complete, TypeOK
<1>5. AfterThrow(w) \in [Jobs -> {"absent", "waiting", "active", "completed", "failed"}]
      /\ \A j \in Jobs : state[j] # "absent" <=> AfterThrow(w)[j] # "absent"
  BY <1>2 DEF AfterThrow, TypeOK
<1>6. CountAttempt(w) => attempts' \in [Jobs -> Nat]
  BY <1>2 DEF CountAttempt, TypeOK
<1>7. CASE AttemptFails(w)
  <2>1. run' \in [Slots -> Runs \cup {Idle}] /\ RunInv'
    BY <1>5, <1>7, IdleStep DEF AttemptFails
  <2> QED BY <1>5, <1>6, <1>7, <2>1 DEF AttemptFails, TypeOK
<1>8. CASE ReEnqueue(w)
  <2> PICK f \in [FailedItems(w) -> {j \in Jobs \ DOMAIN Workload : state[j] = "absent"}] :
         /\ items' = SpawnedBy(w, f)
         /\ state' = [j \in Jobs |-> IF \E n \in FailedItems(w) : f[n] = j
                                       THEN "waiting" ELSE AfterThrow(w)[j]]
    BY <1>8 DEF ReEnqueue
  <2> DEFINE New(j) == \E n \in FailedItems(w) : f[n] = j
  <2>1. ASSUME NEW j \in Jobs, New(j)
        PROVE  state[j] = "absent" /\ items'[j] \in Seq(Requests) /\ items'[j] # <<>>
    <3> DEFINE n == CHOOSE n \in FailedItems(w) : f[n] = j
    <3>1. n \in FailedItems(w) /\ f[n] = j
      BY <2>1
    <3>2. n \in 1..Len(items[run[w].job])
      BY <1>2, <3>1 DEF FailedItems
    <3>3. items[run[w].job][n] \in Requests
      BY <1>2, <3>2
    <3>4. items'[j] = <<items[run[w].job][n]>>
      BY <2>1 DEF SpawnedBy
    <3> HIDE DEF n
    <3> QED BY <3>1, <3>3, <3>4
  <2>2. ASSUME NEW j \in Jobs, ~New(j)
        PROVE  items'[j] = items[j] /\ state'[j] = AfterThrow(w)[j]
    BY <2>2 DEF SpawnedBy
  <2>3. items' \in [Jobs -> Seq(Requests)]
    <3>1. \A j \in Jobs : items'[j] \in Seq(Requests)
      BY <2>1, <2>2 DEF TypeOK
    <3>2. items' = [j \in Jobs |-> items'[j]]
      BY DEF SpawnedBy
    <3> QED BY <3>1, <3>2
  <2>4. state' \in [Jobs -> {"absent", "waiting", "active", "completed", "failed"}]
    BY <1>5
  <2>5. \A j \in Jobs : state'[j] # "absent" => items'[j] # <<>>
    BY <1>5, <2>1, <2>2 DEF RunInv
  <2>6. run' = [run EXCEPT ![w] = Idle]
    BY <1>8 DEF ReEnqueue
  <2>7. run' \in [Slots -> Runs \cup {Idle}]
    BY <2>6 DEF TypeOK
  <2>8. ASSUME NEW v \in Slots, Busy(v)'
        PROVE  /\ run'[v] = run[v] /\ Busy(v) /\ run[v].job \in Jobs
               /\ state'[run[v].job] # "absent"
               /\ items'[run[v].job] = items[run[v].job]
    <3>1. v # w
      BY <2>6, <2>8 DEF Busy, Idle, TypeOK
    <3>2. run'[v] = run[v] /\ Busy(v)
      BY <2>6, <2>8, <3>1 DEF TypeOK, Busy
    <3>3. run[v].job \in Jobs /\ state[run[v].job] # "absent"
      BY <3>2, RunFields DEF RunInv
    <3>4. ~New(run[v].job)
      BY <2>1, <3>3
    <3> HIDE DEF New
    <3> QED BY <1>5, <2>2, <3>2, <3>3, <3>4
  <2>9. RunInv'
    BY <2>5, <2>8 DEF RunInv
  <2> QED BY <1>6, <1>8, <2>3, <2>4, <2>7, <2>9 DEF ReEnqueue, TypeOK
<1> QED BY <1>3, <1>4, <1>7, <1>8 DEF Handler, ThrowOut, ProgressThrows
\* A step that leaves every run alone.
LEMMA SameRuns ==
  ASSUME TypeInv, UNCHANGED run,
         \A j \in Jobs : state[j] # "absent" => state'[j] # "absent" /\ items'[j] = items[j],
         \A j \in Jobs : state'[j] # "absent" => items'[j] # <<>>
  PROVE  run' \in [Slots -> Runs \cup {Idle}] /\ RunInv'
<1>1. ASSUME NEW w \in Slots, Busy(w) PROVE run[w].job \in Jobs
  BY <1>1, RunFields DEF TypeInv
<1> QED BY <1>1 DEF TypeInv, TypeOK, RunInv, Busy

LEMMA StartTypeInv ==
  ASSUME TypeInv, NEW w \in Slots, NEW j \in Jobs, Start(w, j)
  PROVE  TypeInv'
<1> DEFINE r == [pc |-> "start", job |-> j, i |-> 1, req |-> items[j][1],
                 oks |-> <<>>, call |-> "live"]
<1>1. items[j] \in Seq(Requests) /\ items[j] # <<>>
  BY DEF Start, TypeInv, TypeOK, RunInv
<1>2. items[j][1] \in Requests /\ 1 <= Len(items[j])
  BY <1>1
<1>3. r \in Runs /\ r.pc = "start" /\ r.job = j /\ r.i = 1 /\ Len(r.oks) = r.i - 1
  BY <1>2 DEF Runs, Calls
<1>4. run' = [run EXCEPT ![w] = r]
  BY DEF Start
<1> HIDE DEF r
<1>5. run' \in [Slots -> Runs \cup {Idle}] /\ RunInv'
  BY ZenonT(30), <1>2, <1>3, <1>4, RunStep DEF Start, TypeInv, TypeOK
<1> QED BY <1>5 DEF Start, TypeInv, TypeOK

LEMMA StallTypeInv ==
  ASSUME TypeInv, NEW w \in Slots, Stall(w)
  PROVE  TypeInv'
<1> DEFINE r == [run[w] EXCEPT !.call = "stale"]
<1>1. run[w] \in Runs /\ Busy(w) /\ run[w].job \in Jobs
  BY DEF Stall, TypeInv, TypeOK, Idle, Busy, Runs, InLock
<1>2. r \in Runs /\ r.pc = run[w].pc /\ r.job = run[w].job /\ r.i = run[w].i
      /\ r.oks = run[w].oks
  BY <1>1 DEF Runs, Calls
<1>3. run' = [run EXCEPT ![w] = r]
  BY DEF Stall
<1> HIDE DEF r
<1>4. \A j \in Jobs : state[j] # "absent" <=> state'[j] # "absent"
  BY <1>1 DEF Stall, AfterStall, TypeInv, TypeOK, RunInv
<1>5. run' \in [Slots -> Runs \cup {Idle}] /\ RunInv'
  <2>1. /\ state[r.job] # "absent" /\ r.i <= Len(items[r.job])
        /\ Len(r.oks) = IF r.pc = "settle" THEN r.i ELSE r.i - 1
    BY <1>1, <1>2 DEF TypeInv, RunInv
  <2>2. UNCHANGED items
    BY DEF Stall
  <2> QED BY <1>2, <1>3, <1>4, <2>1, <2>2, RunStep
<1> QED BY SMTT(30), <1>1, <1>5 DEF Stall, AfterStall, TypeInv, TypeOK

LEMMA CrashTypeInv ==
  ASSUME TypeInv, NEW p \in Procs, Crash(p)
  PROVE  TypeInv'
<1>1. \A w \in Slots : run'[w] = run[w] \/ run'[w] = Idle
  BY DEF Crash
<1>2. run' \in [Slots -> Runs \cup {Idle}]
  BY DEF Crash, TypeInv, TypeOK
<1>3. \A w \in Slots : run[w].call = "live" => state[run[w].job] # "absent"
  <2> SUFFICES ASSUME NEW w \in Slots, run[w].call = "live"
               PROVE  state[run[w].job] # "absent"
    OBVIOUS
  <2>1. run[w] # Idle
    BY DEF Idle
  <2>2. run[w] \in Runs
    BY <2>1 DEF TypeInv, TypeOK
  <2>3. Busy(w)
    BY <2>2 DEF Runs, Busy, InLock
  <2> QED BY <2>3 DEF TypeInv, RunInv
<1>4. \A j \in Jobs : state[j] # "absent" <=> state'[j] # "absent"
  BY <1>3 DEF Crash, AfterStall, TypeInv, TypeOK
<1>5. ASSUME NEW w \in Slots, Busy(w)'
      PROVE  run'[w] = run[w] /\ Busy(w) /\ run[w].job \in Jobs
  BY <1>1, <1>5, RunFields DEF Busy, Idle, TypeInv
<1>6. RunInv'
  BY <1>4, <1>5 DEF Crash, TypeInv, RunInv
<1>7. state' \in [Jobs -> {"absent", "waiting", "active", "completed", "failed"}]
      /\ stalls' \in [Jobs -> Nat]
  BY DEF Crash, AfterStall, TypeInv, TypeOK
<1> QED BY <1>2, <1>6, <1>7 DEF Crash, TypeInv, TypeOK

LEMMA ExtendFailsTypeInv ==
  ASSUME TypeInv, NEW w \in Slots, NEW v \in Slots, ExtendFails(w, v)
  PROVE  TypeInv'
<1> DEFINE d == [run[w] EXCEPT !.call = "detached"]
           s == SettledAs(run[w], FALSE)
<1>1. Busy(w) /\ run[w].pc # "settle" /\ w # v /\ run[w] \in Runs
  BY RunFields DEF ExtendFails, Busy, InLock, TypeInv
<1>2. d \in Runs /\ d.pc = run[w].pc /\ d.job = run[w].job /\ d.i = run[w].i /\ d.oks = run[w].oks
  BY <1>1 DEF Runs, Calls
<1>3. s \in Runs /\ s.pc = "settle" /\ state[s.job] # "absent"
      /\ s.i <= Len(items[s.job]) /\ Len(s.oks) = s.i
  BY <1>1, Settled
<1>4. run' = [run EXCEPT ![w] = d, ![v] = s]
  BY DEF ExtendFails
<1>5. s.job \in Jobs /\ d.job \in Jobs
  BY <1>2, <1>3 DEF Runs
<1> HIDE DEF d, s
<1>6. run' \in [Slots -> Runs \cup {Idle}] /\ run'[w] = d /\ run'[v] = s
      /\ \A x \in Slots \ {w, v} : run'[x] = run[x]
  BY <1>1, <1>2, <1>3, <1>4 DEF TypeInv, TypeOK
<1>7. ASSUME NEW x \in Slots, Busy(x)'
      PROVE  /\ run'[x].job \in Jobs
             /\ state[run'[x].job] # "absent"
             /\ run'[x].i <= Len(items[run'[x].job])
             /\ Len(run'[x].oks) = IF run'[x].pc = "settle" THEN run'[x].i ELSE run'[x].i - 1
  <2>1. CASE x = v
    BY <1>3, <1>5, <1>6, <2>1
  <2>2. CASE x = w
    BY <1>1, <1>2, <1>5, <1>6, <2>2 DEF TypeInv, RunInv
  <2>3. CASE x \notin {w, v}
    <3>1. run'[x] = run[x] /\ Busy(x)
      BY <1>6, <1>7, <2>3 DEF Busy
    <3> QED BY <3>1, RunFields DEF TypeInv, RunInv
  <2> QED BY <2>1, <2>2, <2>3
<1>8. RunInv'
  BY <1>7 DEF ExtendFails, queueVars, TypeInv, RunInv
<1>9. lock' \in [Jobs \X Groups -> Slots \cup {NoSlot}] /\ failures' \subseteq Hashes
  BY <1>1, UnlockType, FailureType DEF ExtendFails, TypeInv
<1> QED BY <1>6, <1>8, <1>9 DEF ExtendFails, queueVars, TypeInv, TypeOK

LEMMA NextTypeInv == TypeInv /\ [Next]_vars => TypeInv'
<1> SUFFICES ASSUME TypeInv, [Next]_vars PROVE TypeInv'
  OBVIOUS
<1>1. ASSUME NEW j \in Jobs, Enqueue(j) PROVE TypeInv'
  <2>1. Workload[j] \in Seq(Requests) /\ Workload[j] # <<>>
    BY <1>1, PayoutConstants DEF Enqueue
  <2>2. run' \in [Slots -> Runs \cup {Idle}] /\ RunInv'
    BY <1>1, <2>1, SameRuns DEF Enqueue, TypeInv, TypeOK, RunInv
  <2> QED BY <1>1, <2>1, <2>2 DEF Enqueue, TypeInv, TypeOK
<1>2. ASSUME NEW j \in Jobs, AdminRetry(j) PROVE TypeInv'
  <2>1. run' \in [Slots -> Runs \cup {Idle}] /\ RunInv'
    BY <1>2, SameRuns DEF AdminRetry, TypeInv, TypeOK, RunInv
  <2> QED BY <1>2, <2>1 DEF AdminRetry, TypeInv, TypeOK
<1>3. ASSUME NEW k \in Jobs \X Groups, ExpireLock(k) PROVE TypeInv'
  <2>1. run' \in [Slots -> Runs \cup {Idle}] /\ RunInv'
    BY <1>3, SameRuns DEF ExpireLock, queueVars, TypeInv, TypeOK, RunInv
  <2> QED BY <1>3, <2>1 DEF ExpireLock, queueVars, TypeInv, TypeOK
<1>4. CASE UNCHANGED vars
  BY <1>4 DEF vars, TypeInv, TypeOK, RunInv, Busy
<1> QED
  BY <1>1, <1>2, <1>3, <1>4, StartTypeInv, StallTypeInv, CrashTypeInv, ExtendFailsTypeInv,
     BodyTypeInv, HandlerTypeInv DEF Next

\* The pipeline only reaches states of the declared types, whatever the number
\* of jobs, processes, retries and stalls (all of payoutJob.ts).
THEOREM TypeCorrect == Spec => []TypeOK
<1>1. TypeInv => TypeOK
  BY DEF TypeInv
<1> QED BY <1>1, InitTypeInv, NextTypeInv, PTL DEF Spec
-----------------------------------------------------------------------------
(* At most one payment, and the refinement                                 *)

\* What SubmitInv says of the runs is kept by a step that leaves the table and
\* the rail alone and puts no run where it could claim, submit or confirm.
LEMMA QuietStep ==
  ASSUME SubmitInv, UNCHANGED <<txn, paid>>,
         \A w \in Slots :
           \/ run'[w].pc \in {"idle", "start", "settle", "finish"}
           \/ /\ run'[w].pc = run[w].pc
              /\ run'[w].job = run[w].job
              /\ run'[w].req = run[w].req
  PROVE  SubmitInv'
BY DEF SubmitInv, Hash

LEMMA InitSubmitInv == Init => SubmitInv
BY SMTT(30), PayoutConstants DEF Init, SubmitInv, Idle, Hashes, KeyedHashes

\* Every step but the claim, the submission, the confirmation and the two that
\* lead to them is quiet.
LEMMA QuietActions ==
  ASSUME TypeOK, SubmitInv,
         \/ \E j \in Jobs : Enqueue(j) \/ AdminRetry(j)
         \/ \E w \in Slots, j \in Jobs : Start(w, j)
         \/ \E w \in Slots : Stall(w) \/ RejectEarly(w) \/ Finish(w) \/ BodyThrows(w) \/ Handler(w)
         \/ \E w, v \in Slots : ExtendFails(w, v)
         \/ \E p \in Procs : Crash(p)
         \/ \E k \in Jobs \X Groups : ExpireLock(k)
         \/ UNCHANGED vars
  PROVE  SubmitInv' /\ UNCHANGED <<txn, paid>>
<1>1. UNCHANGED <<txn, paid>>
  BY DEF Enqueue, AdminRetry, Start, Stall, RejectEarly, Finish, BodyThrows, Handler, ThrowOut, ProgressThrows, NextItem,
         Complete, AttemptFails, ReEnqueue, ExtendFails, Crash, ExpireLock, vars
<1>2. ASSUME NEW x \in Slots
      PROVE  \/ run'[x].pc \in {"idle", "start", "settle", "finish"}
             \/ run'[x].pc = run[x].pc /\ run'[x].job = run[x].job /\ run'[x].req = run[x].req
  <2>1. CASE (\E j \in Jobs : Enqueue(j) \/ AdminRetry(j))
             \/ (\E k \in Jobs \X Groups : ExpireLock(k)) \/ UNCHANGED vars
    BY <2>1 DEF Enqueue, AdminRetry, ExpireLock, vars
  <2>2. CASE \E w \in Slots, j \in Jobs : Start(w, j)
    BY <2>2 DEF Start, TypeOK
  <2>3. CASE \E w \in Slots : Stall(w)
    BY <2>3 DEF Stall, TypeOK, Runs, Idle
  <2>4. ASSUME NEW w \in Slots, RejectEarly(w) \/ Finish(w) \/ BodyThrows(w)
        PROVE  run'[x] = run[x] \/ run'[x].pc \in {"idle", "settle"}
    <3>1. Busy(w)
      BY <2>4 DEF RejectEarly, Finish, BodyThrows, Busy, InLock
    <3>2. \A ok \in BOOLEAN : SettledAs(run[w], ok).pc = "settle"
      BY <3>1, RunFields DEF SettledAs, Runs
    <3>3. \/ run' = [run EXCEPT ![w] = Idle]
          \/ \E ok \in BOOLEAN : run' = [run EXCEPT ![w] = SettledAs(run[w], ok)]
      BY <2>4 DEF RejectEarly, Finish, BodyThrows
    <3> QED BY <3>2, <3>3 DEF TypeOK, Idle
  <2>5. ASSUME NEW w \in Slots, Handler(w)
        PROVE  run'[x] = run[x] \/ run'[x].pc \in {"idle", "start"}
    <3>1. CASE NextItem(w)
      <4>1. run[w] \in Runs
        BY <3>1, RunFields DEF NextItem, Busy
      <4> QED BY <3>1, <4>1 DEF NextItem, TypeOK, Runs
    <3>2. CASE Complete(w) \/ AttemptFails(w) \/ ReEnqueue(w)
      <4>1. run' = [run EXCEPT ![w] = Idle]
        BY <3>2 DEF Complete, AttemptFails, ReEnqueue
      <4> QED BY <4>1 DEF TypeOK, Idle
    <3> QED BY <2>5, <3>1, <3>2 DEF Handler, ThrowOut, ProgressThrows
  <2>6. ASSUME NEW w \in Slots, NEW v \in Slots, ExtendFails(w, v)
        PROVE  \/ run'[x].pc = "settle"
               \/ run'[x].pc = run[x].pc /\ run'[x].job = run[x].job /\ run'[x].req = run[x].req
    <3> DEFINE d == [run[w] EXCEPT !.call = "detached"]
    <3>1. Busy(w) /\ w # v
      BY <2>6 DEF ExtendFails, Busy, InLock
    <3>2. d.pc = run[w].pc /\ d.job = run[w].job /\ d.req = run[w].req
      BY <3>1, RunFields DEF Runs
    <3>3. SettledAs(run[w], FALSE).pc = "settle"
      BY <3>1, RunFields DEF SettledAs, Runs
    <3>4. run' = [run EXCEPT ![w] = d, ![v] = SettledAs(run[w], FALSE)]
      BY <2>6 DEF ExtendFails
    <3> HIDE DEF d
    <3> QED BY <3>1, <3>2, <3>3, <3>4 DEF TypeOK
  <2>9. CASE \E p \in Procs : Crash(p)
    BY <2>9 DEF Crash, Idle
  <2> QED
    BY <2>1, <2>2, <2>3, <2>4, <2>5, <2>6, <2>9
<1> QED BY SMTT(30), <1>1, <1>2, QuietStep

\* A step that only moves the program counter of one run.
LEMMA PcMoves ==
  ASSUME TypeOK, NEW w \in Slots, Busy(w), NEW p \in InLock, run' = [run EXCEPT ![w].pc = p]
  PROVE  /\ \A x \in Slots : run'[x].pc = (IF x = w THEN p ELSE run[x].pc)
         /\ \A x \in Slots : run'[x].job = run[x].job /\ run'[x].req = run[x].req
<1>1. run[w] \in Runs
  BY RunFields
<1> QED BY <1>1 DEF TypeOK, Runs

LEMMA AcquireSubmitInv ==
  ASSUME TypeOK, SubmitInv, NEW w \in Slots, Acquire(w)
  PROVE  SubmitInv' /\ UNCHANGED <<txn, paid>>
<1> DEFINE p == IF run[w].req \in Keyed THEN "find" ELSE "submit"
<1>1. Busy(w) /\ p \in InLock /\ run' = [run EXCEPT ![w].pc = p]
  BY DEF Acquire, Busy, InLock
<1>2. p = (IF run[w].req \in Keyed THEN "find" ELSE "submit")
  OBVIOUS
<1> HIDE DEF p
<1>3. /\ \A x \in Slots : run'[x].pc = (IF x = w THEN p ELSE run[x].pc)
      /\ \A x \in Slots : run'[x].job = run[x].job /\ run'[x].req = run[x].req
  BY <1>1, PcMoves
<1> QED BY <1>2, <1>3 DEF Acquire, SubmitInv, Hash

LEMMA FindSubmitInv ==
  ASSUME TypeOK, SubmitInv, NEW w \in Slots, Find(w)
  PROVE  SubmitInv' /\ UNCHANGED <<txn, paid>>
<1> DEFINE p == IF txn[Hash(w)] = "none" THEN "create" ELSE "finish"
<1>1. Busy(w) /\ p \in InLock /\ run' = [run EXCEPT ![w].pc = p]
  BY DEF Find, Busy, InLock
<1>2. p = (IF txn[Hash(w)] = "none" THEN "create" ELSE "finish")
  OBVIOUS
<1> HIDE DEF p
<1>3. /\ \A x \in Slots : run'[x].pc = (IF x = w THEN p ELSE run[x].pc)
      /\ \A x \in Slots : run'[x].job = run[x].job /\ run'[x].req = run[x].req
  BY <1>1, PcMoves
<1> QED BY <1>2, <1>3 DEF Find, SubmitInv, Hash

LEMMA CreateSubmitInv ==
  ASSUME TypeOK, SubmitInv, NEW w \in Slots, Create(w)
  PROVE  SubmitInv' /\ Hash(w) \in KeyedHashes
<1>1. Busy(w)
  BY DEF Create, Busy
<1>2. Hash(w) \in KeyedHashes /\ Hash(w) \in Hashes
  BY <1>1, RunFields DEF Create, SubmitInv, KeyedHashes, Hash
<1>3. /\ \A x \in Slots : run'[x].pc = (IF x = w THEN "submit" ELSE run[x].pc)
      /\ \A x \in Slots : run'[x].job = run[x].job /\ run'[x].req = run[x].req
  BY <1>1, PcMoves DEF Create, InLock
<1>4. txn[Hash(w)] = "none" /\ txn'[Hash(w)] = "pending" /\ UNCHANGED paid
      /\ \A h \in Hashes \ {Hash(w)} : txn'[h] = txn[h]
  BY <1>2 DEF Create, TypeOK
<1>5. KeyedHashes \subseteq Hashes
  BY PayoutConstants DEF KeyedHashes, Hashes
<1>6. \A x \in Slots : run[x].pc \in {"submit", "confirm"} => Hash(x) \in Hashes
  BY RunFields DEF Busy
<1>7. \A x \in Slots : Hash(x)' = Hash(x)
  BY <1>3 DEF Hash
<1>8. \A x \in Slots : x # w /\ run[x].pc = "submit" /\ run[x].req \in Keyed => Hash(x) # Hash(w)
  BY <1>4 DEF SubmitInv
<1>9. \A h \in KeyedHashes : paid'[h] <= 1 /\ (txn'[h] = "none" => paid'[h] = 0)
  BY <1>4, <1>5 DEF SubmitInv
<1>10. \A x \in Slots : run'[x].pc \in {"find", "create", "confirm"} => run'[x].req \in Keyed
  BY <1>3 DEF SubmitInv
<1>11. \A x \in Slots : run'[x].pc = "submit" /\ run'[x].req \in Keyed =>
         txn'[Hash(x)'] = "pending" /\ paid'[Hash(x)'] = 0
  BY <1>2, <1>3, <1>4, <1>6, <1>7 DEF SubmitInv
<1>12. \A x \in Slots : run'[x].pc = "confirm" => txn'[Hash(x)'] # "none" /\ paid'[Hash(x)'] = 1
  BY <1>3, <1>4, <1>6, <1>7 DEF SubmitInv
<1>13. \A x, y \in Slots :
         /\ run'[x].pc = "submit" /\ run'[y].pc = "submit"
         /\ run'[x].req \in Keyed /\ Hash(x)' = Hash(y)'
         => x = y
  <2>1. \A x, y \in Slots : run[x].req \in Keyed /\ Hash(x) = Hash(y) => run[y].req \in Keyed
    BY DEF Hash
  <2> QED BY <1>3, <1>7, <1>8, <2>1 DEF SubmitInv
<1> QED BY <1>2, <1>9, <1>10, <1>11, <1>12, <1>13 DEF SubmitInv

LEMMA SubmitSubmitInv ==
  ASSUME TypeOK, SubmitInv, NEW w \in Slots, Submit(w)
  PROVE  SubmitInv'
<1> DEFINE p == IF run[w].req \in Keyed THEN "confirm" ELSE "finish"
<1>1. Busy(w) /\ p \in InLock /\ run' = [run EXCEPT ![w].pc = p] /\ run[w].pc = "submit"
  BY DEF Submit, Busy, InLock
<1>2. p = IF run[w].req \in Keyed THEN "confirm" ELSE "finish"
  OBVIOUS
<1> HIDE DEF p
<1>3. /\ \A x \in Slots : run'[x].pc = (IF x = w THEN p ELSE run[x].pc)
      /\ \A x \in Slots : run'[x].job = run[x].job /\ run'[x].req = run[x].req
  BY <1>1, PcMoves
<1>4. \A x \in Slots : Hash(x)' = Hash(x)
  BY <1>3 DEF Hash
<1>5. Hash(w) \in Hashes /\ paid[Hash(w)] \in Nat
  BY <1>1, RunFields DEF TypeOK
<1>6. paid'[Hash(w)] = paid[Hash(w)] + 1 /\ UNCHANGED txn
      /\ \A h \in Hashes \ {Hash(w)} : paid'[h] = paid[h]
  BY <1>5 DEF Submit, TypeOK
<1>7. KeyedHashes \subseteq Hashes /\ (Hash(w) \in KeyedHashes <=> run[w].req \in Keyed)
  BY <1>1, RunFields, PayoutConstants DEF KeyedHashes, Hashes, Hash
<1>8. \A x \in Slots : run[x].pc \in {"submit", "confirm"} => Hash(x) \in Hashes
  BY RunFields DEF Busy
<1>9. \A x, y \in Slots : Hash(x) = Hash(y) => (run[x].req \in Keyed <=> run[y].req \in Keyed)
  BY DEF Hash
<1>10. run[w].req \in Keyed => paid[Hash(w)] = 0 /\ txn[Hash(w)] = "pending"
  BY <1>1 DEF SubmitInv
<1>11. \A h \in KeyedHashes : paid'[h] <= 1 /\ (txn'[h] = "none" => paid'[h] = 0)
  BY <1>5, <1>6, <1>7, <1>10 DEF SubmitInv
<1>12. \A x \in Slots : run'[x].pc \in {"find", "create", "confirm"} => run'[x].req \in Keyed
  BY <1>2, <1>3 DEF SubmitInv
<1>13. \A x \in Slots : run'[x].pc = "submit" /\ run'[x].req \in Keyed =>
         txn'[Hash(x)'] = "pending" /\ paid'[Hash(x)'] = 0
  BY <1>1, <1>2, <1>3, <1>4, <1>6, <1>8, <1>9 DEF SubmitInv
<1>14. \A x \in Slots : run'[x].pc = "confirm" => txn'[Hash(x)'] # "none" /\ paid'[Hash(x)'] = 1
  <2> SUFFICES ASSUME NEW x \in Slots, run'[x].pc = "confirm"
               PROVE  txn[Hash(x)] # "none" /\ paid'[Hash(x)] = 1
    BY <1>4, <1>6
  <2>1. CASE x = w
    BY <1>2, <1>3, <1>5, <1>6, <1>10, <2>1
  <2>2. CASE x # w
    <3>1. run[x].pc = "confirm" /\ txn[Hash(x)] # "none" /\ paid[Hash(x)] = 1
          /\ run[x].req \in Keyed
      BY <1>3, <2>2 DEF SubmitInv
    <3>2. Hash(x) # Hash(w)
      BY <1>9, <1>10, <3>1
    <3> QED BY <1>6, <1>8, <3>1, <3>2
  <2> QED BY <2>1, <2>2
<1>15. \A x, y \in Slots :
         /\ run'[x].pc = "submit" /\ run'[y].pc = "submit"
         /\ run'[x].req \in Keyed /\ Hash(x)' = Hash(y)'
         => x = y
  BY <1>2, <1>3, <1>4 DEF SubmitInv
<1> QED BY <1>11, <1>12, <1>13, <1>14, <1>15 DEF SubmitInv

LEMMA ConfirmSubmitInv ==
  ASSUME TypeOK, SubmitInv, NEW w \in Slots, Confirm(w)
  PROVE  SubmitInv' /\ Hash(w) \in KeyedHashes /\ paid[Hash(w)] = 1 /\ txn[Hash(w)] # "none"
<1>1. Busy(w) /\ run[w].pc = "confirm" /\ UNCHANGED paid
  BY DEF Confirm, Busy
<1>2. /\ \A x \in Slots : run'[x].pc = (IF x = w THEN "finish" ELSE run[x].pc)
      /\ \A x \in Slots : run'[x].job = run[x].job /\ run'[x].req = run[x].req
  BY <1>1, PcMoves DEF Confirm, InLock
<1>3. \A x \in Slots : Hash(x)' = Hash(x)
  BY <1>2 DEF Hash
<1>4. Hash(w) \in KeyedHashes /\ Hash(w) \in Hashes /\ paid[Hash(w)] = 1 /\ txn[Hash(w)] # "none"
  BY <1>1, RunFields DEF SubmitInv, KeyedHashes, Hash
<1>5. txn'[Hash(w)] = "confirmed" /\ \A h \in Hashes \ {Hash(w)} : txn'[h] = txn[h]
  BY <1>4 DEF Confirm, TypeOK
<1>6. KeyedHashes \subseteq Hashes
  BY PayoutConstants DEF KeyedHashes, Hashes
<1>7. \A x \in Slots : run[x].pc \in {"submit", "confirm"} => Hash(x) \in Hashes
  BY RunFields DEF Busy
<1>8. \A h \in KeyedHashes : paid'[h] <= 1 /\ (txn'[h] = "none" => paid'[h] = 0)
  BY <1>1, <1>5, <1>6 DEF SubmitInv
<1>9. \A x \in Slots : run'[x].pc = "submit" /\ run'[x].req \in Keyed =>
         txn'[Hash(x)'] = "pending" /\ paid'[Hash(x)'] = 0
  <2> SUFFICES ASSUME NEW x \in Slots, run[x].pc = "submit", run[x].req \in Keyed
               PROVE  txn'[Hash(x)] = "pending" /\ paid[Hash(x)] = 0
    BY <1>1, <1>2, <1>3
  <2>1. txn[Hash(x)] = "pending" /\ paid[Hash(x)] = 0
    BY DEF SubmitInv
  <2>2. Hash(x) # Hash(w)
    BY <1>4, <2>1
  <2> QED BY <1>5, <1>7, <2>1, <2>2
<1>10. \A x \in Slots : run'[x].pc = "confirm" => txn'[Hash(x)'] # "none" /\ paid'[Hash(x)'] = 1
  BY <1>1, <1>2, <1>3, <1>5, <1>7 DEF SubmitInv
<1>11. \A x \in Slots : run'[x].pc \in {"find", "create", "confirm"} => run'[x].req \in Keyed
  BY <1>2 DEF SubmitInv
<1>12. \A x, y \in Slots :
         /\ run'[x].pc = "submit" /\ run'[y].pc = "submit"
         /\ run'[x].req \in Keyed /\ Hash(x)' = Hash(y)'
         => x = y
  BY <1>2, <1>3 DEF SubmitInv
<1> QED BY <1>4, <1>8, <1>9, <1>10, <1>11, <1>12 DEF SubmitInv

LEMMA NextSubmitInv == TypeOK /\ SubmitInv /\ [Next]_vars => SubmitInv'
BY QuietActions, AcquireSubmitInv, FindSubmitInv, CreateSubmitInv, SubmitSubmitInv,
   ConfirmSubmitInv DEF Next, Body

\* Through any number of retries, stalls, crashes, expired locks and detached
\* callbacks, executePayout submits a crypto or wallet payout at most once per
\* idempotency key.
THEOREM PaidAtMostOnce == Spec => []AtMostOncePayment
<1>1. SubmitInv => AtMostOncePayment
  BY DEF SubmitInv, AtMostOncePayment
<1> QED BY <1>1, InitSubmitInv, NextSubmitInv, TypeCorrect, PTL DEF Spec

\* The pipeline implements PayOnce: each step of a worker, of BullMQ or of Redis
\* claims a hash, pays a claimed hash once, confirms a paid one, or changes
\* neither the table nor the rail.
THEOREM PayoutImplementsPayOnce == Spec => ImplementsPayOnce
<1>1. Init => PO!Init
  BY DEF Init, PO!Init
<1>2. TypeOK /\ SubmitInv /\ [Next]_vars => [PO!Next]_(PO!vars)
  <2> SUFFICES ASSUME TypeOK, SubmitInv, [Next]_vars
               PROVE  PO!Next \/ UNCHANGED <<txn, paid>>
    BY DEF PO!vars
  <2>1. ASSUME NEW w \in Slots, Create(w) PROVE PO!Next
    <3>1. Hash(w) \in KeyedHashes /\ Hash(w) \in Hashes
      BY <2>1, CreateSubmitInv, RunFields DEF Create, Busy
    <3>2. PO!Claim(Hash(w))
      BY <2>1, <3>1 DEF Create, PO!Claim
    <3> QED BY <3>1, <3>2 DEF PO!Next
  <2>2. ASSUME NEW w \in Slots, Submit(w) PROVE PO!Next
    <3>1. Hash(w) \in Hashes /\ (Hash(w) \in KeyedHashes <=> run[w].req \in Keyed)
      BY <2>2, RunFields DEF Submit, Busy, KeyedHashes, Hash
    <3>2. CASE run[w].req \in Keyed
      <4>1. txn[Hash(w)] = "pending" /\ paid[Hash(w)] = 0
        BY <2>2, <3>2 DEF Submit, SubmitInv
      <4>2. paid' = [paid EXCEPT ![Hash(w)] = 1] /\ UNCHANGED txn
        BY <2>2, <4>1 DEF Submit
      <4>3. PO!Pay(Hash(w))
        BY <3>1, <3>2, <4>1, <4>2 DEF PO!Pay
      <4> QED BY <3>1, <4>3 DEF PO!Next
    <3>3. CASE run[w].req \notin Keyed
      <4>1. PO!PayUnclaimed(Hash(w))
        BY <2>2, <3>1, <3>3 DEF Submit, PO!PayUnclaimed
      <4> QED BY <3>1, <4>1 DEF PO!Next
    <3> QED BY <3>2, <3>3
  <2>3. ASSUME NEW w \in Slots, Confirm(w) PROVE PO!Next \/ UNCHANGED <<txn, paid>>
    <3>1. Hash(w) \in KeyedHashes /\ Hash(w) \in Hashes /\ paid[Hash(w)] = 1
          /\ txn[Hash(w)] \in {"pending", "confirmed"}
      BY <2>3, ConfirmSubmitInv, RunFields DEF Confirm, Busy, TypeOK
    <3>2. CASE txn[Hash(w)] = "pending"
      <4>1. PO!Confirm(Hash(w))
        BY <2>3, <3>1, <3>2 DEF Confirm, PO!Confirm
      <4> QED BY <3>1, <4>1 DEF PO!Next
    <3>3. CASE txn[Hash(w)] = "confirmed"
      BY <2>3, <3>1, <3>3 DEF Confirm, TypeOK
    <3> QED BY <3>1, <3>2, <3>3
  <2> QED
    BY <2>1, <2>2, <2>3, QuietActions, AcquireSubmitInv, FindSubmitInv DEF Next, Body
<1> QED
  BY <1>1, <1>2, InitSubmitInv, NextSubmitInv, TypeCorrect, PTL
     DEF Spec, ImplementsPayOnce, PO!Spec
-----------------------------------------------------------------------------
(* Completed jobs                                                          *)

\* CompletedIsAccounted is not inductive: it says nothing of the outcomes that a
\* run has gathered.  RunsGood adds that each good one is accounted for, and that
\* the run stands at the payout of its position.
Accounted(j, r) == IF r \in Keyed THEN txn[<<j, r>>] # "none" ELSE paid[<<j, r>>] >= 1

GoodRun(r) ==
  /\ r.req = items[r.job][r.i]
  /\ r.pc = "finish" => Accounted(r.job, r.req)
  /\ \A n \in DOMAIN r.oks : r.oks[n] => Accounted(r.job, items[r.job][n])

RunsGood == \A w \in Slots, r \in Runs : run[w] = r => GoodRun(r)

IInv == TypeInv /\ SubmitInv /\ RunsGood

LEMMA InitRunsGood == Init => RunsGood
BY DEF Init, RunsGood, Runs, InLock, Idle

\* A slot with a run in it is busy, and an idle slot has none.
LEMMA BusyRun ==
  ASSUME TypeInv, NEW w \in Slots
  PROVE  Busy(w) <=> run[w] \in Runs
BY DEF TypeInv, TypeOK, Busy, Idle, Runs, InLock

\* No step takes back a row or a payment.
LEMMA AccountedStays ==
  ASSUME TypeOK, SubmitInv, [Next]_vars, NEW j \in Jobs, NEW r \in Requests, Accounted(j, r)
  PROVE  Accounted(j, r)'
<1>1. <<j, r>> \in Hashes
  BY DEF Hashes
<1>2. CASE UNCHANGED <<txn, paid>>
  BY <1>2 DEF Accounted
<1>3. ASSUME NEW w \in Slots, Create(w) PROVE Accounted(j, r)'
  BY <1>1, <1>3 DEF Create, Accounted, TypeOK
<1>4. ASSUME NEW w \in Slots, Confirm(w) PROVE Accounted(j, r)'
  BY <1>1, <1>4 DEF Confirm, Accounted, TypeOK
<1>5. ASSUME NEW w \in Slots, Submit(w) PROVE Accounted(j, r)'
  <2>1. paid[<<j, r>>] \in Nat
    BY <1>1 DEF TypeOK
  <2>2. paid'[<<j, r>>] = paid[<<j, r>>] \/ paid'[<<j, r>>] = paid[<<j, r>>] + 1
    BY <1>1, <1>5 DEF Submit, TypeOK
  <2> QED BY <1>5, <2>1, <2>2 DEF Submit, Accounted
<1> QED
  BY <1>2, <1>3, <1>4, <1>5, QuietActions, AcquireSubmitInv, FindSubmitInv DEF Next, Body

\* The payouts of a job stay those it was enqueued with.
LEMMA ItemsStay ==
  ASSUME TypeInv, [Next]_vars, NEW j \in Jobs, state[j] # "absent"
  PROVE  items'[j] = items[j]
<1>1. ASSUME NEW k \in Jobs, Enqueue(k) PROVE items'[j] = items[j]
  BY <1>1 DEF Enqueue, TypeInv, TypeOK
<1>2. ASSUME NEW w \in Slots, ReEnqueue(w) PROVE items'[j] = items[j]
  <2>1. PICK f \in [FailedItems(w) -> {k \in Jobs \ DOMAIN Workload : state[k] = "absent"}] :
          items' = SpawnedBy(w, f)
    BY <1>2 DEF ReEnqueue
  <2>2. \A n \in FailedItems(w) : f[n] # j
    OBVIOUS
  <2> QED BY <2>1, <2>2 DEF SpawnedBy
<1>3. CASE UNCHANGED items
  BY <1>3
<1>4. ASSUME NEW w \in Slots, Body(w) PROVE UNCHANGED items
  BY <1>4 DEF Body, Acquire, RejectEarly, Find, Create, Submit, Confirm, Finish, BodyThrows, queueVars
<1>5. ASSUME NEW w \in Slots, NextItem(w) \/ Complete(w) \/ AttemptFails(w) PROVE UNCHANGED items
  BY <1>5 DEF NextItem, Complete, AttemptFails, queueVars
<1>6. ASSUME \/ \E k \in Jobs : AdminRetry(k)
             \/ \E w \in Slots, k \in Jobs : Start(w, k)
             \/ \E w \in Slots : Stall(w)
             \/ \E w, v \in Slots : ExtendFails(w, v)
             \/ \E p \in Procs : Crash(p)
             \/ \E k \in Jobs \X Groups : ExpireLock(k)
             \/ UNCHANGED vars
      PROVE  UNCHANGED items
  BY <1>6 DEF AdminRetry, Start, Stall, ExtendFails, Crash, ExpireLock, queueVars, vars
<1> QED
  BY <1>1, <1>2, <1>3, <1>4, <1>5, <1>6 DEF Next, Handler, ThrowOut, ProgressThrows

\* Nor does a step make a run worse that it does not move.
LEMMA GoodStays ==
  ASSUME TypeInv, SubmitInv, [Next]_vars, NEW r \in Runs, GoodRun(r),
         state[r.job] # "absent", r.i <= Len(items[r.job]), Len(r.oks) <= r.i
  PROVE  GoodRun(r)'
<1>1. r.job \in Jobs /\ r.req \in Requests /\ r.i \in Nat \ {0} /\ r.oks \in Seq(BOOLEAN)
  BY DEF Runs
<1>2. items'[r.job] = items[r.job] /\ items[r.job] \in Seq(Requests)
  BY <1>1, ItemsStay DEF TypeInv, TypeOK
<1>3. \A n \in DOMAIN r.oks : n \in 1 .. Len(items[r.job]) /\ items[r.job][n] \in Requests
  <2>1. Len(r.oks) \in Nat /\ Len(items[r.job]) \in Nat /\ Len(r.oks) <= Len(items[r.job])
    BY <1>1, <1>2
  <2>2. DOMAIN r.oks = 1 .. Len(r.oks)
    BY <1>1
  <2>3. \A n \in 1 .. Len(items[r.job]) : items[r.job][n] \in Requests
    BY <1>2
  <2> QED BY <2>1, <2>2, <2>3
<1>4. r.pc = "finish" => Accounted(r.job, r.req)'
  BY <1>1, AccountedStays DEF GoodRun, TypeInv
<1>5. \A n \in DOMAIN r.oks : r.oks[n] => Accounted(r.job, items[r.job][n])'
  <2> SUFFICES ASSUME NEW n \in DOMAIN r.oks, r.oks[n]
               PROVE  Accounted(r.job, items[r.job][n])'
    OBVIOUS
  <2> DEFINE q == items[r.job][n]
  <2>1. q \in Requests /\ Accounted(r.job, q)
    BY <1>3 DEF GoodRun
  <2>2. items'[r.job][n] = q
    BY <1>2
  <2> QED BY <1>1, <2>1, <2>2, AccountedStays DEF TypeInv, Accounted
<1> QED BY <1>2, <1>4, <1>5 DEF GoodRun, Accounted

\* A run that a step leaves alone stays good.
LEMMA OthersGood ==
  ASSUME IInv, [Next]_vars, NEW x \in Slots, NEW r \in Runs, run[x] = r
  PROVE  GoodRun(r)'
<1>1. GoodRun(r) /\ Busy(x)
  BY BusyRun DEF IInv, RunsGood
<1>2. r.i \in Nat /\ state[r.job] # "absent" /\ r.i <= Len(items[r.job]) /\ Len(r.oks) <= r.i
  BY <1>1 DEF IInv, TypeInv, RunInv, Runs
<1> QED BY <1>1, <1>2, GoodStays DEF IInv

\* Slot w gets s: only s is to be looked at.
LEMMA GoodMove ==
  ASSUME IInv, [Next]_vars, NEW w \in Slots, NEW s \in Runs \cup {Idle},
         run' = [run EXCEPT ![w] = s], s \in Runs => GoodRun(s)'
  PROVE  RunsGood'
<1> SUFFICES ASSUME NEW x \in Slots, NEW r \in Runs, run'[x] = r PROVE GoodRun(r)'
  BY DEF RunsGood
<1>1. CASE x = w
  <2>1. r = s
    BY <1>1 DEF IInv, TypeInv, TypeOK
  <2> QED BY <2>1
<1>2. CASE x # w
  <2>1. run[x] = r
    BY <1>2 DEF IInv, TypeInv, TypeOK
  <2> QED BY <2>1, OthersGood
<1> QED BY <1>1, <1>2

LEMMA GoodIdle ==
  ASSUME IInv, [Next]_vars, NEW w \in Slots, run' = [run EXCEPT ![w] = Idle]
  PROVE  RunsGood'
<1>1. Idle \notin Runs
  BY DEF Idle, Runs, InLock
<1> QED BY <1>1, GoodMove

\* Run w goes on to another await of its callback.
LEMMA GoodPc ==
  ASSUME IInv, [Next]_vars, NEW w \in Slots, Busy(w), run[w].pc # "settle", NEW p \in InLock,
         run' = [run EXCEPT ![w].pc = p],
         p = "finish" => IF run[w].req \in Keyed THEN txn'[Hash(w)] # "none"
                                                 ELSE paid'[Hash(w)] >= 1
  PROVE  RunsGood'
<1>1. PICK old \in Runs : old = run[w]
  BY BusyRun DEF IInv
<1> DEFINE r == [old EXCEPT !.pc = p]
           q == [old EXCEPT !.pc = "start"]
<1>2. /\ r \in Runs /\ r.pc = p /\ r.job = old.job /\ r.req = old.req
      /\ r.i = old.i /\ r.oks = old.oks
      /\ q \in Runs /\ q.pc = "start" /\ q.job = old.job /\ q.req = old.req
      /\ q.i = old.i /\ q.oks = old.oks
  BY <1>1 DEF Runs
<1>3. run' = [run EXCEPT ![w] = r]
  BY <1>1
<1>4. GoodRun(old)
  BY <1>1 DEF IInv, RunsGood
<1> HIDE DEF r, q
<1>5. GoodRun(q)
  BY <1>2, <1>4 DEF GoodRun
<1>6. q.i \in Nat /\ state[q.job] # "absent" /\ q.i <= Len(items[q.job]) /\ Len(q.oks) <= q.i
  BY <1>1, <1>2 DEF IInv, TypeInv, RunInv, Runs
<1>7. GoodRun(q)'
  BY <1>2, <1>5, <1>6, GoodStays DEF IInv
<1>8. p = "finish" => Accounted(old.job, old.req)'
  BY <1>1 DEF Accounted, Hash
<1>9. ASSUME NEW s \in Runs, s.pc = p, s.job = old.job, s.req = old.req, s.i = old.i,
             s.oks = old.oks
      PROVE  GoodRun(s)'
  <2>1. old.req = items'[old.job][old.i]
    BY <1>2, <1>7 DEF GoodRun
  <2>2. \A n \in DOMAIN old.oks : old.oks[n] => Accounted(old.job, items[old.job][n])'
    BY <1>2, <1>7 DEF GoodRun, Accounted
  <2> QED BY <1>8, <1>9, <2>1, <2>2 DEF GoodRun, Accounted
<1>10. \A s \in Runs : s = r => GoodRun(s)'
  BY <1>2, <1>9
<1>11. PICK s \in Runs : s = r
  BY <1>2
<1>12. run' = [run EXCEPT ![w] = s] /\ GoodRun(s)'
  BY <1>3, <1>10, <1>11
<1> QED BY <1>12, GoodMove

LEMMA Appended ==
  ASSUME NEW S, NEW q \in Seq(S), NEW e \in S
  PROVE  /\ DOMAIN q = 1 .. Len(q) /\ DOMAIN Append(q, e) = 1 .. Len(q) + 1
         /\ Append(q, e)[Len(q) + 1] = e
         /\ \A n \in 1 .. Len(q) : Append(q, e)[n] = q[n]
OBVIOUS

\* The outcome of its payout joins those that run w has gathered.
LEMMA GoodSettled ==
  ASSUME IInv, [Next]_vars, NEW w \in Slots, Busy(w), run[w].pc # "settle", NEW ok \in BOOLEAN,
         ok => Accounted(run[w].job, run[w].req),
         NEW s \in Runs, s = SettledAs(run[w], ok)
  PROVE  GoodRun(s)'
<1>1. /\ run[w] \in Runs /\ GoodRun(run[w]) /\ run[w].oks \in Seq(BOOLEAN)
      /\ run[w].i \in Nat \ {0} /\ Len(run[w].oks) = run[w].i - 1
  BY BusyRun DEF IInv, RunsGood, TypeInv, RunInv, Runs
<1>2. s.pc = "settle" /\ state[s.job] # "absent" /\ s.i <= Len(items[s.job]) /\ Len(s.oks) = s.i
  BY Settled DEF IInv
<1>3. s.job = run[w].job /\ s.req = run[w].req /\ s.i = run[w].i
      /\ s.oks = Append(run[w].oks, ok)
  BY <1>1 DEF SettledAs, Runs
<1>4. \A n \in DOMAIN s.oks : s.oks[n] => Accounted(s.job, items[s.job][n])
  <2> SUFFICES ASSUME NEW n \in DOMAIN s.oks, s.oks[n]
               PROVE  Accounted(s.job, items[s.job][n])
    OBVIOUS
  <2>1. n \in 1 .. run[w].i /\ DOMAIN run[w].oks = 1 .. run[w].i - 1
    <3>1. DOMAIN run[w].oks = 1 .. Len(run[w].oks)
          /\ DOMAIN Append(run[w].oks, ok) = 1 .. Len(run[w].oks) + 1
      BY <1>1, Appended
    <3>2. Len(run[w].oks) + 1 = run[w].i
      BY <1>1
    <3> QED BY <1>1, <1>3, <3>1, <3>2
  <2>2. CASE n = run[w].i
    <3>1. s.oks[n] = ok
      <4>1. n = Len(run[w].oks) + 1
        BY <1>1, <2>2
      <4>2. Append(run[w].oks, ok)[Len(run[w].oks) + 1] = ok
        BY <1>1, Appended
      <4> QED BY <1>3, <4>1, <4>2
    <3>2. items[s.job][n] = run[w].req
      BY <1>1, <1>3, <2>2 DEF GoodRun
    <3> QED BY <1>3, <3>1, <3>2
  <2>3. CASE n # run[w].i
    <3>1. n \in 1 .. Len(run[w].oks)
      BY <1>1, <2>1, <2>3
    <3>2. Append(run[w].oks, ok)[n] = run[w].oks[n]
      BY <1>1, <3>1, Appended
    <3>3. n \in DOMAIN run[w].oks /\ run[w].oks[n]
      BY <1>1, <1>3, <3>1, <3>2
    <3> QED BY <1>1, <1>3, <3>3 DEF GoodRun
  <2> QED BY <2>2, <2>3
<1>5. GoodRun(s)
  BY <1>1, <1>2, <1>3, <1>4 DEF GoodRun
<1>6. s.i \in Nat /\ Len(s.oks) <= s.i
  BY <1>1, <1>2, <1>3
<1> QED BY <1>2, <1>5, <1>6, GoodStays DEF IInv

\* The same for the step that only settles w.
LEMMA GoodSettle ==
  ASSUME IInv, [Next]_vars, NEW w \in Slots, Busy(w), run[w].pc # "settle", NEW ok \in BOOLEAN,
         ok => Accounted(run[w].job, run[w].req),
         run' = [run EXCEPT ![w] = SettledAs(run[w], ok)]
  PROVE  RunsGood'
<1>1. PICK s \in Runs : s = SettledAs(run[w], ok)
  BY Settled DEF IInv
<1>2. GoodRun(s)'
  BY <1>1, GoodSettled
<1>3. run' = [run EXCEPT ![w] = s]
  BY <1>1
<1> QED BY <1>2, <1>3, GoodMove

LEMMA BodyGood ==
  ASSUME IInv, NEW w \in Slots, Body(w)
  PROVE  RunsGood'
<1>1. Busy(w) /\ run[w].pc # "settle" /\ [Next]_vars
  BY DEF Body, Acquire, RejectEarly, Find, Create, Submit, Confirm, Finish, BodyThrows,
         Busy, InLock, Next
<1>2. Hash(w) \in Hashes
  BY <1>1, RunFields DEF IInv, TypeInv
<1>3. CASE Acquire(w)
  BY <1>1, <1>3, GoodPc DEF Acquire, InLock
<1>4. CASE RejectEarly(w)
  BY <1>1, <1>4, GoodSettle DEF RejectEarly
<1>5. CASE Find(w)
  <2>1. run[w].req \in Keyed
    BY <1>5 DEF Find, IInv, SubmitInv
  <2> QED BY <1>1, <1>5, <2>1, GoodPc DEF Find, InLock
<1>6. CASE Create(w)
  BY <1>1, <1>6, GoodPc DEF Create, InLock
<1>7. CASE Submit(w)
  <2>1. paid'[Hash(w)] >= 1
    BY <1>2, <1>7 DEF Submit, IInv, TypeInv, TypeOK
  <2> QED BY <1>1, <1>7, <2>1, GoodPc DEF Submit, InLock
<1>8. CASE Confirm(w)
  <2>1. txn'[Hash(w)] # "none"
    BY <1>2, <1>8 DEF Confirm, IInv, TypeInv, TypeOK
  <2>2. run[w].req \in Keyed
    BY <1>8 DEF Confirm, IInv, SubmitInv
  <2> QED BY <1>1, <1>8, <2>1, <2>2, GoodPc DEF Confirm, InLock
<1>9. CASE Finish(w)
  <2>1. run[w] \in Runs /\ GoodRun(run[w])
    BY <1>1, BusyRun DEF IInv, RunsGood
  <2>2. Accounted(run[w].job, run[w].req)
    BY <1>9, <2>1 DEF Finish, GoodRun
  <2> QED BY <1>1, <1>9, <2>2, GoodSettle, GoodIdle DEF Finish
<1>10. CASE BodyThrows(w)
  <2>1. \/ run' = [run EXCEPT ![w] = Idle]
        \/ run' = [run EXCEPT ![w] = SettledAs(run[w], FALSE)]
    BY <1>10 DEF BodyThrows
  <2> QED BY <1>1, <2>1, GoodSettle, GoodIdle
<1> QED
  BY <1>3, <1>4, <1>5, <1>6, <1>7, <1>8, <1>9, <1>10 DEF Body

LEMMA HandlerGood ==
  ASSUME IInv, NEW w \in Slots, Handler(w)
  PROVE  RunsGood'
<1>1. Busy(w) /\ run[w].pc = "settle" /\ [Next]_vars
  <2>1. run[w].pc = "settle"
    BY DEF Handler, ThrowOut, ProgressThrows, NextItem, Complete, AttemptFails, ReEnqueue, AtEnd
  <2>2. Next
    BY DEF Next
  <2> QED BY <2>1, <2>2 DEF Busy
<1>2. CASE NextItem(w)
  <2>1. PICK old \in Runs : old = run[w]
    BY <1>1, BusyRun DEF IInv
  <2>2. /\ GoodRun(old) /\ old.i \in Nat \ {0} /\ items[old.job] \in Seq(Requests)
        /\ state[old.job] # "absent" /\ Len(old.oks) = old.i /\ old.i < Len(items[old.job])
    BY <1>1, <1>2, <2>1 DEF NextItem, IInv, RunsGood, TypeInv, TypeOK, RunInv, Runs
  <2> DEFINE i == old.i + 1
             q == items[old.job][i]
             r == [old EXCEPT !.pc = "start", !.i = i, !.req = q]
  <2>3. i \in Nat \ {0} /\ i <= Len(items[old.job]) /\ q \in Requests /\ Len(old.oks) <= i
    BY <2>2
  <2>4. run' = [run EXCEPT ![w] = r]
    BY <1>2, <2>1 DEF NextItem
  <2>5. q = items[old.job][i]
    OBVIOUS
  <2> HIDE DEF i, q
  <2>6. r \in Runs /\ r.pc = "start" /\ r.job = old.job /\ r.i = i /\ r.req = q /\ r.oks = old.oks
    BY <2>3 DEF Runs
  <2> HIDE DEF r
  <2>7. PICK s \in Runs : s = r
    BY <2>6
  <2>8. GoodRun(s)
    BY <2>2, <2>5, <2>6, <2>7 DEF GoodRun
  <2>9. GoodRun(s)'
    BY <1>1, <2>2, <2>3, <2>6, <2>7, <2>8, GoodStays DEF IInv
  <2> QED BY <1>1, <2>4, <2>7, <2>9, GoodMove
<1>3. CASE Complete(w) \/ AttemptFails(w) \/ ReEnqueue(w)
  BY <1>1, <1>3, GoodIdle DEF Complete, AttemptFails, ReEnqueue
<1> QED BY <1>2, <1>3 DEF Handler, ThrowOut, ProgressThrows

LEMMA StartGood ==
  ASSUME IInv, NEW w \in Slots, NEW j \in Jobs, Start(w, j)
  PROVE  RunsGood'
<1>1. [Next]_vars
  BY DEF Next
<1> DEFINE r == [pc |-> "start", job |-> j, i |-> 1, req |-> items[j][1],
                 oks |-> <<>>, call |-> "live"]
<1>2. items[j] \in Seq(Requests) /\ items[j] # <<>> /\ state[j] # "absent"
  BY DEF Start, IInv, TypeInv, TypeOK, RunInv
<1>3. items[j][1] \in Requests /\ 1 <= Len(items[j])
  BY <1>2
<1>4. /\ r \in Runs /\ r.pc = "start" /\ r.job = j /\ r.i = 1 /\ r.req = items[j][1]
      /\ r.oks = <<>> /\ Len(r.oks) <= 1 /\ DOMAIN r.oks = {}
  BY <1>3 DEF Runs, Calls
<1>5. run' = [run EXCEPT ![w] = r]
  BY DEF Start
<1> HIDE DEF r
<1>6. PICK s \in Runs : s = r
  BY <1>4
<1>7. GoodRun(s)
  BY <1>4, <1>6 DEF GoodRun
<1>8. GoodRun(s)'
  BY <1>1, <1>2, <1>3, <1>4, <1>6, <1>7, GoodStays DEF IInv
<1> QED BY <1>1, <1>5, <1>6, <1>8, GoodMove

\* A run that BullMQ or withLock gives up is as good as before.
LEMMA GivenUpGood ==
  ASSUME IInv, [Next]_vars, NEW w \in Slots, Busy(w), NEW c \in Calls,
         NEW s \in Runs, s = [run[w] EXCEPT !.call = c]
  PROVE  GoodRun(s)'
<1>1. run[w] \in Runs /\ GoodRun(run[w])
  BY BusyRun DEF IInv, RunsGood
<1>2. s.pc = run[w].pc /\ s.job = run[w].job /\ s.i = run[w].i /\ s.req = run[w].req
      /\ s.oks = run[w].oks
  BY <1>1 DEF Runs
<1>3. GoodRun(s)
  BY <1>1, <1>2 DEF GoodRun
<1>4. s.i \in Nat /\ state[s.job] # "absent" /\ s.i <= Len(items[s.job]) /\ Len(s.oks) <= s.i
  BY <1>1, <1>2 DEF IInv, TypeInv, RunInv, Runs
<1> QED BY <1>3, <1>4, GoodStays DEF IInv

LEMMA StallGood ==
  ASSUME IInv, NEW w \in Slots, Stall(w)
  PROVE  RunsGood'
<1>1. [Next]_vars
  BY DEF Next
<1>2. run[w] \in Runs /\ Busy(w)
  BY BusyRun DEF Stall, IInv, TypeInv, TypeOK, Idle
<1>3. PICK s \in Runs : s = [run[w] EXCEPT !.call = "stale"]
  BY <1>2 DEF Runs, Calls
<1>4. GoodRun(s)'
  BY <1>1, <1>2, <1>3, GivenUpGood DEF Calls
<1>5. run' = [run EXCEPT ![w] = s]
  BY <1>3 DEF Stall
<1> QED BY <1>1, <1>4, <1>5, GoodMove

LEMMA ExtendFailsGood ==
  ASSUME IInv, NEW w \in Slots, NEW v \in Slots, ExtendFails(w, v)
  PROVE  RunsGood'
<1>1. [Next]_vars
  BY DEF Next
<1>2. Busy(w) /\ run[w].pc # "settle" /\ w # v /\ run[w] \in Runs
  BY BusyRun DEF ExtendFails, Busy, InLock, IInv
<1>3. PICK d \in Runs : d = [run[w] EXCEPT !.call = "detached"]
  BY <1>2 DEF Runs, Calls
<1>4. PICK s \in Runs : s = SettledAs(run[w], FALSE)
  BY <1>2, Settled DEF IInv
<1>5. GoodRun(d)' /\ GoodRun(s)'
  BY <1>1, <1>2, <1>3, <1>4, GivenUpGood, GoodSettled DEF Calls
<1>6. run' = [run EXCEPT ![w] = d, ![v] = s]
  BY <1>3, <1>4 DEF ExtendFails
<1> SUFFICES ASSUME NEW x \in Slots, NEW r \in Runs, run'[x] = r PROVE GoodRun(r)'
  BY DEF RunsGood
<1>7. CASE x \in {w, v}
  <2>1. r = d \/ r = s
    BY <1>6, <1>7 DEF IInv, TypeInv, TypeOK
  <2> QED BY <1>5, <2>1
<1>8. CASE x \notin {w, v}
  <2>1. run[x] = r
    BY <1>6, <1>8 DEF IInv, TypeInv, TypeOK
  <2> QED BY <1>1, <2>1, OthersGood
<1> QED BY <1>7, <1>8

LEMMA NextRunsGood == IInv /\ [Next]_vars => RunsGood'
<1> SUFFICES ASSUME IInv, [Next]_vars PROVE RunsGood'
  OBVIOUS
<1>1. CASE UNCHANGED run
  BY <1>1, OthersGood DEF RunsGood
<1>2. ASSUME NEW p \in Procs, Crash(p) PROVE RunsGood'
  <2>1. \A x \in Slots : run'[x] = run[x] \/ run'[x] = Idle
    BY <1>2 DEF Crash
  <2>2. Idle \notin Runs
    BY DEF Idle, Runs, InLock
  <2> QED BY <2>1, <2>2, OthersGood DEF RunsGood
<1>3. ASSUME \/ \E j \in Jobs : Enqueue(j) \/ AdminRetry(j)
             \/ \E k \in Jobs \X Groups : ExpireLock(k)
             \/ UNCHANGED vars
      PROVE  UNCHANGED run
  BY <1>3 DEF Enqueue, AdminRetry, ExpireLock, vars
<1> QED
  BY <1>1, <1>2, <1>3, BodyGood, HandlerGood, StartGood, StallGood, ExtendFailsGood DEF Next

\* Only a run that BullMQ still listens to completes its job.
LEMMA NewlyCompleted ==
  ASSUME TypeInv, [Next]_vars, NEW j \in Jobs, state[j] # "completed", state'[j] = "completed"
  PROVE  \E w \in Slots : Complete(w) /\ run[w].job = j
<1>1. ASSUME NEW k \in Jobs, Enqueue(k) \/ AdminRetry(k) PROVE FALSE
  BY <1>1 DEF Enqueue, AdminRetry, TypeInv, TypeOK
<1>2. ASSUME NEW w \in Slots, NEW k \in Jobs, Start(w, k) PROVE FALSE
  BY <1>2 DEF Start, TypeInv, TypeOK
<1>3. ASSUME NEW w \in Slots, Stall(w) PROVE FALSE
  BY <1>3 DEF Stall, AfterStall, TypeInv, TypeOK
<1>4. ASSUME NEW p \in Procs, Crash(p) PROVE FALSE
  BY <1>4 DEF Crash, AfterStall, TypeInv, TypeOK
<1>5. ASSUME NEW w \in Slots, AttemptFails(w) PROVE FALSE
  BY <1>5 DEF AttemptFails, AfterThrow, TypeInv, TypeOK
<1>6. ASSUME NEW w \in Slots, ReEnqueue(w) PROVE FALSE
  <2>1. state'[j] = "waiting" \/ state'[j] = AfterThrow(w)[j]
    BY <1>6 DEF ReEnqueue
  <2> QED BY <2>1 DEF AfterThrow, TypeInv, TypeOK
<1>7. ASSUME NEW w \in Slots, Complete(w) PROVE run[w].job = j
  BY <1>7 DEF Complete, TypeInv, TypeOK
<1>8. ASSUME NEW w \in Slots, Body(w) PROVE FALSE
  <2>1. UNCHANGED queueVars
    BY <1>8 DEF Body, Acquire, RejectEarly, Find, Create, Submit, Confirm, Finish, BodyThrows
  <2> QED BY <2>1 DEF queueVars
<1>9. ASSUME NEW w \in Slots, NEW v \in Slots, NextItem(w) \/ ExtendFails(w, v) PROVE FALSE
  BY <1>9 DEF NextItem, ExtendFails, queueVars
<1>10. ASSUME (\E k \in Jobs \X Groups : ExpireLock(k)) \/ UNCHANGED vars PROVE FALSE
  BY <1>10 DEF ExpireLock, queueVars, vars
<1> QED
  BY <1>1, <1>2, <1>3, <1>4, <1>5, <1>6, <1>7, <1>8, <1>9, <1>10 DEF Next, Handler, ThrowOut, ProgressThrows

LEMMA NextCompleted == IInv /\ CompletedIsAccounted /\ [Next]_vars => CompletedIsAccounted'
<1> SUFFICES ASSUME IInv, CompletedIsAccounted, [Next]_vars PROVE CompletedIsAccounted'
  OBVIOUS
<1> SUFFICES ASSUME NEW j \in Jobs, state'[j] = "completed",
                    NEW n \in DOMAIN items'[j], NEW q \in Requests, q = items'[j][n]
             PROVE  Accounted(j, q)'
  <2>1. \A j \in Jobs : items'[j] \in Seq(Requests)
    <3>1. TypeInv'
      BY NextTypeInv DEF IInv
    <3> QED BY <3>1 DEF TypeInv, TypeOK
  <2>2. \A j \in Jobs : \A n \in DOMAIN items'[j] : items'[j][n] \in Requests
    BY <2>1
  <2> QED BY <2>2 DEF CompletedIsAccounted, Accounted
<1>1. SUFFICES state[j] # "absent" /\ Accounted(j, q)
  BY AccountedStays DEF IInv, TypeInv
<1>2. CASE state[j] = "completed"
  <2>1. items'[j] = items[j]
    BY <1>2, ItemsStay DEF IInv
  <2> QED BY <1>2, <2>1 DEF CompletedIsAccounted, Accounted
<1>3. CASE state[j] # "completed"
  <2>1. PICK w \in Slots : Complete(w) /\ run[w].job = j
    BY <1>3, NewlyCompleted DEF IInv
  <2>2. run[w] \in Runs /\ Busy(w) /\ GoodRun(run[w]) /\ items'[j] = items[j]
    BY <2>1, BusyRun DEF Complete, AtEnd, Busy, IInv, RunsGood
  <2>3. /\ run[w].i \in Nat /\ run[w].oks \in Seq(BOOLEAN) /\ items[j] \in Seq(Requests)
        /\ state[j] # "absent" /\ Len(run[w].oks) = run[w].i /\ run[w].i = Len(items[j])
    BY <2>1, <2>2 DEF Complete, AtEnd, IInv, TypeInv, TypeOK, RunInv, Runs
  <2>4. n \in DOMAIN run[w].oks
    BY <2>2, <2>3
  <2>5. run[w].oks[n]
    BY <2>1, <2>4 DEF Complete, FailedItems
  <2> QED BY <2>1, <2>2, <2>3, <2>4, <2>5 DEF GoodRun
<1> QED BY <1>2, <1>3

\* A job that is reported completed has a row or a payment for each of its
\* payouts, through retries, stalls, crashes and re-queues: processBatchPayoutJob
\* drops no position and executePayout reports none as done that it did not claim
\* or pay.
THEOREM CompletedAccounted == Spec => []CompletedIsAccounted
<1>1. Init => CompletedIsAccounted
  BY DEF Init, CompletedIsAccounted
<1>2. IInv <=> TypeInv /\ SubmitInv /\ RunsGood
  BY DEF IInv
<1>3. TypeInv => TypeOK
  BY DEF TypeInv
<1> QED
  BY <1>1, <1>2, <1>3, InitTypeInv, NextTypeInv, InitSubmitInv, NextSubmitInv,
     InitRunsGood, NextRunsGood, NextCompleted, PTL DEF Spec
-----------------------------------------------------------------------------
(* The bounds of retrying                                                  *)

\* RetriesAreBounded is not inductive: the count that must end the retrying is
\* compared when an attempt ends, so what matters is where it stands while the
\* job is queued or runs, and that a running job has a single run that BullMQ
\* listens to.  A detached run never leaves its withLock callback.
CallsInv ==
  /\ \A w \in Slots : run[w].call = "live" => state[run[w].job] = "active"
  /\ \A w, v \in Slots :
       run[w].call = "live" /\ run[v].call = "live" /\ run[w].job = run[v].job => w = v
  /\ \A w \in Slots : IsDetached(w) => run[w].pc \in InLock

QueuedInv ==
  \A j \in Jobs : state[j] \in {"absent", "waiting", "active"} =>
    attempts[j] < MaxAttempts + retries[j] /\ stalls[j] <= MaxStalled + retries[j]

\* What a step does to the state and the counters of one job.
Untouched(j) == UNCHANGED <<state[j], attempts[j], stalls[j], retries[j]>>
Moved(j) ==
  /\ \/ state[j] = "absent" /\ state'[j] = "waiting"
     \/ state[j] = "active" /\ state'[j] = "completed"
  /\ UNCHANGED <<attempts[j], stalls[j], retries[j]>>
Started(j) ==
  /\ state[j] = "waiting" /\ state'[j] = "active"
  /\ UNCHANGED <<attempts[j], stalls[j], retries[j]>>
Threw(j) ==
  /\ state[j] = "active"
  /\ state'[j] = IF attempts[j] + 1 < MaxAttempts THEN "waiting" ELSE "failed"
  /\ attempts'[j] = attempts[j] + 1
  /\ UNCHANGED <<stalls[j], retries[j]>>
Stalled(j) ==
  /\ state[j] = "active"
  /\ state'[j] = AfterStall(j)
  /\ stalls'[j] = stalls[j] + 1
  /\ UNCHANGED <<attempts[j], retries[j]>>
Retried(j) ==
  /\ state[j] = "failed" /\ state'[j] = "waiting"
  /\ retries'[j] = retries[j] + 1
  /\ UNCHANGED <<attempts[j], stalls[j]>>

JobStep(j) ==
  Untouched(j) \/ Moved(j) \/ Started(j) \/ Threw(j) \/ Stalled(j) \/ Retried(j)

LEMMA LiveIsRun ==
  ASSUME TypeInv, NEW w \in Slots, run[w].call \in Calls
  PROVE  Busy(w) /\ run[w] \in Runs /\ run[w].job \in Jobs
BY DEF TypeInv, TypeOK, Idle, Busy, Runs, InLock, Calls

\* The steps that report nothing to BullMQ.
LEMMA BodyJobStep ==
  ASSUME NEW w \in Slots, Body(w) \/ NextItem(w)
  PROVE  UNCHANGED queueVars
BY DEF Body, Acquire, RejectEarly, Find, Create, Submit, Confirm, Finish, BodyThrows, NextItem

LEMMA ThrowJobStep ==
  ASSUME TypeInv, CallsInv, NEW w \in Slots, AttemptFails(w) \/ ReEnqueue(w), NEW j \in Jobs
  PROVE  JobStep(j)
<1>1. Busy(w) /\ run[w] \in Runs /\ run[w].job \in Jobs
  BY BusyRun DEF AttemptFails, ReEnqueue, AtEnd, Busy, Runs
<1>2. UNCHANGED <<stalls, retries>> /\ CountAttempt(w)
  BY DEF AttemptFails, ReEnqueue
<1>3. CASE run[w].call = "live" /\ j = run[w].job
  <2>1. state[j] = "active" /\ attempts'[j] = attempts[j] + 1
    BY <1>2, <1>3 DEF CallsInv, CountAttempt, TypeInv, TypeOK
  <2>2. AfterThrow(w)[j] = IF attempts[j] + 1 < MaxAttempts THEN "waiting" ELSE "failed"
    BY <1>3 DEF AfterThrow, TypeInv, TypeOK
  <2>3. state'[j] = AfterThrow(w)[j]
    BY <2>1 DEF AttemptFails, ReEnqueue
  <2> QED BY <1>2, <2>1, <2>2, <2>3 DEF JobStep, Threw
<1>4. CASE ~(run[w].call = "live" /\ j = run[w].job)
  <2>1. AfterThrow(w)[j] = state[j] /\ attempts'[j] = attempts[j]
    BY <1>2, <1>4 DEF AfterThrow, CountAttempt, TypeInv, TypeOK
  <2>2. CASE state'[j] = AfterThrow(w)[j]
    BY <1>2, <2>1, <2>2 DEF JobStep, Untouched
  <2>3. CASE state'[j] # AfterThrow(w)[j]
    <3>1. state[j] = "absent" /\ state'[j] = "waiting"
      BY <2>3 DEF AttemptFails, ReEnqueue
    <3> QED BY <1>2, <2>1, <3>1 DEF JobStep, Moved
  <2> QED BY <2>2, <2>3
<1> QED BY <1>3, <1>4

LEMMA CrashJobStep ==
  ASSUME TypeInv, CallsInv, NEW p \in Procs, Crash(p), NEW j \in Jobs
  PROVE  JobStep(j)
<1> DEFINE dead == {w \in Slots : ProcOf[w] = p /\ Busy(w)}
           lost == {run[w].job : w \in {x \in dead : run[x].call = "live"}}
<1>1. /\ state' = [k \in Jobs |-> IF k \in lost THEN AfterStall(k) ELSE state[k]]
      /\ stalls' = [k \in Jobs |-> IF k \in lost THEN stalls[k] + 1 ELSE stalls[k]]
      /\ UNCHANGED <<attempts, retries>>
  BY DEF Crash
<1>2. j \in lost => state[j] = "active"
  BY DEF CallsInv
<1> HIDE DEF lost
<1>3. CASE j \in lost
  BY <1>1, <1>2, <1>3 DEF JobStep, Stalled
<1>4. CASE j \notin lost
  BY <1>1, <1>4 DEF JobStep, Untouched
<1> QED BY <1>3, <1>4

LEMMA NextJobStep ==
  ASSUME TypeInv, CallsInv, [Next]_vars, NEW j \in Jobs
  PROVE  JobStep(j)
<1>1. ASSUME NEW k \in Jobs, Enqueue(k) PROVE JobStep(j)
  BY <1>1 DEF Enqueue, JobStep, Untouched, Moved, TypeInv, TypeOK
<1>2. ASSUME NEW k \in Jobs, AdminRetry(k) PROVE JobStep(j)
  BY <1>2 DEF AdminRetry, JobStep, Untouched, Retried, TypeInv, TypeOK
<1>3. ASSUME NEW w \in Slots, NEW k \in Jobs, Start(w, k) PROVE JobStep(j)
  BY <1>3 DEF Start, JobStep, Untouched, Started, TypeInv, TypeOK
<1>4. ASSUME NEW w \in Slots, Stall(w) PROVE JobStep(j)
  <2>1. run[w].job \in Jobs /\ state[run[w].job] = "active"
    BY <1>4, LiveIsRun DEF Stall, Calls, CallsInv
  <2>2. CASE j = run[w].job
    BY <1>4, <2>1, <2>2 DEF Stall, JobStep, Stalled, TypeInv, TypeOK
  <2>3. CASE j # run[w].job
    BY <1>4, <2>3 DEF Stall, JobStep, Untouched, TypeInv, TypeOK
  <2> QED BY <2>2, <2>3
<1>5. ASSUME NEW w \in Slots, Complete(w) PROVE JobStep(j)
  <2>1. UNCHANGED <<attempts, stalls, retries>>
    BY <1>5 DEF Complete
  <2>2. CASE run[w].call = "live" /\ j = run[w].job
    BY <1>5, <2>1, <2>2 DEF Complete, CallsInv, JobStep, Moved, TypeInv, TypeOK
  <2>3. CASE ~(run[w].call = "live" /\ j = run[w].job)
    BY <1>5, <2>1, <2>3 DEF Complete, JobStep, Untouched, TypeInv, TypeOK
  <2> QED BY <2>2, <2>3
<1>6. CASE UNCHANGED queueVars
  BY <1>6 DEF queueVars, JobStep, Untouched
<1>7. ASSUME \/ \E w, v \in Slots : ExtendFails(w, v)
             \/ \E k \in Jobs \X Groups : ExpireLock(k)
             \/ UNCHANGED vars
      PROVE  UNCHANGED queueVars
  BY <1>7 DEF ExtendFails, ExpireLock, queueVars, vars
<1> QED
  BY <1>1, <1>2, <1>3, <1>4, <1>5, <1>6, <1>7, BodyJobStep, ThrowJobStep, CrashJobStep
     DEF Next, Handler, ThrowOut, ProgressThrows

LEMMA InitCallsInv == Init => CallsInv
BY DEF Init, CallsInv, Idle, IsDetached

\* What CallsInv says of the runs is kept by a step that changes one of them,
\* keeps or ends its call, and touches the state of no other job that is active.
LEMMA CallStep ==
  ASSUME TypeInv, CallsInv, NEW w \in Slots,
         \A x \in Slots \ {w} : run'[x] = run[x],
         \/ ~ run'[w].call \in {"live", "detached"}
         \/ /\ run'[w].call = run[w].call /\ run'[w].job = run[w].job
            /\ IsDetached(w) => run'[w].pc \in InLock
            /\ UNCHANGED state,
         \A j \in Jobs : state[j] = "active" /\ (run[w].call = "live" => j # run[w].job)
           => state'[j] = "active"
  PROVE  CallsInv'
<1>1. \A x \in Slots : run[x].call = "live" => run[x].job \in Jobs
  BY LiveIsRun DEF Calls
<1>2. \A x \in Slots : run'[x].call = "live" => run[x].call = "live" /\ run'[x].job = run[x].job
  OBVIOUS
<1>3. ASSUME NEW x \in Slots, run'[x].call = "live" PROVE state'[run'[x].job] = "active"
  <2>1. run[x].call = "live" /\ run'[x].job = run[x].job /\ state[run[x].job] = "active"
    BY <1>2, <1>3 DEF CallsInv
  <2>2. CASE x = w
    BY <1>3, <2>1, <2>2
  <2>3. CASE x # w
    BY <1>1, <2>1, <2>3 DEF CallsInv
  <2> QED BY <2>2, <2>3
<1>4. \A x \in Slots : IsDetached(x)' => run'[x].pc \in InLock
  BY DEF CallsInv, IsDetached
<1> QED BY <1>2, <1>3, <1>4 DEF CallsInv

LEMMA BodyCallsInv ==
  ASSUME TypeInv, CallsInv, NEW w \in Slots, Body(w) \/ Handler(w)
  PROVE  CallsInv'
<1>1. Busy(w) /\ run[w] \in Runs
  BY BusyRun DEF Body, Acquire, RejectEarly, Find, Create, Submit, Confirm, Finish, BodyThrows,
                 Handler, ThrowOut, ProgressThrows, NextItem, Complete, AttemptFails, ReEnqueue, AtEnd, Busy, InLock
<1>2. \A x \in Slots \ {w} : run'[x] = run[x]
  BY DEF Body, Acquire, RejectEarly, Find, Create, Submit, Confirm, Finish, BodyThrows,
         Handler, ThrowOut, ProgressThrows, NextItem, Complete, AttemptFails, ReEnqueue, TypeInv, TypeOK
<1>3. ASSUME NEW q \in InLock, run' = [run EXCEPT ![w].pc = q]
      PROVE  run'[w].call = run[w].call /\ run'[w].job = run[w].job /\ run'[w].pc \in InLock
  BY <1>1, <1>3 DEF TypeInv, TypeOK, Runs
<1>4. CASE Acquire(w) \/ Find(w) \/ Create(w) \/ Submit(w) \/ Confirm(w)
  <2>1. \E q \in InLock : run' = [run EXCEPT ![w].pc = q]
    BY <1>4 DEF Acquire, Find, Create, Submit, Confirm, InLock
  <2>2. UNCHANGED state
    BY <1>4 DEF Acquire, Find, Create, Submit, Confirm, queueVars
  <2> QED BY <1>2, <1>3, <2>1, <2>2, CallStep
<1>5. ASSUME NEW ok \in BOOLEAN, run' = [run EXCEPT ![w] = SettledAs(run[w], ok)],
             ~IsDetached(w), UNCHANGED state
      PROVE  CallsInv'
  <2>1. run'[w].call = run[w].call /\ run'[w].job = run[w].job
    BY <1>1, <1>5 DEF SettledAs, TypeInv, TypeOK, Runs
  <2> QED BY <1>2, <1>5, <2>1, CallStep
<1>6. CASE run' = [run EXCEPT ![w] = Idle] /\ UNCHANGED state
  <2>1. run'[w].call = "none"
    BY <1>6 DEF Idle, TypeInv, TypeOK
  <2> QED BY <1>2, <1>6, <2>1, CallStep
<1>7. CASE RejectEarly(w) \/ Finish(w) \/ BodyThrows(w)
  <2>1. UNCHANGED state
    BY <1>7 DEF RejectEarly, Finish, BodyThrows, queueVars
  <2>2. RejectEarly(w) => ~IsDetached(w)
    BY DEF RejectEarly, CallsInv, InLock
  <2>3. \/ run' = [run EXCEPT ![w] = Idle]
        \/ ~IsDetached(w) /\ \E ok \in BOOLEAN : run' = [run EXCEPT ![w] = SettledAs(run[w], ok)]
    BY <1>7, <2>2 DEF RejectEarly, Finish, BodyThrows
  <2> QED BY <1>5, <1>6, <2>1, <2>3
<1>8. CASE NextItem(w)
  <2>1. ~IsDetached(w) /\ UNCHANGED state
    BY <1>8 DEF NextItem, CallsInv, InLock, queueVars
  <2>2. run'[w].call = run[w].call /\ run'[w].job = run[w].job
    BY <1>1, <1>8 DEF NextItem, TypeInv, TypeOK, Runs
  <2> QED BY <1>2, <2>1, <2>2, CallStep
<1>9. CASE Complete(w) \/ AttemptFails(w) \/ ReEnqueue(w)
  <2>1. run'[w].call = "none"
    BY <1>9 DEF Complete, AttemptFails, ReEnqueue, Idle, TypeInv, TypeOK
  <2>2. ASSUME NEW j \in Jobs, state[j] = "active", run[w].call = "live" => j # run[w].job
        PROVE  state'[j] = "active"
    <3>1. CASE Complete(w)
      BY <2>2, <3>1 DEF Complete, TypeInv, TypeOK
    <3>2. AfterThrow(w)[j] = "active"
      BY <2>2 DEF AfterThrow, TypeInv, TypeOK
    <3>3. CASE AttemptFails(w)
      BY <3>2, <3>3 DEF AttemptFails
    <3>4. CASE ReEnqueue(w)
      <4>1. PICK f \in [FailedItems(w) -> {k \in Jobs \ DOMAIN Workload : state[k] = "absent"}] :
              state' = [k \in Jobs |-> IF \E n \in FailedItems(w) : f[n] = k
                                         THEN "waiting" ELSE AfterThrow(w)[k]]
        BY <3>4 DEF ReEnqueue
      <4>2. \A n \in FailedItems(w) : f[n] # j
        BY <2>2
      <4> QED BY <3>2, <4>1, <4>2
    <3> QED BY <1>9, <3>1, <3>3, <3>4
  <2> QED BY <1>2, <2>1, <2>2, CallStep
<1> QED BY <1>4, <1>7, <1>8, <1>9 DEF Body, Handler, ThrowOut, ProgressThrows

LEMMA StartCallsInv ==
  ASSUME TypeInv, CallsInv, NEW w \in Slots, NEW j \in Jobs, Start(w, j)
  PROVE  CallsInv'
<1>1. run'[w].call = "live" /\ run'[w].job = j /\ \A x \in Slots \ {w} : run'[x] = run[x]
  BY DEF Start, TypeInv, TypeOK
<1>2. state[j] = "waiting" /\ state'[j] = "active" /\ \A k \in Jobs \ {j} : state'[k] = state[k]
  BY DEF Start, TypeInv, TypeOK
<1>3. \A x \in Slots : run[x].call = "live" => run[x].job \in Jobs \ {j}
  BY <1>2, LiveIsRun DEF Calls, CallsInv
<1> QED BY <1>1, <1>2, <1>3 DEF CallsInv, IsDetached

LEMMA StallCallsInv ==
  ASSUME TypeInv, CallsInv, NEW w \in Slots, Stall(w)
  PROVE  CallsInv'
<1>1. run[w].call = "live" /\ run[w] \in Runs
  BY LiveIsRun DEF Stall, Calls
<1>2. run'[w].call = "stale" /\ \A x \in Slots \ {w} : run'[x] = run[x]
  BY <1>1 DEF Stall, TypeInv, TypeOK, Runs
<1>3. \A j \in Jobs : j # run[w].job => state'[j] = state[j]
  BY DEF Stall, TypeInv, TypeOK
<1> QED BY <1>1, <1>2, <1>3, CallStep

LEMMA CrashCallsInv ==
  ASSUME TypeInv, CallsInv, NEW p \in Procs, Crash(p)
  PROVE  CallsInv'
<1> DEFINE dead == {w \in Slots : ProcOf[w] = p /\ Busy(w)}
           lost == {run[w].job : w \in {x \in dead : run[x].call = "live"}}
<1>1. /\ run' = [w \in Slots |-> IF w \in dead THEN Idle ELSE run[w]]
      /\ state' = [j \in Jobs |-> IF j \in lost THEN AfterStall(j) ELSE state[j]]
  BY DEF Crash
<1>2. \A x \in Slots : run'[x].call \in Calls => x \notin dead /\ run'[x] = run[x]
  BY <1>1 DEF Idle, Calls
<1>3. ASSUME NEW x \in Slots, run'[x].call = "live" PROVE state'[run'[x].job] = "active"
  <2>1. x \notin dead /\ run'[x] = run[x] /\ run[x].call = "live" /\ run[x].job \in Jobs
    BY <1>2, <1>3, LiveIsRun DEF Calls
  <2>2. run[x].job \notin lost
    BY <2>1 DEF CallsInv
  <2> HIDE DEF lost, dead
  <2> QED BY <1>1, <2>1, <2>2 DEF CallsInv
<1> HIDE DEF lost, dead
<1> QED BY <1>2, <1>3 DEF CallsInv, IsDetached, Calls

LEMMA ExtendFailsCallsInv ==
  ASSUME TypeInv, CallsInv, NEW w \in Slots, NEW v \in Slots, ExtendFails(w, v)
  PROVE  CallsInv'
<1>1. w # v /\ run[w] \in Runs /\ run[w].pc \in InLock /\ run[w].call # "detached" /\ UNCHANGED state
  BY BusyRun DEF ExtendFails, Busy, InLock, IsDetached, queueVars
<1>2. /\ run'[w].call = "detached" /\ run'[w].pc = run[w].pc
      /\ \A x \in Slots \ {w, v} : run'[x] = run[x]
  BY <1>1 DEF ExtendFails, TypeInv, TypeOK, Runs
<1>3. run'[v].call = run[w].call /\ run'[v].job = run[w].job
  BY <1>1 DEF ExtendFails, SettledAs, TypeInv, TypeOK, Runs
<1> QED BY <1>1, <1>2, <1>3 DEF CallsInv, IsDetached

LEMMA NextCallsInv == TypeInv /\ CallsInv /\ [Next]_vars => CallsInv'
<1> SUFFICES ASSUME TypeInv, CallsInv, [Next]_vars PROVE CallsInv'
  OBVIOUS
<1>1. \A x \in Slots : run[x].call = "live" => run[x].job \in Jobs /\ state[run[x].job] = "active"
  BY LiveIsRun DEF Calls, CallsInv
<1>2. ASSUME NEW j \in Jobs, Enqueue(j) \/ AdminRetry(j) PROVE CallsInv'
  <2>1. /\ UNCHANGED run /\ state[j] \in {"absent", "failed"}
        /\ \A k \in Jobs \ {j} : state'[k] = state[k]
    BY <1>2 DEF Enqueue, AdminRetry, TypeInv, TypeOK
  <2> QED BY <1>1, <2>1 DEF CallsInv, IsDetached
<1>3. CASE (\E k \in Jobs \X Groups : ExpireLock(k)) \/ UNCHANGED vars
  <2>1. UNCHANGED <<run, state>>
    BY <1>3 DEF ExpireLock, queueVars, vars
  <2> QED BY <2>1 DEF CallsInv, IsDetached
<1> QED
  BY <1>2, <1>3, BodyCallsInv, StartCallsInv, StallCallsInv, CrashCallsInv, ExtendFailsCallsInv
     DEF Next

LEMMA InitBounds == Init => QueuedInv /\ RetriesAreBounded
BY PayoutConstants DEF Init, QueuedInv, RetriesAreBounded

LEMMA NextBounds ==
  TypeInv /\ CallsInv /\ QueuedInv /\ RetriesAreBounded /\ [Next]_vars
    => QueuedInv' /\ RetriesAreBounded'
<1> SUFFICES ASSUME TypeInv, CallsInv, QueuedInv, RetriesAreBounded, [Next]_vars, NEW j \in Jobs
             PROVE  /\ state'[j] \in {"absent", "waiting", "active"} =>
                         /\ attempts'[j] < MaxAttempts + retries'[j]
                         /\ stalls'[j] <= MaxStalled + retries'[j]
                    /\ attempts'[j] <= MaxAttempts + retries'[j]
                    /\ stalls'[j] <= MaxStalled + 1 + retries'[j]
  BY DEF QueuedInv, RetriesAreBounded
<1>1. /\ attempts[j] \in Nat /\ stalls[j] \in Nat /\ retries[j] \in Nat
      /\ MaxAttempts \in Nat \ {0} /\ MaxStalled \in Nat
  BY PayoutConstants DEF TypeInv, TypeOK
<1>2. JobStep(j)
  BY NextJobStep
<1>3. /\ state[j] \in {"absent", "waiting", "active"} =>
           attempts[j] < MaxAttempts + retries[j] /\ stalls[j] <= MaxStalled + retries[j]
      /\ attempts[j] <= MaxAttempts + retries[j]
      /\ stalls[j] <= MaxStalled + 1 + retries[j]
  BY DEF QueuedInv, RetriesAreBounded
<1>4. CASE Untouched(j) \/ Moved(j) \/ Started(j)
  BY <1>1, <1>3, <1>4 DEF Untouched, Moved, Started
<1>5. CASE Threw(j)
  BY <1>1, <1>3, <1>5 DEF Threw
<1>6. CASE Stalled(j)
  BY <1>1, <1>3, <1>6 DEF Stalled, AfterStall
<1>7. CASE Retried(j)
  BY <1>1, <1>3, <1>7 DEF Retried
<1> QED BY <1>2, <1>4, <1>5, <1>6, <1>7 DEF JobStep

\* A job throws at most MaxAttempts times and stalls at most MaxStalled + 1 times,
\* and once more of either per manual retry: the loop of attempts, stalls and
\* re-queues is finite also when runs that BullMQ gave up are still alive
\* (payoutQueue.ts attempts, retryFailedPayout).
THEOREM RetryingIsBounded == Spec => []RetriesAreBounded
BY InitTypeInv, NextTypeInv, InitCallsInv, NextCallsInv, InitBounds, NextBounds, PTL DEF Spec

-----------------------------------------------------------------------------
(* Payments and attempts                                                   *)

\* OnePaymentPerAttempt is not inductive: a run that has not submitted its
\* position yet may still do so after its attempt was counted.  CountInv charges
\* those runs to the attempts as well.  The lock is again of no help: what counts
\* is that a run passes its position once, and that withLock hands the rest of
\* the job from the detached run to one other.
MayPay(r, j, n) ==
  /\ r.pc # "idle" /\ r.job = j
  /\ \/ r.i = n /\ r.pc \in {"start", "find", "create", "submit"}
     \/ r.i < n /\ r.call # "detached"

Payers(j, n) == {w \in Slots : MayPay(run[w], j, n)}

Distinct(j, n) == \A m \in DOMAIN items[j] : items[j][m] = items[j][n] => m = n

CountInv ==
  \A j \in Jobs : \A n \in DOMAIN items[j] :
    Distinct(j, n) => /\ IsFiniteSet(Payers(j, n))
                      /\ paid[<<j, items[j][n]>>] + Cardinality(Payers(j, n)) <= Tries(j)

UnpaidInv == \A j \in Jobs, r \in Requests : state[j] = "absent" => paid[<<j, r>>] = 0

LEMMA TriesType ==
  ASSUME TypeOK, NEW j \in Jobs
  PROVE  Tries(j) \in Nat
BY DEF TypeOK, Tries

\* An attempt is counted when it starts and stays counted.
LEMMA TriesGrow ==
  ASSUME TypeInv, CallsInv, [Next]_vars, NEW j \in Jobs
  PROVE  /\ Tries(j)' = Tries(j) + (IF Started(j) THEN 1 ELSE 0)
         /\ state[j] # "absent" => state'[j] # "absent"
<1>1. attempts[j] \in Nat /\ stalls[j] \in Nat
  BY DEF TypeInv, TypeOK
<1>2. JobStep(j)
  BY NextJobStep
<1>3. CASE Untouched(j) \/ Moved(j) \/ Started(j)
  BY <1>1, <1>3 DEF Untouched, Moved, Started, Tries
<1>4. CASE Threw(j) \/ Stalled(j)
  BY <1>1, <1>4 DEF Threw, Stalled, AfterStall, Started, Tries
<1>5. CASE Retried(j)
  BY <1>1, <1>5 DEF Retried, Started, Tries
<1> QED BY <1>2, <1>3, <1>4, <1>5 DEF JobStep

\* Who may pay is busy with the job, and that job was enqueued.
LEMMA PayerIsBusy ==
  ASSUME TypeInv, NEW w \in Slots, NEW j \in Jobs, NEW n \in Nat, MayPay(run[w], j, n)
  PROVE  Busy(w) /\ run[w] \in Runs /\ state[j] # "absent"
BY BusyRun DEF MayPay, Busy, TypeInv, RunInv

\* No step but a start and the hand-over of withLock makes a new payer; the run
\* that submits stops being one.
LEMMA BodyPayers ==
  ASSUME TypeInv, CallsInv, NEW w \in Slots, Body(w) \/ Handler(w),
         NEW j \in Jobs, NEW n \in Nat, NEW x \in Slots, MayPay(run'[x], j, n)
  PROVE  MayPay(run[x], j, n) /\ ~(x = w /\ Submit(w) /\ run[w].i = n)
<1>1. Busy(w) /\ run[w] \in Runs
  BY BusyRun DEF Body, Acquire, RejectEarly, Find, Create, Submit, Confirm, Finish, BodyThrows,
                 Handler, ThrowOut, ProgressThrows, NextItem, Complete, AttemptFails, ReEnqueue, AtEnd, Busy, InLock
<1>2. CASE x # w
  <2>1. run'[x] = run[x]
    BY <1>2 DEF Body, Acquire, RejectEarly, Find, Create, Submit, Confirm, Finish, BodyThrows,
                Handler, ThrowOut, ProgressThrows, NextItem, Complete, AttemptFails, ReEnqueue, TypeInv, TypeOK
  <2> QED BY <1>2, <2>1
<1>3. CASE x = w
  <2>1. ASSUME NEW q \in InLock, run' = [run EXCEPT ![w].pc = q]
        PROVE  /\ run'[w].pc = q /\ run'[w].job = run[w].job /\ run'[w].i = run[w].i
               /\ run'[w].call = run[w].call
    BY <1>1, <2>1 DEF TypeInv, TypeOK, Runs
  <2>2. CASE Acquire(w) \/ Find(w) \/ Create(w) \/ Submit(w) \/ Confirm(w)
    <3>1. \E q \in InLock : run' = [run EXCEPT ![w].pc = q]
      BY <2>2 DEF Acquire, Find, Create, Submit, Confirm, InLock
    <3>2. /\ run'[w].job = run[w].job /\ run'[w].i = run[w].i /\ run'[w].call = run[w].call
          /\ run[w].i \in Nat
      BY <1>1, <2>1, <3>1 DEF Runs
    <3>3. /\ run'[w].pc \in {"find", "create", "submit"}
               => run[w].pc \in {"start", "find", "create"}
          /\ run[w].pc = "submit" => run'[w].pc \in {"confirm", "finish"}
          /\ run'[w].pc \in InLock
      <4>1. PICK q \in InLock : run' = [run EXCEPT ![w].pc = q] /\ run'[w].pc = q
        BY <2>1, <3>1
      <4>2. CASE Submit(w)
        BY <1>1, <4>1, <4>2 DEF Submit, TypeInv, TypeOK, InLock, Runs
      <4>3. CASE Acquire(w) \/ Find(w) \/ Create(w)
        BY <4>1, <4>3 DEF Acquire, Find, Create
      <4>4. CASE Confirm(w)
        BY <1>1, <4>1, <4>4 DEF Confirm, TypeInv, TypeOK, InLock, Runs
      <4> QED BY <2>2, <4>1, <4>2, <4>3, <4>4
    <3>4. MayPay(run[w], j, n)
      BY <1>1, <1>3, <3>2, <3>3 DEF MayPay, Busy, InLock
    <3>5. ~(run[w].pc = "submit" /\ run[w].i = n)
      BY <1>3, <3>2, <3>3 DEF MayPay
    <3> QED BY <1>3, <3>4, <3>5 DEF Submit
  <2>3. CASE RejectEarly(w) \/ Finish(w) \/ BodyThrows(w) \/ Complete(w) \/ AttemptFails(w) \/ ReEnqueue(w)
    <3>1. run'[w] # Idle
      BY <1>3 DEF MayPay, Idle
    <3>2. \/ run' = [run EXCEPT ![w] = Idle]
          \/ \E ok \in BOOLEAN : run' = [run EXCEPT ![w] = SettledAs(run[w], ok)]
      BY <2>3 DEF RejectEarly, Finish, BodyThrows, Complete, AttemptFails, ReEnqueue
    <3>3. PICK ok \in BOOLEAN : run'[w] = SettledAs(run[w], ok)
      BY <3>1, <3>2 DEF TypeInv, TypeOK
    <3>4. /\ run'[w].pc = "settle" /\ run'[w].job = run[w].job /\ run'[w].i = run[w].i
          /\ run'[w].call = run[w].call
      BY <1>1, <3>3 DEF SettledAs, Runs
    <3>5. run[w].i \in Nat
      BY <1>1 DEF Runs
    <3> QED BY <1>1, <1>3, <3>4, <3>5 DEF MayPay, Busy
  <2>4. CASE NextItem(w)
    <3>1. run[w].pc = "settle" /\ run[w].call # "detached"
      BY <2>4 DEF NextItem, CallsInv, IsDetached, InLock
    <3>2. run'[w].job = run[w].job /\ run'[w].i = run[w].i + 1 /\ run[w].i \in Nat
      BY <1>1, <2>4 DEF NextItem, TypeInv, TypeOK, Runs
    <3>3. run[w].i < n
      BY <1>3, <3>2 DEF MayPay
    <3> QED BY <1>3, <3>1, <3>2, <3>3 DEF MayPay, Submit
  <2> QED BY <2>2, <2>3, <2>4 DEF Body, Handler, ThrowOut, ProgressThrows
<1> QED BY <1>2, <1>3

LEMMA StallPayers ==
  ASSUME TypeInv, NEW w \in Slots, Stall(w),
         NEW j \in Jobs, NEW n \in Nat, NEW x \in Slots, MayPay(run'[x], j, n)
  PROVE  MayPay(run[x], j, n)
<1>1. run[w].call = "live" /\ run[w] \in Runs
  BY LiveIsRun DEF Stall, Calls
<1>2. CASE x = w
  <2>1. /\ run'[w].pc = run[w].pc /\ run'[w].job = run[w].job /\ run'[w].i = run[w].i
    BY <1>1 DEF Stall, TypeInv, TypeOK, Runs
  <2> QED BY <1>1, <1>2, <2>1 DEF MayPay
<1>3. CASE x # w
  <2>1. run'[x] = run[x]
    BY <1>3 DEF Stall, TypeInv, TypeOK
  <2> QED BY <2>1
<1> QED BY <1>2, <1>3

LEMMA StartPayers ==
  ASSUME TypeInv, NEW w \in Slots, NEW k \in Jobs, Start(w, k),
         NEW j \in Jobs, NEW n \in Nat, NEW x \in Slots, MayPay(run'[x], j, n)
  PROVE  MayPay(run[x], j, n) \/ (x = w /\ k = j)
<1>1. CASE x = w
  BY <1>1 DEF Start, MayPay, TypeInv, TypeOK
<1>2. CASE x # w
  <2>1. run'[x] = run[x]
    BY <1>2 DEF Start, TypeInv, TypeOK
  <2> QED BY <2>1
<1> QED BY <1>1, <1>2

\* Whoever detaches hands the payouts behind its own to the slot that goes on.
LEMMA ExtendFailsPayers ==
  ASSUME TypeInv, NEW w \in Slots, NEW v \in Slots, ExtendFails(w, v),
         NEW j \in Jobs, NEW n \in Nat, NEW x \in Slots, MayPay(run'[x], j, n)
  PROVE  \/ MayPay(run[x], j, n) /\ (x = w => run[w].i = n)
         \/ x = v /\ MayPay(run[w], j, n) /\ run[w].i # n
<1>1. w # v /\ Busy(w) /\ run[w] \in Runs /\ run[w].pc # "settle" /\ run[w].call # "detached"
  BY BusyRun DEF ExtendFails, Busy, InLock, IsDetached
<1>2. CASE x = w
  <2>1. /\ run'[w].call = "detached" /\ run'[w].pc = run[w].pc /\ run'[w].job = run[w].job
        /\ run'[w].i = run[w].i
    BY <1>1 DEF ExtendFails, TypeInv, TypeOK, Runs
  <2> QED BY <1>2, <2>1 DEF MayPay
<1>3. CASE x = v
  <2>1. /\ run'[v].pc = "settle" /\ run'[v].job = run[w].job /\ run'[v].i = run[w].i
    BY <1>1 DEF ExtendFails, SettledAs, TypeInv, TypeOK, Runs
  <2>2. run[w].job = j /\ run[w].i < n /\ run[w].i \in Nat
    BY <1>1, <1>3, <2>1 DEF MayPay, Runs
  <2> QED BY <1>1, <1>3, <2>2 DEF MayPay, Busy
<1>4. CASE x \notin {w, v}
  <2>1. run'[x] = run[x]
    BY <1>4 DEF ExtendFails, TypeInv, TypeOK
  <2> QED BY <1>4, <2>1
<1> QED BY <1>2, <1>3, <1>4

\* The rest leaves every payer as it is or removes it.
LEMMA OtherPayers ==
  ASSUME TypeInv, NEW j \in Jobs, NEW n \in Nat, NEW x \in Slots, MayPay(run'[x], j, n),
         \/ \E k \in Jobs : Enqueue(k) \/ AdminRetry(k)
         \/ \E p \in Procs : Crash(p)
         \/ \E k \in Jobs \X Groups : ExpireLock(k)
         \/ UNCHANGED vars
  PROVE  MayPay(run[x], j, n)
<1>1. run'[x] # Idle
  BY DEF MayPay, Idle
<1>2. run'[x] = run[x]
  BY <1>1 DEF Enqueue, AdminRetry, Crash, ExpireLock, vars
<1> QED BY <1>2

\* Only the submission at a payout's own position pays it.
LEMMA PaidStep ==
  ASSUME IInv, [Next]_vars, NEW j \in Jobs, NEW r \in Requests,
         paid'[<<j, r>>] # paid[<<j, r>>]
  PROVE  \E w \in Slots :
           /\ Submit(w) /\ run[w].job = j /\ run[w].req = r /\ state[j] # "absent"
           /\ run[w].i \in DOMAIN items[j] /\ items[j][run[w].i] = r
           /\ paid'[<<j, r>>] = paid[<<j, r>>] + 1
<1>1. PICK w \in Slots : Submit(w)
  <2>1. ASSUME NEW w \in Slots, Create(w) \/ Confirm(w) PROVE UNCHANGED paid
    BY <2>1 DEF Create, Confirm
  <2> QED
    BY <2>1, QuietActions, AcquireSubmitInv, FindSubmitInv DEF IInv, TypeInv, Next, Body
<1>2. <<j, r>> \in Hashes
  BY DEF Hashes
<1>3. Hash(w) = <<j, r>> /\ paid'[<<j, r>>] = paid[<<j, r>>] + 1
  BY <1>1, <1>2 DEF Submit, IInv, TypeInv, TypeOK
<1>4. run[w].job = j /\ run[w].req = r
  BY <1>3 DEF Hash
<1>5. Busy(w) /\ run[w] \in Runs /\ run[w].req = items[j][run[w].i]
  BY <1>1, <1>4, BusyRun DEF Submit, Busy, IInv, RunsGood, GoodRun
<1>6. state[j] # "absent" /\ run[w].i \in DOMAIN items[j]
  <2>1. /\ state[j] # "absent" /\ run[w].i <= Len(items[j])
        /\ run[w].i \in Nat \ {0} /\ items[j] \in Seq(Requests)
    BY <1>4, <1>5 DEF IInv, TypeInv, TypeOK, RunInv, Runs
  <2> QED BY <2>1
<1> QED BY <1>1, <1>3, <1>4, <1>5, <1>6

\* What a step does to a payout that occurs once in its job, and to its payers.
Kept(j, n) == Payers(j, n)' \subseteq Payers(j, n)
PaysOff(j, n, w) == w \in Payers(j, n) /\ Payers(j, n)' \subseteq Payers(j, n) \ {w}
Joins(j, n, w) == Payers(j, n)' \subseteq Payers(j, n) \cup {w}
HandsOver(j, n, w, v) ==
  w \in Payers(j, n) /\ Payers(j, n)' \subseteq (Payers(j, n) \ {w}) \cup {v}

\* One more element.
LEMMA OneMore ==
  ASSUME NEW S, NEW x, IsFiniteSet(S)
  PROVE  /\ IsFiniteSet(S \cup {x})
         /\ Cardinality(S \cup {x}) \in Nat /\ Cardinality(S \cup {x}) <= Cardinality(S) + 1
<1>1. IsFiniteSet(S \cup {x}) /\ Cardinality(S \cup {x}) \in {Cardinality(S), Cardinality(S) + 1}
  BY FS_AddElement
<1>2. Cardinality(S) \in Nat
  BY FS_CardinalityType
<1> QED BY <1>1, <1>2

LEMMA PayersStep ==
  ASSUME TypeInv, CallsInv, [Next]_vars, NEW j \in Jobs, NEW n \in Nat
  PROVE  \/ Kept(j, n)
         \/ \E w \in Slots : Joins(j, n, w) /\ Started(j)
         \/ \E w, v \in Slots : HandsOver(j, n, w, v)
<1>1. ASSUME NEW w \in Slots, Body(w) \/ Handler(w) PROVE Kept(j, n)
  BY <1>1, BodyPayers DEF Kept, Payers
<1>2. ASSUME NEW w \in Slots, Stall(w) PROVE Kept(j, n)
  BY <1>2, StallPayers DEF Kept, Payers
<1>3. ASSUME NEW w \in Slots, NEW k \in Jobs, Start(w, k)
      PROVE  Kept(j, n) \/ (Joins(j, n, w) /\ Started(j))
  <2>1. CASE k = j
    <3>1. Started(j)
      BY <1>3, <2>1 DEF Start, Started, TypeInv, TypeOK
    <3> QED BY <1>3, <3>1, StartPayers DEF Joins, Payers
  <2>2. CASE k # j
    BY <1>3, <2>2, StartPayers DEF Kept, Payers
  <2> QED BY <2>1, <2>2
<1>4. ASSUME NEW w \in Slots, NEW v \in Slots, ExtendFails(w, v)
      PROVE  Kept(j, n) \/ HandsOver(j, n, w, v)
  <2>1. ASSUME NEW x \in Payers(j, n)'
        PROVE  \/ x \in Payers(j, n) /\ (x = w => run[w].i = n)
               \/ x = v /\ w \in Payers(j, n) /\ run[w].i # n
    BY <1>4, ExtendFailsPayers DEF Payers
  <2>2. CASE w \in Payers(j, n) /\ run[w].i # n
    BY <2>1, <2>2 DEF HandsOver
  <2>3. CASE ~(w \in Payers(j, n) /\ run[w].i # n)
    BY <2>1, <2>3 DEF Kept
  <2> QED BY <2>2, <2>3
<1>5. ASSUME \/ \E k \in Jobs : Enqueue(k) \/ AdminRetry(k)
             \/ \E p \in Procs : Crash(p)
             \/ \E k \in Jobs \X Groups : ExpireLock(k)
             \/ UNCHANGED vars
      PROVE  Kept(j, n)
  BY <1>5, OtherPayers DEF Kept, Payers
<1> QED BY <1>1, <1>2, <1>3, <1>4, <1>5 DEF Next

LEMMA NextUnpaid == IInv /\ CallsInv /\ UnpaidInv /\ [Next]_vars => UnpaidInv'
<1> SUFFICES ASSUME IInv, CallsInv, UnpaidInv, [Next]_vars, NEW j \in Jobs, NEW r \in Requests,
                    state'[j] = "absent"
             PROVE  paid'[<<j, r>>] = 0
  BY DEF UnpaidInv
<1>1. state[j] = "absent"
  BY TriesGrow DEF IInv
<1> QED BY <1>1, PaidStep DEF UnpaidInv

\* A payout of a job that was enqueued before the step.
LEMMA OldCount ==
  ASSUME IInv, CallsInv, [Next]_vars, NEW j \in Jobs, NEW n \in DOMAIN items[j], state[j] # "absent",
         Distinct(j, n), IsFiniteSet(Payers(j, n)),
         paid[<<j, items[j][n]>>] + Cardinality(Payers(j, n)) <= Tries(j)
  PROVE  /\ IsFiniteSet(Payers(j, n)')
         /\ paid'[<<j, items[j][n]>>] + Cardinality(Payers(j, n)') <= Tries(j)'
<1> DEFINE r == items[j][n]
           P == Payers(j, n)
           Q == Payers(j, n)'
<1>1. n \in Nat /\ r \in Requests /\ <<j, r>> \in Hashes
  <2>1. items[j] \in Seq(Requests)
    BY DEF IInv, TypeInv, TypeOK
  <2> QED BY <2>1 DEF Hashes
<1>2. paid[<<j, r>>] \in Nat /\ Tries(j) \in Nat /\ Cardinality(P) \in Nat
  BY <1>1, TriesType, FS_CardinalityType DEF IInv, TypeInv, TypeOK
<1>3. /\ Tries(j)' = Tries(j) + (IF Started(j) THEN 1 ELSE 0)
  BY TriesGrow DEF IInv
<1>4. ASSUME NEW S, IsFiniteSet(S), Q \subseteq S
      PROVE  IsFiniteSet(Q) /\ Cardinality(Q) \in Nat /\ Cardinality(S) \in Nat
             /\ Cardinality(Q) <= Cardinality(S)
  BY <1>4, FS_Subset, FS_CardinalityType
<1>5. CASE paid'[<<j, r>>] # paid[<<j, r>>]
  <2>1. PICK w \in Slots : /\ Submit(w) /\ run[w].job = j /\ run[w].i \in DOMAIN items[j]
                           /\ items[j][run[w].i] = r
                           /\ paid'[<<j, r>>] = paid[<<j, r>>] + 1
    BY <1>1, <1>5, PaidStep
  <2>2. run[w].i = n
    BY <2>1 DEF Distinct
  <2>3. w \in P
    BY <2>1, <2>2 DEF Payers, MayPay, Submit
  <2>4. Q \subseteq P \ {w}
    BY <1>1, <2>1, <2>2, BodyPayers DEF Payers, IInv, Body
  <2>5. IsFiniteSet(P \ {w}) /\ Cardinality(P \ {w}) = Cardinality(P) - 1
    BY <2>3, FS_RemoveElement
  <2>6. IsFiniteSet(Q) /\ Cardinality(Q) \in Nat /\ Cardinality(Q) <= Cardinality(P) - 1
    BY <1>4, <2>4, <2>5
  <2> HIDE DEF P, Q, r
  <2> QED BY <1>2, <1>3, <2>1, <2>6 DEF P, Q, r
<1>6. CASE paid'[<<j, r>>] = paid[<<j, r>>]
  <2>1. CASE Kept(j, n)
    <3>1. IsFiniteSet(Q) /\ Cardinality(Q) \in Nat /\ Cardinality(Q) <= Cardinality(P)
      BY <1>4, <2>1 DEF Kept
    <3> QED BY <1>2, <1>3, <1>6, <3>1
  <2>2. ASSUME NEW w \in Slots, Joins(j, n, w), Started(j)
        PROVE  IsFiniteSet(Q) /\ paid'[<<j, r>>] + Cardinality(Q) <= Tries(j)'
    <3>1. /\ IsFiniteSet(P \cup {w}) /\ Cardinality(P \cup {w}) \in Nat
          /\ Cardinality(P \cup {w}) <= Cardinality(P) + 1
      BY OneMore
    <3>2. IsFiniteSet(Q) /\ Cardinality(Q) \in Nat /\ Cardinality(Q) <= Cardinality(P) + 1
      BY <1>2, <1>4, <2>2, <3>1 DEF Joins
    <3> QED BY <1>2, <1>3, <1>6, <2>2, <3>2
  <2>3. ASSUME NEW w \in Slots, NEW v \in Slots, HandsOver(j, n, w, v)
        PROVE  IsFiniteSet(Q) /\ paid'[<<j, r>>] + Cardinality(Q) <= Tries(j)'
    <3>1. IsFiniteSet(P \ {w}) /\ Cardinality(P \ {w}) = Cardinality(P) - 1
      BY <2>3, FS_RemoveElement DEF HandsOver
    <3>2. /\ IsFiniteSet((P \ {w}) \cup {v}) /\ Cardinality((P \ {w}) \cup {v}) \in Nat
          /\ Cardinality((P \ {w}) \cup {v}) <= Cardinality(P)
      <4>1. Cardinality((P \ {w}) \cup {v}) <= Cardinality(P \ {w}) + 1
        BY <3>1, OneMore
      <4>2. IsFiniteSet((P \ {w}) \cup {v}) /\ Cardinality((P \ {w}) \cup {v}) \in Nat
        BY <3>1, OneMore
      <4> QED BY <1>2, <3>1, <4>1, <4>2
    <3>3. IsFiniteSet(Q) /\ Cardinality(Q) \in Nat /\ Cardinality(Q) <= Cardinality(P)
      BY <1>2, <1>4, <2>3, <3>2 DEF HandsOver
    <3> QED BY <1>2, <1>3, <1>6, <3>3
  <2> QED BY <1>1, <2>1, <2>2, <2>3, PayersStep DEF IInv
<1> QED BY <1>5, <1>6

\* A payout that a step brings in has no payer and no payment.
LEMMA NewCount ==
  ASSUME IInv, CallsInv, UnpaidInv, [Next]_vars, NEW j \in Jobs, NEW n \in Nat, NEW r \in Requests,
         state[j] = "absent"
  PROVE  /\ IsFiniteSet(Payers(j, n)')
         /\ paid'[<<j, r>>] + Cardinality(Payers(j, n)') <= Tries(j)'
<1>1. Payers(j, n) = {}
  BY PayerIsBusy DEF Payers, IInv
<1>2. Payers(j, n)' = {}
  BY <1>1, PayersStep DEF IInv, Kept, Joins, HandsOver, Started
<1>3. paid'[<<j, r>>] = 0
  BY PaidStep DEF UnpaidInv
<1>4. Tries(j) \in Nat /\ Tries(j)' \in Nat
  BY TriesType, TriesGrow DEF IInv, TypeInv
<1> QED BY <1>2, <1>3, <1>4, FS_EmptySet

LEMMA NextCountInv ==
  IInv /\ CallsInv /\ UnpaidInv /\ CountInv /\ [Next]_vars => CountInv'
<1> SUFFICES ASSUME IInv, CallsInv, UnpaidInv, CountInv, [Next]_vars,
                    NEW j \in Jobs, NEW n \in DOMAIN items'[j], Distinct(j, n)'
             PROVE  /\ IsFiniteSet(Payers(j, n)')
                    /\ paid'[<<j, items'[j][n]>>] + Cardinality(Payers(j, n)') <= Tries(j)'
  BY DEF CountInv
<1>1. n \in Nat /\ items'[j][n] \in Requests
  <2>1. TypeInv'
    BY NextTypeInv DEF IInv
  <2>2. items'[j] \in Seq(Requests)
    BY <2>1 DEF TypeInv, TypeOK
  <2> QED BY <2>2
<1>2. CASE state[j] = "absent"
  BY <1>1, <1>2, NewCount
<1>3. CASE state[j] # "absent"
  <2>1. items'[j] = items[j]
    BY <1>3, ItemsStay DEF IInv
  <2>2. n \in DOMAIN items[j] /\ Distinct(j, n)
    BY <2>1 DEF Distinct
  <2>3. IsFiniteSet(Payers(j, n)) /\ paid[<<j, items[j][n]>>] + Cardinality(Payers(j, n)) <= Tries(j)
    BY <2>2 DEF CountInv
  <2> QED BY <1>3, <2>1, <2>2, <2>3, OldCount
<1> QED BY <1>2, <1>3

LEMMA InitCountInv == Init => UnpaidInv /\ CountInv
BY DEF Init, UnpaidInv, CountInv, Hashes

LEMMA CountInvBounds ==
  ASSUME TypeInv, CountInv
  PROVE  OnePaymentPerAttempt
<1> SUFFICES ASSUME NEW j \in Jobs, NEW n \in DOMAIN items[j], Distinct(j, n)
             PROVE  paid[<<j, items[j][n]>>] <= Tries(j)
  BY DEF OnePaymentPerAttempt, Distinct
<1>1. /\ IsFiniteSet(Payers(j, n))
      /\ paid[<<j, items[j][n]>>] + Cardinality(Payers(j, n)) <= Tries(j)
  BY DEF CountInv
<1>2. items[j] \in Seq(Requests)
  BY DEF TypeInv, TypeOK
<1>3. paid[<<j, items[j][n]>>] \in Nat
  BY <1>2 DEF TypeInv, TypeOK, Hashes
<1>4. Cardinality(Payers(j, n)) \in Nat /\ Tries(j) \in Nat
  BY <1>1, FS_CardinalityType, TriesType DEF TypeInv
<1> QED BY <1>1, <1>3, <1>4

\* A payout that occurs once in its job is paid no more often than the job was
\* attempted, also on the rails that have no idempotency key and after any number
\* of lost locks, stalls and crashes; RetryingIsBounded bounds the attempts
\* (processBatchPayoutJob, withLock).
THEOREM PaidOncePerAttempt == Spec => []OnePaymentPerAttempt
<1>1. IInv <=> TypeInv /\ SubmitInv /\ RunsGood
  BY DEF IInv
<1>2. TypeInv => TypeOK
  BY DEF TypeInv
<1> QED
  BY <1>1, <1>2, InitTypeInv, NextTypeInv, InitSubmitInv, NextSubmitInv, InitRunsGood,
     NextRunsGood, InitCallsInv, NextCallsInv, InitCountInv, NextUnpaid, NextCountInv,
     CountInvBounds, PTL DEF Spec
=============================================================================
