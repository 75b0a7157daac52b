---------------------------- MODULE LockService ----------------------------
(***************************************************************************)
(* Calls of LockService.withLock (backend/src/utils/LockService.ts) by     *)
(* several processes.  A process that has Redis takes the lock lock:<key>  *)
(* there, with a time to live that a timer extends; one that has not falls *)
(* back to an AsyncMutex of its own, kept in a map by key and evicted when *)
(* it goes idle.                                                           *)
(*                                                                         *)
(* A call (call[c]) and the function it was given (body[c]) are apart: the *)
(* call rejects when an extension fails, the function runs on.             *)
(***************************************************************************)
EXTENDS Integers, Sequences, FiniteSets

CONSTANTS
  Calls,   \* calls of withLock
  Procs,   \* processes
  Proc,    \* Proc[c]: the process that makes call c
  Keys,
  Key,     \* Key[c]: the key call c locks
  NoCall

ASSUME LockConstants ==
  /\ Proc \in [Calls -> Procs]
  /\ Key \in [Calls -> Keys]
  /\ NoCall \notin Calls

VARIABLES
  remote, \* processes in which getRedlock returns a Redlock
  call,   \* call[c]: where the call of withLock is
  body,   \* body[c]: whether its function runs
  redis,  \* redis[k]: the call whose token is stored under lock:k
  lost,   \* calls whose lock expired under them or could not be extended
  mutexes,\* localMutexes[p][k]: the mutex, named by the call that created it
  locked, \* mutexes with locked = true
  queue,  \* queue[m]: the calls in currentQueue of mutex m
  using   \* using[c]: the mutex call c acquires

remoteVars == <<redis, lost>>
localVars == <<mutexes, locked, queue, using>>
vars == <<remote, call, body, remoteVars, localVars>>

Far(c) == Proc[c] \in remote

TypeOK ==
  /\ remote \subseteq Procs
  /\ call \in [Calls -> {"start", "queued", "inside", "unlocking", "settled"}]
  /\ body \in [Calls -> {"none", "running", "ended"}]
  /\ redis \in [Keys -> Calls \cup {NoCall}]
  /\ \A k \in Keys : redis[k] # NoCall => Key[redis[k]] = k
  /\ lost \subseteq Calls
  /\ mutexes \in [Procs -> [Keys -> Calls \cup {NoCall}]]
  /\ locked \subseteq Calls
  /\ queue \in [Calls -> Seq(Calls)]
  /\ \A m \in Calls : queue[m] # <<>> => m \in locked
  /\ using \in [Calls -> Calls \cup {NoCall}]

\* getRedlock: redisAvailable and redlockInstance keep the answer of the first call.
Init ==
  /\ remote \in SUBSET Procs
  /\ call = [c \in Calls |-> "start"]
  /\ body = [c \in Calls |-> "none"]
  /\ redis = [k \in Keys |-> NoCall] /\ lost = {}
  /\ mutexes = [p \in Procs |-> [k \in Keys |-> NoCall]]
  /\ locked = {}
  /\ queue = [c \in Calls |-> <<>>]
  /\ using = [c \in Calls |-> NoCall]

-----------------------------------------------------------------------------
(* With Redis                                                              *)

\* redlock.lock succeeds, and the function starts.
Lock(c) ==
  /\ call[c] = "start" /\ Far(c)
  /\ redis[Key[c]] = NoCall
  /\ redis' = [redis EXCEPT ![Key[c]] = c]
  /\ call' = [call EXCEPT ![c] = "inside"]
  /\ body' = [body EXCEPT ![c] = "running"]
  /\ UNCHANGED <<remote, lost, localVars>>

\* It gives up after its retries, or Redis took the lock and the answer is lost.
LockFails(c) ==
  /\ call[c] = "start" /\ Far(c)
  /\ \/ UNCHANGED redis
     \/ redis[Key[c]] = NoCall /\ redis' = [redis EXCEPT ![Key[c]] = c]
  /\ call' = [call EXCEPT ![c] = "settled"]
  /\ UNCHANGED <<remote, body, lost, localVars>>

\* The function ends while its call waits for it, or after the call rejected.
BodyEnds(c) ==
  /\ body[c] = "running" /\ Far(c)
  /\ body' = [body EXCEPT ![c] = "ended"]
  /\ call' = IF call[c] = "inside" THEN [call EXCEPT ![c] = "unlocking"] ELSE call
  /\ UNCHANGED <<remote, remoteVars, localVars>>

\* The timer's extend fails: the signal is aborted and the race is lost.
ExtendFails(c) ==
  /\ call[c] = "inside" /\ Far(c)
  /\ call' = [call EXCEPT ![c] = "unlocking"]
  /\ lost' = lost \cup {c}
  /\ UNCHANGED <<remote, body, redis, localVars>>

Settle(c) == call' = [call EXCEPT ![c] = "settled"]

\* Mutant: the key is deleted whoever's token it holds.
UnlockAnyone(c) ==
  /\ call[c] = "unlocking"
  /\ redis' = [redis EXCEPT ![Key[c]] = NoCall]
  /\ Settle(c)
  /\ UNCHANGED <<remote, body, lost, localVars>>

\* unlock deletes the key if it holds the call's own token, or it fails, which
\* is logged.
Unlock(c) ==
  /\ call[c] = "unlocking"
  /\ \/ redis[Key[c]] = c /\ redis' = [redis EXCEPT ![Key[c]] = NoCall]
     \/ UNCHANGED redis
  /\ Settle(c)
  /\ UNCHANGED <<remote, body, lost, localVars>>

\* The time to live runs out: no extension came in time.
Expire(k) ==
  /\ redis[k] # NoCall
  /\ redis' = [redis EXCEPT ![k] = NoCall]
  /\ lost' = lost \cup {redis[k]}
  /\ UNCHANGED <<remote, call, body, localVars>>

-----------------------------------------------------------------------------
(* Without Redis: AsyncMutex                                               *)

\* getLocalMutex and acquire, with no await between them: the function starts at
\* once or the call queues.
Acquire(c) ==
  /\ call[c] = "start" /\ ~Far(c)
  /\ LET known == mutexes[Proc[c]][Key[c]]
         m == IF known = NoCall THEN c ELSE known
     IN  /\ mutexes' = [mutexes EXCEPT ![Proc[c]][Key[c]] = m]
         /\ using' = [using EXCEPT ![c] = m]
         /\ locked' = locked \cup {m}
         /\ IF m \in locked
              THEN /\ queue' = [queue EXCEPT ![m] = Append(@, c)]
                   /\ call' = [call EXCEPT ![c] = "queued"]
                   /\ UNCHANGED body
              ELSE /\ call' = [call EXCEPT ![c] = "inside"]
                   /\ body' = [body EXCEPT ![c] = "running"]
                   /\ UNCHANGED queue
  /\ UNCHANGED <<remote, remoteVars>>

\* Mutant: the mutex is unlocked for the next waiter to lock.
HandOverUnlocked(c, m) ==
  LET next == Head(queue[m])
  IN  /\ queue' = [queue EXCEPT ![m] = Tail(@)]
      /\ locked' = locked \ {m}
      /\ call' = [call EXCEPT ![c] = "settled", ![next] = "inside"]
      /\ body' = [body EXCEPT ![c] = "ended", ![next] = "running"]
      /\ UNCHANGED mutexes

\* Mutant: the mutex is evicted although it goes to a waiter.
HandOverEvicting(c, m) ==
  LET next == Head(queue[m])
  IN  /\ queue' = [queue EXCEPT ![m] = Tail(@)]
      /\ mutexes' = [mutexes EXCEPT ![Proc[c]][Key[c]] = NoCall]
      /\ call' = [call EXCEPT ![c] = "settled", ![next] = "inside"]
      /\ body' = [body EXCEPT ![c] = "ended", ![next] = "running"]
      /\ UNCHANGED locked

\* Mutant: the mutex goes to the call that came last.
HandOverToLast(c, m) ==
  LET rest == Len(queue[m]) - 1
      next == queue[m][rest + 1]
  IN  /\ queue' = [queue EXCEPT ![m] = SubSeq(@, 1, rest)]
      /\ call' = [call EXCEPT ![c] = "settled", ![next] = "inside"]
      /\ body' = [body EXCEPT ![c] = "ended", ![next] = "running"]
      /\ UNCHANGED <<mutexes, locked>>

\* release: the mutex goes to the next waiter and stays locked.
HandOver(c, m) ==
  LET next == Head(queue[m])
  IN  /\ queue' = [queue EXCEPT ![m] = Tail(@)]
      /\ call' = [call EXCEPT ![c] = "settled", ![next] = "inside"]
      /\ body' = [body EXCEPT ![c] = "ended", ![next] = "running"]
      /\ UNCHANGED <<mutexes, locked>>

\* Mutant: an idle mutex stays in the map.
GoIdleKept(c, m) ==
  /\ locked' = locked \ {m}
  /\ Settle(c)
  /\ body' = [body EXCEPT ![c] = "ended"]
  /\ UNCHANGED <<mutexes, queue>>

\* release with nobody waiting: the mutex is unlocked and evicted from the map.
GoIdle(c, m) ==
  /\ locked' = locked \ {m}
  /\ mutexes' = IF mutexes[Proc[c]][Key[c]] = m
                  THEN [mutexes EXCEPT ![Proc[c]][Key[c]] = NoCall] ELSE mutexes
  /\ Settle(c)
  /\ body' = [body EXCEPT ![c] = "ended"]
  /\ UNCHANGED queue

\* Mutant: whoever ends drops the mutex, with those who wait in its queue.
ReleaseForgetting(c) ==
  /\ call[c] = "inside" /\ ~Far(c)
  /\ GoIdle(c, using[c])
  /\ UNCHANGED <<remote, using, remoteVars>>

\* The function ends, and the finally block releases the mutex.
Release(c) ==
  /\ call[c] = "inside" /\ ~Far(c)
  /\ IF queue[using[c]] # <<>> THEN HandOver(c, using[c]) ELSE GoIdle(c, using[c])
  /\ UNCHANGED <<remote, using, remoteVars>>

\* A process dies with its calls, functions and mutexes; its lock stays in Redis.
\* Restarted, it looks for Redis anew and may make the calls it had not made.
Crash(p) ==
  LET Dead == {c \in Calls : Proc[c] = p /\ call[c] # "start"}
  IN  /\ \E c \in Dead : call[c] # "settled" \/ body[c] = "running"
      /\ remote' \in {remote \cup {p}, remote \ {p}}
      /\ call' = [c \in Calls |-> IF c \in Dead THEN "settled" ELSE call[c]]
      /\ body' = [c \in Calls |-> IF c \in Dead THEN "ended" ELSE body[c]]
      /\ mutexes' = [mutexes EXCEPT ![p] = [k \in Keys |-> NoCall]]
      /\ UNCHANGED <<remoteVars, locked, queue, using>>

-----------------------------------------------------------------------------
CallStep(c) ==
  Lock(c) \/ LockFails(c) \/ BodyEnds(c) \/ Unlock(c) \/ Acquire(c) \/ Release(c)

Next ==
  \/ \E c \in Calls : CallStep(c) \/ ExtendFails(c)
  \/ \E k \in Keys : Expire(k)
  \/ \E p \in Procs : Crash(p)

Spec == Init /\ [][Next]_vars

\* While a call can take a step some call does: calls are made, the functions they
\* are given end, and event loops run what is due.  Nothing need fail or expire.
FairSpec == Spec /\ WF_vars(\E c \in Calls : CallStep(c))

-----------------------------------------------------------------------------
(* Properties                                                              *)

\* AsyncMutex: "only one caller holds the lock at a time", though idle mutexes are
\* evicted and created anew while calls come and go.
LocalExclusive ==
  \A c, d \in Calls :
    /\ ~Far(c) /\ ~Far(d) /\ Proc[c] = Proc[d] /\ Key[c] = Key[d]
    /\ body[c] = "running" /\ body[d] = "running"
    => c = d

\* With Redis two functions run under one key only if a lock was lost: no call
\* frees or takes over a lock that another holds.
LossExplainsOverlap ==
  \A c, d \in Calls :
    /\ Far(c) /\ Far(d) /\ c # d /\ Key[c] = Key[d]
    /\ body[c] = "running" /\ body[d] = "running"
    => c \in lost \/ d \in lost

\* "entries are evicted as soon as they go idle": a mutex in the map is locked.
EvictedWhenIdle ==
  \A p \in Procs, k \in Keys : mutexes[p][k] # NoCall => mutexes[p][k] \in locked

\* The short-lived mutexes of the map act together as one lock per process and key
\* that serves the calls in the order they came, whichever of them made the mutex.
Turns == INSTANCE FifoLock WITH
  waiting <- [p \in Procs |-> [k \in Keys |->
                IF mutexes[p][k] = NoCall THEN <<>> ELSE queue[mutexes[p][k]]]],
  inside <- {c \in Calls : ~Far(c) /\ body[c] = "running"}

ImplementsFifoLock == Turns!Spec

\* Every call of withLock settles: no waiter is forgotten in a queue.
CallsSettle == \A c \in Calls : <>(call[c] = "settled")
=============================================================================
