----------------------------- MODULE LockProofs -----------------------------
(***************************************************************************)
(* Proofs about LockService, for any calls, processes and keys: with Redis *)
(* a running function is explained by its token (Tokens), without it by    *)
(* the mutex in its process's map (Registered, Users, Queues), and the     *)
(* mutexes of the map implement FifoLock.                                  *)
(***************************************************************************)
EXTENDS LockService, Naturals, TLAPS

Site(c) == mutexes[Proc[c]][Key[c]]
Same(c, d) == Proc[c] = Proc[d] /\ Key[c] = Key[d]
Waits(c) == ~Far(c) /\ call[c] = "queued"
Holds(c) == ~Far(c) /\ call[c] = "inside"

\* A call that is still to be made has left no trace.
Fresh ==
  \A c \in Calls : call[c] = "start" => body[c] = "none" /\ c \notin locked /\ queue[c] = <<>>

\* A function whose lock was not lost runs under its own token.
Tokens ==
  \A c \in Calls :
    /\ Far(c) /\ body[c] = "running" /\ c \notin lost => redis[Key[c]] = c
    /\ call[c] = "unlocking" => body[c] # "running" \/ c \in lost

\* A mutex in the map is locked and was made by a call of that process and key.
Registered ==
  \A p \in Procs, k \in Keys :
    LET m == mutexes[p][k]
    IN  m # NoCall => m \in locked /\ Proc[m] = p /\ Key[m] = k

\* Everyone who waits or holds uses the mutex in the map, and one holds.
Users ==
  /\ \A c \in Calls : Waits(c) \/ Holds(c) => Site(c) = using[c] /\ using[c] # NoCall
  /\ \A c, d \in Calls : Holds(c) /\ Holds(d) /\ Same(c, d) => c = d
  /\ \A c \in Calls : ~Far(c) /\ body[c] = "running" => call[c] = "inside"

\* The queue of a mutex in the map holds those who wait for it, each once.
Queues ==
  /\ \A c \in Calls : Waits(c) => \E i \in 1 .. Len(queue[using[c]]) : queue[using[c]][i] = c
  /\ \A m \in Calls : Site(m) = m =>
       /\ \A i \in 1 .. Len(queue[m]) : Waits(queue[m][i]) /\ Same(queue[m][i], m)
       /\ \A i, j \in 1 .. Len(queue[m]) : queue[m][i] = queue[m][j] => i = j

Mutexes == Registered /\ Users /\ Queues
IInv == TypeOK /\ Fresh /\ Tokens /\ Mutexes

LEMMA InitIInv == Init => IInv
  BY LockConstants DEF Init, IInv, TypeOK, Fresh, Tokens, Mutexes, Registered, Users, Queues,
     Waits, Holds, Far, Site

-----------------------------------------------------------------------------
\* What a step of release works on.
LEMMA ReleaseParts ==
  ASSUME IInv, NEW c \in Calls, Release(c)
  PROVE  /\ Holds(c)
         /\ using[c] \in Calls /\ using[c] = Site(c) /\ Site(using[c]) = using[c]
         /\ Same(using[c], c) /\ queue[using[c]] \in Seq(Calls)
         /\ queue[using[c]] # <<>> =>
              LET next == Head(queue[using[c]])
              IN  next \in Calls /\ next = queue[using[c]][1] /\ Waits(next) /\ Same(next, c)
<1> DEFINE m == using[c]
<1>1. Holds(c) /\ m = Site(c) /\ m # NoCall
  BY DEF Release, Holds, IInv, Mutexes, Users
<1>2. m \in Calls /\ queue[m] \in Seq(Calls) /\ Proc[c] \in Procs /\ Key[c] \in Keys
  BY <1>1, LockConstants DEF IInv, TypeOK
<1>3. Same(m, c) /\ Site(m) = m
  BY <1>1, <1>2 DEF IInv, Mutexes, Registered, Same, Site
<1>4. ASSUME queue[m] # <<>>
      PROVE  LET next == Head(queue[m])
             IN  next \in Calls /\ next = queue[m][1] /\ Waits(next) /\ Same(next, c)
  <2>1. 1 \in 1 .. Len(queue[m]) /\ Head(queue[m]) = queue[m][1] /\ queue[m][1] \in Calls
    BY <1>2, <1>4
  <2>2. Waits(queue[m][1]) /\ Same(queue[m][1], m)
    BY <1>2, <1>3, <2>1 DEF IInv, Mutexes, Queues
  <2> QED
    BY <1>3, <2>1, <2>2 DEF Same
<1> QED
  BY <1>1, <1>2, <1>3, <1>4

LEMMA TypeStep == ASSUME IInv, [Next]_vars PROVE TypeOK' /\ Fresh'
<1> USE LockConstants
<1>0. TypeOK /\ Fresh
  BY DEF IInv
<1>1. ASSUME NEW c \in Calls,
             Lock(c) \/ LockFails(c) \/ BodyEnds(c) \/ ExtendFails(c) \/ Unlock(c)
      PROVE  TypeOK' /\ Fresh'
  <2>1. UNCHANGED localVars /\ remote' = remote
    BY <1>1 DEF Lock, LockFails, BodyEnds, ExtendFails, Unlock
  <2>2. redis' = redis \/ redis' = [redis EXCEPT ![Key[c]] = c]
        \/ redis' = [redis EXCEPT ![Key[c]] = NoCall]
    BY <1>1 DEF Lock, LockFails, BodyEnds, ExtendFails, Unlock, remoteVars
  <2>3. lost' \subseteq Calls
    BY <1>0, <1>1 DEF Lock, LockFails, BodyEnds, ExtendFails, Unlock, remoteVars, TypeOK
  <2>4. \/ call' = call /\ call[c] # "start"
        \/ \E to \in {"inside", "unlocking", "settled"} : call' = [call EXCEPT ![c] = to]
    BY <1>0, <1>1 DEF Lock, LockFails, BodyEnds, ExtendFails, Unlock, Settle, Fresh
  <2>5. \E to \in {"running", "ended"} : body' = body \/ body' = [body EXCEPT ![c] = to]
    BY <1>1 DEF Lock, LockFails, BodyEnds, ExtendFails, Unlock
  <2>6. TypeOK'
    <3>1. /\ redis' \in [Keys -> Calls \cup {NoCall}]
          /\ \A k \in Keys : redis'[k] # NoCall => Key[redis'[k]] = k
      <4>0. Key[c] \in Keys /\ c # NoCall /\ redis \in [Keys -> Calls \cup {NoCall}]
            /\ \A k \in Keys : redis[k] # NoCall => Key[redis[k]] = k
        BY <1>0 DEF TypeOK
      <4>1. CASE redis' = redis
        BY <4>0, <4>1
      <4>2. CASE redis' = [redis EXCEPT ![Key[c]] = c]
        BY <4>0, <4>2
      <4>3. CASE redis' = [redis EXCEPT ![Key[c]] = NoCall]
        BY <4>0, <4>3
      <4> QED
        BY <2>2, <4>1, <4>2, <4>3
    <3>2. call' \in [Calls -> {"start", "queued", "inside", "unlocking", "settled"}]
      BY <1>0, <2>4 DEF TypeOK
    <3>3. body' \in [Calls -> {"none", "running", "ended"}]
      BY <1>0, <2>5 DEF TypeOK
    <3> QED
      BY <1>0, <2>1, <2>3, <3>1, <3>2, <3>3 DEF TypeOK, localVars
  <2>7. Fresh'
    BY <1>0, <2>1, <2>4, <2>5 DEF TypeOK, Fresh, localVars
  <2> QED
    BY <2>6, <2>7
<1>2. ASSUME NEW k \in Keys, Expire(k) PROVE TypeOK' /\ Fresh'
  BY SMTT(30), <1>0, <1>2 DEF Expire, TypeOK, Fresh, localVars
<1>3. ASSUME NEW c \in Calls, Acquire(c) PROVE TypeOK' /\ Fresh'
  <2> DEFINE m == IF Site(c) = NoCall THEN c ELSE Site(c)
  <2>1. m \in Calls /\ Proc[c] \in Procs /\ Key[c] \in Keys /\ call[c] = "start"
    BY <1>0, <1>3 DEF TypeOK, Site, Acquire
  <2>2. /\ mutexes' = [mutexes EXCEPT ![Proc[c]][Key[c]] = m]
        /\ using' = [using EXCEPT ![c] = m] /\ locked' = locked \cup {m}
        /\ UNCHANGED <<remote, redis, lost>>
    BY SMTT(30), <1>3 DEF Acquire, Site, remoteVars
  <2>3. \/ /\ m \in locked /\ queue' = [queue EXCEPT ![m] = Append(queue[m], c)]
           /\ call' = [call EXCEPT ![c] = "queued"] /\ body' = body
        \/ /\ call' = [call EXCEPT ![c] = "inside"] /\ body' = [body EXCEPT ![c] = "running"]
           /\ queue' = queue
    BY <1>3 DEF Acquire, Site
  <2>4. m # c => call[m] # "start"
    <3>1. m # c => m \in locked
      BY <2>1 DEF IInv, Mutexes, Registered, Site
    <3> QED
      BY <1>0, <2>1, <3>1 DEF Fresh
  <2> HIDE DEF m
  <2>5. TypeOK'
    <3>1. mutexes' \in [Procs -> [Keys -> Calls \cup {NoCall}]] /\ using' \in [Calls -> Calls \cup {NoCall}]
      BY <1>0, <2>1, <2>2 DEF TypeOK
    <3>2. Append(queue[m], c) \in Seq(Calls)
      BY <1>0, <2>1 DEF TypeOK
    <3>3. queue' \in [Calls -> Seq(Calls)] /\ \A n \in Calls : queue'[n] # <<>> => n \in locked'
      <4>1. queue \in [Calls -> Seq(Calls)] /\ \A n \in Calls : queue[n] # <<>> => n \in locked
        BY <1>0 DEF TypeOK
      <4>2. CASE queue' = [queue EXCEPT ![m] = Append(queue[m], c)]
        BY <2>1, <2>2, <3>2, <4>1, <4>2
      <4>3. CASE queue' = queue
        BY <2>2, <4>1, <4>3
      <4> QED
        BY <2>3, <4>2, <4>3
    <3>4. /\ call' \in [Calls -> {"start", "queued", "inside", "unlocking", "settled"}]
          /\ body' \in [Calls -> {"none", "running", "ended"}]
      BY <1>0, <2>3 DEF TypeOK
    <3> QED
      BY <1>0, <2>1, <2>2, <3>1, <3>3, <3>4 DEF TypeOK
  <2>6. Fresh'
    BY <1>0, <2>1, <2>2, <2>3, <2>4 DEF TypeOK, Fresh
  <2> QED
    BY <2>5, <2>6
<1>4. ASSUME NEW c \in Calls, Release(c) PROVE TypeOK' /\ Fresh'
  <2> DEFINE m == using[c]
             next == Head(queue[m])
  <2>1. m \in Calls /\ queue[m] \in Seq(Calls) /\ call[c] = "inside" /\ m \in locked
    BY <1>4, ReleaseParts DEF Holds, IInv, Mutexes, Registered, Same, Site
  <2>2. CASE queue[m] # <<>>
    <3>1. next \in Calls /\ call[next] = "queued" /\ Tail(queue[m]) \in Seq(Calls)
      BY <1>4, <2>1, <2>2, ReleaseParts DEF Waits
    <3>2. /\ queue' = [queue EXCEPT ![m] = Tail(queue[m])]
          /\ call' = [call EXCEPT ![c] = "settled", ![next] = "inside"]
          /\ body' = [body EXCEPT ![c] = "ended", ![next] = "running"]
          /\ UNCHANGED <<remote, mutexes, locked, using, redis, lost>>
      BY <1>4, <2>2 DEF Release, HandOver, remoteVars
    <3> HIDE DEF next
    <3>3. TypeOK'
      BY <1>0, <2>1, <3>1, <3>2 DEF TypeOK
    <3>4. Fresh'
      BY <1>0, <2>1, <2>2, <3>1, <3>2 DEF TypeOK, Fresh
    <3> QED
      BY <3>3, <3>4
  <2>3. CASE queue[m] = <<>>
    <3>1. /\ locked' = locked \ {m} /\ queue' = queue
          /\ call' = [call EXCEPT ![c] = "settled"] /\ body' = [body EXCEPT ![c] = "ended"]
          /\ UNCHANGED <<remote, using, redis, lost>>
      BY <1>4, <2>3 DEF Release, GoIdle, Settle, remoteVars
    <3>2. mutexes' \in [Procs -> [Keys -> Calls \cup {NoCall}]]
      <4>1. mutexes' = mutexes \/ mutexes' = [mutexes EXCEPT ![Proc[c]][Key[c]] = NoCall]
        BY <1>4, <2>3 DEF Release, GoIdle
      <4>2. mutexes \in [Procs -> [Keys -> Calls \cup {NoCall}]]
        BY <1>0 DEF TypeOK
      <4>3. CASE mutexes' = [mutexes EXCEPT ![Proc[c]][Key[c]] = NoCall]
        BY <4>2, <4>3
      <4> QED
        BY <4>1, <4>2, <4>3
    <3>3. TypeOK'
      BY <1>0, <2>1, <2>3, <3>1, <3>2 DEF TypeOK
    <3>4. Fresh'
      BY <1>0, <2>1, <3>1 DEF TypeOK, Fresh
    <3> QED
      BY <3>3, <3>4
  <2> QED
    BY <2>2, <2>3
<1>5. ASSUME NEW p \in Procs, Crash(p) PROVE TypeOK' /\ Fresh'
  BY <1>0, <1>5 DEF Crash, TypeOK, Fresh, remoteVars
<1>6. CASE UNCHANGED vars
  BY <1>0, <1>6 DEF vars, remoteVars, localVars, TypeOK, Fresh
<1> QED
  BY <1>1, <1>2, <1>3, <1>4, <1>5, <1>6 DEF Next, CallStep

LEMMA TokensStep == ASSUME IInv, [Next]_vars PROVE Tokens'
<1> USE LockConstants DEF Far
<1>0. TypeOK /\ Fresh /\ Tokens
  BY DEF IInv
<1>1. ASSUME NEW c \in Calls, Lock(c) PROVE Tokens'
  BY <1>0, <1>1 DEF Lock, TypeOK, Tokens
<1>2. ASSUME NEW c \in Calls, LockFails(c) PROVE Tokens'
  BY <1>0, <1>2 DEF LockFails, Settle, TypeOK, Tokens
<1>3. ASSUME NEW c \in Calls, BodyEnds(c) PROVE Tokens'
  <2>1. \A d \in Calls : body'[d] = "running" => body[d] = "running" /\ d # c
    BY <1>0, <1>3 DEF BodyEnds, TypeOK
  <2>2. \A d \in Calls : d # c => call'[d] = call[d]
    BY <1>0, <1>3 DEF BodyEnds, TypeOK
  <2> QED
    BY <1>0, <1>3, <2>1, <2>2 DEF BodyEnds, remoteVars, Tokens
<1>4. ASSUME NEW c \in Calls, ExtendFails(c) PROVE Tokens'
  BY <1>0, <1>4 DEF ExtendFails, TypeOK, Tokens
<1>5. ASSUME NEW c \in Calls, Unlock(c) PROVE Tokens'
  <2>1. CASE UNCHANGED redis
    BY <1>0, <1>5, <2>1 DEF Unlock, Settle, TypeOK, Tokens
  <2>2. CASE redis[Key[c]] = c /\ redis' = [redis EXCEPT ![Key[c]] = NoCall]
    BY <1>0, <1>5, <2>2 DEF Unlock, Settle, TypeOK, Tokens
  <2> QED
    BY <1>5, <2>1, <2>2 DEF Unlock
<1>6. ASSUME NEW k \in Keys, Expire(k) PROVE Tokens'
  BY <1>0, <1>6 DEF Expire, TypeOK, Tokens
<1>7. ASSUME NEW c \in Calls, Acquire(c) PROVE Tokens'
  <2>1. ~Far(c) /\ UNCHANGED <<remote, redis, lost>> /\ call[c] = "start"
    BY <1>7 DEF Acquire, remoteVars
  <2>2. /\ body' = body \/ body' = [body EXCEPT ![c] = "running"]
        /\ call' = [call EXCEPT ![c] = "queued"] \/ call' = [call EXCEPT ![c] = "inside"]
    BY <1>7 DEF Acquire
  <2> QED
    BY <1>0, <2>1, <2>2 DEF TypeOK, Tokens
<1>8. ASSUME NEW c \in Calls, Release(c) PROVE Tokens'
  <2> DEFINE next == Head(queue[using[c]])
  <2>0. /\ ~Far(c)
        /\ \/ /\ next \in Calls /\ ~Far(next)
              /\ call' = [call EXCEPT ![c] = "settled", ![next] = "inside"]
              /\ body' = [body EXCEPT ![c] = "ended", ![next] = "running"]
           \/ call' = [call EXCEPT ![c] = "settled"] /\ body' = [body EXCEPT ![c] = "ended"]
    <3>1. CASE queue[using[c]] # <<>>
      <4>1. next \in Calls /\ Waits(next) /\ Holds(c)
        BY <1>8, <3>1, ReleaseParts
      <4> QED
        BY <1>8, <3>1, <4>1 DEF Release, HandOver, Waits, Holds
    <3>2. CASE queue[using[c]] = <<>>
      BY <1>8, <3>2 DEF Release, GoIdle, Settle
    <3> QED
      BY <3>1, <3>2
  <2> HIDE DEF next
  <2>1. \A d \in Calls : Far(d) => body'[d] = body[d] /\ call'[d] = call[d]
    BY <1>0, <2>0 DEF TypeOK
  <2>2. \A d \in Calls : call'[d] = "unlocking" => call[d] = "unlocking" /\ body'[d] = body[d]
    BY <1>0, <2>0 DEF TypeOK
  <2>3. UNCHANGED <<remote, redis, lost>>
    BY <1>8 DEF Release, remoteVars
  <2> QED
    BY <1>0, <2>1, <2>2, <2>3 DEF Tokens
<1>9. ASSUME NEW p \in Procs, Crash(p) PROVE Tokens'
  <2>1. \A c \in Calls : body'[c] = "running" => body[c] = "running" /\ Proc[c] # p
    BY <1>0, <1>9 DEF Crash, Fresh
  <2>2. \A c \in Calls : Proc[c] # p => (Far(c)' <=> Far(c)) /\ call'[c] = call[c]
    BY <1>9 DEF Crash
  <2> QED
    BY <1>0, <1>9, <2>1, <2>2 DEF Crash, remoteVars, Tokens
<1>10. CASE UNCHANGED vars
  BY <1>0, <1>10 DEF vars, remoteVars, Tokens
<1> QED
  BY <1>1, <1>2, <1>3, <1>4, <1>5, <1>6, <1>7, <1>8, <1>9, <1>10 DEF Next, CallStep

-----------------------------------------------------------------------------
(* The mutexes                                                             *)

\* Steps that leave the mutexes and those who use them alone.
LEMMA Elsewhere ==
  ASSUME TypeOK, Mutexes, UNCHANGED <<remote, localVars>>,
         \A c \in Calls : ~Far(c) => (call'[c] = "queued" <=> call[c] = "queued"),
         \A c \in Calls : ~Far(c) => (call'[c] = "inside" <=> call[c] = "inside"),
         \A c \in Calls : ~Far(c) /\ body'[c] = "running" => body[c] = "running"
  PROVE  Mutexes'
<1>0. \A c \in Calls : Far(c)' <=> Far(c)
  BY DEF Far
<1>1. \A c \in Calls : (Waits(c)' <=> Waits(c)) /\ (Holds(c)' <=> Holds(c))
  <2> TAKE c \in Calls
  <2>1. CASE Far(c)
    BY <1>0, <2>1 DEF Waits, Holds
  <2>2. CASE ~Far(c)
    <3>1. (call'[c] = "queued" <=> call[c] = "queued") /\ (call'[c] = "inside" <=> call[c] = "inside")
      BY <2>2
    <3> QED
      BY <1>0, <2>2, <3>1 DEF Waits, Holds
  <2> QED
    BY <2>1, <2>2
<1>2. Registered'
  BY DEF Mutexes, Registered, localVars
<1>3. Users'
  BY <1>1 DEF Mutexes, Users, Site, localVars, Far, Holds, Same
<1>4. Queues'
  <2>1. \A c \in Calls : Site(c)' = Site(c)
    BY DEF Site, localVars
  <2>2. queue' = queue /\ using' = using
    BY DEF localVars
  <2>3. \A m \in Calls : \A i \in 1 .. Len(queue[m]) : queue[m][i] \in Calls
    BY DEF TypeOK
  <2> QED
    BY <1>1, <2>1, <2>2, <2>3 DEF Mutexes, Queues, Same
<1> QED
  BY <1>2, <1>3, <1>4 DEF Mutexes

LEMMA AcquireStep == ASSUME IInv, NEW c \in Calls, Acquire(c) PROVE Mutexes'
<1> USE LockConstants
<1>0. TypeOK /\ Fresh /\ Registered /\ Users /\ Queues
  BY DEF IInv, Mutexes
<1>1. /\ call[c] = "start" /\ ~Far(c) /\ c \notin locked /\ queue[c] = <<>>
      /\ Proc[c] \in Procs /\ Key[c] \in Keys /\ remote' = remote
  BY <1>0 DEF Acquire, Fresh
<1>2. CASE Site(c) = NoCall
  <2>1. /\ mutexes' = [mutexes EXCEPT ![Proc[c]][Key[c]] = c] /\ using' = [using EXCEPT ![c] = c]
        /\ locked' = locked \cup {c} /\ queue' = queue
        /\ call' = [call EXCEPT ![c] = "inside"] /\ body' = [body EXCEPT ![c] = "running"]
    BY <1>1, <1>2 DEF Acquire, Site
  <2>2. \A d \in Calls : Same(c, d) => ~Waits(d) /\ ~Holds(d)
    BY <1>0, <1>2 DEF Users, Site, Same
  <2>3. \A d \in Calls : Site(d)' = IF Same(c, d) THEN c ELSE Site(d)
    BY <1>0, <1>1, <2>1 DEF TypeOK, Site, Same
  <2>4. \A d \in Calls : (Waits(d)' <=> Waits(d)) /\ (Holds(d)' <=> Holds(d) \/ d = c)
    BY <1>0, <1>1, <2>1 DEF TypeOK, Waits, Holds, Far
  <2>5. Registered'
    BY <1>0, <1>1, <2>1 DEF TypeOK, Registered
  <2>6. Users'
    BY ZenonT(30), <1>0, <1>1, <2>1, <2>2, <2>3, <2>4 DEF TypeOK, Users, Same, Far
  <2>7. Queues'
    <3>1. \A d \in Calls : Waits(d) => using'[d] = using[d]
      BY <1>0, <1>1, <2>1 DEF TypeOK, Waits
    <3>2. \A m \in Calls : Site(m)' = m => m = c \/ Site(m) = m
      BY <2>3
    <3>3. \A m \in Calls : \A i \in 1 .. Len(queue[m]) : queue[m][i] \in Calls
      BY <1>0 DEF TypeOK
    <3>4. \A i \in 1 .. Len(queue[c]) : FALSE
      BY <1>1
    <3> QED
      BY <1>0, <2>1, <2>4, <3>1, <3>2, <3>3, <3>4 DEF Queues, Same
  <2> QED
    BY <2>5, <2>6, <2>7 DEF Mutexes
<1>3. CASE Site(c) # NoCall
  <2> DEFINE m == Site(c)
  <2>1. m \in Calls /\ m \in locked /\ Same(m, c) /\ Site(m) = m
    BY SMTT(30), <1>0, <1>1, <1>3 DEF TypeOK, Registered, Site, Same
  <2>2. /\ mutexes' = [mutexes EXCEPT ![Proc[c]][Key[c]] = m] /\ using' = [using EXCEPT ![c] = m]
        /\ locked' = locked \cup {m} /\ queue' = [queue EXCEPT ![m] = Append(queue[m], c)]
        /\ call' = [call EXCEPT ![c] = "queued"] /\ body' = body
    BY <1>1, <1>3, <2>1 DEF Acquire, Site
  <2>3. mutexes' = mutexes /\ locked' = locked
    <3>1. mutexes[Proc[c]] = [mutexes[Proc[c]] EXCEPT ![Key[c]] = m]
      BY <1>0, <1>1 DEF TypeOK, Site
    <3> QED
      BY <1>0, <1>1, <2>1, <2>2, <3>1 DEF TypeOK
  <2> HIDE DEF m
  <2>4. \A d \in Calls : Site(d)' = Site(d)
    BY <2>3 DEF Site
  <2>5. \A d \in Calls : (Waits(d)' <=> Waits(d) \/ d = c) /\ (Holds(d)' <=> Holds(d))
    BY <1>0, <1>1, <2>2 DEF TypeOK, Waits, Holds, Far
  <2>6. Registered'
    BY <1>0, <1>1, <2>3 DEF Registered
  <2>7. Users'
    BY <1>0, <1>1, <1>3, <2>2, <2>4, <2>5 DEF TypeOK, Users, Same, Far, m, Fresh
  <2>8. Queues'
    <3>1. queue[m] \in Seq(Calls) /\ queue'[m] = Append(queue[m], c)
          /\ \A n \in Calls \ {m} : queue'[n] = queue[n]
      BY <1>0, <2>1, <2>2 DEF TypeOK
    <3>2. /\ Len(queue'[m]) = Len(queue[m]) + 1 /\ queue'[m][Len(queue[m]) + 1] = c
          /\ \A i \in 1 .. Len(queue[m]) : queue'[m][i] = queue[m][i] /\ queue[m][i] \in Calls
      BY <3>1
    <3>3. \A i \in 1 .. Len(queue[m]) : queue[m][i] # c
      BY <1>0, <1>1, <2>1 DEF Queues, Waits
    <3>4. \A d \in Calls : Waits(d)' =>
            \E i \in 1 .. Len(queue'[using'[d]]) : queue'[using'[d]][i] = d
      <4>1. ASSUME NEW d \in Calls, Waits(d)', d # c
            PROVE  \E i \in 1 .. Len(queue'[using'[d]]) : queue'[using'[d]][i] = d
        <5>1. Waits(d) /\ using'[d] = using[d] /\ using[d] \in Calls
          BY <1>0, <2>2, <2>5, <4>1 DEF TypeOK, Users
        <5>2. PICK i \in 1 .. Len(queue[using[d]]) : queue[using[d]][i] = d
          BY <1>0, <5>1 DEF Queues
        <5>3. CASE using[d] = m
          BY <3>1, <3>2, <5>1, <5>2, <5>3
        <5>4. CASE using[d] # m
          BY <3>1, <5>1, <5>2, <5>4
        <5> QED
          BY <5>3, <5>4
      <4>2. using'[c] = m /\ Len(queue[m]) + 1 \in 1 .. Len(queue'[m])
        BY <1>0, <2>2, <3>1, <3>2 DEF TypeOK
      <4> QED
        BY <3>2, <4>1, <4>2
    <3>5. ASSUME NEW n \in Calls, Site(n)' = n
          PROVE  /\ \A i \in 1 .. Len(queue'[n]) : Waits(queue[n][i])' /\ Same(queue[n][i], n)'
                 /\ \A i, j \in 1 .. Len(queue'[n]) : queue'[n][i] = queue'[n][j] => i = j
      <4>1. Site(n) = n /\ queue[n] \in Seq(Calls)
        BY <1>0, <2>4, <3>5 DEF TypeOK
      <4>2. /\ \A i \in 1 .. Len(queue[n]) : Waits(queue[n][i]) /\ Same(queue[n][i], n)
            /\ \A i, j \in 1 .. Len(queue[n]) : queue[n][i] = queue[n][j] => i = j
        BY <1>0, <4>1 DEF Queues
      <4>3. \A i \in 1 .. Len(queue[n]) : queue[n][i] \in Calls
        BY <4>1
      <4>4. CASE n # m
        BY <2>5, <3>1, <4>2, <4>3, <4>4
      <4>5. CASE n = m
        <5>1. Same(c, m)
          BY <2>1 DEF Same
        <5>2. \A i \in 1 .. Len(queue'[m]) : i = Len(queue[m]) + 1 \/ i \in 1 .. Len(queue[m])
          BY <3>1, <3>2
        <5>3. \A i \in 1 .. Len(queue'[n]) : Waits(queue[n][i])' /\ Same(queue[n][i], n)'
          <6> TAKE i \in 1 .. Len(queue'[n])
          <6>1. CASE i = Len(queue[m]) + 1
            BY <2>5, <3>2, <4>5, <5>1, <6>1 DEF Same
          <6>2. CASE i \in 1 .. Len(queue[m])
            BY <2>5, <3>2, <4>2, <4>5, <6>2 DEF Same
          <6> QED
            BY <4>5, <5>2, <6>1, <6>2
        <5>4. \A i, j \in 1 .. Len(queue'[n]) : queue'[n][i] = queue'[n][j] => i = j
          BY <3>2, <3>3, <4>2, <4>5, <5>2
        <5> QED
          BY <5>3, <5>4
      <4> QED
        BY <4>4, <4>5
    <3> QED
      BY <3>4, <3>5 DEF Queues, Same
  <2> QED
    BY <2>6, <2>7, <2>8 DEF Mutexes
<1> QED
  BY <1>2, <1>3

LEMMA ReleaseStep == ASSUME IInv, NEW c \in Calls, Release(c) PROVE Mutexes'
<1> USE LockConstants
<1> DEFINE m == using[c]
<1>0. TypeOK /\ Registered /\ Users /\ Queues
  BY DEF IInv, Mutexes
<1>1. /\ Holds(c) /\ m \in Calls /\ m = Site(c) /\ Site(m) = m /\ Same(m, c)
      /\ queue[m] \in Seq(Calls) /\ Proc[c] \in Procs /\ Key[c] \in Keys
  BY ReleaseParts
<1>2. UNCHANGED <<remote, using>> /\ \A d \in Calls : Far(d)' <=> Far(d)
  BY DEF Release, Far
<1>3. CASE queue[m] # <<>>
  <2> DEFINE next == Head(queue[m])
  <2>1. next \in Calls /\ next = queue[m][1] /\ Waits(next) /\ Same(next, c) /\ next # c
    BY <1>1, <1>3, ReleaseParts DEF Waits, Holds
  <2>2. /\ queue' = [queue EXCEPT ![m] = Tail(queue[m])]
        /\ call' = [call EXCEPT ![c] = "settled", ![next] = "inside"]
        /\ body' = [body EXCEPT ![c] = "ended", ![next] = "running"]
        /\ UNCHANGED <<mutexes, locked>>
    BY <1>3 DEF Release, HandOver
  <2>3. /\ queue'[m] = Tail(queue[m]) /\ Tail(queue[m]) \in Seq(Calls)
        /\ \A n \in Calls \ {m} : queue'[n] = queue[n]
    BY <1>0, <1>1, <1>3, <2>2 DEF TypeOK
  <2>4. /\ Len(queue[m]) \in Nat /\ Len(queue'[m]) = Len(queue[m]) - 1
        /\ \A i \in 1 .. Len(queue'[m]) : queue'[m][i] = queue[m][i + 1]
    BY <1>1, <1>3, <2>3
  <2> HIDE DEF next
  <2>5. \A d \in Calls : /\ Waits(d)' <=> Waits(d) /\ d # next
                         /\ Holds(d)' <=> (Holds(d) /\ d # c) \/ d = next
                         /\ body'[d] = "running" => (body[d] = "running" /\ d # c) \/ d = next
    BY <1>0, <1>1, <1>2, <2>1, <2>2 DEF TypeOK, Waits, Holds
  <2>6. \A d \in Calls : Site(d)' = Site(d)
    BY <2>2 DEF Site
  <2>7. Registered'
    BY <1>0, <2>2 DEF Registered
  <2>8. Users'
    <3>1. \A d \in Calls : Waits(d)' \/ Holds(d)' => Site(d)' = using'[d] /\ using'[d] # NoCall
      BY <1>0, <1>2, <2>1, <2>5, <2>6 DEF Users
    <3>2. \A d, e \in Calls : Holds(d)' /\ Holds(e)' /\ Same(d, e) => d = e
      BY <1>0, <1>1, <2>1, <2>5 DEF Users, Same
    <3>3. \A d \in Calls : ~Far(d)' /\ body'[d] = "running" => call'[d] = "inside"
      BY <1>0, <1>2, <2>1, <2>2, <2>5 DEF Users, TypeOK
    <3> QED
      BY <3>1, <3>2, <3>3 DEF Users, Same
  <2>9. Queues'
    <3>1. ASSUME NEW d \in Calls, Waits(d)'
          PROVE  \E i \in 1 .. Len(queue'[using'[d]]) : queue'[using'[d]][i] = d
      <4>1. Waits(d) /\ d # next /\ using'[d] = using[d] /\ using[d] \in Calls
        BY <1>0, <1>2, <2>5, <3>1 DEF TypeOK, Users
      <4>2. PICK i \in 1 .. Len(queue[using[d]]) : queue[using[d]][i] = d
        BY <1>0, <4>1 DEF Queues
      <4>3. CASE using[d] = m
        <5>1. i # 1 /\ i - 1 \in 1 .. Len(queue'[m])
          BY <2>1, <2>4, <4>1, <4>2, <4>3
        <5>2. queue'[m][i - 1] = queue[m][(i - 1) + 1] /\ (i - 1) + 1 = i
          BY <2>4, <5>1
        <5>3. queue'[m][i - 1] = d /\ using'[d] = m
          BY <4>1, <4>2, <4>3, <5>2
        <5> HIDE DEF m
        <5> QED
          BY <5>1, <5>3
      <4>4. CASE using[d] # m
        BY <2>3, <4>1, <4>2, <4>4
      <4> QED
        BY <4>3, <4>4
    <3>2. ASSUME NEW n \in Calls, Site(n)' = n
          PROVE  /\ \A i \in 1 .. Len(queue'[n]) : Waits(queue[n][i])' /\ Same(queue[n][i], n)'
                 /\ \A i, j \in 1 .. Len(queue'[n]) : queue'[n][i] = queue'[n][j] => i = j
      <4>1. Site(n) = n /\ queue[n] \in Seq(Calls)
        BY <1>0, <2>6, <3>2 DEF TypeOK
      <4>2. /\ \A i \in 1 .. Len(queue[n]) : queue[n][i] \in Calls
            /\ \A i \in 1 .. Len(queue[n]) : Waits(queue[n][i]) /\ Same(queue[n][i], n)
            /\ \A i, j \in 1 .. Len(queue[n]) : queue[n][i] = queue[n][j] => i = j
        BY <1>0, <4>1 DEF Queues
      <4>3. CASE n = m
        <5>1. \A i \in 1 .. Len(queue'[n]) :
                 i + 1 \in 1 .. Len(queue[n]) /\ queue'[n][i] = queue[n][i + 1] /\ i + 1 # 1
          BY <2>4, <4>3
        <5>2. \A i \in 1 .. Len(queue'[n]) : queue[n][i + 1] # next
          BY <2>1, <4>2, <4>3, <5>1
        <5>3. ASSUME NEW i \in 1 .. Len(queue'[n])
              PROVE  Waits(queue[n][i])' /\ Same(queue[n][i], n)'
          <6>1. PICK d \in Calls : d = queue[n][i + 1] /\ d = queue'[n][i] /\ Waits(d)
                                  /\ d # next /\ Same(d, n)
            BY <4>2, <5>1, <5>2
          <6>2. Waits(d)' /\ Same(d, n)'
            BY <2>5, <6>1 DEF Same
          <6> QED
            BY <6>1, <6>2
        <5>4. ASSUME NEW i \in 1 .. Len(queue'[n]), NEW j \in 1 .. Len(queue'[n]),
                     queue'[n][i] = queue'[n][j]
              PROVE  i = j
          <6>1. i + 1 = j + 1
            BY SMTT(30), <4>2, <5>1, <5>4
          <6> QED
            BY <2>4, <4>3, <6>1
        <5> QED
          BY <5>3, <5>4
      <4>4. CASE n # m
        <5>1. queue'[n] = queue[n]
          BY <2>3, <4>4
        <5>2. \A i \in 1 .. Len(queue[n]) : queue[n][i] # next
          BY SMTT(30), <1>1, <2>1, <4>1, <4>2, <4>4 DEF Same, Site
        <5>3. \A i \in 1 .. Len(queue'[n]) : Waits(queue[n][i])' /\ Same(queue[n][i], n)'
          BY <2>5, <4>2, <5>1, <5>2 DEF Same
        <5> QED
          BY <4>2, <5>1, <5>3
      <4> QED
        BY <4>3, <4>4
    <3> QED
      BY <3>1, <3>2 DEF Queues, Same
  <2> QED
    BY <2>7, <2>8, <2>9 DEF Mutexes
<1>4. CASE queue[m] = <<>>
  <2>1. /\ mutexes' = [mutexes EXCEPT ![Proc[c]][Key[c]] = NoCall] /\ locked' = locked \ {m}
        /\ call' = [call EXCEPT ![c] = "settled"] /\ body' = [body EXCEPT ![c] = "ended"]
        /\ queue' = queue
    BY <1>1, <1>4 DEF Release, GoIdle, Settle, Site
  <2>2. \A p \in Procs, k \in Keys :
          mutexes'[p][k] = IF p = Proc[c] /\ k = Key[c] THEN NoCall ELSE mutexes[p][k]
    BY <1>0, <1>1, <2>1 DEF TypeOK
  <2>3. \A d \in Calls : Site(d)' = IF Same(d, c) THEN NoCall ELSE Site(d)
    BY <2>2 DEF Site, Same
  <2>4. \A d \in Calls : /\ Waits(d)' <=> Waits(d)
                         /\ Holds(d)' <=> Holds(d) /\ d # c
                         /\ body'[d] = "running" => body[d] = "running" /\ d # c
    BY <1>0, <1>1, <1>2, <2>1 DEF TypeOK, Waits, Holds
  <2>5. \A d \in Calls : Same(d, c) => ~Waits(d)'
    <3> SUFFICES ASSUME NEW d \in Calls, Same(d, c), Waits(d) PROVE FALSE
      BY <2>4
    <3>1. using[d] = m
      BY <1>0, <1>1 DEF Users, Same, Site
    <3> QED
      BY <1>0, <1>4, <3>1 DEF Queues
  <2>6. \A d \in Calls : Same(d, c) => ~Holds(d)'
    BY <1>0, <1>1, <2>4 DEF Users
  <2>7. Registered'
    BY <1>0, <1>1, <2>1, <2>2 DEF TypeOK, Registered, Same, Site
  <2>8. Users'
    <3>1. \A d \in Calls : ~Far(d)' /\ body'[d] = "running" => call'[d] = "inside"
      BY <1>0, <1>2, <2>1, <2>4 DEF Users, TypeOK
    <3> QED
      BY <1>0, <1>2, <2>3, <2>4, <2>5, <2>6, <3>1 DEF Users, Same
  <2>9. Queues'
    <3>1. \A n \in Calls : Site(n)' = n => Site(n) = n
      BY <2>3
    <3>2. \A n \in Calls : \A i \in 1 .. Len(queue[n]) : queue[n][i] \in Calls
      BY <1>0 DEF TypeOK
    <3> QED
      BY <1>0, <1>2, <2>1, <2>4, <3>1, <3>2 DEF Queues, Same
  <2> QED
    BY <2>7, <2>8, <2>9 DEF Mutexes
<1> QED
  BY <1>3, <1>4

LEMMA CrashStep == ASSUME IInv, NEW p \in Procs, Crash(p) PROVE Mutexes'
<1> USE LockConstants
<1>0. TypeOK /\ Fresh /\ Registered /\ Users /\ Queues
  BY DEF IInv, Mutexes
<1>1. /\ UNCHANGED <<locked, queue, using>>
      /\ mutexes' = [mutexes EXCEPT ![p] = [k \in Keys |-> NoCall]]
      /\ \A q \in Procs \ {p} : q \in remote' <=> q \in remote
  BY DEF Crash
<1>2. \A c \in Calls : Proc[c] = p => ~Waits(c)' /\ ~Holds(c)' /\ body'[c] # "running"
  BY <1>0 DEF Crash, Waits, Holds, Fresh
<1>3. \A c \in Calls : Proc[c] # p =>
        /\ (Far(c)' <=> Far(c)) /\ (Waits(c)' <=> Waits(c)) /\ (Holds(c)' <=> Holds(c))
        /\ body'[c] = body[c] /\ call'[c] = call[c] /\ Site(c)' = Site(c)
  BY <1>0, <1>1 DEF Crash, Waits, Holds, Far, Site, TypeOK
<1>4. \A c \in Calls : Proc[c] = p => Site(c)' = NoCall
  BY <1>0, <1>1 DEF Site, TypeOK
<1>5. Registered'
  BY <1>0, <1>1 DEF Registered, TypeOK
<1>6. Users'
  BY <1>0, <1>1, <1>2, <1>3 DEF Users, Same
<1>7. Queues'
  <2>1. \A m \in Calls : \A i \in 1 .. Len(queue[m]) : queue[m][i] \in Calls
    BY <1>0 DEF TypeOK
  <2>2. \A m \in Calls : Site(m)' = m => Proc[m] # p /\ Site(m) = m
    BY <1>3, <1>4
  <2>3. \A c \in Calls : Waits(c)' => Waits(c)
    BY <1>2, <1>3
  <2>4. \A m \in Calls : \A i \in 1 .. Len(queue[m]) :
          Site(m)' = m => Waits(queue[m][i])' /\ Same(queue[m][i], m)'
    BY <1>0, <1>1, <1>3, <2>1, <2>2 DEF Queues, Same
  <2> QED
    BY <1>0, <1>1, <2>2, <2>3, <2>4 DEF Queues
<1> QED
  BY <1>5, <1>6, <1>7 DEF Mutexes

LEMMA NextIInv == IInv /\ [Next]_vars => IInv'
<1> SUFFICES ASSUME IInv, [Next]_vars PROVE Mutexes'
  BY TypeStep, TokensStep DEF IInv
<1>0. TypeOK /\ Mutexes
  BY DEF IInv
<1>1. ASSUME NEW c \in Calls, Lock(c) \/ LockFails(c) \/ BodyEnds(c) \/ ExtendFails(c)
      PROVE  Mutexes'
  <2>1. UNCHANGED <<remote, localVars>> /\ Far(c)
    BY <1>1 DEF Lock, LockFails, BodyEnds, ExtendFails
  <2>2. \A d \in Calls \ {c} : call'[d] = call[d] /\ body'[d] = body[d]
    BY <1>0, <1>1 DEF Lock, LockFails, BodyEnds, ExtendFails, Settle, TypeOK
  <2> QED
    BY <1>0, <2>1, <2>2, Elsewhere
<1>2. ASSUME NEW c \in Calls, Unlock(c) PROVE Mutexes'
  <2>1. /\ call[c] = "unlocking" /\ call' = [call EXCEPT ![c] = "settled"] /\ body' = body
        /\ UNCHANGED <<remote, localVars>>
    BY <1>2 DEF Unlock, Settle
  <2> QED
    BY <1>0, <2>1, Elsewhere DEF TypeOK
<1>3. ASSUME NEW k \in Keys, Expire(k) PROVE Mutexes'
  BY <1>0, <1>3, Elsewhere DEF Expire
<1>4. CASE UNCHANGED vars
  BY <1>0, <1>4, Elsewhere DEF vars
<1> QED
  BY <1>1, <1>2, <1>3, <1>4, AcquireStep, ReleaseStep, CrashStep DEF Next, CallStep

-----------------------------------------------------------------------------
\* TypeOK, with the queues that are empty unless their mutex is locked.
THEOREM TypeCorrect == Spec => []TypeOK
  BY InitIInv, NextIInv, PTL DEF Spec, IInv

\* LocalExclusive: those who run hold the one mutex in the map (Users), which is
\* evicted only when nobody waits in its queue (Queues).
THEOREM OneAtATime == Spec => []LocalExclusive
<1>1. IInv => LocalExclusive
  BY DEF IInv, Mutexes, Users, LocalExclusive, Holds, Same
<1> QED
  BY <1>1, InitIInv, NextIInv, PTL DEF Spec

\* LossExplainsOverlap: a function whose lock was not lost runs under its own token,
\* which nobody else deletes, and a key holds one token (Tokens).
THEOREM OverlapNeedsLoss == Spec => []LossExplainsOverlap
<1>1. IInv => LossExplainsOverlap
  BY DEF IInv, Tokens, LossExplainsOverlap
<1> QED
  BY <1>1, InitIInv, NextIInv, PTL DEF Spec

\* EvictedWhenIdle: what the map holds is locked (Registered).
THEOREM IdleEvicted == Spec => []EvictedWhenIdle
<1>1. IInv => EvictedWhenIdle
  BY DEF IInv, Mutexes, Registered, EvictedWhenIdle
<1> QED
  BY <1>1, InitIInv, NextIInv, PTL DEF Spec
-----------------------------------------------------------------------------
(* The order of the calls                                                  *)

\* Who holds a mutex runs, and a mutex in the map is held: none is left locked
\* with nobody to release it.
Served ==
  /\ \A c \in Calls : Holds(c) => body[c] = "running"
  /\ \A p \in Procs, k \in Keys :
       mutexes[p][k] # NoCall => \E c \in Calls : Holds(c) /\ Proc[c] = p /\ Key[c] = k

\* What the variables of FifoLock stand for.
Line(p, k) == IF mutexes[p][k] = NoCall THEN <<>> ELSE queue[mutexes[p][k]]
Lines == [p \in Procs |-> [k \in Keys |-> Line(p, k)]]
Inside == {c \in Calls : ~Far(c) /\ body[c] = "running"}

\* A key is busy exactly while its mutex is in the map.
LEMMA BusyIsRegistered ==
  ASSUME IInv, Served
  PROVE  /\ \A c \in Calls : c \in Inside <=> Holds(c)
         /\ \A c \in Calls : Turns!Busy(Proc[c], Key[c]) <=> Site(c) # NoCall
<1>1. \A c \in Calls : c \in Inside <=> Holds(c)
  BY DEF IInv, Mutexes, Users, Served, Inside, Holds
<1>2. ASSUME NEW c \in Calls PROVE Turns!Busy(Proc[c], Key[c]) <=> Site(c) # NoCall
  <2>1. Turns!Busy(Proc[c], Key[c]) <=> \E d \in Inside : Proc[d] = Proc[c] /\ Key[d] = Key[c]
    BY DEF Turns!Busy, Inside
  <2>2. \A d \in Calls : Holds(d) /\ Proc[d] = Proc[c] /\ Key[d] = Key[c] => Site(c) # NoCall
    BY DEF IInv, Mutexes, Users, Site
  <2>3. Site(c) # NoCall => \E d \in Calls : Holds(d) /\ Proc[d] = Proc[c] /\ Key[d] = Key[c]
    BY LockConstants DEF Served, Site
  <2>4. Inside \subseteq Calls
    BY DEF Inside
  <2> QED
    BY <1>1, <2>1, <2>2, <2>3, <2>4
<1> QED
  BY <1>1, <1>2

\* Steps that are none of the lock's.
LEMMA QuietStep ==
  ASSUME IInv, Served, UNCHANGED <<remote, localVars>>,
         \A c \in Calls : ~Far(c) => (call'[c] = "inside" <=> call[c] = "inside"),
         \A c \in Calls : ~Far(c) => (body'[c] = "running" <=> body[c] = "running")
  PROVE  Served' /\ UNCHANGED Turns!vars
<1>1. \A c \in Calls : Far(c)' <=> Far(c)
  BY DEF Far
<1>2. \A c \in Calls : Holds(c)' <=> Holds(c)
  BY <1>1 DEF Holds
<1>3. UNCHANGED <<mutexes, queue>>
  BY DEF localVars
<1>4. Served'
  <2>1. \A c \in Calls : Holds(c)' => body'[c] = "running"
    BY <1>2 DEF Served, Holds
  <2> QED
    BY <1>2, <1>3, <2>1 DEF Served
<1>5. Inside' = Inside
  BY <1>1 DEF Inside
<1> QED
  BY <1>3, <1>4, <1>5 DEF Turns!vars, Inside

LEMMA AcquireOrder ==
  ASSUME IInv, Served, NEW c \in Calls, Acquire(c)
  PROVE  Served' /\ Turns!Next
<1> USE LockConstants
<1>0. TypeOK /\ Fresh /\ Registered /\ Users /\ Queues
  BY DEF IInv, Mutexes
<1>1. /\ call[c] = "start" /\ ~Far(c) /\ queue[c] = <<>> /\ ~Holds(c)
      /\ Proc[c] \in Procs /\ Key[c] \in Keys /\ remote' = remote
  BY <1>0 DEF Acquire, Fresh, Holds
<1>2. \A d \in Calls : Far(d)' <=> Far(d)
  BY <1>1 DEF Far
<1>3. CASE Site(c) = NoCall
  <2>1. /\ mutexes' = [mutexes EXCEPT ![Proc[c]][Key[c]] = c] /\ queue' = queue
        /\ call' = [call EXCEPT ![c] = "inside"] /\ body' = [body EXCEPT ![c] = "running"]
    <3>1. c \notin locked
      BY <1>0, <1>1 DEF Fresh
    <3> QED
      BY <1>1, <1>3, <3>1 DEF Acquire, Site
  <2>2. \A d \in Calls : Holds(d)' <=> Holds(d) \/ d = c
    BY <1>0, <1>1, <1>2, <2>1 DEF TypeOK, Holds
  <2>3. \A p \in Procs, k \in Keys :
          mutexes'[p][k] = IF p = Proc[c] /\ k = Key[c] THEN c ELSE mutexes[p][k]
    BY <1>0, <1>1, <2>1 DEF TypeOK
  <2>4. Served'
    BY <1>0, <2>1, <2>2, <2>3 DEF Served, TypeOK
  <2>5. \A p \in Procs, k \in Keys : Line(p, k)' = Line(p, k)
    BY <1>1, <1>3, <2>1, <2>3 DEF Line, Site
  <2>6. Inside' = Inside \cup {c}
    BY <1>0, <1>1, <1>2, <2>1 DEF Inside, TypeOK
  <2>7. ~Turns!Busy(Proc[c], Key[c])
    BY <1>3, BusyIsRegistered
  <2>8. Turns!Start(c)
    <3>1. Lines' = Lines
      BY <2>5 DEF Lines
    <3> QED
      BY <2>6, <2>7, <3>1 DEF Turns!Start, Lines, Line, Inside
  <2> QED
    BY <2>4, <2>8 DEF Turns!Next
<1>4. CASE Site(c) # NoCall
  <2> DEFINE m == Site(c)
  <2>0. m = mutexes[Proc[c]][Key[c]]
    BY DEF Site
  <2>1. m \in Calls /\ m \in locked /\ Same(m, c) /\ Site(m) = m
    BY SMTT(30), <1>0, <1>1, <1>4 DEF TypeOK, Registered, Site, Same
  <2>2. /\ mutexes' = [mutexes EXCEPT ![Proc[c]][Key[c]] = m]
        /\ queue' = [queue EXCEPT ![m] = Append(queue[m], c)]
        /\ call' = [call EXCEPT ![c] = "queued"] /\ body' = body
    BY SMTT(30), <1>1, <1>4, <2>1, <2>0 DEF Acquire
  <2>3. \A p \in Procs, k \in Keys : mutexes'[p][k] = mutexes[p][k]
    BY <1>0, <1>1, <2>2 DEF TypeOK, Site
  <2>4. \A d \in Calls : Holds(d)' <=> Holds(d)
    BY <1>0, <1>1, <1>2, <2>2 DEF TypeOK, Holds
  <2>5. Served'
    BY <2>2, <2>3, <2>4 DEF Served
  <2>6. \A p \in Procs, k \in Keys : mutexes[p][k] = m => p = Proc[c] /\ k = Key[c]
    BY <1>0, <1>4, <2>1 DEF Registered, Same
  <2>7. \A p \in Procs, k \in Keys :
          Line(p, k)' = IF p = Proc[c] /\ k = Key[c] THEN Append(queue[m], c) ELSE Line(p, k)
    <3>1. \A p \in Procs, k \in Keys : mutexes[p][k] # NoCall => mutexes[p][k] \in Calls
      BY <1>0 DEF TypeOK
    <3>2. queue'[m] = Append(queue[m], c) /\ \A n \in Calls \ {m} : queue'[n] = queue[n]
      BY <1>0, <2>1, <2>2 DEF TypeOK
    <3>3. mutexes[Proc[c]][Key[c]] = m
      BY DEF Site
    <3> HIDE DEF m
    <3>4. ASSUME NEW p \in Procs, NEW k \in Keys, ~(p = Proc[c] /\ k = Key[c])
          PROVE  Line(p, k)' = Line(p, k)
      BY <2>3, <2>6, <3>1, <3>2, <3>4 DEF Line
    <3>5. Line(Proc[c], Key[c])' = Append(queue[m], c)
      BY <1>1, <1>4, <2>3, <3>2, <3>3 DEF Line, Site
    <3> QED
      BY <3>4, <3>5
  <2>8. Inside' = Inside
    BY <1>2, <2>2 DEF Inside
  <2>9. Turns!Wait(c)
    <3>1. Line(Proc[c], Key[c]) = queue[m]
      BY <1>4 DEF Line, Site
    <3>2. Lines' = [Lines EXCEPT ![Proc[c]][Key[c]] = Append(queue[m], c)]
      BY <1>1, <2>7 DEF Lines
    <3>3. c \notin Inside /\ Turns!Busy(Proc[c], Key[c])
      BY <1>1, <1>4, BusyIsRegistered
    <3>4. \A i \in DOMAIN queue[m] : queue[m][i] # c
      <4>1. DOMAIN queue[m] = 1 .. Len(queue[m])
        BY <1>0, <2>1 DEF TypeOK
      <4> QED
        BY <1>0, <1>1, <2>1, <4>1 DEF Queues, Waits
    <3>5. Turns!Queue(c) = queue[m]
      BY <1>1, <3>1 DEF Turns!Queue, Line
    <3>6. Turns!Requeue(c, Append(Turns!Queue(c), c))
      BY <3>2, <3>5 DEF Turns!Requeue, Lines, Line
    <3>7. \A i \in DOMAIN Turns!Queue(c) : Turns!Queue(c)[i] # c
      BY <3>4, <3>5
    <3> QED
      BY <2>8, <3>3, <3>6, <3>7 DEF Turns!Wait, Inside
  <2> QED
    BY <2>5, <2>9 DEF Turns!Next
<1> QED
  BY <1>3, <1>4

LEMMA ReleaseOrder ==
  ASSUME IInv, Served, NEW c \in Calls, Release(c)
  PROVE  Served' /\ Turns!Next
<1> USE LockConstants
<1> DEFINE m == using[c]
<1>0. TypeOK /\ Registered /\ Users /\ Queues
  BY DEF IInv, Mutexes
<1>1. /\ Holds(c) /\ m \in Calls /\ m = Site(c) /\ Site(m) = m /\ Same(m, c)
      /\ queue[m] \in Seq(Calls) /\ Proc[c] \in Procs /\ Key[c] \in Keys
  BY ReleaseParts
<1>2. UNCHANGED remote /\ \A d \in Calls : Far(d)' <=> Far(d)
  BY DEF Release, Far
<1>3. c \in Inside /\ m # NoCall
  BY <1>1, BusyIsRegistered
<1>4. \A p \in Procs, k \in Keys : mutexes[p][k] = m => p = Proc[c] /\ k = Key[c]
  BY <1>0, <1>1, <1>3 DEF Registered, Same
<1>5. Turns!Queue(c) = queue[m] /\ Line(Proc[c], Key[c]) = queue[m]
  BY <1>1, <1>3, SMTT(30) DEF Turns!Queue, Site, Line
<1>6. CASE queue[m] # <<>>
  <2> DEFINE next == Head(queue[m])
  <2>1. next \in Calls /\ Waits(next) /\ Same(next, c) /\ next # c
    BY <1>1, <1>6, ReleaseParts DEF Waits, Holds
  <2>2. /\ queue' = [queue EXCEPT ![m] = Tail(queue[m])]
        /\ call' = [call EXCEPT ![c] = "settled", ![next] = "inside"]
        /\ body' = [body EXCEPT ![c] = "ended", ![next] = "running"]
        /\ UNCHANGED mutexes
    BY <1>6 DEF Release, HandOver
  <2> HIDE DEF next
  <2>3. \A d \in Calls : Holds(d)' <=> (Holds(d) /\ d # c) \/ d = next
    BY <1>0, <1>2, <2>1, <2>2 DEF TypeOK, Holds, Waits
  <2>4. Served'
    <3>1. \A d \in Calls : Holds(d)' => body'[d] = "running"
      BY <1>0, <2>1, <2>2, <2>3 DEF Served, TypeOK
    <3>2. ASSUME NEW p \in Procs, NEW k \in Keys, mutexes'[p][k] # NoCall
          PROVE  \E d \in Calls : Holds(d)' /\ Proc[d] = p /\ Key[d] = k
      <4>1. PICK d \in Calls : Holds(d) /\ Proc[d] = p /\ Key[d] = k
        BY <2>2, <3>2 DEF Served
      <4>2. CASE d = c
        BY <2>1, <2>3, <4>1, <4>2 DEF Same
      <4>3. CASE d # c
        BY <2>3, <4>1, <4>3
      <4> QED
        BY <4>2, <4>3
    <3> QED
      BY <3>1, <3>2 DEF Served
  <2>5. \A p \in Procs, k \in Keys :
          Line(p, k)' = IF p = Proc[c] /\ k = Key[c] THEN Tail(queue[m]) ELSE Line(p, k)
    <3>1. \A p \in Procs, k \in Keys : mutexes[p][k] # NoCall => mutexes[p][k] \in Calls
      BY <1>0 DEF TypeOK
    <3>2. queue'[m] = Tail(queue[m]) /\ \A n \in Calls \ {m} : queue'[n] = queue[n]
      BY <1>0, <1>1, <2>2 DEF TypeOK
    <3>3. mutexes[Proc[c]][Key[c]] = m
      BY <1>1 DEF Site
    <3> HIDE DEF m
    <3> QED
      BY <1>1, <1>3, <1>4, <2>2, <3>1, <3>2, <3>3 DEF Line
  <2>6. Inside' = (Inside \ {c}) \cup {next}
    BY <1>0, <1>2, <2>1, <2>2 DEF Inside, TypeOK, Waits
  <2>7. Lines' = [Lines EXCEPT ![Proc[c]][Key[c]] = Tail(queue[m])]
    BY <1>1, <2>5 DEF Lines
  <2>8. Turns!Requeue(c, Tail(Turns!Queue(c)))
    BY <1>5, <2>7 DEF Turns!Requeue, Lines, Line
  <2>9. Turns!Queue(c) # <<>> /\ Head(Turns!Queue(c)) = next
    BY <1>5, <1>6 DEF next
  <2>10. Turns!Leave(c)
    BY <1>3, <2>6, <2>8, <2>9 DEF Turns!Leave, Inside
  <2> QED
    BY <2>4, <2>10 DEF Turns!Next
<1>7. CASE queue[m] = <<>>
  <2>1. /\ queue' = queue /\ mutexes' = [mutexes EXCEPT ![Proc[c]][Key[c]] = NoCall]
        /\ call' = [call EXCEPT ![c] = "settled"] /\ body' = [body EXCEPT ![c] = "ended"]
    BY <1>1, <1>7 DEF Release, GoIdle, Settle, Site
  <2>2. \A d \in Calls : Holds(d)' <=> Holds(d) /\ d # c
    BY <1>0, <1>2, <2>1 DEF TypeOK, Holds
  <2>3. \A p \in Procs, k \in Keys :
          mutexes'[p][k] = IF p = Proc[c] /\ k = Key[c] THEN NoCall ELSE mutexes[p][k]
    BY <1>0, <1>1, <2>1 DEF TypeOK
  <2>4. Served'
    <3>1. \A d \in Calls : Holds(d)' => body'[d] = "running"
      BY <1>0, <2>1, <2>2 DEF Served, TypeOK
    <3> QED
      BY <2>2, <2>3, <3>1 DEF Served
  <2>5. \A p \in Procs, k \in Keys : Line(p, k)' = Line(p, k)
    BY <1>1, <1>5, <1>7, <2>1, <2>3 DEF Line
  <2>6. Inside' = Inside \ {c}
    BY <1>0, <1>2, <2>1 DEF Inside, TypeOK
  <2>7. Turns!Leave(c)
    <3>1. Lines' = Lines
      BY <2>5 DEF Lines
    <3> QED
      BY <1>3, <1>5, <1>7, <2>6, <3>1 DEF Turns!Leave, Inside, Lines, Line
  <2> QED
    BY <2>4, <2>7 DEF Turns!Next
<1> QED
  BY <1>6, <1>7

LEMMA CrashOrder ==
  ASSUME IInv, Served, NEW p \in Procs, Crash(p)
  PROVE  Served' /\ Turns!Next
<1> USE LockConstants
<1>0. TypeOK /\ Fresh
  BY DEF IInv
<1>1. /\ queue' = queue /\ mutexes' = [mutexes EXCEPT ![p] = [k \in Keys |-> NoCall]]
      /\ \A q \in Procs \ {p} : q \in remote' <=> q \in remote
  BY DEF Crash
<1>2. \A c \in Calls : Proc[c] = p => ~Holds(c)' /\ body'[c] # "running"
  BY <1>0 DEF Crash, Holds, Fresh
<1>3. \A c \in Calls : Proc[c] # p =>
        (Far(c)' <=> Far(c)) /\ (Holds(c)' <=> Holds(c)) /\ body'[c] = body[c]
  BY <1>0, <1>1 DEF Crash, Holds, Far
<1>4. \A q \in Procs, k \in Keys : mutexes'[q][k] = IF q = p THEN NoCall ELSE mutexes[q][k]
  BY <1>0, <1>1 DEF TypeOK
<1>5. Served'
  <2>1. \A c \in Calls : Holds(c)' => body'[c] = "running"
    BY <1>2, <1>3 DEF Served
  <2> QED
    BY <1>2, <1>3, <1>4, <2>1 DEF Served
<1>6. \A q \in Procs, k \in Keys : Line(q, k)' = IF q = p THEN <<>> ELSE Line(q, k)
  BY <1>1, <1>4 DEF Line
<1>7. Inside' = {c \in Inside : Proc[c] # p}
  BY <1>2, <1>3 DEF Inside
<1>8. Turns!Crash(p)
  <2>1. Lines' = [Lines EXCEPT ![p] = [k \in Keys |-> <<>>]]
    BY <1>6 DEF Lines
  <2> QED
    BY <1>7, <2>1 DEF Turns!Crash, Lines, Line, Inside
<1> QED
  BY <1>5, <1>8 DEF Turns!Next

LEMMA NextOrder ==
  IInv /\ Served /\ [Next]_vars => Served' /\ [Turns!Next]_(Turns!vars)
<1> SUFFICES ASSUME IInv, Served, [Next]_vars
             PROVE  Served' /\ [Turns!Next]_(Turns!vars)
  OBVIOUS
<1>0. TypeOK
  BY DEF IInv
<1>1. ASSUME NEW c \in Calls, Lock(c) \/ LockFails(c) \/ BodyEnds(c) \/ ExtendFails(c)
      PROVE  Served' /\ UNCHANGED Turns!vars
  <2>1. UNCHANGED <<remote, localVars>> /\ Far(c)
    BY <1>1 DEF Lock, LockFails, BodyEnds, ExtendFails
  <2>2. \A d \in Calls \ {c} : call'[d] = call[d] /\ body'[d] = body[d]
    BY <1>0, <1>1 DEF Lock, LockFails, BodyEnds, ExtendFails, Settle, TypeOK
  <2> QED
    BY <2>1, <2>2, QuietStep
<1>2. ASSUME NEW c \in Calls, Unlock(c) PROVE Served' /\ UNCHANGED Turns!vars
  <2>1. /\ call[c] = "unlocking" /\ call' = [call EXCEPT ![c] = "settled"] /\ body' = body
        /\ UNCHANGED <<remote, localVars>>
    BY <1>2 DEF Unlock, Settle
  <2> QED
    BY <1>0, <2>1, QuietStep DEF TypeOK
<1>3. ASSUME NEW k \in Keys, Expire(k) PROVE Served' /\ UNCHANGED Turns!vars
  <2>1. UNCHANGED <<remote, call, body, localVars>>
    BY <1>3 DEF Expire
  <2> QED
    BY <2>1, QuietStep
<1>4. CASE UNCHANGED vars
  <2>1. UNCHANGED <<remote, call, body, localVars>>
    BY <1>4 DEF vars
  <2> QED
    BY <2>1, QuietStep
<1> QED
  BY <1>1, <1>2, <1>3, <1>4, AcquireOrder, ReleaseOrder, CrashOrder DEF Next, CallStep

\* ImplementsFifoLock: the waiters of a key stand in the queue of the one mutex the
\* map holds for it, and that mutex is in the map exactly while somebody runs.
THEOREM MutexesImplementFifoLock == Spec => ImplementsFifoLock
<1>1. Init => Turns!Init
  BY DEF Init, Turns!Init
<1>2. Init => Served
  BY DEF Init, Served, Holds
<1> QED
  BY <1>1, <1>2, InitIInv, NextIInv, NextOrder, PTL DEF Spec, ImplementsFifoLock, Turns!Spec
=============================================================================
