--------------------------- MODULE MembershipProofs ---------------------------
(***************************************************************************)
(* Proofs about Membership, for any users, operations, requests, processes *)
(* and keys.  A request about to write rests on what it read as long as    *)
(* the owners are the same (Counted, Granted); a value on its way to Redis *)
(* or stored there is what the database holds, or some UNLINK is still to  *)
(* come, or it is marked (Traced).                                         *)
(***************************************************************************)
EXTENDS Membership, FiniteSetTheorems, TLAPS

\* How far a request is tells what it asks for and what it still has to do.
Staged ==
  \A r \in Requests :
    /\ req[r].pc # "done" => req[r].todo = {}
    /\ req[r].pc \in {"target", "count"} => req[r].op.kind \in {"add", "role", "remove"}
    /\ req[r].pc = "count" => req[r].op.kind # "add" /\ req[r].op.role # "owner"
    /\ req[r].pc \in {"target", "count", "write"} /\ req[r].op.kind # "create" => name # 0

\* Before the organization is founded it has no members, and nobody knows its id.
Founded ==
  name = 0 => /\ \A u \in Users : role[u] = "none"
              /\ \A k \in Keys : k[1] = "org" => cache[k] = {}
              /\ \A c \in copies : KeyOf(c)[1] # "org"

\* A request about to unseat an owner counted the owners there are.
Counted ==
  \A r \in Requests :
    req[r].pc = "write" /\ ~req[r].dis /\ Unseats(req[r].op) => Cardinality(Owners) >= 2

\* A request that gives or takes the owner role read its caller as an owner.
Granted ==
  \A r \in Requests :
    /\ req[r].pc = "count" => req[r].as = "owner"
    /\ req[r].pc \in {"target", "write"} /\ req[r].op.kind = "add" /\ req[r].op.role = "owner"
         => req[r].as = "owner"
    /\ req[r].pc = "write" /\ ~req[r].dis /\ req[r].op.kind \in {"role", "remove"}
       /\ "owner" \in {req[r].op.role, role[req[r].op.target]}
         => req[r].as = "owner"

Pending(k) == \E r \in Requests : k \in req[r].todo

\* A value on its way to Redis is what the database holds, or late, or its key
\* is still to be unlinked.
Traced == \A c \in copies : c.val = View(KeyOf(c)) \/ c.late \/ Pending(KeyOf(c))

IInv == TypeOK /\ Staged /\ Founded /\ Counted /\ Granted /\ OwnerKept /\ Traced /\ StaleExplained

USE KeysAssumption, OpsAssumption, StartsAssumption, UsersAssumption

-----------------------------------------------------------------------------
LEMMA ViewType ==
  ASSUME TypeOK, NEW k \in Keys PROVE View(k) \in Views
<1>1. k[2] \in Users /\ role[k[2]] \in Roles
  BY DEF TypeOK
<1>2. [name |-> name, roles |-> role] \in Views /\ [name |-> name, role |-> role[k[2]]] \in Views
  BY <1>1 DEF TypeOK, Views
<1> QED
  BY <1>2 DEF View, Views

LEMMA OwnersFinite == IsFiniteSet(Owners) /\ Cardinality(Owners) \in Nat
<1>1. Owners \subseteq Users
  BY DEF Owners
<1> QED
  BY <1>1, FS_Subset, FS_CardinalityType

\* Marking copies late keeps their types.
LEMMA OvertakenType ==
  ASSUME TypeOK, NEW ks PROVE Overtaken(ks) \subseteq Copies(Views)
  BY ZenonT(30) DEF TypeOK, CacheTypeOK, Overtaken, Copies

LEMMA InitIInv == Init => IInv
<1> SUFFICES ASSUME Init PROVE IInv
  OBVIOUS
<1>1. TypeOK
  <2>1. CacheTypeOK(Views)
    BY DEF Init, CacheInit, CacheTypeOK
  <2>2. req \in [Requests -> Reqs]
    BY DEF Init, Reqs, Roles
  <2>3. role \in [Users -> Roles] /\ raced \in BOOLEAN
    BY DEF Init
  <2>4. name \in Nat
    BY DEF Init
  <2> QED
    BY <2>1, <2>2, <2>3, <2>4 DEF TypeOK
<1>2. \A r \in Requests : req[r].pc = "idle" /\ req[r].todo = {}
  BY DEF Init
<1>3. Founded /\ OwnerKept
  BY DEF Init, CacheInit, Founded, OwnerKept, Owners
<1> QED
  BY <1>1, <1>2, <1>3 DEF Init, CacheInit, IInv, Staged, Counted, Granted, Traced,
     StaleExplained, Stale

-----------------------------------------------------------------------------
\* A step of the cache leaves the database and the requests alone.
LEMMA CacheType ==
  ASSUME TypeOK, NEW pk \in Pairs, CacheStep(pk)
  PROVE  CacheTypeOK(Views)'
<1>0. pk[2] \in Keys
  BY DEF Pairs
<1>1. CASE Lookup(pk)
  <2>1. [at |-> pk, stage |-> "read", val |-> View(pk[2]), late |-> FALSE] \in Copies(Views)
    BY <1>0, ViewType DEF Copies
  <2> QED
    BY <1>1, <2>1 DEF Lookup, Fetch, TypeOK, CacheTypeOK
<1>2. CASE Settle(pk)
  BY <1>0, <1>2 DEF Settle, AtStage, TypeOK, CacheTypeOK, Copies
<1>3. CASE Store(pk) \/ StoreFails(pk)
  BY <1>0, <1>3 DEF Store, StoreFails, AtStage, TypeOK, CacheTypeOK, Copies
<1> QED
  BY <1>1, <1>2, <1>3 DEF CacheStep

LEMMA ExpireType ==
  ASSUME TypeOK, NEW k \in Keys, Expire(k, NoView)
  PROVE  CacheTypeOK(Views)'
  BY DEF Expire, TypeOK, CacheTypeOK

LEMMA RequestType ==
  ASSUME TypeOK, NEW r \in Requests, RequestStep(r)
  PROVE  TypeOK'
<1>0. req[r] \in Reqs /\ req[r].op \in Ops /\ req[r].op.target \in Users /\ req[r].op.role \in Roles
  BY DEF TypeOK, Reqs
<1>1. CASE Begin(r)
  <2>1. role[req[r].op.caller] \in Roles
    BY <1>0 DEF TypeOK
  <2> QED
    BY <1>0, <1>1, <2>1 DEF Begin, orgVars, cacheVars, TypeOK, CacheTypeOK, Reqs
<1>2. CASE ReadTarget(r) \/ CountOwners(r) \/ GiveUp(r)
  <2>1. \E pc \in {"done", "count", "write"} : MoveTo(r, pc)
    BY <1>2 DEF ReadTarget, CountOwners, GiveUp
  <2>2. UNCHANGED <<orgVars, cacheVars>>
    BY <1>2 DEF ReadTarget, CountOwners, GiveUp
  <2>3. req' \in [Requests -> Reqs]
    BY <1>0, <2>1 DEF MoveTo, TypeOK, Reqs
  <2> QED
    BY <2>2, <2>3 DEF orgVars, cacheVars, TypeOK, CacheTypeOK
<1>3. CASE Write(r)
  <2>1. name' \in Nat /\ raced' \in BOOLEAN
    BY <1>3 DEF Write, TypeOK
  <2>2. role' \in [Users -> Roles]
    BY <1>0, <1>3 DEF Write, TypeOK
  <2>3. Touched(req[r].op) \subseteq Keys /\ Unlisted(req[r].op) \subseteq Keys
    BY DEF Touched, Unlisted
  <2>4. req' \in [Requests -> Reqs]
    <3>1. [req[r] EXCEPT !.pc = "done", !.todo = Touched(req[r].op)] \in Reqs
      BY <1>0, <2>3 DEF Reqs
    <3>2. ASSUME NEW q \in Requests PROVE [req[q] EXCEPT !.dis = TRUE] \in Reqs
      BY ZenonT(30) DEF TypeOK, Reqs
    <3> QED
      BY <1>3, <3>1, <3>2 DEF Write, TypeOK
  <2>5. CacheTypeOK(Views)'
    BY <1>3, <2>3, OvertakenType DEF Write, Forget, TypeOK, CacheTypeOK
  <2> QED
    BY <2>1, <2>2, <2>4, <2>5 DEF TypeOK
<1>4. ASSUME NEW k \in Keys, Invalidate(r, k) \/ InvalidationLost(r, k)
      PROVE  TypeOK'
  <2>1. req' \in [Requests -> Reqs]
    <3>1. req' = [req EXCEPT ![r] = [req[r] EXCEPT !.todo = req[r].todo \ {k}]]
      BY <1>4 DEF Invalidate, InvalidationLost
    <3>2. [req[r] EXCEPT !.todo = req[r].todo \ {k}] \in Reqs
      BY <1>0 DEF Reqs
    <3> HIDE DEF Reqs
    <3> QED BY <3>1, <3>2 DEF TypeOK
  <2>2. CacheTypeOK(Views)'
    BY <1>4, OvertakenType DEF Invalidate, InvalidationLost, Unlink, Forget, TypeOK, CacheTypeOK
  <2> QED
    BY <1>4, <2>1, <2>2 DEF Invalidate, InvalidationLost, orgVars, TypeOK
<1> QED
  BY <1>1, <1>2, <1>3, <1>4 DEF RequestStep

LEMMA TypeStep == TypeOK /\ [Next]_vars => TypeOK'
<1> SUFFICES ASSUME TypeOK, [Next]_vars PROVE TypeOK'
  OBVIOUS
<1>1. ASSUME NEW pk \in Pairs, CacheStep(pk), UNCHANGED <<orgVars, req>> PROVE TypeOK'
  BY <1>1, CacheType DEF TypeOK, orgVars
<1>2. ASSUME NEW k \in Keys, Expire(k, NoView), UNCHANGED <<orgVars, req>> PROVE TypeOK'
  BY <1>2, ExpireType DEF TypeOK, orgVars
<1>3. CASE UNCHANGED vars
  BY <1>3 DEF vars, cacheVars, TypeOK, CacheTypeOK
<1> QED
  BY <1>1, <1>2, <1>3, RequestType DEF Next

\* The types of the variables, in every behaviour.
THEOREM TypeCorrect == Spec => []TypeOK
<1>1. Init => TypeOK
  BY InitIInv DEF IInv
<1> QED
  BY <1>1, TypeStep, PTL DEF Spec

-----------------------------------------------------------------------------
Organization == Staged /\ Counted /\ Granted /\ OwnerKept
Answers == Founded /\ Traced /\ StaleExplained

\* What a step of the cache does to the answers, when the database stays.
LEMMA CacheAnswers ==
  ASSUME TypeOK, Answers, NEW pk \in Pairs, CacheStep(pk), UNCHANGED <<orgVars, req>>
  PROVE  Answers'
<1>0. pk[2] \in Keys /\ UNCHANGED <<name, role, req>>
  BY DEF Pairs, orgVars
<1>1. \A k \in Keys : View(k)' = View(k) /\ Pending(k)' = Pending(k)
  BY <1>0 DEF View, Pending
<1>2. \A c \in copies : KeyOf(c) \in Keys
  BY DEF TypeOK, CacheTypeOK, Copies, KeyOf, Pairs
<1>3. CASE Lookup(pk)
  <2> DEFINE n == [at |-> pk, stage |-> "read", val |-> View(pk[2]), late |-> FALSE]
  <2>1. copies' = copies \cup {n} /\ UNCHANGED <<cache, excused>>
    BY <1>3 DEF Lookup, Fetch
  <2>2. KeyOf(n) = pk[2] /\ n.val = View(KeyOf(n)) /\ (name = 0 => KeyOf(n)[1] # "org")
    BY <1>3 DEF KeyOf, Lookup
  <2>3. Traced'
    <3> SUFFICES ASSUME NEW c \in copies'
                 PROVE  c.val = View(KeyOf(c))' \/ c.late \/ Pending(KeyOf(c))'
      BY DEF Traced
    <3>1. KeyOf(c) \in Keys /\ (c \in copies \/ c = n)
      BY <1>0, <1>2, <2>1, <2>2
    <3>2. c.val = View(KeyOf(c)) \/ c.late \/ Pending(KeyOf(c))
      BY <2>2, <3>1 DEF Answers, Traced
    <3>3. View(KeyOf(c))' = View(KeyOf(c)) /\ Pending(KeyOf(c))' = Pending(KeyOf(c))
      BY <1>0 DEF View, Pending, KeyOf
    <3> QED
      BY <3>2, <3>3
  <2>4. Founded'
    BY <1>0, <2>1, <2>2 DEF Answers, Founded
  <2> QED
    BY <1>1, <2>1, <2>3, <2>4 DEF Answers, StaleExplained, Stale, Pending
<1>4. CASE Settle(pk)
  <2>1. PICK c \in AtStage(pk, "read") : copies' = (copies \ {c}) \cup {[c EXCEPT !.stage = "sent"]}
    BY <1>4 DEF Settle
  <2> DEFINE n == [c EXCEPT !.stage = "sent"]
  <2>2. c \in copies /\ KeyOf(n) = KeyOf(c) /\ n.val = c.val /\ n.late = c.late
    BY DEF AtStage, KeyOf, TypeOK, CacheTypeOK, Copies
  <2>3. UNCHANGED <<cache, excused>>
    BY <1>4 DEF Settle
  <2>4. Traced'
    <3> SUFFICES ASSUME NEW d \in copies'
                 PROVE  d.val = View(KeyOf(d))' \/ d.late \/ Pending(KeyOf(d))'
      BY DEF Traced
    <3>1. \E e \in copies : KeyOf(d) = KeyOf(e) /\ d.val = e.val /\ d.late = e.late
      BY <2>1, <2>2
    <3>2. d.val = View(KeyOf(d)) \/ d.late \/ Pending(KeyOf(d))
      BY <3>1 DEF Answers, Traced
    <3>3. View(KeyOf(d))' = View(KeyOf(d)) /\ Pending(KeyOf(d))' = Pending(KeyOf(d))
      BY <1>0 DEF View, Pending, KeyOf
    <3> QED
      BY <3>2, <3>3
  <2>5. Founded'
    BY <1>0, <2>1, <2>2, <2>3 DEF Answers, Founded
  <2> QED
    BY <1>1, <2>3, <2>4, <2>5 DEF Answers, StaleExplained, Stale, Pending
<1>5. CASE Store(pk)
  <2>1. PICK c \in AtStage(pk, "sent") :
          /\ cache' = [cache EXCEPT ![pk[2]] = {c.val}]
          /\ copies' = copies \ {c}
          /\ excused' = IF c.late THEN excused \cup {pk[2]} ELSE excused \ {pk[2]}
    BY <1>5 DEF Store
  <2>2. c \in copies /\ KeyOf(c) = pk[2]
    BY DEF AtStage, KeyOf
  <2>3. Traced'
    BY <1>1, <1>2, <2>1 DEF Answers, Traced
  <2>4. Founded'
    BY <1>0, <2>1, <2>2 DEF Answers, Founded, TypeOK, CacheTypeOK
  <2>5. StaleExplained'
    <3> SUFFICES ASSUME NEW k \in Keys, Stale(k)' PROVE k \in excused' \/ Pending(k)'
      BY DEF StaleExplained, Pending
    <3>1. CASE k # pk[2]
      BY <1>1, <2>1, <3>1 DEF Answers, StaleExplained, Stale, Pending, TypeOK, CacheTypeOK
    <3>2. CASE k = pk[2]
      <4>1. cache'[k] = {c.val}
        BY <2>1, <3>2 DEF TypeOK, CacheTypeOK
      <4>2. c.val # View(k)
        BY <1>1, <4>1 DEF Stale
      <4>3. c.late \/ Pending(k)
        BY <2>2, <3>2, <4>2 DEF Answers, Traced
      <4> QED
        BY <1>1, <2>1, <3>2, <4>3
    <3> QED
      BY <3>1, <3>2
  <2> QED
    BY <2>3, <2>4, <2>5 DEF Answers
<1>6. CASE StoreFails(pk)
  <2>1. copies' \subseteq copies /\ UNCHANGED <<cache, excused>>
    BY <1>6 DEF StoreFails
  <2> QED
    BY <1>0, <1>1, <1>2, <2>1 DEF Answers, Founded, Traced, StaleExplained, Stale, Pending
<1> QED
  BY <1>3, <1>4, <1>5, <1>6 DEF CacheStep

\* The keys in ks are emptied, or excused; no copy of them is trusted any more.
LEMMA ExpireAnswers ==
  ASSUME TypeOK, Answers, NEW k \in Keys, Expire(k, NoView), UNCHANGED <<orgVars, req>>
  PROVE  Answers'
<1>1. UNCHANGED <<name, role, req, copies>>
  BY DEF orgVars, Expire
<1>2. \A l \in Keys : cache'[l] = {} \/ (cache'[l] = cache[l] /\ (l \in excused => l \in excused'))
  BY DEF Expire, TypeOK, CacheTypeOK
<1>3. \A l \in Keys : View(l)' = View(l) /\ Pending(l)' = Pending(l)
  BY <1>1 DEF View, Pending
<1>4. \A c \in copies : KeyOf(c) \in Keys /\ KeyOf(c)' = KeyOf(c)
  BY DEF TypeOK, CacheTypeOK, Copies, KeyOf, Pairs
<1>5. Founded'
  BY <1>1, <1>2, <1>4 DEF Answers, Founded
<1>6. Traced'
  BY <1>1, <1>3, <1>4 DEF Answers, Traced
<1>7. StaleExplained'
  BY <1>2, <1>3 DEF Answers, StaleExplained, Stale, Pending
<1> QED
  BY <1>5, <1>6, <1>7 DEF Answers

-----------------------------------------------------------------------------
\* A query reads, and a request that gives up has not written.
Query(r) == Begin(r) \/ ReadTarget(r) \/ CountOwners(r) \/ GiveUp(r)

LEMMA QueryKeeps ==
  ASSUME TypeOK, NEW r \in Requests, Query(r)
  PROVE  /\ UNCHANGED <<name, role, raced, cache, copies, excused>>
         /\ \A q \in Requests :
              /\ req'[q].todo = req[q].todo /\ req'[q].op = req[q].op
              /\ req'[q].dis = req[q].dis
              /\ q # r => req'[q] = req[q]
  BY DEF Query, Begin, ReadTarget, CountOwners, GiveUp, MoveTo, orgVars, cacheVars, TypeOK, Reqs

\* The only answers a write changes are those of keys it touches or leaves
\* unlisted, and those nobody can have asked for.
LEMMA WriteViews ==
  ASSUME TypeOK, Founded, NEW r \in Requests, Write(r), NEW k \in Keys,
         k \notin Touched(req[r].op), k \notin Unlisted(req[r].op),
         name = 0 => k[1] # "org" \/ req[r].op.kind # "create"
  PROVE  View(k)' = View(k)
<1> DEFINE o == req[r].op
<1>1. /\ o \in Ops /\ o.kind \in Kinds /\ o.target \in Users /\ k[2] \in Users
      /\ k[1] \in {"org", "list"} /\ k = <<k[1], k[2]>>
  BY DEF TypeOK, Reqs
<1>2. /\ name' = IF o.kind \in {"create", "rename"} THEN name + 1 ELSE name
      /\ role' = IF o.kind = "rename" THEN role ELSE [role EXCEPT ![o.target] = o.role]
      /\ Writable(o)
  BY DEF Write
<1>3. CASE o.kind = "create"
  <2>1. name = 0 /\ k[1] = "list" /\ o.target = o.caller
    BY <1>1, <1>2, <1>3 DEF Writable
  <2>2. k[2] # o.target
    BY <1>1, <1>3, <2>1 DEF Touched
  <2>3. role[k[2]] = "none" /\ role'[k[2]] = "none"
    BY <1>1, <1>2, <1>3, <2>1, <2>2 DEF Founded, TypeOK
  <2> QED
    BY <2>3 DEF View
<1>4. CASE o.kind = "rename"
  <2>1. k[1] = "list" /\ k[2] # o.caller
    BY <1>1, <1>4 DEF Touched
  <2> QED
    BY <1>4, <2>1 DEF Unlisted
<1>5. CASE o.kind \in {"add", "role", "remove"}
  <2>1. k[1] = "list" /\ k[2] # o.target
    BY <1>1, <1>5 DEF Touched
  <2>2. name' = name /\ role'[k[2]] = role[k[2]]
    BY <1>1, <1>2, <1>5, <2>1 DEF TypeOK
  <2> QED
    BY <2>1, <2>2 DEF View
<1> QED
  BY <1>1, <1>3, <1>4, <1>5 DEF Kinds

\* What becomes of the copies when the keys ks are forgotten or unlinked.
LEMMA OvertakenCopies ==
  ASSUME TypeOK, NEW ks, copies' = Overtaken(ks), NEW d \in copies'
  PROVE  /\ KeyOf(d) \in Keys
         /\ \E c \in copies : /\ KeyOf(d) = KeyOf(c) /\ d.val = c.val
                             /\ IF KeyOf(c) \in ks THEN d.late ELSE d = c
  BY DEF Overtaken, KeyOf, TypeOK, CacheTypeOK, Copies, Pairs

LEMMA WriteAnswers ==
  ASSUME TypeOK, Staged, Answers, NEW r \in Requests, Write(r)
  PROVE  Answers'
<1> DEFINE o == req[r].op
<1>1. req[r].todo = {} /\ req'[r].todo = Touched(o)
      /\ \A q \in Requests : q # r => req'[q].todo = req[q].todo
  BY ZenonT(30) DEF Write, Staged, TypeOK, Reqs
<1>2. \A k \in Keys : (Pending(k) => Pending(k)') /\ (k \in Touched(o) => Pending(k)')
  BY <1>1 DEF Pending
<1>3. copies' = Overtaken(Unlisted(o)) /\ excused' = excused \cup Unlisted(o) /\ cache' = cache
  BY DEF Write, Forget
<1>4. name' # 0 \/ (name' = name /\ name = 0 /\ o.kind = "add")
  BY DEF Write, Writable, TypeOK, Reqs, Kinds, Founded, Answers
<1>5. name' # 0
  BY <1>4 DEF Staged, Write
<1>6. Founded'
  BY <1>5 DEF Founded
<1>7. Traced'
  <2> SUFFICES ASSUME NEW d \in copies'
               PROVE  d.val = View(KeyOf(d))' \/ d.late \/ Pending(KeyOf(d))'
    BY DEF Traced
  <2> DEFINE k == KeyOf(d)
  <2>1. k \in Keys
    BY <1>3, OvertakenCopies
  <2>2. PICK c \in copies : /\ k = KeyOf(c) /\ d.val = c.val
                           /\ IF k \in Unlisted(o) THEN d.late ELSE d = c
    BY <1>3, OvertakenCopies
  <2>3. CASE k \in Unlisted(o) \/ k \in Touched(o)
    BY <1>2, <2>1, <2>2, <2>3
  <2>4. CASE k \notin Unlisted(o) /\ k \notin Touched(o)
    <3>1. View(k)' = View(k)
      BY <2>1, <2>2, <2>4, WriteViews DEF Answers, Founded
    <3>2. d.val = View(k) \/ d.late \/ Pending(k)
      BY <2>2, <2>4 DEF Answers, Traced
    <3> QED
      BY <1>2, <2>1, <3>1, <3>2
  <2> QED
    BY <2>3, <2>4
<1>8. StaleExplained'
  <2> SUFFICES ASSUME NEW k \in Keys, Stale(k)' PROVE k \in excused' \/ Pending(k)'
    BY DEF StaleExplained, Pending
  <2>1. CASE k \in Unlisted(o) \/ k \in Touched(o)
    BY <1>2, <1>3, <2>1
  <2>2. CASE k \notin Unlisted(o) /\ k \notin Touched(o)
    <3>1. cache[k] # {}
      BY <1>3 DEF Stale
    <3>2. View(k)' = View(k)
      BY <2>2, <3>1, WriteViews DEF Answers, Founded
    <3>3. k \in excused \/ Pending(k)
      BY <1>3, <3>2 DEF Stale, Answers, StaleExplained, Pending
    <3> QED
      BY <1>2, <1>3, <3>3
  <2> QED
    BY <2>1, <2>2
<1> QED
  BY <1>6, <1>7, <1>8 DEF Answers

LEMMA RequestAnswers ==
  ASSUME TypeOK, Staged, Answers, NEW r \in Requests, RequestStep(r)
  PROVE  Answers'
<1>1. CASE Query(r)
  <2>1. \A k \in Keys : View(k)' = View(k) /\ (Pending(k)' <=> Pending(k))
    <3>1. UNCHANGED <<name, role>> /\ \A q \in Requests : req'[q].todo = req[q].todo
      BY <1>1, QueryKeeps
    <3>2. \A k \in Keys : View(k)' = View(k)
      BY <3>1 DEF View
    <3>3. \A k \in Keys : Pending(k)' <=> Pending(k)
      BY <3>1 DEF Pending
    <3> QED
      BY <3>2, <3>3
  <2>2. \A c \in copies : KeyOf(c) \in Keys
    BY DEF TypeOK, CacheTypeOK, Copies, KeyOf, Pairs
  <2>3. Traced' /\ Founded'
    BY <1>1, <2>1, <2>2, QueryKeeps DEF Answers, Traced, Founded, KeyOf
  <2> QED
    BY <1>1, <2>1, <2>3, QueryKeeps DEF Answers, StaleExplained, Stale, Pending
<1>2. CASE Write(r)
  BY <1>2, WriteAnswers
<1>3. ASSUME NEW l \in Keys, Invalidate(r, l) \/ InvalidationLost(r, l)
      PROVE  Answers'
  <2>1. UNCHANGED <<name, role>> /\ copies' = Overtaken({l})
    BY <1>3 DEF Invalidate, InvalidationLost, Unlink, Forget, orgVars
  <2>2. \A k \in Keys : View(k)' = View(k) /\ (k # l /\ Pending(k) => Pending(k)')
    <3>1. \A k \in Keys : View(k)' = View(k)
      BY <2>1 DEF View
    <3>2. \A q \in Requests : \A k \in Keys : k # l /\ k \in req[q].todo => k \in req'[q].todo
      BY SMTT(30), <1>3 DEF Invalidate, InvalidationLost, TypeOK, Reqs
    <3>3. \A k \in Keys : k # l /\ Pending(k) => Pending(k)'
      BY <3>2 DEF Pending
    <3> QED
      BY <3>1, <3>3
  <2>3. \A k \in Keys : k # l => cache'[k] = cache[k] /\ (k \in excused => k \in excused')
    BY <1>3 DEF Invalidate, InvalidationLost, Unlink, Forget, TypeOK, CacheTypeOK
  <2>4. cache'[l] = {} \/ (cache'[l] = cache[l] /\ l \in excused')
    BY <1>3 DEF Invalidate, InvalidationLost, Unlink, Forget, TypeOK, CacheTypeOK
  <2>5. Traced'
    <3> SUFFICES ASSUME NEW d \in copies'
                 PROVE  d.val = View(KeyOf(d))' \/ d.late \/ Pending(KeyOf(d))'
      BY DEF Traced
    <3>1. KeyOf(d) \in Keys
      BY <2>1, OvertakenCopies
    <3>2. PICK c \in copies : /\ KeyOf(d) = KeyOf(c) /\ d.val = c.val
                             /\ IF KeyOf(c) \in {l} THEN d.late ELSE d = c
      BY <2>1, OvertakenCopies
    <3>3. CASE KeyOf(d) = l
      BY <3>2, <3>3
    <3>4. CASE KeyOf(d) # l
      <4>1. d.val = View(KeyOf(d)) \/ d.late \/ Pending(KeyOf(d))
        BY <3>2, <3>4 DEF Answers, Traced
      <4> QED
        BY <2>2, <3>1, <3>4, <4>1
    <3> QED
      BY <3>3, <3>4
  <2>6. Founded'
    <3>1. ASSUME NEW d \in copies', name = 0 PROVE KeyOf(d)[1] # "org"
      <4>1. \E c \in copies : /\ KeyOf(d) = KeyOf(c) /\ d.val = c.val
                           /\ IF KeyOf(c) \in {l} THEN d.late ELSE d = c
        BY <2>1, <3>1, OvertakenCopies
      <4>2. \A c \in copies : KeyOf(c)[1] # "org"
        BY <3>1 DEF Answers, Founded
      <4> QED
        BY <4>1, <4>2
    <3>2. \A k \in Keys : cache[k] = {} => cache'[k] = {}
      BY <2>3, <2>4
    <3> QED
      BY <2>1, <3>1, <3>2 DEF Answers, Founded, KeyOf
  <2>7. StaleExplained'
    <3> SUFFICES ASSUME NEW k \in Keys, Stale(k)' PROVE k \in excused' \/ Pending(k)'
      BY DEF StaleExplained, Pending
    <3>1. CASE k = l
      BY <2>4, <3>1 DEF Stale
    <3>2. CASE k # l
      BY <2>2, <2>3, <3>2 DEF Answers, StaleExplained, Stale, Pending
    <3> QED
      BY <3>1, <3>2
  <2> QED
    BY <2>5, <2>6, <2>7 DEF Answers
<1> QED
  BY <1>1, <1>2, <1>3 DEF RequestStep, Query

-----------------------------------------------------------------------------
\* As long as the owners are the same, what a request has read still holds.
LEMMA SameOwners ==
  ASSUME TypeOK, TypeOK', Owners' = Owners
  PROVE  \A u \in Users : (role'[u] = "owner") <=> (role[u] = "owner")
  BY DEF Owners

LEMMA QueryOrganization ==
  ASSUME TypeOK, Founded, Organization, NEW r \in Requests, Query(r)
  PROVE  Organization'
<1> DEFINE o == req[r].op
<1>0. /\ UNCHANGED <<name, role, raced>> /\ Owners' = Owners
      /\ \A p \in Ops : Unseats(p)' = Unseats(p)
  BY QueryKeeps DEF Owners, Unseats
<1>1. o \in Ops /\ o.kind \in Kinds /\ o.caller \in Users /\ o.target \in Users
      /\ role[o.target] \in Roles
  BY DEF TypeOK, Reqs
<1>2. OwnerKept'
  BY <1>0 DEF Organization, OwnerKept
<1>3. ASSUME NEW q \in Requests, q # r PROVE req'[q] = req[q] /\ req[q].op \in Ops
  BY <1>3, QueryKeeps DEF TypeOK, Reqs
<1>4. /\ req'[r].op = o /\ req'[r].todo = req[r].todo /\ req'[r].dis = req[r].dis
  BY QueryKeeps
\* The others are as they were; what remains is request r.
<1>5. SUFFICES
        /\ req'[r].pc # "done" => req'[r].todo = {}
        /\ req'[r].pc \in {"target", "count"} => o.kind \in {"add", "role", "remove"}
        /\ req'[r].pc = "count" => o.kind # "add" /\ o.role # "owner"
        /\ req'[r].pc \in {"target", "count", "write"} /\ o.kind # "create" => name # 0
        /\ req'[r].pc = "write" /\ ~req[r].dis /\ Unseats(o) => Cardinality(Owners) >= 2
        /\ req'[r].pc = "count" => req'[r].as = "owner"
        /\ req'[r].pc \in {"target", "write"} /\ o.kind = "add" /\ o.role = "owner"
             => req'[r].as = "owner"
        /\ req'[r].pc = "write" /\ ~req[r].dis /\ o.kind \in {"role", "remove"}
           /\ "owner" \in {o.role, role[o.target]} => req'[r].as = "owner"
  <2>1. Staged' /\ Granted'
    BY <1>0, <1>3, <1>4, <1>5 DEF Organization, Staged, Granted
  <2>2. Counted'
    BY <1>0, <1>1, <1>3, <1>4, <1>5 DEF Organization, Counted
  <2> QED
    BY <1>2, <2>1, <2>2 DEF Organization
<1>6. CASE Begin(r)
  <2>1. /\ req[r].pc = "idle" /\ req'[r].as = role[o.caller]
        /\ req'[r].pc = IF o.kind \in {"create", "rename"} THEN "write" ELSE "target"
    BY <1>6 DEF Begin, TypeOK, Reqs
  <2>2. o.kind # "create" => name # 0
    BY <1>1, <1>6 DEF Begin, Founded
  <2>3. o.kind = "add" /\ o.role = "owner" => role[o.caller] = "owner"
    BY <1>6 DEF Begin
  <2> QED
    BY <1>1, <1>4, <2>1, <2>2, <2>3 DEF Organization, Staged, Kinds, Unseats
<1>7. CASE ReadTarget(r)
  <2>1. req[r].pc = "target" /\ req'[r].as = req[r].as /\ o.kind \in {"add", "role", "remove"}
    BY <1>7 DEF ReadTarget, MoveTo, TypeOK, Reqs, Organization, Staged
  <2>2. req'[r].pc = IF Refused(o, req[r].as) THEN "done" ELSE IF Unseats(o) THEN "count" ELSE "write"
    BY <1>7 DEF ReadTarget, MoveTo, TypeOK, Reqs
  <2>3. name # 0 /\ req[r].todo = {} /\ (o.kind = "add" /\ o.role = "owner" => req[r].as = "owner")
    BY <2>1 DEF Organization, Staged, Granted
  <2>4. \/ req'[r].pc = "done"
        \/ req'[r].pc = "count" /\ Unseats(o) /\ ~Refused(o, req[r].as)
        \/ req'[r].pc = "write" /\ ~Unseats(o) /\ ~Refused(o, req[r].as)
    BY <2>2
  <2>5. CASE req'[r].pc = "count" /\ Unseats(o) /\ ~Refused(o, req[r].as)
    <3>1. o.kind \in {"role", "remove"} /\ o.role # "owner" /\ role[o.target] = "owner"
      BY <2>5 DEF Unseats
    <3>2. req[r].as = "owner"
      BY <2>5, <3>1 DEF Refused
    <3> QED
      BY <1>4, <2>1, <2>3, <2>5, <3>1, <3>2
  <2>6. CASE req'[r].pc = "write" /\ ~Unseats(o) /\ ~Refused(o, req[r].as)
    <3>1. o.kind \in {"role", "remove"} /\ "owner" \in {o.role, role[o.target]} => req[r].as = "owner"
      BY <1>1, <2>6 DEF Refused
    <3> QED
      BY <1>4, <2>1, <2>3, <2>6, <3>1
  <2> QED
    BY <2>4, <2>5, <2>6
<1>8. CASE CountOwners(r)
  <2>1. /\ req[r].pc = "count" /\ req'[r].as = req[r].as
        /\ req'[r].pc = IF Cardinality(Owners) <= 1 THEN "done" ELSE "write"
    BY <1>8 DEF CountOwners, MoveTo, TypeOK, Reqs
  <2>2. /\ name # 0 /\ req[r].todo = {} /\ req[r].as = "owner"
        /\ o.kind \in {"role", "remove"}
    BY <2>1 DEF Organization, Staged, Granted
  <2> QED
    BY <1>4, <2>1, <2>2, OwnersFinite
<1>9. CASE GiveUp(r)
  <2>1. req'[r].pc = "done"
    BY <1>9 DEF GiveUp, MoveTo, TypeOK, Reqs
  <2> QED
    BY <2>1
<1> QED
  BY <1>6, <1>7, <1>8, <1>9 DEF Query

\* Who is an owner after a write.
LEMMA WriteOwners ==
  ASSUME TypeOK, NEW r \in Requests, Write(r)
  PROVE  /\ req[r].op.kind = "rename" => Owners' = Owners
         /\ req[r].op.kind # "rename" =>
              Owners' = IF req[r].op.role = "owner" THEN Owners \cup {req[r].op.target}
                        ELSE Owners \ {req[r].op.target}
<1> DEFINE o == req[r].op
<1>1. o.target \in Users
  BY DEF TypeOK, Reqs
<1> QED
  BY <1>1 DEF Write, Owners, TypeOK

LEMMA WriteKeepsOwner ==
  ASSUME TypeOK, Organization, NEW r \in Requests, Write(r)
  PROVE  OwnerKept'
<1> DEFINE o == req[r].op
<1>0. o \in Ops /\ o.kind \in Kinds /\ req[r].pc = "write" /\ Writable(o)
  BY DEF Write, TypeOK, Reqs
<1>1. SUFFICES ASSUME ~raced', name' # 0 PROVE Owners' # {}
  BY DEF OwnerKept
<1>2. ~raced /\ ~(req[r].dis /\ Unseats(o))
  BY <1>1 DEF Write
<1>3. CASE o.kind = "create"
  <2>1. o.role = "owner"
    BY <1>0, <1>3
  <2> QED
    BY <1>3, <2>1, WriteOwners
<1>4. CASE o.kind # "create"
  <2>1. name # 0
    BY <1>0, <1>4 DEF Organization, Staged
  <2>2. Owners # {}
    BY <1>2, <2>1 DEF Organization, OwnerKept
  <2>3. CASE Unseats(o)
    <3>1. Cardinality(Owners) >= 2
      BY <1>0, <1>2, <2>3 DEF Organization, Counted
    <3>2. Owners' = Owners \ {o.target}
      BY <2>3, WriteOwners DEF Unseats
    <3>3. Cardinality(Owners \ {o.target}) >= 1
      BY SMTT(30), <3>1, OwnersFinite, FS_RemoveElement
    <3> QED
      BY <3>2, <3>3, FS_EmptySet
  <2>4. CASE ~Unseats(o)
    <3>1. o.kind = "rename" \/ o.role = "owner" \/ role[o.target] # "owner"
      BY <1>0, <1>4, <2>4 DEF Unseats, Kinds, Writable
    <3> QED
      BY <2>2, <3>1, WriteOwners DEF Owners
  <2> QED
    BY <2>3, <2>4
<1> QED
  BY <1>3, <1>4

LEMMA WriteOrganization ==
  ASSUME TypeOK, TypeOK', Organization, NEW r \in Requests, Write(r)
  PROVE  Organization'
<1>1. req'[r].pc = "done" /\ name' # 0
  <2>1. name # 0 \/ req[r].op.kind = "create"
    BY DEF Write, Organization, Staged
  <2>2. name' # 0
    BY <2>1 DEF Write, TypeOK
  <2>3. req'[r].pc = "done"
    BY ZenonT(30) DEF Write, TypeOK, Reqs
  <2> QED
    BY <2>2, <2>3
<1>2. ASSUME NEW q \in Requests, q # r
      PROVE  /\ req'[q].pc = req[q].pc /\ req'[q].op = req[q].op /\ req'[q].as = req[q].as
             /\ req'[q].todo = req[q].todo /\ req[q].op \in Ops /\ req[q].op.target \in Users
             /\ req[q].pc = "write" /\ ~req'[q].dis => Owners' = Owners /\ ~req[q].dis
  BY <1>2 DEF Write, TypeOK, Reqs
<1>3. Staged'
  BY <1>1, <1>2 DEF Organization, Staged
<1>4. Counted'
  <2> SUFFICES ASSUME NEW q \in Requests, (req[q].pc = "write")', (~req[q].dis)', Unseats(req[q].op)'
               PROVE  (Cardinality(Owners) >= 2)'
    BY DEF Counted
  <2>1. q # r /\ Owners' = Owners /\ ~req[q].dis /\ req[q].pc = "write"
    BY <1>1, <1>2
  <2>2. Unseats(req[q].op)
    BY <1>2, <2>1, SameOwners DEF Unseats
  <2> QED
    BY <2>1, <2>2 DEF Organization, Counted
<1>5. Granted'
  <2> SUFFICES ASSUME NEW q \in Requests
               PROVE  /\ req'[q].pc = "count" => req'[q].as = "owner"
                      /\ req'[q].pc \in {"target", "write"} /\ req'[q].op.kind = "add"
                         /\ req'[q].op.role = "owner" => req'[q].as = "owner"
                      /\ req'[q].pc = "write" /\ ~req'[q].dis
                         /\ req'[q].op.kind \in {"role", "remove"}
                         /\ "owner" \in {req'[q].op.role, role'[req'[q].op.target]}
                           => req'[q].as = "owner"
    BY DEF Granted
  <2>1. CASE q = r
    BY <1>1, <2>1
  <2>2. CASE q # r
    <3>1. req'[q].pc = "write" /\ ~req'[q].dis =>
            ((role'[req[q].op.target] = "owner") <=> (role[req[q].op.target] = "owner"))
      BY <1>2, <2>2, SameOwners
    <3> QED
      BY <1>2, <2>2, <3>1 DEF Organization, Granted
  <2> QED
    BY <2>1, <2>2
<1> QED
  BY <1>3, <1>4, <1>5, WriteKeepsOwner DEF Organization

LEMMA InvalidateOrganization ==
  ASSUME TypeOK, Organization, NEW r \in Requests, NEW k \in Keys,
         Invalidate(r, k) \/ InvalidationLost(r, k)
  PROVE  Organization'
<1>1. /\ UNCHANGED <<name, role, raced>> /\ Owners' = Owners
      /\ \A o \in Ops : Unseats(o)' = Unseats(o)
  BY DEF Invalidate, InvalidationLost, orgVars, Owners, Unseats
<1>2. \A q \in Requests :
        /\ req'[q].pc = req[q].pc /\ req'[q].op = req[q].op /\ req'[q].as = req[q].as
        /\ req'[q].dis = req[q].dis /\ req'[q].todo \subseteq req[q].todo /\ req[q].op \in Ops
  BY DEF Invalidate, InvalidationLost, TypeOK, Reqs
<1>3. Staged' /\ Granted'
  BY <1>1, <1>2 DEF Organization, Staged, Granted
<1>4. Counted' /\ OwnerKept'
  BY <1>1, <1>2 DEF Organization, Counted, OwnerKept
<1> QED
  BY <1>3, <1>4 DEF Organization

LEMMA InvStep == IInv /\ [Next]_vars => IInv'
<1> SUFFICES ASSUME IInv, [Next]_vars PROVE IInv'
  OBVIOUS
<1>0. TypeOK /\ Organization /\ Answers /\ Staged /\ Founded /\ TypeOK'
  BY TypeStep DEF IInv, Organization, Answers
<1>1. SUFFICES Organization' /\ Answers'
  BY <1>0, <1>1 DEF IInv, Organization, Answers
<1>2. ASSUME UNCHANGED <<name, role, raced, req>> PROVE Organization'
  BY <1>0, <1>2 DEF Organization, Staged, Counted, Granted, OwnerKept, Unseats, Owners
<1>3. ASSUME NEW pk \in Pairs, CacheStep(pk), UNCHANGED <<orgVars, req>> PROVE Organization' /\ Answers'
  BY <1>0, <1>2, <1>3, CacheAnswers DEF orgVars
<1>4. ASSUME NEW k \in Keys, Expire(k, NoView), UNCHANGED <<orgVars, req>> PROVE Organization' /\ Answers'
  BY <1>0, <1>2, <1>4, ExpireAnswers DEF orgVars
<1>5. ASSUME NEW r \in Requests, RequestStep(r) PROVE Organization' /\ Answers'
  <2>1. Answers'
    BY <1>0, <1>5, RequestAnswers
  <2>2. Organization'
    BY <1>0, <1>5, QueryOrganization, WriteOrganization, InvalidateOrganization DEF RequestStep, Query
  <2> QED
    BY <2>1, <2>2
<1>6. CASE UNCHANGED vars
  <2>1. Answers'
    BY <1>0, <1>6 DEF vars, cacheVars, Answers, Founded, Traced, StaleExplained, Stale, View,
       Pending, KeyOf
  <2> QED
    BY <1>2, <1>6, <2>1 DEF vars
<1> QED
  BY <1>3, <1>4, <1>5, <1>6 DEF Next

LEMMA Invariance == Spec => []IInv
  BY InitIInv, InvStep, PTL DEF Spec

\* An organization that exists has an owner, unless a request unseated one on a
\* count that another had changed.
THEOREM LastOwnerStays == Spec => []OwnerKept
<1>1. IInv => OwnerKept
  BY DEF IInv
<1> QED
  BY <1>1, Invariance, PTL

\* A stored answer that is stale has an UNLINK to come, or is excused.
THEOREM NoSilentStaleness == Spec => []StaleExplained
<1>1. IInv => StaleExplained
  BY DEF IInv
<1> QED
  BY <1>1, Invariance, PTL

\* The owner role changes hands only through a request whose caller it read as an
\* owner, through the founding, or through one that was overtaken.
THEOREM OwnersRule == Spec => OwnershipByOwners
<1> DEFINE Rule ==
      \A u \in Users : (role[u] = "owner") # (role'[u] = "owner") =>
        \E r \in Requests :
          /\ req[r].pc = "write" /\ req'[r].pc = "done"
          /\ req[r].as = "owner" \/ req[r].dis \/ req[r].op.kind = "create"
<1>1. IInv /\ [Next]_vars => [Rule]_vars
  <2> SUFFICES ASSUME IInv, Next, NEW u \in Users, (role[u] = "owner") # (role'[u] = "owner")
               PROVE  \E r \in Requests :
                        /\ req[r].pc = "write" /\ req'[r].pc = "done"
                        /\ req[r].as = "owner" \/ req[r].dis \/ req[r].op.kind = "create"
    OBVIOUS
  <2>1. PICK r \in Requests : Write(r)
    BY QueryKeeps DEF Next, RequestStep, Query, Invalidate, InvalidationLost, orgVars, IInv
  <2> DEFINE o == req[r].op
  <2>2. /\ req[r].pc = "write" /\ req'[r].pc = "done" /\ Writable(o)
        /\ o \in Ops /\ o.kind \in Kinds /\ o.target \in Users
        /\ role' = IF o.kind = "rename" THEN role ELSE [role EXCEPT ![o.target] = o.role]
    BY <2>1 DEF Write, IInv, TypeOK, Reqs
  <2>3. o.kind # "rename" /\ u = o.target /\ role'[u] = o.role
    BY <2>2 DEF IInv, TypeOK
  <2>4. CASE o.kind = "add"
    BY <2>2, <2>3, <2>4 DEF Writable, IInv, Granted
  <2>5. CASE o.kind \in {"role", "remove"}
    BY <2>2, <2>3, <2>5 DEF IInv, Granted
  <2> QED
    BY <2>2, <2>3, <2>4, <2>5 DEF Kinds
<1> QED
  BY <1>1, Invariance, PTL DEF Spec, OwnershipByOwners
=============================================================================
