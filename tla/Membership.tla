----------------------------- MODULE Membership -----------------------------
(***************************************************************************)
(* The members of one organization, backend/src/controllers/               *)
(* organization.ts: requests that create it, change who belongs to it with *)
(* which role, or rename it, in several processes; and the cached answers  *)
(* of getOrganization ("org") and listOrganizations ("list") of its users. *)
(*                                                                         *)
(* A request is a sequence of awaited queries without a transaction, and   *)
(* then an UNLINK of the keys its write makes stale.  A request that is    *)
(* refused has changed nothing.                                            *)
(***************************************************************************)
EXTENDS Cache

CONSTANTS
  Users,    \* user ids
  Requests, \* each carries out one operation
  Ops,      \* the operations requests may ask for
  Starts,   \* the roles the users may have at first; none of them: no organization yet
  NoView    \* the answer to a user who is not a member

Roles == {"owner", "admin", "member", "none"} \* "none": no membership row
Kinds == {"create", "add", "role", "remove", "rename"}

ASSUME KeysAssumption == Keys \subseteq {"org", "list"} \X Users
ASSUME OpsAssumption ==
  /\ Ops \subseteq [kind : Kinds, caller : Users, target : Users, role : Roles]
  /\ \A o \in Ops : /\ o.kind = "create" => o.target = o.caller /\ o.role = "owner"
                    /\ o.kind \in {"add", "role"} => o.role # "none"
                    /\ o.kind = "remove" => o.role = "none"
ASSUME StartsAssumption ==
  /\ Starts \subseteq [Users -> Roles]
  /\ \A f \in Starts : \/ \A u \in Users : f[u] = "none"
                       \/ \E u \in Users : f[u] = "owner"
ASSUME UsersAssumption == IsFiniteSet(Users)

VARIABLES
  name, \* 0: there is no organization; each rename gives it another name
  role, \* role[u] of user u
  req,  \* req[r]: how far request r is, what it read and the keys it has yet to unlink
  raced \* ghost: an owner was unseated on a count of the owners that had changed since

vars == <<name, role, req, raced, cacheVars>>
orgVars == <<name, role, raced>>

Views ==
  {NoView} \cup [name : Nat, roles : [Users -> Roles]] \cup [name : Nat, role : Roles]

Reqs == [pc : {"idle", "target", "count", "write", "done"}, op : Ops, at : Processes,
         as : Roles, dis : BOOLEAN, todo : SUBSET Keys]

\* The types of the variables.
TypeOK ==
  /\ CacheTypeOK(Views)
  /\ name \in Nat
  /\ role \in [Users -> Roles]
  /\ req \in [Requests -> Reqs]
  /\ raced \in BOOLEAN

Init ==
  /\ CacheInit
  /\ role \in Starts
  /\ name = IF \E u \in Users : role[u] # "none" THEN 1 ELSE 0
  /\ req \in [Requests -> [pc : {"idle"}, op : Ops, at : Processes, as : {"none"},
                            dis : {FALSE}, todo : {{}}]]
  /\ raced = FALSE

-----------------------------------------------------------------------------
Owners == {u \in Users : role[u] = "owner"}

\* Mutant: the role is left out of the list of organizations.
ViewWithoutRole(k) ==
  IF role[k[2]] = "none" THEN NoView
  ELSE IF k[1] = "org" THEN [name |-> name, roles |-> role]
  ELSE [name |-> name]

\* What the fetcher of key k reads from the database.
View(k) ==
  IF role[k[2]] = "none" THEN NoView
  ELSE IF k[1] = "org" THEN [name |-> name, roles |-> role]
  ELSE [name |-> name, role |-> role[k[2]]]

\* Mutant: only the list of the target is unlinked.
TouchedList(o) ==
  {k \in Keys : k = <<"list", IF o.kind \in {"create", "rename"} THEN o.caller ELSE o.target>>}

\* The keys an operation unlinks once it has written ...
Touched(o) ==
  {k \in Keys : CASE o.kind = "create" -> k = <<"list", o.caller>>
                  [] o.kind = "rename" -> k[1] = "org" \/ k = <<"list", o.caller>>
                  [] OTHER             -> k[1] = "org" \/ k = <<"list", o.target>>}
\* ... and those it makes stale and leaves alone: updateOrganization unlinks
\* the list of its caller, and the name is in the list of every member.
Unlisted(o) ==
  IF o.kind = "rename" THEN {k \in Keys : k[1] = "list" /\ k[2] # o.caller} ELSE {}

\* The operation takes the owner role from its target.
Unseats(o) == o.kind \in {"role", "remove"} /\ o.role # "owner" /\ role[o.target] = "owner"

MoveTo(r, pc) == req' = [req EXCEPT ![r].pc = pc]

\* The first query of a request: the slug is free, or the caller may do it.
Begin(r) ==
  LET o == req[r].op IN
  /\ req[r].pc = "idle"
  /\ IF o.kind = "create"
     THEN name = 0
     ELSE /\ role[o.caller] \in {"owner", "admin"}
          /\ o.kind = "add" /\ o.role = "owner" => role[o.caller] = "owner"
  /\ req' = [req EXCEPT ![r].as = role[o.caller],
                        ![r].pc = IF o.kind \in {"create", "rename"} THEN "write" ELSE "target"]
  /\ UNCHANGED <<orgVars, cacheVars>>

\* Mutant: an admin may grant the owner role.
RefusedGrants(o, as) ==
  \/ o.kind = "add" /\ role[o.target] # "none"
  \/ o.kind = "role" /\ (role[o.target] = "none" \/ (role[o.target] = "owner" /\ as # "owner"))
  \/ o.kind = "remove" /\ role[o.target] = "owner" /\ as # "owner"

\* What the row of the target refuses.
Refused(o, as) ==
  \/ o.kind = "add" /\ role[o.target] # "none"
  \/ o.kind = "role" /\ \/ role[o.target] = "none"
                        \/ "owner" \in {o.role, role[o.target]} /\ as # "owner"
  \/ o.kind = "remove" /\ role[o.target] = "owner" /\ as # "owner"

\* The second query: the row of the target.
ReadTarget(r) ==
  LET o == req[r].op IN
  /\ req[r].pc = "target"
  /\ MoveTo(r, IF Refused(o, req[r].as) THEN "done"
               ELSE IF Unseats(o) THEN "count" ELSE "write")
  /\ UNCHANGED <<orgVars, cacheVars>>

\* Mutant: one owner is enough.
CountOwnersLax(r) ==
  /\ req[r].pc = "count"
  /\ MoveTo(r, IF Cardinality(Owners) < 1 THEN "done" ELSE "write")
  /\ UNCHANGED <<orgVars, cacheVars>>

\* The third, before an owner is unseated: how many owners there are.
CountOwners(r) ==
  /\ req[r].pc = "count"
  /\ MoveTo(r, IF Cardinality(Owners) <= 1 THEN "done" ELSE "write")
  /\ UNCHANGED <<orgVars, cacheVars>>

\* The row, or the organization, that the write needs or must not find.
Writable(o) ==
  CASE o.kind = "create" -> name = 0
    [] o.kind = "add"    -> role[o.target] = "none"
    [] o.kind = "rename" -> name # 0
    [] OTHER             -> role[o.target] # "none"

\* The write commits; other requests about to write now rest on what they read
\* before it (dis).
Write(r) ==
  LET o == req[r].op IN
  /\ req[r].pc = "write"
  /\ Writable(o)
  /\ name' = IF o.kind \in {"create", "rename"} THEN name + 1 ELSE name
  /\ role' = IF o.kind = "rename" THEN role ELSE [role EXCEPT ![o.target] = o.role]
  /\ raced' = (raced \/ (req[r].dis /\ Unseats(o)))
  /\ req' = [q \in Requests |->
       IF q = r THEN [req[r] EXCEPT !.pc = "done", !.todo = Touched(o)]
       ELSE IF req[q].pc = "write" /\ Owners' # Owners THEN [req[q] EXCEPT !.dis = TRUE]
       ELSE req[q]]
  /\ Forget(Unlisted(o))

\* A query throws, or the process dies, before the write.
GiveUp(r) ==
  /\ req[r].pc \in {"target", "count", "write"}
  /\ MoveTo(r, "done")
  /\ UNCHANGED <<orgVars, cacheVars>>

Invalidate(r, k) ==
  /\ k \in req[r].todo
  /\ req' = [req EXCEPT ![r].todo = @ \ {k}]
  /\ Unlink(req[r].at, k)
  /\ UNCHANGED orgVars

\* SCAN or UNLINK throws, or the process dies, after the write.
InvalidationLost(r, k) ==
  /\ k \in req[r].todo
  /\ req' = [req EXCEPT ![r].todo = @ \ {k}]
  /\ Forget({k})
  /\ UNCHANGED orgVars

-----------------------------------------------------------------------------
\* The id of an organization is a fresh UUID: nobody asks for it before.
Lookup(pk) ==
  /\ pk[2][1] = "org" => name # 0
  /\ Fetch(pk, View(pk[2]))

CacheStep(pk) == Lookup(pk) \/ Settle(pk) \/ Store(pk) \/ StoreFails(pk)

RequestStep(r) ==
  \/ Begin(r) \/ ReadTarget(r) \/ CountOwners(r) \/ Write(r) \/ GiveUp(r)
  \/ \E k \in Keys : Invalidate(r, k) \/ InvalidationLost(r, k)

Next ==
  \/ \E pk \in Pairs : CacheStep(pk) /\ UNCHANGED <<orgVars, req>>
  \/ \E k \in Keys : Expire(k, NoView) /\ UNCHANGED <<orgVars, req>>
  \/ \E r \in Requests : RequestStep(r)

\* A fetch that was answered settles, Redis executes or refuses what it is sent,
\* and every stored value has a time to live.
Fairness ==
  /\ \A pk \in Pairs : /\ WF_vars(Settle(pk) /\ UNCHANGED <<orgVars, req>>)
                       /\ WF_vars((Store(pk) \/ StoreFails(pk)) /\ UNCHANGED <<orgVars, req>>)
  /\ \A k \in Keys : WF_vars(Expire(k, NoView) /\ UNCHANGED <<orgVars, req>>)

Spec == Init /\ [][Next]_vars /\ Fairness

-----------------------------------------------------------------------------
\* "Never let the org end up without an owner" (organization.ts:181, 262): an
\* organization without an owner lost the last one to a request that counted
\* two, and that another one overtook before it wrote.
OwnerKept == name # 0 /\ ~raced => Owners # {}

\* The owner role is given and taken by owners (organization.ts:108-114, 172-179,
\* 255-260): the request that does it read its caller as an owner, or founded the
\* organization, or the owners changed after the last thing it read.
OwnershipByOwners ==
  [][\A u \in Users : (role[u] = "owner") # (role'[u] = "owner") =>
       \E r \in Requests :
         /\ req[r].pc = "write" /\ req'[r].pc = "done"
         /\ req[r].as = "owner" \/ req[r].dis \/ req[r].op.kind = "create"]_vars

Stale(k) == \E v \in cache[k] : v # View(k)

\* A stored answer differs from the database only as long as some request has
\* yet to unlink it, or when nothing is going to: the value was read before a
\* write and stored after its UNLINK, the UNLINK was lost, or the name changed
\* and the list is not that of the user who changed it.
StaleExplained ==
  \A k \in Keys : Stale(k) => k \in excused \/ \E r \in Requests : k \in req[r].todo

\* The time to live heals what invalidation misses: when the writes are over,
\* no stored answer stays stale.
EventuallyFresh == <>[](\A k \in Keys : ~Stale(k))
=============================================================================
