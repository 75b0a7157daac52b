------------------------------- MODULE Cache -------------------------------
(***************************************************************************)
(* The cache-aside helper of backend/src/utils/cache.ts: withCache in      *)
(* several processes over one Redis, and the invalidation of keys.  What a *)
(* key holds is up to the module that extends this one: it passes the      *)
(* value its fetcher reads to Fetch, and the keys it invalidates to        *)
(* Unlink.                                                                 *)
(*                                                                         *)
(* A value on its way from the database to Redis is a copy.  It is late    *)
(* once an invalidation of its key will no longer remove what it stores.   *)
(***************************************************************************)
EXTENDS Naturals, FiniteSets

CONSTANTS
  Processes, \* server processes, each with a single-flight map
  Keys,      \* cache keys
  MaxCopies  \* bound: fetches and SETs under way at the same time

VARIABLES
  cache,  \* cache[k]: {} or the one value stored under k
  copies, \* values read from the database and not yet stored
  excused \* keys whose stored value nothing is going to remove before it expires

cacheVars == <<cache, copies, excused>>

Pairs == Processes \X Keys
Copies(Values) ==
  [at : Pairs, stage : {"read", "sent"}, val : Values, late : BOOLEAN]

CacheTypeOK(Values) ==
  /\ cache \in [Keys -> SUBSET Values]
  /\ copies \subseteq Copies(Values)
  /\ excused \subseteq Keys

CacheInit ==
  /\ cache = [k \in Keys |-> {}]
  /\ copies = {} /\ excused = {}

KeyOf(c) == c.at[2]
AtStage(pk, stage) == {c \in copies : c.at = pk /\ c.stage = stage}

\* The copies once their keys in ks have been invalidated, or never will be.
Overtaken(ks) == {IF KeyOf(c) \in ks THEN [c EXCEPT !.late = TRUE] ELSE c : c \in copies}

-----------------------------------------------------------------------------
\* The database answers the fetcher of a process, which runs one fetch of a key
\* at a time: other callers attach to it until it settles.  The key need not be
\* absent any more: the caller's GET answered nil earlier, and nothing looks at
\* Redis again.  A fetcher that throws leaves no trace.
Fetch(pk, value) ==
  /\ AtStage(pk, "read") = {}
  /\ Cardinality(copies) < MaxCopies
  /\ copies' = copies \cup {[at |-> pk, stage |-> "read", val |-> value, late |-> FALSE]}
  /\ UNCHANGED <<cache, excused>>

\* The fetch settles: the single-flight map forgets it, and SET is sent and not
\* awaited.  The connection of a process is a queue, of one SET of a key here.
Settle(pk) ==
  /\ AtStage(pk, "sent") = {}
  /\ \E c \in AtStage(pk, "read") :
       copies' = (copies \ {c}) \cup {[c EXCEPT !.stage = "sent"]}
  /\ UNCHANGED <<cache, excused>>

Store(pk) ==
  \E c \in AtStage(pk, "sent") :
    /\ cache' = [cache EXCEPT ![pk[2]] = {c.val}]
    /\ copies' = copies \ {c}
    /\ excused' = IF c.late THEN excused \cup {pk[2]} ELSE excused \ {pk[2]}

\* SET throws, and the error is swallowed.
StoreFails(pk) ==
  \E c \in AtStage(pk, "sent") :
    /\ copies' = copies \ {c}
    /\ UNCHANGED <<cache, excused>>

\* Mutant: only a negative result is set with a time to live.
ExpireNegative(k, negative) ==
  /\ cache[k] = {negative}
  /\ cache' = [cache EXCEPT ![k] = {}]
  /\ excused' = excused \ {k}
  /\ UNCHANGED copies

\* The time to live of a stored value ends.
Expire(k, negative) ==
  /\ cache[k] # {}
  /\ cache' = [cache EXCEPT ![k] = {}]
  /\ excused' = excused \ {k}
  /\ UNCHANGED copies

\* UNLINK of k by process p, whose earlier SETs Redis has executed.  When SCAN
\* does not find k there is nothing to unlink: then this is the SCAN.
Unlink(p, k) ==
  /\ AtStage(<<p, k>>, "sent") = {}
  /\ cache' = [cache EXCEPT ![k] = {}]
  /\ copies' = Overtaken({k})
  /\ excused' = excused \ {k}

\* What is stored or on its way under the keys ks is never invalidated.
Forget(ks) ==
  /\ copies' = Overtaken(ks)
  /\ excused' = excused \cup ks
  /\ UNCHANGED cache
=============================================================================
