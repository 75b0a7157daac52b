------------------------------ MODULE FifoLock ------------------------------
(***************************************************************************)
(* What withLock promises without Redis: in one process the functions      *)
(* given for one key run one at a time, in the order of their calls; a     *)
(* call that finds the key free starts at once, and a function that ends   *)
(* starts the next.                                                        *)
(***************************************************************************)
EXTENDS Sequences

CONSTANTS Calls, Procs, Proc, Keys, Key  \* as in LockService

VARIABLES
  waiting, \* waiting[p][k]: the calls in process p that wait for key k
  inside   \* calls whose function runs

vars == <<waiting, inside>>

Init == waiting = [p \in Procs |-> [k \in Keys |-> <<>>]] /\ inside = {}

Busy(p, k) == \E c \in inside : Proc[c] = p /\ Key[c] = k
Queue(c) == waiting[Proc[c]][Key[c]]
Requeue(c, q) == waiting' = [waiting EXCEPT ![Proc[c]][Key[c]] = q]

Start(c) ==
  /\ ~Busy(Proc[c], Key[c])
  /\ inside' = inside \cup {c}
  /\ UNCHANGED waiting

Wait(c) ==
  /\ Busy(Proc[c], Key[c])
  /\ c \notin inside
  /\ \A i \in DOMAIN Queue(c) : Queue(c)[i] # c
  /\ Requeue(c, Append(Queue(c), c))
  /\ UNCHANGED inside

\* The function of c ends.
Leave(c) ==
  /\ c \in inside
  /\ IF Queue(c) = <<>>
       THEN inside' = inside \ {c} /\ UNCHANGED waiting
       ELSE /\ inside' = (inside \ {c}) \cup {Head(Queue(c))}
            /\ Requeue(c, Tail(Queue(c)))

Crash(p) ==
  /\ waiting' = [waiting EXCEPT ![p] = [k \in Keys |-> <<>>]]
  /\ inside' = {c \in inside : Proc[c] # p}

Next ==
  \/ \E c \in Calls : Start(c) \/ Wait(c) \/ Leave(c)
  \/ \E p \in Procs : Crash(p)

Spec == Init /\ [][Next]_vars
=============================================================================
