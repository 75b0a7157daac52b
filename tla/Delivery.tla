------------------------------ MODULE Delivery ------------------------------
(***************************************************************************)
(* What the dispatcher promises about each delivery, without pods, ticks   *)
(* and times: one request is under way at a time, it is the next of at     *)
(* most MAX_ATTEMPTS, its own answer decides the outcome, and an outcome   *)
(* stands until somebody asks for a replay.  Once an attempt is begun over *)
(* another that is still running, nothing more is promised of the row.     *)
(***************************************************************************)
EXTENDS Naturals

CONSTANTS Rows, MAX_ATTEMPTS \* as in WebhookDelivery

VARIABLES
  status,  \* status[d]: none before d exists, pending, success, failed or
           \* overlapped
  tries,   \* tries[d]: attempts that have ended
  request  \* request[d]: the request under way, and what became of it so far

vars == <<status, tries, request>>

Init ==
  /\ status = [d \in Rows |-> "none"]
  /\ tries = [d \in Rows |-> 0]
  /\ request = [d \in Rows |-> "none"]

SetRequest(d, r) == request' = [request EXCEPT ![d] = r]

Make(d) ==
  /\ status[d] = "none"
  /\ status' = [status EXCEPT ![d] = "pending"]
  /\ UNCHANGED <<tries, request>>

Send(d) ==
  /\ status[d] = "pending" /\ request[d] = "none"
  /\ tries[d] < MAX_ATTEMPTS
  /\ SetRequest(d, "waiting")
  /\ UNCHANGED <<status, tries>>

\* An accepted request may still be rejected: the rest of the answer, or its
\* outcome, is lost.
Accept(d) ==
  request[d] = "waiting" /\ SetRequest(d, "accepted") /\ UNCHANGED <<status, tries>>
Reject(d) ==
  request[d] \in {"waiting", "accepted"} /\ SetRequest(d, "rejected") /\ UNCHANGED <<status, tries>>

End(d, outcome) ==
  /\ status[d] = "pending"
  /\ status' = [status EXCEPT ![d] = outcome]
  /\ tries' = [tries EXCEPT ![d] = @ + 1]
  /\ SetRequest(d, "none")

Succeed(d) == request[d] = "accepted" /\ End(d, "success")

Fail(d) ==
  /\ request[d] = "rejected"
  /\ End(d, IF tries[d] + 1 < MAX_ATTEMPTS THEN "pending" ELSE "failed")

\* The delivery is given up before a request is made; the attempt may count.
Refuse(d) ==
  /\ status[d] = "pending" /\ request[d] = "none"
  /\ status' = [status EXCEPT ![d] = "failed"]
  /\ tries' \in {tries, [tries EXCEPT ![d] = @ + 1]}
  /\ UNCHANGED request

\* The requests of D are over and nobody has written what became of them.
Lose(D) ==
  /\ request' = [d \in Rows |-> IF d \in D THEN "none" ELSE request[d]]
  /\ UNCHANGED <<status, tries>>

Reset(d) ==
  /\ status[d] \notin {"none", "overlapped"}
  /\ status' = [status EXCEPT ![d] = "pending"]
  /\ UNCHANGED <<tries, request>>

\* Attempts are begun for the rows of D while others of theirs are running.
Overlap(D) ==
  /\ \A d \in D : status[d] = "pending"
  /\ status' = [d \in Rows |-> IF d \in D THEN "overlapped" ELSE status[d]]
  /\ tries' = [d \in Rows |-> IF d \in D THEN 0 ELSE tries[d]]
  /\ request' = [d \in Rows |-> IF d \in D THEN "none" ELSE request[d]]

Next ==
  \/ \E d \in Rows : \/ Make(d) \/ Send(d) \/ Accept(d) \/ Reject(d)
                     \/ Succeed(d) \/ Fail(d) \/ Refuse(d) \/ Reset(d)
  \/ \E D \in SUBSET Rows : Lose(D) \/ Overlap(D)

Spec == Init /\ [][Next]_vars
=============================================================================
