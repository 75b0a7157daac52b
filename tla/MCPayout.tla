------------------------------ MODULE MCPayout ------------------------------
(***************************************************************************)
(* Instances of Payout for TLC: one process or two, one or two activities  *)
(* in each, and a workload of one crypto job or one batch.                 *)
(***************************************************************************)
EXTENDS Payout, TLC

CONSTANTS j1, j2, c1, b1, g1, p1, p2, s1, s2, s3

OneGroup == [r \in Requests |-> g1]
SlotProcs == [w \in Slots |-> IF w = s3 THEN p2 ELSE p1]

\* One crypto payout.
OneCrypto == (j1 :> <<c1>>)

\* A batch of a bank payout and a crypto payout; j2 is the id of the job that
\* re-enqueues one of them.
MixedBatch == (j1 :> <<b1, c1>>)

\* A batch of one crypto payout.
SmallBatch == (j1 :> <<c1>>)
=============================================================================
