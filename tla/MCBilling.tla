----------------------------- MODULE MCBilling -----------------------------
(***************************************************************************)
(* Instances of Billing for TLC: plans of two and three credits, two       *)
(* webhook handlers, calls that share a reference for one action or for    *)
(* two, and the costs of ACTION_COST for these actions.                    *)
(***************************************************************************)
EXTENDS Billing, TLC

CONSTANTS c1, c2, c3, c4, r1, e1, e2, h1, h2, analyze, publish, topup

\* Two deductions for one action and reference, one for another action with that
\* reference, and a refund of the first action, without a reference.
Kind4 == (c1 :> "deduct") @@ (c2 :> "deduct") @@ (c3 :> "deduct") @@ (c4 :> "refund")
Action4 == (c1 :> publish) @@ (c2 :> publish) @@ (c3 :> analyze) @@ (c4 :> publish)
Cost4 == (c1 :> 1) @@ (c2 :> 1) @@ (c3 :> 2) @@ (c4 :> 1)
Ref4 == (c1 :> r1) @@ (c2 :> r1) @@ (c3 :> r1) @@ (c4 :> NoRef)

Kind0 == [c \in {} |-> "deduct"]
Action0 == [c \in {} |-> analyze]
Cost0 == [c \in {} |-> 1]
Ref0 == [c \in {} |-> NoRef]

PlanCredits == ("free" :> 2) @@ ("pro" :> 3)
EventSymmetry == Permutations(Events) \cup Permutations(Handlers) \cup Permutations({c1, c2})
=============================================================================
