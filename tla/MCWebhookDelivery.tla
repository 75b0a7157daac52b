------------------------- MODULE MCWebhookDelivery -------------------------
(***************************************************************************)
(* Instances of WebhookDelivery for TLC.                                   *)
(***************************************************************************)
EXTENDS WebhookDelivery, TLC

CONSTANTS d1, d2, p1, p2

OneRow == {d1}
TwoRows == {d1, d2}
OnePod == {p1}
TwoPods == {p1, p2}

\* Rows and pods are interchangeable where no liveness is checked.
RowSymmetry == Permutations(Rows) \cup Permutations(Pods)
=============================================================================
