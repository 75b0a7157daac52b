--------------------------- MODULE MCLockService ---------------------------
(***************************************************************************)
(* Instance of LockService for TLC: three calls in one process and one in  *)
(* another, for one key; each process may or may not have Redis.           *)
(***************************************************************************)
EXTENDS LockService, TLC

CONSTANTS c1, c2, c3, c4, pod1, pod2, k1

CallProc == (c1 :> pod1) @@ (c2 :> pod1) @@ (c3 :> pod1) @@ (c4 :> pod2)
CallKey == [c \in {c1, c2, c3, c4} |-> k1]
=============================================================================
