------------------------------- MODULE MCTTSJob -------------------------------
(***************************************************************************)
(* Instances of TTSJob for TLC: one job in a pod that also serves the      *)
(* streams, and a cancellation in another process.                         *)
(***************************************************************************)
EXTENDS TTSJob, TLC

CONSTANTS pod, other, job, k1

MCSite == (pod :> pod) @@ (job :> pod) @@ (k1 :> other) @@ [c \in Conns |-> pod]
MCTarget == (k1 :> job)
=============================================================================
