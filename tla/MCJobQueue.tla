----------------------------- MODULE MCJobQueue -----------------------------
(* JobQueue for TLC: two replicas and two jobs. *)
EXTENDS JobQueue

CONSTANTS w1, w2

TwoWorkers == {w1, w2}
=============================================================================
