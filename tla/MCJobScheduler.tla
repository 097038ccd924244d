--------------------------- MODULE MCJobScheduler ---------------------------
(* JobScheduler for TLC: two replicas and one schedule. *)
EXTENDS JobScheduler

CONSTANTS r1, r2, s1

TwoReplicas == {r1, r2}
OneSchedule == {s1}
=============================================================================
