----------------------------- MODULE JobLedger -----------------------------
(***************************************************************************)
(* What svc-jobs promises the caller of POST /api/jobs/enqueue, with no    *)
(* worker, transaction or clock in sight: a submitted job is settled at    *)
(* most once, as "done" only when its webhook has accepted a delivery, as  *)
(* "dead" only when max_attempts deliveries have failed.  A webhook may    *)
(* be called again after the job is settled (delivery is at least once).   *)
(***************************************************************************)
EXTENDS Naturals

CONSTANT Job            \* ids of the rows of table jobs

VARIABLES
    status,             \* status[j]: "absent" before the INSERT
    limit,              \* limit[j]: max_attempts of the row
    accepted,           \* jobs whose webhook has answered 2xx at least once
    failed              \* failed[j]: deliveries of j that came back an error

ledgerVars == <<status, limit, accepted, failed>>

Pending == { j \in Job : status[j] = "pending" }

Init ==
    /\ status = [j \in Job |-> "absent"]
    /\ limit = [j \in Job |-> 0]
    /\ accepted = {}
    /\ failed = [j \in Job |-> 0]

Submit(j) ==
    /\ status[j] = "absent"
    /\ status' = [status EXCEPT ![j] = "pending"]
    /\ limit'[j] \in Nat \ {0}
    /\ limit' = [limit EXCEPT ![j] = limit'[j]]
    /\ UNCHANGED <<accepted, failed>>

Accept(j) ==
    /\ status[j] # "absent"
    /\ accepted' = accepted \cup {j}
    /\ UNCHANGED <<status, limit, failed>>

Fail(j) ==
    /\ status[j] # "absent"
    /\ failed' = [failed EXCEPT ![j] = @ + 1]
    /\ UNCHANGED <<status, limit, accepted>>

\* One commit settles a batch: D is done, X is given up.
Settle(D, X) ==
    /\ D \cap X = {}
    /\ D \subseteq accepted
    /\ \A j \in X : failed[j] >= limit[j]
    /\ status' = [j \in Job |-> IF j \in D THEN "done"
                                ELSE IF j \in X THEN "dead" ELSE status[j]]
    /\ UNCHANGED <<limit, accepted, failed>>

Next ==
    \/ \E j \in Job : Submit(j) \/ Accept(j) \/ Fail(j)
    \/ \E D, X \in SUBSET Pending : Settle(D, X)

Spec == Init /\ [][Next]_ledgerVars

=============================================================================
