------------------------------ MODULE JobQueue ------------------------------
(***************************************************************************)
(* The delivery queue of services/svc-jobs: rows of table jobs, and one    *)
(* deliveryWorker per replica of the service.  deliverBatch opens a        *)
(* transaction, takes up to LIMIT due rows FOR UPDATE SKIP LOCKED, calls   *)
(* the webhook of each (HTTP inside the transaction), stages one UPDATE    *)
(* per row and commits them all at the end.  A crash, a shutdown, a failed *)
(* statement or a lost database connection rolls the whole batch back,     *)
(* although its webhooks have been called.                                 *)
(*                                                                         *)
(* Time: wait[j] is run_at - now, floored at 0; age[w] is the time since   *)
(* w's transaction began, which is what now() means in its UPDATEs.        *)
(* Only HTTP takes time; a statement takes less than a tick.               *)
(***************************************************************************)
EXTENDS Integers, FiniteSets

CONSTANTS
    Worker,        \* replicas running deliveryWorker
    Job,           \* ids of the rows of jobs; BIGSERIAL gives them in order
    BatchSize,     \* LIMIT of the pick-up query
    MaxAttempts,   \* values of maxAttempts callers send; 0 stands for <= 0
    DefaultLimit,  \* max_attempts when the caller sent none
    Delays,        \* how far in the future callers put run_at
    CallTicks,     \* Timeout of webhookClient, in ticks
    TokenTicks,    \* longest serviceToken() exchange before the call, in ticks
    Minute,        \* the unit of the backoff, in ticks
    MaxAborts      \* bound: crashes and lost connections in a behaviour

ASSUME WorkerAssumption == IsFiniteSet(Worker)
ASSUME JobAssumption == Job \subseteq Nat
ASSUME LimitAssumption ==
    /\ BatchSize \in Nat \ {0}
    /\ DefaultLimit \in Nat \ {0}
    /\ MaxAttempts \subseteq Nat
ASSUME TimeAssumption ==
    /\ Delays \subseteq Nat
    /\ CallTicks \in Nat /\ TokenTicks \in Nat /\ Minute \in Nat
    /\ MaxAborts \in Nat

VARIABLES
    \* table jobs
    status,        \* "absent" | "pending" | "done" | "dead"
    attempts,
    limit,         \* max_attempts
    wait,          \* ticks until run_at
    \* each worker
    phase,         \* "sleep" | "loop" (between rows) | "call" (in deliver)
    alive,         \* its transaction is still open on the server
    batch,         \* rows its query returned (locked while alive)
    seen,          \* attempts of those rows as read
    won, lost,     \* rows whose UPDATE is staged: delivered, failed
    reached,       \* the webhook has accepted the call in progress
    age,           \* ticks since the transaction began
    spent,         \* ticks the call in progress has taken
    \* history, read only by the properties
    sends,         \* calls made to the webhook of each job
    accepted,      \* jobs whose webhook has answered 2xx
    failed,        \* calls of each job that failed and were staged
    wasted,        \* calls of each job whose outcome was rolled back
    aborts

rowVars     == <<status, attempts, limit, wait>>
txVars      == <<alive, batch, seen, won, lost, age>>
callVars    == <<reached, spent>>
historyVars == <<sends, accepted, failed, wasted, aborts>>
vars        == <<rowVars, phase, txVars, callVars, historyVars>>

-----------------------------------------------------------------------------
Locked == UNION { batch[w] : w \in { v \in Worker : alive[v] } }

\* Mutant: FOR UPDATE without SKIP LOCKED, on a snapshot.
Due_NoSkipLocked == { j \in Job : status[j] = "pending" /\ wait[j] = 0 }

\* Mutant: the query forgets status='pending'.
Due_AnyStatus == { j \in Job : status[j] # "absent" /\ wait[j] = 0 } \ Locked

\* WHERE status='pending' AND run_at <= now() ... SKIP LOCKED
Due == { j \in Job : status[j] = "pending" /\ wait[j] = 0 } \ Locked

Staged(w) == won[w] \cup lost[w]
Todo(w)   == batch[w] \ Staged(w)

\* The row the loop of deliverBatch is at: rows come in order of id.
Current(w) == { j \in Todo(w) : \A k \in Todo(w) : j <= k }

Calling(w, j) == phase[w] = "call" /\ j \in Current(w)

\* Calls of w's transaction that are not recorded yet.
Uncommitted(w) == Staged(w) \cup { j \in batch[w] : Calling(w, j) }

\* Mutant: one attempt too many.
Exhausted_OffByOne(w, j) == seen[w][j] + 1 > limit[j]

Exhausted(w, j) == seen[w][j] + 1 >= limit[j]

\* 2^n, as the number of sets of n bits: the provers know no exponentiation.
PowerOfTwo(n) == Cardinality(SUBSET (1..n))

\* Mutant: 1<<uint(attempts).
Backoff_OffByOne(n) == PowerOfTwo(n - 1) * Minute

\* time.Duration(1<<uint(attempts+1)) * time.Minute
Backoff(n) == PowerOfTwo(n) * Minute

\* Mutant: a run_at in the past is not recognised as due.
Remaining_NoFloor(delay, elapsed) == delay - elapsed

\* run_at = now() + backoff, seen from the end of the transaction.
Remaining(delay, elapsed) == IF delay > elapsed THEN delay - elapsed ELSE 0

CallLimit == CallTicks + TokenTicks

-----------------------------------------------------------------------------
Init ==
    /\ status   = [j \in Job |-> "absent"]
    /\ attempts = [j \in Job |-> 0]
    /\ limit    = [j \in Job |-> 0]
    /\ wait     = [j \in Job |-> 0]
    /\ phase    = [w \in Worker |-> "sleep"]
    /\ alive    = [w \in Worker |-> FALSE]
    /\ batch    = [w \in Worker |-> {}]
    /\ seen     = [w \in Worker |-> [j \in Job |-> 0]]
    /\ won      = [w \in Worker |-> {}]
    /\ lost     = [w \in Worker |-> {}]
    /\ reached  = [w \in Worker |-> FALSE]
    /\ age      = [w \in Worker |-> 0]
    /\ spent    = [w \in Worker |-> 0]
    /\ sends    = [j \in Job |-> 0]
    /\ accepted = {}
    /\ failed   = [j \in Job |-> 0]
    /\ wasted   = [j \in Job |-> 0]
    /\ aborts   = 0

\* INSERT INTO jobs; the sequence hands out the ids in order.
Insert(j, max, delay) ==
    /\ status[j] = "absent"
    /\ \A k \in Job : k < j => status[k] # "absent"
    /\ status' = [status EXCEPT ![j] = "pending"]
    /\ limit'  = [limit EXCEPT ![j] = max]
    /\ wait'   = [wait EXCEPT ![j] = delay]
    /\ UNCHANGED <<attempts, phase, txVars, callVars, historyVars>>

\* POST /api/jobs/enqueue
HandleEnqueue(j) ==
    \E m \in MaxAttempts, d \in Delays :
        Insert(j, IF m <= 0 THEN DefaultLimit ELSE m, d)

\* BEGIN and the pick-up query.  An empty result commits at once: a stutter.
TakeBatch(w) ==
    /\ phase[w] = "sleep"
    /\ Due # {}
    /\ \E S \in SUBSET Due :
        /\ Cardinality(S) = IF Cardinality(Due) < BatchSize
                            THEN Cardinality(Due) ELSE BatchSize
        /\ \A j \in S, k \in Due \ S : j < k
        /\ batch' = [batch EXCEPT ![w] = S]
        /\ seen'  = [seen EXCEPT ![w] =
                        [j \in Job |-> IF j \in S THEN attempts[j] ELSE 0]]
    /\ phase' = [phase EXCEPT ![w] = "loop"]
    /\ alive' = [alive EXCEPT ![w] = TRUE]
    /\ age'   = [age EXCEPT ![w] = 0]
    /\ UNCHANGED <<rowVars, won, lost, callVars, historyVars>>

\* deliver: the request leaves for the webhook.
StartDelivery(w) ==
    /\ phase[w] = "loop"
    /\ \E j \in Current(w) : sends' = [sends EXCEPT ![j] = @ + 1]
    /\ phase'   = [phase EXCEPT ![w] = "call"]
    /\ reached' = [reached EXCEPT ![w] = FALSE]
    /\ spent'   = [spent EXCEPT ![w] = 0]
    /\ UNCHANGED <<rowVars, txVars, accepted, failed, wasted, aborts>>

\* The webhook handles the request; its answer may still be lost.
TargetAccepts(w) ==
    /\ phase[w] = "call"
    /\ ~reached[w]
    /\ reached'  = [reached EXCEPT ![w] = TRUE]
    /\ accepted' = accepted \cup Current(w)
    /\ UNCHANGED <<rowVars, phase, txVars, spent, sends, failed, wasted, aborts>>

\* Mutant: a call that got no answer counts as delivered.
DeliverySucceeds_Unanswered(w) ==
    /\ phase[w] = "call"
    /\ alive[w]
    /\ won'   = [won EXCEPT ![w] = @ \cup Current(w)]
    /\ phase' = [phase EXCEPT ![w] = "loop"]
    /\ UNCHANGED <<rowVars, alive, batch, seen, lost, age, callVars, historyVars>>

\* deliver returned nil and UPDATE ... status='done' was staged.
DeliverySucceeds(w) ==
    /\ phase[w] = "call"
    /\ alive[w]
    /\ reached[w]
    /\ won'   = [won EXCEPT ![w] = @ \cup Current(w)]
    /\ phase' = [phase EXCEPT ![w] = "loop"]
    /\ UNCHANGED <<rowVars, alive, batch, seen, lost, age, callVars, historyVars>>

\* deliver returned an error (refused, timed out, not 2xx, or the answer was
\* lost) and the UPDATE to dead or to the next run_at was staged.
DeliveryFails(w) ==
    /\ phase[w] = "call"
    /\ alive[w]
    /\ \E j \in Current(w) : failed' = [failed EXCEPT ![j] = @ + 1]
    /\ lost'  = [lost EXCEPT ![w] = @ \cup Current(w)]
    /\ phase' = [phase EXCEPT ![w] = "loop"]
    /\ UNCHANGED <<rowVars, alive, batch, seen, won, age, callVars,
                   sends, accepted, wasted, aborts>>

\* The worker is back in its poll loop, without a transaction.
EndTransaction(w) ==
    /\ phase' = [phase EXCEPT ![w] = "sleep"]
    /\ alive' = [alive EXCEPT ![w] = FALSE]
    /\ batch' = [batch EXCEPT ![w] = {}]
    /\ seen'  = [seen EXCEPT ![w] = [j \in Job |-> 0]]
    /\ won'   = [won EXCEPT ![w] = {}]
    /\ lost'  = [lost EXCEPT ![w] = {}]
    /\ age'   = [age EXCEPT ![w] = 0]
    /\ reached' = [reached EXCEPT ![w] = FALSE]
    /\ spent' = [spent EXCEPT ![w] = 0]

\* The row j as the staged UPDATE leaves it.
NewStatus(w, j) ==
    IF j \in won[w] THEN "done"
    ELSE IF j \in lost[w] /\ Exhausted(w, j) THEN "dead" ELSE status[j]

\* Mutant: the UPDATE to dead leaves attempts alone.
NewAttempts_DeadForgets(w, j) ==
    IF j \in lost[w] /\ ~Exhausted(w, j) THEN seen[w][j] + 1 ELSE attempts[j]

NewAttempts(w, j) == IF j \in lost[w] THEN seen[w][j] + 1 ELSE attempts[j]

NewWait(w, j) ==
    IF j \in lost[w] /\ ~Exhausted(w, j)
    THEN Remaining(Backoff(seen[w][j] + 1), age[w]) ELSE wait[j]

\* Mutant: the statements run outside the transaction that holds the locks.
CommitBatch_Unfenced(w) ==
    /\ phase[w] = "loop"
    /\ Todo(w) = {}
    /\ status'   = [j \in Job |-> NewStatus(w, j)]
    /\ attempts' = [j \in Job |-> NewAttempts(w, j)]
    /\ wait'     = [j \in Job |-> NewWait(w, j)]
    /\ EndTransaction(w)
    /\ UNCHANGED <<limit, historyVars>>

\* tx.Commit: every staged UPDATE takes effect and the locks are released.
CommitBatch(w) ==
    /\ phase[w] = "loop"
    /\ alive[w]
    /\ Todo(w) = {}
    /\ status'   = [j \in Job |-> NewStatus(w, j)]
    /\ attempts' = [j \in Job |-> NewAttempts(w, j)]
    /\ wait'     = [j \in Job |-> NewWait(w, j)]
    /\ EndTransaction(w)
    /\ UNCHANGED <<limit, historyVars>>

\* Mutant: the deferred Rollback is missing and the connection keeps its locks.
Rollback_KeepsLocks(w) ==
    /\ phase' = [phase EXCEPT ![w] = "sleep"]
    /\ won'   = [won EXCEPT ![w] = {}]
    /\ lost'  = [lost EXCEPT ![w] = {}]
    /\ UNCHANGED <<rowVars, alive, batch, seen, age, callVars,
                   sends, accepted, failed, wasted>>

\* The deferred tx.Rollback: nothing staged survives.
Rollback(w) ==
    /\ wasted' = [j \in Job |-> IF j \in Uncommitted(w) THEN wasted[j] + 1
                                ELSE wasted[j]]
    /\ EndTransaction(w)
    /\ UNCHANGED <<rowVars, sends, accepted, failed>>

\* The replica crashes, is shut down (the context of deliver and of the
\* statements is cancelled) or a statement fails.
Crash(w) ==
    /\ phase[w] # "sleep"
    /\ aborts < MaxAborts
    /\ aborts' = aborts + 1
    /\ Rollback(w)

\* The server drops the connection: the locks go at once, the worker does not
\* know until its next statement.
LoseTransaction(w) ==
    /\ alive[w]
    /\ aborts < MaxAborts
    /\ aborts' = aborts + 1
    /\ alive' = [alive EXCEPT ![w] = FALSE]
    /\ UNCHANGED <<rowVars, phase, batch, seen, won, lost, age, callVars,
                   sends, accepted, failed, wasted>>

\* tx.Exec or tx.Commit fails on the dead connection: deliverBatch returns.
NoticeLoss(w) ==
    /\ ~alive[w]
    /\ phase[w] = "call" \/ (phase[w] = "loop" /\ Todo(w) = {})
    /\ Rollback(w)
    /\ UNCHANGED aborts

\* A tick of the clock.  Calls end by their timeouts.
Tick ==
    /\ \A w \in Worker : phase[w] # "loop"
    /\ \A w \in Worker : phase[w] = "call" => spent[w] < CallLimit
    /\ (\E j \in Job : wait[j] > 0) \/ (\E w \in Worker : phase[w] = "call")
    /\ wait'  = [j \in Job |-> IF wait[j] > 0 THEN wait[j] - 1 ELSE 0]
    /\ age'   = [w \in Worker |-> IF phase[w] = "call" THEN age[w] + 1 ELSE age[w]]
    /\ spent' = [w \in Worker |-> IF phase[w] = "call" THEN spent[w] + 1
                                  ELSE spent[w]]
    /\ UNCHANGED <<status, attempts, limit, phase, alive, batch, seen, won, lost,
                   reached, historyVars>>

-----------------------------------------------------------------------------
Work(w) ==
    \/ TakeBatch(w) \/ StartDelivery(w)
    \/ DeliverySucceeds(w) \/ DeliveryFails(w)
    \/ CommitBatch(w) \/ NoticeLoss(w)

Fault(w) == Crash(w) \/ LoseTransaction(w)

Next ==
    \/ \E j \in Job : HandleEnqueue(j)
    \/ \E w \in Worker : Work(w) \/ TargetAccepts(w) \/ Fault(w)
    \/ Tick

\* The worker loop never stops (deliveryWorker polls forever, HTTP calls time
\* out) and time passes; nothing is assumed of callers, webhooks or faults.
Fairness == WF_vars(Tick) /\ \A w \in Worker : WF_vars(Work(w))

Spec == Init /\ [][Next]_vars
FairSpec == Spec /\ Fairness

-----------------------------------------------------------------------------
(***************************************************************************)
(* Properties.                                                             *)
(***************************************************************************)

\* The types of the variables.  attempts and wait are counts: deliverBatch
\* never writes a negative one.
TypeOK ==
    /\ status \in [Job -> {"absent", "pending", "done", "dead"}]
    /\ attempts \in [Job -> Nat]
    /\ limit \in [Job -> Nat]
    /\ wait \in [Job -> Nat]
    /\ phase \in [Worker -> {"sleep", "loop", "call"}]
    /\ alive \in [Worker -> BOOLEAN]
    /\ batch \in [Worker -> SUBSET Job]
    /\ seen \in [Worker -> [Job -> Nat]]
    /\ won \in [Worker -> SUBSET Job]
    /\ lost \in [Worker -> SUBSET Job]
    /\ reached \in [Worker -> BOOLEAN]
    /\ age \in [Worker -> Nat]
    /\ spent \in [Worker -> Nat]
    /\ sends \in [Job -> Nat]
    /\ accepted \in SUBSET Job
    /\ failed \in [Job -> Nat]
    /\ wasted \in [Job -> Nat]
    /\ aborts \in Nat

\* Several replicas may run deliverBatch ("multi-replica safe"): two calls of
\* one webhook are in progress at once only if one of the callers has lost its
\* transaction, and with it the right to record the outcome.
OneRecordingCaller ==
    \A v, w \in Worker, j \in Job :
        v # w /\ Calling(v, j) /\ Calling(w, j) => ~(alive[v] /\ alive[w])

\* deliverBatch computes attempts+1, the verdict "dead" and the backoff from
\* the row it read before up to ten HTTP calls.  While it can still commit,
\* that row is what the table holds: the stale read never becomes a lost update.
SeenIsCurrent ==
    \A w \in Worker : alive[w] =>
        \A j \in batch[w] : status[j] = "pending" /\ seen[w][j] = attempts[j]

\* A row reads "done" only if its webhook has really accepted a delivery,
\* whatever was rolled back, lost or redelivered in between.
DoneWasAccepted == \A j \in Job : status[j] = "done" => j \in accepted

\* A job is given up only after max_attempts deliveries have failed, its
\* attempts column never promises more failures than there were, and a job
\* with no attempt left is not left pending.
AttemptsHonest ==
    \A j \in Job :
        /\ attempts[j] <= failed[j]
        /\ status[j] = "dead" => attempts[j] = limit[j]
        /\ status[j] = "pending" => attempts[j] < limit[j]

\* No call of a webhook goes unaccounted for: each one is counted in attempts,
\* is the one that made the job done, belongs to a transaction still under way,
\* or was rolled back.  So a webhook is called more than max_attempts times
\* only as often as a replica fails in the middle of a batch.
CallsAccounted ==
    \A j \in Job :
        sends[j] = attempts[j] + wasted[j]
                   + (IF status[j] = "done" THEN 1 ELSE 0)
                   + Cardinality({ w \in Worker : j \in Uncommitted(w) })

\* A settled row is never touched again, although a worker that lost its
\* transaction may still be holding a copy of it from before it was settled.
SettledIsFinal ==
    [][\A j \in Job : status[j] \in {"done", "dead"} =>
            status'[j] = status[j] /\ attempts'[j] = attempts[j]]_vars

\* Exponential backoff: the commit that records a failed attempt leaves the job
\* waiting.  run_at counts from the start of the transaction, so this needs the
\* whole batch of HTTP calls to take less than the first backoff.
FailedJobRests ==
    [][\A j \in Job :
            status'[j] = "pending" /\ attempts'[j] > attempts[j] => wait'[j] > 0]_vars

\* Every job submitted is eventually done or dead: rollbacks, redeliveries and
\* backoffs delay it, and jobs with smaller ids go first, but none of them
\* starves it.
EventuallySettled ==
    \A j \in Job : status[j] = "pending" ~> status[j] \in {"done", "dead"}

\* The queue keeps the promise of JobLedger, with the same rows, the same
\* answers of the webhooks and the same failures.
Ledger == INSTANCE JobLedger
    WITH Job <- Job, status <- status, limit <- limit,
         accepted <- accepted, failed <- failed
KeepsTheLedger == Ledger!Spec

=============================================================================
