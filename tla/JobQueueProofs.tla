--------------------------- MODULE JobQueueProofs ---------------------------
(***************************************************************************)
(* Proofs about JobQueue, for any number of replicas and jobs, any batch   *)
(* size, timeouts, backoff unit and number of faults.                      *)
(***************************************************************************)
EXTENDS JobQueue, FiniteSetTheorems, TLAPS

(***************************************************************************)
(* The inductive invariant.                                                *)
(***************************************************************************)

\* A sleeping worker holds nothing; an awake one works on rows that exist.
WorkerShape ==
    \A w \in Worker :
        /\ phase[w] = "sleep" => ~alive[w] /\ batch[w] = {}
        /\ won[w] \subseteq batch[w]
        /\ lost[w] \subseteq batch[w]
        /\ won[w] \cap lost[w] = {}
        /\ \A j \in batch[w] : status[j] # "absent"

\* FOR UPDATE: no row is locked by two open transactions.
LocksDisjoint ==
    \A v, w \in Worker :
        v # w /\ alive[v] /\ alive[w] => batch[v] \cap batch[w] = {}

\* What a worker has staged is backed by what the webhooks did.
StagedBacked ==
    \A w \in Worker :
        /\ won[w] \subseteq accepted
        /\ alive[w] => \A j \in lost[w] : seen[w][j] + 1 <= failed[j]
        /\ phase[w] = "call" /\ reached[w] => Current(w) \subseteq accepted

\* An absent row has never been attempted.
FreshRows == \A j \in Job : status[j] = "absent" => attempts[j] = 0

\* Giving up is backed by as many failures as the row allows.
DeadIsBacked == \A j \in Job : status[j] = "dead" => limit[j] <= failed[j]

IInv ==
    /\ TypeOK
    /\ WorkerShape
    /\ LocksDisjoint
    /\ SeenIsCurrent
    /\ StagedBacked
    /\ FreshRows
    /\ DeadIsBacked
    /\ DoneWasAccepted
    /\ AttemptsHonest

-----------------------------------------------------------------------------
(***************************************************************************)
(* Type correctness.                                                       *)
(***************************************************************************)

\* The backoff is a number of ticks, whatever attempt it is for.
LEMMA BackoffType == \A n \in Nat : Backoff(n) \in Nat
<1> TAKE n \in Nat
<1>1. IsFiniteSet(1..n)
  BY FS_Interval
<1>2. IsFiniteSet(SUBSET (1..n))
  BY <1>1, FS_SUBSET
<1>3. PowerOfTwo(n) \in Nat
  BY <1>2, FS_CardinalityType DEF PowerOfTwo
<1> QED
  BY <1>3, TimeAssumption DEF Backoff

\* The empty table has its type.
LEMMA InitType == Init => TypeOK
BY DEF Init, TypeOK

\* A worker without a transaction holds what has its type.
LEMMA EndTransactionType ==
  ASSUME TypeOK, NEW w \in Worker, EndTransaction(w)
  PROVE  /\ phase' \in [Worker -> {"sleep", "loop", "call"}]
         /\ alive' \in [Worker -> BOOLEAN]
         /\ batch' \in [Worker -> SUBSET Job]
         /\ seen' \in [Worker -> [Job -> Nat]]
         /\ won' \in [Worker -> SUBSET Job]
         /\ lost' \in [Worker -> SUBSET Job]
         /\ reached' \in [Worker -> BOOLEAN]
         /\ age' \in [Worker -> Nat]
         /\ spent' \in [Worker -> Nat]
BY DEF TypeOK, EndTransaction

\* A rollback keeps the types.
LEMMA RollbackType ==
  ASSUME TypeOK, NEW w \in Worker, Rollback(w), aborts' \in Nat
  PROVE  TypeOK'
<1>1. EndTransaction(w)
  BY DEF Rollback
<1>2. wasted' \in [Job -> Nat]
  BY DEF TypeOK, Rollback
<1> QED
  BY <1>1, <1>2, EndTransactionType DEF TypeOK, Rollback, rowVars

\* Every step keeps the types.
LEMMA NextType == TypeOK /\ [Next]_vars => TypeOK'
<1> SUFFICES ASSUME TypeOK, [Next]_vars PROVE TypeOK'
  OBVIOUS
<1> USE DEF rowVars, txVars, callVars, historyVars
<1>1. ASSUME NEW j \in Job, HandleEnqueue(j) PROVE TypeOK'
  <2>1. PICK m \in MaxAttempts, d \in Delays :
          Insert(j, IF m <= 0 THEN DefaultLimit ELSE m, d)
    BY <1>1 DEF HandleEnqueue
  <2>2. (IF m <= 0 THEN DefaultLimit ELSE m) \in Nat /\ d \in Nat
    BY LimitAssumption, TimeAssumption
  <2> QED
    BY <2>1, <2>2 DEF TypeOK, Insert
<1>2. ASSUME NEW w \in Worker, TakeBatch(w) PROVE TypeOK'
  <2>1. PICK S \in SUBSET Due :
          /\ batch' = [batch EXCEPT ![w] = S]
          /\ seen'  = [seen EXCEPT ![w] =
                          [j \in Job |-> IF j \in S THEN attempts[j] ELSE 0]]
    BY <1>2 DEF TakeBatch
  <2>2. S \in SUBSET Job
    BY <2>1 DEF Due
  <2>3. [j \in Job |-> IF j \in S THEN attempts[j] ELSE 0] \in [Job -> Nat]
    BY DEF TypeOK
  <2>4. batch' \in [Worker -> SUBSET Job] /\ seen' \in [Worker -> [Job -> Nat]]
    BY <2>1, <2>2, <2>3 DEF TypeOK
  <2> QED
    BY <1>2, <2>4 DEF TypeOK, TakeBatch
<1>3. ASSUME NEW w \in Worker, StartDelivery(w) PROVE TypeOK'
  BY <1>3 DEF TypeOK, StartDelivery, Current, Todo
<1>4. ASSUME NEW w \in Worker, TargetAccepts(w) PROVE TypeOK'
  BY <1>4 DEF TypeOK, TargetAccepts, Current, Todo
<1>5. ASSUME NEW w \in Worker, DeliverySucceeds(w) PROVE TypeOK'
  BY <1>5 DEF TypeOK, DeliverySucceeds, Current, Todo
<1>6. ASSUME NEW w \in Worker, DeliveryFails(w) PROVE TypeOK'
  BY <1>6 DEF TypeOK, DeliveryFails, Current, Todo
<1>7. ASSUME NEW w \in Worker, CommitBatch(w) PROVE TypeOK'
  <2>1. EndTransaction(w)
    BY <1>7 DEF CommitBatch
  <2>2. status' \in [Job -> {"absent", "pending", "done", "dead"}]
    BY <1>7 DEF TypeOK, CommitBatch, NewStatus
  <2>3. attempts' \in [Job -> Nat]
    BY <1>7 DEF TypeOK, CommitBatch, NewAttempts
  <2>4. ASSUME NEW j \in Job PROVE NewWait(w, j) \in Nat
    <3>1. seen[w][j] + 1 \in Nat /\ age[w] \in Nat /\ wait[j] \in Nat
      BY DEF TypeOK
    <3>2. Backoff(seen[w][j] + 1) \in Nat
      BY <3>1, BackoffType
    <3> QED
      BY <3>1, <3>2 DEF NewWait, Remaining
  <2>5. wait' \in [Job -> Nat]
    BY <1>7, <2>4 DEF CommitBatch
  <2> QED
    BY <1>7, <2>1, <2>2, <2>3, <2>5, EndTransactionType DEF TypeOK, CommitBatch
<1>8. ASSUME NEW w \in Worker, Crash(w) PROVE TypeOK'
  <2>1. Rollback(w) /\ aborts' \in Nat
    BY <1>8 DEF Crash, TypeOK
  <2> QED
    BY <2>1, RollbackType
<1>9. ASSUME NEW w \in Worker, LoseTransaction(w) PROVE TypeOK'
  BY <1>9 DEF TypeOK, LoseTransaction
<1>10. ASSUME NEW w \in Worker, NoticeLoss(w) PROVE TypeOK'
  <2>1. Rollback(w) /\ aborts' \in Nat
    BY <1>10 DEF NoticeLoss, TypeOK
  <2> QED
    BY <2>1, RollbackType
<1>11. CASE Tick
  BY <1>11 DEF TypeOK, Tick
<1>12. CASE UNCHANGED vars
  BY <1>12 DEF TypeOK, vars
<1> QED
  BY <1>1, <1>2, <1>3, <1>4, <1>5, <1>6, <1>7, <1>8, <1>9, <1>10, <1>11, <1>12
     DEF Next, Work, Fault

\* deliverBatch keeps every row, count and timer in its range.
THEOREM TypeCorrect == Spec => []TypeOK
<1>1. Init => TypeOK
  BY InitType
<1>2. TypeOK /\ [Next]_vars => TypeOK'
  BY NextType
<1> QED
  BY <1>1, <1>2, PTL DEF Spec

-----------------------------------------------------------------------------
(***************************************************************************)
(* The invariant is inductive.                                             *)
(***************************************************************************)

\* The empty table has nothing to account for.
LEMMA InitInv == Init => IInv
<1> SUFFICES ASSUME Init PROVE IInv
  OBVIOUS
<1>1. TypeOK
  BY InitType
<1> QED
  BY <1>1 DEF Init, IInv, WorkerShape, LocksDisjoint, SeenIsCurrent, StagedBacked,
              FreshRows, DeadIsBacked, DoneWasAccepted, AttemptsHonest

\* The part of IInv that is not typing, so that a step is split by conjunct.
Core ==
    /\ WorkerShape
    /\ LocksDisjoint
    /\ SeenIsCurrent
    /\ StagedBacked
    /\ FreshRows
    /\ DeadIsBacked
    /\ DoneWasAccepted
    /\ AttemptsHonest

\* Dropping a transaction leaves the table alone and the worker asleep.
LEMMA RollbackCore ==
  ASSUME TypeOK, Core, NEW w \in Worker, Rollback(w)
  PROVE  Core'
<1> USE DEF Core, TypeOK, rowVars
<1>1. /\ UNCHANGED <<status, attempts, limit, accepted, failed>>
      /\ \A v \in Worker : v # w =>
            /\ phase'[v] = phase[v] /\ alive'[v] = alive[v]
            /\ batch'[v] = batch[v] /\ seen'[v] = seen[v]
            /\ won'[v] = won[v] /\ lost'[v] = lost[v]
            /\ reached'[v] = reached[v]
      /\ phase'[w] = "sleep" /\ ~alive'[w] /\ batch'[w] = {}
      /\ won'[w] = {} /\ lost'[w] = {} /\ ~reached'[w]
  BY DEF Rollback, EndTransaction
<1>2. WorkerShape'
  BY <1>1 DEF WorkerShape
<1>3. LocksDisjoint'
  BY <1>1 DEF LocksDisjoint
<1>4. SeenIsCurrent'
  <2> SUFFICES ASSUME NEW v \in Worker, alive'[v], NEW j \in batch'[v]
               PROVE  status'[j] = "pending" /\ seen'[v][j] = attempts'[j]
    BY DEF SeenIsCurrent
  <2>1. v # w
    BY <1>1
  <2> QED
    BY <1>1, <2>1 DEF SeenIsCurrent
<1>5. StagedBacked'
  <2> SUFFICES ASSUME NEW v \in Worker, v # w
               PROVE  /\ won'[v] \subseteq accepted'
                      /\ alive'[v] => \A j \in lost'[v] : seen'[v][j] + 1 <= failed'[j]
                      /\ phase'[v] = "call" /\ reached'[v]
                           => Current(v)' \subseteq accepted'
    BY <1>1 DEF StagedBacked
  <2>1. Current(v)' = Current(v)
    BY <1>1 DEF Current, Todo, Staged
  <2> QED
    BY <1>1, <2>1 DEF StagedBacked
<1>6. FreshRows' /\ DeadIsBacked' /\ DoneWasAccepted' /\ AttemptsHonest'
  BY <1>1 DEF FreshRows, DeadIsBacked, DoneWasAccepted, AttemptsHonest
<1> QED
  BY <1>2, <1>3, <1>4, <1>5, <1>6

\* The rows the workers stage about depend on the workers alone.
LEMMA CurrentFrame ==
  ASSUME NEW v \in Worker, batch'[v] = batch[v], won'[v] = won[v], lost'[v] = lost[v]
  PROVE  Current(v)' = Current(v)
BY DEF Current, Todo, Staged

\* The loop is at one row at a time.
LEMMA CurrentIsOne ==
  ASSUME TypeOK, NEW w \in Worker, NEW c \in Current(w)
  PROVE  Current(w) = {c} /\ c \in batch[w] /\ c \notin won[w] /\ c \in Job
<1>1. /\ Todo(w) \subseteq batch[w] /\ batch[w] \subseteq Job
      /\ Todo(w) \subseteq Nat /\ Todo(w) \cap won[w] = {}
  BY JobAssumption DEF TypeOK, Todo, Staged
<1>2. \A d \in Current(w) : d \in Todo(w) /\ \A k \in Todo(w) : d <= k
  BY DEF Current
<1>3. ASSUME NEW d \in Current(w) PROVE d = c
  <2>1. d \in Nat /\ c \in Nat /\ d <= c /\ c <= d
    BY <1>1, <1>2, <1>3
  <2> QED
    BY <2>1
<1> QED
  BY <1>1, <1>2, <1>3

\* A new row is pending and held by nobody.
LEMMA EnqueueCore ==
  ASSUME TypeOK, Core, NEW j \in Job, HandleEnqueue(j)
  PROVE  Core'
<1> USE DEF Core, TypeOK
<1>1. PICK m \in MaxAttempts, d \in Delays :
        Insert(j, IF m <= 0 THEN DefaultLimit ELSE m, d)
  BY DEF HandleEnqueue
<1> DEFINE max == IF m <= 0 THEN DefaultLimit ELSE m
<1>2. max \in Nat /\ max > 0
  BY LimitAssumption
<1>3. /\ status[j] = "absent"
      /\ status' = [status EXCEPT ![j] = "pending"]
      /\ limit' = [limit EXCEPT ![j] = max]
      /\ UNCHANGED <<attempts, phase, alive, batch, seen, won, lost, age,
                     reached, spent, sends, accepted, failed, wasted, aborts>>
  BY <1>1 DEF Insert, txVars, callVars, historyVars
<1> HIDE DEF max
<1>4. WorkerShape' /\ LocksDisjoint'
  BY <1>3 DEF WorkerShape, LocksDisjoint
<1>5. SeenIsCurrent'
  BY <1>3 DEF SeenIsCurrent, WorkerShape
<1>6. StagedBacked'
  BY <1>3 DEF StagedBacked, Current, Todo, Staged
<1>7. FreshRows' /\ DeadIsBacked' /\ DoneWasAccepted'
  BY <1>3 DEF FreshRows, DeadIsBacked, DoneWasAccepted
<1>8. AttemptsHonest'
  BY <1>2, <1>3 DEF AttemptsHonest, FreshRows
<1> QED
  BY <1>4, <1>5, <1>6, <1>7, <1>8

\* SKIP LOCKED is what makes LocksDisjoint inductive.
LEMMA TakeBatchCore ==
  ASSUME TypeOK, Core, NEW w \in Worker, TakeBatch(w)
  PROVE  Core'
<1> USE DEF Core, TypeOK
<1>1. PICK S \in SUBSET Due :
        /\ batch' = [batch EXCEPT ![w] = S]
        /\ seen'  = [seen EXCEPT ![w] =
                        [j \in Job |-> IF j \in S THEN attempts[j] ELSE 0]]
  BY DEF TakeBatch
<1>2. /\ phase[w] = "sleep"
      /\ phase' = [phase EXCEPT ![w] = "loop"]
      /\ alive' = [alive EXCEPT ![w] = TRUE]
      /\ UNCHANGED <<status, attempts, limit, won, lost, reached, accepted, failed>>
  BY DEF TakeBatch, rowVars, callVars, historyVars
<1>3. \A j \in S : j \in Job /\ status[j] = "pending"
  BY DEF Due
<1>4. \A v \in Worker : alive[v] => batch[v] \cap S = {}
  BY DEF Due, Locked
<1>5. won[w] = {} /\ lost[w] = {}
  BY <1>2 DEF WorkerShape
<1>6. WorkerShape'
  BY <1>1, <1>2, <1>3, <1>5 DEF WorkerShape
<1>7. LocksDisjoint'
  <2> SUFFICES ASSUME NEW u \in Worker, NEW v \in Worker, u # v, alive'[u], alive'[v]
               PROVE  batch'[u] \cap batch'[v] = {}
    BY DEF LocksDisjoint
  <2>1. CASE u = w
    BY <1>1, <1>2, <1>4, <2>1
  <2>2. CASE v = w
    BY <1>1, <1>2, <1>4, <2>2
  <2>3. CASE u # w /\ v # w
    BY <1>1, <1>2, <2>3 DEF LocksDisjoint
  <2> QED
    BY <2>1, <2>2, <2>3
<1>8. SeenIsCurrent'
  <2> SUFFICES ASSUME NEW v \in Worker, alive'[v], NEW j \in batch'[v]
               PROVE  status'[j] = "pending" /\ seen'[v][j] = attempts'[j]
    BY DEF SeenIsCurrent
  <2>1. CASE v = w
    BY <1>1, <1>2, <1>3, <2>1
  <2>2. CASE v # w
    BY <1>1, <1>2, <2>2 DEF SeenIsCurrent
  <2> QED
    BY <2>1, <2>2
<1>9. StagedBacked'
  <2> SUFFICES ASSUME NEW v \in Worker
               PROVE  /\ won'[v] \subseteq accepted'
                      /\ alive'[v] => \A j \in lost'[v] : seen'[v][j] + 1 <= failed'[j]
                      /\ phase'[v] = "call" /\ reached'[v]
                           => Current(v)' \subseteq accepted'
    BY DEF StagedBacked
  <2>1. CASE v = w
    BY <1>2, <1>5, <2>1
  <2>2. CASE v # w
    <3>1. Current(v)' = Current(v)
      BY <1>1, <1>2, <2>2, CurrentFrame
    <3> QED
      BY <1>1, <1>2, <2>2, <3>1 DEF StagedBacked
  <2> QED
    BY <2>1, <2>2
<1>10. FreshRows' /\ DeadIsBacked' /\ DoneWasAccepted' /\ AttemptsHonest'
  BY <1>2 DEF FreshRows, DeadIsBacked, DoneWasAccepted, AttemptsHonest
<1> QED
  BY <1>6, <1>7, <1>8, <1>9, <1>10

\* A call is of a row the worker holds.
LEMMA StartDeliveryCore ==
  ASSUME TypeOK, Core, NEW w \in Worker, StartDelivery(w)
  PROVE  Core'
<1> USE DEF Core, TypeOK
<1>1. /\ phase[w] = "loop"
      /\ phase' = [phase EXCEPT ![w] = "call"]
      /\ reached' = [reached EXCEPT ![w] = FALSE]
      /\ UNCHANGED <<status, attempts, limit, alive, batch, seen, won, lost,
                     accepted, failed>>
  BY DEF StartDelivery, rowVars, txVars
<1>2. WorkerShape' /\ LocksDisjoint' /\ SeenIsCurrent'
  BY <1>1 DEF WorkerShape, LocksDisjoint, SeenIsCurrent
<1>3. StagedBacked'
  <2>1. \A v \in Worker : Current(v)' = Current(v)
    BY <1>1, CurrentFrame
  <2> QED
    BY <1>1, <2>1 DEF StagedBacked
<1>4. FreshRows' /\ DeadIsBacked' /\ DoneWasAccepted' /\ AttemptsHonest'
  BY <1>1 DEF FreshRows, DeadIsBacked, DoneWasAccepted, AttemptsHonest
<1> QED
  BY <1>2, <1>3, <1>4

\* Acceptance is remembered before the worker hears of it.
LEMMA TargetAcceptsCore ==
  ASSUME TypeOK, Core, NEW w \in Worker, TargetAccepts(w)
  PROVE  Core'
<1> USE DEF Core, TypeOK
<1>1. /\ reached' = [reached EXCEPT ![w] = TRUE]
      /\ accepted' = accepted \cup Current(w)
      /\ UNCHANGED <<status, attempts, limit, phase, alive, batch, seen, won, lost,
                     failed>>
  BY DEF TargetAccepts, rowVars, txVars
<1>2. WorkerShape' /\ LocksDisjoint' /\ SeenIsCurrent'
  BY <1>1 DEF WorkerShape, LocksDisjoint, SeenIsCurrent
<1>3. StagedBacked'
  <2>1. \A v \in Worker : Current(v)' = Current(v)
    BY <1>1, CurrentFrame
  <2> QED
    BY <1>1, <2>1 DEF StagedBacked
<1>4. FreshRows' /\ DeadIsBacked' /\ DoneWasAccepted' /\ AttemptsHonest'
  BY <1>1 DEF FreshRows, DeadIsBacked, DoneWasAccepted, AttemptsHonest
<1> QED
  BY <1>2, <1>3, <1>4

\* A success is staged only after the target accepted.
LEMMA DeliverySucceedsCore ==
  ASSUME TypeOK, Core, NEW w \in Worker, DeliverySucceeds(w)
  PROVE  Core'
<1> USE DEF Core, TypeOK
<1>1. /\ phase[w] = "call" /\ alive[w] /\ reached[w]
      /\ won' = [won EXCEPT ![w] = @ \cup Current(w)]
      /\ phase' = [phase EXCEPT ![w] = "loop"]
      /\ UNCHANGED <<status, attempts, limit, alive, batch, seen, lost, reached,
                     accepted, failed>>
  BY DEF DeliverySucceeds, rowVars, callVars, historyVars
<1>2. Current(w) \subseteq batch[w] /\ Current(w) \cap lost[w] = {}
  BY DEF Current, Todo, Staged
<1>3. Current(w) \subseteq accepted
  BY <1>1 DEF StagedBacked
<1>4. WorkerShape' /\ LocksDisjoint' /\ SeenIsCurrent'
  BY <1>1, <1>2 DEF WorkerShape, LocksDisjoint, SeenIsCurrent
<1>5. StagedBacked'
  <2>1. \A v \in Worker : v # w => Current(v)' = Current(v)
    BY <1>1, CurrentFrame
  <2> QED
    BY <1>1, <1>3, <2>1 DEF StagedBacked
<1>6. FreshRows' /\ DeadIsBacked' /\ DoneWasAccepted' /\ AttemptsHonest'
  BY <1>1 DEF FreshRows, DeadIsBacked, DoneWasAccepted, AttemptsHonest
<1> QED
  BY <1>4, <1>5, <1>6

\* A failure stages one attempt more, or death at the last.
LEMMA DeliveryFailsCore ==
  ASSUME TypeOK, Core, NEW w \in Worker, DeliveryFails(w)
  PROVE  Core'
<1> USE DEF Core, TypeOK
<1>1. PICK c \in Current(w) : failed' = [failed EXCEPT ![c] = @ + 1]
  BY DEF DeliveryFails
<1>2. /\ phase[w] = "call" /\ alive[w]
      /\ lost' = [lost EXCEPT ![w] = @ \cup Current(w)]
      /\ phase' = [phase EXCEPT ![w] = "loop"]
      /\ UNCHANGED <<status, attempts, limit, alive, batch, seen, won, reached,
                     accepted>>
  BY DEF DeliveryFails, rowVars, callVars
<1>3. Current(w) = {c} /\ c \in batch[w] /\ c \notin won[w]
  BY <1>1, CurrentIsOne
<1>4. c \in Job /\ \A j \in Job : failed[j] <= failed'[j]
  BY <1>1, <1>3
<1>5. failed'[c] = failed[c] + 1
  BY <1>1, <1>4
<1>6. WorkerShape' /\ LocksDisjoint' /\ SeenIsCurrent'
  BY <1>2, <1>3 DEF WorkerShape, LocksDisjoint, SeenIsCurrent
<1>7. StagedBacked'
  <2> SUFFICES ASSUME NEW v \in Worker
               PROVE  /\ won'[v] \subseteq accepted'
                      /\ alive'[v] => \A j \in lost'[v] : seen'[v][j] + 1 <= failed'[j]
                      /\ phase'[v] = "call" /\ reached'[v]
                           => Current(v)' \subseteq accepted'
    BY DEF StagedBacked
  <2>1. won'[v] \subseteq accepted'
    BY <1>2 DEF StagedBacked
  <2>2. ASSUME alive'[v], NEW j \in lost'[v] PROVE seen'[v][j] + 1 <= failed'[j]
    <3>1. CASE j \in lost[v]
      <4>1. seen[v][j] + 1 <= failed[j] /\ j \in Job
        BY <1>2, <2>2, <3>1 DEF StagedBacked
      <4>2. failed[j] <= failed'[j] /\ failed[j] \in Nat /\ failed'[j] \in Nat
        BY <1>1, <1>4, <4>1
      <4> QED
        BY <1>2, <4>1, <4>2
    <3>2. CASE j \notin lost[v]
      <4>1. v = w /\ j = c
        BY <1>2, <1>3, <2>2, <3>2
      <4>2. seen[w][c] = attempts[c] /\ attempts[c] <= failed[c]
        BY <1>2, <1>3, <1>4 DEF SeenIsCurrent, AttemptsHonest
      <4> QED
        BY <1>2, <1>4, <1>5, <4>1, <4>2
    <3> QED
      BY <3>1, <3>2
  <2>3. phase'[v] = "call" /\ reached'[v] => Current(v)' \subseteq accepted'
    <3>1. CASE v = w
      BY <1>2, <3>1
    <3>2. CASE v # w
      <4>1. Current(v)' = Current(v)
        BY <1>2, <3>2, CurrentFrame
      <4> QED
        BY <1>2, <3>2, <4>1 DEF StagedBacked
    <3> QED
      BY <3>1, <3>2
  <2> QED
    BY <2>1, <2>2, <2>3
<1>8. FreshRows' /\ DoneWasAccepted'
  BY <1>2 DEF FreshRows, DoneWasAccepted
<1>9. DeadIsBacked' /\ AttemptsHonest'
  <2>1. \A j \in Job : failed'[j] \in Nat
    BY <1>1, <1>4
  <2> QED
    BY <1>2, <1>4, <2>1 DEF DeadIsBacked, AttemptsHonest
<1> QED
  BY <1>6, <1>7, <1>8, <1>9

\* What a commit does to the rows, read off the staged statements: a row the
\* worker holds is settled or has one more attempt, no other row changes.
LEMMA CommitRows ==
  ASSUME TypeOK, Core, NEW w \in Worker, CommitBatch(w), NEW j \in Job
  PROVE  /\ j \notin won[w] \cup lost[w] =>
                status'[j] = status[j] /\ attempts'[j] = attempts[j]
         /\ j \in won[w] =>
                /\ status[j] = "pending" /\ status'[j] = "done"
                /\ attempts'[j] = attempts[j] /\ j \in accepted
         /\ j \in lost[w] =>
                /\ status[j] = "pending"
                /\ attempts'[j] = attempts[j] + 1
                /\ attempts[j] + 1 <= failed[j]
                /\ attempts[j] < limit[j]
                /\ IF attempts[j] + 1 >= limit[j] THEN status'[j] = "dead"
                                                  ELSE status'[j] = "pending"
<1> USE DEF Core, TypeOK
<1>1. /\ alive[w]
      /\ status'[j] = NewStatus(w, j)
      /\ attempts'[j] = NewAttempts(w, j)
  BY DEF CommitBatch
<1>2. /\ won[w] \subseteq batch[w] /\ lost[w] \subseteq batch[w]
      /\ won[w] \cap lost[w] = {} /\ won[w] \subseteq accepted
  BY DEF WorkerShape, StagedBacked
<1>3. j \in batch[w] => status[j] = "pending" /\ seen[w][j] = attempts[j]
  BY <1>1 DEF SeenIsCurrent
<1>4. status[j] = "pending" => attempts[j] < limit[j]
  BY DEF AttemptsHonest
<1>5. j \in lost[w] => seen[w][j] + 1 <= failed[j]
  BY <1>1 DEF StagedBacked
<1> QED
  BY <1>1, <1>2, <1>3, <1>4, <1>5 DEF NewStatus, NewAttempts, Exhausted

\* The commit writes what is staged and frees the rows.
LEMMA CommitBatchCore ==
  ASSUME TypeOK, Core, NEW w \in Worker, CommitBatch(w)
  PROVE  Core'
<1>1. /\ UNCHANGED <<limit, accepted, failed>>
      /\ \A v \in Worker : v # w =>
            /\ phase'[v] = phase[v] /\ alive'[v] = alive[v]
            /\ batch'[v] = batch[v] /\ seen'[v] = seen[v]
            /\ won'[v] = won[v] /\ lost'[v] = lost[v]
            /\ reached'[v] = reached[v]
      /\ phase'[w] = "sleep" /\ ~alive'[w] /\ batch'[w] = {}
      /\ won'[w] = {} /\ lost'[w] = {} /\ ~reached'[w]
  BY DEF TypeOK, CommitBatch, EndTransaction, historyVars
<1>2. alive[w] /\ won[w] \cup lost[w] \subseteq batch[w] /\ batch[w] \subseteq Job
  BY DEF TypeOK, Core, CommitBatch, WorkerShape
<1>3. ASSUME NEW j \in Job, status[j] # "absent" PROVE status'[j] # "absent"
  BY <1>3, CommitRows
<1>4. WorkerShape'
  <2> SUFFICES ASSUME NEW v \in Worker, v # w
               PROVE  /\ phase'[v] = "sleep" => ~alive'[v] /\ batch'[v] = {}
                      /\ won'[v] \subseteq batch'[v] /\ lost'[v] \subseteq batch'[v]
                      /\ won'[v] \cap lost'[v] = {}
                      /\ \A j \in batch'[v] : status'[j] # "absent"
    BY <1>1 DEF WorkerShape
  <2>1. \A j \in batch[v] : j \in Job /\ status[j] # "absent"
    BY DEF TypeOK, Core, WorkerShape
  <2> QED
    BY <1>1, <1>3, <2>1 DEF Core, WorkerShape
<1>5. LocksDisjoint'
  BY <1>1 DEF Core, LocksDisjoint
<1>6. SeenIsCurrent'
  <2> SUFFICES ASSUME NEW v \in Worker, alive'[v], NEW j \in batch'[v]
               PROVE  status'[j] = "pending" /\ seen'[v][j] = attempts'[j]
    BY DEF SeenIsCurrent
  <2>1. v # w /\ alive[v] /\ j \in batch[v]
    BY <1>1
  <2>2. j \in Job /\ j \notin won[w] \cup lost[w]
    BY <1>2, <2>1 DEF TypeOK, Core, LocksDisjoint
  <2>3. status[j] = "pending" /\ seen[v][j] = attempts[j]
    BY <2>1 DEF Core, SeenIsCurrent
  <2> QED
    BY <1>1, <2>1, <2>2, <2>3, CommitRows
<1>7. StagedBacked'
  <2> SUFFICES ASSUME NEW v \in Worker, v # w
               PROVE  /\ won'[v] \subseteq accepted'
                      /\ alive'[v] => \A j \in lost'[v] : seen'[v][j] + 1 <= failed'[j]
                      /\ phase'[v] = "call" /\ reached'[v]
                           => Current(v)' \subseteq accepted'
    BY <1>1 DEF StagedBacked
  <2>1. Current(v)' = Current(v)
    BY <1>1, CurrentFrame
  <2> QED
    BY <1>1, <2>1 DEF Core, StagedBacked
<1>8. FreshRows'
  <2> SUFFICES ASSUME NEW j \in Job, status'[j] = "absent" PROVE attempts'[j] = 0
    BY DEF FreshRows
  <2>1. status[j] = "absent"
    BY <1>3
  <2> QED
    BY <2>1, CommitRows DEF Core, FreshRows
<1>9. DeadIsBacked'
  <2> SUFFICES ASSUME NEW j \in Job, status'[j] = "dead" PROVE limit'[j] <= failed'[j]
    BY DEF DeadIsBacked
  <2>1. limit[j] \in Nat /\ failed[j] \in Nat /\ attempts[j] \in Nat
    BY DEF TypeOK
  <2>2. limit[j] <= failed[j]
    BY <2>1, CommitRows DEF Core, DeadIsBacked
  <2> QED
    BY <1>1, <2>2
<1>10. DoneWasAccepted'
  <2> SUFFICES ASSUME NEW j \in Job, status'[j] = "done" PROVE j \in accepted'
    BY DEF DoneWasAccepted
  <2> QED
    BY <1>1, CommitRows DEF Core, DoneWasAccepted
<1>11. AttemptsHonest'
  <2> SUFFICES ASSUME NEW j \in Job
               PROVE  /\ attempts'[j] <= failed'[j]
                      /\ status'[j] = "dead" => attempts'[j] = limit'[j]
                      /\ status'[j] = "pending" => attempts'[j] < limit'[j]
    BY DEF AttemptsHonest
  <2>1. limit[j] \in Nat /\ failed[j] \in Nat /\ attempts[j] \in Nat
    BY DEF TypeOK
  <2> QED
    BY <1>1, <2>1, CommitRows DEF Core, AttemptsHonest
<1> QED
  BY <1>4, <1>5, <1>6, <1>7, <1>8, <1>9, <1>10, <1>11 DEF Core

\* A lost transaction leaves the rows as they were.
LEMMA LoseTransactionCore ==
  ASSUME TypeOK, Core, NEW w \in Worker, LoseTransaction(w)
  PROVE  Core'
<1> USE DEF Core, TypeOK
<1>1. /\ alive' = [alive EXCEPT ![w] = FALSE]
      /\ UNCHANGED <<status, attempts, limit, phase, batch, seen, won, lost,
                     reached, accepted, failed>>
  BY DEF LoseTransaction, rowVars, callVars
<1>2. \A v \in Worker : alive'[v] => alive[v]
  BY <1>1
<1>3. WorkerShape' /\ LocksDisjoint' /\ SeenIsCurrent'
  BY <1>1, <1>2 DEF WorkerShape, LocksDisjoint, SeenIsCurrent
<1>4. StagedBacked'
  <2>1. \A v \in Worker : Current(v)' = Current(v)
    BY <1>1, CurrentFrame
  <2> QED
    BY <1>1, <1>2, <2>1 DEF StagedBacked
<1>5. FreshRows' /\ DeadIsBacked' /\ DoneWasAccepted' /\ AttemptsHonest'
  BY <1>1 DEF FreshRows, DeadIsBacked, DoneWasAccepted, AttemptsHonest
<1> QED
  BY <1>3, <1>4, <1>5

\* A step that leaves rows and transactions alone changes nothing of this.
LEMMA QuietCore ==
  ASSUME Core,
         UNCHANGED <<status, attempts, limit, phase, alive, batch, seen, won, lost,
                     reached, accepted, failed>>
  PROVE  Core'
<1>1. \A v \in Worker : Current(v)' = Current(v)
  BY CurrentFrame
<1> QED
  BY <1>1 DEF Core, WorkerShape, LocksDisjoint, SeenIsCurrent, StagedBacked,
              FreshRows, DeadIsBacked, DoneWasAccepted, AttemptsHonest

\* Every step keeps the invariant.
LEMMA NextInv == IInv /\ [Next]_vars => IInv'
<1> SUFFICES ASSUME TypeOK, Core, [Next]_vars PROVE Core'
  BY NextType DEF IInv, Core
<1>1. ASSUME NEW j \in Job, HandleEnqueue(j) PROVE Core'
  BY <1>1, EnqueueCore
<1>2. ASSUME NEW w \in Worker, TakeBatch(w) PROVE Core'
  BY <1>2, TakeBatchCore
<1>3. ASSUME NEW w \in Worker, StartDelivery(w) PROVE Core'
  BY <1>3, StartDeliveryCore
<1>4. ASSUME NEW w \in Worker, TargetAccepts(w) PROVE Core'
  BY <1>4, TargetAcceptsCore
<1>5. ASSUME NEW w \in Worker, DeliverySucceeds(w) PROVE Core'
  BY <1>5, DeliverySucceedsCore
<1>6. ASSUME NEW w \in Worker, DeliveryFails(w) PROVE Core'
  BY <1>6, DeliveryFailsCore
<1>7. ASSUME NEW w \in Worker, CommitBatch(w) PROVE Core'
  BY <1>7, CommitBatchCore
<1>8. ASSUME NEW w \in Worker, Crash(w) \/ NoticeLoss(w) PROVE Core'
  BY <1>8, RollbackCore DEF Crash, NoticeLoss
<1>9. ASSUME NEW w \in Worker, LoseTransaction(w) PROVE Core'
  BY <1>9, LoseTransactionCore
<1>10. CASE Tick
  BY <1>10, QuietCore DEF Tick, historyVars
<1>11. CASE UNCHANGED vars
  BY <1>11, QuietCore DEF vars, rowVars, txVars, callVars, historyVars
<1> QED
  BY <1>1, <1>2, <1>3, <1>4, <1>5, <1>6, <1>7, <1>8, <1>9, <1>10, <1>11
     DEF Next, Work, Fault

\* The invariant holds in every behaviour, for any replicas and jobs.
THEOREM Invariance == Spec => []IInv
<1>1. Init => IInv
  BY InitInv
<1>2. IInv /\ [Next]_vars => IInv'
  BY NextInv
<1> QED
  BY <1>1, <1>2, PTL DEF Spec

-----------------------------------------------------------------------------
(***************************************************************************)
(* What the invariant gives.                                               *)
(***************************************************************************)

\* Of two replicas calling one webhook at once, one has lost its transaction;
\* FOR UPDATE SKIP LOCKED is safe for any number of replicas.
THEOREM OneCaller == Spec => []OneRecordingCaller
<1>1. IInv => OneRecordingCaller
  <2> SUFFICES ASSUME IInv, NEW v \in Worker, NEW w \in Worker, NEW j \in Job, v # w,
                      Calling(v, j), Calling(w, j), alive[v], alive[w]
               PROVE  FALSE
    BY DEF OneRecordingCaller
  <2>1. j \in batch[v] /\ j \in batch[w]
    BY DEF Calling, Current, Todo
  <2> QED
    BY <2>1 DEF IInv, LocksDisjoint
<1> QED
  BY <1>1, Invariance, PTL

\* The attempts a worker read before its HTTP calls are the attempts of the row
\* whenever it can still commit: no update is lost.
THEOREM NoLostUpdate == Spec => []SeenIsCurrent
<1>1. IInv => SeenIsCurrent
  BY DEF IInv
<1> QED
  BY <1>1, Invariance, PTL

\* "done" is never reported of a job whose webhook has not accepted it.
THEOREM DoneIsDelivered == Spec => []DoneWasAccepted
<1>1. IInv => DoneWasAccepted
  BY DEF IInv
<1> QED
  BY <1>1, Invariance, PTL

\* A job is dead only after max_attempts failures, and not before.
THEOREM DeadIsExhausted == Spec => []AttemptsHonest
<1>1. IInv => AttemptsHonest
  BY DEF IInv
<1> QED
  BY <1>1, Invariance, PTL

\* A settled row is never written again, not even by a worker that took it
\* before it was settled.
THEOREM SettledStays == Spec => SettledIsFinal
<1>1. IInv /\ [Next]_vars
        => [\A j \in Job : status[j] \in {"done", "dead"} =>
               status'[j] = status[j] /\ attempts'[j] = attempts[j]]_vars
  <2> SUFFICES ASSUME TypeOK, Core, [Next]_vars, NEW j \in Job,
                      status[j] \in {"done", "dead"}
               PROVE  status'[j] = status[j] /\ attempts'[j] = attempts[j]
    BY DEF IInv, Core
  <2>1. ASSUME NEW i \in Job, HandleEnqueue(i) PROVE status'[j] = status[j] /\ attempts'[j] = attempts[j]
    BY <2>1 DEF HandleEnqueue, Insert, TypeOK
  <2>2. ASSUME NEW w \in Worker, CommitBatch(w)
        PROVE  status'[j] = status[j] /\ attempts'[j] = attempts[j]
    BY <2>2, CommitRows
  <2>3. CASE UNCHANGED rowVars
    BY <2>3 DEF rowVars
  <2>4. CASE Tick
    BY <2>4 DEF Tick
  <2>5. CASE UNCHANGED vars
    BY <2>5 DEF vars, rowVars
  <2> QED
    BY <2>1, <2>2, <2>3, <2>4, <2>5
       DEF Next, Work, Fault, TakeBatch, StartDelivery, TargetAccepts, DeliverySucceeds,
           DeliveryFails, Crash, LoseTransaction, NoticeLoss, Rollback
<1> QED
  BY <1>1, Invariance, PTL DEF Spec, SettledIsFinal

-----------------------------------------------------------------------------
(***************************************************************************)
(* The queue implements the ledger.                                        *)
(***************************************************************************)

\* The empty queue is the empty ledger.
LEMMA LedgerInit == Init => Ledger!Init
BY DEF Init, Ledger!Init

\* Every step of the queue is a step of the ledger or none.
LEMMA LedgerStep ==
  ASSUME TypeOK, Core, [Next]_vars
  PROVE  [Ledger!Next]_(Ledger!ledgerVars)
<1> USE DEF Ledger!ledgerVars
<1>1. ASSUME NEW j \in Job, HandleEnqueue(j) PROVE Ledger!Submit(j)
  <2>1. PICK m \in MaxAttempts, d \in Delays :
          Insert(j, IF m <= 0 THEN DefaultLimit ELSE m, d)
    BY <1>1 DEF HandleEnqueue
  <2>2. (IF m <= 0 THEN DefaultLimit ELSE m) \in Nat \ {0}
    BY LimitAssumption
  <2> QED
    BY <2>1, <2>2 DEF Insert, Ledger!Submit, TypeOK, historyVars
<1>2. ASSUME NEW w \in Worker, TargetAccepts(w)
      PROVE  UNCHANGED Ledger!ledgerVars \/ \E c \in Job : Ledger!Accept(c)
  <2>1. CASE Current(w) = {}
    BY <1>2, <2>1 DEF TargetAccepts, rowVars, TypeOK
  <2>2. CASE Current(w) # {}
    <3>1. PICK c \in Current(w) : TRUE
      BY <2>2
    <3>2. Current(w) = {c} /\ c \in batch[w] /\ c \in Job
      BY CurrentIsOne
    <3>3. status[c] # "absent"
      BY <3>2 DEF Core, WorkerShape
    <3> QED
      BY <1>2, <3>2, <3>3 DEF TargetAccepts, rowVars, Ledger!Accept
  <2> QED
    BY <2>1, <2>2
<1>3. ASSUME NEW w \in Worker, DeliveryFails(w)
      PROVE  \E c \in Job : Ledger!Fail(c)
  <2>1. PICK c \in Current(w) : failed' = [failed EXCEPT ![c] = @ + 1]
    BY <1>3 DEF DeliveryFails
  <2>2. c \in batch[w] /\ c \in Job
    BY CurrentIsOne
  <2>3. status[c] # "absent"
    BY <2>2 DEF Core, WorkerShape
  <2> QED
    BY <1>3, <2>1, <2>2, <2>3 DEF DeliveryFails, rowVars, Ledger!Fail
<1>4. ASSUME NEW w \in Worker, CommitBatch(w)
      PROVE  \E D, X \in SUBSET Ledger!Pending : Ledger!Settle(D, X)
  <2> DEFINE D == won[w]
             X == { j \in lost[w] : Exhausted(w, j) }
  <2>1. D \subseteq Job /\ X \subseteq Job /\ X \subseteq lost[w]
    BY DEF TypeOK
  <2>2. D \subseteq Ledger!Pending /\ X \subseteq Ledger!Pending
    BY <1>4, <2>1, CommitRows DEF Ledger!Pending
  <2>3. D \cap X = {} /\ D \subseteq accepted
    BY DEF Core, WorkerShape, StagedBacked
  <2>4. \A j \in X : failed[j] >= limit[j]
    <3> SUFFICES ASSUME NEW j \in X PROVE failed[j] >= limit[j]
      OBVIOUS
    <3>1. alive[w] /\ j \in Job /\ j \in lost[w] /\ Exhausted(w, j)
      BY <1>4, <2>1 DEF CommitBatch
    <3>2. seen[w][j] + 1 <= failed[j] /\ seen[w][j] + 1 >= limit[j]
      BY <3>1 DEF Core, StagedBacked, Exhausted
    <3>3. seen[w][j] \in Nat /\ failed[j] \in Nat /\ limit[j] \in Nat
      BY <3>1 DEF TypeOK
    <3> QED
      BY <3>2, <3>3
  <2>5. status' = [j \in Job |-> IF j \in D THEN "done"
                                 ELSE IF j \in X THEN "dead" ELSE status[j]]
    BY <1>4 DEF CommitBatch, NewStatus
  <2>6. UNCHANGED <<limit, accepted, failed>>
    BY <1>4 DEF CommitBatch, historyVars
  <2>7. Ledger!Settle(D, X)
    BY <2>3, <2>4, <2>5, <2>6 DEF Ledger!Settle
  <2> QED
    BY <2>2, <2>7
<1>5. ASSUME NEW w \in Worker,
             \/ TakeBatch(w) \/ StartDelivery(w) \/ DeliverySucceeds(w)
             \/ NoticeLoss(w) \/ Crash(w) \/ LoseTransaction(w)
      PROVE  UNCHANGED Ledger!ledgerVars
  BY <1>5 DEF TakeBatch, StartDelivery, DeliverySucceeds, NoticeLoss, Crash,
              LoseTransaction, Rollback, rowVars, historyVars
<1>6. CASE Tick
  BY <1>6 DEF Tick, historyVars
<1>7. CASE UNCHANGED vars
  BY <1>7 DEF vars, rowVars, historyVars
<1> QED
  BY <1>1, <1>2, <1>3, <1>4, <1>5, <1>6, <1>7 DEF Next, Work, Fault, Ledger!Next

\* svc-jobs keeps the promise JobLedger states, for every configuration.
THEOREM Refinement == Spec => KeepsTheLedger
<1>1. Init => Ledger!Init
  BY LedgerInit
<1>2. IInv /\ [Next]_vars => [Ledger!Next]_(Ledger!ledgerVars)
  BY LedgerStep DEF IInv, Core
<1> QED
  BY <1>1, <1>2, Invariance, PTL DEF Spec, KeepsTheLedger, Ledger!Spec

-----------------------------------------------------------------------------
(***************************************************************************)
(* The books of JobQueue balance: every call of a webhook is accounted     *)
(* for, for any finite number of replicas.  The argument counts workers:   *)
(* in each step at most one of them begins or ends to have a call of a job *)
(* unrecorded.                                                             *)
(***************************************************************************)

\* The workers that have a call of j under way or staged.
Holders(j) == { w \in Worker : j \in Uncommitted(w) }

\* CallsAccounted for one job.
Balanced(j) ==
    sends[j] = attempts[j] + wasted[j]
               + (IF status[j] = "done" THEN 1 ELSE 0) + Cardinality(Holders(j))

-----------------------------------------------------------------------------
(***************************************************************************)
(* Counting holders.                                                       *)
(***************************************************************************)

\* A set of workers has a size.
LEMMA HoldersCount == \A S \in SUBSET Worker : IsFiniteSet(S) /\ Cardinality(S) \in Nat
<1> TAKE S \in SUBSET Worker
<1>1. IsFiniteSet(S)
  BY WorkerAssumption, FS_Subset
<1> QED
  BY <1>1, FS_CardinalityType

\* A step of w changes nobody else's calls.
LEMMA OthersKeep ==
  ASSUME NEW v \in Worker, phase'[v] = phase[v], batch'[v] = batch[v],
         won'[v] = won[v], lost'[v] = lost[v]
  PROVE  Uncommitted(v)' = Uncommitted(v)
<1>1. Current(v)' = Current(v)
  BY CurrentFrame
<1> QED
  BY <1>1 DEF Uncommitted, Calling, Staged

\* If only w's calls change, the number of holders changes by what w does.
LEMMA HoldersStep ==
  ASSUME NEW w \in Worker, NEW j \in Job,
         \A v \in Worker \ {w} : Uncommitted(v)' = Uncommitted(v)
  PROVE  /\ Cardinality(Holders(j)) \in Nat
         /\ Cardinality(Holders(j))' \in Nat
         /\ (j \in Uncommitted(w) <=> j \in Uncommitted(w)')
              => Cardinality(Holders(j))' = Cardinality(Holders(j))
         /\ j \notin Uncommitted(w) /\ j \in Uncommitted(w)'
              => Cardinality(Holders(j))' = Cardinality(Holders(j)) + 1
         /\ j \in Uncommitted(w) /\ j \notin Uncommitted(w)'
              => Cardinality(Holders(j))' = Cardinality(Holders(j)) - 1
<1> DEFINE H == Holders(j)
           G == Holders(j)'
<1>1. H \subseteq Worker /\ G \subseteq Worker
  BY DEF Holders
<1>2. /\ w \in H <=> j \in Uncommitted(w)
      /\ w \in G <=> j \in Uncommitted(w)'
      /\ \A v \in Worker \ {w} : v \in H <=> v \in G
  BY DEF Holders
<1>3. IsFiniteSet(H) /\ IsFiniteSet(G) /\ Cardinality(H) \in Nat /\ Cardinality(G) \in Nat
  BY <1>1, HoldersCount
<1>4. (w \in H <=> w \in G) => G = H
  BY <1>1, <1>2
<1>5. w \notin H /\ w \in G => G = H \cup {w}
  BY <1>1, <1>2
<1>6. w \in H /\ w \notin G => G = H \ {w}
  BY <1>1, <1>2
<1>7. w \notin H => Cardinality(H \cup {w}) = Cardinality(H) + 1
  BY <1>3, FS_AddElement
<1>8. w \in H => Cardinality(H \ {w}) = Cardinality(H) - 1
  BY <1>3, FS_RemoveElement
<1>9. Cardinality(Holders(j))' = Cardinality(G)
  OBVIOUS
<1> QED
  BY <1>2, <1>3, <1>4, <1>5, <1>6, <1>7, <1>8, <1>9

\* Where w is in a batch decides what it has unrecorded.
LEMMA UncommittedOf ==
  ASSUME TypeOK, Core, NEW w \in Worker
  PROVE  /\ phase[w] = "sleep" => Uncommitted(w) = {}
         /\ phase[w] = "loop" => Uncommitted(w) = won[w] \cup lost[w]
         /\ phase[w] = "call" => Uncommitted(w) = won[w] \cup lost[w] \cup Current(w)
<1>1. Current(w) \subseteq batch[w]
  BY DEF Current, Todo
<1>2. phase[w] = "sleep" => won[w] = {} /\ lost[w] = {}
  BY DEF Core, WorkerShape
<1> QED
  BY <1>1, <1>2 DEF Uncommitted, Calling, Staged

-----------------------------------------------------------------------------
(***************************************************************************)
(* Each step keeps the books.                                              *)
(***************************************************************************)

\* A step that changes neither the row nor anyone's calls.
LEMMA SameBooks ==
  ASSUME TypeOK, NEW j \in Job, Balanced(j),
         sends'[j] = sends[j], attempts'[j] = attempts[j], wasted'[j] = wasted[j],
         status'[j] = "done" <=> status[j] = "done",
         \A v \in Worker : Uncommitted(v)' = Uncommitted(v)
  PROVE  Balanced(j)'
<1>1. Holders(j)' = Holders(j)
  BY DEF Holders
<1> QED
  BY <1>1 DEF Balanced

\* The call begins: one send and one holder more.
LEMMA StartBooks ==
  ASSUME TypeOK, Core, NEW w \in Worker, StartDelivery(w), NEW j \in Job, Balanced(j)
  PROVE  Balanced(j)'
<1>1. PICK c \in Current(w) : sends' = [sends EXCEPT ![c] = @ + 1]
  BY DEF StartDelivery
<1>2. /\ phase[w] = "loop" /\ phase' = [phase EXCEPT ![w] = "call"]
      /\ UNCHANGED <<status, attempts, batch, won, lost, wasted>>
  BY DEF StartDelivery, rowVars, txVars
<1>3. Current(w) = {c} /\ c \in Job /\ c \notin won[w] \cup lost[w]
  BY <1>1, CurrentIsOne DEF Current, Todo, Staged
<1>4. \A v \in Worker \ {w} : Uncommitted(v)' = Uncommitted(v)
  BY <1>2, OthersKeep DEF TypeOK
<1>5. /\ Uncommitted(w) = won[w] \cup lost[w]
      /\ phase'[w] = "call" /\ Current(w)' = {c}
  BY <1>2, <1>3, UncommittedOf, CurrentFrame DEF TypeOK
<1>6. Uncommitted(w)' = won[w] \cup lost[w] \cup {c}
  BY <1>2, <1>3, <1>5 DEF Uncommitted, Calling, Staged, Current, Todo
<1>7. Cardinality(Holders(j))' =
        Cardinality(Holders(j)) + (IF j = c THEN 1 ELSE 0)
      /\ Cardinality(Holders(j)) \in Nat
  BY <1>3, <1>4, <1>5, <1>6, HoldersStep
<1>8. sends'[j] = sends[j] + (IF j = c THEN 1 ELSE 0)
  BY <1>1, <1>3 DEF TypeOK
<1>9. sends[j] \in Nat /\ attempts[j] \in Nat /\ wasted[j] \in Nat
  BY DEF TypeOK
<1> QED
  BY <1>2, <1>7, <1>8, <1>9 DEF Balanced

\* The call ends and its outcome is staged: w holds the job as before.
LEMMA AnsweredBooks ==
  ASSUME TypeOK, Core, NEW w \in Worker, DeliverySucceeds(w) \/ DeliveryFails(w),
         NEW j \in Job, Balanced(j)
  PROVE  Balanced(j)'
<1>1. /\ phase[w] = "call" /\ phase' = [phase EXCEPT ![w] = "loop"]
      /\ won'[w] \cup lost'[w] = won[w] \cup lost[w] \cup Current(w)
      /\ \A v \in Worker \ {w} : won'[v] = won[v] /\ lost'[v] = lost[v]
      /\ UNCHANGED <<status, attempts, batch, sends, wasted>>
  BY DEF DeliverySucceeds, DeliveryFails, rowVars, historyVars, TypeOK
<1>2. \A v \in Worker \ {w} : Uncommitted(v)' = Uncommitted(v)
  BY <1>1, OthersKeep DEF TypeOK
<1>3. Uncommitted(w) = won[w] \cup lost[w] \cup Current(w)
  BY <1>1, UncommittedOf
<1>4. phase'[w] = "loop"
  BY <1>1 DEF TypeOK
<1>5. Uncommitted(w)' = won'[w] \cup lost'[w]
  BY <1>4 DEF Uncommitted, Calling, Staged
<1> QED
  BY <1>1, <1>2, <1>3, <1>5, SameBooks

\* After a transaction its worker holds nothing.
LEMMA EndHolds ==
  ASSUME TypeOK, NEW w \in Worker, EndTransaction(w)
  PROVE  /\ Uncommitted(w)' = {}
         /\ \A v \in Worker \ {w} : Uncommitted(v)' = Uncommitted(v)
<1>1. /\ phase'[w] = "sleep" /\ won'[w] = {} /\ lost'[w] = {}
      /\ \A v \in Worker \ {w} : /\ phase'[v] = phase[v] /\ batch'[v] = batch[v]
                                 /\ won'[v] = won[v] /\ lost'[v] = lost[v]
  BY DEF EndTransaction, TypeOK
<1>2. Uncommitted(w)' = {}
  BY <1>1 DEF Uncommitted, Calling, Staged
<1> QED
  BY <1>1, <1>2, OthersKeep

\* The commit moves w's calls into the rows: a failure to attempts, the
\* accepted one to "done".
LEMMA CommitBooks ==
  ASSUME TypeOK, Core, NEW w \in Worker, CommitBatch(w), NEW j \in Job, Balanced(j)
  PROVE  Balanced(j)'
<1>1. EndTransaction(w) /\ sends' = sends /\ wasted' = wasted /\ phase[w] = "loop"
  BY DEF CommitBatch, historyVars
<1>2. /\ Uncommitted(w)' = {} /\ Uncommitted(w) = won[w] \cup lost[w]
      /\ \A v \in Worker \ {w} : Uncommitted(v)' = Uncommitted(v)
  BY <1>1, EndHolds, UncommittedOf
<1>3. /\ Cardinality(Holders(j)) \in Nat
      /\ Cardinality(Holders(j))' =
           Cardinality(Holders(j)) - (IF j \in won[w] \cup lost[w] THEN 1 ELSE 0)
  BY <1>2, HoldersStep
<1>4. attempts[j] \in Nat /\ wasted[j] \in Nat /\ sends[j] \in Nat
  BY DEF TypeOK
<1>5. /\ j \notin won[w] \cup lost[w] =>
           status'[j] = status[j] /\ attempts'[j] = attempts[j]
      /\ j \in won[w] => /\ status[j] # "done" /\ status'[j] = "done"
                         /\ attempts'[j] = attempts[j]
      /\ j \in lost[w] => /\ status[j] # "done" /\ status'[j] # "done"
                          /\ attempts'[j] = attempts[j] + 1
  BY CommitRows
<1>6. /\ sends'[j] = sends[j] /\ wasted'[j] = wasted[j]
      /\ sends[j] = attempts[j] + wasted[j] + (IF status[j] = "done" THEN 1 ELSE 0)
                    + Cardinality(Holders(j))
  BY <1>1 DEF Balanced
<1> SUFFICES sends'[j] = attempts'[j] + wasted'[j]
               + (IF status'[j] = "done" THEN 1 ELSE 0) + Cardinality(Holders(j))'
  BY DEF Balanced
<1>7. CASE j \notin won[w] \cup lost[w]
  BY <1>3, <1>4, <1>5, <1>6, <1>7
<1>8. CASE j \in won[w]
  BY <1>3, <1>4, <1>5, <1>6, <1>8
<1>9. CASE j \in lost[w]
  BY <1>3, <1>4, <1>5, <1>6, <1>9
<1> QED
  BY <1>7, <1>8, <1>9

\* A rollback wastes what w held.
LEMMA RollbackBooks ==
  ASSUME TypeOK, NEW w \in Worker, Rollback(w), NEW j \in Job, Balanced(j)
  PROVE  Balanced(j)'
<1>1. /\ EndTransaction(w) /\ UNCHANGED <<status, attempts, sends>>
      /\ wasted'[j] = wasted[j] + (IF j \in Uncommitted(w) THEN 1 ELSE 0)
      /\ wasted[j] \in Nat /\ attempts[j] \in Nat /\ sends[j] \in Nat
  BY DEF Rollback, rowVars, TypeOK
<1>2. /\ Uncommitted(w)' = {}
      /\ \A v \in Worker \ {w} : Uncommitted(v)' = Uncommitted(v)
  BY <1>1, EndHolds
<1>3. /\ Cardinality(Holders(j)) \in Nat
      /\ Cardinality(Holders(j))' =
           Cardinality(Holders(j)) - (IF j \in Uncommitted(w) THEN 1 ELSE 0)
  BY <1>2, HoldersStep
<1> QED
  BY <1>1, <1>3 DEF Balanced

\* Picking rows up is not yet a call.
LEMMA TakeBooks ==
  ASSUME TypeOK, Core, NEW w \in Worker, TakeBatch(w), NEW j \in Job, Balanced(j)
  PROVE  Balanced(j)'
<1>1. /\ phase[w] = "sleep" /\ phase' = [phase EXCEPT ![w] = "loop"]
      /\ \A v \in Worker \ {w} : batch'[v] = batch[v]
      /\ UNCHANGED <<status, attempts, won, lost, sends, wasted>>
  BY DEF TakeBatch, rowVars, historyVars, TypeOK
<1>2. Uncommitted(w) = {} /\ won[w] = {} /\ lost[w] = {} /\ phase'[w] = "loop"
  BY <1>1, UncommittedOf DEF Core, WorkerShape, TypeOK
<1>3. Uncommitted(w)' = {}
  BY <1>1, <1>2 DEF Uncommitted, Calling, Staged
<1>4. \A v \in Worker \ {w} : Uncommitted(v)' = Uncommitted(v)
  BY <1>1, OthersKeep DEF TypeOK
<1> QED
  BY <1>1, <1>2, <1>3, <1>4, SameBooks

\* Steps that touch neither batches nor rows.
LEMMA QuietBooks ==
  ASSUME TypeOK, NEW j \in Job, Balanced(j),
         UNCHANGED <<status, attempts, phase, batch, won, lost, sends, wasted>>
  PROVE  Balanced(j)'
<1>1. \A v \in Worker : Uncommitted(v)' = Uncommitted(v)
  BY OthersKeep
<1> QED
  BY <1>1, SameBooks

\* Every step keeps the books of a row.
LEMMA NextBooks ==
  ASSUME TypeOK, Core, [Next]_vars, NEW j \in Job, Balanced(j)
  PROVE  Balanced(j)'
<1>1. ASSUME NEW i \in Job, HandleEnqueue(i) PROVE Balanced(j)'
  <2>1. /\ UNCHANGED <<attempts, phase, batch, won, lost, sends, wasted>>
        /\ status'[j] = "done" <=> status[j] = "done"
    BY <1>1 DEF HandleEnqueue, Insert, txVars, historyVars, TypeOK
  <2>2. \A v \in Worker : Uncommitted(v)' = Uncommitted(v)
    BY <2>1, OthersKeep
  <2> QED
    BY <2>1, <2>2, SameBooks
<1>2. ASSUME NEW w \in Worker, TakeBatch(w) PROVE Balanced(j)'
  BY <1>2, TakeBooks
<1>3. ASSUME NEW w \in Worker, StartDelivery(w) PROVE Balanced(j)'
  BY <1>3, StartBooks
<1>4. ASSUME NEW w \in Worker, DeliverySucceeds(w) \/ DeliveryFails(w)
      PROVE  Balanced(j)'
  BY <1>4, AnsweredBooks
<1>5. ASSUME NEW w \in Worker, CommitBatch(w) PROVE Balanced(j)'
  BY <1>5, CommitBooks
<1>6. ASSUME NEW w \in Worker, Crash(w) \/ NoticeLoss(w) PROVE Balanced(j)'
  BY <1>6, RollbackBooks DEF Crash, NoticeLoss
<1>7. ASSUME NEW w \in Worker, TargetAccepts(w) \/ LoseTransaction(w)
      PROVE  Balanced(j)'
  <2>1. UNCHANGED <<status, attempts, phase, batch, won, lost, sends, wasted>>
    BY <1>7 DEF TargetAccepts, LoseTransaction, rowVars, txVars
  <2> QED
    BY <2>1, QuietBooks
<1>8. CASE Tick \/ UNCHANGED vars
  <2>1. UNCHANGED <<status, attempts, phase, batch, won, lost, sends, wasted>>
    BY <1>8 DEF Tick, vars, rowVars, txVars, historyVars
  <2> QED
    BY <2>1, QuietBooks
<1> QED
  BY <1>1, <1>2, <1>3, <1>4, <1>5, <1>6, <1>7, <1>8 DEF Next, Work, Fault

-----------------------------------------------------------------------------
\* The books of a row start balanced.
LEMMA InitBooks == Init => \A j \in Job : Balanced(j)
<1> SUFFICES ASSUME Init, NEW j \in Job PROVE Balanced(j)
  OBVIOUS
<1>1. Holders(j) = {}
  BY DEF Init, Holders, Uncommitted, Calling, Staged
<1>2. Cardinality(Holders(j)) = 0
  BY <1>1, FS_EmptySet
<1> QED
  BY <1>2 DEF Init, Balanced

\* Every call of a webhook by any replica is counted in attempts, made the job
\* done, is under way, or was rolled back with its transaction.
THEOREM NoCallForgotten == Spec => []CallsAccounted
<1> DEFINE Books == \A j \in Job : Balanced(j)
<1>1. Init => Books
  BY InitBooks
<1>2. IInv /\ Books /\ [Next]_vars => Books'
  BY NextBooks DEF IInv, Core
<1>3. Books => CallsAccounted
  BY DEF CallsAccounted, Balanced, Holders
<1> QED
  BY <1>1, <1>2, <1>3, Invariance, PTL DEF Spec

-----------------------------------------------------------------------------
(***************************************************************************)
(* A failed job rests: the commit happens before the first backoff has     *)
(* passed, because a batch is at most BatchSize calls long and every call  *)
(* ends by its timeout.                                                    *)
(***************************************************************************)

Submitted == { j \in Job : status[j] # "absent" }

\* The time of a transaction is that of the calls it has made.
KeepsPace(w) ==
    /\ phase[w] # "sleep" =>
        /\ IsFiniteSet(batch[w]) /\ Cardinality(batch[w]) <= BatchSize
        /\ age[w] <= Cardinality(Staged(w)) * CallLimit + (IF phase[w] = "call" THEN spent[w] ELSE 0)
    /\ phase[w] = "call" => Current(w) # {} /\ spent[w] <= CallLimit

PaceInv == IsFiniteSet(Submitted) /\ \A w \in Worker : KeepsPace(w)

\* n calls and one more.
LEMMA CallsAddUp ==
  /\ CallLimit \in Nat
  /\ \A n \in Nat : n * CallLimit \in Nat /\ (n + 1) * CallLimit = n * CallLimit + CallLimit
  /\ \A m, n \in Nat : m <= n => m * CallLimit <= n * CallLimit
<1>1. CallLimit \in Nat
  BY TimeAssumption DEF CallLimit
<1>2. PICK c \in Nat : c = CallLimit
  BY <1>1
<1>3. \A n \in Nat : n * c \in Nat /\ (n + 1) * c = n * c + c
  OBVIOUS
<1>4. ASSUME NEW m \in Nat, NEW n \in Nat, m <= n PROVE m * c <= n * c
  <2>1. PICK k \in Nat : n = m + k
    BY <1>4, n - m \in Nat
  <2>2. (m + k) * c = m * c + k * c /\ k * c \in Nat /\ m * c \in Nat
    OBVIOUS
  <2> QED
    BY <2>1, <2>2
<1> QED
  BY <1>2, <1>3, <1>4

\* A worker whose transaction nobody touches keeps its pace.
LEMMA PaceFrame ==
  ASSUME NEW v \in Worker, KeepsPace(v), phase'[v] = phase[v], batch'[v] = batch[v], won'[v] = won[v],
         lost'[v] = lost[v], age'[v] = age[v], spent'[v] = spent[v]
  PROVE  KeepsPace(v)'
<1>1. Staged(v)' = Staged(v) /\ Current(v)' = Current(v)
  BY CurrentFrame DEF Staged
<1> QED
  BY <1>1 DEF KeepsPace

\* The rows of a batch have been submitted: there are finitely many, and no more
\* than the LIMIT.
LEMMA TakePace ==
  ASSUME TypeOK, Core, PaceInv, NEW w \in Worker, TakeBatch(w)
  PROVE  PaceInv'
<1>1. PICK S \in SUBSET Due :
        /\ Cardinality(S) = IF Cardinality(Due) < BatchSize THEN Cardinality(Due) ELSE BatchSize
        /\ batch' = [batch EXCEPT ![w] = S]
  BY DEF TakeBatch
<1>2. Due \subseteq Submitted
  BY DEF Due, Submitted
<1>3. IsFiniteSet(S) /\ IsFiniteSet(Due) /\ Cardinality(Due) \in Nat
  BY <1>2, FS_Subset, FS_CardinalityType DEF PaceInv
<1>4. Cardinality(S) <= BatchSize
  BY <1>1, <1>3, LimitAssumption
<1>5. /\ UNCHANGED <<status, won, lost, spent>>
      /\ phase' = [phase EXCEPT ![w] = "loop"] /\ age' = [age EXCEPT ![w] = 0]
      /\ phase[w] = "sleep"
  BY DEF TakeBatch, rowVars, callVars
<1>6. KeepsPace(w)'
  <2>1. won'[w] = {} /\ lost'[w] = {}
    BY <1>5 DEF Core, WorkerShape
  <2>2. Cardinality(Staged(w)') = 0
    BY <2>1, FS_EmptySet DEF Staged
  <2>3. /\ phase'[w] = "loop" /\ batch'[w] = S /\ age'[w] = 0
    BY <1>1, <1>5 DEF TypeOK
  <2>4. 0 * CallLimit = 0
    BY CallsAddUp
  <2> QED
    BY <1>3, <1>4, <2>2, <2>3, <2>4 DEF KeepsPace
<1>7. ASSUME NEW v \in Worker, v # w PROVE KeepsPace(v)'
  BY <1>1, <1>5, <1>7, PaceFrame DEF TypeOK, PaceInv
<1>8. Submitted' = Submitted
  BY <1>5 DEF Submitted
<1> QED
  BY <1>6, <1>7, <1>8 DEF PaceInv

\* An answered call, or one that has timed out, is one call more.
LEMMA AnsweredPace ==
  ASSUME TypeOK, Core, PaceInv, NEW w \in Worker, phase[w] = "call",
         phase' = [phase EXCEPT ![w] = "loop"], UNCHANGED <<status, batch, age, spent>>,
         Staged(w)' = Staged(w) \cup Current(w), NEW c \in Current(w),
         \A v \in Worker : v # w => won'[v] = won[v] /\ lost'[v] = lost[v]
  PROVE  PaceInv'
<1>1. /\ Current(w) = {c} /\ c \in batch[w] /\ c \notin Staged(w)
  BY CurrentIsOne DEF Current, Todo
<1>2. /\ IsFiniteSet(batch[w]) /\ Cardinality(batch[w]) <= BatchSize /\ spent[w] <= CallLimit
      /\ age[w] <= Cardinality(Staged(w)) * CallLimit + spent[w]
  BY DEF PaceInv, KeepsPace
<1>3. Staged(w) \subseteq batch[w]
  BY DEF Core, WorkerShape, Staged
<1>4. IsFiniteSet(Staged(w)) /\ Cardinality(Staged(w)) \in Nat
  BY <1>2, <1>3, FS_Subset, FS_CardinalityType
<1>5. Cardinality(Staged(w)') = Cardinality(Staged(w)) + 1
  BY <1>1, <1>4, FS_AddElement
<1>6. age[w] \in Nat /\ spent[w] \in Nat /\ phase'[w] = "loop"
  BY DEF TypeOK
<1>7. age[w] <= (Cardinality(Staged(w)) + 1) * CallLimit + 0
  <2> DEFINE n == Cardinality(Staged(w))
  <2>1. n * CallLimit \in Nat /\ (n + 1) * CallLimit = n * CallLimit + CallLimit /\ CallLimit \in Nat
    BY <1>4, CallsAddUp
  <2> HIDE DEF n
  <2>2. (n + 1) * CallLimit \in Nat
    BY <2>1
  <2>3. age[w] <= n * CallLimit + spent[w]
    BY <1>2 DEF n
  <2>4. age[w] <= (n + 1) * CallLimit + 0
    BY <1>2, <1>6, <2>1, <2>2, <2>3
  <2> QED
    BY <2>4 DEF n
<1>8. KeepsPace(w)'
  BY <1>2, <1>5, <1>6, <1>7 DEF KeepsPace
<1>9. ASSUME NEW v \in Worker, v # w PROVE KeepsPace(v)'
  <2>1. phase'[v] = phase[v]
    BY <1>9 DEF TypeOK
  <2> QED
    BY <1>9, <2>1, PaceFrame DEF PaceInv
<1>10. Submitted' = Submitted
  BY DEF Submitted
<1> QED
  BY <1>8, <1>9, <1>10 DEF PaceInv

\* A worker without a transaction is not measured.
LEMMA EndPace ==
  ASSUME TypeOK, PaceInv, NEW w \in Worker, EndTransaction(w), IsFiniteSet(Submitted')
  PROVE  PaceInv'
<1>1. KeepsPace(w)'
  BY DEF KeepsPace, EndTransaction, TypeOK
<1>2. ASSUME NEW v \in Worker, v # w PROVE KeepsPace(v)'
  BY <1>2, PaceFrame DEF EndTransaction, TypeOK, PaceInv
<1> QED
  BY <1>1, <1>2 DEF PaceInv

\* The clock adds to the transaction what it adds to the call.
LEMMA TickPace ==
  ASSUME TypeOK, Core, PaceInv, Tick
  PROVE  PaceInv'
<1>1. ASSUME NEW w \in Worker PROVE KeepsPace(w)'
  <2>1. Staged(w)' = Staged(w) /\ Current(w)' = Current(w) /\ phase'[w] = phase[w] /\ batch'[w] = batch[w]
    BY CurrentFrame DEF Tick, Staged
  <2>2. CASE phase[w] = "call"
    <3>1. age'[w] = age[w] + 1 /\ spent'[w] = spent[w] + 1 /\ spent[w] < CallLimit
      BY <2>2 DEF Tick
    <3>2. spent[w] \in Nat /\ age[w] \in Nat /\ CallLimit \in Nat
      BY CallsAddUp DEF TypeOK
    <3>3. /\ IsFiniteSet(batch[w]) /\ Cardinality(batch[w]) <= BatchSize /\ Current(w) # {}
          /\ age[w] <= Cardinality(Staged(w)) * CallLimit + spent[w]
      BY <2>2 DEF PaceInv, KeepsPace
    <3>4. Cardinality(Staged(w)) \in Nat
      <4>1. Staged(w) \subseteq batch[w]
        BY DEF Core, WorkerShape, Staged
      <4> QED
        BY <3>3, <4>1, FS_Subset, FS_CardinalityType
    <3>5. Cardinality(Staged(w)) * CallLimit \in Nat
      BY <3>4, CallsAddUp
    <3>6. age[w] + 1 <= Cardinality(Staged(w)) * CallLimit + (spent[w] + 1)
      BY <3>2, <3>3, <3>5
    <3>7. spent[w] + 1 <= CallLimit
      BY <3>1, <3>2
    <3> QED
      BY <2>1, <2>2, <3>1, <3>3, <3>6, <3>7 DEF KeepsPace
  <2>3. CASE phase[w] # "call"
    <3>1. age'[w] = age[w] /\ spent'[w] = spent[w]
      BY <2>3 DEF Tick
    <3>2. won'[w] = won[w] /\ lost'[w] = lost[w]
      BY DEF Tick
    <3> QED
      BY <2>1, <3>1, <3>2, PaceFrame DEF PaceInv
  <2> QED
    BY <2>2, <2>3
<1>2. Submitted' = Submitted
  BY DEF Tick, Submitted
<1> QED
  BY <1>1, <1>2 DEF PaceInv

\* Every step keeps the pace.
LEMMA NextPace ==
  ASSUME TypeOK, Core, PaceInv, [Next]_vars
  PROVE  PaceInv'
<1>1. ASSUME NEW j \in Job, HandleEnqueue(j) PROVE PaceInv'
  <2>1. /\ status' = [status EXCEPT ![j] = "pending"]
        /\ UNCHANGED <<phase, batch, won, lost, age, spent>>
    BY <1>1 DEF HandleEnqueue, Insert, txVars, callVars
  <2>2. Submitted' \subseteq Submitted \cup {j}
    BY <2>1 DEF Submitted, TypeOK
  <2>3. IsFiniteSet(Submitted \cup {j})
    BY FS_AddElement DEF PaceInv
  <2>4. IsFiniteSet(Submitted')
    BY <2>2, <2>3, FS_Subset
  <2> QED
    BY <2>1, <2>4, PaceFrame DEF PaceInv
<1>2. ASSUME NEW w \in Worker, StartDelivery(w) PROVE PaceInv'
  <2>1. /\ phase[w] = "loop" /\ Current(w) # {} /\ phase'[w] = "call" /\ spent'[w] = 0
        /\ UNCHANGED <<status, batch, won, lost, age>>
        /\ \A v \in Worker : v # w => phase'[v] = phase[v] /\ spent'[v] = spent[v]
    BY <1>2 DEF StartDelivery, rowVars, txVars, TypeOK
  <2>2. Staged(w)' = Staged(w) /\ Current(w)' = Current(w) /\ Submitted' = Submitted
    BY <2>1, CurrentFrame DEF Staged, Submitted
  <2>3. KeepsPace(w)'
    BY <2>1, <2>2, CallsAddUp DEF PaceInv, KeepsPace
  <2> QED
    BY <2>1, <2>2, <2>3, PaceFrame DEF PaceInv
<1>3. ASSUME NEW w \in Worker, DeliverySucceeds(w) PROVE PaceInv'
  <2>1. /\ phase[w] = "call" /\ phase' = [phase EXCEPT ![w] = "loop"]
        /\ UNCHANGED <<status, batch, lost, age, spent>>
        /\ won' = [won EXCEPT ![w] = @ \cup Current(w)]
    BY <1>3 DEF DeliverySucceeds, rowVars, callVars
  <2>2. Staged(w)' = Staged(w) \cup Current(w)
    BY <2>1 DEF Staged, TypeOK
  <2>3. PICK c \in Current(w) : TRUE
    BY <2>1 DEF PaceInv, KeepsPace
  <2> QED
    BY <2>1, <2>2, AnsweredPace DEF TypeOK
<1>4. ASSUME NEW w \in Worker, DeliveryFails(w) PROVE PaceInv'
  <2>1. /\ phase[w] = "call" /\ phase' = [phase EXCEPT ![w] = "loop"]
        /\ UNCHANGED <<status, batch, won, age, spent>>
        /\ lost' = [lost EXCEPT ![w] = @ \cup Current(w)]
    BY <1>4 DEF DeliveryFails, rowVars, callVars
  <2>2. Staged(w)' = Staged(w) \cup Current(w)
    BY <2>1 DEF Staged, TypeOK
  <2>3. PICK c \in Current(w) : TRUE
    BY <1>4 DEF DeliveryFails
  <2> QED
    BY <2>1, <2>2, AnsweredPace DEF TypeOK
<1>5. ASSUME NEW w \in Worker, CommitBatch(w) PROVE PaceInv'
  <2>1. \A j \in Job : status[j] = "absent" => status'[j] = "absent"
    BY <1>5, CommitRows
  <2>2. Submitted' \subseteq Submitted
    BY <2>1 DEF Submitted
  <2>3. IsFiniteSet(Submitted')
    BY <2>2, FS_Subset DEF PaceInv
  <2> QED
    BY <1>5, <2>3, EndPace DEF CommitBatch
<1>6. ASSUME NEW w \in Worker, Rollback(w) PROVE PaceInv'
  <2>1. EndTransaction(w) /\ Submitted' = Submitted
    BY <1>6 DEF Rollback, rowVars, Submitted
  <2> QED
    BY <2>1, EndPace DEF PaceInv
<1>7. CASE UNCHANGED <<status, phase, batch, won, lost, age, spent>>
  <2>1. Submitted' = Submitted
    BY <1>7 DEF Submitted
  <2> QED
    BY <1>7, <2>1, PaceFrame DEF PaceInv
<1>8. ASSUME NEW w \in Worker, TargetAccepts(w) \/ LoseTransaction(w) PROVE PaceInv'
  BY <1>8, <1>7 DEF TargetAccepts, LoseTransaction, rowVars, txVars, callVars
<1>9. CASE UNCHANGED vars
  BY <1>9, <1>7 DEF vars, rowVars, txVars, callVars
<1> QED
  BY <1>1, <1>2, <1>3, <1>4, <1>5, <1>6, <1>8, <1>9, TakePace, TickPace
     DEF Next, Work, Fault, Crash, NoticeLoss

\* Two things are two.
LEMMA PairSize ==
  ASSUME NEW a, NEW b, a # b
  PROVE  Cardinality({a, b}) = 2
<1>1. IsFiniteSet({a}) /\ Cardinality({a}) = 1
  BY FS_Singleton
<1>2. Cardinality({a} \cup {b}) = 1 + 1
  BY <1>1, FS_AddElement
<1>3. {a} \cup {b} = {a, b}
  OBVIOUS
<1> QED
  BY <1>2, <1>3

\* A job that has failed once, or more often, is to wait two minutes at least.
LEMMA TwoMinutes ==
  ASSUME NEW n \in Nat \ {0}
  PROVE  Backoff(n) \in Nat /\ 2 * Minute <= Backoff(n)
<1>1. IsFiniteSet(SUBSET (1..n))
  <2>1. IsFiniteSet(1..n)
    BY FS_Interval
  <2> QED
    BY <2>1, FS_SUBSET
<1>2. {{}, {1}} \subseteq SUBSET (1..n)
  OBVIOUS
<1>3. Cardinality({{}, {1}}) = 2
  BY PairSize, {} # {1}
<1>4. PowerOfTwo(n) \in Nat /\ 2 <= PowerOfTwo(n)
  BY <1>1, <1>2, <1>3, FS_Subset, FS_CardinalityType DEF PowerOfTwo
<1>5. PICK p \in Nat : PowerOfTwo(n) = p + 2
  BY <1>4, PowerOfTwo(n) - 2 \in Nat
<1>6. PICK m \in Nat : m = Minute
  BY TimeAssumption
<1>7. (p + 2) * m = p * m + 2 * m /\ p * m \in Nat
  OBVIOUS
<1> QED
  BY <1>5, <1>6, <1>7 DEF Backoff

\* The start of a table.
LEMMA InitPace == Init => PaceInv
<1> SUFFICES ASSUME Init PROVE PaceInv
  OBVIOUS
<1>1. Submitted = {}
  BY DEF Init, Submitted
<1>2. IsFiniteSet(Submitted)
  BY <1>1, FS_EmptySet
<1> QED
  BY <1>2 DEF Init, PaceInv, KeepsPace

\* What is committed as a failure before the first backoff is over has to wait.
LEMMA CommitRests ==
  ASSUME TypeOK, Core, PaceInv, NEW w \in Worker, CommitBatch(w), BatchSize * CallLimit < 2 * Minute,
         NEW j \in Job, status'[j] = "pending", attempts'[j] > attempts[j]
  PROVE  wait'[j] > 0
<1>1. j \in lost[w] /\ j \notin won[w] /\ attempts[j] \in Nat
  BY CommitRows DEF TypeOK, Core, WorkerShape
<1>2. ~Exhausted(w, j)
  BY <1>1 DEF CommitBatch, NewStatus
<1>3. PICK n \in Nat \ {0} : n = seen[w][j] + 1
  BY seen[w][j] \in Nat DEF TypeOK
<1>4. wait'[j] = Remaining(Backoff(n), age[w])
  BY <1>1, <1>2, <1>3 DEF CommitBatch, NewWait
<1>5. Staged(w) = batch[w]
  BY DEF CommitBatch, Todo, Core, WorkerShape, Staged
<1>6. /\ IsFiniteSet(batch[w]) /\ Cardinality(batch[w]) <= BatchSize
      /\ age[w] <= Cardinality(batch[w]) * CallLimit + 0
  BY <1>5 DEF PaceInv, KeepsPace, CommitBatch
<1>7. PICK c, b : c = Cardinality(batch[w]) * CallLimit /\ b = BatchSize * CallLimit
  OBVIOUS
<1>8. c <= b /\ c \in Nat /\ b \in Nat
  BY <1>6, <1>7, CallsAddUp, FS_CardinalityType, LimitAssumption
<1>9. age[w] \in Nat /\ age[w] <= c + 0 /\ b < 2 * Minute
  BY <1>6, <1>7 DEF TypeOK
<1>10. age[w] < Backoff(n) /\ Backoff(n) \in Nat
  <2>1. Backoff(n) \in Nat /\ 2 * Minute <= Backoff(n) /\ 2 * Minute \in Nat
    BY TwoMinutes, TimeAssumption
  <2> QED
    BY <1>8, <1>9, <2>1
<1> QED
  BY <1>4, <1>9, <1>10 DEF Remaining

\* Exponential backoff (worker.go:86): the commit that records a failed attempt
\* leaves the job waiting, for any replicas and jobs, when a batch of calls cannot
\* outlast the first backoff.
THEOREM FailureRests ==
  ASSUME BatchSize * CallLimit < 2 * Minute
  PROVE  Spec => FailedJobRests
<1>1. Init => PaceInv
  BY InitPace
<1>2. IInv /\ PaceInv /\ [Next]_vars => PaceInv'
  BY NextPace DEF IInv, Core
<1>3. IInv /\ PaceInv /\ [Next]_vars
        => [\A j \in Job : status'[j] = "pending" /\ attempts'[j] > attempts[j] => wait'[j] > 0]_vars
  <2> SUFFICES ASSUME TypeOK, Core, PaceInv, [Next]_vars, NEW j \in Job,
                      status'[j] = "pending", attempts'[j] > attempts[j]
               PROVE  wait'[j] > 0
    BY DEF IInv, Core
  <2>1. ~(attempts' = attempts)
    BY DEF TypeOK
  <2>2. PICK w \in Worker : CommitBatch(w)
    BY <2>1 DEF Next, Work, Fault, HandleEnqueue, Insert, TakeBatch, StartDelivery, TargetAccepts,
                DeliverySucceeds, DeliveryFails, Crash, LoseTransaction, NoticeLoss, Rollback, Tick,
                rowVars, vars
  <2> QED
    BY <2>2, CommitRests
<1> QED
  BY <1>1, <1>2, <1>3, Invariance, PTL DEF Spec, FailedJobRests

=============================================================================
