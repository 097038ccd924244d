---------------------------- MODULE JobScheduler ----------------------------
(***************************************************************************)
(* The cron half of services/svc-jobs: table schedules, its admin API, and *)
(* the schedulerWorker of each replica.  runSchedules reads the enabled    *)
(* schedules outside any transaction, then, one transaction per schedule   *)
(* that is due by what it read, inserts a job and moves last_run_at to the *)
(* time the transaction began, without comparing it with what is there:    *)
(* a transaction that stalls takes last_run_at back.                       *)
(*                                                                         *)
(* The row lock of the UPDATE is held to the commit, so the two are one    *)
(* step; the server and the replicas share a clock.                        *)
(*                                                                         *)
(* A cron expression is the set of multiples of Period; a tick of a        *)
(* schedule is one of them.  Time is counted in scans' worth of seconds    *)
(* and stops at MaxTime.                                                   *)
(***************************************************************************)
EXTENDS Naturals, FiniteSets

CONSTANTS
    Replica,       \* replicas running schedulerWorker
    Schedule,      \* ids of the rows of schedules
    Period,        \* distance between two cron ticks
    MaxTime,       \* bound: the clock stops here
    MaxCrashes     \* bound: crashes and failed statements in a behaviour

ASSUME SchedulerAssumption ==
    /\ Period \in Nat \ {0}
    /\ MaxTime \in Nat /\ MaxCrashes \in Nat
    /\ IsFiniteSet(Replica)

VARIABLES
    now,
    state,         \* "absent" | "enabled" | "disabled" | "deleted"
    allowed,       \* schedules whose webhook validateWebhook accepts
    base,          \* COALESCE(last_run_at, created_at)
    mode,          \* each replica: "sleep" | "scan"
    todo,          \* rows its query returned, still to be looked at
    read,          \* base of those rows as read
    asOf,          \* now as sampled after the query
    firing,        \* the schedule whose transaction it has open, if any
    begun,         \* when that transaction began: the now() of its statements
    fired,         \* history: fired[s][t], jobs inserted for tick t of s
    rewinds,       \* history: commits that took last_run_at of s back
    unwanted,      \* history: jobs inserted since s was paused or deleted
    crashes

tableVars     == <<state, allowed, base>>
txVars        == <<firing, begun>>
replicaVars   == <<mode, todo, read, asOf, txVars>>
historyVars   == <<fired, rewinds, unwanted>>
schedulerVars == <<now, tableVars, replicaVars, historyVars, crashes>>

Times == 0..(MaxTime + Period)

\* cron.Schedule.Next: the first tick strictly after t.
NextTick(t) == Period * ((t \div Period) + 1)

\* !schedule.Next(s.base).After(now)
IsDue(r, s) == NextTick(read[r][s]) <= asOf[r]

-----------------------------------------------------------------------------
SchedulerInit ==
    /\ now = 0
    /\ state = [s \in Schedule |-> "absent"]
    /\ allowed = {}
    /\ base = [s \in Schedule |-> 0]
    /\ mode = [r \in Replica |-> "sleep"]
    /\ todo = [r \in Replica |-> {}]
    /\ read = [r \in Replica |-> [s \in Schedule |-> 0]]
    /\ asOf = [r \in Replica |-> 0]
    /\ firing = [r \in Replica |-> {}]
    /\ begun = [r \in Replica |-> 0]
    /\ fired = [s \in Schedule |-> [t \in Times |-> 0]]
    /\ rewinds = [s \in Schedule |-> 0]
    /\ unwanted = [s \in Schedule |-> 0]
    /\ crashes = 0

\* POST /schedules checks the prefix of the webhook only: a host that
\* validateWebhook refuses gets in.
HandleCreateSchedule(s) ==
    /\ state[s] = "absent"
    /\ state' = [state EXCEPT ![s] = "enabled"]
    /\ base' = [base EXCEPT ![s] = now]
    /\ allowed' \in {allowed, allowed \cup {s}}
    /\ UNCHANGED <<now, replicaVars, historyVars, crashes>>

\* PATCH /schedules/:id; last_run_at is left as it is.
HandleUpdateSchedule(s) ==
    /\ state[s] \in {"enabled", "disabled"}
    /\ \E to \in {"enabled", "disabled"} :
        /\ state' = [state EXCEPT ![s] = to]
        /\ unwanted' = IF to = "enabled" THEN [unwanted EXCEPT ![s] = 0] ELSE unwanted
    /\ UNCHANGED <<now, allowed, base, replicaVars, fired, rewinds, crashes>>

\* DELETE /schedules/:id
HandleDeleteSchedule(s) ==
    /\ state[s] \in {"enabled", "disabled"}
    /\ state' = [state EXCEPT ![s] = "deleted"]
    /\ UNCHANGED <<now, allowed, base, replicaVars, historyVars, crashes>>

\* Mutant: the query without WHERE enabled=true.
Listed_Paused == { s \in Schedule : state[s] \in {"enabled", "disabled"} }

\* The rows a scan's query returns.
Listed == { s \in Schedule : state[s] = "enabled" }

\* The query of runSchedules and now := time.Now().
Scan(r) ==
    /\ mode[r] = "sleep"
    /\ mode' = [mode EXCEPT ![r] = "scan"]
    /\ todo' = [todo EXCEPT ![r] = Listed]
    /\ read' = [read EXCEPT ![r] = [s \in Schedule |-> IF s \in Listed THEN base[s] ELSE 0]]
    /\ asOf' = [asOf EXCEPT ![r] = now]
    /\ UNCHANGED <<now, tableVars, txVars, historyVars, crashes>>

\* Not due, or a webhook validateWebhook refuses: continue.
Skip(r, s) ==
    /\ mode[r] = "scan" /\ s \in todo[r] /\ firing[r] = {}
    /\ ~IsDue(r, s) \/ s \notin allowed
    /\ todo' = [todo EXCEPT ![r] = @ \ {s}]
    /\ UNCHANGED <<now, tableVars, mode, read, asOf, txVars, historyVars, crashes>>

\* db.Begin: from here on now() is the time of this step.
BeginFire(r, s) ==
    /\ mode[r] = "scan" /\ s \in todo[r] /\ firing[r] = {}
    /\ IsDue(r, s) /\ s \in allowed
    /\ firing' = [firing EXCEPT ![r] = {s}]
    /\ begun' = [begun EXCEPT ![r] = now]
    /\ UNCHANGED <<now, tableVars, mode, todo, read, asOf, historyVars, crashes>>

InsertJob(r, s) ==
    /\ fired' = [fired EXCEPT ![s][NextTick(read[r][s])] = @ + 1]
    /\ unwanted' = IF state[s] = "enabled" THEN unwanted ELSE [unwanted EXCEPT ![s] = @ + 1]
    /\ todo' = [todo EXCEPT ![r] = @ \ {s}]
    /\ firing' = [firing EXCEPT ![r] = {}]
    /\ begun' = [begun EXCEPT ![r] = 0]

\* Mutant: last_run_at is not moved.
CommitFire_KeepsBase(r, s) ==
    /\ mode[r] = "scan" /\ firing[r] = {s}
    /\ InsertJob(r, s)
    /\ UNCHANGED <<now, tableVars, mode, read, asOf, rewinds, crashes>>

\* INSERT INTO jobs, UPDATE schedules SET last_run_at=now() and Commit, whatever
\* has become of the row since it was read.
CommitFire(r, s) ==
    /\ mode[r] = "scan" /\ firing[r] = {s}
    /\ InsertJob(r, s)
    /\ IF state[s] = "deleted" THEN UNCHANGED <<base, rewinds>>
       ELSE /\ base' = [base EXCEPT ![s] = begun[r]]
            /\ rewinds' = IF begun[r] < base[s] THEN [rewinds EXCEPT ![s] = @ + 1] ELSE rewinds
    /\ UNCHANGED <<now, state, allowed, mode, read, asOf, crashes>>

Forget(r) ==
    /\ mode' = [mode EXCEPT ![r] = "sleep"]
    /\ todo' = [todo EXCEPT ![r] = {}]
    /\ read' = [read EXCEPT ![r] = [s \in Schedule |-> 0]]
    /\ asOf' = [asOf EXCEPT ![r] = 0]
    /\ firing' = [firing EXCEPT ![r] = {}]
    /\ begun' = [begun EXCEPT ![r] = 0]

\* Mutant: a scan ends without going back to sleep.
EndScan_Hangs(r) ==
    /\ mode[r] = "scan" /\ todo[r] = {}
    /\ UNCHANGED schedulerVars

EndScan(r) ==
    /\ mode[r] = "scan" /\ todo[r] = {}
    /\ Forget(r)
    /\ UNCHANGED <<now, tableVars, historyVars, crashes>>

\* A crash, or an error of Begin, Exec or Commit: an open transaction is rolled
\* back and the rest of the scan is off.
AbandonScan(r) ==
    /\ mode[r] = "scan"
    /\ crashes < MaxCrashes
    /\ crashes' = crashes + 1
    /\ Forget(r)
    /\ UNCHANGED <<now, tableVars, historyVars>>

ClockTick ==
    /\ now < MaxTime
    /\ now' = now + 1
    /\ UNCHANGED <<tableVars, replicaVars, historyVars, crashes>>

-----------------------------------------------------------------------------
ReplicaStep(r) ==
    \/ Scan(r) \/ EndScan(r)
    \/ \E s \in Schedule : Skip(r, s) \/ BeginFire(r, s) \/ CommitFire(r, s)

SchedulerNext ==
    \/ \E s \in Schedule :
        HandleCreateSchedule(s) \/ HandleUpdateSchedule(s) \/ HandleDeleteSchedule(s)
    \/ \E r \in Replica : ReplicaStep(r) \/ AbandonScan(r)
    \/ ClockTick

SchedulerSpec == SchedulerInit /\ [][SchedulerNext]_schedulerVars

\* schedulerWorker scans forever; admins and faults owe nothing.
FairSchedulerSpec == SchedulerSpec /\ \A r \in Replica : WF_schedulerVars(ReplicaStep(r))

-----------------------------------------------------------------------------
\* The two statements of one transaction are what keeps a replica from firing
\* a tick again, across its own crashes and the admins' toggling: a tick gives
\* one job per replica at most, and each replica another one for each time that
\* a transaction begun earlier commits later and takes last_run_at back.
OncePerReplica ==
    \A s \in Schedule, t \in Times : fired[s][t] <= Cardinality(Replica) * (1 + rewinds[s])

\* "Next<=now derives one job", and jobs are multi-replica safe: no tick of a
\* schedule gives two jobs.
OncePerTick == \A s \in Schedule, t \in Times : fired[s][t] <= 1

\* A schedule that an admin has paused or deleted still fires from the rows that
\* were read before, but each replica fires it once at most until it is enabled
\* again: no scan begun after the admin's answer sees it.
PausedFiresOnce ==
    \A s \in Schedule : state[s] # "enabled" => unwanted[s] <= Cardinality(Replica)

\* An enabled schedule whose tick has passed gets its job, unless an admin
\* interferes or its webhook is refused.
DueScheduleFires ==
    \A s \in Schedule :
        (state[s] = "enabled" /\ s \in allowed /\ NextTick(base[s]) <= now)
            ~> (state[s] # "enabled" \/ NextTick(base[s]) > now)

=============================================================================
