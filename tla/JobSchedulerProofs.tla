------------------------- MODULE JobSchedulerProofs -------------------------
(***************************************************************************)
(* JobScheduler for any number of replicas, schedules and ticks.  No       *)
(* action of a replica bounds how often a tick fires: what does is that a  *)
(* scan begun while last_run_at is past the tick does not see it, so that  *)
(* only the scans under way then are left to fire it, one for each         *)
(* replica, until a stalled transaction takes last_run_at back behind it.  *)
(***************************************************************************)
EXTENDS JobScheduler, FiniteSetTheorems, TLAPS

ReadsOf == [Schedule -> 0 .. MaxTime]

\* A replica samples the clock after its query, and knows only rows that exist.
SchedulerTypes ==
    /\ now \in 0 .. MaxTime
    /\ state \in [Schedule -> {"absent", "enabled", "disabled", "deleted"}]
    /\ allowed \subseteq Schedule
    /\ base \in [Schedule -> 0 .. MaxTime]
    /\ mode \in [Replica -> {"sleep", "scan"}]
    /\ todo \in [Replica -> SUBSET Schedule]
    /\ read \in [Replica -> ReadsOf]
    /\ asOf \in [Replica -> 0 .. MaxTime]
    /\ firing \in [Replica -> SUBSET Schedule]
    /\ begun \in [Replica -> 0 .. MaxTime]
    /\ fired \in [Schedule -> [Times -> Nat]]
    /\ rewinds \in [Schedule -> Nat]
    /\ unwanted \in [Schedule -> Nat]

ScansBehind ==
    /\ \A s \in Schedule : base[s] <= now
    /\ \A r \in Replica : asOf[r] <= now /\ begun[r] <= now
    /\ \A r \in Replica : mode[r] = "sleep" => todo[r] = {}
    /\ \A r \in Replica : \A s \in todo[r] : state[s] # "absent"
    /\ \A r \in Replica : \A s \in firing[r] : s \in todo[r] /\ NextTick(read[r][s]) <= begun[r]

\* The replicas whose scan may still fire tick t of s.
CanFire(s, t) == { r \in Replica : s \in todo[r] /\ NextTick(read[r][s]) = t }

\* The replicas whose scan still holds the row of s.
Holders(s) == { r \in Replica : s \in todo[r] }

FiredIsPast ==
    \A s \in Schedule, t \in Times : fired[s][t] > 0 => t <= now /\ state[s] # "absent"

\* A scan that begins now would take tick t of s as yet to be fired.
Behind(s, t) == state[s] # "deleted" /\ base[s] < t

Share(s) == Cardinality(Replica) * rewinds[s]

\* What has fired was paid for by the rewinds alone, if the tick can be read as
\* due once more; else the scans under way have a round more.
CountedAt(s, t) ==
    IF Behind(s, t) THEN fired[s][t] <= Share(s)
    ELSE fired[s][t] + Cardinality(CanFire(s, t)) <= Cardinality(Replica) + Share(s)

Counted == \A s \in Schedule, t \in Times : CountedAt(s, t)

\* No scan takes up a schedule that is off.
UnwantedCounted ==
    \A s \in Schedule :
        /\ state[s] \in {"absent", "enabled"} => unwanted[s] = 0
        /\ unwanted[s] + Cardinality(Holders(s)) <= Cardinality(Replica) \/ state[s] = "enabled"

SchedulerInv == SchedulerTypes /\ ScansBehind /\ FiredIsPast /\ Counted /\ UnwantedCounted

\* The next tick of a time is after it.
LEMMA TickIsLater == ASSUME NEW t \in Nat PROVE NextTick(t) \in Nat /\ NextTick(t) > t
<1>1. Period \in Nat /\ Period > 0
  BY SchedulerAssumption
<1> DEFINE q == t \div Period
<1>2. q \in Nat /\ t = Period * q + (t % Period) /\ (t % Period) < Period /\ (t % Period) \in Nat
  BY <1>1
<1>3. Period * (q + 1) = Period * q + Period /\ Period * q \in Nat
  BY <1>1, <1>2
<1> HIDE DEF q
<1>4. Period * (q + 1) > t /\ Period * (q + 1) \in Nat
  BY <1>1, <1>2, <1>3
<1> QED
  BY <1>4 DEF NextTick, q

\* There are finitely many replicas.
LEMMA ReplicaFinite == IsFiniteSet(Replica) /\ Cardinality(Replica) \in Nat
BY SchedulerAssumption, FS_CardinalityType

\* The replicas that can fire or hold a row are some of all of them.
LEMMA SomeReplicas ==
  ASSUME NEW S, S \subseteq Replica
  PROVE  IsFiniteSet(S) /\ Cardinality(S) \in Nat /\ Cardinality(S) <= Cardinality(Replica)
BY ReplicaFinite, FS_Subset, FS_CardinalityType

\* Fewer replicas count less.
LEMMA FewerReplicas ==
  ASSUME NEW S, NEW T, T \subseteq S, S \subseteq Replica
  PROVE  Cardinality(T) \in Nat /\ Cardinality(S) \in Nat /\ Cardinality(T) <= Cardinality(S)
<1>1. IsFiniteSet(S) /\ Cardinality(S) \in Nat
  BY SomeReplicas
<1>2. IsFiniteSet(T) /\ Cardinality(T) <= Cardinality(S)
  BY <1>1, FS_Subset
<1> QED
  BY <1>1, <1>2, FS_CardinalityType

\* Each rewind is worth a round of all the replicas.
LEMMA Shares ==
  ASSUME NEW k \in Nat
  PROVE  /\ Cardinality(Replica) * k \in Nat
         /\ Cardinality(Replica) * (k + 1) = Cardinality(Replica) + Cardinality(Replica) * k
         /\ Cardinality(Replica) * (1 + k) = Cardinality(Replica) + Cardinality(Replica) * k
<1> DEFINE N == Cardinality(Replica)
<1>1. N \in Nat
  BY ReplicaFinite
<1> HIDE DEF N
<1>2. N * k \in Nat /\ N * (k + 1) = N + N * k /\ N * (1 + k) = N + N * k
  BY <1>1
<1> QED
  BY <1>2 DEF N

\* Nothing has happened, so nothing has fired.
LEMMA SchedulerStart == SchedulerInit => SchedulerInv
<1> SUFFICES ASSUME SchedulerInit PROVE SchedulerInv
  OBVIOUS
<1>1. SchedulerTypes
  BY SchedulerAssumption DEF SchedulerInit, SchedulerTypes, ReadsOf, Times
<1>2. ScansBehind /\ FiredIsPast
  BY SchedulerAssumption DEF SchedulerInit, ScansBehind, FiredIsPast
<1>3. Counted
  <2> SUFFICES ASSUME NEW s \in Schedule, NEW t \in Times PROVE CountedAt(s, t)
    BY DEF Counted
  <2>1. CanFire(s, t) \subseteq Replica /\ fired[s][t] = 0 /\ rewinds[s] = 0
    BY DEF CanFire, SchedulerInit
  <2>2. Share(s) \in Nat
    BY <2>1, Shares DEF Share
  <2>3. Cardinality(CanFire(s, t)) \in Nat /\ Cardinality(CanFire(s, t)) <= Cardinality(Replica)
    BY <2>1, SomeReplicas
  <2> QED
    BY <2>1, <2>2, <2>3, ReplicaFinite DEF CountedAt
<1>4. UnwantedCounted
  <2> SUFFICES ASSUME NEW s \in Schedule
               PROVE  unwanted[s] = 0 /\ unwanted[s] + Cardinality(Holders(s)) <= Cardinality(Replica)
    BY DEF UnwantedCounted
  <2>1. Holders(s) \subseteq Replica /\ unwanted[s] = 0
    BY DEF Holders, SchedulerInit
  <2> QED
    BY <2>1, SomeReplicas
<1> QED
  BY <1>1, <1>2, <1>3, <1>4 DEF SchedulerInv

\* Where no job is inserted, a scan may join those that can fire a tick only as
\* long as last_run_at is behind it, where it stays.
LEMMA CountShrinks ==
  ASSUME SchedulerInv, UNCHANGED <<fired, rewinds>>,
         NEW s \in Schedule, NEW t \in Times,
         Behind(s, t)' => Behind(s, t),
         ~Behind(s, t)' => CanFire(s, t)' \subseteq CanFire(s, t)
  PROVE  CountedAt(s, t)'
<1>1. CountedAt(s, t) /\ fired[s][t] \in Nat /\ Share(s) \in Nat
  BY Shares DEF SchedulerInv, SchedulerTypes, Counted, Share
<1>2. CASE Behind(s, t)'
  BY <1>1, <1>2 DEF CountedAt, Share
<1>3. CASE ~Behind(s, t)'
  <2>1. CanFire(s, t) \subseteq Replica
    BY DEF CanFire
  <2>2. /\ Cardinality(CanFire(s, t)') \in Nat /\ Cardinality(CanFire(s, t)) \in Nat
        /\ Cardinality(CanFire(s, t)') <= Cardinality(CanFire(s, t))
        /\ Cardinality(CanFire(s, t)) <= Cardinality(Replica)
    BY <1>3, <2>1, FewerReplicas, SomeReplicas
  <2>3. fired[s][t] + Cardinality(CanFire(s, t)') <= Cardinality(Replica) + Share(s)
    BY <1>1, <2>2, ReplicaFinite DEF CountedAt
  <2> QED
    BY <1>3, <2>3 DEF CountedAt, Share
<1> QED
  BY <1>2, <1>3

\* The jobs of a schedule that is off stay bounded while no scan takes it up.
LEMMA UnwantedShrinks ==
  ASSUME SchedulerInv, NEW s \in Schedule,
         state'[s] # "enabled" => Holders(s)' \subseteq Holders(s),
         unwanted'[s] = unwanted[s] \/ unwanted'[s] = 0,
         state'[s] \in {"absent", "enabled"} => unwanted'[s] = 0
  PROVE  /\ state'[s] \in {"absent", "enabled"} => unwanted'[s] = 0
         /\ unwanted'[s] + Cardinality(Holders(s)') <= Cardinality(Replica) \/ state'[s] = "enabled"
<1> SUFFICES ASSUME state'[s] # "enabled"
             PROVE  unwanted'[s] + Cardinality(Holders(s)') <= Cardinality(Replica)
  OBVIOUS
<1>1. Holders(s) \subseteq Replica
  BY DEF Holders
<1>2. /\ Cardinality(Holders(s)') \in Nat /\ Cardinality(Holders(s)) \in Nat
      /\ Cardinality(Holders(s)') <= Cardinality(Holders(s))
      /\ Cardinality(Holders(s)) <= Cardinality(Replica)
  BY <1>1, FewerReplicas, SomeReplicas
<1>3. unwanted[s] \in Nat /\ (unwanted[s] = 0 \/ unwanted[s] + Cardinality(Holders(s)) <= Cardinality(Replica))
  BY DEF SchedulerInv, SchedulerTypes, UnwantedCounted
<1> QED
  BY <1>2, <1>3, ReplicaFinite

\* Admins and the clock leave scans alone.
LEMMA TableStep ==
  ASSUME SchedulerInv, UNCHANGED <<replicaVars, fired, rewinds>>,
         ClockTick \/ \E s \in Schedule : HandleCreateSchedule(s) \/ HandleUpdateSchedule(s) \/ HandleDeleteSchedule(s)
  PROVE  SchedulerInv'
<1> USE DEF SchedulerInv
<1>1. SchedulerTypes'
  <2>1. CASE ClockTick
    BY <2>1, SchedulerAssumption DEF SchedulerTypes, ClockTick, tableVars, replicaVars, txVars, historyVars
  <2>2. ASSUME NEW s \in Schedule, HandleCreateSchedule(s) PROVE SchedulerTypes'
    BY <2>2 DEF SchedulerTypes, HandleCreateSchedule, replicaVars, txVars, historyVars
  <2>3. ASSUME NEW s \in Schedule, HandleUpdateSchedule(s) PROVE SchedulerTypes'
    BY <2>3 DEF SchedulerTypes, HandleUpdateSchedule, replicaVars, txVars, historyVars
  <2>4. ASSUME NEW s \in Schedule, HandleDeleteSchedule(s) PROVE SchedulerTypes'
    BY <2>4 DEF SchedulerTypes, HandleDeleteSchedule, replicaVars, txVars, historyVars
  <2> QED
    BY <2>1, <2>2, <2>3, <2>4
<1>2. ScansBehind'
  BY DEF SchedulerTypes, ScansBehind, ClockTick, HandleCreateSchedule, HandleUpdateSchedule,
     HandleDeleteSchedule, tableVars, replicaVars, txVars, NextTick
<1>3. FiredIsPast'
  <2>1. CASE ClockTick
    BY <2>1, SchedulerAssumption DEF SchedulerTypes, FiredIsPast, ClockTick, tableVars, Times
  <2>2. ASSUME NEW s \in Schedule,
               HandleCreateSchedule(s) \/ HandleUpdateSchedule(s) \/ HandleDeleteSchedule(s)
        PROVE  FiredIsPast'
    <3>1. now' = now /\ \A q \in Schedule : state[q] # "absent" => state'[q] # "absent"
      BY <2>2 DEF SchedulerTypes, HandleCreateSchedule, HandleUpdateSchedule, HandleDeleteSchedule
    <3> QED
      BY <3>1 DEF FiredIsPast
  <2> QED
    BY <2>1, <2>2
<1>4. Counted'
  <2> SUFFICES ASSUME NEW s \in Schedule, NEW t \in Times PROVE CountedAt(s, t)'
    BY DEF Counted
  <2>1. CanFire(s, t)' = CanFire(s, t)
    BY DEF CanFire, NextTick, replicaVars
  <2>2. CASE state[s] = "absent"
    <3>1. fired[s][t] = 0 /\ CanFire(s, t) = {}
      BY <2>2 DEF SchedulerTypes, FiredIsPast, ScansBehind, CanFire
    <3>2. Cardinality(CanFire(s, t)) = 0 /\ Share(s) \in Nat /\ Share(s)' = Share(s) /\ fired'[s][t] = 0
      BY <3>1, FS_EmptySet, Shares DEF Share, SchedulerTypes
    <3> QED
      BY <2>1, <3>1, <3>2, ReplicaFinite DEF CountedAt
  <2>3. CASE state[s] # "absent"
    <3>1. Behind(s, t)' => Behind(s, t)
      BY <2>3 DEF SchedulerTypes, Behind, ClockTick, HandleCreateSchedule, HandleUpdateSchedule,
         HandleDeleteSchedule, tableVars
    <3> QED
      BY <2>1, <3>1, CountShrinks
  <2> QED
    BY <2>2, <2>3
<1>5. UnwantedCounted'
  <2> SUFFICES ASSUME NEW s \in Schedule
               PROVE  /\ state'[s] \in {"absent", "enabled"} => unwanted'[s] = 0
                      /\ unwanted'[s] + Cardinality(Holders(s)') <= Cardinality(Replica) \/ state'[s] = "enabled"
    BY DEF UnwantedCounted
  <2>1. Holders(s)' = Holders(s)
    BY DEF Holders, replicaVars
  <2>2. unwanted'[s] = unwanted[s] \/ unwanted'[s] = 0
    BY DEF SchedulerTypes, ClockTick, HandleCreateSchedule, HandleUpdateSchedule, HandleDeleteSchedule, historyVars
  <2>3. state'[s] \in {"absent", "enabled"} => unwanted'[s] = 0
    BY DEF SchedulerTypes, UnwantedCounted, ClockTick, HandleCreateSchedule, HandleUpdateSchedule,
       HandleDeleteSchedule, historyVars, tableVars
  <2> QED
    BY <2>1, <2>2, <2>3, UnwantedShrinks
<1> QED
  BY <1>1, <1>2, <1>3, <1>4, <1>5

\* A scan reads rows as they are: of a tick that has fired it sees nothing, unless
\* last_run_at is behind it again.
LEMMA ScanStep ==
  ASSUME SchedulerInv, NEW r \in Replica, Scan(r)
  PROVE  SchedulerInv'
<1> USE DEF SchedulerInv
<1>1. SchedulerTypes'
  BY SchedulerAssumption DEF SchedulerTypes, Scan, Listed, tableVars, txVars, historyVars, ReadsOf
<1>2. \A q \in Replica : q # r => todo'[q] = todo[q] /\ read'[q] = read[q] /\ asOf'[q] = asOf[q] /\ mode'[q] = mode[q]
  BY DEF SchedulerTypes, Scan
<1>3. /\ todo'[r] = Listed /\ asOf'[r] = now /\ mode'[r] = "scan" /\ todo[r] = {}
      /\ \A s \in Listed : read'[r][s] = base[s]
  BY DEF SchedulerTypes, ScansBehind, Scan, Listed
<1>4. UNCHANGED <<now, state, base, firing, begun, fired, rewinds, unwanted>>
  BY DEF Scan, tableVars, txVars, historyVars
<1>5. ScansBehind'
  <2>1. firing[r] = {}
    BY <1>3 DEF ScansBehind, SchedulerTypes
  <2>2. \A q \in Replica : \A s \in firing[q] : s \in todo'[q] /\ NextTick(read'[q][s]) <= begun[q]
    BY <1>2, <2>1 DEF ScansBehind
  <2>3. \A q \in Replica : asOf'[q] <= now
    BY <1>2, <1>3 DEF ScansBehind, SchedulerTypes
  <2>4. \A q \in Replica : mode'[q] = "sleep" => todo'[q] = {}
    BY <1>2, <1>3 DEF ScansBehind
  <2>5. \A q \in Replica : \A s \in todo'[q] : state[s] # "absent"
    BY <1>2, <1>3 DEF ScansBehind, Listed
  <2> QED
    BY <1>4, <2>2, <2>3, <2>4, <2>5 DEF ScansBehind, NextTick
<1>6. FiredIsPast'
  BY <1>4 DEF FiredIsPast
<1>7. Counted'
  <2> SUFFICES ASSUME NEW s \in Schedule, NEW t \in Times PROVE CountedAt(s, t)'
    BY DEF Counted
  <2>1. Behind(s, t)' = Behind(s, t)
    BY <1>4 DEF Behind
  <2>2. ASSUME ~Behind(s, t), NEW q \in CanFire(s, t)' PROVE q \in CanFire(s, t)
    <3>1. q \in Replica /\ s \in todo'[q] /\ NextTick(read'[q][s]) = t
      BY <2>2 DEF CanFire, NextTick
    <3>2. q # r
      <4>1. SUFFICES ASSUME q = r PROVE FALSE
        OBVIOUS
      <4>2. s \in Listed /\ NextTick(base[s]) = t /\ base[s] \in Nat
        BY <1>3, <3>1, <4>1, SchedulerAssumption DEF SchedulerTypes
      <4>3. t > base[s] /\ state[s] = "enabled"
        BY <4>2, TickIsLater DEF Listed
      <4> QED
        BY <2>2, <4>3 DEF Behind
    <3> QED
      BY <1>2, <3>1, <3>2 DEF CanFire
  <2> QED
    BY <1>4, <2>1, <2>2, CountShrinks
<1>8. UnwantedCounted'
  <2> SUFFICES ASSUME NEW s \in Schedule
               PROVE  /\ state'[s] \in {"absent", "enabled"} => unwanted'[s] = 0
                      /\ unwanted'[s] + Cardinality(Holders(s)') <= Cardinality(Replica) \/ state'[s] = "enabled"
    BY DEF UnwantedCounted
  <2>1. state'[s] # "enabled" => Holders(s)' \subseteq Holders(s)
    BY <1>2, <1>3, <1>4 DEF Holders, Listed
  <2> QED
    BY <1>4, <2>1, UnwantedShrinks DEF UnwantedCounted
<1> QED
  BY <1>1, <1>5, <1>6, <1>7, <1>8

\* A scan that passes a row over, begins a transaction, ends or is given up can
\* fire no more than before.
LEMMA RestStep ==
  ASSUME SchedulerInv, NEW r \in Replica,
         EndScan(r) \/ AbandonScan(r) \/ \E s \in Schedule : Skip(r, s) \/ BeginFire(r, s)
  PROVE  SchedulerInv'
<1> USE DEF SchedulerInv
<1>1. SchedulerTypes'
  <2>1. ASSUME Forget(r), UNCHANGED <<now, tableVars, historyVars>> PROVE SchedulerTypes'
    <3>1. [s \in Schedule |-> 0] \in ReadsOf
      BY SchedulerAssumption DEF ReadsOf
    <3> QED
      BY <2>1, <3>1, SchedulerAssumption DEF SchedulerTypes, Forget, tableVars, historyVars
  <2>2. ASSUME NEW s \in Schedule, Skip(r, s) PROVE SchedulerTypes'
    BY <2>2 DEF SchedulerTypes, Skip, tableVars, txVars, historyVars
  <2>3. ASSUME NEW s \in Schedule, BeginFire(r, s) PROVE SchedulerTypes'
    BY <2>3 DEF SchedulerTypes, BeginFire, tableVars, historyVars
  <2> QED
    BY <2>1, <2>2, <2>3 DEF EndScan, AbandonScan
<1>2. \A q \in Replica : q # r => /\ todo'[q] = todo[q] /\ read'[q] = read[q] /\ asOf'[q] = asOf[q]
                                   /\ mode'[q] = mode[q] /\ firing'[q] = firing[q] /\ begun'[q] = begun[q]
  BY DEF SchedulerTypes, EndScan, AbandonScan, Skip, BeginFire, Forget, txVars
<1>3. /\ todo'[r] \subseteq todo[r]
      /\ todo'[r] = {} \/ (read'[r] = read[r] /\ mode'[r] = "scan")
      /\ asOf'[r] \in {0, asOf[r]}
  BY DEF SchedulerTypes, EndScan, AbandonScan, Skip, BeginFire, Forget
<1>4. UNCHANGED <<now, state, base, fired, rewinds, unwanted>>
  BY DEF EndScan, AbandonScan, Skip, BeginFire, tableVars, historyVars
<1>5. begun'[r] <= now /\ \A s \in firing'[r] : s \in todo'[r] /\ NextTick(read'[r][s]) <= begun'[r]
  <2>1. CASE EndScan(r) \/ AbandonScan(r)
    BY <2>1, SchedulerAssumption DEF SchedulerTypes, EndScan, AbandonScan, Forget
  <2>2. ASSUME NEW s \in Schedule, Skip(r, s) PROVE begun'[r] = begun[r] /\ firing'[r] = {}
    BY <2>2 DEF Skip, txVars
  <2>3. ASSUME NEW s \in Schedule, BeginFire(r, s)
        PROVE  begun'[r] = now /\ firing'[r] = {s} /\ s \in todo'[r] /\ NextTick(read'[r][s]) <= now
    <3>1. read[r][s] \in Nat /\ asOf[r] \in Nat /\ now \in Nat /\ asOf[r] <= now /\ NextTick(read[r][s]) <= asOf[r]
      BY <2>3, SchedulerAssumption DEF SchedulerTypes, ReadsOf, ScansBehind, BeginFire, IsDue
    <3>2. NextTick(read[r][s]) <= now
      BY <3>1, TickIsLater
    <3> QED
      BY <2>3, <3>2 DEF BeginFire, SchedulerTypes
  <2> QED
    BY <2>1, <2>2, <2>3, SchedulerAssumption DEF SchedulerTypes, ScansBehind
<1>6. ScansBehind'
  <2>1. \A q \in Replica : asOf'[q] <= now /\ begun'[q] <= now
    BY <1>2, <1>3, <1>5 DEF SchedulerTypes, ScansBehind
  <2>2. \A q \in Replica : mode'[q] = "sleep" => todo'[q] = {}
    BY <1>2, <1>3 DEF ScansBehind
  <2>3. \A q \in Replica : \A s \in todo'[q] : state[s] # "absent"
    BY <1>2, <1>3 DEF ScansBehind
  <2>4. \A q \in Replica : \A s \in firing'[q] : s \in todo'[q] /\ NextTick(read'[q][s]) <= begun'[q]
    BY <1>2, <1>5 DEF ScansBehind
  <2> QED
    BY <1>4, <2>1, <2>2, <2>3, <2>4 DEF ScansBehind, NextTick
<1>7. FiredIsPast'
  BY <1>4 DEF FiredIsPast
<1>8. Counted'
  <2> SUFFICES ASSUME NEW s \in Schedule, NEW t \in Times PROVE CountedAt(s, t)'
    BY DEF Counted
  <2>1. CanFire(s, t)' \subseteq CanFire(s, t)
    BY <1>2, <1>3 DEF CanFire, NextTick
  <2> QED
    BY <1>4, <2>1, CountShrinks DEF Behind
<1>9. UnwantedCounted'
  <2> SUFFICES ASSUME NEW s \in Schedule
               PROVE  /\ state'[s] \in {"absent", "enabled"} => unwanted'[s] = 0
                      /\ unwanted'[s] + Cardinality(Holders(s)') <= Cardinality(Replica) \/ state'[s] = "enabled"
    BY DEF UnwantedCounted
  <2>1. Holders(s)' \subseteq Holders(s)
    BY <1>2, <1>3 DEF Holders
  <2> QED
    BY <1>4, <2>1, UnwantedShrinks DEF UnwantedCounted
<1> QED
  BY <1>1, <1>6, <1>7, <1>8, <1>9

\* The commit inserts a job for a tick that has come, takes the replica from those
\* that can, and moves last_run_at past the tick: forward, or back as a rewind.
LEMMA CommitStep ==
  ASSUME SchedulerInv, NEW r \in Replica, NEW s \in Schedule, CommitFire(r, s)
  PROVE  SchedulerInv'
<1> USE DEF SchedulerInv
<1>1. s \in todo[r] /\ state[s] # "absent" /\ mode[r] = "scan" /\ begun[r] <= now
  BY DEF CommitFire, ScansBehind
<1>2. read[r][s] \in Nat /\ begun[r] \in 0 .. MaxTime /\ now \in Nat /\ now <= MaxTime
  BY SchedulerAssumption DEF SchedulerTypes, ReadsOf
<1>3. PICK v \in Nat : v = NextTick(read[r][s]) /\ v <= begun[r]
  BY <1>2, TickIsLater DEF CommitFire, ScansBehind
<1>4. v \in Times /\ v <= now
  BY <1>1, <1>2, <1>3, SchedulerAssumption DEF Times
<1>5. fired' = [fired EXCEPT ![s][v] = @ + 1] /\ todo' = [todo EXCEPT ![r] = @ \ {s}]
  BY <1>3 DEF CommitFire, InsertJob
<1>6. UNCHANGED <<now, state, allowed, mode, read, asOf>>
  BY DEF CommitFire
<1>7. /\ base' \in [Schedule -> 0 .. MaxTime]
      /\ \A q \in Schedule : base'[q] = IF q = s /\ state[s] # "deleted" THEN begun[r] ELSE base[q]
  BY <1>2 DEF CommitFire, SchedulerTypes
<1>8. /\ rewinds' \in [Schedule -> Nat]
      /\ \A q \in Schedule : rewinds'[q] = IF q = s /\ state[s] # "deleted" /\ begun[r] < base[s]
                                           THEN rewinds[q] + 1 ELSE rewinds[q]
  BY DEF CommitFire, SchedulerTypes
<1>9. /\ unwanted' \in [Schedule -> Nat]
      /\ \A q \in Schedule : unwanted'[q] = IF q = s /\ state[s] # "enabled" THEN unwanted[q] + 1 ELSE unwanted[q]
  BY DEF CommitFire, InsertJob, SchedulerTypes
<1>10. /\ fired'[s][v] = fired[s][v] + 1
       /\ \A q \in Schedule, t \in Times : q # s \/ t # v => fired'[q][t] = fired[q][t]
       /\ \A q \in Schedule, t \in Times : fired[q][t] \in Nat
  BY <1>4, <1>5 DEF SchedulerTypes
<1>11. /\ firing' \in [Replica -> SUBSET Schedule] /\ begun' \in [Replica -> 0 .. MaxTime]
       /\ firing'[r] = {} /\ begun'[r] = 0
       /\ \A q \in Replica : q # r => firing'[q] = firing[q] /\ begun'[q] = begun[q]
  BY SchedulerAssumption DEF CommitFire, InsertJob, SchedulerTypes
<1>12. SchedulerTypes'
  <2>1. fired' \in [Schedule -> [Times -> Nat]]
    <3>1. fired[s] \in [Times -> Nat] /\ [fired[s] EXCEPT ![v] = @ + 1] \in [Times -> Nat]
      BY <1>4 DEF SchedulerTypes
    <3> QED
      BY <1>5, <3>1 DEF SchedulerTypes
  <2>2. todo' \in [Replica -> SUBSET Schedule]
    BY <1>5 DEF SchedulerTypes
  <2> QED
    BY <1>6, <1>7, <1>8, <1>9, <1>11, <2>1, <2>2 DEF SchedulerTypes
<1>13. /\ todo'[r] = todo[r] \ {s}
       /\ \A q \in Replica : q # r => todo'[q] = todo[q]
  BY <1>5 DEF SchedulerTypes
<1>14. ScansBehind'
  <2>1. \A q \in Schedule : base'[q] <= now
    BY <1>1, <1>7 DEF ScansBehind
  <2>2. \A q \in Replica : asOf[q] <= now /\ begun'[q] <= now
    BY <1>2, <1>11 DEF ScansBehind
  <2>3. \A q \in Replica : mode[q] = "sleep" => todo'[q] = {}
    BY <1>13 DEF ScansBehind
  <2>4. \A q \in Replica : \A p \in todo'[q] : state[p] # "absent"
    BY <1>13 DEF ScansBehind
  <2>5. \A q \in Replica : \A p \in firing'[q] : p \in todo'[q] /\ NextTick(read[q][p]) <= begun'[q]
    BY <1>11, <1>13 DEF ScansBehind
  <2> QED
    BY <1>6, <2>1, <2>2, <2>3, <2>4, <2>5 DEF ScansBehind, NextTick
<1>15. FiredIsPast'
  <2> SUFFICES ASSUME NEW q \in Schedule, NEW t \in Times, fired'[q][t] > 0
               PROVE  t <= now /\ state[q] # "absent"
    BY <1>6 DEF FiredIsPast
  <2>1. CASE q = s /\ t = v
    BY <1>1, <1>4, <2>1
  <2>2. CASE q # s \/ t # v
    BY <1>10, <2>2 DEF FiredIsPast
  <2> QED
    BY <2>1, <2>2
<1>16. Counted'
  <2> SUFFICES ASSUME NEW q \in Schedule, NEW t \in Times PROVE CountedAt(q, t)'
    BY DEF Counted
  <2>1. CanFire(q, t) \subseteq Replica
    BY DEF CanFire
  <2>2. CanFire(q, t)' = IF q = s /\ t = v THEN CanFire(q, t) \ {r} ELSE CanFire(q, t)
    BY <1>3, <1>6, <1>13 DEF CanFire, NextTick
  <2>3. r \in CanFire(s, v)
    BY <1>1, <1>3 DEF CanFire
  <2>4. /\ Cardinality(CanFire(q, t)) \in Nat /\ Cardinality(CanFire(q, t)') \in Nat
        /\ fired'[q][t] + Cardinality(CanFire(q, t)') = fired[q][t] + Cardinality(CanFire(q, t))
        /\ Cardinality(CanFire(q, t)) <= Cardinality(Replica)
    <3>1. CASE q = s /\ t = v
      <4>1. Cardinality(CanFire(q, t)') = Cardinality(CanFire(q, t)) - 1
        BY <2>1, <2>2, <2>3, <3>1, SomeReplicas, FS_RemoveElement
      <4>2. CanFire(q, t)' \subseteq Replica
        BY <2>1, <2>2
      <4>3. Cardinality(CanFire(q, t)') \in Nat
        BY <4>2, SomeReplicas
      <4> QED
        BY <1>10, <2>1, <3>1, <4>1, <4>3, SomeReplicas
    <3>2. CASE q # s \/ t # v
      BY <1>10, <2>1, <2>2, <3>2, SomeReplicas
    <3> QED
      BY <3>1, <3>2
  <2>5. /\ Share(q) \in Nat
        /\ Share(q)' = IF q = s /\ state[s] # "deleted" /\ begun[r] < base[s]
                       THEN Cardinality(Replica) + Share(q) ELSE Share(q)
    BY <1>8, Shares DEF Share, SchedulerTypes
  <2>6. /\ Behind(q, t) = (state[q] # "deleted" /\ base[q] < t)
        /\ Behind(q, t)' = (state[q] # "deleted" /\ base'[q] < t)
    BY <1>6 DEF Behind
  <2>7. CountedAt(q, t) /\ t \in Nat /\ base[q] \in Nat /\ fired[q][t] \in Nat
    BY <1>10, SchedulerAssumption DEF Counted, Times, SchedulerTypes
  <2>8. fired'[q][t] = fired[q][t] \/ (q = s /\ t = v)
    BY <1>10
  <2>9. CASE Behind(q, t)'
    <3>0. state[q] # "deleted" /\ base'[q] < t
      BY <2>6, <2>9
    <3>1. fired'[q][t] = fired[q][t]
      <4>1. ASSUME q = s, t = v PROVE FALSE
        BY <1>2, <1>3, <1>7, <3>0, <4>1
      <4> QED
        BY <2>8, <4>1
    <3>2. fired[q][t] <= Share(q)'
      <4>1. CASE Behind(q, t)
        BY <2>5, <2>7, <4>1, ReplicaFinite DEF CountedAt
      <4>2. CASE ~Behind(q, t)
        <5>0. ~(base[q] < t)
          BY <2>6, <3>0, <4>2
        <5>1. q = s /\ begun[r] < base[s]
          <6>1. q = s
            BY <1>7, <3>0, <5>0
          <6>2. begun[r] < t /\ begun[r] \in Nat
            BY <1>2, <1>7, <3>0, <6>1
          <6> QED
            BY <2>7, <5>0, <6>1, <6>2
        <5>2. fired[q][t] + Cardinality(CanFire(q, t)) <= Cardinality(Replica) + Share(q)
          BY <2>7, <4>2 DEF CountedAt
        <5> QED
          BY <2>4, <2>5, <2>7, <3>0, <5>1, <5>2, ReplicaFinite
      <4> QED
        BY <4>1, <4>2
    <3> QED
      BY <2>9, <3>1, <3>2 DEF CountedAt
  <2>10. CASE ~Behind(q, t)'
    <3>1. fired[q][t] + Cardinality(CanFire(q, t)) <= Cardinality(Replica) + Share(q)
      BY <2>4, <2>5, <2>7, ReplicaFinite DEF CountedAt
    <3>2. fired'[q][t] + Cardinality(CanFire(q, t)') <= Cardinality(Replica) + Share(q)'
      BY <2>4, <2>5, <2>7, <3>1, ReplicaFinite
    <3> QED
      BY <2>10, <3>2 DEF CountedAt
  <2> QED
    BY <2>9, <2>10
<1>17. UnwantedCounted'
  <2> SUFFICES ASSUME NEW q \in Schedule
               PROVE  /\ state[q] \in {"absent", "enabled"} => unwanted'[q] = 0
                      /\ unwanted'[q] + Cardinality(Holders(q)') <= Cardinality(Replica) \/ state[q] = "enabled"
    BY <1>6 DEF UnwantedCounted
  <2>1. state[q] \in {"absent", "enabled"} => unwanted'[q] = 0
    BY <1>1, <1>9 DEF UnwantedCounted
  <2>2. Holders(q) \subseteq Replica /\ Holders(q)' = IF q = s THEN Holders(q) \ {r} ELSE Holders(q)
    BY <1>13 DEF Holders
  <2>3. r \in Holders(s)
    BY <1>1 DEF Holders
  <2>4. CASE q = s
    <3>1. Cardinality(Holders(q)') = Cardinality(Holders(q)) - 1
      BY <2>2, <2>3, <2>4, SomeReplicas, FS_RemoveElement
    <3>2. Cardinality(Holders(q)) \in Nat /\ unwanted[q] \in Nat
      BY <2>2, SomeReplicas DEF SchedulerTypes
    <3> QED
      BY <1>9, <2>1, <2>4, <3>1, <3>2, ReplicaFinite DEF UnwantedCounted
  <2>5. CASE q # s
    BY <1>9, <2>1, <2>2, <2>5 DEF UnwantedCounted
  <2> QED
    BY <2>4, <2>5
<1> QED
  BY <1>12, <1>14, <1>15, <1>16, <1>17

\* Every action keeps the invariant.
LEMMA SchedulerStep == SchedulerInv /\ [SchedulerNext]_schedulerVars => SchedulerInv'
<1> SUFFICES ASSUME SchedulerInv, [SchedulerNext]_schedulerVars PROVE SchedulerInv'
  OBVIOUS
<1>1. CASE ClockTick \/ \E s \in Schedule :
             HandleCreateSchedule(s) \/ HandleUpdateSchedule(s) \/ HandleDeleteSchedule(s)
  <2>1. UNCHANGED <<replicaVars, fired, rewinds>>
    BY <1>1 DEF ClockTick, HandleCreateSchedule, HandleUpdateSchedule, HandleDeleteSchedule, historyVars
  <2> QED
    BY <1>1, <2>1, TableStep
<1>2. ASSUME NEW r \in Replica, ReplicaStep(r) \/ AbandonScan(r) PROVE SchedulerInv'
  BY <1>2, ScanStep, RestStep, CommitStep DEF ReplicaStep
<1>3. CASE UNCHANGED schedulerVars
  <2>1. SchedulerTypes' /\ ScansBehind' /\ FiredIsPast'
    BY <1>3 DEF SchedulerInv, SchedulerTypes, ScansBehind, FiredIsPast, NextTick,
       schedulerVars, tableVars, replicaVars, txVars, historyVars
  <2>2. \A s \in Schedule, t \in Times : CanFire(s, t)' = CanFire(s, t) /\ Behind(s, t)' = Behind(s, t)
    BY <1>3 DEF CanFire, NextTick, Behind, schedulerVars, tableVars, replicaVars
  <2>3. Counted'
    BY <1>3, <2>2, CountShrinks DEF schedulerVars, historyVars, Counted
  <2>4. UnwantedCounted'
    BY <1>3 DEF SchedulerInv, UnwantedCounted, Holders, schedulerVars, tableVars, replicaVars, historyVars
  <2> QED
    BY <2>1, <2>3, <2>4 DEF SchedulerInv
<1> QED
  BY <1>1, <1>2, <1>3 DEF SchedulerNext

\* The invariant holds in every behaviour of the scheduler.
LEMMA SchedulerInvariance == SchedulerSpec => []SchedulerInv
BY SchedulerStart, SchedulerStep, PTL DEF SchedulerSpec

\* No tick gives more jobs than there are replicas, and as many again for each time
\* a stalled transaction took last_run_at back, whatever crashes, admins and stale
\* reads come in between (worker.go:195-226).
THEOREM AtMostOnceEach == SchedulerSpec => []OncePerReplica
<1>1. SchedulerInv => OncePerReplica
  <2> SUFFICES ASSUME SchedulerInv, NEW s \in Schedule, NEW t \in Times
               PROVE  fired[s][t] <= Cardinality(Replica) * (1 + rewinds[s])
    BY DEF OncePerReplica
  <2>1. CanFire(s, t) \subseteq Replica
    BY DEF CanFire
  <2>2. Cardinality(CanFire(s, t)) \in Nat /\ Cardinality(Replica) \in Nat
    BY <2>1, SomeReplicas, ReplicaFinite
  <2>3. /\ fired[s][t] \in Nat /\ Share(s) \in Nat /\ CountedAt(s, t)
        /\ Cardinality(Replica) * (1 + rewinds[s]) = Cardinality(Replica) + Share(s)
    BY Shares DEF SchedulerInv, SchedulerTypes, Counted, Share
  <2> QED
    BY <2>2, <2>3 DEF CountedAt
<1> QED
  BY <1>1, SchedulerInvariance, PTL

\* A schedule that is paused or deleted fires once more per replica at most, from
\* rows read before (worker.go:172-195).
THEOREM PausedSchedulesStop == SchedulerSpec => []PausedFiresOnce
<1>1. SchedulerInv => PausedFiresOnce
  <2> SUFFICES ASSUME SchedulerInv, NEW s \in Schedule, state[s] # "enabled"
               PROVE  unwanted[s] <= Cardinality(Replica)
    BY DEF PausedFiresOnce
  <2>1. Holders(s) \subseteq Replica
    BY DEF Holders
  <2> QED
    BY <2>1, SomeReplicas, ReplicaFinite DEF SchedulerInv, SchedulerTypes, UnwantedCounted
<1> QED
  BY <1>1, SchedulerInvariance, PTL

-----------------------------------------------------------------------------
\* With one replica nobody moves last_run_at while a transaction is open.
Alone ==
    /\ \A s \in Schedule : rewinds[s] = 0
    /\ \A r \in Replica : \A s \in firing[r] : base[s] <= begun[r]

\* A deployment of one replica never takes last_run_at back.
LEMMA AloneStep ==
  ASSUME \A p, q \in Replica : p = q, SchedulerInv, Alone, [SchedulerNext]_schedulerVars
  PROVE  Alone'
<1> USE DEF SchedulerInv
<1>1. ASSUME NEW s \in Schedule, HandleCreateSchedule(s) PROVE Alone'
  <2>1. \A r \in Replica : s \notin firing[r]
    BY <1>1 DEF HandleCreateSchedule, ScansBehind
  <2>2. \A q \in Schedule : q # s => base'[q] = base[q]
    BY <1>1 DEF HandleCreateSchedule, SchedulerTypes
  <2>3. \A r \in Replica : \A q \in firing[r] : base'[q] <= begun[r]
    BY <2>1, <2>2 DEF Alone, SchedulerTypes
  <2> QED
    BY <1>1, <2>3 DEF HandleCreateSchedule, Alone, replicaVars, txVars, historyVars
<1>2. ASSUME NEW s \in Schedule, HandleUpdateSchedule(s) \/ HandleDeleteSchedule(s) PROVE Alone'
  BY <1>2 DEF HandleUpdateSchedule, HandleDeleteSchedule, Alone, replicaVars, txVars, historyVars
<1>3. ASSUME NEW r \in Replica, Scan(r) \/ EndScan(r) \/ AbandonScan(r) \/ \E s \in Schedule : Skip(r, s)
      PROVE  Alone'
  <2>1. UNCHANGED <<base, rewinds>>
    BY <1>3 DEF Scan, EndScan, AbandonScan, Skip, tableVars, historyVars
  <2>2. \A q \in Replica : firing'[q] = {} \/ (firing'[q] = firing[q] /\ begun'[q] = begun[q])
    BY <1>3 DEF Scan, EndScan, AbandonScan, Skip, Forget, txVars, SchedulerTypes
  <2> QED
    BY <2>1, <2>2 DEF Alone
<1>4. ASSUME NEW r \in Replica, NEW s \in Schedule, BeginFire(r, s) PROVE Alone'
  <2>1. \A q \in Replica : firing'[q] = {s} /\ begun'[q] = now
    BY <1>4 DEF BeginFire, SchedulerTypes
  <2> QED
    BY <1>4, <2>1 DEF BeginFire, Alone, ScansBehind, tableVars, historyVars
<1>5. ASSUME NEW r \in Replica, NEW s \in Schedule, CommitFire(r, s) PROVE Alone'
  <2>1. \A q \in Replica : firing'[q] = {}
    BY <1>5 DEF CommitFire, InsertJob, SchedulerTypes
  <2>2. base[s] <= begun[r] /\ base[s] \in Nat /\ begun[r] \in Nat
    BY <1>5, SchedulerAssumption DEF CommitFire, Alone, SchedulerTypes
  <2>3. ~(begun[r] < base[s])
    BY <2>2
  <2>4. UNCHANGED rewinds
    BY <1>5, <2>3 DEF CommitFire
  <2> QED
    BY <2>1, <2>4 DEF Alone
<1>6. CASE ClockTick \/ UNCHANGED schedulerVars
  BY <1>6 DEF ClockTick, Alone, schedulerVars, tableVars, replicaVars, txVars, historyVars
<1> QED
  BY <1>1, <1>2, <1>3, <1>4, <1>5, <1>6 DEF SchedulerNext, ReplicaStep

\* What the run JobScheduler_twice refutes for two replicas holds for one: a tick of
\* a schedule gives one job, through crashes, failed statements and admins.
THEOREM OneReplicaFiresOnce ==
  ASSUME Cardinality(Replica) = 1
  PROVE  SchedulerSpec => []OncePerTick
<1>1. \A p, q \in Replica : p = q
  BY ReplicaFinite, FS_Singleton
<1>2. SchedulerInit => Alone
  BY DEF SchedulerInit, Alone
<1>3. SchedulerInv /\ Alone /\ [SchedulerNext]_schedulerVars => Alone'
  BY <1>1, AloneStep
<1>4. OncePerReplica /\ Alone => OncePerTick
  <2> SUFFICES ASSUME OncePerReplica, Alone, NEW s \in Schedule, NEW t \in Times PROVE fired[s][t] <= 1
    BY DEF OncePerTick
  <2>1. Cardinality(Replica) * (1 + rewinds[s]) = 1
    BY DEF Alone
  <2> QED
    BY <2>1 DEF OncePerReplica
<1> QED
  BY <1>2, <1>3, <1>4, SchedulerInvariance, AtMostOnceEach, PTL DEF SchedulerSpec
=============================================================================
