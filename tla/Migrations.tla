----------------------------- MODULE Migrations -----------------------------
(***************************************************************************)
(* The schema of a service: every replica applies the files of its build   *)
(* when it starts, in order and one transaction each, and listens only     *)
(* after the last.  The same runner is in eight services (migrate.go);     *)
(* nothing but the primary key of schema_migrations keeps replicas apart.  *)
(* Files are only ever added, so a build is the number of its files.       *)
(***************************************************************************)
EXTENDS Naturals

CONSTANTS
    Starter,            \* replicas
    LastVersion,        \* files of the newest build
    MaxMigrationFaults  \* bound: failures and restarts

ASSUME VersionAssumption == LastVersion \in Nat

VARIABLES
    ledger,             \* versions in schema_migrations
    ran,                \* ran[v]: times file v is in the database
    starter,            \* starter[r]: [at, build, next], next: the file in hand
    migrationFaults

migrationVars == <<ledger, ran, starter, migrationFaults>>

Migration == 1 .. LastVersion
At(r, at)  == starter[r].at = at
Reaches(r, at) == starter' = [starter EXCEPT ![r].at = at]

MigrationFault == migrationFaults < MaxMigrationFaults /\ migrationFaults' = migrationFaults + 1

MigrationsInit ==
    /\ ledger = {} /\ ran = [v \in Migration |-> 0]
    /\ \E build \in 0 .. LastVersion :
          starter = [r \in Starter |-> [at |-> "look", build |-> build, next |-> 1]]
    /\ migrationFaults = 0

\* SELECT EXISTS: passed over, or the transaction begins; after the last file
\* the service listens.
Look(r) ==
    /\ At(r, "look")
    /\ \/ starter[r].next > starter[r].build /\ Reaches(r, "serves")
       \/ starter[r].next <= starter[r].build /\ starter[r].next \in ledger
          /\ starter' = [starter EXCEPT ![r].next = @ + 1]
       \/ starter[r].next <= starter[r].build /\ starter[r].next \notin ledger /\ Reaches(r, "open")
    /\ UNCHANGED <<ledger, ran, migrationFaults>>

\* tx.Exec of the file.  Two replicas may both get here with one file.
RunFile(r) ==
    /\ At(r, "open") /\ Reaches(r, "ran")
    /\ UNCHANGED <<ledger, ran, migrationFaults>>

\* Mutant: INSERT .. ON CONFLICT DO NOTHING.
Insertable_Always(v) == TRUE
\* The primary key: a version another transaction has inserted is waited for,
\* and refused once that one is committed.
Insertable(v) ==
    v \notin ledger /\ \A r \in Starter : ~(At(r, "recorded") /\ starter[r].next = v)

Record(r) ==
    /\ At(r, "ran") /\ Insertable(starter[r].next) /\ Reaches(r, "recorded")
    /\ UNCHANGED <<ledger, ran, migrationFaults>>

\* tx.Commit; when its answer is lost the process ends.
CommitFile(r, heard) ==
    /\ At(r, "recorded")
    /\ LET v == starter[r].next
       IN  /\ ledger' = ledger \cup {v}
           /\ ran' = [ran EXCEPT ![v] = @ + 1]
           /\ starter' = [starter EXCEPT ![r] =
                 [at |-> IF heard THEN "look" ELSE "down", build |-> @.build, next |-> v + 1]]
    /\ IF heard THEN UNCHANGED migrationFaults ELSE MigrationFault

\* The row is there: rolled back, log.Fatalf.
Refused(r) ==
    /\ At(r, "ran") /\ starter[r].next \in ledger /\ Reaches(r, "down")
    /\ UNCHANGED <<ledger, ran, migrationFaults>>

\* A statement fails or the process dies, its transaction with it.
Dies(r) ==
    /\ ~At(r, "down") /\ MigrationFault /\ Reaches(r, "down")
    /\ UNCHANGED <<ledger, ran>>

\* It is started again, of the same build or of another: a release rolls out, or
\* back.
StartAgain(r, build) ==
    /\ At(r, "down")
    /\ starter' = [starter EXCEPT ![r] = [at |-> "look", build |-> build, next |-> 1]]
    /\ UNCHANGED <<ledger, ran, migrationFaults>>

MigrationsNext ==
    \E r \in Starter :
        \/ Look(r) \/ RunFile(r) \/ Record(r) \/ Refused(r) \/ Dies(r)
        \/ \E heard \in BOOLEAN : CommitFile(r, heard)
        \/ \E build \in 0 .. LastVersion : StartAgain(r, build)

MigrationsSpec == MigrationsInit /\ [][MigrationsNext]_migrationVars

-----------------------------------------------------------------------------
\* Whatever replicas of whatever builds start at once, fail and start again
\* (migrate.go:40-70), a file is in the database once and with its version, the
\* versions have no gap, and a replica that listens has the schema of its build.
MigratedOnce ==
    /\ \A v \in Migration : ran[v] = IF v \in ledger THEN 1 ELSE 0
    /\ \A v \in ledger : 1 .. v \subseteq ledger
    /\ \A r \in Starter : At(r, "serves") => 1 .. starter[r].build \subseteq ledger
=============================================================================
