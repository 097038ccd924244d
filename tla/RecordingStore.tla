--------------------------- MODULE RecordingStore ---------------------------
(***************************************************************************)
(* Recordings of one camera of services/svc-vision: ffmpeg cuts the stream *)
(* into segment files and lists the finished ones in the index file of its *)
(* run; a watcher turns each line into a row of recordings; goroutines     *)
(* upload the file to WebDAV and MinIO and write back where it is; the     *)
(* storage manager deletes by age and by capacity; users delete rows.      *)
(* They share the directory, the table and nothing that orders them.       *)
(*                                                                         *)
(* Sizes are counted in segments.  age[s] is all that is kept of a         *)
(* modification time: "settled" past the five minutes the capacity sweep   *)
(* protects, "old" past max_days (taken to be at least one).               *)
(***************************************************************************)
EXTENDS Integers, FiniteSets

CONSTANTS
    Segment,       \* 1..n, in the order they are recorded
    Settings,      \* storage settings a behaviour may run under, see Config
    Capacity,      \* segments max_storage_gb has room for
    MaxRuns,       \* bound: ffmpeg processes
    MaxFaults      \* bound: database errors and crashes of the service

Remote == {"webdav", "minio"}

\* The stores enabled, those that are exclusive, whether they have max_days or
\* max_storage_gb of their own; and a bound: segments recorded under the setting.
Config == [on: SUBSET Remote, only: SUBSET Remote, remoteDays: BOOLEAN, remoteCap: BOOLEAN,
           load: Segment]

ASSUME RecordingAssumption ==
    /\ Segment \subseteq Nat \ {0} /\ IsFiniteSet(Segment)
    /\ Settings \subseteq { c \in Config : c.only \subseteq c.on }
    /\ Capacity \in Nat /\ MaxRuns \in Nat /\ MaxFaults \in Nat

VARIABLES
    config,        \* the settings, fixed in a behaviour
    \* ffmpeg and the directory
    stage,         \* "off" | "on" | "draining" (the last look at the index)
                   \* | "failed" (no last look)
    run,           \* the current or last run, 0 for none
    runOf,         \* runOf[s]: the run that recorded s
    file,          \* file[s]: "none" | "open" | "closed" | "torn" | "gone"
    age,           \* age[s]: "fresh" | "settled" | "old"
    index,         \* runs whose index file is still there
    \* table recordings and the remote stores
    row,           \* row[s]: "none" | "busy" (in onSegmentComplete) | "lost"
                   \* | "local" | "webdav" | "minio" (storage_type) | "deleted"
    copy,          \* <<k, s>>: s is in the remote store k
    up,            \* up[k][s]: "idle" | "sending" | "stored" | "written" | "end"
    deleting,      \* deleting[s]: the row[s] a user's deletion has read; "unstored"
                   \* after its DELETE of the remote copy; "no" without one
    \* the storage manager
    pass,          \* where doCleanup is
    todo,          \* rows its query returned
    victim,        \* the row whose files are gone and whose row is not yet, or 0
    need,          \* segments still to be released
    cut,           \* a step of the pass gave up on an error
    \* history, read only by the properties
    dropped,       \* copies taken by the retention of the remote store
    lapsed,        \* recordings hit by a database error or a crash
    faults

ffmpegVars == <<stage, run, runOf, file, age, index>>
tableVars  == <<row, copy, up, deleting>>
passVars   == <<pass, todo, victim, need, cut>>
vars == <<config, ffmpegVars, tableVars, passVars, dropped, lapsed, faults>>

-----------------------------------------------------------------------------
OnDisk(s) == file[s] \in {"open", "closed", "torn"}
Live(s)   == row[s] \in Remote \cup {"local"}

\* A line for s can be read from an index file.
Listed(s) == file[s] = "closed" /\ runOf[s] \in index

\* The watcher, or the last look after ffmpeg has ended, will get to s.
Awaited(s) == Listed(s) /\ row[s] = "none" /\ stage \in {"on", "draining"}
              /\ runOf[s] = run

Uploading(s) == \E k \in Remote : up[k][s] \in {"sending", "stored", "written"}

Fault == faults < MaxFaults /\ faults' = faults + 1

Init ==
    /\ config \in Settings
    /\ stage = "off" /\ run = 0
    /\ runOf = [s \in Segment |-> 0]
    /\ file = [s \in Segment |-> "none"]
    /\ age = [s \in Segment |-> "fresh"]
    /\ index = {}
    /\ row = [s \in Segment |-> "none"]
    /\ copy = {}
    /\ up = [k \in Remote |-> [s \in Segment |-> "idle"]]
    /\ deleting = [s \in Segment |-> "no"]
    /\ pass = "idle" /\ todo = {} /\ victim = 0 /\ need = 0 /\ cut = FALSE
    /\ dropped = {} /\ lapsed = {} /\ faults = 0

-----------------------------------------------------------------------------
(* ffmpeg and the watcher of its index.                                    *)

\* runSegment: a process, its index file and a watcher.
StartRun ==
    /\ stage \in {"off", "failed"} /\ run < MaxRuns
    /\ stage' = "on" /\ run' = run + 1
    /\ index' = index \cup {run'}
    /\ UNCHANGED <<config, runOf, file, age, tableVars, passVars, dropped, lapsed, faults>>

OpenSegment(s) ==
    /\ stage = "on"
    /\ s <= config.load
    /\ \A t \in Segment : file[t] # "open" /\ (t < s => file[t] # "none")
    /\ file[s] = "none"
    /\ file' = [file EXCEPT ![s] = "open"]
    /\ runOf' = [runOf EXCEPT ![s] = run]
    /\ UNCHANGED <<config, stage, run, age, index, tableVars, passVars, dropped,
                   lapsed, faults>>

\* ffmpeg finishes the file and appends its line to the index it has open,
\* whether or not the index still has a name.
CloseSegment(s) ==
    /\ stage = "on" /\ file[s] = "open"
    /\ file' = [file EXCEPT ![s] = "closed"]
    /\ UNCHANGED <<config, stage, run, runOf, age, index, tableVars, passVars,
                   dropped, lapsed, faults>>

\* Mutant: the last look at the index is forgotten.
EndRun_NoLastLook(next, last) ==
    /\ stage = "on"
    /\ stage' = "off"
    /\ file' = [s \in Segment |-> IF file[s] = "open" THEN last ELSE file[s]]
    /\ UNCHANGED <<config, run, runOf, age, index, tableVars, passVars, dropped,
                   lapsed, faults>>

\* ffmpeg ends.  An exit without error, an interrupt and a stop of the stream
\* lead to a last look at the index, an error does not; a kill tears the open
\* segment.
EndRun(next, last) ==
    /\ stage = "on"
    /\ stage' = next
    /\ file' = [s \in Segment |-> IF file[s] = "open" THEN last ELSE file[s]]
    /\ UNCHANGED <<config, run, runOf, age, index, tableVars, passVars, dropped,
                   lapsed, faults>>

EndDraining ==
    /\ stage = "draining"
    /\ \A s \in Segment : ~Awaited(s)
    /\ stage' = "off"
    /\ UNCHANGED <<config, run, runOf, file, age, index, tableVars, passVars, dropped,
                   lapsed, faults>>

\* processCSVNewLines: the line is marked processed and the file looked at.
Claim(s) ==
    /\ Awaited(s)
    /\ row' = [row EXCEPT ![s] = "busy"]
    /\ UNCHANGED <<config, ffmpegVars, copy, up, deleting, passVars, dropped, lapsed, faults>>

\* onSegmentComplete: the row, and a goroutine for each remote store.
Insert(s) ==
    /\ row[s] = "busy"
    /\ row' = [row EXCEPT ![s] = "local"]
    /\ up' = [k \in Remote |-> IF k \in config.on THEN [up[k] EXCEPT ![s] = "sending"]
                               ELSE up[k]]
    /\ UNCHANGED <<config, ffmpegVars, copy, deleting, passVars, dropped, lapsed, faults>>

\* db.Create fails: the line stays processed and nobody looks at it again.
InsertFails(s) ==
    /\ row[s] = "busy" /\ Fault
    /\ row' = [row EXCEPT ![s] = "lost"]
    /\ lapsed' = lapsed \cup {s}
    /\ UNCHANGED <<config, ffmpegVars, copy, up, deleting, passVars, dropped>>

-----------------------------------------------------------------------------
(* uploadSegmentToWebdav and uploadSegmentToMinio.                         *)

\* One of three attempts succeeds; it needs the local file.
Upload(k, s) ==
    /\ up[k][s] = "sending" /\ OnDisk(s)
    /\ copy' = copy \cup {<<k, s>>}
    /\ up' = [up EXCEPT ![k][s] = "stored"]
    /\ UNCHANGED <<config, ffmpegVars, row, deleting, passVars, dropped, lapsed, faults>>

\* Mutant: after the last attempt the code goes on as if it had succeeded.
GiveUp_FallsThrough(k, s) ==
    /\ up[k][s] = "sending"
    /\ up' = [up EXCEPT ![k][s] = "stored"]
    /\ UNCHANGED <<config, ffmpegVars, row, copy, deleting, passVars, dropped, lapsed, faults>>

\* All three attempts fail.
GiveUp(k, s) ==
    /\ up[k][s] = "sending"
    /\ up' = [up EXCEPT ![k][s] = "end"]
    /\ UNCHANGED <<config, ffmpegVars, row, copy, deleting, passVars, dropped, lapsed, faults>>

\* The local copy is only a buffer; with both stores exclusive WebDAV removes it.
RemovesLocal(k) == k \in config.only /\ (k = "minio" => "webdav" \notin config.only)

AfterWriteBack(k) == IF RemovesLocal(k) THEN "written" ELSE "end"

\* UPDATE storage_path, storage_type: WebDAV of any live row, MinIO of one that
\* still has its local path.
WriteBack(k, s) ==
    /\ up[k][s] = "stored"
    /\ row' = [row EXCEPT ![s] = IF IF k = "webdav" THEN Live(s) ELSE @ = "local"
                                 THEN k ELSE @]
    /\ up' = [up EXCEPT ![k][s] = AfterWriteBack(k)]
    /\ UNCHANGED <<config, ffmpegVars, copy, deleting, passVars, dropped, lapsed, faults>>

\* The error is logged, or not even looked at, and the local copy goes anyway.
WriteBackFails(k, s) ==
    /\ up[k][s] = "stored" /\ Fault
    /\ up' = [up EXCEPT ![k][s] = AfterWriteBack(k)]
    /\ lapsed' = lapsed \cup {s}
    /\ UNCHANGED <<config, ffmpegVars, row, copy, deleting, passVars, dropped>>

RemoveLocal(k, s) ==
    /\ up[k][s] = "written"
    /\ file' = [file EXCEPT ![s] = "gone"]
    /\ up' = [up EXCEPT ![k][s] = "end"]
    /\ UNCHANGED <<config, stage, run, runOf, age, index, row, copy, deleting, passVars, dropped,
                   lapsed, faults>>

-----------------------------------------------------------------------------
(* doCleanup, and the deletion of a recording by a user.                   *)

\* SELECT ... WHERE end_time < cutoff AND storage_type='local'
Expired == { s \in Segment : row[s] = "local" /\ age[s] = "old" }

StartPass ==
    /\ pass = "idle"
    /\ pass' = "expire" /\ todo' = Expired
    /\ UNCHANGED <<config, ffmpegVars, tableVars, victim, need, cut, dropped, lapsed, faults>>

\* The query fails: nothing local is cleaned up, the remote stores are.
StartPassFails ==
    /\ pass = "idle" /\ Fault
    /\ pass' = "remote" /\ cut' = TRUE
    /\ UNCHANGED <<config, ffmpegVars, tableVars, todo, victim, need, dropped, lapsed>>

\* deleteRecordingLocalFiles: the file, and the index of the run it came from.
DeleteFiles(s) ==
    /\ pass = "expire" \/ (pass = "capacity" /\ need > 0)
    /\ victim = 0
    /\ s \in todo /\ \A t \in todo : s <= t
    /\ file' = [file EXCEPT ![s] = "gone"]
    /\ index' = index \ {runOf[s]}
    /\ need' = IF pass = "capacity" /\ OnDisk(s) THEN need - 1 ELSE need
    /\ victim' = s
    /\ UNCHANGED <<config, stage, run, runOf, age, tableVars, pass, todo, cut, dropped,
                   lapsed, faults>>

\* db.Delete of the row, whatever an upload has made of it since it was read.
DeleteRow ==
    /\ victim # 0
    /\ row' = [row EXCEPT ![victim] = IF Live(victim) THEN "deleted" ELSE @]
    /\ todo' = todo \ {victim} /\ victim' = 0
    /\ UNCHANGED <<config, ffmpegVars, copy, up, deleting, pass, need, cut, dropped, lapsed, faults>>

DeleteRowFails ==
    /\ victim # 0 /\ Fault
    /\ lapsed' = lapsed \cup {victim}
    /\ todo' = todo \ {victim} /\ victim' = 0
    /\ UNCHANGED <<config, ffmpegVars, tableVars, pass, need, cut, dropped>>

\* Files without a row; a count that fails counts as none.
Orphans(ages, unknown) ==
    { s \in Segment : file[s] \in {"closed", "torn"} /\ age[s] \in ages
                      /\ (~Live(s) \/ s \in unknown) }

Unknown == { U \in SUBSET Segment : faults < MaxFaults \/ U = {} }

Sweep(ages, unknown) ==
    /\ file' = [s \in Segment |-> IF s \in Orphans(ages, unknown) THEN "gone" ELSE file[s]]
    /\ lapsed' = lapsed \cup { s \in unknown : Live(s) }
    /\ faults' = IF unknown = {} THEN faults ELSE faults + 1

\* Mutant: cleanupOrphanFiles is not called.
SweepOrphans_Skipped ==
    /\ pass = "expire" /\ todo = {}
    /\ pass' = "measure"
    /\ UNCHANGED <<config, ffmpegVars, tableVars, todo, victim, need, cut, dropped, lapsed, faults>>

\* cleanupOrphanFiles
SweepOrphans ==
    /\ pass = "expire" /\ todo = {}
    /\ \E unknown \in Unknown : Sweep({"old"}, unknown)
    /\ pass' = "measure"
    /\ UNCHANGED <<config, stage, run, runOf, age, index, tableVars, todo, victim, need, cut,
                   dropped>>

\* The directory cannot be read: nothing is swept, and the pass goes on.
SweepOrphansFails ==
    /\ pass = "expire" /\ todo = {} /\ Fault
    /\ pass' = "measure" /\ cut' = TRUE
    /\ UNCHANGED <<config, ffmpegVars, tableVars, todo, victim, need, dropped, lapsed>>

\* enforceMaxStorage: dirSize, and the completed local recordings.
Measure ==
    /\ pass = "measure"
    /\ need' = Cardinality({ s \in Segment : OnDisk(s) }) - Capacity
    /\ IF need' > 0
       THEN pass' = "capacity" /\ todo' = { s \in Segment : row[s] = "local" }
       ELSE pass' = "remote" /\ UNCHANGED todo
    /\ UNCHANGED <<config, ffmpegVars, tableVars, victim, cut, dropped, lapsed, faults>>

\* The query of the recordings fails: nothing is released.
MeasureFails ==
    /\ pass = "measure" /\ Fault
    /\ Cardinality({ s \in Segment : OnDisk(s) }) > Capacity
    /\ pass' = "remote"
    /\ UNCHANGED <<config, ffmpegVars, tableVars, todo, victim, need, cut, dropped, lapsed>>

EndCapacity ==
    /\ pass = "capacity" /\ victim = 0
    /\ need <= 0 \/ todo = {}
    /\ pass' = (IF need > 0 THEN "segments" ELSE "remote")
    /\ todo' = {}
    /\ UNCHANGED <<config, ffmpegVars, tableVars, victim, need, cut, dropped, lapsed, faults>>

\* Index files nobody has written to for five minutes; they have no row.
QuietIndex(r) ==
    LET recorded == { s \in Segment : runOf[s] = r /\ file[s] # "open" } IN
    recorded # {} /\ \A s \in recorded : age[s] # "fresh"

\* cleanupOrphanSegments
SweepSegments ==
    /\ pass = "segments"
    /\ \E unknown \in Unknown : Sweep({"settled", "old"}, unknown)
    /\ index' = { r \in index : ~QuietIndex(r) }
    /\ pass' = "remote"
    /\ UNCHANGED <<config, stage, run, runOf, age, tableVars, todo, victim, need, cut, dropped>>

\* doCleanupWebdav and doCleanupMinio: by the age of the object, then for room,
\* none of the last ten minutes.  They know no rows; what a store does not list or
\* does not delete stays.
SweepRemote ==
    /\ pass = "remote"
    /\ \E out \in SUBSET { c \in copy : \/ (config.remoteDays /\ age[c[2]] = "old")
                                      \/ (config.remoteCap /\ age[c[2]] # "fresh") } :
        copy' = copy \ out /\ dropped' = dropped \cup out
    /\ pass' = "idle" /\ need' = 0 /\ cut' = FALSE
    /\ UNCHANGED <<config, ffmpegVars, row, up, deleting, todo, victim, lapsed, faults>>

\* deleteRecording reads the row and removes the local file.
UserRemove(s) ==
    /\ Live(s) /\ deleting[s] = "no"
    /\ deleting' = [deleting EXCEPT ![s] = row[s]]
    /\ file' = [file EXCEPT ![s] = "gone"]
    /\ UNCHANGED <<config, stage, run, runOf, age, index, row, copy, up, passVars, dropped,
                   lapsed, faults>>

\* The DELETE to WebDAV: the path joins the base path to one that has it, so that it
\* misses unless the base is empty.
UserUnstore(s) ==
    /\ deleting[s] \in Remote
    /\ deleting' = [deleting EXCEPT ![s] = "unstored"]
    /\ copy' \in {copy, copy \ {<<"webdav", s>>}}
    /\ UNCHANGED <<config, ffmpegVars, row, up, passVars, dropped, lapsed, faults>>

\* The row goes, or the user is told that it has not: its file has gone by then.
UserErase(s) ==
    /\ deleting[s] \in {"local", "unstored"}
    /\ deleting' = [deleting EXCEPT ![s] = "no"]
    /\ \/ /\ row' = [row EXCEPT ![s] = "deleted"]
          /\ UNCHANGED <<lapsed, faults>>
       \/ /\ Fault /\ lapsed' = lapsed \cup {s}
          /\ UNCHANGED row
    /\ UNCHANGED <<config, ffmpegVars, copy, up, passVars, dropped>>

-----------------------------------------------------------------------------
\* Five minutes pass; the watcher looks every two seconds.
Settle(s) ==
    /\ file[s] \in {"closed", "torn", "gone"} /\ age[s] = "fresh"
    /\ ~Awaited(s) /\ row[s] # "busy"
    /\ \A t \in Segment : t < s => age[t] # "fresh"
    /\ age' = [age EXCEPT ![s] = "settled"]
    /\ UNCHANGED <<config, stage, run, runOf, file, index, tableVars, passVars, dropped,
                   lapsed, faults>>

\* max_days pass; uploads give up and a cleanup ends within hours.
GrowOld(s) ==
    /\ age[s] = "settled" /\ ~Uploading(s) /\ pass = "idle"
    /\ \A t \in Segment : t < s => age[t] = "old"
    /\ age' = [age EXCEPT ![s] = "old"]
    /\ UNCHANGED <<config, stage, run, runOf, file, index, tableVars, passVars, dropped,
                   lapsed, faults>>

\* The service dies with ffmpeg, uploads and cleanup; nothing resumes them.
Crash ==
    /\ Fault
    /\ stage' = "failed"
    /\ file' = [s \in Segment |-> IF file[s] = "open" THEN "torn" ELSE file[s]]
    /\ row' = [s \in Segment |-> IF row[s] = "busy" THEN "lost" ELSE row[s]]
    /\ up' = [k \in Remote |-> [s \in Segment |-> IF up[k][s] = "idle" THEN "idle" ELSE "end"]]
    /\ deleting' = [s \in Segment |-> "no"]
    /\ pass' = "idle" /\ todo' = {} /\ victim' = 0 /\ need' = 0 /\ cut' = FALSE
    /\ lapsed' = lapsed \cup { s \in Segment : s = victim \/ deleting[s] # "no" }
    /\ UNCHANGED <<config, run, runOf, age, index, copy, dropped>>

-----------------------------------------------------------------------------
Watch(s) == Claim(s) \/ Insert(s)

Next ==
    \/ StartRun \/ EndDraining
    \/ \E next \in {"draining", "failed"}, last \in {"closed", "torn"} : EndRun(next, last)
    \/ \E s \in Segment :
        \/ OpenSegment(s) \/ CloseSegment(s) \/ Watch(s) \/ InsertFails(s)
        \/ \E k \in Remote : Upload(k, s) \/ GiveUp(k, s) \/ WriteBack(k, s)
                             \/ WriteBackFails(k, s) \/ RemoveLocal(k, s)
        \/ DeleteFiles(s) \/ UserRemove(s) \/ UserUnstore(s) \/ UserErase(s) \/ Settle(s) \/ GrowOld(s)
    \/ StartPass \/ StartPassFails \/ DeleteRow \/ DeleteRowFails
    \/ SweepOrphans \/ SweepOrphansFails \/ Measure \/ MeasureFails
    \/ EndCapacity \/ SweepSegments \/ SweepRemote
    \/ Crash

\* The watcher ticks every two seconds while ffmpeg runs.
Spec == Init /\ [][Next]_vars
FairSpec == Spec /\ \A s \in Segment : WF_vars(Watch(s))

-----------------------------------------------------------------------------
\* A recording that is listed can be played (server.go:1664-1747 looks at the
\* local file, then where storage_path points): two uploads, their removals of
\* the local file, the sweeps and the users never leave a row that points nowhere,
\* but for one that is being deleted, database errors, a crash between file and
\* row, and the retention of the remote store, which knows nothing of rows.
Reachable ==
    \A s \in Segment : Live(s) /\ s # victim /\ deleting[s] = "no" /\ s \notin lapsed =>
        IF row[s] = "local" THEN OnDisk(s)
        ELSE <<row[s], s>> \in copy \cup dropped

\* What a cleanup leaves older than max_days is the local copy of a recording
\* that has been archived, and nothing else: segments that never got a row,
\* and torn ones, go as well (service.go:154-179); unless the query of the expired
\* rows or the directory failed, in which case it ends without a word.
RetentionWorks ==
    [][pass = "remote" /\ pass' = "idle" /\ ~cut /\ faults' = faults =>
        \A s \in Segment : age[s] = "old" /\ OnDisk(s) => row[s] \in Remote]_vars

\* After a cleanup no local file is older than max_days: local storage cleans up
\* by itself when recordings are archived as well.
RetentionHonoured ==
    [][pass = "remote" /\ pass' = "idle" /\ ~cut /\ faults' = faults =>
        \A s \in Segment : age[s] = "old" => ~OnDisk(s)]_vars

\* A finished segment gets its row (manager.go:284-375): the watcher and the last
\* look at the index miss none between them, unless a database error or a crash
\* takes this very segment, ffmpeg ends in an error, or a cleanup has deleted the
\* index that its run is still writing (service.go:403).
SegmentsRecorded ==
    \A s \in Segment :
        (Listed(s) /\ row[s] = "none" /\ runOf[s] = run /\ stage = "on")
            ~> (Live(s) \/ row[s] = "deleted" \/ s \in lapsed
                \/ stage = "failed" \/ runOf[s] \notin index)
=============================================================================
