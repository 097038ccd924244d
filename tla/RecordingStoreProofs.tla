------------------------ MODULE RecordingStoreProofs ------------------------
(***************************************************************************)
(* RecordingStore for any number of segments, runs, faults and settings:   *)
(* a row points at something, although nothing orders the watcher, the     *)
(* uploads, the cleanup and the users.                                     *)
(***************************************************************************)
EXTENDS RecordingStore, TLAPS

RecordingTypes ==
    /\ stage \in {"off", "on", "draining", "failed"} /\ run \in Nat
    /\ runOf \in [Segment -> Nat]
    /\ file \in [Segment -> {"none", "open", "closed", "torn", "gone"}]
    /\ age \in [Segment -> {"fresh", "settled", "old"}]
    /\ row \in [Segment -> {"none", "busy", "lost", "local", "webdav", "minio", "deleted"}]
    /\ up \in [Remote -> [Segment -> {"idle", "sending", "stored", "written", "end"}]]
    /\ deleting \in [Segment -> {"no", "unstored", "local", "webdav", "minio"}]
    /\ victim \in Segment \cup {0} /\ todo \subseteq Segment /\ cut \in BOOLEAN
    /\ pass \in {"idle", "expire", "measure", "capacity", "segments", "remote"}

\* A segment has been given to the runs so far; it is fresh while it is written
\* and while a line waits for the watcher or the watcher has the line in hand: no
\* sweep touches it then.
FreshTillSeen ==
    \A s \in Segment :
        /\ runOf[s] <= run
        /\ file[s] \in {"none", "open"} \/ Awaited(s) => age[s] = "fresh"
        /\ row[s] = "busy" => file[s] = "closed" /\ age[s] = "fresh"

\* Uploads belong to rows, as cleanups and deletions do; what has been stored is
\* there, unless a user deletes the recording, and the local file is removed of a
\* row that has left the local disk.
UploadsFollowRows ==
    \A s \in Segment :
        /\ row[s] \in {"none", "busy", "lost"} =>
             s \notin todo /\ deleting[s] = "no" /\ \A k \in Remote : up[k][s] = "idle"
        /\ deleting[s] # "no" => file[s] = "gone"
        /\ \A k \in Remote :
            /\ up[k][s] = "stored" =>
                 \/ <<k, s>> \in copy \cup dropped
                 \/ deleting[s] = "unstored" \/ s \in lapsed \/ row[s] = "deleted"
            /\ up[k][s] = "written" /\ s \notin lapsed => row[s] # "local"

\* Nothing grows old while a cleanup is under way.  What was old when it began is
\* archived, or still to be expired, or has no row and falls to the sweep, as long
\* as no step of the cleanup gives up.
OldGoes ==
    /\ victim # 0 => file[victim] = "gone"
    /\ \A s \in Segment : age[s] = "old" /\ OnDisk(s) /\ ~cut =>
        /\ pass = "expire" => row[s] \in Remote \/ s \in todo \/ ~Live(s)
        /\ pass \in {"measure", "capacity", "segments", "remote"} => row[s] \in Remote

RecordingInv == RecordingTypes /\ FreshTillSeen /\ UploadsFollowRows /\ OldGoes /\ Reachable

\* At the start there is no row, no file and no copy.
LEMMA RecordingStart == Init => RecordingInv
<1> SUFFICES ASSUME Init PROVE RecordingInv
  OBVIOUS
<1> USE RecordingAssumption DEF Init
<1>1. RecordingTypes
  BY DEF RecordingTypes
<1>2. FreshTillSeen /\ UploadsFollowRows /\ OldGoes
  BY DEF FreshTillSeen, Awaited, Listed, UploadsFollowRows, OldGoes, OnDisk
<1>3. Reachable
  BY DEF Reachable, Live, Remote
<1> QED
  BY <1>1, <1>2, <1>3 DEF RecordingInv

\* One upload of one segment moves on.
LEMMA UpMoves ==
  ASSUME RecordingTypes, NEW k \in Remote, NEW s \in Segment,
         NEW x \in {"idle", "sending", "stored", "written", "end"}, up' = [up EXCEPT ![k][s] = x]
  PROVE  /\ up' \in [Remote -> [Segment -> {"idle", "sending", "stored", "written", "end"}]]
         /\ \A j \in Remote, t \in Segment : up'[j][t] = IF j = k /\ t = s THEN x ELSE up[j][t]
BY DEF RecordingTypes

\* Every action keeps the types.
LEMMA TypesKept ==
  ASSUME RecordingTypes, [Next]_vars
  PROVE  RecordingTypes'
<1> USE DEF RecordingTypes, Remote, ffmpegVars, tableVars, passVars, Fault
<1>1. CASE StartRun
  BY <1>1 DEF StartRun
<1>2. ASSUME NEW s \in Segment, OpenSegment(s) PROVE RecordingTypes'
  BY <1>2 DEF OpenSegment
<1>3. ASSUME NEW s \in Segment, CloseSegment(s) PROVE RecordingTypes'
  BY <1>3 DEF CloseSegment
<1>4. ASSUME NEW next \in {"draining", "failed"}, NEW last \in {"closed", "torn"}, EndRun(next, last)
      PROVE  RecordingTypes'
  BY <1>4 DEF EndRun
<1>5. CASE EndDraining
  BY <1>5 DEF EndDraining
<1>6. ASSUME NEW s \in Segment, Claim(s) PROVE RecordingTypes'
  BY <1>6 DEF Claim
<1>7. ASSUME NEW s \in Segment, Insert(s) PROVE RecordingTypes'
  BY <1>7 DEF Insert
<1>8. ASSUME NEW s \in Segment, InsertFails(s) PROVE RecordingTypes'
  BY <1>8 DEF InsertFails
<1>9. ASSUME NEW k \in Remote, NEW s \in Segment, Upload(k, s) PROVE RecordingTypes'
  BY <1>9, UpMoves DEF Upload
<1>10. ASSUME NEW k \in Remote, NEW s \in Segment, GiveUp(k, s) PROVE RecordingTypes'
  BY <1>10, UpMoves DEF GiveUp
<1>11. ASSUME NEW k \in Remote, NEW s \in Segment, WriteBack(k, s) PROVE RecordingTypes'
  BY <1>11, UpMoves DEF RemovesLocal, AfterWriteBack, WriteBack
<1>12. ASSUME NEW k \in Remote, NEW s \in Segment, WriteBackFails(k, s)
       PROVE  RecordingTypes'
  BY <1>12, UpMoves DEF RemovesLocal, AfterWriteBack, WriteBackFails
<1>13. ASSUME NEW k \in Remote, NEW s \in Segment, RemoveLocal(k, s) PROVE RecordingTypes'
  BY <1>13, UpMoves DEF RemoveLocal
<1>14. CASE StartPass
  BY <1>14 DEF Expired, StartPass
<1>15. ASSUME NEW s \in Segment, DeleteFiles(s) PROVE RecordingTypes'
  BY <1>15 DEF DeleteFiles
<1>16. CASE DeleteRow
  BY <1>16 DEF DeleteRow
<1>17. CASE DeleteRowFails
  BY <1>17 DEF DeleteRowFails
<1>18. CASE SweepOrphans
  BY <1>18 DEF Sweep, Orphans, SweepOrphans
<1>19. CASE Measure
  BY <1>19 DEF Measure
<1>20. CASE EndCapacity
  BY <1>20 DEF EndCapacity
<1>21. CASE SweepSegments
  BY <1>21 DEF Sweep, Orphans, SweepSegments
<1>22. CASE SweepRemote
  BY <1>22 DEF SweepRemote
<1>31. ASSUME NEW s \in Segment, UserRemove(s) PROVE RecordingTypes'
  BY <1>31 DEF UserRemove, Live
<1>32. ASSUME NEW s \in Segment, UserUnstore(s) PROVE RecordingTypes'
  BY <1>32 DEF UserUnstore
<1>33. ASSUME NEW s \in Segment, UserErase(s) PROVE RecordingTypes'
  BY <1>33 DEF UserErase
<1>28. CASE StartPassFails
  BY <1>28 DEF StartPassFails
<1>29. CASE SweepOrphansFails
  BY <1>29 DEF SweepOrphansFails
<1>30. CASE MeasureFails
  BY <1>30 DEF MeasureFails
<1>24. ASSUME NEW s \in Segment, Settle(s) PROVE RecordingTypes'
  BY <1>24 DEF Settle
<1>25. ASSUME NEW s \in Segment, GrowOld(s) PROVE RecordingTypes'
  BY <1>25 DEF GrowOld
<1>26. CASE Crash
  BY <1>26 DEF Crash
<1>27. CASE UNCHANGED vars
  BY <1>27 DEF vars
<1> QED
  BY <1>1, <1>2, <1>3, <1>4, <1>5, <1>6, <1>7, <1>8, <1>9, <1>10, <1>11, <1>12, <1>13,
     <1>14, <1>15, <1>16, <1>17, <1>18, <1>19, <1>20, <1>21, <1>22, <1>31, <1>32, <1>33, <1>24, <1>25,
     <1>26, <1>27, <1>28, <1>29, <1>30 DEF Next, Watch

\* A line waits only for a segment of the current run, and what has just been
\* finished is fresh; files are removed of rows, or of segments that are not fresh.
LEMMA FreshKept ==
  ASSUME RecordingTypes, FreshTillSeen, UploadsFollowRows, [Next]_vars
  PROVE  FreshTillSeen'
<1> USE DEF FreshTillSeen, Awaited, Listed, RecordingTypes, ffmpegVars, tableVars, passVars, Fault
<1>0. Remote = {"webdav", "minio"}
  BY DEF Remote
<1>1. CASE StartRun
  BY <1>1 DEF StartRun
<1>2. ASSUME NEW s \in Segment, OpenSegment(s) PROVE FreshTillSeen'
  BY <1>2 DEF OpenSegment
<1>3. ASSUME NEW s \in Segment, CloseSegment(s) PROVE FreshTillSeen'
  BY <1>3 DEF CloseSegment
<1>4. ASSUME NEW next \in {"draining", "failed"}, NEW last \in {"closed", "torn"}, EndRun(next, last)
      PROVE  FreshTillSeen'
  BY <1>4 DEF EndRun
<1>5. CASE EndDraining
  BY <1>5 DEF EndDraining
<1>6. ASSUME NEW s \in Segment, Claim(s) PROVE FreshTillSeen'
  BY <1>6 DEF Claim
<1>7. ASSUME NEW s \in Segment, Insert(s) PROVE FreshTillSeen'
  BY <1>7 DEF Insert
<1>8. ASSUME NEW s \in Segment, InsertFails(s) PROVE FreshTillSeen'
  BY <1>8 DEF InsertFails
<1>9. ASSUME NEW k \in Remote, NEW s \in Segment, Upload(k, s) PROVE FreshTillSeen'
  BY <1>9, UpMoves DEF Upload
<1>10. ASSUME NEW k \in Remote, NEW s \in Segment, GiveUp(k, s) PROVE FreshTillSeen'
  BY <1>10, UpMoves DEF GiveUp
<1>11. ASSUME NEW k \in Remote, NEW s \in Segment, WriteBack(k, s) PROVE FreshTillSeen'
  BY <1>11, <1>0, UpMoves DEF RemovesLocal, AfterWriteBack, WriteBack
<1>12. ASSUME NEW k \in Remote, NEW s \in Segment, WriteBackFails(k, s)
       PROVE  FreshTillSeen'
  BY <1>12, UpMoves DEF RemovesLocal, AfterWriteBack, WriteBackFails
<1>13. ASSUME NEW k \in Remote, NEW s \in Segment, RemoveLocal(k, s) PROVE FreshTillSeen'
  BY <1>13, UpMoves DEF UploadsFollowRows, RemoveLocal
<1>14. CASE StartPass
  BY <1>14 DEF Expired, StartPass
<1>15. ASSUME NEW s \in Segment, DeleteFiles(s) PROVE FreshTillSeen'
  BY <1>15 DEF UploadsFollowRows, DeleteFiles
<1>16. CASE DeleteRow
  BY <1>16 DEF DeleteRow
<1>17. CASE DeleteRowFails
  BY <1>17 DEF DeleteRowFails
<1>18. CASE SweepOrphans
  BY <1>18 DEF Sweep, Orphans, SweepOrphans
<1>19. CASE Measure
  BY <1>19 DEF Measure
<1>20. CASE EndCapacity
  BY <1>20 DEF EndCapacity
<1>21. CASE SweepSegments
  BY <1>21 DEF Sweep, Orphans, SweepSegments
<1>22. CASE SweepRemote
  BY <1>22 DEF SweepRemote
<1>31. ASSUME NEW s \in Segment, UserRemove(s) PROVE FreshTillSeen'
  <2>1. /\ row[s] \notin {"none", "busy"} /\ UNCHANGED <<stage, run, runOf, age, index, row>>
        /\ file' = [file EXCEPT ![s] = "gone"]
    BY <1>0, <1>31 DEF UserRemove, Live
  <2> QED
    BY <2>1
<1>32. ASSUME NEW s \in Segment, UserUnstore(s) PROVE FreshTillSeen'
  BY <1>32 DEF UserUnstore
<1>33. ASSUME NEW s \in Segment, UserErase(s) PROVE FreshTillSeen'
  BY <1>33 DEF UserErase
<1>28. CASE StartPassFails
  BY <1>28 DEF StartPassFails
<1>29. CASE SweepOrphansFails
  BY <1>29 DEF SweepOrphansFails
<1>30. CASE MeasureFails
  BY <1>30 DEF MeasureFails
<1>24. ASSUME NEW s \in Segment, Settle(s) PROVE FreshTillSeen'
  BY <1>24 DEF Settle
<1>25. ASSUME NEW s \in Segment, GrowOld(s) PROVE FreshTillSeen'
  BY <1>25 DEF GrowOld
<1>26. CASE Crash
  BY <1>26 DEF Crash
<1>27. CASE UNCHANGED vars
  BY <1>27 DEF vars
<1> QED
  BY <1>1, <1>2, <1>3, <1>4, <1>5, <1>6, <1>7, <1>8, <1>9, <1>10, <1>11, <1>12, <1>13,
     <1>14, <1>15, <1>16, <1>17, <1>18, <1>19, <1>20, <1>21, <1>22, <1>31, <1>32, <1>33, <1>24, <1>25,
     <1>26, <1>27, <1>28, <1>29, <1>30 DEF Next, Watch

\* An upload is stored once its copy is there, and written back once the row has
\* left the local disk or is gone; no row comes back to it.
LEMMA UploadsKept ==
  ASSUME RecordingTypes, FreshTillSeen, UploadsFollowRows, [Next]_vars
  PROVE  UploadsFollowRows'
<1> USE DEF UploadsFollowRows, RecordingTypes, Live, ffmpegVars, tableVars, passVars, Fault
<1>0. Remote = {"webdav", "minio"}
  BY DEF Remote
<1>1. CASE StartRun
  BY <1>1 DEF StartRun
<1>2. ASSUME NEW s \in Segment, OpenSegment(s) PROVE UploadsFollowRows'
  BY <1>2 DEF OpenSegment
<1>3. ASSUME NEW s \in Segment, CloseSegment(s) PROVE UploadsFollowRows'
  BY <1>3 DEF CloseSegment
<1>4. ASSUME NEW next \in {"draining", "failed"}, NEW last \in {"closed", "torn"}, EndRun(next, last)
      PROVE  UploadsFollowRows'
  BY <1>4 DEF EndRun
<1>5. CASE EndDraining
  BY <1>5 DEF EndDraining
<1>6. ASSUME NEW s \in Segment, Claim(s) PROVE UploadsFollowRows'
  BY <1>6 DEF Awaited, Claim
<1>7. ASSUME NEW s \in Segment, Insert(s) PROVE UploadsFollowRows'
  BY <1>7 DEF Insert
<1>8. ASSUME NEW s \in Segment, InsertFails(s) PROVE UploadsFollowRows'
  BY <1>8 DEF InsertFails
<1>9. ASSUME NEW k \in Remote, NEW s \in Segment, Upload(k, s) PROVE UploadsFollowRows'
  BY <1>9, UpMoves DEF Upload
<1>10. ASSUME NEW k \in Remote, NEW s \in Segment, GiveUp(k, s) PROVE UploadsFollowRows'
  BY <1>10, UpMoves DEF GiveUp
<1>11. ASSUME NEW k \in Remote, NEW s \in Segment, WriteBack(k, s)
       PROVE  UploadsFollowRows'
  <2>1. /\ up[k][s] = "stored" /\ up'[k][s] \in {"written", "end"}
        /\ \A j \in Remote, t \in Segment : j # k \/ t # s => up'[j][t] = up[j][t]
        /\ UNCHANGED <<copy, dropped, lapsed, todo>>
    BY <1>11, UpMoves DEF AfterWriteBack, WriteBack
  <2>2. row[s] \notin {"none", "busy", "lost"}
    BY <2>1
  <2>3. /\ row'[s] = IF IF k = "webdav" THEN Live(s) ELSE row[s] = "local" THEN k ELSE row[s]
        /\ \A t \in Segment : t # s => row'[t] = row[t]
    BY <1>11 DEF WriteBack
  <2>4. row'[s] # "local" /\ row'[s] \notin {"none", "busy", "lost"}
    BY <1>0, <2>2, <2>3
  <2>5. UNCHANGED <<file, deleting>>
    BY <1>11 DEF WriteBack
  <2>6. row[s] = "deleted" => row'[s] = "deleted"
    BY <1>0, <2>3
  <2> QED
    BY <2>1, <2>3, <2>4, <2>5, <2>6
<1>12. ASSUME NEW k \in Remote, NEW s \in Segment, WriteBackFails(k, s)
       PROVE  UploadsFollowRows'
  BY <1>12, UpMoves DEF RemovesLocal, AfterWriteBack, WriteBackFails
<1>13. ASSUME NEW k \in Remote, NEW s \in Segment, RemoveLocal(k, s)
       PROVE  UploadsFollowRows'
  BY <1>13, UpMoves DEF RemoveLocal
<1>14. CASE StartPass
  BY <1>14 DEF Expired, StartPass
<1>15. ASSUME NEW s \in Segment, DeleteFiles(s) PROVE UploadsFollowRows'
  BY <1>15 DEF DeleteFiles
<1>16. CASE DeleteRow
  BY <1>16 DEF DeleteRow
<1>17. CASE DeleteRowFails
  BY <1>17 DEF DeleteRowFails
<1>18. CASE SweepOrphans
  BY <1>18 DEF Sweep, Orphans, SweepOrphans
<1>19. CASE Measure
  BY <1>19 DEF Measure
<1>20. CASE EndCapacity
  BY <1>20 DEF EndCapacity
<1>21. CASE SweepSegments
  BY <1>21 DEF Sweep, Orphans, SweepSegments
<1>22. CASE SweepRemote
  BY <1>22 DEF SweepRemote
<1>31. ASSUME NEW s \in Segment, UserRemove(s) PROVE UploadsFollowRows'
  <2>1. /\ row[s] \in {"local", "webdav", "minio"} /\ deleting[s] = "no"
        /\ UNCHANGED <<row, copy, up, todo, dropped, lapsed>>
        /\ file' = [file EXCEPT ![s] = "gone"]
        /\ deleting' = [deleting EXCEPT ![s] = row[s]]
    BY <1>0, <1>31 DEF UserRemove
  <2>2. \A t \in Segment : t # s => deleting'[t] = deleting[t] /\ file'[t] = file[t]
    BY <2>1
  <2>3. deleting'[s] # "no" /\ file'[s] = "gone"
    BY <2>1
  <2> QED
    BY <2>1, <2>2, <2>3
<1>32. ASSUME NEW s \in Segment, UserUnstore(s) PROVE UploadsFollowRows'
  <2>1. /\ deleting[s] \in Remote /\ UNCHANGED <<row, file, up, todo, dropped, lapsed>>
        /\ \A k \in Remote, t \in Segment : t # s /\ <<k, t>> \in copy => <<k, t>> \in copy'
        /\ deleting' = [deleting EXCEPT ![s] = "unstored"]
    BY <1>32 DEF UserUnstore
  <2>2. /\ \A t \in Segment : t # s => deleting'[t] = deleting[t]
        /\ deleting'[s] = "unstored" /\ deleting[s] # "no"
    BY <1>0, <2>1
  <2> QED
    BY <2>1, <2>2
<1>33. ASSUME NEW s \in Segment, UserErase(s) PROVE UploadsFollowRows'
  BY <1>33 DEF UserErase
<1>28. CASE StartPassFails
  BY <1>28 DEF StartPassFails
<1>29. CASE SweepOrphansFails
  BY <1>29 DEF SweepOrphansFails
<1>30. CASE MeasureFails
  BY <1>30 DEF MeasureFails
<1>24. ASSUME NEW s \in Segment, Settle(s) PROVE UploadsFollowRows'
  BY <1>24 DEF Settle
<1>25. ASSUME NEW s \in Segment, GrowOld(s) PROVE UploadsFollowRows'
  BY <1>25 DEF GrowOld
<1>26. CASE Crash
  BY <1>26 DEF Crash
<1>27. CASE UNCHANGED vars
  BY <1>27 DEF vars
<1> QED
  BY <1>1, <1>2, <1>3, <1>4, <1>5, <1>6, <1>7, <1>8, <1>9, <1>10, <1>11, <1>12, <1>13,
     <1>14, <1>15, <1>16, <1>17, <1>18, <1>19, <1>20, <1>21, <1>22, <1>31, <1>32, <1>33, <1>24, <1>25,
     <1>26, <1>27, <1>28, <1>29, <1>30 DEF Next, Watch

\* A cleanup forgets a row only when its file has gone, and sweeps the rest; a row
\* that is inserted meanwhile is fresh.
LEMMA OldKept ==
  ASSUME RecordingTypes, FreshTillSeen, UploadsFollowRows, OldGoes, [Next]_vars
  PROVE  OldGoes'
<1> USE DEF OldGoes, FreshTillSeen, OnDisk, Live, RecordingTypes, ffmpegVars, tableVars, passVars, Fault
<1>0. Remote = {"webdav", "minio"}
  BY DEF Remote
<1>1. CASE StartRun
  BY <1>1 DEF StartRun
<1>2. ASSUME NEW s \in Segment, OpenSegment(s) PROVE OldGoes'
  BY <1>2 DEF OpenSegment
<1>3. ASSUME NEW s \in Segment, CloseSegment(s) PROVE OldGoes'
  BY <1>3 DEF CloseSegment
<1>4. ASSUME NEW next \in {"draining", "failed"}, NEW last \in {"closed", "torn"}, EndRun(next, last)
      PROVE  OldGoes'
  BY <1>4 DEF EndRun
<1>5. CASE EndDraining
  BY <1>5 DEF EndDraining
<1>6. ASSUME NEW s \in Segment, Claim(s) PROVE OldGoes'
  BY <1>6 DEF Claim
<1>7. ASSUME NEW s \in Segment, Insert(s) PROVE OldGoes'
  BY <1>7 DEF Insert
<1>8. ASSUME NEW s \in Segment, InsertFails(s) PROVE OldGoes'
  BY <1>8 DEF InsertFails
<1>9. ASSUME NEW k \in Remote, NEW s \in Segment, Upload(k, s) PROVE OldGoes'
  BY <1>9, UpMoves DEF Upload
<1>10. ASSUME NEW k \in Remote, NEW s \in Segment, GiveUp(k, s) PROVE OldGoes'
  BY <1>10, UpMoves DEF GiveUp
<1>11. ASSUME NEW k \in Remote, NEW s \in Segment, WriteBack(k, s) PROVE OldGoes'
  BY <1>11, UpMoves DEF RemovesLocal, AfterWriteBack, WriteBack
<1>12. ASSUME NEW k \in Remote, NEW s \in Segment, WriteBackFails(k, s) PROVE OldGoes'
  BY <1>12, UpMoves DEF RemovesLocal, AfterWriteBack, WriteBackFails
<1>13. ASSUME NEW k \in Remote, NEW s \in Segment, RemoveLocal(k, s) PROVE OldGoes'
  BY <1>13, UpMoves DEF RemoveLocal
<1>14. CASE StartPass
  BY <1>14 DEF Expired, StartPass
<1>15. ASSUME NEW s \in Segment, DeleteFiles(s) PROVE OldGoes'
  BY <1>15 DEF DeleteFiles
<1>16. CASE DeleteRow
  BY <1>16 DEF DeleteRow
<1>17. CASE DeleteRowFails
  BY <1>17 DEF DeleteRowFails
<1>18. CASE SweepOrphans
  BY <1>18 DEF Sweep, Orphans, SweepOrphans
<1>19. CASE Measure
  BY <1>19 DEF Measure
<1>20. CASE EndCapacity
  BY <1>20 DEF EndCapacity
<1>21. CASE SweepSegments
  BY <1>21 DEF Sweep, Orphans, SweepSegments
<1>22. CASE SweepRemote
  BY <1>22 DEF SweepRemote
<1>31. ASSUME NEW s \in Segment, UserRemove(s) PROVE OldGoes'
  BY <1>31 DEF UserRemove
<1>32. ASSUME NEW s \in Segment, UserUnstore(s) PROVE OldGoes'
  BY <1>32 DEF UserUnstore
<1>33. ASSUME NEW s \in Segment, UserErase(s) PROVE OldGoes'
  <2>1. /\ file[s] = "gone" /\ UNCHANGED <<file, age, pass, todo, cut, victim>>
        /\ \A t \in Segment : t # s => row'[t] = row[t]
    BY <1>33 DEF UserErase, UploadsFollowRows
  <2> QED
    BY <2>1
<1>28. CASE StartPassFails
  BY <1>28 DEF StartPassFails
<1>29. CASE SweepOrphansFails
  BY <1>29 DEF SweepOrphansFails
<1>30. CASE MeasureFails
  BY <1>30 DEF MeasureFails
<1>24. ASSUME NEW s \in Segment, Settle(s) PROVE OldGoes'
  BY <1>24 DEF Settle
<1>25. ASSUME NEW s \in Segment, GrowOld(s) PROVE OldGoes'
  BY <1>25 DEF GrowOld
<1>26. CASE Crash
  BY <1>26 DEF Crash
<1>27. CASE UNCHANGED vars
  BY <1>27 DEF vars
<1> QED
  BY <1>1, <1>2, <1>3, <1>4, <1>5, <1>6, <1>7, <1>8, <1>9, <1>10, <1>11, <1>12, <1>13,
     <1>14, <1>15, <1>16, <1>17, <1>18, <1>19, <1>20, <1>21, <1>22, <1>31, <1>32, <1>33, <1>24, <1>25,
     <1>26, <1>27, <1>28, <1>29, <1>30 DEF Next, Watch

\* Where a local file goes, the row has left it before, or is the victim.
LEMMA ReachableKept ==
  ASSUME RecordingTypes, FreshTillSeen, UploadsFollowRows, Reachable, [Next]_vars
  PROVE  Reachable'
<1> USE DEF Reachable, FreshTillSeen, UploadsFollowRows, OnDisk, Live, RecordingTypes, ffmpegVars, tableVars, passVars, Fault
<1>0. Remote = {"webdav", "minio"}
  BY DEF Remote
<1>1. CASE StartRun
  BY <1>1, <1>0 DEF StartRun
<1>2. ASSUME NEW s \in Segment, OpenSegment(s) PROVE Reachable'
  BY <1>2, <1>0 DEF OpenSegment
<1>3. ASSUME NEW s \in Segment, CloseSegment(s) PROVE Reachable'
  BY <1>3, <1>0 DEF CloseSegment
<1>4. ASSUME NEW next \in {"draining", "failed"}, NEW last \in {"closed", "torn"}, EndRun(next, last)
      PROVE  Reachable'
  BY <1>4, <1>0 DEF EndRun
<1>5. CASE EndDraining
  BY <1>5, <1>0 DEF EndDraining
<1>6. ASSUME NEW s \in Segment, Claim(s) PROVE Reachable'
  BY <1>6, <1>0 DEF Awaited, Claim
<1>7. ASSUME NEW s \in Segment, Insert(s) PROVE Reachable'
  BY <1>7, <1>0 DEF Insert
<1>8. ASSUME NEW s \in Segment, InsertFails(s) PROVE Reachable'
  BY <1>8, <1>0 DEF InsertFails
<1>9. ASSUME NEW k \in Remote, NEW s \in Segment, Upload(k, s) PROVE Reachable'
  BY <1>9, <1>0, UpMoves DEF Upload
<1>10. ASSUME NEW k \in Remote, NEW s \in Segment, GiveUp(k, s) PROVE Reachable'
  BY <1>10, <1>0, UpMoves DEF GiveUp
<1>11. ASSUME NEW k \in Remote, NEW s \in Segment, WriteBack(k, s) PROVE Reachable'
  <2>1. /\ <<k, s>> \in copy \cup dropped \/ deleting[s] # "no" \/ s \in lapsed \/ row[s] = "deleted"
        /\ UNCHANGED <<file, copy, dropped, lapsed, victim, deleting>>
    BY <1>11 DEF WriteBack
  <2>2. /\ row'[s] = IF IF k = "webdav" THEN Live(s) ELSE row[s] = "local" THEN k ELSE row[s]
        /\ \A t \in Segment : t # s => row'[t] = row[t]
    BY <1>11 DEF WriteBack
  <2> QED
    BY <1>0, <2>1, <2>2
<1>12. ASSUME NEW k \in Remote, NEW s \in Segment, WriteBackFails(k, s) PROVE Reachable'
  BY <1>12, <1>0, UpMoves DEF RemovesLocal, AfterWriteBack, WriteBackFails
<1>13. ASSUME NEW k \in Remote, NEW s \in Segment, RemoveLocal(k, s) PROVE Reachable'
  <2>1. /\ s \notin lapsed => row[s] # "local"
        /\ \A t \in Segment : t # s => file'[t] = file[t]
        /\ UNCHANGED <<row, copy, dropped, lapsed, victim, deleting>>
    BY <1>13 DEF RemoveLocal
  <2> QED
    BY <1>0, <2>1
<1>14. CASE StartPass
  BY <1>14, <1>0 DEF Expired, StartPass
<1>15. ASSUME NEW s \in Segment, DeleteFiles(s) PROVE Reachable'
  <2>1. /\ victim = 0 /\ victim' = s
        /\ \A t \in Segment : t # 0 /\ (t # s => file'[t] = file[t])
        /\ UNCHANGED <<row, copy, dropped, lapsed, deleting>>
    BY <1>15, RecordingAssumption DEF DeleteFiles
  <2> QED
    BY <1>0, <2>1
<1>16. CASE DeleteRow
  BY <1>16, <1>0 DEF DeleteRow
<1>17. CASE DeleteRowFails
  BY <1>17, <1>0 DEF DeleteRowFails
<1>18. CASE SweepOrphans
  BY <1>18, <1>0 DEF Sweep, Orphans, SweepOrphans
<1>19. CASE Measure
  BY <1>19, <1>0 DEF Measure
<1>20. CASE EndCapacity
  BY <1>20, <1>0 DEF EndCapacity
<1>21. CASE SweepSegments
  BY <1>21, <1>0 DEF Sweep, Orphans, SweepSegments
<1>22. CASE SweepRemote
  BY <1>22, <1>0 DEF SweepRemote
<1>31. ASSUME NEW s \in Segment, UserRemove(s) PROVE Reachable'
  BY <1>31, <1>0 DEF UserRemove
<1>32. ASSUME NEW s \in Segment, UserUnstore(s) PROVE Reachable'
  BY <1>32, <1>0 DEF UserUnstore
<1>33. ASSUME NEW s \in Segment, UserErase(s) PROVE Reachable'
  BY <1>33, <1>0 DEF UserErase
<1>28. CASE StartPassFails
  BY <1>28, <1>0 DEF StartPassFails
<1>29. CASE SweepOrphansFails
  BY <1>29, <1>0 DEF SweepOrphansFails
<1>30. CASE MeasureFails
  BY <1>30, <1>0 DEF MeasureFails
<1>24. ASSUME NEW s \in Segment, Settle(s) PROVE Reachable'
  BY <1>24, <1>0 DEF Settle
<1>25. ASSUME NEW s \in Segment, GrowOld(s) PROVE Reachable'
  BY <1>25, <1>0 DEF GrowOld
<1>26. CASE Crash
  BY <1>26, <1>0 DEF Crash
<1>27. CASE UNCHANGED vars
  BY <1>27 DEF vars
<1> QED
  BY <1>1, <1>2, <1>3, <1>4, <1>5, <1>6, <1>7, <1>8, <1>9, <1>10, <1>11, <1>12, <1>13,
     <1>14, <1>15, <1>16, <1>17, <1>18, <1>19, <1>20, <1>21, <1>22, <1>31, <1>32, <1>33, <1>24, <1>25,
     <1>26, <1>27, <1>28, <1>29, <1>30 DEF Next, Watch

\* The parts together are inductive.
LEMMA RecordingStep == RecordingInv /\ [Next]_vars => RecordingInv'
BY TypesKept, FreshKept, UploadsKept, OldKept, ReachableKept DEF RecordingInv

\* Hence every behaviour keeps them.
LEMMA RecordingInvariant == Spec => []RecordingInv
BY RecordingStart, RecordingStep, PTL DEF Spec

\* Two uploads, their removals of the local file, the sweeps and the users never
\* leave a row that points nowhere, but for database errors, a crash between file
\* and row, and the retention of the remote store (server.go:1664-1747).
THEOREM RowsPointSomewhere == Spec => []Reachable
<1>1. RecordingInv => Reachable
  BY DEF RecordingInv
<1> QED
  BY <1>1, RecordingInvariant, PTL

\* What a cleanup leaves older than max_days is the local copy of a recording
\* that has been archived, and nothing else (service.go:154-179).
THEOREM CleanupsFinish == Spec => RetentionWorks
<1> DEFINE Works == pass = "remote" /\ pass' = "idle" /\ ~cut /\ faults' = faults =>
                      \A s \in Segment : age[s] = "old" /\ OnDisk(s) => row[s] \in Remote
<1>1. RecordingInv => Works
  BY DEF RecordingInv, OldGoes
<1>2. RecordingInv /\ [Next]_vars => [Works]_vars
  BY <1>1
<1>3. RetentionWorks <=> [][Works]_vars
  BY DEF RetentionWorks
<1> HIDE DEF Works
<1> QED
  BY <1>2, <1>3, RecordingInvariant, PTL DEF Spec
=============================================================================
