------------------------------ MODULE FileStore ------------------------------
(***************************************************************************)
(* svc-file: a row of the table files describes an object of the bucket.   *)
(* The row comes first, with an URL the browser uploads to; the owner's    *)
(* DELETE removes object and row one after the other; orphanSweeper        *)
(* removes old rows whose object never came.  Nothing removes an object    *)
(* without a row.  An age is counted in ticks and stops at its last value. *)
(***************************************************************************)
EXTENDS Naturals, FiniteSets

CONSTANTS
    File,            \* ids of rows, in order
    PresignTTL,      \* presignTTL: how long an upload may begin
    SweepMinAge,     \* sweepMinAge
    SweepBatch,      \* sweepBatch
    MaxFileFaults    \* bound: calls to the object store or the database that fail

ASSUME FileAssumption ==
    PresignTTL \in Nat /\ SweepMinAge \in Nat /\ SweepBatch \in Nat /\ MaxFileFaults \in Nat

VARIABLES
    files,       \* files[f]: "none", "row" or "gone"
    age,         \* age[f]: ticks since the row was made
    signed,      \* files whose URL was handed out
    upload,      \* upload[f]: "none", "running" or "done"
    objects,     \* files with an object
    deleting,    \* deleting[f]: how far the owner's DELETE is
    sweep,       \* what is left of the batch, and the row found missing
    fileFaults,
    asked, late  \* kept for the properties: files deleted by the owner, and
                 \* files whose upload ended after SweepMinAge

fileVars == <<files, age, signed, upload, objects, deleting, sweep, fileFaults, asked, late>>

LastAge == SweepMinAge + 1
NotNow  == [left |-> {}, missing |-> {}]
OldRows == { f \in File : files[f] = "row" /\ age[f] > SweepMinAge }

-----------------------------------------------------------------------------
FilesInit ==
    /\ files = [f \in File |-> "none"] /\ age = [f \in File |-> 0]
    /\ signed = {} /\ objects = {} /\ asked = {} /\ late = {}
    /\ upload = [f \in File |-> "none"]
    /\ deleting = [f \in File |-> "no"]
    /\ sweep = NotNow
    /\ fileFaults = 0

FileFault == fileFaults < MaxFileFaults /\ fileFaults' = fileFaults + 1
Works     == UNCHANGED fileFaults

\* INSERT, then PresignedPutObject: if signing fails the row stays.
HandleUploadURL(f, signs) ==
    /\ files[f] = "none" /\ \A g \in File : g < f => files[g] # "none"
    /\ IF signs THEN Works ELSE FileFault
    /\ files' = [files EXCEPT ![f] = "row"]
    /\ signed' = IF signs THEN signed \cup {f} ELSE signed
    /\ UNCHANGED <<age, upload, objects, deleting, sweep, asked, late>>

\* The browser's PUT: the URL is checked when it begins.
UploadBegins(f) ==
    /\ f \in signed /\ upload[f] # "running" /\ age[f] < PresignTTL
    /\ upload' = [upload EXCEPT ![f] = "running"]
    /\ UNCHANGED <<files, age, signed, objects, deleting, sweep, fileFaults, asked, late>>

UploadEnds(f, stored) ==
    /\ upload[f] = "running"
    /\ upload' = [upload EXCEPT ![f] = "done"]
    /\ objects' = IF stored THEN objects \cup {f} ELSE objects
    /\ late' = IF stored /\ age[f] > SweepMinAge THEN late \cup {f} ELSE late
    /\ UNCHANGED <<files, age, signed, deleting, sweep, fileFaults, asked>>

\* Mutant: the row goes first, the object after it.
RemoveObject_RowFirst(f, works) ==
    /\ files[f] = "row" /\ deleting[f] = "no"
    /\ IF works THEN Works ELSE FileFault
    /\ files' = [files EXCEPT ![f] = "gone"]
    /\ deleting' = [deleting EXCEPT ![f] = "removed"]
    /\ UNCHANGED <<age, signed, upload, objects, sweep, asked, late>>

\* handleDelete: RemoveObject, its error only logged..
RemoveObject(f, works) ==
    /\ files[f] = "row" /\ deleting[f] = "no"
    /\ IF works THEN Works ELSE FileFault
    /\ objects' = IF works THEN objects \ {f} ELSE objects
    /\ deleting' = [deleting EXCEPT ![f] = "removed"]
    /\ asked' = asked \cup {f}
    /\ UNCHANGED <<files, age, signed, upload, sweep, late>>

\* ..then DELETE FROM files.
DeleteRow(f, works) ==
    /\ deleting[f] = "removed"
    /\ IF works THEN Works ELSE FileFault
    /\ files' = [files EXCEPT ![f] = IF works THEN "gone" ELSE @]
    /\ deleting' = [deleting EXCEPT ![f] = "no"]
    /\ UNCHANGED <<age, signed, upload, objects, sweep, asked, late>>

\* sweepOrphans: ORDER BY id LIMIT 200.
SweepBegins ==
    /\ sweep = NotNow /\ OldRows # {}
    /\ sweep' = [left |-> { f \in OldRows : Cardinality({ g \in OldRows : g < f }) < SweepBatch },
                 missing |-> {}]
    /\ UNCHANGED <<files, age, signed, upload, objects, deleting, fileFaults, asked, late>>

NextUp(f) == f \in sweep.left /\ \A g \in sweep.left : f <= g

\* Mutant: any error of StatObject counts as missing.
StatObject_AnyError(f, works) ==
    /\ sweep.missing = {} /\ NextUp(f)
    /\ IF works THEN Works ELSE FileFault
    /\ sweep' = [left |-> sweep.left \ {f},
                 missing |-> IF works /\ f \in objects THEN {} ELSE {f}]
    /\ UNCHANGED <<files, age, signed, upload, objects, deleting, asked, late>>

\* Present, or an error that is not "no such key": the row is passed over.
StatObject(f, works) ==
    /\ sweep.missing = {} /\ NextUp(f)
    /\ IF works THEN Works ELSE FileFault
    /\ sweep' = [left |-> sweep.left \ {f},
                 missing |-> IF works /\ f \notin objects THEN {f} ELSE {}]
    /\ UNCHANGED <<files, age, signed, upload, objects, deleting, asked, late>>

\* Mutant: the row found missing is only counted.
SweepRow_Kept(works) ==
    /\ sweep.missing # {}
    /\ IF works THEN Works ELSE FileFault
    /\ sweep' = [sweep EXCEPT !.missing = {}]
    /\ UNCHANGED <<files, age, signed, upload, objects, deleting, asked, late>>

SweepRow(works) ==
    /\ sweep.missing # {}
    /\ IF works THEN Works ELSE FileFault
    /\ files' = [f \in File |-> IF works /\ f \in sweep.missing THEN "gone" ELSE files[f]]
    /\ sweep' = [sweep EXCEPT !.missing = {}]
    /\ UNCHANGED <<age, signed, upload, objects, deleting, asked, late>>

\* The process restarts: requests and the batch in hand are gone.
FileRestart ==
    /\ FileFault
    /\ deleting' = [f \in File |-> "no"]
    /\ sweep' = NotNow
    /\ UNCHANGED <<files, age, signed, upload, objects, asked, late>>

FileTick ==
    /\ \E f \in File : files[f] # "none" /\ age[f] < LastAge
    /\ age' = [f \in File |-> IF files[f] # "none" /\ age[f] < LastAge THEN age[f] + 1 ELSE age[f]]
    /\ UNCHANGED <<files, signed, upload, objects, deleting, sweep, fileFaults, asked, late>>

\* The sweeper's goroutine.
Sweep ==
    \/ SweepBegins
    \/ \E f \in File, works \in BOOLEAN : StatObject(f, works)
    \/ \E works \in BOOLEAN : SweepRow(works)

FilesNext ==
    \/ \E f \in File, works \in BOOLEAN :
        \/ HandleUploadURL(f, works)
        \/ UploadEnds(f, works)
        \/ RemoveObject(f, works) \/ DeleteRow(f, works)
    \/ \E f \in File : UploadBegins(f)
    \/ Sweep \/ FileRestart \/ FileTick

\* The clock and the sweeper go on; faults end.  Uploads and owners promise nothing.
FilesSpec ==
    FilesInit /\ [][FilesNext]_fileVars /\ WF_fileVars(FileTick) /\ WF_fileVars(Sweep)

-----------------------------------------------------------------------------
\* An object loses its row by its owner's DELETE, or because its upload ended
\* after the sweeper had every right to think it abandoned (sweeper.go:57-62):
\* a file that was there in time is never swept, whatever fails.
SweptOnlyAbandoned == \A f \in objects : files[f] = "gone" => f \in asked \cup late

\* A row without an object or an upload is swept in the end, unless as many
\* older rows as the sweeper reads sit before it (sweeper.go:37).
OrphanSwept ==
    \A f \in File :
        (files[f] = "row" /\ f \notin objects /\ upload[f] # "running")
            ~> \/ files[f] = "gone" \/ f \in objects \/ upload[f] = "running"
               \/ Cardinality({ g \in OldRows : g < f }) >= SweepBatch
=============================================================================
