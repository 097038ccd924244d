----------------------------- MODULE RepoReports -----------------------------
(***************************************************************************)
(* svc-gitpulse, the digests of one repository.  A sync stores what commits *)
(* it finds pushed, has the AI match them, and then writes a digest if the  *)
(* last is older than its span and the span has commits in the table;       *)
(* "analyze" writes one at once and without asking.  A digest counts the    *)
(* rows of the span before it was decided on, and counts as made when it is *)
(* stored, after the AI has answered.  Time is in hours, say.               *)
(***************************************************************************)
EXTENDS Naturals, FiniteSets

CONSTANTS
    Span,               \* 24 hours or 7 days
    PollGap,            \* longest time from the end of a sync to the next that works
    MatchTime,          \* longest time from its listing to its digest
    AnswerTime,         \* longest time the AI takes over a digest
    Analyst,            \* requests to analyze served at a time
    ReportsMaxNow,      \* bound: the clock
    MaxCommits,         \* bound: commits
    MaxAnalyzes,        \* bound: requests to analyze
    MaxReportFaults     \* bound: statements that fail

ASSUME ReportTimes == Span \in Nat /\ PollGap \in Nat /\ MatchTime \in Nat /\ AnswerTime \in Nat

VARIABLES
    reportsNow,
    committed,     \* dates of the commits that are not in the table
    rows,          \* commits in the table: [date, at]: since when
    analyses,      \* digests: [start, end, of, made]; of: dates of the commits it counts
    listed,        \* when the sync under way found its commits, or 0
    looked,        \* when the last sync came to its digest
    writing,       \* writing[w]: the report a caller of runReport is at, or NoReport
    analyzes, reportFaults,
    failed         \* kept for the properties: the timer's reports that were not stored

reportVars == <<reportsNow, committed, rows, analyses, listed, looked, writing, analyzes, reportFaults, failed>>

NoReport == [end |-> 0, start |-> 0, of |-> {}]
Writer   == Analyst \cup {"timer"}

ReportsInit ==
    /\ reportsNow = 1 /\ committed = {} /\ rows = {} /\ analyses = {} /\ listed = 0 /\ looked = 1
    /\ writing = [w \in Writer |-> NoReport]
    /\ analyzes = 0 /\ reportFaults = 0 /\ failed = {}

ReportFault == reportFaults < MaxReportFaults /\ reportFaults' = reportFaults + 1
Within(x, report) == report.start < x /\ x <= report.end

\* Mutant: the span is an hour short.
StartOf_Short(end) == IF end > Span THEN end - Span + 1 ELSE 0
StartOf(end) == IF end > Span THEN end - Span ELSE 0

\* collectStats: what is in the table of the span.
Counted(start, end) == { c.date : c \in { d \in rows : start < d.date /\ d.date <= end } }
Report(end) == [start |-> StartOf(end), end |-> end, of |-> Counted(StartOf(end), end)]
Due == \A a \in analyses : reportsNow - a.made >= Span

CommitNow ==
    /\ reportsNow \notin committed /\ (\A c \in rows : c.date # reportsNow)
    /\ Cardinality(committed) + Cardinality(rows) < MaxCommits
    /\ committed' = committed \cup {reportsNow}
    /\ UNCHANGED <<reportsNow, rows, analyses, listed, looked, writing, analyzes, reportFaults, failed>>

\* syncRepo, by the timer or by hand, under the lock of the repository: the commits
\* that were pushed, however old, are stored; then the AI matches them.
Sync(pushed) ==
    /\ listed = 0 /\ writing["timer"] = NoReport
    /\ rows' = rows \cup { [date |-> x, at |-> reportsNow] : x \in pushed }
    /\ committed' = committed \ pushed
    /\ listed' = reportsNow
    /\ UNCHANGED <<reportsNow, analyses, looked, writing, analyzes, reportFaults, failed>>

\* maybeAnalyze, runIfDue.  The errors of both queries are ignored: without the
\* last report it is due, without the count it is not.
RunIfDue ==
    /\ listed # 0
    /\ \/ /\ UNCHANGED reportFaults
          /\ writing' = IF Due /\ \E c \in rows : c.date > StartOf(reportsNow)
                        THEN [writing EXCEPT !["timer"] = Report(reportsNow)] ELSE writing
          /\ UNCHANGED failed
       \/ /\ ReportFault
          /\ \/ writing' = [writing EXCEPT !["timer"] = Report(reportsNow)] /\ UNCHANGED failed
             \/ failed' = failed \cup {Report(reportsNow)} /\ UNCHANGED writing
    /\ listed' = 0 /\ looked' = reportsNow
    /\ UNCHANGED <<reportsNow, committed, rows, analyses, analyzes>>

\* analyzeRepoHandler.
Analyze(w) ==
    /\ w # "timer" /\ writing[w] = NoReport
    /\ analyzes < MaxAnalyzes /\ analyzes' = analyzes + 1
    /\ writing' = [writing EXCEPT ![w] = Report(reportsNow)]
    /\ UNCHANGED <<reportsNow, committed, rows, analyses, listed, looked, reportFaults, failed>>

\* runReport after the AI: a summary by rules if it gave none.
StoreReport(w) ==
    /\ writing[w] # NoReport
    /\ \/ /\ analyses' = analyses \cup { [start |-> writing[w].start, end |-> writing[w].end,
                                          of |-> writing[w].of, made |-> reportsNow] }
          /\ UNCHANGED <<reportFaults, failed>>
       \/ /\ ReportFault /\ UNCHANGED analyses
          /\ failed' = IF w = "timer" THEN failed \cup {writing[w]} ELSE failed
    /\ writing' = [writing EXCEPT ![w] = NoReport]
    /\ UNCHANGED <<reportsNow, committed, rows, listed, looked, analyzes>>

\* A sync comes in time, but not while one is under way or its digest is written;
\* the AI answers in time.
HourGoes ==
    /\ reportsNow < ReportsMaxNow
    /\ \A w \in Writer : writing[w] # NoReport => reportsNow < writing[w].end + AnswerTime
    /\ listed # 0 => reportsNow < listed + MatchTime
    /\ reportsNow < looked + PollGap \/ listed # 0 \/ writing["timer"] # NoReport
    /\ reportsNow' = reportsNow + 1
    /\ UNCHANGED <<committed, rows, analyses, listed, looked, writing, analyzes, reportFaults, failed>>

ReportsNext ==
    \/ CommitNow \/ RunIfDue \/ HourGoes
    \/ \E pushed \in SUBSET committed : Sync(pushed)
    \/ \E w \in Writer : Analyze(w) \/ StoreReport(w)

-----------------------------------------------------------------------------
InSomeReport(x) ==
    \/ \E a \in analyses : x \in a.of
    \/ \E w \in Writer : writing[w] # NoReport /\ x \in writing[w].of

\* Pushed late: stored when a report over its date had been decided on, or when its
\* date was about to fall out of the span.
StoredLate(c) ==
    \/ c.at + MatchTime >= c.date + Span
    \/ \E r \in analyses \cup failed \cup {writing["timer"]} : Within(c.date, r) /\ r.end <= c.at

\* A commit of the table that is a span old and that no digest counts was
\* stored late; or it was made while a digest was being written or until the next
\* sync came to its digest; or a digest with it failed.  The span starts anew at the
\* next look and not where the last digest ended (analyzer.go:141-145), and a digest
\* counts what the sync had stored when it was decided on (analyzer.go:177-180).
LostOnlyInGaps ==
    \A c \in rows : reportsNow - c.date >= Span /\ ~InSomeReport(c.date) =>
        \/ StoredLate(c)
        \/ \E a \in analyses : a.end < c.date /\ c.date < a.made + PollGap + MatchTime
        \/ \E r \in failed : r.start < c.date /\ c.date <= r.start + AnswerTime + PollGap + MatchTime
=============================================================================
