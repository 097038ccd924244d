----------------------------- MODULE IssueMatches -----------------------------
(***************************************************************************)
(* svc-gitpulse, the issues of a repository and the commits thought to fix *)
(* them: the sync links a commit to the issues its message names, then     *)
(* asks the AI about all open ones, and people confirm, reject, close and  *)
(* reopen meanwhile.  Every statement commits on its own.                  *)
(***************************************************************************)
EXTENDS Naturals, FiniteSets

CONSTANTS
    Issue, Fix,        \* issues and commits
    Person,            \* requests served at a time
    MaxAnswers,        \* bound: matches in an answer of the AI
    MaxMatchFaults,    \* bound: statements that fail, crashes
    MaxDeeds           \* bound: requests of people

VARIABLES
    issue,     \* issue[i]: its status, or "none"
    match,     \* match[i][c]: status of the row of issue_commits, or "none"
    fetched,   \* commits of the table
    linker,    \* where the sync is in linkExplicitRefs or matchIssuesAI
    deed,      \* deed[p]: second statement a request has still to execute
    matchFaults, deeds,
    resurrected,  \* kept for the properties: issues marked for a match that was
                  \* rejected or not written, or left marked by a failed UPDATE,
    undoneDeeds,       \* verified issues whose confirmed match was rejected,
    unverified    \* issues closed, reopened or not updated after a confirmation

matchVars == <<issue, match, fetched, linker, deed, matchFaults, deeds, resurrected, undoneDeeds, unverified>>
matchSeen == <<resurrected, undoneDeeds, unverified>>
personal  == <<deed, deeds>>

Resting == [at |-> "rest"]
MatchesInit ==
    /\ issue = [i \in Issue |-> "none"]
    /\ match = [i \in Issue |-> [c \in Fix |-> "none"]]
    /\ fetched = {} /\ linker = Resting
    /\ deed = [p \in Person |-> Resting]
    /\ matchFaults = 0 /\ deeds = 0
    /\ resurrected = {} /\ undoneDeeds = {} /\ unverified = {}

MatchFault == matchFaults < MaxMatchFaults /\ matchFaults' = matchFaults + 1
Deed(p)    == deed[p] = Resting /\ deeds < MaxDeeds /\ deeds' = deeds + 1
Live(i)    == \E c \in Fix : match[i][c] \in {"pending", "confirmed"}
Awaiting(i) == issue[i] \in {"open", "ai_matched"}

-----------------------------------------------------------------------------
\* The sync.

\* A commit is stored; todo: what its message refers to.
Fetch(c, refs) ==
    /\ linker.at \in {"rest", "linked"} /\ c \notin fetched
    /\ fetched' = fetched \cup {c}
    /\ linker' = [at |-> "link", by |-> "message_ref", todo |-> refs \X {c}]
    /\ UNCHANGED <<issue, match, personal, matchFaults, matchSeen>>

\* linkExplicitRefs asks whether the issue is still to be fixed; an answer of
\* the AI is written whatever became of its issue.
Take(pair) ==
    /\ linker.at = "link" /\ pair \in linker.todo
    /\ LET wanted == linker.by = "ai_match" \/ Awaiting(pair[1])
       IN  linker' = [at |-> IF wanted THEN "insert" ELSE "link", by |-> linker.by,
                      todo |-> linker.todo \ {pair}, pair |-> pair]
    /\ UNCHANGED <<issue, match, fetched, personal, matchFaults, matchSeen>>

\* INSERT .. ON CONFLICT DO NOTHING, whose error is ignored.
InsertMatch ==
    /\ linker.at = "insert"
    /\ LET i == linker.pair[1]  c == linker.pair[2]
       IN  \/ match' = [match EXCEPT ![i][c] = IF @ = "none" THEN "pending" ELSE @] /\ UNCHANGED matchFaults
           \/ MatchFault /\ UNCHANGED match
    /\ linker' = [linker EXCEPT !.at = "mark"]
    /\ UNCHANGED <<issue, fetched, personal, matchSeen>>

\* Mutant: any issue is marked.
Marks_Any(i) == issue[i] # "none"
Marks(i) == issue[i] = "open"

\* UPDATE issues SET status='ai_matched', whose error is ignored.
MarkIssue ==
    /\ linker.at = "mark"
    /\ LET i == linker.pair[1]  c == linker.pair[2]
       IN  \/ /\ issue' = IF Marks(i) THEN [issue EXCEPT ![i] = "ai_matched"] ELSE issue
              /\ resurrected' = IF Marks(i) /\ match[i][c] \in {"none", "rejected"}
                                THEN resurrected \cup {i} ELSE resurrected
              /\ UNCHANGED matchFaults
           \/ MatchFault /\ UNCHANGED <<issue, resurrected>>
    /\ linker' = [at |-> "link", by |-> linker.by, todo |-> linker.todo]
    /\ UNCHANGED <<match, fetched, personal, undoneDeeds, unverified>>

\* The sync is done with its commits: matchIssuesAI reads the issues and asks if
\* there are any, unless the AI is off or the commits are more than 50.
Ask ==
    /\ linker.at = "link" /\ linker.todo = {}
    /\ \/ linker' = Resting
       \/ linker.by = "message_ref" /\ (\E i \in Issue : Awaiting(i)) /\ linker' = [at |-> "asked"]
    /\ UNCHANGED <<issue, match, fetched, personal, matchFaults, matchSeen>>

MoreCommits ==
    /\ linker.at = "link" /\ linker.todo = {} /\ linker.by = "message_ref"
    /\ linker' = [at |-> "linked"]
    /\ UNCHANGED <<issue, match, fetched, personal, matchFaults, matchSeen>>

\* The answer, minutes later, names what it likes; one that is no JSON is dropped.
AiAnswers(S) ==
    /\ linker.at = "asked" /\ Cardinality(S) <= MaxAnswers
    /\ linker' = [at |-> "link", by |-> "ai_match", todo |-> { pair \in S : issue[pair[1]] # "none" }]
    /\ UNCHANGED <<issue, match, fetched, personal, matchFaults, matchSeen>>

-----------------------------------------------------------------------------
\* People.

CreateIssue(i) ==
    /\ issue[i] = "none"
    /\ issue' = [issue EXCEPT ![i] = "open"]
    /\ UNCHANGED <<match, fetched, linker, personal, matchFaults, matchSeen>>

\* confirmMatchHandler: the match, whatever it was; then its issue, whatever it is.
Confirm(p, i, c) ==
    /\ match[i][c] # "none" /\ Deed(p)
    /\ match' = [match EXCEPT ![i][c] = "confirmed"]
    /\ deed' = [deed EXCEPT ![p] = [at |-> "verify", i |-> i]]
    /\ UNCHANGED <<issue, fetched, linker, matchFaults, matchSeen>>

Verify(p) ==
    /\ deed[p].at = "verify"
    /\ LET i == deed[p].i
       IN  /\ issue' = [issue EXCEPT ![i] = "verified"]
           /\ unverified' = unverified \ {i}
           /\ undoneDeeds' = IF \E c \in Fix : match[i][c] = "confirmed" THEN undoneDeeds ELSE undoneDeeds \cup {i}
    /\ deed' = [deed EXCEPT ![p] = Resting]
    /\ UNCHANGED <<match, fetched, linker, deeds, matchFaults, resurrected>>

\* rejectMatchHandler: the match; then its issue is open again if no live match
\* is left.
Reject(p, i, c) ==
    /\ match[i][c] # "none" /\ Deed(p)
    /\ match' = [match EXCEPT ![i][c] = "rejected"]
    /\ deed' = [deed EXCEPT ![p] = [at |-> "reopen", i |-> i]]
    /\ undoneDeeds' = IF match[i][c] = "confirmed" THEN undoneDeeds \cup {i} ELSE undoneDeeds
    /\ UNCHANGED <<issue, fetched, linker, matchFaults, resurrected, unverified>>

Reopens(i) == issue[i] = "ai_matched" /\ ~Live(i)

Reopen(p) ==
    /\ deed[p].at = "reopen"
    /\ LET i == deed[p].i IN issue' = IF Reopens(i) THEN [issue EXCEPT ![i] = "open"] ELSE issue
    /\ deed' = [deed EXCEPT ![p] = Resting]
    /\ UNCHANGED <<match, fetched, linker, deeds, matchFaults, matchSeen>>

\* The second statement fails: the first stays.
SecondFails(p) ==
    /\ deed[p] # Resting /\ MatchFault
    /\ IF deed[p].at = "verify" THEN unverified' = unverified \cup {deed[p].i} /\ UNCHANGED resurrected
       ELSE resurrected' = resurrected \cup {deed[p].i} /\ UNCHANGED unverified
    /\ deed' = [deed EXCEPT ![p] = Resting]
    /\ UNCHANGED <<issue, match, fetched, linker, deeds, undoneDeeds>>

\* patchIssueHandler: close or reopen, from any status.
PatchIssue(p, i, status) ==
    /\ issue[i] # "none" /\ Deed(p)
    /\ issue' = [issue EXCEPT ![i] = status]
    /\ unverified' = unverified \cup {i}
    /\ UNCHANGED <<match, fetched, linker, deed, matchFaults, resurrected, undoneDeeds>>

\* The process dies; what it had not linked yet is not linked later.
MatchCrash ==
    /\ linker # Resting \/ \E p \in Person : deed[p] # Resting
    /\ MatchFault
    /\ linker' = Resting /\ deed' = [p \in Person |-> Resting]
    /\ resurrected' = resurrected \cup { i \in Issue : \E p \in Person : deed[p] = [at |-> "reopen", i |-> i] }
    /\ unverified' = unverified \cup { i \in Issue : \E p \in Person : deed[p] = [at |-> "verify", i |-> i] }
    /\ UNCHANGED <<issue, match, fetched, deeds, undoneDeeds>>

MatchesNext ==
    \/ \E c \in Fix, refs \in SUBSET { i \in Issue : issue[i] # "none" } : Fetch(c, refs)
    \/ \E pair \in Issue \X Fix : Take(pair)
    \/ InsertMatch \/ MarkIssue \/ Ask \/ MoreCommits
    \/ \E S \in SUBSET (Issue \X fetched) : AiAnswers(S)
    \/ \E i \in Issue : CreateIssue(i)
    \/ \E p \in Person, i \in Issue :
        \/ \E c \in Fix : Confirm(p, i, c) \/ Reject(p, i, c)
        \/ \E status \in {"open", "closed"} : PatchIssue(p, i, status)
    \/ \E p \in Person : Verify(p) \/ Reopen(p) \/ SecondFails(p)
    \/ MatchCrash

-----------------------------------------------------------------------------
\* The status of an issue says what its matches say, though each is written by a
\* statement of its own: one shown as matched has a match nobody rejected, a
\* verified one a confirmed match, and a confirmed match a verified issue.  The
\* exceptions are the sync marking an issue for a match rejected meanwhile
\* (analyzer.go:124-127), a second statement that did not run (issues.go:175-182,
\* 200-207), and people who change their minds.
MatchesTold ==
    \A i \in Issue :
        /\ issue[i] = "ai_matched" =>
             Live(i) \/ i \in resurrected \/ \E p \in Person : deed[p] = [at |-> "reopen", i |-> i]
        /\ issue[i] = "verified" => (\E c \in Fix : match[i][c] = "confirmed") \/ i \in undoneDeeds
        /\ (\E c \in Fix : match[i][c] = "confirmed") =>
             issue[i] = "verified" \/ i \in unverified \/ \E p \in Person : deed[p] = [at |-> "verify", i |-> i]
=============================================================================
