------------------------------- MODULE RepoSync -------------------------------
(***************************************************************************)
(* svc-gitpulse, one repository: the timer and people who press "poll"     *)
(* fetch the commits of the branch it tracks, newest first and page by     *)
(* page, from a little before the newest commit that is stored.  Switching *)
(* the branch clears that watermark.  One process: repoLocks is local.     *)
(* The number of a commit is its date.                                     *)
(***************************************************************************)
EXTENDS Naturals, FiniteSets

CONSTANTS
    Branch, DefaultBranch,
    Commit,           \* 1..n
    Caller,           \* "timer" and requests to poll
    PageSize,         \* 100
    BackfillPages,    \* pages of a first fetch: 2
    DeltaPages,       \* pages of a later one: 5
    Overlap,          \* since is the watermark less this: 2 minutes
    MaxGitFaults,     \* bound: failed calls and statements, crashes
    MaxRepoEdits      \* bound: requests that change the repository

ASSUME SyncAssumption ==
    /\ Commit \subseteq Nat \ {0} /\ IsFiniteSet(Commit)
    /\ DefaultBranch \in Branch /\ "" \notin Branch
    /\ PageSize \in Nat \ {0} /\ BackfillPages \in Nat \ {0} /\ DeltaPages \in Nat \ {0}
    /\ Overlap \in Nat

VARIABLES
    repo,      \* the row of repos; Gone when deleted
    remote,    \* remote[b]: commits of a branch on GitHub
    commits,   \* stored commits
    sync,      \* sync[c]: where a call of syncRepo is
    gitFaults, repoEdits,
    excused,   \* kept for the properties: commits that may stay unfetched,
    fresh      \* and that no sync of the branch switched to has finished

syncVars == <<repo, remote, commits, sync, gitFaults, repoEdits, excused, fresh>>
syncSeen == <<excused, fresh>>

Gone == [at |-> "gone"]
IdleSync == [at |-> "idle"]
NewRepo(b) == [at |-> "there", branch |-> b, default |-> "", mark |-> 0, enabled |-> TRUE]

SyncInit ==
    /\ \E b \in Branch \cup {""} : repo = NewRepo(b)
    /\ remote = [b \in Branch |-> {}] /\ commits = {} /\ excused = {} /\ fresh = FALSE
    /\ sync = [c \in Caller |-> IdleSync]
    /\ gitFaults = 0 /\ repoEdits = 0

Newest(S) == CHOOSE x \in S \cup {0} : \A y \in S : y <= x
GitFault == gitFaults < MaxGitFaults /\ gitFaults' = gitFaults + 1
RepoEdit == repoEdits < MaxRepoEdits /\ repoEdits' = repoEdits + 1
PushedTo   == UNION { remote[b] : b \in Branch }
Effective(r) == IF r.branch # "" THEN r.branch ELSE IF r.default # "" THEN r.default ELSE DefaultBranch

\* A commit is pushed: late, if one newer by more than the overlap was before it.
Push(b, x) ==
    /\ x \notin PushedTo
    /\ remote' = [remote EXCEPT ![b] = @ \cup {x}]
    /\ excused' = IF \E y \in PushedTo : x + Overlap < y THEN excused \cup {x} ELSE excused
    /\ UNCHANGED <<repo, commits, sync, gitFaults, repoEdits, fresh>>

\* loadRepos of pollAll and getRepo of pollRepoHandler: the row is read before
\* the lock is taken.
Load(c) ==
    /\ sync[c] = IdleSync /\ repo # Gone
    /\ c = "timer" => repo.enabled
    /\ sync' = [sync EXCEPT ![c] = [at |-> "loaded", repo |-> repo]]
    /\ UNCHANGED <<repo, remote, commits, gitFaults, repoEdits, syncSeen>>

SyncLocked == \E c \in Caller : sync[c].at \in {"listing", "page"}

\* Mutant: no overlap.
Since_Mark(r) == r.mark
Since(r) == IF r.mark > Overlap THEN r.mark - Overlap ELSE 0

\* syncRepo up to the first page; an unknown default branch is asked for, whether or
\* not it is the one to track, and stored; the error of that UPDATE is ignored.
Begin(c) ==
    /\ sync[c].at = "loaded" /\ ~SyncLocked
    /\ LET r == sync[c].repo
       IN  /\ sync' = [sync EXCEPT ![c] = [at |-> "listing", branch |-> Effective(r), since |-> Since(r), page |-> 1,
                                           pages |-> IF r.mark = 0 THEN BackfillPages ELSE DeltaPages]]
           /\ \/ /\ repo' = IF r.default = "" THEN [repo EXCEPT !.default = DefaultBranch] ELSE repo
                 /\ UNCHANGED gitFaults
              \/ r.default = "" /\ GitFault /\ UNCHANGED repo
    /\ UNCHANGED <<remote, commits, repoEdits, syncSeen>>

\* repoInfo or listCommits fails: syncRepo returns, the watermark stays.
CallFails(c) ==
    /\ \/ sync[c].at = "loaded" /\ sync[c].repo.default = "" /\ ~SyncLocked
       \/ sync[c].at = "listing"
    /\ GitFault
    /\ sync' = [sync EXCEPT ![c] = IdleSync]
    /\ UNCHANGED <<repo, remote, commits, repoEdits, syncSeen>>

Wanted(s)     == { x \in remote[s.branch] : x >= s.since }
Rank(x, S)    == Cardinality({ y \in S : y > x })
PageOf(S, p)  == { x \in S : Rank(x, S) >= (p - 1) * PageSize /\ Rank(x, S) < p * PageSize }

ListPage(c) ==
    /\ sync[c].at = "listing"
    /\ LET list == PageOf(Wanted(sync[c]), sync[c].page)
       IN  sync' = [sync EXCEPT ![c] = [at |-> "page", branch |-> @.branch, since |-> @.since, page |-> @.page,
                                        pages |-> @.pages, left |-> list, full |-> Cardinality(list) = PageSize]]
    /\ UNCHANGED <<repo, remote, commits, gitFaults, repoEdits, syncSeen>>

\* One commit of the page: known, stored, or skipped when its details or its
\* INSERT fail.
Item(c) ==
    /\ sync[c].at = "page" /\ sync[c].left # {}
    /\ LET x == Newest(sync[c].left)
       IN  /\ sync' = [sync EXCEPT ![c].left = @ \ {x}]
           /\ \/ commits' = commits \cup {x} /\ UNCHANGED <<gitFaults, excused>>
              \/ x \notin commits /\ GitFault /\ excused' = excused \cup {x} /\ UNCHANGED commits
    /\ UNCHANGED <<repo, remote, repoEdits, fresh>>

NextPage(c) ==
    /\ sync[c].at = "page" /\ sync[c].left = {} /\ sync[c].full /\ sync[c].page < sync[c].pages
    /\ sync' = [sync EXCEPT ![c] = [at |-> "listing", branch |-> @.branch, since |-> @.since,
                                    page |-> @.page + 1, pages |-> @.pages]]
    /\ UNCHANGED <<repo, remote, commits, gitFaults, repoEdits, syncSeen>>

Older(m) == { x \in Commit : x + Overlap < m }

\* The watermark becomes the newest commit of the table, whichever branch it is
\* of; the error of the UPDATE is ignored.
Finish(c) ==
    /\ sync[c].at = "page" /\ sync[c].left = {} /\ ~(sync[c].full /\ sync[c].page < sync[c].pages)
    /\ \/ repo' = [repo EXCEPT !.mark = Newest(commits)] /\ UNCHANGED gitFaults
       \/ UNCHANGED repo /\ GitFault
    /\ LET cut == IF sync[c].full
                  THEN { x \in Wanted(sync[c]) : Rank(x, Wanted(sync[c])) >= sync[c].pages * PageSize }
                  ELSE {}
           crossed == IF sync[c].branch # Effective(repo) THEN Older(Newest(commits)) \ commits ELSE {}
       IN  excused' = excused \cup cut \cup crossed
    /\ fresh' = (fresh /\ sync[c].branch # Effective(repo))
    /\ sync' = [sync EXCEPT ![c] = IdleSync]
    /\ UNCHANGED <<remote, commits, repoEdits>>

\* PATCH /repos/:id.
SwitchBranch(b) ==
    /\ repo # Gone /\ RepoEdit
    /\ repo' = [repo EXCEPT !.branch = b, !.mark = IF b = repo.branch THEN @ ELSE 0]
    /\ fresh' = (fresh \/ b # repo.branch)
    /\ UNCHANGED <<remote, commits, sync, gitFaults, excused>>

TogglePolling ==
    /\ repo # Gone /\ RepoEdit
    /\ repo' = [repo EXCEPT !.enabled = ~@]
    /\ UNCHANGED <<remote, commits, sync, gitFaults, syncSeen>>

\* DELETE cascades, and what a sync of the deleted id still does has no effect;
\* POST makes a row of a new id.
DeleteRepo ==
    /\ repo # Gone /\ RepoEdit
    /\ repo' = Gone /\ commits' = {} /\ sync' = [c \in Caller |-> IdleSync]
    /\ fresh' = FALSE
    /\ UNCHANGED <<remote, gitFaults, excused>>

CreateRepo(b) ==
    /\ repo = Gone /\ RepoEdit
    /\ repo' = NewRepo(b)
    /\ UNCHANGED <<remote, commits, sync, gitFaults, syncSeen>>

GitCrash ==
    /\ \E c \in Caller : sync[c] # IdleSync
    /\ GitFault
    /\ sync' = [c \in Caller |-> IdleSync]
    /\ UNCHANGED <<repo, remote, commits, repoEdits, syncSeen>>

SyncNext ==
    \/ \E b \in Branch, x \in Commit : Push(b, x)
    \/ \E c \in Caller : Load(c) \/ Begin(c) \/ CallFails(c) \/ ListPage(c) \/ Item(c) \/ NextPage(c) \/ Finish(c)
    \/ \E b \in Branch \cup {""} : SwitchBranch(b) \/ CreateRepo(b)
    \/ TogglePolling \/ DeleteRepo \/ GitCrash

SyncSpec == SyncInit /\ [][SyncNext]_syncVars

-----------------------------------------------------------------------------
\* A commit of the tracked branch that no later sync will ask for is stored,
\* unless its details could not be read (poller.go:104), the pages ran out
\* (:82-87), it was pushed late by more than the overlap (:83), or a sync of the
\* branch tracked before set the watermark (:141): paging from the newest commit
\* down, failed calls and crashes between pages lose nothing.
NothingSkipped ==
    repo # Gone =>
        \A x \in remote[Effective(repo)] : x < Since(repo) => x \in commits \cup excused

\* handlers.go:93 says that a switch clears the watermark and that the next poll
\* fills in the new branch: until a sync of the new branch finished, there is no
\* watermark.
SwitchBackfills == fresh => repo.mark = 0
=============================================================================
