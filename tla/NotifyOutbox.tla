---------------------------- MODULE NotifyOutbox ----------------------------
(***************************************************************************)
(* svc-notify: the table notifications is an outbox for e-mails and        *)
(* webhooks, emptied by one delivery loop per process, and the inbox of    *)
(* the users.  A batch is one transaction: its rows stay locked, and the   *)
(* outcomes unseen, until the commit.  A webhook call ends in ten seconds; *)
(* smtp.SendMail has no deadline.  Time is in minutes.                     *)
(***************************************************************************)
EXTENDS Naturals, FiniteSets

CONSTANTS
    Notice,           \* ids of rows, in order
    Deliverer,        \* processes with a delivery loop
    NotifyBatch,      \* LIMIT 10
    NotifyAttempts,   \* maxAttempts
    MaxNotifyFaults   \* bound: answers lost, processes and transactions that die

ASSUME OutboxAssumption ==
    NotifyBatch \in Nat \ {0} /\ NotifyAttempts \in Nat \ {0} /\ MaxNotifyFaults \in Nat

VARIABLES
    notices,      \* notices[n]: the row as committed, or NoNotice
    loops,        \* loops[d]: the transaction of process d, or what it does instead
    arrived,      \* kept for the properties: how often n reached its recipient,
    calls,        \* and was sent to it,
    undone,       \* calls whose outcome was rolled back,
    notifyFaults

outboxVars == <<notices, loops, arrived, calls, undone, notifyFaults>>

NoNotice == [status |-> "none"]
IdleDeliverer     == [at |-> "idle"]

LockedNotices   == UNION { IF loops[d].at \in {"sending", "hanging"} THEN DOMAIN loops[d].batch ELSE {}
                    : d \in Deliverer }
Backoff(attempts)     == 2 ^ attempts
WaitLeft(attempts, t) == IF t < Backoff(attempts) THEN Backoff(attempts) - t ELSE 0
LongestWait           == Backoff(NotifyAttempts - 1)

-----------------------------------------------------------------------------
OutboxInit ==
    /\ notices = [n \in Notice |-> NoNotice]
    /\ loops = [d \in Deliverer |-> IdleDeliverer]
    /\ arrived = [n \in Notice |-> 0]
    /\ calls = [n \in Notice |-> 0]
    /\ undone = [n \in Notice |-> 0]
    /\ notifyFaults = 0

NotifyFault == notifyFaults < MaxNotifyFaults /\ notifyFaults' = notifyFaults + 1

\* handleSend: a webhook or a userId that does not pass leaves no row.
HandleSend(n, channel) ==
    /\ notices[n] = NoNotice
    /\ \A m \in Notice : m < n => notices[m] # NoNotice
    /\ notices' = [notices EXCEPT ![n] =
          [channel |-> channel, status |-> IF channel = "inbox" THEN "unread" ELSE "pending",
           attempts |-> 0, wait |-> 0]]
    /\ UNCHANGED <<loops, arrived, calls, undone, notifyFaults>>

HandleMarkRead(n) ==
    /\ notices[n].status \in {"unread", "read"}
    /\ notices' = [notices EXCEPT ![n].status = "read"]
    /\ UNCHANGED <<loops, arrived, calls, undone, notifyFaults>>

\* Mutant: the rows are taken without FOR UPDATE SKIP LOCKED.
DueNotices_Unlocked == { n \in Notice : notices[n].status = "pending" /\ notices[n].wait = 0 }

\* Mutant: next_attempt_at is not looked at again once an attempt has failed.
DueNotices_Once ==
    { n \in Notice \ LockedNotices : notices[n].status = "pending" /\ notices[n].attempts = 0 }

DueNotices == { n \in Notice \ LockedNotices : notices[n].status = "pending" /\ notices[n].wait = 0 }

\* SELECT .. ORDER BY id LIMIT 10 FOR UPDATE SKIP LOCKED: the first due rows.
PickBatch(d) ==
    /\ loops[d] = IdleDeliverer
    /\ \E S \in SUBSET DueNotices :
        /\ S # {} /\ Cardinality(S) <= NotifyBatch
        /\ \A n \in DueNotices \ S : Cardinality(S) = NotifyBatch /\ \A m \in S : m < n
        /\ loops' = [loops EXCEPT ![d] =
              [at |-> "sending", batch |-> [n \in S |-> notices[n]], left |-> S, open |-> 0]]
    /\ UNCHANGED <<notices, arrived, calls, undone, notifyFaults>>

\* The row written in the transaction; now() is the time the transaction began.
Outcome(row, ok, t) ==
    IF ok THEN [row EXCEPT !.status = "sent"]
    ELSE IF row.attempts + 1 >= NotifyAttempts
         THEN [row EXCEPT !.attempts = @ + 1, !.status = "failed"]
         ELSE [row EXCEPT !.attempts = @ + 1, !.wait = WaitLeft(row.attempts, t)]

\* sendEmail, sendWebhook: reaches = it arrived, ok = the loop hears that it did.
Deliver(d, reaches, ok) ==
    /\ loops[d].at = "sending"
    /\ ok => reaches
    /\ IF reaches /\ ~ok THEN NotifyFault ELSE UNCHANGED notifyFaults
    /\ \E n \in loops[d].left :
        /\ \A m \in loops[d].left : n <= m
        /\ loops' = [loops EXCEPT ![d].batch[n] = Outcome(@, ok, loops[d].open), ![d].left = @ \ {n}]
        /\ calls' = [calls EXCEPT ![n] = @ + 1]
        /\ arrived' = [arrived EXCEPT ![n] = IF reaches THEN @ + 1 ELSE @]
    /\ UNCHANGED <<notices, undone>>

\* The mail server accepts the connection and says no more.
MailHangs(d) ==
    /\ loops[d].at = "sending"
    /\ \E n \in loops[d].left :
        (\A m \in loops[d].left : n <= m) /\ loops[d].batch[n].channel = "email"
    /\ loops' = [loops EXCEPT ![d].at = "hanging"]
    /\ UNCHANGED <<notices, arrived, calls, undone, notifyFaults>>

\* It speaks again, or the connection is reset: the call goes on.
MailResumes(d) ==
    /\ loops[d].at = "hanging"
    /\ loops' = [loops EXCEPT ![d].at = "sending"]
    /\ UNCHANGED <<notices, arrived, calls, undone, notifyFaults>>

CommitBatch(d) ==
    /\ loops[d].at = "sending" /\ loops[d].left = {}
    /\ notices' = [n \in Notice |-> IF n \in DOMAIN loops[d].batch THEN loops[d].batch[n] ELSE notices[n]]
    /\ loops' = [loops EXCEPT ![d] = IdleDeliverer]
    /\ UNCHANGED <<arrived, calls, undone, notifyFaults>>

\* The process dies, is told to stop (wcancel), or a statement fails: rolled back.
RollBack(d) ==
    /\ loops[d].at \in {"sending", "hanging"}
    /\ NotifyFault
    /\ undone' = [n \in Notice |->
          undone[n] + IF n \in DOMAIN loops[d].batch \ loops[d].left THEN 1 ELSE 0]
    /\ loops' = [loops EXCEPT ![d] = IdleDeliverer]
    /\ UNCHANGED <<notices, arrived, calls>>

MinutePasses ==
    /\ \E n \in Notice : notices[n] # NoNotice /\ notices[n].status = "pending" /\ notices[n].wait > 0
    /\ notices' = [n \in Notice |->
          IF notices[n].status = "pending" /\ notices[n].wait > 0
          THEN [notices[n] EXCEPT !.wait = @ - 1] ELSE notices[n]]
    /\ loops' = [d \in Deliverer |->
          IF loops[d] = IdleDeliverer \/ loops[d].open = LongestWait THEN loops[d]
          ELSE [loops[d] EXCEPT !.open = @ + 1]]
    /\ UNCHANGED <<arrived, calls, undone, notifyFaults>>

\* deliverBatch, over and over, as far as it depends on itself.
DeliverBatch(d) ==
    PickBatch(d) \/ (\E reaches, ok \in BOOLEAN : Deliver(d, reaches, ok)) \/ CommitBatch(d)

OutboxNext ==
    \/ \E n \in Notice :
        \/ \E channel \in {"email", "webhook", "inbox"} : HandleSend(n, channel)
        \/ HandleMarkRead(n)
    \/ \E d \in Deliverer :
        \/ DeliverBatch(d) \/ RollBack(d)
        \/ MailHangs(d) \/ MailResumes(d)
    \/ MinutePasses

\* The loop goes on, the clock too.  Nothing says that a mail server must speak.
OutboxSpec ==
    /\ OutboxInit /\ [][OutboxNext]_outboxVars
    /\ WF_outboxVars(MinutePasses) /\ \A d \in Deliverer : WF_outboxVars(DeliverBatch(d))

-----------------------------------------------------------------------------
InProgress(n) == { d \in Deliverer : loops[d] # IdleDeliverer /\ n \in DOMAIN loops[d].batch \ loops[d].left }

\* Every call is in the row, in the one transaction that holds the row or was
\* rolled back (worker.go:77-88): a notice arrives again only by an answer lost
\* or an outcome undone, and is sent or given up with the calls the row shows.
CallsShown ==
    \A n \in Notice : notices[n] # NoNotice =>
        /\ Cardinality(InProgress(n)) <= 1
        /\ calls[n] = undone[n] + Cardinality(InProgress(n)) + notices[n].attempts
                      + (IF notices[n].status = "sent" THEN 1 ELSE 0)
        /\ notices[n].status = "sent" => arrived[n] > 0
        /\ notices[n].status = "failed" => notices[n].attempts = NotifyAttempts
        /\ arrived[n] <= 1 + notifyFaults

StuckInMail(n) ==
    \/ \A d \in Deliverer : loops[d].at = "hanging"
    \/ \E d \in Deliverer : loops[d].at = "hanging" /\ n \in DOMAIN loops[d].batch

\* A pending notice is sent or given up, unless SendMail hangs in the loop that
\* holds it or in every loop (worker.go:124): one mail server that says nothing
\* holds up the batch it is in, and with one replica all that is left.
OutboxDrains ==
    \A n \in Notice :
        (notices[n].status = "pending") ~> (notices[n].status \in {"sent", "failed"} \/ StuckInMail(n))
=============================================================================
