-------------------------- MODULE DeliveriesProofs --------------------------
(***************************************************************************)
(* NotifyOutbox and FileStore for any number of processes, rows and        *)
(* faults.  The books of the outbox balance because the row lock gives a   *)
(* notice to one transaction at a time; the sweeper is safe because what   *)
(* it has looked at is old, and stays old, whatever happens before it      *)
(* deletes the row.                                                        *)
(***************************************************************************)
EXTENDS NotifyOutbox, FileStore, FiniteSetTheorems, TLAPS

FileTypes ==
    /\ files \in [File -> {"none", "row", "gone"}]
    /\ age \in [File -> Nat]
    /\ objects \subseteq File
    /\ deleting \in [File -> {"no", "removed"}]
    /\ sweep \in [left : SUBSET File, missing : SUBSET File]

\* What the sweeper looks at is old, and what it found missing is missing still,
\* or came too late; what is gone without its owner was swept.
SweepsTheOld ==
    /\ \A f \in File : deleting[f] = "removed" => f \in asked
    /\ \A f \in sweep.left \cup sweep.missing : age[f] > SweepMinAge
    /\ \A f \in sweep.missing : f \in objects => f \in late
    /\ \A f \in File : files[f] = "gone" /\ f \notin asked => age[f] > SweepMinAge

SweepInv == FileTypes /\ SweepsTheOld /\ SweptOnlyAbandoned

-----------------------------------------------------------------------------
(***************************************************************************)
(* The sweeper of svc-file.                                                *)
(***************************************************************************)

\* There is nothing to sweep at the start.
LEMMA SweepStart == FilesInit => SweepInv
BY DEF FilesInit, SweepInv, FileTypes, SweepsTheOld, SweptOnlyAbandoned, NotNow

\* Browsers: a file only comes to an old row late.
LEMMA UploadsKeep ==
  ASSUME SweepInv, NEW f \in File, NEW works \in BOOLEAN,
         HandleUploadURL(f, works) \/ UploadBegins(f) \/ UploadEnds(f, works)
  PROVE  SweepInv'
<1> USE DEF SweepInv
<1>1. CASE HandleUploadURL(f, works)
  BY <1>1 DEF HandleUploadURL, FileTypes, SweepsTheOld, SweptOnlyAbandoned
<1>2. CASE UploadBegins(f)
  BY <1>2 DEF UploadBegins, FileTypes, SweepsTheOld, SweptOnlyAbandoned
<1>3. CASE UploadEnds(f, works)
  <2>1. /\ UNCHANGED <<files, age, deleting, sweep, asked>>
        /\ objects' \subseteq objects \cup {f} /\ late \subseteq late'
        /\ f \in objects' => f \in objects \/ (age[f] > SweepMinAge => f \in late')
    BY <1>3 DEF UploadEnds
  <2> QED
    BY <2>1 DEF FileTypes, SweepsTheOld, SweptOnlyAbandoned
<1> QED
  BY <1>1, <1>2, <1>3

\* Owners: what they delete they have asked for.
LEMMA DeletesKeep ==
  ASSUME SweepInv, NEW f \in File, NEW works \in BOOLEAN, RemoveObject(f, works) \/ DeleteRow(f, works)
  PROVE  SweepInv'
<1> USE DEF SweepInv
<1>1. CASE RemoveObject(f, works)
  BY <1>1 DEF RemoveObject, FileTypes, SweepsTheOld, SweptOnlyAbandoned
<1>2. CASE DeleteRow(f, works)
  BY <1>2 DEF DeleteRow, FileTypes, SweepsTheOld, SweptOnlyAbandoned
<1> QED
  BY <1>1, <1>2

\* The sweeper: between its look and its DELETE a file can only come late.
LEMMA SweeperKeeps == SweepInv /\ Sweep => SweepInv'
<1> SUFFICES ASSUME SweepInv, Sweep PROVE SweepInv'
  OBVIOUS
<1> USE DEF SweepInv
<1>1. CASE SweepBegins
  <2>1. /\ sweep'.left \subseteq OldRows /\ sweep'.missing = {}
        /\ sweep' \in [left : SUBSET File, missing : SUBSET File]
    BY <1>1 DEF SweepBegins, OldRows
  <2> QED
    BY <1>1, <2>1 DEF SweepBegins, OldRows, FileTypes, SweepsTheOld, SweptOnlyAbandoned
<1>2. ASSUME NEW f \in File, NEW works \in BOOLEAN, StatObject(f, works) PROVE SweepInv'
  <2>1. /\ sweep'.left \subseteq sweep.left /\ f \in sweep.left
        /\ sweep'.missing \subseteq {f} /\ (f \in sweep'.missing => f \notin objects)
        /\ sweep' \in [left : SUBSET File, missing : SUBSET File]
    BY <1>2 DEF StatObject, NextUp, FileTypes
  <2> QED
    BY <1>2, <2>1 DEF StatObject, FileTypes, SweepsTheOld, SweptOnlyAbandoned
<1>3. ASSUME NEW works \in BOOLEAN, SweepRow(works) PROVE SweepInv'
  <2>1. /\ sweep'.left = sweep.left /\ sweep'.missing = {}
        /\ sweep' \in [left : SUBSET File, missing : SUBSET File]
        /\ files' \in [File -> {"none", "row", "gone"}]
        /\ \A f \in File : files'[f] = "gone" => files[f] = "gone" \/ f \in sweep.missing
    BY <1>3 DEF SweepRow, FileTypes
  <2> QED
    BY <1>3, <2>1 DEF SweepRow, FileTypes, SweepsTheOld, SweptOnlyAbandoned
<1> QED
  BY <1>1, <1>2, <1>3 DEF Sweep

\* Time makes rows older, and a restart makes the sweeper forget.
LEMMA RestartKeeps ==
  ASSUME SweepInv, FileRestart \/ FileTick \/ UNCHANGED fileVars
  PROVE  SweepInv'
<1> USE DEF SweepInv
<1>1. CASE FileRestart
  BY <1>1 DEF FileRestart, NotNow, FileTypes, SweepsTheOld, SweptOnlyAbandoned
<1>2. CASE FileTick
  <2>1. age' \in [File -> Nat] /\ \A f \in File : age'[f] >= age[f]
    BY <1>2 DEF FileTick, FileTypes
  <2>2. \A f \in File : age[f] > SweepMinAge => age'[f] > SweepMinAge
    BY <2>1, FileAssumption DEF FileTypes
  <2> QED
    BY <1>2, <2>1, <2>2 DEF FileTick, FileTypes, SweepsTheOld, SweptOnlyAbandoned
<1>3. CASE UNCHANGED fileVars
  BY <1>3 DEF fileVars, FileTypes, SweepsTheOld, SweptOnlyAbandoned
<1> QED
  BY <1>1, <1>2, <1>3

\* Every step of svc-file keeps what the sweep may remove.
LEMMA SweepStep == SweepInv /\ [FilesNext]_fileVars => SweepInv'
BY UploadsKeep, DeletesKeep, SweeperKeeps, RestartKeeps DEF FilesNext

\* An object loses its row by its owner, or by coming after the sweeper had every
\* right to think it abandoned (sweeper.go:57-62).
THEOREM NothingInUseIsSwept == FilesSpec => []SweptOnlyAbandoned
<1>1. SweepInv => SweptOnlyAbandoned
  BY DEF SweepInv
<1> QED
  BY <1>1, SweepStart, SweepStep, PTL DEF FilesSpec

-----------------------------------------------------------------------------
(***************************************************************************)
(* The outbox of svc-notify.                                               *)
(***************************************************************************)

\* A row of the table; its wait only matters where it is compared with 0.
IsRow(r) ==
    /\ r = [channel |-> r.channel, status |-> r.status, attempts |-> r.attempts, wait |-> r.wait]
    /\ r.status \in {"unread", "read", "pending", "sent", "failed"}
    /\ r.attempts \in Nat

\* A transaction that holds a batch.
IsBatch(l) ==
    /\ l = [at |-> l.at, batch |-> l.batch, left |-> l.left, open |-> l.open]
    /\ l.at \in {"sending", "hanging"}
    /\ DOMAIN l.batch \subseteq Notice /\ l.left \subseteq DOMAIN l.batch

OutboxTypes ==
    /\ notices = [n \in Notice |-> notices[n]]
    /\ \A n \in Notice : notices[n] = NoNotice \/ IsRow(notices[n])
    /\ loops = [d \in Deliverer |-> loops[d]]
    /\ \A d \in Deliverer : loops[d] = IdleDeliverer \/ IsBatch(loops[d])
    /\ arrived \in [Notice -> Nat] /\ calls \in [Notice -> Nat] /\ undone \in [Notice -> Nat]
    /\ notifyFaults \in Nat

\* d's transaction holds the row lock of n.
Holds(d, n) == loops[d] # IdleDeliverer /\ n \in DOMAIN loops[d].batch

OneHolder == \A d, e \in Deliverer, n \in Notice : Holds(d, n) /\ Holds(e, n) => d = e

\* What a transaction has in hand is the row as committed, and what it has staged
\* is one call further.
StagedFromRow ==
    \A d \in Deliverer, n \in Notice : Holds(d, n) =>
        /\ notices[n] # NoNotice /\ notices[n].status = "pending" /\ notices[n].wait = 0
        /\ IsRow(loops[d].batch[n])
        /\ n \in loops[d].left => loops[d].batch[n] = notices[n]
        /\ n \notin loops[d].left =>
            \/ /\ loops[d].batch[n].status = "sent" /\ arrived[n] > 0
               /\ loops[d].batch[n].attempts = notices[n].attempts
            \/ /\ loops[d].batch[n].status \in {"pending", "failed"}
               /\ loops[d].batch[n].attempts = notices[n].attempts + 1
               /\ loops[d].batch[n].status = "pending" => notices[n].attempts + 1 < NotifyAttempts
               /\ loops[d].batch[n].status = "failed" => notices[n].attempts + 1 = NotifyAttempts

\* An outcome staged "sent" and not yet committed.
StagedSent(n) == \E d \in Deliverer : Holds(d, n) /\ n \notin loops[d].left /\ loops[d].batch[n].status = "sent"

\* The books of one notice.
Booked(n) ==
    IF notices[n] = NoNotice THEN calls[n] = 0 /\ undone[n] = 0 /\ arrived[n] = 0
    ELSE /\ calls[n] = undone[n] + (IF InProgress(n) = {} THEN 0 ELSE 1) + notices[n].attempts
                       + (IF notices[n].status = "sent" THEN 1 ELSE 0)
         /\ notices[n].status = "pending" => notices[n].attempts < NotifyAttempts
         /\ notices[n].status = "failed" => notices[n].attempts = NotifyAttempts
         /\ notices[n].status = "sent" => arrived[n] > 0
         /\ arrived[n] <= notifyFaults + (IF notices[n].status = "sent" \/ StagedSent(n) THEN 1 ELSE 0)

OutboxInv == OutboxTypes /\ OneHolder /\ StagedFromRow /\ \A n \in Notice : Booked(n)
\* The outbox is empty at the start.
LEMMA OutboxStart == OutboxInit => OutboxInv
<1> SUFFICES ASSUME OutboxInit PROVE OutboxInv
  OBVIOUS
<1>1. OutboxTypes
  BY DEF OutboxInit, OutboxTypes
<1>2. OneHolder /\ StagedFromRow
  BY DEF OutboxInit, OneHolder, StagedFromRow, Holds
<1>3. \A n \in Notice : Booked(n)
  BY DEF OutboxInit, Booked
<1> QED
  BY <1>1, <1>2, <1>3 DEF OutboxInv

\* Who holds a notice and has called for it is who holds it and has it done.
LEMMA InProgressIsHeld ==
  \A d \in Deliverer : \A n : d \in InProgress(n) <=> Holds(d, n) /\ n \notin loops[d].left
BY DEF InProgress, Holds

\* One delivery: its loop and its notice, and nothing else.
CalledFor(d, n, reaches, ok) ==
    /\ Holds(d, n) /\ n \in Notice
    /\ loops'[d] = [at |-> "sending",
                    batch |-> [loops[d].batch EXCEPT ![n] = Outcome(@, ok, loops[d].open)],
                    left |-> loops[d].left \ {n}, open |-> loops[d].open]
    /\ \A e \in Deliverer : e # d => loops'[e] = loops[e]
    /\ calls'[n] = calls[n] + 1
    /\ arrived'[n] = arrived[n] + (IF reaches THEN 1 ELSE 0)
    /\ \A m \in Notice : m # n => calls'[m] = calls[m] /\ arrived'[m] = arrived[m]
    /\ loops' = [e \in Deliverer |-> loops'[e]]
    /\ calls' \in [Notice -> Nat] /\ arrived' \in [Notice -> Nat]

\* A call is of one row of the batch its worker holds.
LEMMA DeliverShape ==
  ASSUME OutboxTypes, NEW d \in Deliverer, NEW reaches \in BOOLEAN, NEW ok \in BOOLEAN,
         Deliver(d, reaches, ok)
  PROVE  \E n \in loops[d].left : CalledFor(d, n, reaches, ok)
<1>1. IsBatch(loops[d]) /\ loops[d].at = "sending" /\ loops[d] # IdleDeliverer
  BY DEF Deliver, OutboxTypes, IdleDeliverer
<1>2. PICK n \in loops[d].left :
        /\ loops' = [loops EXCEPT ![d].batch[n] = Outcome(@, ok, loops[d].open), ![d].left = @ \ {n}]
        /\ calls' = [calls EXCEPT ![n] = @ + 1]
        /\ arrived' = [arrived EXCEPT ![n] = IF reaches THEN @ + 1 ELSE @]
  BY DEF Deliver
<1>3. Holds(d, n) /\ n \in Notice
  BY <1>1, <1>2 DEF Holds, IsBatch
<1>4. loops'[d] = [at |-> "sending",
                   batch |-> [loops[d].batch EXCEPT ![n] = Outcome(@, ok, loops[d].open)],
                   left |-> loops[d].left \ {n}, open |-> loops[d].open]
  BY <1>1, <1>2 DEF OutboxTypes, IsBatch
<1>5. loops' = [e \in Deliverer |-> loops'[e]] /\ \A e \in Deliverer : e # d => loops'[e] = loops[e]
  BY <1>2 DEF OutboxTypes
<1>6. /\ calls'[n] = calls[n] + 1
      /\ arrived'[n] = arrived[n] + (IF reaches THEN 1 ELSE 0)
      /\ \A m \in Notice : m # n => calls'[m] = calls[m] /\ arrived'[m] = arrived[m]
      /\ calls' \in [Notice -> Nat] /\ arrived' \in [Notice -> Nat]
  BY <1>2, <1>3 DEF OutboxTypes
<1> QED
  BY <1>3, <1>4, <1>5, <1>6 DEF CalledFor
\* What is staged for a row: sent, or one attempt more and its last or not.
LEMMA OutcomeOfRow ==
  ASSUME NEW r, IsRow(r), r.status = "pending", r.attempts < NotifyAttempts, NEW ok \in BOOLEAN, NEW t
  PROVE  /\ IsRow(Outcome(r, ok, t))
         /\ ok => Outcome(r, ok, t).status = "sent" /\ Outcome(r, ok, t).attempts = r.attempts
         /\ ~ok => /\ Outcome(r, ok, t).status \in {"pending", "failed"}
                   /\ Outcome(r, ok, t).attempts = r.attempts + 1
                   /\ Outcome(r, ok, t).status = "pending" => r.attempts + 1 < NotifyAttempts
                   /\ Outcome(r, ok, t).status = "failed" => r.attempts + 1 = NotifyAttempts
<1>1. r.attempts \in Nat /\ NotifyAttempts \in Nat
  BY OutboxAssumption DEF IsRow
<1>2. CASE ok
  <2>1. Outcome(r, ok, t) = [r EXCEPT !.status = "sent"]
    BY <1>2 DEF Outcome
  <2> QED
    BY <1>1, <1>2, <2>1 DEF IsRow
<1>3. CASE ~ok /\ r.attempts + 1 >= NotifyAttempts
  <2>1. Outcome(r, ok, t) = [r EXCEPT !.attempts = @ + 1, !.status = "failed"]
    BY <1>3 DEF Outcome
  <2>2. Outcome(r, ok, t) = [channel |-> r.channel, status |-> "failed", attempts |-> r.attempts + 1,
                             wait |-> r.wait]
    BY <2>1 DEF IsRow
  <2>3. r.attempts + 1 = NotifyAttempts /\ r.attempts + 1 \in Nat
    BY <1>1, <1>3
  <2> QED
    BY <1>3, <2>2, <2>3 DEF IsRow
<1>4. CASE ~ok /\ ~(r.attempts + 1 >= NotifyAttempts)
  <2>1. Outcome(r, ok, t) = [r EXCEPT !.attempts = @ + 1, !.wait = WaitLeft(r.attempts, t)]
    BY <1>4 DEF Outcome
  <2>2. Outcome(r, ok, t) = [channel |-> r.channel, status |-> "pending", attempts |-> r.attempts + 1,
                             wait |-> WaitLeft(r.attempts, t)]
    BY <2>1 DEF IsRow
  <2>3. r.attempts + 1 < NotifyAttempts /\ r.attempts + 1 \in Nat
    BY <1>1, <1>4
  <2> QED
    BY <1>4, <2>2, <2>3 DEF IsRow
<1> QED
  BY <1>2, <1>3, <1>4

\* Steps after which the books of n read as before.
LEMMA BooksKept ==
  ASSUME OutboxTypes, NEW n \in Notice, Booked(n),
         calls'[n] = calls[n], undone'[n] = undone[n], arrived'[n] = arrived[n],
         notifyFaults' \in Nat, notifyFaults <= notifyFaults',
         InProgress(n)' = {} <=> InProgress(n) = {},
         StagedSent(n) => StagedSent(n)',
         notices'[n] = NoNotice <=> notices[n] = NoNotice,
         notices[n] # NoNotice =>
            /\ notices'[n].attempts = notices[n].attempts
            /\ \/ notices'[n].status = notices[n].status
               \/ notices[n].status = "unread" /\ notices'[n].status = "read"
  PROVE  Booked(n)'
<1>1. arrived[n] \in Nat /\ notifyFaults \in Nat
  BY DEF OutboxTypes
<1>2. CASE notices[n] = NoNotice
  BY <1>2 DEF Booked
<1>3. CASE notices[n] # NoNotice
  <2>1. /\ calls'[n] = undone'[n] + (IF InProgress(n)' = {} THEN 0 ELSE 1) + notices'[n].attempts
                       + (IF notices'[n].status = "sent" THEN 1 ELSE 0)
        /\ notices'[n].status = "pending" => notices'[n].attempts < NotifyAttempts
        /\ notices'[n].status = "failed" => notices'[n].attempts = NotifyAttempts
        /\ notices'[n].status = "sent" => arrived'[n] > 0
    BY <1>3 DEF Booked
  <2>2. arrived[n] <= notifyFaults + (IF notices[n].status = "sent" \/ StagedSent(n) THEN 1 ELSE 0)
    BY <1>3 DEF Booked
  <2>3. arrived[n] <= notifyFaults' + (IF notices'[n].status = "sent" \/ StagedSent(n)' THEN 1 ELSE 0)
    <3>1. notices[n].status = "sent" \/ StagedSent(n) => notices'[n].status = "sent" \/ StagedSent(n)'
      BY <1>3
    <3> QED
      BY <1>1, <2>2, <3>1
  <2> QED
    BY <1>3, <2>1, <2>3 DEF Booked
<1> QED
  BY <1>2, <1>3

\* The handlers touch rows that no transaction holds.
LEMMA HandlersKeep ==
  ASSUME OutboxInv, NEW n \in Notice,
         HandleMarkRead(n) \/ \E channel \in {"email", "webhook", "inbox"} : HandleSend(n, channel)
  PROVE  OutboxInv'
<1> USE DEF OutboxInv
<1>1. UNCHANGED <<loops, arrived, calls, undone, notifyFaults>>
  BY DEF HandleMarkRead, HandleSend
<1>2. \A m \in Notice : m # n => notices'[m] = notices[m]
  BY DEF HandleMarkRead, HandleSend, OutboxTypes
<1>3. \A d \in Deliverer : ~Holds(d, n)
  BY DEF StagedFromRow, HandleMarkRead, HandleSend
<1>4. /\ notices' = [m \in Notice |-> notices'[m]] /\ IsRow(notices'[n]) /\ notices'[n] # NoNotice
      /\ notices[n] = NoNotice => notices'[n].attempts = 0 /\ notices'[n].status \in {"unread", "pending"}
      /\ notices[n] # NoNotice => /\ notices'[n].attempts = notices[n].attempts
                                  /\ notices[n].status \in {"unread", "read"} /\ notices'[n].status = "read"
  <2>1. CASE HandleMarkRead(n) /\ notices[n] # NoNotice
    <3>1. IsRow(notices[n])
      BY <2>1 DEF OutboxTypes
    <3>2. notices'[n] = [notices[n] EXCEPT !.status = "read"]
      BY <2>1 DEF HandleMarkRead, OutboxTypes
    <3>3. notices[n].status \in {"unread", "read"}
      BY <2>1 DEF HandleMarkRead
    <3> QED
      BY <2>1, <3>1, <3>2, <3>3 DEF IsRow, HandleMarkRead, OutboxTypes, NoNotice
  <2>2. CASE HandleMarkRead(n) /\ notices[n] = NoNotice
    BY <2>2 DEF HandleMarkRead, NoNotice
  <2>3. ASSUME NEW channel \in {"email", "webhook", "inbox"}, HandleSend(n, channel)
        PROVE  /\ notices' = [m \in Notice |-> notices'[m]] /\ IsRow(notices'[n]) /\ notices'[n] # NoNotice
               /\ notices[n] = NoNotice
               /\ notices'[n].attempts = 0 /\ notices'[n].status \in {"unread", "pending"}
    <3> DEFINE row == [channel |-> channel, status |-> IF channel = "inbox" THEN "unread" ELSE "pending",
                       attempts |-> 0, wait |-> 0]
    <3>1. notices'[n] = row /\ notices' = [m \in Notice |-> notices'[m]] /\ notices[n] = NoNotice
      BY <2>3 DEF HandleSend, OutboxTypes
    <3>2. IsRow(row) /\ row # NoNotice
      BY DEF IsRow, NoNotice
    <3> QED
      BY <3>1, <3>2
  <2> QED
    BY <2>1, <2>2, <2>3
<1>5. OutboxTypes'
  BY <1>1, <1>2, <1>4 DEF OutboxTypes
<1>6. OneHolder' /\ StagedFromRow'
  BY <1>1, <1>2, <1>3 DEF OneHolder, StagedFromRow, Holds
<1>7. \A m \in Notice : InProgress(m)' = InProgress(m) /\ (StagedSent(m)' <=> StagedSent(m))
  BY <1>1 DEF InProgress, StagedSent, Holds
<1>8. ASSUME NEW m \in Notice PROVE Booked(m)'
  <2>1. CASE m # n \/ notices[n] # NoNotice
    <3>1. /\ calls'[m] = calls[m] /\ undone'[m] = undone[m] /\ arrived'[m] = arrived[m]
          /\ notifyFaults' = notifyFaults /\ notifyFaults \in Nat
          /\ InProgress(m)' = {} <=> InProgress(m) = {}
          /\ StagedSent(m) => StagedSent(m)'
      BY <1>1, <1>7 DEF OutboxTypes
    <3>2. /\ notices'[m] = NoNotice <=> notices[m] = NoNotice
          /\ notices[m] # NoNotice =>
              /\ notices'[m].attempts = notices[m].attempts
              /\ \/ notices'[m].status = notices[m].status
                 \/ notices[m].status = "unread" /\ notices'[m].status = "read"
      BY <1>2, <1>4, <2>1
    <3>3. Booked(m) /\ notifyFaults <= notifyFaults'
      BY <3>1
    <3> QED
      BY <3>1, <3>2, <3>3, BooksKept
  <2>2. CASE m = n /\ notices[n] = NoNotice
    <3>1. InProgress(n)' = {}
      BY <1>3, <1>7, InProgressIsHeld DEF InProgress
    <3>2. calls'[n] = 0 /\ undone'[n] = 0 /\ arrived'[n] = 0 /\ notifyFaults' \in Nat
      BY <1>1, <2>2 DEF Booked, OutboxTypes
    <3>3. notices'[n] # NoNotice /\ notices'[n].attempts = 0 /\ notices'[n].status \in {"unread", "pending"}
      BY <1>4, <2>2
    <3> QED
      BY <2>2, <3>1, <3>2, <3>3, OutboxAssumption DEF Booked
  <2> QED
    BY <2>1, <2>2
<1> QED
  BY <1>5, <1>6, <1>8
\* A batch is made of rows nobody holds; nothing has been sent for it yet.
LEMMA PickKeeps ==
  ASSUME OutboxInv, NEW d \in Deliverer, PickBatch(d)
  PROVE  OutboxInv'
<1> USE DEF OutboxInv
<1>1. PICK S \in SUBSET DueNotices :
        loops' = [loops EXCEPT ![d] =
           [at |-> "sending", batch |-> [n \in S |-> notices[n]], left |-> S, open |-> 0]]
  BY DEF PickBatch
<1> DEFINE l == [at |-> "sending", batch |-> [n \in S |-> notices[n]], left |-> S, open |-> 0]
<1>2. /\ UNCHANGED <<notices, arrived, calls, undone, notifyFaults>>
      /\ loops[d] = IdleDeliverer /\ loops'[d] = l /\ loops' = [e \in Deliverer |-> loops'[e]]
      /\ \A e \in Deliverer : e # d => loops'[e] = loops[e]
  BY <1>1 DEF PickBatch, OutboxTypes
<1>3. S \subseteq Notice /\ IsBatch(l) /\ l # IdleDeliverer
      /\ DOMAIN l.batch = S /\ l.left = S /\ \A n \in S : l.batch[n] = notices[n]
  BY DEF IsBatch, DueNotices, IdleDeliverer
<1> HIDE DEF l
<1>4. \A n \in S : /\ notices[n].status = "pending" /\ notices[n].wait = 0
                   /\ n \in Notice /\ n \notin LockedNotices
  BY DEF DueNotices
<1>5. \A n \in S, e \in Deliverer : ~Holds(e, n)
  <2> SUFFICES ASSUME NEW n \in S, NEW e \in Deliverer, Holds(e, n) PROVE FALSE
    OBVIOUS
  <2>1. IsBatch(loops[e]) /\ n \in DOMAIN loops[e].batch
    BY DEF Holds, OutboxTypes
  <2>2. n \in LockedNotices
    BY <2>1 DEF LockedNotices, IsBatch
  <2> QED
    BY <1>4, <2>2
<1>6. \A e \in Deliverer : \A n : Holds(e, n)' <=> IF e = d THEN n \in S ELSE Holds(e, n)
  BY <1>2, <1>3 DEF Holds
<1>7. OutboxTypes'
  BY <1>2, <1>3 DEF OutboxTypes
<1>8. OneHolder'
  BY <1>5, <1>6 DEF OneHolder
<1>9. StagedFromRow'
  <2> SUFFICES ASSUME NEW n \in S
               PROVE  /\ notices[n] # NoNotice /\ notices[n].status = "pending" /\ notices[n].wait = 0
                      /\ IsRow(l.batch[n]) /\ l.batch[n] = notices[n] /\ n \in l.left
    BY <1>2, <1>6 DEF StagedFromRow
  <2>1. notices[n] # NoNotice
    BY <1>4 DEF NoNotice
  <2> QED
    BY <1>3, <1>4, <2>1 DEF OutboxTypes
<1>10. \A n \in Notice : InProgress(n)' = InProgress(n) /\ (StagedSent(n) => StagedSent(n)')
  <2>1. \A e \in Deliverer, n \in Notice :
          Holds(e, n)' /\ n \notin loops'[e].left <=> Holds(e, n) /\ n \notin loops[e].left
    BY <1>2, <1>3, <1>6 DEF Holds
  <2>2. \A n \in Notice : InProgress(n)' = InProgress(n)
    BY <2>1 DEF InProgress, Holds
  <2>3. \A n \in Notice : StagedSent(n) => StagedSent(n)'
    BY <1>2, <1>6 DEF StagedSent, Holds
  <2> QED
    BY <2>2, <2>3
<1>11. ASSUME NEW n \in Notice PROVE Booked(n)'
  BY <1>2, <1>10, BooksKept DEF OutboxTypes
<1> QED
  BY <1>7, <1>8, <1>9, <1>11

\* A call is one more call, one transaction that has it in hand, and an arrival
\* that is heard of, or is a fault.
LEMMA DeliverKeeps ==
  ASSUME OutboxInv, NEW d \in Deliverer, NEW reaches \in BOOLEAN, NEW ok \in BOOLEAN,
         Deliver(d, reaches, ok)
  PROVE  OutboxInv'
<1> USE DEF OutboxInv
<1>0. PICK n \in loops[d].left : CalledFor(d, n, reaches, ok)
  BY DeliverShape
<1>1. /\ Holds(d, n) /\ n \in Notice
      /\ loops'[d] = [at |-> "sending",
                      batch |-> [loops[d].batch EXCEPT ![n] = Outcome(@, ok, loops[d].open)],
                      left |-> loops[d].left \ {n}, open |-> loops[d].open]
      /\ \A e \in Deliverer : e # d => loops'[e] = loops[e]
      /\ calls'[n] = calls[n] + 1
      /\ arrived'[n] = arrived[n] + (IF reaches THEN 1 ELSE 0)
      /\ \A m \in Notice : m # n => calls'[m] = calls[m] /\ arrived'[m] = arrived[m]
      /\ loops' = [e \in Deliverer |-> loops'[e]]
      /\ calls' \in [Notice -> Nat] /\ arrived' \in [Notice -> Nat]
  BY <1>0 DEF CalledFor
<1>2. /\ UNCHANGED <<notices, undone>> /\ (ok => reaches)
      /\ notifyFaults \in Nat /\ notifyFaults' \in Nat
      /\ notifyFaults' = notifyFaults + (IF reaches /\ ~ok THEN 1 ELSE 0)
  BY DEF Deliver, NotifyFault, OutboxTypes
<1>3. /\ notices[n] # NoNotice /\ notices[n].status = "pending" /\ notices[n].wait = 0
      /\ IsRow(notices[n]) /\ loops[d].batch[n] = notices[n] /\ notices[n].attempts < NotifyAttempts
      /\ notices[n].attempts \in Nat
  <2>1. notices[n] # NoNotice /\ notices[n].status = "pending" /\ notices[n].wait = 0
        /\ IsRow(loops[d].batch[n]) /\ loops[d].batch[n] = notices[n]
    BY <1>1 DEF StagedFromRow
  <2> QED
    BY <1>1, <2>1 DEF Booked, IsRow
<1>4. PICK o : o = Outcome(notices[n], ok, loops[d].open)
  OBVIOUS
<1>5. /\ IsRow(o)
      /\ ok => o.status = "sent" /\ o.attempts = notices[n].attempts
      /\ ~ok => /\ o.status \in {"pending", "failed"}
                /\ o.attempts = notices[n].attempts + 1
                /\ o.status = "pending" => notices[n].attempts + 1 < NotifyAttempts
                /\ o.status = "failed" => notices[n].attempts + 1 = NotifyAttempts
  BY <1>3, <1>4, OutcomeOfRow
<1>6. /\ loops'[d].batch = [loops[d].batch EXCEPT ![n] = o] /\ loops'[d].at = "sending"
      /\ loops'[d].left = loops[d].left \ {n}
      /\ loops'[d] # IdleDeliverer /\ IsBatch(loops[d]) /\ loops[d] # IdleDeliverer
  BY <1>1, <1>3, <1>4 DEF IdleDeliverer, Holds, OutboxTypes
<1>7. /\ DOMAIN loops'[d].batch = DOMAIN loops[d].batch /\ IsBatch(loops'[d])
      /\ loops'[d].batch[n] = o
      /\ \A m \in DOMAIN loops[d].batch : m # n => loops'[d].batch[m] = loops[d].batch[m]
  <2>1. n \in DOMAIN loops[d].batch
    BY <1>1 DEF Holds
  <2>2. /\ DOMAIN loops'[d].batch = DOMAIN loops[d].batch /\ loops'[d].batch[n] = o
        /\ \A m \in DOMAIN loops[d].batch : m # n => loops'[d].batch[m] = loops[d].batch[m]
    BY <1>6, <2>1
  <2>3. loops'[d] = [at |-> loops'[d].at, batch |-> loops'[d].batch, left |-> loops'[d].left,
                     open |-> loops'[d].open]
    BY <1>1
  <2> QED
    BY <1>6, <2>2, <2>3 DEF IsBatch
<1>8. \A e \in Deliverer : \A m : Holds(e, m)' <=> Holds(e, m)
  BY <1>1, <1>6, <1>7 DEF Holds
<1>9. OutboxTypes'
  BY <1>1, <1>2, <1>7 DEF OutboxTypes
<1>10. OneHolder'
  BY <1>8 DEF OneHolder
<1>11. arrived'[n] \in Nat /\ arrived[n] \in Nat /\ (ok => arrived'[n] > 0)
       /\ \A m \in Notice : arrived'[m] >= arrived[m]
  BY <1>1, <1>2 DEF OutboxTypes
<1>12. StagedFromRow'
  <2> SUFFICES ASSUME NEW e \in Deliverer, NEW m \in Notice, Holds(e, m)
               PROVE  /\ notices[m] # NoNotice /\ notices[m].status = "pending" /\ notices[m].wait = 0
                      /\ IsRow(loops'[e].batch[m])
                      /\ m \in loops'[e].left => loops'[e].batch[m] = notices[m]
                      /\ m \notin loops'[e].left =>
                          \/ /\ loops'[e].batch[m].status = "sent" /\ arrived'[m] > 0
                             /\ loops'[e].batch[m].attempts = notices[m].attempts
                          \/ /\ loops'[e].batch[m].status \in {"pending", "failed"}
                             /\ loops'[e].batch[m].attempts = notices[m].attempts + 1
                             /\ loops'[e].batch[m].status = "pending" => notices[m].attempts + 1 < NotifyAttempts
                             /\ loops'[e].batch[m].status = "failed" => notices[m].attempts + 1 = NotifyAttempts
    BY <1>2, <1>8 DEF StagedFromRow
  <2>1. CASE e = d /\ m = n
    BY <1>3, <1>5, <1>6, <1>7, <1>11, <2>1
  <2>2. CASE ~(e = d /\ m = n)
    <3>1. /\ loops'[e].batch[m] = loops[e].batch[m]
          /\ m \in loops'[e].left <=> m \in loops[e].left
      BY <1>1, <1>6, <1>7, <2>2 DEF Holds
    <3>2. arrived[m] > 0 => arrived'[m] > 0
      BY <1>9, <1>11 DEF OutboxTypes
    <3> QED
      BY <3>1, <3>2 DEF StagedFromRow
  <2> QED
    BY <2>1, <2>2
<1>13. ASSUME NEW m \in Notice PROVE Booked(m)'
  <2>1. CASE m # n
    <3>1. \A e \in Deliverer : Holds(e, m) =>
             (m \in loops'[e].left <=> m \in loops[e].left) /\ loops'[e].batch[m] = loops[e].batch[m]
      BY <1>1, <1>6, <1>7, <2>1 DEF Holds
    <3>2. InProgress(m)' = InProgress(m)
      BY <1>8, <3>1 DEF InProgress, Holds
    <3>3. StagedSent(m) => StagedSent(m)'
      BY <1>8, <3>1 DEF StagedSent
    <3>4. notifyFaults <= notifyFaults'
      BY <1>2
    <3> QED
      BY <1>1, <1>2, <2>1, <3>2, <3>3, <3>4, BooksKept
  <2>2. CASE m = n
    <3>1. InProgress(n) = {}
      BY <1>1, InProgressIsHeld DEF OneHolder, InProgress
    <3>2. d \in InProgress(n)'
      BY <1>6, <1>7, <1>1 DEF InProgress, Holds
    <3>3. ok => StagedSent(n)'
      BY <1>1, <1>5, <1>6, <1>7, <1>8 DEF StagedSent
    <3>4. ~StagedSent(n)
      BY <1>1 DEF StagedSent, OneHolder
    <3>5. arrived[n] <= notifyFaults /\ calls[n] = undone[n] + notices[n].attempts /\ undone[n] \in Nat
      <4>1. /\ calls[n] = undone[n] + (IF InProgress(n) = {} THEN 0 ELSE 1) + notices[n].attempts
                         + (IF notices[n].status = "sent" THEN 1 ELSE 0)
            /\ arrived[n] <= notifyFaults + (IF notices[n].status = "sent" \/ StagedSent(n) THEN 1 ELSE 0)
        BY <1>1, <1>3 DEF Booked
      <4>2. undone[n] \in Nat
        BY <1>1 DEF OutboxTypes
      <4> QED
        BY <1>2, <1>3, <1>11, <3>1, <3>4, <4>1, <4>2
    <3>6. arrived'[n] <= notifyFaults' + (IF StagedSent(n)' THEN 1 ELSE 0)
      BY <1>1, <1>2, <1>11, <3>3, <3>5
    <3>7. calls'[n] = undone'[n] + (IF InProgress(n)' = {} THEN 0 ELSE 1) + notices'[n].attempts
      BY <1>1, <1>2, <1>3, <3>2, <3>5
    <3>8. notices'[n] # NoNotice /\ notices'[n].status = "pending" /\ notices'[n].attempts < NotifyAttempts
      BY <1>2, <1>3
    <3>9. notices'[n].attempts \in Nat /\ undone'[n] \in Nat
      BY <1>2, <1>3, <3>5
    <3> QED
      BY <2>2, <3>6, <3>7, <3>8, <3>9 DEF Booked
  <2> QED
    BY <2>1, <2>2
<1> QED
  BY <1>9, <1>10, <1>12, <1>13

\* Whoever hangs, or goes on, keeps the transaction as it is.
LEMMA HangKeeps ==
  ASSUME OutboxInv, NEW d \in Deliverer, MailHangs(d) \/ MailResumes(d)
  PROVE  OutboxInv'
<1> USE DEF OutboxInv
<1>1. /\ UNCHANGED <<notices, arrived, calls, undone, notifyFaults>>
      /\ \E x \in {"sending", "hanging"} : loops' = [loops EXCEPT ![d].at = x]
      /\ loops[d].at \in {"sending", "hanging"}
  BY DEF MailHangs, MailResumes
<1>2. IsBatch(loops[d]) /\ loops[d] # IdleDeliverer
  BY <1>1 DEF OutboxTypes, IdleDeliverer
<1>3. /\ loops' = [e \in Deliverer |-> loops'[e]]
      /\ \A e \in Deliverer : e # d => loops'[e] = loops[e]
      /\ \E x \in {"sending", "hanging"} :
            loops'[d] = [at |-> x, batch |-> loops[d].batch, left |-> loops[d].left, open |-> loops[d].open]
  BY <1>1, <1>2 DEF OutboxTypes, IsBatch
<1>4. /\ loops'[d].batch = loops[d].batch /\ loops'[d].left = loops[d].left
      /\ IsBatch(loops'[d]) /\ loops'[d] # IdleDeliverer
  BY <1>2, <1>3 DEF IsBatch, IdleDeliverer
<1>5. OutboxTypes'
  BY <1>1, <1>3, <1>4 DEF OutboxTypes
<1>6. \A e \in Deliverer : \A n : Holds(e, n)' <=> Holds(e, n)
  BY <1>2, <1>3, <1>4 DEF Holds
<1>7. \A e \in Deliverer : loops'[e].batch = loops[e].batch /\ loops'[e].left = loops[e].left
  BY <1>3, <1>4
<1>8. OneHolder'
  BY <1>6 DEF OneHolder
<1>9. StagedFromRow'
  BY <1>1, <1>6, <1>7 DEF StagedFromRow
<1>10. \A n \in Notice : InProgress(n)' = InProgress(n) /\ (StagedSent(n) => StagedSent(n)')
  BY <1>6, <1>7 DEF InProgress, StagedSent, Holds
<1>11. ASSUME NEW n \in Notice PROVE Booked(n)'
  BY <1>1, <1>10, BooksKept DEF OutboxTypes
<1> QED
  BY <1>5, <1>8, <1>9, <1>11

\* After its transaction d holds nothing, and the others what they held.
LEMMA Released ==
  ASSUME OutboxTypes, NEW d \in Deliverer, loops' = [loops EXCEPT ![d] = IdleDeliverer]
  PROVE  /\ loops' = [e \in Deliverer |-> loops'[e]]
         /\ \A e \in Deliverer : loops'[e] = IdleDeliverer \/ IsBatch(loops'[e])
         /\ \A e \in Deliverer : \A n : Holds(e, n)' <=> e # d /\ Holds(e, n)
         /\ \A e \in Deliverer : e # d => loops'[e] = loops[e]
BY DEF OutboxTypes, Holds

\* A commit shows what was staged, and the call is in the row.
LEMMA CommitKeeps ==
  ASSUME OutboxInv, NEW d \in Deliverer, CommitBatch(d)
  PROVE  OutboxInv'
<1> USE DEF OutboxInv
<1>1. /\ UNCHANGED <<arrived, calls, undone, notifyFaults>>
      /\ loops[d].at = "sending" /\ loops[d].left = {}
      /\ notices' = [n \in Notice |-> IF n \in DOMAIN loops[d].batch THEN loops[d].batch[n] ELSE notices[n]]
      /\ loops' = [loops EXCEPT ![d] = IdleDeliverer]
  BY DEF CommitBatch
<1>2. loops[d] # IdleDeliverer /\ \A n : Holds(d, n) <=> n \in DOMAIN loops[d].batch
  BY <1>1 DEF Holds, IdleDeliverer
<1>3. /\ loops' = [e \in Deliverer |-> loops'[e]]
      /\ \A e \in Deliverer : loops'[e] = IdleDeliverer \/ IsBatch(loops'[e])
      /\ \A e \in Deliverer : \A n : Holds(e, n)' <=> e # d /\ Holds(e, n)
      /\ \A e \in Deliverer : e # d => loops'[e] = loops[e]
  BY <1>1, Released
<1>4. \A n \in Notice : notices'[n] = IF Holds(d, n) THEN loops[d].batch[n] ELSE notices[n]
  BY <1>1, <1>2
<1>5. \A n \in Notice : Holds(d, n) => IsRow(loops[d].batch[n])
  BY DEF StagedFromRow
<1>6. OutboxTypes'
  BY <1>1, <1>3, <1>4, <1>5 DEF OutboxTypes
<1>7. OneHolder'
  BY <1>3 DEF OneHolder
<1>8. ASSUME NEW e \in Deliverer, NEW n \in Notice, Holds(e, n), e # d
      PROVE  notices'[n] = notices[n]
  BY <1>4, <1>8 DEF OneHolder
<1>9. StagedFromRow'
  BY <1>1, <1>3, <1>8 DEF StagedFromRow
<1>10. ASSUME NEW n \in Notice PROVE Booked(n)'
  <2>1. CASE ~Holds(d, n)
    <3>1. InProgress(n)' = InProgress(n)
      BY <1>3, <2>1 DEF InProgress, Holds
    <3>2. StagedSent(n) => StagedSent(n)'
      BY <1>3, <2>1 DEF StagedSent
    <3> QED
      BY <1>1, <1>4, <2>1, <3>1, <3>2, BooksKept DEF OutboxTypes
  <2>2. CASE Holds(d, n)
    <3>1. d \in InProgress(n)
      BY <1>1, <2>2 DEF InProgress, Holds
    <3>2. InProgress(n)' = {}
      BY <1>3, <2>2, InProgressIsHeld DEF InProgress, OneHolder, Holds
    <3>3. /\ notices[n] # NoNotice /\ notices[n].status = "pending"
          /\ IsRow(loops[d].batch[n]) /\ notices'[n] = loops[d].batch[n]
          /\ \/ /\ loops[d].batch[n].status = "sent" /\ arrived[n] > 0
                /\ loops[d].batch[n].attempts = notices[n].attempts
             \/ /\ loops[d].batch[n].status \in {"pending", "failed"}
                /\ loops[d].batch[n].attempts = notices[n].attempts + 1
                /\ loops[d].batch[n].status = "pending" => notices[n].attempts + 1 < NotifyAttempts
                /\ loops[d].batch[n].status = "failed" => notices[n].attempts + 1 = NotifyAttempts
      BY <1>1, <1>4, <2>2 DEF StagedFromRow
    <3>4. StagedSent(n) <=> loops[d].batch[n].status = "sent"
      BY <1>1, <2>2 DEF StagedSent, OneHolder
    <3>5. /\ calls[n] = undone[n] + 1 + notices[n].attempts
          /\ arrived[n] <= notifyFaults + (IF StagedSent(n) THEN 1 ELSE 0)
      <4>1. /\ calls[n] = undone[n] + (IF InProgress(n) = {} THEN 0 ELSE 1) + notices[n].attempts
                          + (IF notices[n].status = "sent" THEN 1 ELSE 0)
            /\ arrived[n] <= notifyFaults + (IF notices[n].status = "sent" \/ StagedSent(n) THEN 1 ELSE 0)
        BY <3>3 DEF Booked
      <4>2. undone[n] \in Nat /\ notices[n].attempts \in Nat
        BY <3>3 DEF OutboxTypes, IsRow
      <4> QED
        BY <3>1, <3>3, <4>1, <4>2
    <3>6. undone[n] \in Nat /\ notices[n].attempts \in Nat /\ arrived[n] \in Nat /\ notifyFaults \in Nat
      BY <3>3 DEF OutboxTypes, IsRow
    <3>7. notices'[n] # NoNotice
      BY <3>3 DEF IsRow, NoNotice
    <3>8. /\ calls'[n] = undone'[n] + (IF InProgress(n)' = {} THEN 0 ELSE 1) + notices'[n].attempts
                         + (IF notices'[n].status = "sent" THEN 1 ELSE 0)
          /\ notices'[n].status = "pending" => notices'[n].attempts < NotifyAttempts
          /\ notices'[n].status = "failed" => notices'[n].attempts = NotifyAttempts
          /\ notices'[n].status = "sent" => arrived'[n] > 0
      BY <1>1, <3>2, <3>3, <3>5, <3>6
    <3>9. arrived'[n] <= notifyFaults' + (IF notices'[n].status = "sent" \/ StagedSent(n)' THEN 1 ELSE 0)
      BY <1>1, <3>3, <3>4, <3>5, <3>6
    <3> QED
      BY <3>7, <3>8, <3>9 DEF Booked
  <2> QED
    BY <2>1, <2>2
<1> QED
  BY <1>6, <1>7, <1>9, <1>10

\* What is rolled back is one fault, and a call undone for every row it had called for.
LEMMA RollBackKeeps ==
  ASSUME OutboxInv, NEW d \in Deliverer, RollBack(d)
  PROVE  OutboxInv'
<1> USE DEF OutboxInv
<1>1. /\ UNCHANGED <<notices, arrived, calls>>
      /\ loops[d].at \in {"sending", "hanging"} /\ notifyFaults' = notifyFaults + 1
      /\ undone' = [n \in Notice |->
            undone[n] + IF n \in DOMAIN loops[d].batch \ loops[d].left THEN 1 ELSE 0]
      /\ loops' = [loops EXCEPT ![d] = IdleDeliverer]
  BY DEF RollBack, NotifyFault
<1>2. loops[d] # IdleDeliverer /\ \A n : Holds(d, n) <=> n \in DOMAIN loops[d].batch
  BY <1>1 DEF Holds, IdleDeliverer
<1>3. /\ loops' = [e \in Deliverer |-> loops'[e]]
      /\ \A e \in Deliverer : loops'[e] = IdleDeliverer \/ IsBatch(loops'[e])
      /\ \A e \in Deliverer : \A n : Holds(e, n)' <=> e # d /\ Holds(e, n)
      /\ \A e \in Deliverer : e # d => loops'[e] = loops[e]
  BY <1>1, Released
<1>4. \A n \in Notice : undone'[n] = undone[n] + IF Holds(d, n) /\ n \notin loops[d].left THEN 1 ELSE 0
  BY <1>1, <1>2
<1>5. OutboxTypes'
  <2>1. undone' \in [Notice -> Nat]
    BY <1>1 DEF OutboxTypes
  <2> QED
    BY <1>1, <1>3, <2>1 DEF OutboxTypes
<1>6. OneHolder'
  BY <1>3 DEF OneHolder
<1>7. StagedFromRow'
  BY <1>1, <1>3 DEF StagedFromRow
<1>8. ASSUME NEW n \in Notice PROVE Booked(n)'
  <2>0. /\ undone[n] \in Nat /\ arrived[n] \in Nat /\ notifyFaults \in Nat
        /\ notices[n] # NoNotice => notices[n].attempts \in Nat
    BY DEF OutboxTypes, IsRow
  <2>1. CASE ~(Holds(d, n) /\ n \notin loops[d].left)
    <3>1. InProgress(n)' = {} <=> InProgress(n) = {}
      BY <1>3, <2>1 DEF InProgress, Holds
    <3>2. StagedSent(n) => StagedSent(n)'
      BY <1>3, <2>1 DEF StagedSent
    <3>3. undone'[n] = undone[n] /\ notifyFaults' \in Nat /\ notifyFaults <= notifyFaults'
      BY <1>1, <1>4, <2>0, <2>1
    <3> QED
      BY <1>1, <3>1, <3>2, <3>3, BooksKept
  <2>2. CASE Holds(d, n) /\ n \notin loops[d].left
    <3>1. d \in InProgress(n)
      BY <2>2 DEF InProgress, Holds
    <3>2. InProgress(n)' = {}
      BY <1>3, <2>2 DEF InProgress, OneHolder, Holds
    <3>3. notices[n] # NoNotice /\ notices[n].status = "pending"
      BY <2>2 DEF StagedFromRow
    <3>4. /\ calls[n] = undone[n] + (IF InProgress(n) = {} THEN 0 ELSE 1) + notices[n].attempts
                        + (IF notices[n].status = "sent" THEN 1 ELSE 0)
          /\ arrived[n] <= notifyFaults + (IF notices[n].status = "sent" \/ StagedSent(n) THEN 1 ELSE 0)
          /\ notices[n].attempts < NotifyAttempts
      BY <3>3 DEF Booked
    <3>5. calls'[n] = undone'[n] + (IF InProgress(n)' = {} THEN 0 ELSE 1) + notices'[n].attempts
                      + (IF notices'[n].status = "sent" THEN 1 ELSE 0)
      BY <1>1, <1>4, <2>0, <2>2, <3>1, <3>2, <3>3, <3>4
    <3>6. arrived'[n] <= notifyFaults' + (IF notices'[n].status = "sent" \/ StagedSent(n)' THEN 1 ELSE 0)
      BY <1>1, <2>0, <3>4
    <3> QED
      BY <1>1, <3>3, <3>4, <3>5, <3>6 DEF Booked
  <2> QED
    BY <2>1, <2>2
<1> QED
  BY <1>5, <1>6, <1>7, <1>8

\* Time passes for rows that wait; a row that is held does not.
LEMMA MinuteKeeps ==
  ASSUME OutboxInv, MinutePasses
  PROVE  OutboxInv'
<1> USE DEF OutboxInv
<1>1. /\ UNCHANGED <<arrived, calls, undone, notifyFaults>>
      /\ notices' = [n \in Notice |->
            IF notices[n].status = "pending" /\ notices[n].wait > 0
            THEN [notices[n] EXCEPT !.wait = @ - 1] ELSE notices[n]]
      /\ loops' = [d \in Deliverer |->
            IF loops[d] = IdleDeliverer \/ loops[d].open = LongestWait THEN loops[d]
            ELSE [loops[d] EXCEPT !.open = @ + 1]]
  BY DEF MinutePasses
<1>2. ASSUME NEW d \in Deliverer
      PROVE  /\ loops'[d] = IdleDeliverer <=> loops[d] = IdleDeliverer
             /\ loops[d] # IdleDeliverer =>
                  /\ IsBatch(loops'[d])
                  /\ loops'[d].batch = loops[d].batch /\ loops'[d].left = loops[d].left
  <2>1. CASE loops[d] = IdleDeliverer \/ loops[d].open = LongestWait
    BY <1>1, <2>1 DEF OutboxTypes
  <2>2. CASE ~(loops[d] = IdleDeliverer \/ loops[d].open = LongestWait)
    <3>1. IsBatch(loops[d])
      BY <2>2 DEF OutboxTypes
    <3>2. loops'[d] = [loops[d] EXCEPT !.open = @ + 1]
      BY <1>1, <2>2
    <3>3. loops'[d] = [at |-> loops[d].at, batch |-> loops[d].batch, left |-> loops[d].left,
                       open |-> loops[d].open + 1]
      BY <3>1, <3>2 DEF IsBatch
    <3> QED
      BY <2>2, <3>1, <3>3 DEF IsBatch, IdleDeliverer
  <2> QED
    BY <2>1, <2>2
<1>3. ASSUME NEW n \in Notice
      PROVE  /\ notices'[n] = NoNotice <=> notices[n] = NoNotice
             /\ notices[n] # NoNotice => /\ IsRow(notices'[n])
                                         /\ notices'[n].attempts = notices[n].attempts
                                         /\ notices'[n].status = notices[n].status
             /\ (\E d \in Deliverer : Holds(d, n)) => notices'[n] = notices[n]
  <2>1. CASE ~(notices[n].status = "pending" /\ notices[n].wait > 0)
    BY <1>1, <2>1 DEF OutboxTypes
  <2>2. CASE notices[n].status = "pending" /\ notices[n].wait > 0
    <3>1. IsRow(notices[n]) /\ notices[n] # NoNotice
      BY <2>2 DEF OutboxTypes, NoNotice
    <3>2. notices'[n] = [notices[n] EXCEPT !.wait = @ - 1]
      BY <1>1, <2>2
    <3>3. notices'[n] = [channel |-> notices[n].channel, status |-> notices[n].status,
                         attempts |-> notices[n].attempts, wait |-> notices[n].wait - 1]
      BY <3>1, <3>2 DEF IsRow
    <3>4. \A d \in Deliverer : ~Holds(d, n)
      BY <2>2 DEF StagedFromRow
    <3> QED
      BY <3>1, <3>3, <3>4 DEF IsRow, NoNotice
  <2> QED
    BY <2>1, <2>2
<1>4. OutboxTypes'
  BY <1>1, <1>2, <1>3 DEF OutboxTypes
<1>5. \A d \in Deliverer : \A n :
        /\ Holds(d, n)' <=> Holds(d, n)
        /\ Holds(d, n) => loops'[d].batch = loops[d].batch /\ loops'[d].left = loops[d].left
  BY <1>2 DEF Holds
<1>6. OneHolder'
  BY <1>5 DEF OneHolder
<1>7. StagedFromRow'
  BY <1>1, <1>3, <1>5 DEF StagedFromRow
<1>8. \A n \in Notice : InProgress(n)' = InProgress(n) /\ (StagedSent(n) => StagedSent(n)')
  BY <1>5, <1>2 DEF InProgress, StagedSent, Holds
<1>9. ASSUME NEW n \in Notice PROVE Booked(n)'
  BY <1>1, <1>3, <1>8, BooksKept DEF OutboxTypes
<1> QED
  BY <1>4, <1>6, <1>7, <1>9

\* Every step keeps the books of the outbox.
LEMMA OutboxStep == OutboxInv /\ [OutboxNext]_outboxVars => OutboxInv'
<1> SUFFICES ASSUME OutboxInv, [OutboxNext]_outboxVars PROVE OutboxInv'
  OBVIOUS
<1>1. CASE UNCHANGED outboxVars
  <2> USE DEF OutboxInv
  <2>1. UNCHANGED <<notices, loops, arrived, calls, undone, notifyFaults>>
    BY <1>1 DEF outboxVars
  <2>2. OutboxTypes' /\ OneHolder' /\ StagedFromRow'
    BY <2>1 DEF OutboxTypes, OneHolder, StagedFromRow, Holds
  <2>3. \A n \in Notice : InProgress(n)' = InProgress(n) /\ (StagedSent(n) => StagedSent(n)')
    BY <2>1 DEF InProgress, StagedSent, Holds
  <2>4. ASSUME NEW n \in Notice PROVE Booked(n)'
    BY <2>1, <2>3, BooksKept DEF OutboxTypes
  <2> QED
    BY <2>2, <2>4
<1>2. CASE OutboxNext
  BY <1>2, HandlersKeep, PickKeeps, DeliverKeeps, HangKeeps, CommitKeeps, RollBackKeeps, MinuteKeeps
  DEF OutboxNext, DeliverBatch
<1> QED
  BY <1>1, <1>2

\* Every call is in the row, in the transaction that holds the row or was rolled
\* back, and a second arrival is a fault (worker.go:77-88).
THEOREM CallsAreShown == OutboxSpec => []CallsShown
<1>1. OutboxInv => CallsShown
  <2> SUFFICES ASSUME OutboxInv, NEW n \in Notice, notices[n] # NoNotice
               PROVE  /\ Cardinality(InProgress(n)) <= 1
                      /\ calls[n] = undone[n] + Cardinality(InProgress(n)) + notices[n].attempts
                                    + (IF notices[n].status = "sent" THEN 1 ELSE 0)
                      /\ notices[n].status = "sent" => arrived[n] > 0
                      /\ notices[n].status = "failed" => notices[n].attempts = NotifyAttempts
                      /\ arrived[n] <= 1 + notifyFaults
    BY DEF CallsShown
  <2> USE DEF OutboxInv
  <2>1. Cardinality(InProgress(n)) = IF InProgress(n) = {} THEN 0 ELSE 1
    <3>1. CASE InProgress(n) = {}
      BY <3>1, FS_EmptySet
    <3>2. ASSUME NEW d \in InProgress(n)
          PROVE  Cardinality(InProgress(n)) = 1
      <4>1. InProgress(n) = {d}
        BY <3>2, InProgressIsHeld DEF OneHolder, InProgress
      <4> QED
        BY <4>1, FS_Singleton
    <3> QED
      BY <3>1, <3>2
  <2>2. /\ calls[n] = undone[n] + (IF InProgress(n) = {} THEN 0 ELSE 1) + notices[n].attempts
                      + (IF notices[n].status = "sent" THEN 1 ELSE 0)
        /\ notices[n].status = "failed" => notices[n].attempts = NotifyAttempts
        /\ notices[n].status = "sent" => arrived[n] > 0
        /\ arrived[n] <= notifyFaults + (IF notices[n].status = "sent" \/ StagedSent(n) THEN 1 ELSE 0)
    BY DEF Booked
  <2>3. arrived[n] \in Nat /\ notifyFaults \in Nat
    BY DEF OutboxTypes
  <2> QED
    BY <2>1, <2>2, <2>3
<1> QED
  BY <1>1, OutboxStart, OutboxStep, PTL DEF OutboxSpec
=============================================================================
