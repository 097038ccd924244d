---------------------------- MODULE MCDeliveries ----------------------------
(* The workers that run for ever: the deliveries of svc-notify, the sweeper  *)
(* of svc-file, the schedules of svc-jobs.  They share no state; a behaviour *)
(* exercises one of them, and that one is fair.                              *)
EXTENDS NotifyOutbox, FileStore, JobScheduler

CONSTANTS r1, r2, s1
VARIABLE part

TwoReplicas == {r1, r2}
OneSchedule == {s1}

allVars == <<part, outboxVars, fileVars, schedulerVars>>

DeliveriesInit ==
    /\ part \in {"outbox", "files", "schedules"}
    /\ OutboxInit /\ FilesInit /\ SchedulerInit
DeliveriesNext ==
    /\ UNCHANGED part
    /\ \/ part = "outbox"    /\ OutboxNext    /\ UNCHANGED <<fileVars, schedulerVars>>
       \/ part = "files"     /\ FilesNext     /\ UNCHANGED <<outboxVars, schedulerVars>>
       \/ part = "schedules" /\ SchedulerNext /\ UNCHANGED <<outboxVars, fileVars>>

\* The fairness of OutboxSpec, FilesSpec and FairSchedulerSpec for the part that runs.
DeliveriesSpec ==
    /\ DeliveriesInit /\ [][DeliveriesNext]_allVars
    /\ WF_outboxVars(part = "outbox" /\ MinutePasses)
    /\ \A d \in Deliverer : WF_outboxVars(part = "outbox" /\ DeliverBatch(d))
    /\ WF_fileVars(part = "files" /\ FileTick) /\ WF_fileVars(part = "files" /\ Sweep)
    /\ \A r \in Replica : WF_schedulerVars(part = "schedules" /\ ReplicaStep(r))
=============================================================================
