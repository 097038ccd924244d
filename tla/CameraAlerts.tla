---------------------------- MODULE CameraAlerts ----------------------------
(***************************************************************************)
(* The alarms of svc-vision's ONVIF cameras: a goroutine per camera that   *)
(* subscribes and pulls events, the 30 seconds in which an alarm is not    *)
(* told again, the table of alerts with its handlers, the queue to the one *)
(* goroutine that pushes alerts over the channels that are on, the motion  *)
(* clips, and the end of the process.  One run of the process.             *)
(***************************************************************************)
EXTENDS Naturals, Sequences, FiniteSets

CONSTANTS
    Cam,                \* the ONVIF cameras there were at the start
    Topic,              \* alarm types; "motion" is one
    Channel,            \* webhook, email, sms
    Quiet,              \* duplicated: 30 seconds
    Cooldown,           \* motion_record.cooldown
    ClipTime,           \* motion_record.duration
    AlertQueueCap,      \* alertCh: 1000
    Guard,              \* requests that acknowledge or resolve
    AlarmsMaxNow,       \* bound: the clock
    MaxDeedsOnAlerts,   \* bound: requests to the table and to the settings
    MaxAlarmFaults      \* bound: failures of the camera and of the table

ASSUME AlarmTimes == Quiet \in Nat \ {0} /\ Cooldown \in Nat \ {0} /\ AlertQueueCap \in Nat \ {0}

VARIABLES
    alarmsNow,
    watch,         \* watch[c]: "trying", "pulling", "pausing" or "ended"
    raised,        \* raised[c]: types the camera holds for the next pull
    pulled,        \* pulled[c]: types of the last pull still to be handled
    telling,       \* telling[c]: the alarm c's goroutine is at, and its number in the table
    lastRecord,    \* lastRecord[c][t]: a time, 0 for none
    alerts,        \* the table: <<[cam, topic, status], ...>>
    alertCh,       \* numbers of alerts
    sender,        \* "off", "idle", "sending", "ended"
    pushing,       \* channels of the alert being sent that have not returned
    channelsOn,
    motionRecordLast,   \* motionRecordLast[c], 0 for none
    clips,              \* motion clips: [cam, from, at]; at: "filming", "saved", "failed"
    doing,              \* doing[g]: [alert, to], the alert a request has read
    ending,             \* "no", "alerts" (alert.Stop called), "events"
    alertDeeds, alarmFaults,
    \* Kept for the properties:
    heard,         \* alarms handled: [cam, topic, at]
    recorded,      \* alarms lastRecord was set for
    savedAlarms,         \* alarms saved in the table
    cleared        \* numbers of alerts that were deleted

watchVars == <<watch, raised, pulled, telling>>
tableVars == <<alerts, doing, cleared>>
pushVars  == <<alertCh, sender, pushing, channelsOn>>
eventVars == <<lastRecord, motionRecordLast, clips, heard, recorded, savedAlarms>>
alarmVars == <<alarmsNow, watchVars, tableVars, pushVars, eventVars, ending, alertDeeds,
               alarmFaults>>

Nothing == [alert |-> 0, to |-> "none"]
NoAlarm == [topic |-> "none", at |-> 0, alert |-> 0]

\* alert.Start starts its goroutine only if alerts are enabled at that time.
AlarmsInit ==
    /\ alarmsNow = 1
    /\ watch = [c \in Cam |-> "trying"]
    /\ raised = [c \in Cam |-> {}] /\ pulled = [c \in Cam |-> {}]
    /\ telling = [c \in Cam |-> NoAlarm]
    /\ lastRecord = [c \in Cam |-> [t \in Topic |-> 0]]
    /\ sender \in {"idle", "off"}
    /\ channelsOn \in SUBSET Channel
    /\ alertCh = <<>> /\ pushing = {} /\ alerts = <<>>
    /\ motionRecordLast = [c \in Cam |-> 0] /\ clips = {}
    /\ doing = [g \in Guard |-> Nothing]
    /\ ending = "no" /\ alertDeeds = 0 /\ alarmFaults = 0
    /\ heard = {} /\ recorded = {} /\ savedAlarms = {} /\ cleared = {}

AlarmFault == alarmFaults < MaxAlarmFaults /\ alarmFaults' = alarmFaults + 1
AlertDeed       == alertDeeds < MaxDeedsOnAlerts /\ alertDeeds' = alertDeeds + 1

-----------------------------------------------------------------------------
(* The camera's events.                                                    *)

\* Without a subscription the camera keeps nothing.
Raise(c, t) ==
    /\ watch[c] = "pulling" /\ t \notin raised[c]
    /\ raised' = [raised EXCEPT ![c] = @ \cup {t}]
    /\ UNCHANGED <<alarmsNow, watch, pulled, telling, tableVars, pushVars, eventVars, ending,
                   alertDeeds, alarmFaults>>

\* subscribeLoop
Subscribe(c) ==
    /\ ending # "events"
    /\ \/ watch[c] = "trying"  /\ watch' = [watch EXCEPT ![c] = "pulling"] /\ UNCHANGED alarmFaults
       \/ watch[c] = "trying"  /\ AlarmFault /\ watch' = [watch EXCEPT ![c] = "pausing"]
       \/ watch[c] = "pausing" /\ watch' = [watch EXCEPT ![c] = "trying"] /\ UNCHANGED alarmFaults
    /\ UNCHANGED <<alarmsNow, raised, pulled, telling, tableVars, pushVars, eventVars, ending, alertDeeds>>

\* pullLoop: the events of one answer; an error or the end of the subscription
\* loses what the camera held.
Pull(c) ==
    /\ watch[c] = "pulling" /\ pulled[c] = {} /\ telling[c] = NoAlarm
    /\ raised' = [raised EXCEPT ![c] = {}]
    /\ \/ raised[c] # {} /\ pulled' = [pulled EXCEPT ![c] = raised[c]]
          /\ UNCHANGED <<watch, alarmFaults>>
       \/ AlarmFault /\ watch' = [watch EXCEPT ![c] = "pausing"] /\ UNCHANGED pulled
    /\ UNCHANGED <<alarmsNow, telling, tableVars, pushVars, eventVars, ending, alertDeeds>>

LeaveLoop(c) ==
    /\ ending = "events" /\ watch[c] # "ended" /\ pulled[c] = {} /\ telling[c] = NoAlarm
    /\ watch' = [watch EXCEPT ![c] = "ended"] /\ raised' = [raised EXCEPT ![c] = {}]
    /\ UNCHANGED <<alarmsNow, pulled, telling, tableVars, pushVars, eventVars, ending, alertDeeds,
                   alarmFaults>>

\* Mutant: every repetition starts the quiet time anew.
duplicated_Sliding(c, t) ==
    /\ lastRecord[c][t] # 0 /\ alarmsNow - lastRecord[c][t] < Quiet
    /\ lastRecord' = [lastRecord EXCEPT ![c][t] = alarmsNow]
duplicated(c, t) ==
    /\ lastRecord[c][t] # 0 /\ alarmsNow - lastRecord[c][t] < Quiet
    /\ UNCHANGED lastRecord

\* OnAlert: into the queue, or dropped if it is full.
OnAlert(a) == alertCh' = IF Len(alertCh) < AlertQueueCap THEN Append(alertCh, a) ELSE alertCh

\* TriggerMotionRecording, for a camera that records on motion.
TriggerMotionRecording(c) ==
    IF motionRecordLast[c] # 0 /\ alarmsNow - motionRecordLast[c] < Cooldown
    THEN UNCHANGED <<motionRecordLast, clips>>
    ELSE /\ motionRecordLast' = [motionRecordLast EXCEPT ![c] = alarmsNow]
         /\ clips' = clips \cup {[cam |-> c, from |-> alarmsNow, at |-> "filming"]}

\* handleEvent, one event after the other: it is in the quiet time of the last one,
\* or marks its own; others come between that, the INSERT and what main.go does.
HandleEvent(c, t) ==
    LET alarm == [cam |-> c, topic |-> t, at |-> alarmsNow] IN
    /\ telling[c] = NoAlarm
    /\ t \in pulled[c] /\ pulled' = [pulled EXCEPT ![c] = @ \ {t}]
    /\ heard' = heard \cup {alarm}
    /\ \/ duplicated(c, t) /\ UNCHANGED <<telling, recorded>>
       \/ /\ lastRecord[c][t] = 0 \/ alarmsNow - lastRecord[c][t] >= Quiet
          /\ lastRecord' = [lastRecord EXCEPT ![c][t] = alarmsNow]
          /\ recorded' = recorded \cup {alarm}
          /\ telling' = [telling EXCEPT ![c] = [topic |-> t, at |-> alarmsNow, alert |-> 0]]
    /\ UNCHANGED <<alarmsNow, watch, raised, tableVars, pushVars, motionRecordLast, clips,
                   savedAlarms, ending, alertDeeds, alarmFaults>>

\* m.db.Create: an alert that cannot be saved is told to nobody.
SaveAlert(c) ==
    LET t == telling[c].topic IN
    /\ telling[c] # NoAlarm /\ telling[c].alert = 0
    /\ \/ /\ alerts' = Append(alerts, [cam |-> c, topic |-> t, status |-> "new"])
          /\ telling' = [telling EXCEPT ![c].alert = Len(alerts) + 1]
          /\ savedAlarms' = savedAlarms \cup {[cam |-> c, topic |-> t, at |-> telling[c].at]}
          /\ UNCHANGED alarmFaults
       \/ AlarmFault /\ telling' = [telling EXCEPT ![c] = NoAlarm] /\ UNCHANGED <<alerts, savedAlarms>>
    /\ UNCHANGED <<alarmsNow, watch, raised, pulled, doing, cleared, pushVars, lastRecord,
                   motionRecordLast, clips, heard, recorded, ending, alertDeeds>>

\* m.onAlert (main.go): queued, and filmed if it is motion.
TellAlert(c) ==
    /\ telling[c].alert # 0 /\ telling' = [telling EXCEPT ![c] = NoAlarm]
    /\ OnAlert(telling[c].alert)
    /\ IF telling[c].topic = "motion" THEN TriggerMotionRecording(c)
       ELSE UNCHANGED <<motionRecordLast, clips>>
    /\ UNCHANGED <<alarmsNow, watch, raised, pulled, tableVars, sender, pushing, channelsOn,
                   lastRecord, heard, recorded, savedAlarms, ending, alertDeeds, alarmFaults>>

\* runMotionRecording: ffmpeg and the row of the recording, or neither.
RunMotionRecording(k) ==
    /\ k \in clips /\ k.at = "filming"
    /\ \/ /\ alarmsNow >= k.from + ClipTime
          /\ clips' = (clips \ {k}) \cup {[k EXCEPT !.at = "saved"]} /\ UNCHANGED alarmFaults
       \/ AlarmFault /\ clips' = (clips \ {k}) \cup {[k EXCEPT !.at = "failed"]}
    /\ UNCHANGED <<alarmsNow, watchVars, tableVars, pushVars, lastRecord, motionRecordLast, heard,
                   recorded, savedAlarms, ending, alertDeeds>>

-----------------------------------------------------------------------------
(* The pushes.                                                             *)

\* processLoop and sendAlert: the channels that are on at that moment.
SendAlert ==
    /\ sender = "idle" /\ alertCh # <<>>
    /\ alertCh' = Tail(alertCh) /\ pushing' = channelsOn
    /\ sender' = IF channelsOn = {} THEN "idle" ELSE "sending"
    /\ UNCHANGED <<alarmsNow, watchVars, tableVars, channelsOn, eventVars, ending,
                   alertDeeds, alarmFaults>>

\* A channel returns, with or without an error, which is only logged.  Nothing
\* says that smtp.SendMail ever does.
ChannelReturns(ch) ==
    /\ ch \in pushing /\ pushing' = pushing \ {ch}
    /\ sender' = IF pushing' = {} THEN "idle" ELSE "sending"
    /\ UNCHANGED <<alarmsNow, watchVars, tableVars, alertCh, channelsOn, eventVars,
                   ending, alertDeeds, alarmFaults>>
sendWebhook == ChannelReturns("webhook")
sendEmail   == ChannelReturns("email")
sendSMS     == ChannelReturns("sms")

\* updateAlertConfig: enabling alerts later starts no goroutine, disabling them
\* ends none.
UpdateAlertConfig ==
    /\ AlertDeed
    /\ channelsOn' \in SUBSET Channel
    /\ UNCHANGED <<alarmsNow, watchVars, tableVars, alertCh, sender, pushing, eventVars, ending,
                   alarmFaults>>

\* The end of the process: alert.Stop waits for its goroutine, then
\* onvifevent.Stop for the cameras'.
StopAlerts ==
    /\ ending = "no" /\ ending' = "alerts"
    /\ UNCHANGED <<alarmsNow, watchVars, tableVars, pushVars, eventVars, alertDeeds, alarmFaults>>
LeaveProcessLoop ==
    /\ ending = "alerts" /\ sender = "idle" /\ sender' = "ended"
    /\ UNCHANGED <<alarmsNow, watchVars, tableVars, alertCh, pushing, channelsOn,
                   eventVars, ending, alertDeeds, alarmFaults>>
StopEvents ==
    /\ ending = "alerts" /\ sender \in {"off", "ended"} /\ ending' = "events"
    /\ UNCHANGED <<alarmsNow, watchVars, tableVars, pushVars, eventVars, alertDeeds, alarmFaults>>

-----------------------------------------------------------------------------
(* The table's handlers.                                                   *)
AlertThere(a) == a \in 1..Len(alerts) /\ alerts[a].status # "gone"

ReadAlert(g, a, to) ==
    /\ doing[g] = Nothing /\ AlertThere(a) /\ AlertDeed
    /\ doing' = [doing EXCEPT ![g] = [alert |-> a, to |-> to]]
    /\ UNCHANGED <<alarmsNow, watchVars, alerts, cleared, pushVars, eventVars, ending, alarmFaults>>
AcknowledgeAlert(g, a) == ReadAlert(g, a, "acknowledged")
ResolveAlert(g, a)     == ReadAlert(g, a, "resolved")

\* Updates on the row that was read, if it is still there.
UpdateAlert(g) ==
    /\ doing[g] # Nothing /\ doing' = [doing EXCEPT ![g] = Nothing]
    /\ alerts' = IF AlertThere(doing[g].alert)
                 THEN [alerts EXCEPT ![doing[g].alert].status = doing[g].to] ELSE alerts
    /\ UNCHANGED <<alarmsNow, watchVars, cleared, pushVars, eventVars, ending, alertDeeds,
                   alarmFaults>>

Remove(A) ==
    /\ AlertDeed /\ A # {} /\ cleared' = cleared \cup A
    /\ alerts' = [a \in DOMAIN alerts |->
                     IF a \in A THEN [alerts[a] EXCEPT !.status = "gone"] ELSE alerts[a]]
    /\ UNCHANGED <<alarmsNow, watchVars, doing, pushVars, eventVars, ending, alarmFaults>>
DeleteAlert(a) == AlertThere(a) /\ Remove({a})
ClearAlerts    == Remove(DOMAIN alerts)

SecondGoes ==
    /\ alarmsNow < AlarmsMaxNow /\ alarmsNow' = alarmsNow + 1
    /\ UNCHANGED <<watchVars, tableVars, pushVars, eventVars, ending, alertDeeds, alarmFaults>>

AlarmsNext ==
    \/ \E c \in Cam : Subscribe(c) \/ Pull(c) \/ LeaveLoop(c) \/ SaveAlert(c) \/ TellAlert(c)
    \/ \E c \in Cam, t \in Topic : Raise(c, t) \/ HandleEvent(c, t)
    \/ \E k \in clips : RunMotionRecording(k)
    \/ SendAlert \/ sendWebhook \/ sendEmail \/ sendSMS
    \/ UpdateAlertConfig \/ StopAlerts \/ LeaveProcessLoop \/ StopEvents
    \/ \E g \in Guard : UpdateAlert(g)
    \/ \E g \in Guard, a \in 1..Len(alerts) : AcknowledgeAlert(g, a) \/ ResolveAlert(g, a)
    \/ \E a \in 1..Len(alerts) : DeleteAlert(a)
    \/ ClearAlerts \/ SecondGoes

-----------------------------------------------------------------------------
SameAlarm(x, y) == x.cam = y.cam /\ x.topic = y.topic

\* An alarm that goes on is told again once the quiet time since it was last
\* told is over, however often the camera repeats it in between; and what
\* silences it is an alert in the table, one about to be put there, or one whose
\* INSERT failed, which is lost and silences the next (onvifevent/manager.go:174, 190).
BeingSaved(r) == telling[r.cam] = [topic |-> r.topic, at |-> r.at, alert |-> 0]
AlarmsTold ==
    /\ \A h \in heard : \E r \in recorded :
          SameAlarm(r, h) /\ r.at <= h.at /\ h.at < r.at + Quiet
    /\ Cardinality({ r \in recorded \ savedAlarms : ~BeingSaved(r) }) <= alarmFaults

\* Motion that was saved as an alert is in a clip, or within the cooldown of one
\* that was begun, once its alert was told.
MotionFilmed ==
    \A h \in savedAlarms : h.topic = "motion" =>
        \/ telling[h.cam].alert # 0 /\ telling[h.cam].topic = "motion" /\ telling[h.cam].at = h.at
        \/ \E k \in clips : k.cam = h.cam /\ h.at < k.from + Cooldown

\* A request that has read an alert does not bring it back after it was deleted.
ClearedStaysCleared == \A a \in cleared : alerts[a].status = "gone"

AlertsHold == AlarmsTold /\ MotionFilmed /\ ClearedStaysCleared
=============================================================================
