----------------------------- MODULE CameraRuns -----------------------------
(***************************************************************************)
(* The camera manager of services/svc-vision, for one camera: an instance  *)
(* in its map, a goroutine (runCamera) that connects and reconnects, the   *)
(* ffmpeg streams it starts, and the requests that switch recording on and *)
(* off, restart the camera or delete it.  They talk through a stop channel *)
(* and a done channel, both replaced at every start; the goroutine looks   *)
(* the instance up and reads its fields without a lock.                    *)
(*                                                                         *)
(* A start makes a pair of channels and a goroutine, and an instance if    *)
(* the map has none: the number of the start names them all.               *)
(***************************************************************************)
EXTENDS Integers

CONSTANTS
    Request,       \* requests, 1..n in the order they arrive
    MaxReconnect,  \* camera.max_reconnect
    MaxStarts,     \* bound: starts
    MaxStreams     \* bound: streams created

Kind   == {"enable", "disable", "restart", "delete"}
Start  == 1..MaxStarts
Stream == 1..MaxStreams

ASSUME CameraAssumption ==
    Request \subseteq Nat /\ MaxReconnect \in Nat \ {0} /\ MaxStarts \in Nat \ {0} /\ MaxStreams \in Nat

VARIABLES
    motion,        \* recording on motion events only, fixed in a behaviour
    row,           \* the row of cameras: "on" | "off" (record_enabled) | "deleted"
    starts,        \* starts so far
    current,       \* the instance in m.cameras, 0 if there is none
    inst,          \* inst[i]: [chan, running, stream, tries]
    stopped,       \* stop channels closed
    done,          \* done channels closed
    loop,          \* loop[l]: [at, inst, chan, on, until, stream]
    stream,        \* stream[s]: "none" | "created" | "running" | "stopped"
    req,           \* req[r]: [at, kind, stream]
    dead,          \* a goroutine has panicked: the process is gone
    \* history, read only by the properties
    gaveUp,        \* a goroutine has ended after MaxReconnect attempts
    hasty,         \* a request has met another one, or a goroutine that was
                   \* just starting or ending
    crossed,       \* goroutines met by a stop or a start while connecting
    torn           \* the streams of those goroutines

objects == <<inst, stopped, done, stream>>
history == <<gaveUp, hasty, crossed, torn>>
vars == <<motion, row, starts, current, objects, loop, req, dead, history>>

NoLoop  == [at |-> "none", inst |-> 0, chan |-> 0, on |-> 0, until |-> 0, stream |-> 0]
Spawned == [NoLoop EXCEPT !.at = "spawned"]
Idle    == [at |-> "idle", kind |-> "enable", stream |-> 0]
NewInst(c) == [chan |-> c, running |-> FALSE, stream |-> 0, tries |-> 0]

\* loadCameras and Start, or CreateCamera.
Init ==
    /\ motion \in BOOLEAN /\ row \in {"on", "off"}
    /\ starts = 1 /\ current = 1
    /\ inst = [i \in Start |-> NewInst(1)]
    /\ stopped = {} /\ done = {}
    /\ loop = [l \in Start |-> IF l = 1 /\ row = "on" THEN Spawned ELSE NoLoop]
    /\ stream = [s \in Stream |-> "none"]
    /\ req = [r \in Request |-> Idle]
    /\ dead = FALSE
    /\ gaveUp = FALSE /\ hasty = FALSE /\ crossed = {} /\ torn = {}

-----------------------------------------------------------------------------
\* Goroutines that have not returned, and those that have found instance i.
Alive == { l \in Start : loop[l].at \notin {"none", "ended"} }
LoopsOf(i) == { l \in Alive : loop[l].inst = i }

\* The goroutine has been told to stop, on the channel it waits for or will look
\* at next, or is on its way out.
Told(l) ==
    CASE loop[l].at \in {"none", "spawned", "ended"} -> FALSE
      [] loop[l].at \in {"leaving", "closed"}        -> TRUE
      [] loop[l].at \in {"waiting", "connected"}     -> loop[l].on \in stopped
      [] OTHER -> inst[loop[l].inst].chan \in stopped

InProgress(r) == req[r].at \notin {"idle", "answered"}

\* The request acts while a goroutine is just starting or ending.
Notice == hasty' = (hasty \/ \E l \in Alive : loop[l].at = "spawned" \/ Told(l))

\* A stop or a start of instance i meets its goroutines.
Cross(L) == crossed' = crossed \cup L /\ torn' = torn \cup ({ loop[l].stream : l \in L } \cap Stream)

Go(r, at) == req' = [req EXCEPT ![r].at = at]
Answer(r) == req' = [req EXCEPT ![r] = [Idle EXCEPT !.at = "answered"]]
Known(r, next) == IF row # "deleted" THEN Go(r, next) ELSE Answer(r)

\* inst.stop(), under m.mu: close the stop channel unless it is closed, and take
\* the stream.
StopInst(i) ==
    /\ stopped' = stopped \cup {inst[i].chan}
    /\ inst' = [inst EXCEPT ![i].stream = 0]
    /\ Cross({ l \in LoopsOf(i) : loop[l].at \in {"connecting", "starting"} })

-----------------------------------------------------------------------------
(* The requests.                                                           *)

\* A request arrives: restart goes to StopCamera, delete to DeleteCamera,
\* start, stop and update look the camera up.  An update that leaves
\* record_enabled alone is an "enable" or a "disable", after what it reads.
Ask(r, kind) ==
    /\ req[r].at = "idle" /\ \A q \in Request : q < r => req[q].at # "idle"
    /\ req' = [req EXCEPT ![r].kind = kind,
                          ![r].at = CASE kind = "restart" -> "stop"
                                      [] kind = "delete"  -> "delete"
                                      [] OTHER -> "lookup"]
    /\ hasty' = (hasty \/ \E q \in Request : InProgress(q))
    /\ UNCHANGED <<motion, row, starts, current, objects, loop, dead, gaveUp, crossed, torn>>

\* GetCamera
Lookup(r) ==
    /\ req[r].at = "lookup" /\ Known(r, "save")
    /\ UNCHANGED <<motion, row, starts, current, objects, loop, dead, history>>

\* UpdateCamera: db.Save, which inserts the row again if it has gone meanwhile.
Save(r) ==
    /\ req[r].at = "save"
    /\ row' = IF req[r].kind = "enable" THEN "on" ELSE "off"
    /\ Go(r, "decide")
    /\ UNCHANGED <<motion, starts, current, objects, loop, dead, history>>

\* UpdateCamera: whether to stop or to start hangs on the flag of the goroutine.
Decide(r) ==
    /\ req[r].at = "decide"
    /\ IF current = 0 \/ inst[current].running = (req[r].kind = "enable")
       THEN Answer(r)
       ELSE Go(r, IF req[r].kind = "enable" THEN "start" ELSE "stop")
    /\ Notice
    /\ UNCHANGED <<motion, row, starts, current, objects, loop, dead, gaveUp, crossed, torn>>

\* StartCamera: GetCamera
StartLookup(r) ==
    /\ req[r].at = "start" /\ Known(r, "make")
    /\ UNCHANGED <<motion, row, starts, current, objects, loop, dead, history>>

\* Goroutines the new one will meet on the instance.
Rivals == LoopsOf(current) \cup { l \in Alive : loop[l].at = "spawned" }

\* Mutant: the channels of an instance are not replaced.
StartCamera_OldChannel(r) ==
    LET c == starts + 1 IN
    /\ req[r].at = "make" /\ starts < MaxStarts
    /\ starts' = c
    /\ IF current = 0
       THEN /\ current' = c
            /\ inst' = [inst EXCEPT ![c] = NewInst(c)]
       ELSE /\ inst' = [inst EXCEPT ![current].tries = 0]
            /\ UNCHANGED current
    /\ Cross(IF Rivals = {} THEN {} ELSE Rivals \cup {c})
    /\ loop' = [loop EXCEPT ![c] = Spawned]
    /\ Answer(r) /\ Notice
    /\ UNCHANGED <<motion, row, stopped, done, stream, dead, gaveUp>>

\* StartCamera: new channels for the instance, or a new instance; a goroutine.
StartCamera(r) ==
    LET c == starts + 1 IN
    /\ req[r].at = "make" /\ starts < MaxStarts
    /\ starts' = c
    /\ IF current = 0
       THEN /\ current' = c
            /\ inst' = [inst EXCEPT ![c] = NewInst(c)]
       ELSE /\ inst' = [inst EXCEPT ![current].chan = c, ![current].tries = 0]
            /\ UNCHANGED current
    /\ Cross(IF Rivals = {} THEN {} ELSE Rivals \cup {c})
    /\ loop' = [loop EXCEPT ![c] = Spawned]
    /\ Answer(r) /\ Notice
    /\ UNCHANGED <<motion, row, stopped, done, stream, dead, gaveUp>>

\* StopCamera, under m.mu.
StopCamera(r) ==
    /\ req[r].at = "stop"
    /\ IF current = 0
       THEN Answer(r) /\ UNCHANGED <<inst, stopped, crossed, torn>>
       ELSE /\ req' = [req EXCEPT ![r].at = "halt", ![r].stream = inst[current].stream]
            /\ StopInst(current)
    /\ Notice
    /\ UNCHANGED <<motion, row, starts, current, done, stream, loop, dead, gaveUp>>

\* DeleteCamera, under m.mu.
DeleteCamera(r) ==
    /\ req[r].at = "delete"
    /\ IF current = 0
       THEN Go(r, "erase") /\ UNCHANGED <<inst, stopped, crossed, torn>>
       ELSE /\ req' = [req EXCEPT ![r].at = "halt", ![r].stream = inst[current].stream]
            /\ StopInst(current)
    /\ current' = 0
    /\ Notice
    /\ UNCHANGED <<motion, row, starts, done, stream, loop, dead, gaveUp>>

\* Mutant: DeleteCamera leaves the stream alone.
Halt_NotOnDelete(r) ==
    /\ req[r].at = "halt"
    /\ stream' = [s \in Stream |-> IF s = req[r].stream /\ stream[s] = "running"
                                      /\ req[r].kind # "delete"
                                   THEN "stopped" ELSE stream[s]]
    /\ req' = [req EXCEPT ![r].stream = 0,
                          ![r].at = IF req[r].kind = "delete" THEN "erase" ELSE "await"]
    /\ UNCHANGED <<motion, row, starts, current, inst, stopped, done, loop, dead, history>>

\* stream.Stop(), outside the lock: nothing happens to a stream not yet started.
Halt(r) ==
    /\ req[r].at = "halt"
    /\ stream' = [s \in Stream |-> IF s = req[r].stream /\ stream[s] = "running"
                                   THEN "stopped" ELSE stream[s]]
    /\ req' = [req EXCEPT ![r].stream = 0,
                          ![r].at = IF req[r].kind = "delete" THEN "erase" ELSE "await"]
    /\ UNCHANGED <<motion, row, starts, current, inst, stopped, done, loop, dead, history>>

\* StopCamera: the done channel is closed, or fifteen seconds have passed;
\* RestartCamera goes on to StartCamera.
Await(r) ==
    /\ req[r].at = "await"
    /\ IF req[r].kind = "restart" THEN Go(r, "start") ELSE Answer(r)
    /\ UNCHANGED <<motion, row, starts, current, objects, loop, dead, history>>

\* DeleteCamera: db.Delete
Erase(r) ==
    /\ req[r].at = "erase"
    /\ row' = "deleted"
    /\ Answer(r)
    /\ UNCHANGED <<motion, starts, current, objects, loop, dead, history>>

-----------------------------------------------------------------------------
(* runCamera and connectCamera.                                            *)

At(l, at) == loop' = [loop EXCEPT ![l].at = at, ![l].on = 0, ![l].until = 0]
Closed(l) == inst[loop[l].inst].chan \in stopped

\* The goroutine looks its instance up: there may be none by now.
Begin(l) ==
    /\ loop[l].at = "spawned"
    /\ IF current = 0
       THEN dead' = TRUE /\ UNCHANGED <<inst, loop>>
       ELSE /\ loop' = [loop EXCEPT ![l].at = "check", ![l].inst = current,
                                    ![l].chan = inst[current].chan]
            /\ inst' = [inst EXCEPT ![current].running = TRUE]
            /\ UNCHANGED dead
    /\ UNCHANGED <<motion, row, starts, current, stopped, done, stream, req, history>>

Check(l) ==
    /\ loop[l].at = "check"
    /\ At(l, IF Closed(l) THEN "leaving" ELSE "connecting")
    /\ UNCHANGED <<motion, row, starts, current, objects, req, dead, history>>

\* connectCamera fails: once more after reconnect_interval, or never again.
ConnectFails(l) ==
    LET i == loop[l].inst
        last == inst[i].tries + 1 >= MaxReconnect IN
    /\ loop[l].at = "connecting"
    /\ inst' = [inst EXCEPT ![i].tries = @ + 1]
    /\ IF last THEN At(l, "leaving")
       ELSE loop' = [loop EXCEPT ![l].at = "waiting", ![l].on = inst[i].chan]
    /\ gaveUp' = (gaveUp \/ last)
    /\ UNCHANGED <<motion, row, starts, current, stopped, done, stream, req, dead,
                   hasty, crossed, torn>>

\* connectCamera puts the stream where a stop finds it, and then starts it.
CreateStream(l, s) ==
    /\ loop[l].at = "connecting" /\ ~motion
    /\ stream[s] = "none" /\ \A t \in Stream : t < s => stream[t] # "none"
    /\ stream' = [stream EXCEPT ![s] = "created"]
    /\ inst' = [inst EXCEPT ![loop[l].inst].stream = s]
    /\ loop' = [loop EXCEPT ![l].at = "starting", ![l].stream = s]
    /\ torn' = IF l \in crossed THEN torn \cup {s} ELSE torn
    /\ UNCHANGED <<motion, row, starts, current, stopped, done, req, dead, gaveUp, hasty,
                   crossed>>

Connected(l) ==
    /\ loop[l].at = "starting" \/ (loop[l].at = "connecting" /\ motion)
    /\ stream' = [s \in Stream |-> IF s = loop[l].stream /\ stream[s] = "created"
                                   THEN "running" ELSE stream[s]]
    /\ inst' = [inst EXCEPT ![loop[l].inst].tries = 0]
    /\ At(l, "online")
    /\ UNCHANGED <<motion, row, starts, current, stopped, done, req, dead, history>>

\* The select takes the channels and the stream the instance has at this moment.
Select(l) ==
    LET i == loop[l].inst IN
    /\ loop[l].at = "online"
    /\ loop' = [loop EXCEPT ![l].at = "connected", ![l].on = inst[i].chan,
                            ![l].until = inst[i].stream]
    /\ UNCHANGED <<motion, row, starts, current, objects, req, dead, history>>

\* Mutant: the last select of runCamera does not listen to the stop channel.
Stopped_Deaf(l) ==
    /\ loop[l].at = "waiting" /\ loop[l].on \in stopped
    /\ At(l, "leaving")
    /\ UNCHANGED <<motion, row, starts, current, objects, req, dead, history>>

\* A goroutine waiting to reconnect, or for the end of its stream, is stopped.
Stopped(l) ==
    /\ loop[l].at \in {"waiting", "connected"} /\ loop[l].on \in stopped
    /\ At(l, "leaving")
    /\ UNCHANGED <<motion, row, starts, current, objects, req, dead, history>>

\* The interval has passed, or the stream has ended.
Again(l) ==
    /\ \/ loop[l].at = "waiting"
       \/ loop[l].at = "connected" /\ loop[l].until # 0 /\ stream[loop[l].until] = "stopped"
    /\ At(l, "check")
    /\ UNCHANGED <<motion, row, starts, current, objects, req, dead, history>>

\* The deferred functions: the done channel is closed first, twice is a panic,
CloseDone(l) ==
    /\ loop[l].at = "leaving"
    /\ IF loop[l].chan \in done
       THEN dead' = TRUE /\ UNCHANGED <<done, loop>>
       ELSE done' = done \cup {loop[l].chan} /\ At(l, "closed") /\ UNCHANGED dead
    /\ UNCHANGED <<motion, row, starts, current, inst, stopped, stream, req, history>>

\* Mutant: the flag stays up.
End_FlagStays(l) ==
    /\ loop[l].at = "closed"
    /\ loop' = [loop EXCEPT ![l] = [NoLoop EXCEPT !.at = "ended"]]
    /\ UNCHANGED <<motion, row, starts, current, objects, req, dead, history>>

\* and the flag is lowered afterwards.
End(l) ==
    /\ loop[l].at = "closed"
    /\ loop' = [loop EXCEPT ![l] = [NoLoop EXCEPT !.at = "ended"]]
    /\ inst' = [inst EXCEPT ![loop[l].inst].running = FALSE]
    /\ UNCHANGED <<motion, row, starts, current, stopped, done, stream, req, dead, history>>

-----------------------------------------------------------------------------
Serve(r) ==
    \/ Lookup(r) \/ Save(r) \/ Decide(r) \/ StartLookup(r) \/ StartCamera(r)
    \/ StopCamera(r) \/ DeleteCamera(r) \/ Halt(r) \/ Await(r) \/ Erase(r)

Run(l) ==
    \/ Begin(l) \/ Check(l) \/ ConnectFails(l) \/ (\E s \in Stream : CreateStream(l, s))
    \/ Connected(l) \/ Select(l) \/ Stopped(l) \/ Again(l) \/ CloseDone(l) \/ End(l)

Next ==
    /\ ~dead
    /\ \/ \E r \in Request : Serve(r) \/ \E kind \in Kind : Ask(r, kind)
       \/ \E l \in Start : Run(l)

\* Goroutines are scheduled, and every attempt to connect has a time limit.
Spec == Init /\ [][Next]_vars
FairSpec == Spec /\ \A l \in Start : WF_vars(~dead /\ Run(l))

-----------------------------------------------------------------------------
\* No ffmpeg is left behind: a running stream is in the hands of the camera's
\* instance or of a request that is about to stop it, unless the goroutine that
\* started it was connecting when a stop came by, or met a second start
\* (service.go:477-480 against 1345-1364 and 1131-1137).
StreamsHeld ==
    \A s \in Stream : stream[s] = "running" =>
        \/ current # 0 /\ inst[current].stream = s
        \/ \E r \in Request : req[r].stream = s
        \/ s \in torn

\* The process survives unless a request met another one or a goroutine that
\* had not begun or not yet ended: no instance is looked up in vain and no done
\* channel is closed twice (service.go:210, 222-227).
DiesOnlyInHaste == dead => hasty

\* A camera whose row says "record" has a goroutine that has not been told to
\* stop, as soon as no request is under way; the exceptions are a goroutine that
\* gave up, and requests that came in haste (service.go:1070-1100).
EnabledRuns ==
    ~dead /\ ~hasty /\ ~gaveUp /\ row = "on" /\ (\A r \in Request : ~InProgress(r)) =>
        current # 0 /\ \E l \in Alive : ~Told(l)

\* A goroutine that has been told to stop, and is not given a new channel before
\* it looks, ends: wherever it waits it hears the stop channel (service.go:229-270).
StopIsHeard == \A l \in Start : []<>(~Told(l) \/ dead)
=============================================================================
