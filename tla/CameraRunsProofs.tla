-------------------------- MODULE CameraRunsProofs --------------------------
(***************************************************************************)
(* CameraRuns for any number of requests, starts and streams.  Two         *)
(* invariants carry the proofs.  StreamInv holds in every behaviour and    *)
(* follows a stream from the goroutine that makes it to the instance, the  *)
(* request or the set of those torn from both.  OrderInv says what is left *)
(* of the two channels and the unlocked fields while no request has met    *)
(* another one or a goroutine between two lives: one goroutine at a time,  *)
(* on the channels of its own start.                                       *)
(***************************************************************************)
EXTENDS CameraRuns, TLAPS

NoneOr(S) == {0} \cup S

IsInst(x) ==
    /\ x = [chan |-> x.chan, running |-> x.running, stream |-> x.stream, tries |-> x.tries]
    /\ x.chan \in Start /\ x.running \in BOOLEAN /\ x.stream \in NoneOr(Stream) /\ x.tries \in Nat

IsLoop(x) ==
    /\ x = [at |-> x.at, inst |-> x.inst, chan |-> x.chan, on |-> x.on, until |-> x.until,
            stream |-> x.stream]
    /\ x.at \in {"none", "spawned", "check", "connecting", "waiting", "starting", "online",
                 "connected", "leaving", "closed", "ended"}
    /\ x.inst \in NoneOr(Start) /\ x.stream \in NoneOr(Stream)

IsReq(x) ==
    /\ x = [at |-> x.at, kind |-> x.kind, stream |-> x.stream]
    /\ x.at \in {"idle", "lookup", "save", "decide", "start", "make", "stop", "delete", "halt",
                 "await", "erase", "answered"}
    /\ x.kind \in Kind /\ x.stream \in NoneOr(Stream)

CameraTypes ==
    /\ motion \in BOOLEAN /\ row \in {"on", "off", "deleted"}
    /\ starts \in Start /\ current \in 0..starts
    /\ inst = [i \in Start |-> inst[i]] /\ \A i \in Start : IsInst(inst[i]) /\ inst[i].chan <= starts
    /\ stopped \subseteq 1..starts
    /\ loop = [l \in Start |-> loop[l]] /\ \A l \in Start : IsLoop(loop[l])
    /\ stream \in [Stream -> {"none", "created", "running", "stopped"}]
    /\ req = [r \in Request |-> req[r]] /\ \A r \in Request : IsReq(req[r])
    /\ crossed \subseteq 1..starts /\ torn \subseteq Stream

Begun(l) == l \in Alive /\ loop[l].at # "spawned"

\* l works on instance i, or will: a goroutine that begins takes the current one.
WorksOn(l, i) == (Begun(l) /\ loop[l].inst = i) \/ (loop[l].at = "spawned" /\ current = i)

\* Goroutines and channels are numbered by the starts so far.
Numbered ==
    /\ \A l \in Start : l > starts => loop[l] = NoLoop
    /\ \A l \in Alive : IF loop[l].at = "spawned" THEN loop[l] = Spawned ELSE loop[l].inst \in Start /\ loop[l].inst <= starts
    /\ \A r \in Request : req[r].stream # 0 => req[r].at = "halt"

\* Two goroutines on one instance have both been crossed, and what a crossed one
\* has started is known to be torn.
SharedIsCrossed ==
    /\ \A l, m \in Alive, i \in Start : WorksOn(l, i) /\ WorksOn(m, i) /\ l # m => l \in crossed
    /\ \A l \in crossed : loop[l].stream \in NoneOr(torn)

\* One that has not been crossed hears the channel of its instance; once that is
\* closed the instance has no stream, and none is on its way.
AloneIsInStep ==
    /\ \A l \in Alive, i \in Start :
        WorksOn(l, i) /\ l \notin crossed /\ inst[i].chan \in stopped => inst[i].stream = 0
    /\ \A l \in Start : Begun(l) /\ l \notin crossed =>
        LET i == loop[l].inst IN
        /\ loop[l].at \in {"waiting", "connected"} => loop[l].on = inst[i].chan
        /\ inst[i].chan \in stopped => loop[l].at \notin {"connecting", "starting"}
        /\ i # current => inst[i].chan \in stopped
        /\ loop[l].at = "starting" => inst[i].stream = loop[l].stream
        /\ loop[l].at = "connected" => inst[i].stream \in {0, loop[l].until}

\* The stream of an instance that can run is torn, or is that of a goroutine on it
\* that has started it and waits for it.
StreamsHaveMakers ==
    /\ \A i \in Start, s \in Stream : inst[i].stream = s /\ stream[s] \in {"created", "running"} =>
        \/ s \in torn
        \/ \E l \in Alive : /\ loop[l].inst = i /\ loop[l].stream = s
                            /\ loop[l].at \in {"starting", "online", "connected"}
    /\ \A l \in Start : loop[l].at = "starting" => loop[l].stream \in Stream
    /\ \A i \in Start, s \in Stream : inst[i].stream = s => stream[s] # "none"
    /\ motion => \A s \in Stream : stream[s] = "none"

StreamInv == CameraTypes /\ Numbered /\ SharedIsCrossed /\ AloneIsInStep /\ StreamsHaveMakers /\ StreamsHeld

-----------------------------------------------------------------------------
\* The goroutine of start l has been told to stop, on the channel of that start.
Over(l) == loop[l].at \in {"leaving", "closed"} \/ (loop[l].at # "spawned" /\ l \in stopped)

\* One goroutine at a time, on the channels of its own start, and the flag is up
\* while it runs.
OneGoroutine ==
    /\ \A l, m \in Alive : l = m
    /\ \A l \in Alive :
        IF loop[l].at = "spawned" THEN current # 0 /\ inst[current].chan = l /\ l \notin stopped
        ELSE /\ loop[l].chan = l /\ inst[loop[l].inst].chan = l /\ inst[loop[l].inst].running
             /\ loop[l].at \in {"waiting", "connected"} => loop[l].on = l
             /\ loop[l].inst = current \/ l \in stopped
    /\ done \subseteq Start /\ \A l \in done : loop[l].at \in {"closed", "ended"}
    /\ current # 0 /\ inst[current].running => \E l \in Alive : loop[l].inst = current

\* One request at a time, and what it has established by the step it is at.
OneRequest ==
    /\ \A q, r \in Request : InProgress(q) /\ InProgress(r) => q = r
    /\ \A r \in Request :
        /\ req[r].at \in {"save", "decide", "start", "make", "await"} => current # 0
        /\ req[r].at = "halt" /\ req[r].kind # "delete" => current # 0
        /\ req[r].at \in {"save", "decide"} => row # "deleted"
        /\ req[r].at \in {"lookup", "save", "decide"} => req[r].kind \in {"enable", "disable"}
        /\ req[r].at \in {"start", "make"} => req[r].kind \in {"enable", "restart"}
        /\ req[r].at \in {"stop", "await"} => req[r].kind \in {"disable", "restart"}
        /\ req[r].at = "halt" => req[r].kind \in {"disable", "restart", "delete"}
        /\ req[r].at \in {"delete", "erase"} => req[r].kind = "delete"
        /\ req[r].at \in {"decide", "stop", "halt", "await"} /\ req[r].kind = "disable" => row = "off"
        /\ req[r].at \in {"halt", "await", "start", "make"} => \A l \in Alive : Over(l)

\* The row, the map and the goroutine agree, but for the request under way.
RowIsServed ==
    /\ current = 0 => row = "deleted" \/ \E r \in Request : req[r].kind = "delete" /\ req[r].at \in {"halt", "erase"}
    /\ ~gaveUp /\ row = "on" /\ (\A r \in Request : InProgress(r) => req[r].at \in {"lookup", "save", "stop", "delete"})
         => \E l \in Alive : ~Over(l)

OrderInv == hasty \/ (~dead /\ OneRequest /\ OneGoroutine /\ RowIsServed)

-----------------------------------------------------------------------------
(* The steps once more, field by field: what follows only looks at these.  *)

OnlyLoop(l) ==
    /\ loop' = [m \in Start |-> loop'[m]] /\ IsLoop(loop'[l])
    /\ \A m \in Start : m # l => loop'[m] = loop[m]

OnlyReq(r) ==
    /\ req' = [q \in Request |-> req'[q]] /\ IsReq(req'[r])
    /\ \A q \in Request : q # r => req'[q] = req[q]

OnlyInst(i) ==
    /\ inst' = [j \in Start |-> inst'[j]] /\ IsInst(inst'[i])
    /\ \A j \in Start : j # i => inst'[j] = inst[j]

\* All but the number of failed attempts.
SameInst(i) ==
    OnlyInst(i) /\ \A j \in Start : /\ inst'[j].chan = inst[j].chan /\ inst'[j].stream = inst[j].stream
                                    /\ inst'[j].running = inst[j].running

StreamsTyped == stream' \in [Stream -> {"none", "created", "running", "stopped"}]

\* A goroutine goes to another place and keeps its instance and its stream.
MovesTo(l, at) ==
    /\ OnlyLoop(l)
    /\ loop'[l].at = at /\ loop'[l].inst = loop[l].inst /\ loop'[l].chan = loop[l].chan
    /\ loop'[l].stream = loop[l].stream

GoesTo(r, at) == OnlyReq(r) /\ req'[r].at = at /\ req'[r].kind = req[r].kind /\ req'[r].stream = req[r].stream
Answered(r)   == OnlyReq(r) /\ req'[r].at = "answered" /\ req'[r].kind = "enable" /\ req'[r].stream = 0

\* The current instance is stopped, and the request has its stream.
Halting(r) ==
    /\ OnlyReq(r)
    /\ req'[r].at = "halt" /\ req'[r].kind = req[r].kind /\ req'[r].stream = inst[current].stream
    /\ current \in Start /\ OnlyInst(current)
    /\ inst'[current].chan = inst[current].chan /\ inst'[current].stream = 0
    /\ inst'[current].running = inst[current].running
    /\ stopped' = stopped \cup {inst[current].chan} /\ inst[current].chan \in 1..starts
    /\ crossed \subseteq crossed' /\ crossed' \subseteq crossed \cup Alive
    /\ torn \subseteq torn' /\ torn' \subseteq Stream
    /\ \A l \in Alive : loop[l].inst = current /\ loop[l].at \in {"connecting", "starting"} => l \in crossed'
    /\ \A l \in crossed' : l \in crossed \/ loop[l].stream \in NoneOr(torn')

Hasty == hasty' <=> hasty \/ \E l \in Alive : loop[l].at = "spawned" \/ Told(l)

AskMoves(r, kind) ==
    /\ OnlyReq(r) /\ req[r].at = "idle"
    /\ req'[r].kind = kind /\ req'[r].stream = req[r].stream
    /\ kind = "restart" => req'[r].at = "stop"
    /\ kind = "delete" => req'[r].at = "delete"
    /\ kind \in {"enable", "disable"} => req'[r].at = "lookup"
    /\ hasty' <=> hasty \/ \E q \in Request : InProgress(q)
    /\ UNCHANGED <<motion, row, starts, current, inst, stopped, done, stream, loop, dead, gaveUp, crossed, torn>>

LookupMoves(r, from, to) ==
    /\ req[r].at = from
    /\ IF row # "deleted" THEN GoesTo(r, to) ELSE Answered(r)
    /\ UNCHANGED <<motion, row, starts, current, inst, stopped, done, stream, loop, dead, gaveUp, hasty, crossed, torn>>

SaveMoves(r) ==
    /\ req[r].at = "save" /\ GoesTo(r, "decide")
    /\ row' = IF req[r].kind = "enable" THEN "on" ELSE "off"
    /\ UNCHANGED <<motion, starts, current, inst, stopped, done, stream, loop, dead, gaveUp, hasty, crossed, torn>>

DecideMoves(r) ==
    /\ req[r].at = "decide" /\ Hasty
    /\ \/ Answered(r) /\ (current = 0 \/ (inst[current].running <=> req[r].kind = "enable"))
       \/ /\ current # 0 /\ (inst[current].running <=> req[r].kind # "enable")
          /\ IF req[r].kind = "enable" THEN GoesTo(r, "start") ELSE GoesTo(r, "stop")
    /\ UNCHANGED <<motion, row, starts, current, inst, stopped, done, stream, loop, dead, gaveUp, crossed, torn>>

StartMoves(r) ==
    /\ Answered(r) /\ req[r].at = "make" /\ Hasty
    /\ starts' = starts + 1 /\ starts \in Nat /\ starts' \in Start
    /\ OnlyLoop(starts') /\ loop'[starts'] = Spawned
    /\ current' = (IF current = 0 THEN starts' ELSE current)
    /\ current' \in Start /\ OnlyInst(current') /\ inst'[current'].chan = starts'
    /\ current = 0 => inst'[current'].stream = 0 /\ inst'[current'].running = FALSE
    /\ current # 0 => /\ inst'[current].stream = inst[current].stream
                      /\ inst'[current].running = inst[current].running
    /\ crossed' = crossed \cup (IF Rivals = {} THEN {} ELSE Rivals \cup {starts'})
    /\ torn \subseteq torn' /\ torn' \subseteq Stream
    /\ \A l \in crossed' : l \in crossed \/ l = starts' \/ loop[l].stream \in NoneOr(torn')
    /\ UNCHANGED <<motion, row, stopped, done, stream, dead, gaveUp>>

StopMoves(r) ==
    /\ req[r].at = "stop" /\ Hasty
    /\ IF current = 0 THEN Answered(r) /\ UNCHANGED <<inst, stopped, crossed, torn>> ELSE Halting(r)
    /\ UNCHANGED <<motion, row, starts, current, done, stream, loop, dead, gaveUp>>

DeleteMoves(r) ==
    /\ req[r].at = "delete" /\ Hasty /\ current' = 0
    /\ IF current = 0 THEN GoesTo(r, "erase") /\ UNCHANGED <<inst, stopped, crossed, torn>> ELSE Halting(r)
    /\ UNCHANGED <<motion, row, starts, done, stream, loop, dead, gaveUp>>

HaltMoves(r) ==
    /\ OnlyReq(r) /\ req[r].at = "halt" /\ StreamsTyped
    /\ req'[r].at = (IF req[r].kind = "delete" THEN "erase" ELSE "await")
    /\ req'[r].kind = req[r].kind /\ req'[r].stream = 0
    /\ \A s \in Stream : stream'[s] = IF s = req[r].stream /\ stream[s] = "running" THEN "stopped" ELSE stream[s]
    /\ UNCHANGED <<motion, row, starts, current, inst, stopped, done, loop, dead, gaveUp, hasty, crossed, torn>>

AwaitMoves(r) ==
    /\ req[r].at = "await"
    /\ IF req[r].kind = "restart" THEN GoesTo(r, "start") ELSE Answered(r)
    /\ UNCHANGED <<motion, row, starts, current, inst, stopped, done, stream, loop, dead, gaveUp, hasty, crossed, torn>>

EraseMoves(r) ==
    /\ req[r].at = "erase" /\ row' = "deleted" /\ Answered(r)
    /\ UNCHANGED <<motion, starts, current, inst, stopped, done, stream, loop, dead, gaveUp, hasty, crossed, torn>>

BeginMoves(l) ==
    /\ loop[l].at = "spawned"
    /\ IF current = 0 THEN dead' /\ UNCHANGED <<inst, loop>>
       ELSE /\ dead' = dead /\ OnlyLoop(l) /\ current \in Start /\ OnlyInst(current)
            /\ loop'[l].at = "check" /\ loop'[l].inst = current
            /\ loop'[l].chan = inst[current].chan /\ loop'[l].stream = loop[l].stream
            /\ inst'[current].chan = inst[current].chan
            /\ inst'[current].stream = inst[current].stream /\ inst'[current].running
    /\ UNCHANGED <<motion, row, starts, current, stopped, done, stream, req, gaveUp, hasty, crossed, torn>>

CheckMoves(l) ==
    /\ loop[l].at = "check"
    /\ IF Closed(l) THEN MovesTo(l, "leaving") ELSE MovesTo(l, "connecting")
    /\ UNCHANGED <<motion, row, starts, current, inst, stopped, done, stream, req, dead, gaveUp, hasty, crossed, torn>>

ConnectFailsMoves(l) ==
    /\ loop[l].at = "connecting" /\ loop[l].inst \in Start /\ SameInst(loop[l].inst)
    /\ \/ MovesTo(l, "leaving") /\ gaveUp'
       \/ MovesTo(l, "waiting") /\ loop'[l].on = inst[loop[l].inst].chan /\ (gaveUp' <=> gaveUp)
    /\ UNCHANGED <<motion, row, starts, current, stopped, done, stream, req, dead, hasty, crossed, torn>>

CreateStreamMoves(l, s) ==
    /\ loop[l].at = "connecting" /\ OnlyLoop(l) /\ loop[l].inst \in Start /\ OnlyInst(loop[l].inst)
    /\ loop'[l].at = "starting" /\ loop'[l].inst = loop[l].inst /\ loop'[l].chan = loop[l].chan
    /\ loop'[l].stream = s
    /\ \A i \in Start : /\ inst'[i].chan = inst[i].chan /\ inst'[i].running = inst[i].running
                        /\ inst'[i].stream = IF i = loop[l].inst THEN s ELSE inst[i].stream
    /\ ~motion /\ stream[s] = "none" /\ StreamsTyped
    /\ \A t \in Stream : stream'[t] = IF t = s THEN "created" ELSE stream[t]
    /\ torn' = IF l \in crossed THEN torn \cup {s} ELSE torn
    /\ UNCHANGED <<motion, row, starts, current, stopped, done, req, dead, gaveUp, hasty, crossed>>

ConnectedMoves(l) ==
    /\ loop[l].at = "starting" \/ (loop[l].at = "connecting" /\ motion)
    /\ MovesTo(l, "online") /\ loop[l].inst \in Start /\ SameInst(loop[l].inst) /\ StreamsTyped
    /\ \A s \in Stream : stream'[s] = IF s = loop[l].stream /\ stream[s] = "created" THEN "running" ELSE stream[s]
    /\ UNCHANGED <<motion, row, starts, current, stopped, done, req, dead, gaveUp, hasty, crossed, torn>>

SelectMoves(l) ==
    /\ loop[l].at = "online" /\ MovesTo(l, "connected")
    /\ loop'[l].on = inst[loop[l].inst].chan /\ loop'[l].until = inst[loop[l].inst].stream
    /\ UNCHANGED <<motion, row, starts, current, inst, stopped, done, stream, req, dead, gaveUp, hasty, crossed, torn>>

StoppedMoves(l) ==
    /\ loop[l].at \in {"waiting", "connected"} /\ loop[l].on \in stopped /\ MovesTo(l, "leaving")
    /\ UNCHANGED <<motion, row, starts, current, inst, stopped, done, stream, req, dead, gaveUp, hasty, crossed, torn>>

AgainMoves(l) ==
    /\ \/ loop[l].at = "waiting"
       \/ loop[l].at = "connected" /\ loop[l].until # 0 /\ stream[loop[l].until] = "stopped"
    /\ MovesTo(l, "check")
    /\ UNCHANGED <<motion, row, starts, current, inst, stopped, done, stream, req, dead, gaveUp, hasty, crossed, torn>>

CloseDoneMoves(l) ==
    /\ loop[l].at = "leaving"
    /\ IF loop[l].chan \in done THEN dead' /\ UNCHANGED <<done, loop>>
       ELSE done' = done \cup {loop[l].chan} /\ dead' = dead /\ MovesTo(l, "closed")
    /\ UNCHANGED <<motion, row, starts, current, inst, stopped, stream, req, gaveUp, hasty, crossed, torn>>

EndMoves(l) ==
    /\ loop[l].at = "closed" /\ OnlyLoop(l) /\ loop[l].inst \in Start /\ OnlyInst(loop[l].inst)
    /\ loop'[l].at = "ended" /\ loop'[l].inst = 0 /\ loop'[l].stream = 0
    /\ inst'[loop[l].inst].running = FALSE
    /\ \A i \in Start : inst'[i].chan = inst[i].chan /\ inst'[i].stream = inst[i].stream
    /\ UNCHANGED <<motion, row, starts, current, stopped, done, stream, req, dead, gaveUp, hasty, crossed, torn>>

-----------------------------------------------------------------------------
(* The helpers of the actions.                                             *)

\* The current instance has a number.
LEMMA CurrentIsStart ==
  ASSUME CameraTypes, current # 0
  PROVE  current \in Start /\ starts \in Nat
<1>1. current \in 0..starts /\ starts \in 1..MaxStarts
  BY DEF CameraTypes, Start
<1> QED
  BY <1>1, CameraAssumption DEF Start

\* A goroutine goes to another place and keeps its instance and its stream.
LEMMA AtMoves ==
  ASSUME CameraTypes, NEW l \in Start,
         NEW at \in {"check", "connecting", "online", "leaving", "closed"}, At(l, at)
  PROVE  MovesTo(l, at)
<1>1. IsLoop(loop[l])
  BY DEF CameraTypes
<1>2. loop' = [m \in Start |-> loop'[m]] /\ \A m \in Start : m # l => loop'[m] = loop[m]
  BY DEF At, CameraTypes
<1>3. loop'[l] = [loop[l] EXCEPT !.at = at, !.on = 0, !.until = 0]
  BY DEF At, CameraTypes
<1>4. loop'[l] = [at |-> at, inst |-> loop[l].inst, chan |-> loop[l].chan, on |-> 0, until |-> 0,
                  stream |-> loop[l].stream]
  BY <1>1, <1>3 DEF IsLoop
<1> QED
  BY <1>1, <1>2, <1>4 DEF MovesTo, OnlyLoop, IsLoop

\* A request goes to its next step.
LEMMA GoMoves ==
  ASSUME CameraTypes, NEW r \in Request,
         NEW at \in {"save", "decide", "start", "make", "stop", "await", "erase"}, Go(r, at)
  PROVE  GoesTo(r, at)
<1>1. IsReq(req[r])
  BY DEF CameraTypes
<1>2. req' = [q \in Request |-> req'[q]] /\ \A q \in Request : q # r => req'[q] = req[q]
  BY DEF Go, CameraTypes
<1>3. req'[r] = [req[r] EXCEPT !.at = at]
  BY DEF Go, CameraTypes
<1>4. req'[r] = [at |-> at, kind |-> req[r].kind, stream |-> req[r].stream]
  BY <1>1, <1>3 DEF IsReq
<1> QED
  BY <1>1, <1>2, <1>4 DEF GoesTo, OnlyReq, IsReq

\* A request is answered.
LEMMA AnswerMoves ==
  ASSUME CameraTypes, NEW r \in Request, Answer(r)
  PROVE  Answered(r)
<1>1. req' = [q \in Request |-> req'[q]] /\ \A q \in Request : q # r => req'[q] = req[q]
  BY DEF Answer, CameraTypes
<1>2. req'[r] = [at |-> "answered", kind |-> "enable", stream |-> 0]
  BY DEF Answer, CameraTypes, Idle
<1> QED
  BY <1>1, <1>2 DEF Answered, OnlyReq, IsReq, Kind, NoneOr

\* A stop reaches the current instance: its channel is closed, its stream taken.
LEMMA StopTakes ==
  ASSUME CameraTypes, current # 0, StopInst(current), starts' = starts
  PROVE  /\ OnlyInst(current)
         /\ inst'[current].chan = inst[current].chan /\ inst'[current].stream = 0
         /\ inst'[current].running = inst[current].running
         /\ stopped' = stopped \cup {inst[current].chan} /\ inst[current].chan \in 1..starts
         /\ crossed \subseteq crossed' /\ crossed' \subseteq crossed \cup Alive
         /\ torn \subseteq torn' /\ torn' \subseteq Stream
         /\ \A l \in Alive : loop[l].inst = current /\ loop[l].at \in {"connecting", "starting"} => l \in crossed'
         /\ \A l \in crossed' : l \in crossed \/ loop[l].stream \in NoneOr(torn')
<1>0. current \in Start
  BY CurrentIsStart
<1>1. IsInst(inst[current]) /\ inst[current].chan \in 1..starts
  BY <1>0, CameraAssumption DEF CameraTypes, IsInst, Start
<1>2. inst' = [j \in Start |-> inst'[j]] /\ \A j \in Start : j # current => inst'[j] = inst[j]
  BY DEF StopInst, CameraTypes
<1>3. inst'[current] = [inst[current] EXCEPT !.stream = 0]
  BY <1>0 DEF StopInst, CameraTypes
<1>4. inst'[current] = [chan |-> inst[current].chan, running |-> inst[current].running, stream |-> 0,
                        tries |-> inst[current].tries]
  BY <1>1, <1>3 DEF IsInst
<1>5. IsInst(inst'[current]) /\ inst'[current].running = inst[current].running
  BY <1>1, <1>4 DEF IsInst, NoneOr
<1>6. \A l \in Alive : loop[l].stream \in NoneOr(Stream)
  BY DEF CameraTypes, IsLoop, Alive
<1>7. /\ crossed \subseteq crossed' /\ crossed' \subseteq crossed \cup Alive
      /\ torn \subseteq torn' /\ torn' \subseteq Stream
      /\ \A l \in Alive : loop[l].inst = current /\ loop[l].at \in {"connecting", "starting"} => l \in crossed'
      /\ \A l \in crossed' : l \in crossed \/ loop[l].stream \in NoneOr(torn')
  BY <1>6 DEF StopInst, Cross, LoopsOf, CameraTypes, NoneOr
<1> QED
  BY <1>1, <1>2, <1>4, <1>5, <1>7 DEF OnlyInst, StopInst, IsInst

-----------------------------------------------------------------------------
(* Each action makes the moves it is listed with.                          *)

\* A request arrives: it goes to its first step.
LEMMA AskShape ==
  ASSUME CameraTypes, NEW r \in Request, NEW kind \in Kind, Ask(r, kind)
  PROVE  AskMoves(r, kind)
<1>1. IsReq(req[r])
  BY DEF CameraTypes
<1> DEFINE at == CASE kind = "restart" -> "stop" [] kind = "delete" -> "delete" [] OTHER -> "lookup"
<1>2. /\ at \in {"stop", "delete", "lookup"}
      /\ kind = "restart" => at = "stop"
      /\ kind = "delete" => at = "delete"
      /\ kind \in {"enable", "disable"} => at = "lookup"
  BY DEF Kind
<1>3. req' = [req EXCEPT ![r].kind = kind, ![r].at = at] /\ req[r].at = "idle"
  BY DEF Ask
<1> HIDE DEF at
<1>4. req' = [q \in Request |-> req'[q]] /\ \A q \in Request : q # r => req'[q] = req[q]
  BY <1>3 DEF CameraTypes
<1>5. req'[r] = [req[r] EXCEPT !.kind = kind, !.at = at]
  BY <1>3 DEF CameraTypes
<1>6. req'[r] = [at |-> at, kind |-> kind, stream |-> req[r].stream]
  BY <1>1, <1>5 DEF IsReq
<1>7. hasty' <=> hasty \/ \E q \in Request : InProgress(q)
  BY Zenon DEF Ask
<1>8. OnlyReq(r) /\ req'[r].at = at /\ req'[r].kind = kind /\ req'[r].stream = req[r].stream
  BY <1>1, <1>2, <1>4, <1>6 DEF OnlyReq, IsReq
<1>9. UNCHANGED <<motion, row, starts, current, inst, stopped, done, stream, loop, dead, gaveUp, crossed, torn>>
  BY DEF Ask, objects
<1> QED
  BY <1>2, <1>3, <1>7, <1>8, <1>9 DEF AskMoves

\* A stop or a deletion takes the instance, where there is one.
LEMMA HaltShape ==
  ASSUME CameraTypes, NEW r \in Request,
         req' = [req EXCEPT ![r].at = "halt", ![r].stream = inst[current].stream],
         current # 0, StopInst(current), starts' = starts
  PROVE  Halting(r)
<1>0. current \in Start
  BY CurrentIsStart
<1>1. IsReq(req[r])
  BY DEF CameraTypes
<1>2. PICK s : s = inst[current].stream
  OBVIOUS
<1>3. req' = [q \in Request |-> req'[q]] /\ \A q \in Request : q # r => req'[q] = req[q]
  BY DEF CameraTypes
<1>4. s \in NoneOr(Stream) /\ req'[r] = [req[r] EXCEPT !.at = "halt", !.stream = s]
  BY <1>0, <1>2 DEF CameraTypes, IsInst
<1>5. req'[r] = [at |-> "halt", kind |-> req[r].kind, stream |-> s]
  BY <1>1, <1>4 DEF IsReq
<1> QED
  BY <1>0, <1>1, <1>2, <1>3, <1>4, <1>5, StopTakes DEF Halting, OnlyReq, IsReq

\* The short steps of a request.
LEMMA ShortShapes ==
  ASSUME CameraTypes, NEW r \in Request
  PROVE  /\ Lookup(r) => LookupMoves(r, "lookup", "save")
         /\ StartLookup(r) => LookupMoves(r, "start", "make")
         /\ Save(r) => SaveMoves(r)
         /\ Await(r) => AwaitMoves(r)
         /\ Erase(r) => EraseMoves(r)
         /\ StopCamera(r) => StopMoves(r)
         /\ DeleteCamera(r) => DeleteMoves(r)
<1>1. Lookup(r) => LookupMoves(r, "lookup", "save")
  BY GoMoves, AnswerMoves DEF Lookup, Known, LookupMoves, objects, history
<1>2. StartLookup(r) => LookupMoves(r, "start", "make")
  BY GoMoves, AnswerMoves DEF StartLookup, Known, LookupMoves, objects, history
<1>3. Save(r) => SaveMoves(r)
  BY GoMoves DEF Save, SaveMoves, objects, history
<1>4. Await(r) => AwaitMoves(r)
  BY GoMoves, AnswerMoves DEF Await, AwaitMoves, objects, history
<1>5. Erase(r) => EraseMoves(r)
  BY AnswerMoves DEF Erase, EraseMoves, objects, history
<1>6. Notice => Hasty
  BY Zenon DEF Notice, Hasty
<1>7. StopCamera(r) => StopMoves(r)
  BY <1>6, HaltShape, AnswerMoves DEF StopCamera, StopMoves
<1>8. DeleteCamera(r) => DeleteMoves(r)
  BY <1>6, HaltShape, GoMoves DEF DeleteCamera, DeleteMoves
<1> QED
  BY <1>1, <1>2, <1>3, <1>4, <1>5, <1>7, <1>8

\* What UpdateCamera does hangs on the flag.
LEMMA DecideShape ==
  ASSUME CameraTypes, NEW r \in Request, Decide(r)
  PROVE  DecideMoves(r)
<1>1. Hasty
  BY Zenon DEF Decide, Notice, Hasty
<1>2. CASE current = 0
  BY <1>1, <1>2, AnswerMoves DEF Decide, DecideMoves, objects
<1>3. CASE current # 0
  <2>1. inst[current].running \in BOOLEAN
    BY <1>3, CurrentIsStart DEF CameraTypes, IsInst
  <2>2. CASE inst[current].running = (req[r].kind = "enable")
    <3>1. inst[current].running <=> req[r].kind = "enable"
      BY <2>1, <2>2, Zenon
    <3>2. Answer(r)
      BY <2>2, Zenon DEF Decide
    <3> QED
      BY <1>1, <3>1, <3>2, AnswerMoves DEF Decide, DecideMoves, objects
  <2>3. CASE inst[current].running # (req[r].kind = "enable")
    <3>1. inst[current].running <=> req[r].kind # "enable"
      BY <2>1, <2>3, Zenon
    <3>2. Go(r, IF req[r].kind = "enable" THEN "start" ELSE "stop")
      BY <1>3, <2>3, Zenon DEF Decide
    <3> QED
      BY <1>1, <1>3, <3>1, <3>2, GoMoves DEF Decide, DecideMoves, objects
  <2> QED
    BY <2>2, <2>3
<1> QED
  BY <1>2, <1>3

\* A halt goes on to wait, or to erase the row.
LEMMA HaltedShape ==
  ASSUME CameraTypes, NEW r \in Request, Halt(r)
  PROVE  HaltMoves(r)
<1>1. IsReq(req[r])
  BY DEF CameraTypes
<1> DEFINE at == IF req[r].kind = "delete" THEN "erase" ELSE "await"
<1>2. at \in {"erase", "await"}
  OBVIOUS
<1>3. req' = [req EXCEPT ![r].stream = 0, ![r].at = at]
  BY DEF Halt
<1> HIDE DEF at
<1>4. req' = [q \in Request |-> req'[q]] /\ \A q \in Request : q # r => req'[q] = req[q]
  BY <1>3 DEF CameraTypes
<1>5. req'[r] = [req[r] EXCEPT !.stream = 0, !.at = at]
  BY <1>3 DEF CameraTypes
<1>6. req'[r] = [at |-> at, kind |-> req[r].kind, stream |-> 0]
  BY <1>1, <1>5 DEF IsReq
<1>7. stream' \in [Stream -> {"none", "created", "running", "stopped"}]
  BY DEF Halt, CameraTypes
<1>8. \A s \in Stream : stream'[s] = IF s = req[r].stream /\ stream[s] = "running" THEN "stopped" ELSE stream[s]
  BY DEF Halt
<1> QED
  BY <1>1, <1>2, <1>4, <1>6, <1>7, <1>8 DEF OnlyReq, IsReq, at, Halt, NoneOr, HaltMoves,
     StreamsTyped, objects, history

\* A start makes a goroutine on a channel of its own, and an instance if need be.
LEMMA StartShape ==
  ASSUME CameraTypes, NEW r \in Request, StartCamera(r)
  PROVE  StartMoves(r)
<1>0. PICK c : c = starts + 1
  OBVIOUS
<1>1. starts' = c /\ starts \in Start /\ c \in Start /\ starts \in Nat
  BY <1>0, CameraAssumption DEF StartCamera, CameraTypes, Start
<1>2. Answered(r) /\ req[r].at = "make"
  BY AnswerMoves DEF StartCamera
<1>3. IsLoop(Spawned)
  BY DEF IsLoop, Spawned, NoLoop, NoneOr
<1>4. OnlyLoop(c) /\ loop'[c] = Spawned
  BY <1>0, <1>1, <1>3 DEF StartCamera, OnlyLoop, CameraTypes
<1>5. /\ current' = (IF current = 0 THEN c ELSE current) /\ current' \in Start
      /\ current = 0 => inst' = [inst EXCEPT ![c] = NewInst(c)]
      /\ current # 0 => inst' = [inst EXCEPT ![current].chan = c, ![current].tries = 0]
  BY <1>0, <1>1, CurrentIsStart DEF StartCamera
<1>6. ASSUME current = 0
      PROVE  OnlyInst(c) /\ inst'[c].chan = c /\ inst'[c].stream = 0 /\ inst'[c].running = FALSE
  <2>1. /\ inst' = [j \in Start |-> inst'[j]] /\ inst'[c] = NewInst(c)
        /\ \A j \in Start : j # c => inst'[j] = inst[j]
    BY <1>1, <1>5, <1>6 DEF CameraTypes
  <2>2. IsInst(NewInst(c)) /\ NewInst(c).stream = 0 /\ NewInst(c).running = FALSE /\ NewInst(c).chan = c
    BY <1>1 DEF IsInst, NewInst, NoneOr
  <2> QED
    BY <2>1, <2>2 DEF OnlyInst
<1>7. ASSUME current # 0
      PROVE  /\ OnlyInst(current) /\ inst'[current].chan = c /\ inst'[current].stream = inst[current].stream
             /\ inst'[current].running = inst[current].running
  <2>1. IsInst(inst[current]) /\ current \in Start
    BY <1>7, CurrentIsStart DEF CameraTypes
  <2>2. /\ inst' = [j \in Start |-> inst'[j]]
        /\ \A j \in Start : j # current => inst'[j] = inst[j]
        /\ inst'[current] = [inst[current] EXCEPT !.chan = c, !.tries = 0]
    BY <1>5, <1>7, <2>1 DEF CameraTypes
  <2>3. inst'[current] = [chan |-> c, running |-> inst[current].running, stream |-> inst[current].stream,
                          tries |-> 0]
    BY <2>1, <2>2 DEF IsInst
  <2>4. IsInst(inst'[current]) /\ inst'[current].running = inst[current].running
    BY <1>1, <2>1, <2>3 DEF IsInst
  <2> QED
    BY <2>2, <2>3, <2>4 DEF OnlyInst
<1>8. crossed' = crossed \cup (IF Rivals = {} THEN {} ELSE Rivals \cup {c})
  BY <1>0 DEF StartCamera, Cross
<1>9. torn \subseteq torn' /\ torn' \subseteq Stream
  BY DEF StartCamera, Cross, CameraTypes
<1>10. ASSUME NEW l \in Rivals PROVE loop[l].stream \in NoneOr(torn')
  <2>1. l \in Start /\ IsLoop(loop[l])
    BY DEF Rivals, LoopsOf, Alive, CameraTypes
  <2>2. loop[l].stream \in Stream => loop[l].stream \in torn'
    BY <1>10 DEF StartCamera, Cross
  <2> QED
    BY <2>1, <2>2 DEF IsLoop, NoneOr
<1>12. Hasty
  BY Zenon DEF StartCamera, Notice, Hasty
<1>11. /\ OnlyInst(current') /\ inst'[current'].chan = starts'
       /\ current = 0 => inst'[current'].stream = 0 /\ inst'[current'].running = FALSE
       /\ current # 0 => /\ inst'[current].stream = inst[current].stream
                         /\ inst'[current].running = inst[current].running
  BY <1>1, <1>5, <1>6, <1>7
<1>13. UNCHANGED <<motion, row, stopped, done, stream, dead, gaveUp>>
  BY DEF StartCamera
<1>14. \A l \in crossed' : l \in crossed \/ l = starts' \/ loop[l].stream \in NoneOr(torn')
  BY <1>1, <1>8, <1>10
<1>15. /\ starts' = starts + 1 /\ OnlyLoop(starts') /\ loop'[starts'] = Spawned
       /\ current' = (IF current = 0 THEN starts' ELSE current)
       /\ crossed' = crossed \cup (IF Rivals = {} THEN {} ELSE Rivals \cup {starts'})
  BY <1>0, <1>1, <1>4, <1>5, <1>8
<1> QED
  BY <1>1, <1>2, <1>5, <1>9, <1>11, <1>12, <1>13, <1>14, <1>15, Zenon DEF StartMoves

\* A goroutine that has begun has an instance.
LEMMA BegunHasInst ==
  ASSUME CameraTypes, Numbered, NEW l \in Start, loop[l].at \notin {"none", "spawned", "ended"}
  PROVE  loop[l].inst \in Start /\ IsLoop(loop[l]) /\ IsInst(inst[loop[l].inst])
BY DEF Numbered, Alive, CameraTypes

\* A goroutine that begins takes the current instance and raises its flag.
LEMMA BeginShape ==
  ASSUME CameraTypes, NEW l \in Start, Begin(l)
  PROVE  BeginMoves(l)
<1> SUFFICES ASSUME current # 0
             PROVE  /\ OnlyLoop(l) /\ OnlyInst(current)
                    /\ loop'[l].at = "check" /\ loop'[l].inst = current
                    /\ loop'[l].chan = inst[current].chan /\ loop'[l].stream = loop[l].stream
                    /\ inst'[current].chan = inst[current].chan
                    /\ inst'[current].stream = inst[current].stream /\ inst'[current].running
  BY CurrentIsStart DEF Begin, BeginMoves, objects, history
<1>1. current \in Start /\ IsLoop(loop[l]) /\ IsInst(inst[current])
  BY CurrentIsStart DEF CameraTypes
<1>2. PICK i : i = current
  OBVIOUS
<1>3. PICK c : c = inst[current].chan
  OBVIOUS
<1>4. /\ loop' = [loop EXCEPT ![l].at = "check", ![l].inst = i, ![l].chan = c]
      /\ inst' = [inst EXCEPT ![i].running = TRUE]
  BY <1>2, <1>3 DEF Begin
<1>5. /\ loop' = [m \in Start |-> loop'[m]] /\ \A m \in Start : m # l => loop'[m] = loop[m]
      /\ inst' = [j \in Start |-> inst'[j]] /\ \A j \in Start : j # i => inst'[j] = inst[j]
  BY <1>4 DEF CameraTypes
<1>6. loop'[l] = [at |-> "check", inst |-> i, chan |-> c, on |-> loop[l].on, until |-> loop[l].until,
                  stream |-> loop[l].stream]
  <2>1. loop'[l] = [loop[l] EXCEPT !.at = "check", !.inst = i, !.chan = c]
    BY <1>4 DEF CameraTypes
  <2> QED
    BY <1>1, <2>1 DEF IsLoop
<1>7. inst'[i] = [chan |-> inst[i].chan, running |-> TRUE, stream |-> inst[i].stream, tries |-> inst[i].tries]
  <2>1. inst'[i] = [inst[i] EXCEPT !.running = TRUE]
    BY <1>1, <1>2, <1>4 DEF CameraTypes
  <2> QED
    BY <1>1, <1>2, <2>1 DEF IsInst
<1>8. IsLoop(loop'[l])
  BY <1>1, <1>2, <1>6 DEF IsLoop, NoneOr
<1>9. IsInst(inst'[i])
  BY <1>1, <1>2, <1>7 DEF IsInst
<1> QED
  BY <1>2, <1>3, <1>5, <1>6, <1>7, <1>8, <1>9 DEF OnlyLoop, OnlyInst

\* It leaves or connects, as the channel of its instance says.
LEMMA CheckShape ==
  ASSUME CameraTypes, NEW l \in Start, Check(l)
  PROVE  CheckMoves(l)
BY AtMoves DEF Check, CheckMoves, objects, history

\* A failed attempt counts; the goroutine waits or leaves.
LEMMA ConnectFailsShape ==
  ASSUME CameraTypes, Numbered, NEW l \in Start, ConnectFails(l)
  PROVE  ConnectFailsMoves(l)
<1>1. PICK i \in Start : i = loop[l].inst /\ IsInst(inst[i])
  BY BegunHasInst DEF ConnectFails
<1>2. /\ inst' = [j \in Start |-> inst'[j]] /\ \A j \in Start : j # i => inst'[j] = inst[j]
      /\ inst'[i] = [inst[i] EXCEPT !.tries = @ + 1]
  BY <1>1 DEF ConnectFails, CameraTypes
<1>3. inst'[i] = [chan |-> inst[i].chan, running |-> inst[i].running, stream |-> inst[i].stream,
                  tries |-> inst[i].tries + 1]
  BY <1>1, <1>2 DEF IsInst
<1>4. IsInst(inst'[i]) /\ inst'[i].running = inst[i].running
  BY <1>1, <1>3 DEF IsInst
<1>5. SameInst(loop[l].inst)
  BY <1>1, <1>2, <1>3, <1>4 DEF OnlyInst, SameInst
<1>6. CASE inst[i].tries + 1 >= MaxReconnect
  <2>1. At(l, "leaving") /\ loop[l].at = "connecting"
    BY <1>1, <1>6 DEF ConnectFails
  <2>2. gaveUp'
    BY <1>1, <1>6, Zenon DEF ConnectFails
  <2> QED
    BY <1>1, <1>5, <2>1, <2>2, AtMoves DEF ConnectFailsMoves, ConnectFails, objects, history
<1>7. CASE ~(inst[i].tries + 1 >= MaxReconnect)
  <2>1. PICK on : on = inst[i].chan
    OBVIOUS
  <2>2. loop' = [loop EXCEPT ![l].at = "waiting", ![l].on = on] /\ loop[l].at = "connecting"
    BY <1>1, <1>7, <2>1 DEF ConnectFails
  <2>3. gaveUp' <=> gaveUp
    BY <1>1, <1>7, Zenon DEF ConnectFails
  <2>4. IsLoop(loop[l])
    BY DEF CameraTypes
  <2>5. /\ loop' = [m \in Start |-> loop'[m]] /\ \A m \in Start : m # l => loop'[m] = loop[m]
        /\ loop'[l] = [loop[l] EXCEPT !.at = "waiting", !.on = on]
    BY <2>2 DEF CameraTypes
  <2>6. loop'[l] = [at |-> "waiting", inst |-> loop[l].inst, chan |-> loop[l].chan, on |-> on,
                    until |-> loop[l].until, stream |-> loop[l].stream]
    BY <2>4, <2>5 DEF IsLoop
  <2>7. IsLoop(loop'[l])
    BY <2>4, <2>6 DEF IsLoop
  <2> QED
    BY <1>1, <1>5, <2>1, <2>2, <2>3, <2>5, <2>6, <2>7
    DEF OnlyLoop, MovesTo, ConnectFailsMoves, ConnectFails, objects, history
<1> QED
  BY <1>6, <1>7

\* The new stream is put into the instance before it is started.
LEMMA CreateStreamShape ==
  ASSUME CameraTypes, Numbered, NEW l \in Start, NEW s \in Stream, CreateStream(l, s)
  PROVE  CreateStreamMoves(l, s)
<1>1. PICK i \in Start : i = loop[l].inst /\ IsInst(inst[i]) /\ IsLoop(loop[l])
  BY BegunHasInst DEF CreateStream
<1>2. /\ inst' = [j \in Start |-> inst'[j]] /\ \A j \in Start : j # i => inst'[j] = inst[j]
      /\ inst'[i] = [inst[i] EXCEPT !.stream = s]
  BY <1>1 DEF CreateStream, CameraTypes
<1>3. inst'[i] = [chan |-> inst[i].chan, running |-> inst[i].running, stream |-> s, tries |-> inst[i].tries]
  BY <1>1, <1>2 DEF IsInst
<1>4. IsInst(inst'[i]) /\ inst'[i].running = inst[i].running
  BY <1>1, <1>3 DEF IsInst, NoneOr
<1>5. /\ loop' = [m \in Start |-> loop'[m]] /\ \A m \in Start : m # l => loop'[m] = loop[m]
      /\ loop'[l] = [loop[l] EXCEPT !.at = "starting", !.stream = s]
  BY DEF CreateStream, CameraTypes
<1>6. loop'[l] = [at |-> "starting", inst |-> i, chan |-> loop[l].chan, on |-> loop[l].on,
                  until |-> loop[l].until, stream |-> s]
  BY <1>1, <1>5 DEF IsLoop
<1>7. IsLoop(loop'[l])
  BY <1>1, <1>6 DEF IsLoop, NoneOr
<1>8. stream' \in [Stream -> {"none", "created", "running", "stopped"}]
      /\ \A t \in Stream : stream'[t] = IF t = s THEN "created" ELSE stream[t]
  BY DEF CreateStream, CameraTypes
<1> QED
  BY <1>1, <1>2, <1>3, <1>4, <1>5, <1>6, <1>7, <1>8 DEF CreateStream, OnlyInst, OnlyLoop,
     CreateStreamMoves, StreamsTyped, objects, history

\* The stream runs, where there is one.
LEMMA ConnectedShape ==
  ASSUME CameraTypes, Numbered, NEW l \in Start, Connected(l)
  PROVE  ConnectedMoves(l)
<1>1. PICK i \in Start : i = loop[l].inst /\ IsInst(inst[i])
  BY BegunHasInst DEF Connected
<1>2. /\ inst' = [j \in Start |-> inst'[j]] /\ \A j \in Start : j # i => inst'[j] = inst[j]
      /\ inst'[i] = [inst[i] EXCEPT !.tries = 0]
  BY <1>1 DEF Connected, CameraTypes
<1>3. inst'[i] = [chan |-> inst[i].chan, running |-> inst[i].running, stream |-> inst[i].stream, tries |-> 0]
  BY <1>1, <1>2 DEF IsInst
<1>4. IsInst(inst'[i]) /\ inst'[i].running = inst[i].running
  BY <1>1, <1>3 DEF IsInst
<1>5. stream' \in [Stream -> {"none", "created", "running", "stopped"}]
      /\ \A s \in Stream : stream'[s] = IF s = loop[l].stream /\ stream[s] = "created" THEN "running" ELSE stream[s]
  BY DEF Connected, CameraTypes
<1> QED
  BY <1>1, <1>2, <1>3, <1>4, <1>5, AtMoves DEF Connected, OnlyInst, ConnectedMoves, SameInst,
     StreamsTyped, objects, history

\* The goroutine waits on the channel and for the stream the instance has now.
LEMMA SelectShape ==
  ASSUME CameraTypes, NEW l \in Start, Select(l)
  PROVE  SelectMoves(l)
<1>1. PICK on, until : on = inst[loop[l].inst].chan /\ until = inst[loop[l].inst].stream
  OBVIOUS
<1>2. loop' = [loop EXCEPT ![l].at = "connected", ![l].on = on, ![l].until = until] /\ loop[l].at = "online"
  BY <1>1 DEF Select
<1>3. IsLoop(loop[l])
  BY DEF CameraTypes
<1>4. /\ loop' = [m \in Start |-> loop'[m]] /\ \A m \in Start : m # l => loop'[m] = loop[m]
      /\ loop'[l] = [loop[l] EXCEPT !.at = "connected", !.on = on, !.until = until]
  BY <1>2 DEF CameraTypes
<1>5. loop'[l] = [at |-> "connected", inst |-> loop[l].inst, chan |-> loop[l].chan, on |-> on,
                  until |-> until, stream |-> loop[l].stream]
  BY <1>3, <1>4 DEF IsLoop
<1>6. IsLoop(loop'[l])
  BY <1>3, <1>5 DEF IsLoop
<1> QED
  BY <1>1, <1>2, <1>4, <1>5, <1>6 DEF OnlyLoop, SelectMoves, MovesTo, Select, objects, history

\* It hears its channel and leaves.
LEMMA StoppedShape ==
  ASSUME CameraTypes, NEW l \in Start, Stopped(l)
  PROVE  StoppedMoves(l)
BY AtMoves DEF Stopped, StoppedMoves, objects, history

\* It tries once more.
LEMMA AgainShape ==
  ASSUME CameraTypes, NEW l \in Start, Again(l)
  PROVE  AgainMoves(l)
BY AtMoves DEF Again, AgainMoves, objects, history

\* It closes the done channel of its start.
LEMMA CloseDoneShape ==
  ASSUME CameraTypes, NEW l \in Start, CloseDone(l)
  PROVE  CloseDoneMoves(l)
BY AtMoves DEF CloseDone, CloseDoneMoves, objects, history

\* It lowers the flag of its instance and is gone.
LEMMA EndShape ==
  ASSUME CameraTypes, Numbered, NEW l \in Start, End(l)
  PROVE  EndMoves(l)
<1>1. PICK i \in Start : i = loop[l].inst /\ IsInst(inst[i])
  BY BegunHasInst DEF End
<1>2. /\ inst' = [j \in Start |-> inst'[j]] /\ \A j \in Start : j # i => inst'[j] = inst[j]
      /\ inst'[i] = [inst[i] EXCEPT !.running = FALSE]
  BY <1>1 DEF End, CameraTypes
<1>3. inst'[i] = [chan |-> inst[i].chan, running |-> FALSE, stream |-> inst[i].stream, tries |-> inst[i].tries]
  BY <1>1, <1>2 DEF IsInst
<1>4. IsInst(inst'[i])
  BY <1>1, <1>3 DEF IsInst
<1>5. /\ loop' = [m \in Start |-> loop'[m]] /\ \A m \in Start : m # l => loop'[m] = loop[m]
      /\ loop'[l] = [at |-> "ended", inst |-> 0, chan |-> 0, on |-> 0, until |-> 0, stream |-> 0]
  BY DEF End, CameraTypes, NoLoop
<1>6. IsLoop(loop'[l])
  BY <1>5 DEF IsLoop, NoneOr
<1> QED
  BY <1>1, <1>2, <1>3, <1>4, <1>5, <1>6 DEF End, OnlyInst, OnlyLoop, EndMoves, objects, history

-----------------------------------------------------------------------------
Moves ==
    \/ \E r \in Request :
        \/ (\E kind \in Kind : AskMoves(r, kind)) \/ LookupMoves(r, "lookup", "save")
        \/ SaveMoves(r) \/ DecideMoves(r) \/ LookupMoves(r, "start", "make") \/ StartMoves(r)
        \/ StopMoves(r) \/ DeleteMoves(r) \/ HaltMoves(r) \/ AwaitMoves(r) \/ EraseMoves(r)
    \/ \E l \in Start :
        \/ BeginMoves(l) \/ CheckMoves(l) \/ ConnectFailsMoves(l)
        \/ (\E s \in Stream : CreateStreamMoves(l, s))
        \/ ConnectedMoves(l) \/ SelectMoves(l) \/ StoppedMoves(l) \/ AgainMoves(l)
        \/ CloseDoneMoves(l) \/ EndMoves(l)

\* Every step is one of these.
LEMMA NextMoves ==
  ASSUME CameraTypes, Numbered, Next
  PROVE  Moves /\ ~dead
<1>1. ASSUME NEW r \in Request, NEW kind \in Kind, Ask(r, kind) PROVE AskMoves(r, kind)
  BY <1>1, AskShape
<1>2. ASSUME NEW r \in Request, Serve(r)
      PROVE  \/ LookupMoves(r, "lookup", "save")
             \/ SaveMoves(r) \/ DecideMoves(r) \/ LookupMoves(r, "start", "make") \/ StartMoves(r)
             \/ StopMoves(r) \/ DeleteMoves(r) \/ HaltMoves(r) \/ AwaitMoves(r) \/ EraseMoves(r)
  BY <1>2, ShortShapes, DecideShape, StartShape, HaltedShape DEF Serve
<1>3. ASSUME NEW l \in Start, Run(l)
      PROVE  \/ BeginMoves(l) \/ CheckMoves(l) \/ ConnectFailsMoves(l)
             \/ (\E s \in Stream : CreateStreamMoves(l, s))
             \/ ConnectedMoves(l) \/ SelectMoves(l) \/ StoppedMoves(l) \/ AgainMoves(l)
             \/ CloseDoneMoves(l) \/ EndMoves(l)
  BY <1>3, BeginShape, CheckShape, ConnectFailsShape, CreateStreamShape, ConnectedShape,
     SelectShape,
     StoppedShape, AgainShape, CloseDoneShape, EndShape DEF Run
<1> QED
  BY <1>1, <1>2, <1>3 DEF Next, Moves

\* A goroutine that is not idle has had its start.
LEMMA NumbersInUse ==
  ASSUME CameraTypes, Numbered
  PROVE  /\ starts \in Nat /\ Start \subseteq Nat /\ Alive \subseteq 1..starts /\ current <= starts
         /\ crossed \subseteq Start /\ 0 \notin Start /\ 0 \notin Stream
         /\ \A l \in Start : loop[l].at # "none" => ~(l > starts)
<1>1. starts \in Nat /\ starts \in Start /\ \A l \in Start : l \in Nat /\ l >= 1
  BY CameraAssumption DEF CameraTypes, Start
<1>2. \A l \in Start : loop[l].at # "none" => ~(l > starts)
  BY DEF Numbered, NoLoop
<1>3. ASSUME NEW l \in Alive PROVE l \in 1..starts
  <2>1. l \in Start /\ loop[l].at # "none"
    BY DEF Alive
  <2>2. l \in Nat /\ l >= 1 /\ ~(l > starts)
    BY <1>1, <1>2, <2>1
  <2> QED
    BY <1>1, <2>2
<1>4. current <= starts
  BY <1>1 DEF CameraTypes
<1>5. crossed \subseteq Start
  <2>1. starts \in 1..MaxStarts /\ crossed \subseteq 1..starts
    BY DEF CameraTypes, Start
  <2> QED
    BY <2>1, CameraAssumption DEF Start
<1>6. 0 \notin Stream
  BY CameraAssumption DEF Stream
<1> QED
  BY <1>1, <1>2, <1>3, <1>4, <1>5, <1>6

\* Where there is one goroutine, on its own channels, it has been told to stop as
\* soon as the channel of its start is closed.
LEMMA ToldIsOver ==
  ASSUME CameraTypes, OneGoroutine
  PROVE  \A l \in Alive : Told(l) <=> Over(l)
<1> SUFFICES ASSUME NEW l \in Alive PROVE Told(l) <=> Over(l)
  OBVIOUS
<1>1. /\ IsLoop(loop[l]) /\ loop[l].at \notin {"none", "ended"}
      /\ loop[l].at # "spawned" => inst[loop[l].inst].chan = l
      /\ loop[l].at \in {"waiting", "connected"} => loop[l].on = l
  BY DEF OneGoroutine, CameraTypes, Alive
<1>2. CASE loop[l].at = "spawned"
  BY <1>2 DEF Told, Over
<1>3. CASE loop[l].at \in {"leaving", "closed"}
  BY <1>3 DEF Told, Over
<1>4. CASE loop[l].at \in {"waiting", "connected"}
  BY <1>1, <1>4 DEF Told, Over
<1>5. CASE loop[l].at \in {"check", "connecting", "starting", "online"}
  BY <1>1, <1>5 DEF Told, Over
<1> QED
  BY <1>1, <1>2, <1>3, <1>4, <1>5 DEF IsLoop

\* Every variable keeps its type.
LEMMA TypesKept ==
  ASSUME CameraTypes, Numbered, Moves
  PROVE  CameraTypes'
<1>0. /\ starts \in Nat /\ Start \subseteq Nat /\ Alive \subseteq 1..starts
      /\ current <= starts /\ crossed \subseteq Start /\ 0 \notin Start /\ 0 \notin Stream
      /\ \A l \in Start : loop[l].at # "none" => ~(l > starts)
  BY NumbersInUse
<1> USE DEF CameraTypes, OnlyLoop, OnlyReq, OnlyInst, SameInst, MovesTo, GoesTo, Answered,
    Halting, StreamsTyped
<1>1. ASSUME NEW r \in Request, NEW kind \in Kind, AskMoves(r, kind)
      PROVE  CameraTypes'
  BY <1>1, <1>0, CameraAssumption DEF AskMoves
<1>2. ASSUME NEW r \in Request, LookupMoves(r, "lookup", "save")
      PROVE  CameraTypes'
  BY <1>2, <1>0, CameraAssumption DEF LookupMoves
<1>3. ASSUME NEW r \in Request, SaveMoves(r)
      PROVE  CameraTypes'
  BY <1>3, <1>0, CameraAssumption DEF SaveMoves
<1>4. ASSUME NEW r \in Request, DecideMoves(r)
      PROVE  CameraTypes'
  BY <1>4, <1>0, CameraAssumption DEF DecideMoves
<1>5. ASSUME NEW r \in Request, LookupMoves(r, "start", "make")
      PROVE  CameraTypes'
  BY <1>5, <1>0, CameraAssumption DEF LookupMoves
<1>6. ASSUME NEW r \in Request, StartMoves(r)
      PROVE  CameraTypes'
  <2>1. crossed' \subseteq 1..starts'
    BY <1>6, <1>0 DEF StartMoves, Rivals, LoopsOf
  <2>2. /\ loop' = [m \in Start |-> loop'[m]] /\ \A m \in Start : IsLoop(loop'[m])
        /\ req' = [q \in Request |-> req'[q]] /\ \A q \in Request : IsReq(req'[q])
    BY <1>6 DEF StartMoves
  <2>3. /\ inst' = [j \in Start |-> inst'[j]] /\ starts' \in Start
        /\ \A j \in Start : IsInst(inst'[j]) /\ inst'[j].chan <= starts'
    <3>1. \A j \in Start : inst[j].chan \in Nat
      BY <1>0 DEF IsInst
    <3>2. starts \in Nat /\ starts' = starts + 1
      BY <1>0, <1>6 DEF StartMoves
    <3>3. \A j \in Start : inst[j].chan <= starts => inst[j].chan <= starts' /\ starts' <= starts'
      BY <3>1, <3>2
    <3> QED
      BY <1>6, <3>2, <3>3 DEF StartMoves
  <2>4. stopped' \subseteq 1..starts' /\ current' \in 0..starts' /\ torn' \subseteq Stream
    <3>1. starts \in Nat /\ starts' = starts + 1 /\ stopped' = stopped /\ torn' \subseteq Stream
          /\ current' = (IF current = 0 THEN starts' ELSE current)
      BY <1>0, <1>6 DEF StartMoves
    <3> QED
      BY <3>1
  <2>5. UNCHANGED <<motion, row, stream>>
    BY <1>6 DEF StartMoves
  <2> QED
    BY <2>1, <2>2, <2>3, <2>4, <2>5
<1>7. ASSUME NEW r \in Request, StopMoves(r)
      PROVE  CameraTypes'
  BY <1>7, <1>0, CameraAssumption DEF StopMoves
<1>8. ASSUME NEW r \in Request, DeleteMoves(r)
      PROVE  CameraTypes'
  BY <1>8, <1>0, CameraAssumption DEF DeleteMoves
<1>9. ASSUME NEW r \in Request, HaltMoves(r)
      PROVE  CameraTypes'
  BY <1>9, <1>0, CameraAssumption DEF HaltMoves
<1>10. ASSUME NEW r \in Request, AwaitMoves(r)
      PROVE  CameraTypes'
  BY <1>10, <1>0, CameraAssumption DEF AwaitMoves
<1>11. ASSUME NEW r \in Request, EraseMoves(r)
      PROVE  CameraTypes'
  BY <1>11, <1>0, CameraAssumption DEF EraseMoves
<1>12. ASSUME NEW l \in Start, BeginMoves(l)
      PROVE  CameraTypes'
  BY <1>12, <1>0, CameraAssumption DEF BeginMoves
<1>13. ASSUME NEW l \in Start, CheckMoves(l)
      PROVE  CameraTypes'
  BY <1>13, <1>0, CameraAssumption DEF CheckMoves
<1>14. ASSUME NEW l \in Start, ConnectFailsMoves(l)
      PROVE  CameraTypes'
  BY <1>14, <1>0, CameraAssumption DEF ConnectFailsMoves
<1>15. ASSUME NEW l \in Start, NEW s \in Stream, CreateStreamMoves(l, s)
      PROVE  CameraTypes'
  BY <1>15, <1>0, CameraAssumption DEF CreateStreamMoves
<1>16. ASSUME NEW l \in Start, ConnectedMoves(l)
      PROVE  CameraTypes'
  BY <1>16, <1>0, CameraAssumption DEF ConnectedMoves
<1>17. ASSUME NEW l \in Start, SelectMoves(l)
      PROVE  CameraTypes'
  BY <1>17, <1>0, CameraAssumption DEF SelectMoves
<1>18. ASSUME NEW l \in Start, StoppedMoves(l)
      PROVE  CameraTypes'
  BY <1>18, <1>0, CameraAssumption DEF StoppedMoves
<1>19. ASSUME NEW l \in Start, AgainMoves(l)
      PROVE  CameraTypes'
  BY <1>19, <1>0, CameraAssumption DEF AgainMoves
<1>20. ASSUME NEW l \in Start, CloseDoneMoves(l)
      PROVE  CameraTypes'
  BY <1>20, <1>0, CameraAssumption DEF CloseDoneMoves
<1>21. ASSUME NEW l \in Start, EndMoves(l)
      PROVE  CameraTypes'
  BY <1>21, <1>0, CameraAssumption DEF EndMoves
<1> QED
  BY <1>1, <1>2, <1>3, <1>4, <1>5, <1>6, <1>7, <1>8, <1>9, <1>10, <1>11, <1>12, <1>13, <1>14,
     <1>15, <1>16, <1>17, <1>18, <1>19, <1>20, <1>21 DEF Moves

\* No number is used before its start.
LEMMA NumberedKept ==
  ASSUME CameraTypes, Numbered, Moves
  PROVE  Numbered'
<1>0. /\ starts \in Nat /\ Start \subseteq Nat /\ Alive \subseteq 1..starts
      /\ current <= starts /\ crossed \subseteq Start /\ 0 \notin Start /\ 0 \notin Stream
      /\ \A l \in Start : loop[l].at # "none" => ~(l > starts)
  BY NumbersInUse
<1> USE DEF Numbered, Alive, OnlyLoop, OnlyReq, OnlyInst, SameInst, MovesTo, GoesTo, Answered,
    Halting, StreamsTyped
<1>1. ASSUME NEW r \in Request, NEW kind \in Kind, AskMoves(r, kind)
      PROVE  Numbered'
  BY <1>1, <1>0 DEF AskMoves
<1>2. ASSUME NEW r \in Request, LookupMoves(r, "lookup", "save")
      PROVE  Numbered'
  BY <1>2, <1>0 DEF LookupMoves
<1>3. ASSUME NEW r \in Request, SaveMoves(r)
      PROVE  Numbered'
  BY <1>3, <1>0 DEF SaveMoves
<1>4. ASSUME NEW r \in Request, DecideMoves(r)
      PROVE  Numbered'
  BY <1>4, <1>0 DEF DecideMoves
<1>5. ASSUME NEW r \in Request, LookupMoves(r, "start", "make")
      PROVE  Numbered'
  BY <1>5, <1>0 DEF LookupMoves
<1>6. ASSUME NEW r \in Request, StartMoves(r)
      PROVE  Numbered'
  <2>1. starts \in Nat /\ starts' = starts + 1 /\ starts' \in Start
    BY <1>0, <1>6 DEF StartMoves
  <2>2. \A m \in Start : (m > starts' => m > starts /\ m # starts') /\ (m <= starts => m <= starts')
    BY <1>0, <2>1
  <2>3. Spawned.at = "spawned"
    BY DEF Spawned, NoLoop
  <2> QED
    BY <1>6, <2>1, <2>2, <2>3 DEF StartMoves
<1>7. ASSUME NEW r \in Request, StopMoves(r)
      PROVE  Numbered'
  BY <1>7, <1>0 DEF StopMoves
<1>8. ASSUME NEW r \in Request, DeleteMoves(r)
      PROVE  Numbered'
  BY <1>8, <1>0 DEF DeleteMoves
<1>9. ASSUME NEW r \in Request, HaltMoves(r)
      PROVE  Numbered'
  BY <1>9, <1>0 DEF HaltMoves
<1>10. ASSUME NEW r \in Request, AwaitMoves(r)
      PROVE  Numbered'
  BY <1>10, <1>0 DEF AwaitMoves
<1>11. ASSUME NEW r \in Request, EraseMoves(r)
      PROVE  Numbered'
  BY <1>11, <1>0 DEF EraseMoves
<1>12. ASSUME NEW l \in Start, BeginMoves(l)
      PROVE  Numbered'
  BY <1>12, <1>0 DEF BeginMoves
<1>13. ASSUME NEW l \in Start, CheckMoves(l)
      PROVE  Numbered'
  BY <1>13, <1>0 DEF CheckMoves
<1>14. ASSUME NEW l \in Start, ConnectFailsMoves(l)
      PROVE  Numbered'
  BY <1>14, <1>0 DEF ConnectFailsMoves
<1>15. ASSUME NEW l \in Start, NEW s \in Stream, CreateStreamMoves(l, s)
      PROVE  Numbered'
  BY <1>15, <1>0 DEF CreateStreamMoves
<1>16. ASSUME NEW l \in Start, ConnectedMoves(l)
      PROVE  Numbered'
  BY <1>16, <1>0 DEF ConnectedMoves
<1>17. ASSUME NEW l \in Start, SelectMoves(l)
      PROVE  Numbered'
  BY <1>17, <1>0 DEF SelectMoves
<1>18. ASSUME NEW l \in Start, StoppedMoves(l)
      PROVE  Numbered'
  BY <1>18, <1>0 DEF StoppedMoves
<1>19. ASSUME NEW l \in Start, AgainMoves(l)
      PROVE  Numbered'
  BY <1>19, <1>0 DEF AgainMoves
<1>20. ASSUME NEW l \in Start, CloseDoneMoves(l)
      PROVE  Numbered'
  BY <1>20, <1>0 DEF CloseDoneMoves
<1>21. ASSUME NEW l \in Start, EndMoves(l)
      PROVE  Numbered'
  BY <1>21, <1>0 DEF EndMoves
<1> QED
  BY <1>1, <1>2, <1>3, <1>4, <1>5, <1>6, <1>7, <1>8, <1>9, <1>10, <1>11, <1>12, <1>13, <1>14,
     <1>15, <1>16, <1>17, <1>18, <1>19, <1>20, <1>21 DEF Moves

\* Goroutines that meet on an instance stay crossed.
LEMMA SharedKept ==
  ASSUME CameraTypes, Numbered, SharedIsCrossed, Moves
  PROVE  SharedIsCrossed'
<1>0. /\ starts \in Nat /\ Start \subseteq Nat /\ Alive \subseteq 1..starts
      /\ current <= starts /\ crossed \subseteq Start /\ 0 \notin Start /\ 0 \notin Stream
      /\ \A l \in Start : loop[l].at # "none" => ~(l > starts)
  BY NumbersInUse
<1> USE DEF SharedIsCrossed, Numbered, WorksOn, Begun, NoneOr, Alive, OnlyLoop, OnlyReq, OnlyInst,
    SameInst, MovesTo, GoesTo, Answered, Halting, StreamsTyped
<1>1. ASSUME NEW r \in Request, NEW kind \in Kind, AskMoves(r, kind)
      PROVE  SharedIsCrossed'
  BY <1>1, <1>0 DEF AskMoves
<1>2. ASSUME NEW r \in Request, LookupMoves(r, "lookup", "save")
      PROVE  SharedIsCrossed'
  BY <1>2, <1>0 DEF LookupMoves
<1>3. ASSUME NEW r \in Request, SaveMoves(r)
      PROVE  SharedIsCrossed'
  BY <1>3, <1>0 DEF SaveMoves
<1>4. ASSUME NEW r \in Request, DecideMoves(r)
      PROVE  SharedIsCrossed'
  BY <1>4, <1>0 DEF DecideMoves
<1>5. ASSUME NEW r \in Request, LookupMoves(r, "start", "make")
      PROVE  SharedIsCrossed'
  BY <1>5, <1>0 DEF LookupMoves
<1>6. ASSUME NEW r \in Request, StartMoves(r)
      PROVE  SharedIsCrossed'
  <2>0. PICK c : c = starts'
    OBVIOUS
  <2>1. /\ starts \in Nat /\ c = starts + 1 /\ c \in Start
        /\ loop'[c] = Spawned /\ \A m \in Start : m # c => loop'[m] = loop[m]
        /\ current' = (IF current = 0 THEN c ELSE current)
        /\ crossed' = crossed \cup (IF Rivals = {} THEN {} ELSE Rivals \cup {c})
        /\ torn \subseteq torn'
        /\ \A m \in crossed' : m \in crossed \/ m = c \/ loop[m].stream \in {0} \cup torn'
    BY <1>6, <1>0, <2>0 DEF StartMoves
  <2>2. Spawned.at = "spawned" /\ Spawned.stream = 0
    BY DEF Spawned, NoLoop
  <2>3. \A m \in Start : m <= starts => m # c
    BY <1>0, <2>1
  <2>4. \A m \in crossed' : loop'[m].stream \in {0} \cup torn'
    BY <1>0, <2>1, <2>2, <2>3 DEF Rivals, LoopsOf
  <2>5. ASSUME NEW m \in Start, NEW i \in Start, loop'[m].at \notin {"none", "ended"}, WorksOn(m, i)', m # c
        PROVE  m \in Alive /\ (m \in Rivals \/ (WorksOn(m, i) /\ i # current'))
    <3>1. m \in Alive /\ loop'[m] = loop[m]
      BY <2>1, <2>5
    <3>2. CASE loop[m].at = "spawned"
      BY <3>1, <3>2 DEF Rivals
    <3>3. CASE loop[m].at # "spawned"
      <4>1. loop[m].inst = i /\ i <= starts
        BY <2>5, <3>1, <3>3
      <4>2. i # current' \/ i = current
        BY <2>1, <2>3, <4>1
      <4> QED
        BY <3>1, <3>3, <4>1, <4>2 DEF Rivals, LoopsOf
    <3> QED
      BY <3>2, <3>3
  <2>6. ASSUME NEW m \in Start, NEW n \in Start, NEW i \in Start, m # n,
               loop'[m].at \notin {"none", "ended"}, loop'[n].at \notin {"none", "ended"},
               WorksOn(m, i)', WorksOn(n, i)'
        PROVE  m \in crossed'
    <3>1. WorksOn(c, i)' => i = current'
      BY <2>1, <2>2
    <3>2. CASE m = c
      <4>1. n \in Rivals
        BY <2>5, <2>6, <3>1, <3>2
      <4> QED
        BY <2>1, <3>2, <4>1
    <3>3. CASE m # c /\ n = c
      <4>1. m \in Rivals
        BY <2>5, <2>6, <3>1, <3>3
      <4> QED
        BY <2>1, <4>1
    <3>4. CASE m # c /\ n # c
      <4>1. m \in Rivals \/ (WorksOn(m, i) /\ i # current')
        BY <2>5, <2>6, <3>4
      <4>2. n \in Rivals \/ (WorksOn(n, i) /\ i # current')
        BY <2>5, <2>6, <3>4
      <4>3. m \in Rivals \/ WorksOn(n, i) \/ i = current
        BY <1>0, <2>1, <2>6, <4>1, <4>2 DEF Rivals, LoopsOf
      <4> QED
        BY <2>1, <2>6, <4>1, <4>2, <4>3 DEF Rivals, LoopsOf
    <3> QED
      BY <3>2, <3>3, <3>4
  <2> QED
    BY <2>4, <2>6
<1>7. ASSUME NEW r \in Request, StopMoves(r)
      PROVE  SharedIsCrossed'
  BY <1>7, <1>0 DEF StopMoves
<1>8. ASSUME NEW r \in Request, DeleteMoves(r)
      PROVE  SharedIsCrossed'
  <2>1. CASE current = 0
    BY <1>8, <1>0, <2>1 DEF DeleteMoves
  <2>2. CASE current # 0
    <3>1. /\ loop' = loop /\ current' = 0 /\ crossed \subseteq crossed' /\ crossed' \subseteq crossed \cup Alive
          /\ torn \subseteq torn' /\ \A l \in crossed' : l \in crossed \/ loop[l].stream \in {0} \cup torn'
      BY <1>8, <2>2 DEF DeleteMoves
    <3>2. \A m \in Start, i \in Start : WorksOn(m, i)' => WorksOn(m, i)
      BY <1>0, <3>1
    <3>3. \A m \in crossed' : loop'[m].stream \in {0} \cup torn'
      BY <3>1
    <3> QED
      BY <3>1, <3>2, <3>3
  <2> QED
    BY <2>1, <2>2
<1>9. ASSUME NEW r \in Request, HaltMoves(r)
      PROVE  SharedIsCrossed'
  BY <1>9, <1>0 DEF HaltMoves
<1>10. ASSUME NEW r \in Request, AwaitMoves(r)
      PROVE  SharedIsCrossed'
  BY <1>10, <1>0 DEF AwaitMoves
<1>11. ASSUME NEW r \in Request, EraseMoves(r)
      PROVE  SharedIsCrossed'
  BY <1>11, <1>0 DEF EraseMoves
<1>12. ASSUME NEW l \in Start, BeginMoves(l)
      PROVE  SharedIsCrossed'
  BY <1>12, <1>0 DEF BeginMoves
<1>13. ASSUME NEW l \in Start, CheckMoves(l)
      PROVE  SharedIsCrossed'
  BY <1>13, <1>0 DEF CheckMoves
<1>14. ASSUME NEW l \in Start, ConnectFailsMoves(l)
      PROVE  SharedIsCrossed'
  BY <1>14, <1>0 DEF ConnectFailsMoves
<1>15. ASSUME NEW l \in Start, NEW s \in Stream, CreateStreamMoves(l, s)
      PROVE  SharedIsCrossed'
  BY <1>15, <1>0 DEF CreateStreamMoves
<1>16. ASSUME NEW l \in Start, ConnectedMoves(l)
      PROVE  SharedIsCrossed'
  BY <1>16, <1>0 DEF ConnectedMoves
<1>17. ASSUME NEW l \in Start, SelectMoves(l)
      PROVE  SharedIsCrossed'
  BY <1>17, <1>0 DEF SelectMoves
<1>18. ASSUME NEW l \in Start, StoppedMoves(l)
      PROVE  SharedIsCrossed'
  BY <1>18, <1>0 DEF StoppedMoves
<1>19. ASSUME NEW l \in Start, AgainMoves(l)
      PROVE  SharedIsCrossed'
  BY <1>19, <1>0 DEF AgainMoves
<1>20. ASSUME NEW l \in Start, CloseDoneMoves(l)
      PROVE  SharedIsCrossed'
  BY <1>20, <1>0 DEF CloseDoneMoves
<1>21. ASSUME NEW l \in Start, EndMoves(l)
      PROVE  SharedIsCrossed'
  BY <1>21, <1>0 DEF EndMoves
<1> QED
  BY <1>1, <1>2, <1>3, <1>4, <1>5, <1>6, <1>7, <1>8, <1>9, <1>10, <1>11, <1>12, <1>13, <1>14,
     <1>15, <1>16, <1>17, <1>18, <1>19, <1>20, <1>21 DEF Moves

\* A goroutine that has not been crossed stays in step.
LEMMA AloneKept ==
  ASSUME CameraTypes, Numbered, SharedIsCrossed, AloneIsInStep, Moves
  PROVE  AloneIsInStep'
<1>0. /\ starts \in Nat /\ Start \subseteq Nat /\ Alive \subseteq 1..starts
      /\ current <= starts /\ crossed \subseteq Start /\ 0 \notin Start /\ 0 \notin Stream
      /\ \A l \in Start : loop[l].at # "none" => ~(l > starts)
  BY NumbersInUse
<1> USE DEF AloneIsInStep, SharedIsCrossed, Closed, WorksOn, Numbered, Begun, Alive, OnlyLoop,
    OnlyReq, OnlyInst, SameInst, MovesTo, GoesTo, Answered, Halting, StreamsTyped
<1>1. ASSUME NEW r \in Request, NEW kind \in Kind, AskMoves(r, kind)
      PROVE  AloneIsInStep'
  BY <1>1, <1>0 DEF AskMoves
<1>2. ASSUME NEW r \in Request, LookupMoves(r, "lookup", "save")
      PROVE  AloneIsInStep'
  BY <1>2, <1>0 DEF LookupMoves
<1>3. ASSUME NEW r \in Request, SaveMoves(r)
      PROVE  AloneIsInStep'
  BY <1>3, <1>0 DEF SaveMoves
<1>4. ASSUME NEW r \in Request, DecideMoves(r)
      PROVE  AloneIsInStep'
  BY <1>4, <1>0 DEF DecideMoves
<1>5. ASSUME NEW r \in Request, LookupMoves(r, "start", "make")
      PROVE  AloneIsInStep'
  BY <1>5, <1>0 DEF LookupMoves
<1>6. ASSUME NEW r \in Request, StartMoves(r)
      PROVE  AloneIsInStep'
  <2>0. PICK c : c = starts'
    OBVIOUS
  <2>1. /\ starts \in Nat /\ c = starts + 1 /\ c \in Start /\ stopped' = stopped
        /\ loop'[c] = Spawned /\ \A m \in Start : m # c => loop'[m] = loop[m]
        /\ current' = (IF current = 0 THEN c ELSE current) /\ inst'[current'].chan = c
        /\ \A j \in Start : j # current' => inst'[j] = inst[j]
        /\ crossed' = crossed \cup (IF Rivals = {} THEN {} ELSE Rivals \cup {c})
    BY <1>6, <1>0, <2>0 DEF StartMoves
  <2>2. Spawned.at = "spawned" /\ c \notin stopped
    BY <2>1 DEF Spawned, NoLoop, CameraTypes
  <2>3. \A m \in Start : m <= starts => m # c
    BY <1>0, <2>1
  <2>4. ASSUME NEW m \in Start, loop'[m].at \notin {"none", "ended"}, m # c, m \notin crossed'
        PROVE  /\ m \in Alive /\ loop'[m] = loop[m] /\ loop[m].at # "spawned" /\ m \notin crossed
               /\ loop[m].inst \in Start /\ loop[m].inst # current' /\ loop[m].inst # current
               /\ inst'[loop[m].inst] = inst[loop[m].inst]
    <3>1. m \in Alive /\ loop'[m] = loop[m] /\ m \notin crossed
      BY <2>1, <2>4
    <3>2. m \notin Rivals
      BY <2>1, <2>4
    <3>3. loop[m].at # "spawned" /\ loop[m].inst # current
      BY <3>1, <3>2 DEF Rivals, LoopsOf
    <3>4. loop[m].inst \in Start /\ loop[m].inst # c
      BY <2>3, <3>1, <3>3
    <3> QED
      BY <2>1, <3>1, <3>3, <3>4
  <2>5. ASSUME NEW m \in Start, NEW i \in Start, loop'[m].at \notin {"none", "ended"}, m \notin crossed',
               WorksOn(m, i)', inst'[i].chan \in stopped'
        PROVE  inst'[i].stream = 0
    <3>1. CASE m = c
      BY <2>1, <2>2, <2>5, <3>1
    <3>2. CASE m # c
      BY <2>1, <2>4, <2>5, <3>2
    <3> QED
      BY <3>1, <3>2
  <2>6. \A m \in Start : Begun(m)' => m # c
    BY <2>1, <2>2
  <2> QED
    BY <2>1, <2>4, <2>5, <2>6
<1>7. ASSUME NEW r \in Request, StopMoves(r)
      PROVE  AloneIsInStep'
  BY <1>7, <1>0 DEF StopMoves
<1>8. ASSUME NEW r \in Request, DeleteMoves(r)
      PROVE  AloneIsInStep'
  BY <1>8, <1>0 DEF DeleteMoves
<1>9. ASSUME NEW r \in Request, HaltMoves(r)
      PROVE  AloneIsInStep'
  BY <1>9, <1>0 DEF HaltMoves
<1>10. ASSUME NEW r \in Request, AwaitMoves(r)
      PROVE  AloneIsInStep'
  BY <1>10, <1>0 DEF AwaitMoves
<1>11. ASSUME NEW r \in Request, EraseMoves(r)
      PROVE  AloneIsInStep'
  BY <1>11, <1>0 DEF EraseMoves
<1>12. ASSUME NEW l \in Start, BeginMoves(l)
      PROVE  AloneIsInStep'
  BY <1>12, <1>0 DEF BeginMoves
<1>13. ASSUME NEW l \in Start, CheckMoves(l)
      PROVE  AloneIsInStep'
  BY <1>13, <1>0 DEF CheckMoves
<1>14. ASSUME NEW l \in Start, ConnectFailsMoves(l)
      PROVE  AloneIsInStep'
  BY <1>14, <1>0 DEF ConnectFailsMoves
<1>15. ASSUME NEW l \in Start, NEW s \in Stream, CreateStreamMoves(l, s)
      PROVE  AloneIsInStep'
  BY <1>15, <1>0 DEF CreateStreamMoves
<1>16. ASSUME NEW l \in Start, ConnectedMoves(l)
      PROVE  AloneIsInStep'
  BY <1>16, <1>0 DEF ConnectedMoves
<1>17. ASSUME NEW l \in Start, SelectMoves(l)
      PROVE  AloneIsInStep'
  BY <1>17, <1>0 DEF SelectMoves
<1>18. ASSUME NEW l \in Start, StoppedMoves(l)
      PROVE  AloneIsInStep'
  BY <1>18, <1>0 DEF StoppedMoves
<1>19. ASSUME NEW l \in Start, AgainMoves(l)
      PROVE  AloneIsInStep'
  BY <1>19, <1>0 DEF AgainMoves
<1>20. ASSUME NEW l \in Start, CloseDoneMoves(l)
      PROVE  AloneIsInStep'
  BY <1>20, <1>0 DEF CloseDoneMoves
<1>21. ASSUME NEW l \in Start, EndMoves(l)
      PROVE  AloneIsInStep'
  BY <1>21, <1>0 DEF EndMoves
<1> QED
  BY <1>1, <1>2, <1>3, <1>4, <1>5, <1>6, <1>7, <1>8, <1>9, <1>10, <1>11, <1>12, <1>13, <1>14,
     <1>15, <1>16, <1>17, <1>18, <1>19, <1>20, <1>21 DEF Moves

\* A stream that can run has a goroutine waiting for it, or is torn.
LEMMA MakersKept ==
  ASSUME CameraTypes, Numbered, SharedIsCrossed, AloneIsInStep, StreamsHaveMakers, Moves
  PROVE  StreamsHaveMakers'
<1>0. /\ starts \in Nat /\ Start \subseteq Nat /\ Alive \subseteq 1..starts
      /\ current <= starts /\ crossed \subseteq Start /\ 0 \notin Start /\ 0 \notin Stream
      /\ \A l \in Start : loop[l].at # "none" => ~(l > starts)
  BY NumbersInUse
<1> USE DEF StreamsHaveMakers, AloneIsInStep, SharedIsCrossed, WorksOn, Numbered, Begun, NoneOr,
    Alive, OnlyLoop, OnlyReq, OnlyInst, SameInst, MovesTo, GoesTo, Answered, Halting,
    StreamsTyped
<1>1. ASSUME NEW r \in Request, NEW kind \in Kind, AskMoves(r, kind)
      PROVE  StreamsHaveMakers'
  BY <1>1, <1>0 DEF AskMoves
<1>2. ASSUME NEW r \in Request, LookupMoves(r, "lookup", "save")
      PROVE  StreamsHaveMakers'
  BY <1>2, <1>0 DEF LookupMoves
<1>3. ASSUME NEW r \in Request, SaveMoves(r)
      PROVE  StreamsHaveMakers'
  BY <1>3, <1>0 DEF SaveMoves
<1>4. ASSUME NEW r \in Request, DecideMoves(r)
      PROVE  StreamsHaveMakers'
  BY <1>4, <1>0 DEF DecideMoves
<1>5. ASSUME NEW r \in Request, LookupMoves(r, "start", "make")
      PROVE  StreamsHaveMakers'
  BY <1>5, <1>0 DEF LookupMoves
<1>6. ASSUME NEW r \in Request, StartMoves(r)
      PROVE  StreamsHaveMakers'
  <2>0. PICK c : c = starts'
    OBVIOUS
  <2>1. /\ starts \in Nat /\ c = starts + 1 /\ c \in Start /\ stream' = stream /\ motion' = motion
        /\ loop'[c] = Spawned /\ \A m \in Start : m # c => loop'[m] = loop[m]
        /\ current' \in Start /\ torn \subseteq torn'
        /\ \A j \in Start : j # current' => inst'[j] = inst[j]
        /\ inst'[current'].stream = (IF current = 0 THEN 0 ELSE inst[current'].stream)
    BY <1>6, <1>0, <2>0 DEF StartMoves
  <2>2. \A j \in Start : inst'[j].stream \in {0, inst[j].stream}
    BY <2>1
  <2>3. Spawned.at = "spawned" /\ \A m \in Start : loop[m].at # "none" => loop'[m] = loop[m]
    BY <1>0, <2>1 DEF Spawned, NoLoop
  <2>4. \A m \in Start : loop'[m].at = "starting" => loop'[m].stream \in Stream
    BY <2>1, <2>3
  <2>5. ASSUME NEW i \in Start, NEW s \in Stream, inst'[i].stream = s, stream[s] \in {"created", "running"}
        PROVE  \/ s \in torn'
               \/ \E m \in Start : /\ loop'[m].inst = i /\ loop'[m].stream = s
                                   /\ loop'[m].at \in {"starting", "online", "connected"}
    <3>1. inst[i].stream = s
      BY <1>0, <2>2, <2>5
    <3>2. CASE s \in torn
      BY <2>1, <3>2
    <3>3. CASE s \notin torn
      <4>1. PICK m \in Start : /\ loop[m].inst = i /\ loop[m].stream = s
                               /\ loop[m].at \in {"starting", "online", "connected"}
        BY <2>5, <3>1, <3>3
      <4> QED
        BY <2>3, <4>1
    <3> QED
      BY <3>2, <3>3
  <2>6. \A i \in Start, s \in Stream : inst'[i].stream = s => stream[s] # "none"
    BY <1>0, <2>2
  <2> QED
    BY <2>1, <2>4, <2>5, <2>6
<1>7. ASSUME NEW r \in Request, StopMoves(r)
      PROVE  StreamsHaveMakers'
  BY <1>7, <1>0 DEF StopMoves
<1>8. ASSUME NEW r \in Request, DeleteMoves(r)
      PROVE  StreamsHaveMakers'
  BY <1>8, <1>0 DEF DeleteMoves
<1>9. ASSUME NEW r \in Request, HaltMoves(r)
      PROVE  StreamsHaveMakers'
  BY <1>9, <1>0 DEF HaltMoves
<1>10. ASSUME NEW r \in Request, AwaitMoves(r)
      PROVE  StreamsHaveMakers'
  BY <1>10, <1>0 DEF AwaitMoves
<1>11. ASSUME NEW r \in Request, EraseMoves(r)
      PROVE  StreamsHaveMakers'
  BY <1>11, <1>0 DEF EraseMoves
<1>12. ASSUME NEW l \in Start, BeginMoves(l)
      PROVE  StreamsHaveMakers'
  BY <1>12, <1>0 DEF BeginMoves
<1>13. ASSUME NEW l \in Start, CheckMoves(l)
      PROVE  StreamsHaveMakers'
  BY <1>13, <1>0 DEF CheckMoves
<1>14. ASSUME NEW l \in Start, ConnectFailsMoves(l)
      PROVE  StreamsHaveMakers'
  BY <1>14, <1>0 DEF ConnectFailsMoves
<1>15. ASSUME NEW l \in Start, NEW s \in Stream, CreateStreamMoves(l, s)
      PROVE  StreamsHaveMakers'
  BY <1>15, <1>0 DEF CreateStreamMoves
<1>16. ASSUME NEW l \in Start, ConnectedMoves(l)
      PROVE  StreamsHaveMakers'
  BY <1>16, <1>0 DEF ConnectedMoves
<1>17. ASSUME NEW l \in Start, SelectMoves(l)
      PROVE  StreamsHaveMakers'
  BY <1>17, <1>0 DEF SelectMoves
<1>18. ASSUME NEW l \in Start, StoppedMoves(l)
      PROVE  StreamsHaveMakers'
  BY <1>18, <1>0 DEF StoppedMoves
<1>19. ASSUME NEW l \in Start, AgainMoves(l)
      PROVE  StreamsHaveMakers'
  BY <1>19, <1>0 DEF AgainMoves
<1>20. ASSUME NEW l \in Start, CloseDoneMoves(l)
      PROVE  StreamsHaveMakers'
  BY <1>20, <1>0 DEF CloseDoneMoves
<1>21. ASSUME NEW l \in Start, EndMoves(l)
      PROVE  StreamsHaveMakers'
  BY <1>21, <1>0 DEF EndMoves
<1> QED
  BY <1>1, <1>2, <1>3, <1>4, <1>5, <1>6, <1>7, <1>8, <1>9, <1>10, <1>11, <1>12, <1>13, <1>14,
     <1>15, <1>16, <1>17, <1>18, <1>19, <1>20, <1>21 DEF Moves

\* A running stream stays within reach.
LEMMA HeldKept ==
  ASSUME CameraTypes, Numbered, SharedIsCrossed, AloneIsInStep, StreamsHaveMakers, StreamsHeld,
         Moves
  PROVE  StreamsHeld'
<1>0. /\ starts \in Nat /\ Start \subseteq Nat /\ Alive \subseteq 1..starts
      /\ current <= starts /\ crossed \subseteq Start /\ 0 \notin Start /\ 0 \notin Stream
      /\ \A l \in Start : loop[l].at # "none" => ~(l > starts)
  BY NumbersInUse
<1> USE DEF StreamsHeld, StreamsHaveMakers, AloneIsInStep, SharedIsCrossed, WorksOn, Numbered,
    Begun, NoneOr, Alive, OnlyLoop, OnlyReq, OnlyInst, SameInst, MovesTo, GoesTo, Answered,
    Halting, StreamsTyped
<1>1. ASSUME NEW r \in Request, NEW kind \in Kind, AskMoves(r, kind)
      PROVE  StreamsHeld'
  BY <1>1, <1>0 DEF AskMoves
<1>2. ASSUME NEW r \in Request, LookupMoves(r, "lookup", "save")
      PROVE  StreamsHeld'
  BY <1>2, <1>0 DEF LookupMoves
<1>3. ASSUME NEW r \in Request, SaveMoves(r)
      PROVE  StreamsHeld'
  BY <1>3, <1>0 DEF SaveMoves
<1>4. ASSUME NEW r \in Request, DecideMoves(r)
      PROVE  StreamsHeld'
  BY <1>4, <1>0 DEF DecideMoves
<1>5. ASSUME NEW r \in Request, LookupMoves(r, "start", "make")
      PROVE  StreamsHeld'
  BY <1>5, <1>0 DEF LookupMoves
<1>6. ASSUME NEW r \in Request, StartMoves(r)
      PROVE  StreamsHeld'
  BY <1>6, <1>0 DEF StartMoves
<1>7. ASSUME NEW r \in Request, StopMoves(r)
      PROVE  StreamsHeld'
  BY <1>7, <1>0 DEF StopMoves
<1>8. ASSUME NEW r \in Request, DeleteMoves(r)
      PROVE  StreamsHeld'
  BY <1>8, <1>0 DEF DeleteMoves
<1>9. ASSUME NEW r \in Request, HaltMoves(r)
      PROVE  StreamsHeld'
  BY <1>9, <1>0 DEF HaltMoves
<1>10. ASSUME NEW r \in Request, AwaitMoves(r)
      PROVE  StreamsHeld'
  BY <1>10, <1>0 DEF AwaitMoves
<1>11. ASSUME NEW r \in Request, EraseMoves(r)
      PROVE  StreamsHeld'
  BY <1>11, <1>0 DEF EraseMoves
<1>12. ASSUME NEW l \in Start, BeginMoves(l)
      PROVE  StreamsHeld'
  BY <1>12, <1>0 DEF BeginMoves
<1>13. ASSUME NEW l \in Start, CheckMoves(l)
      PROVE  StreamsHeld'
  BY <1>13, <1>0 DEF CheckMoves
<1>14. ASSUME NEW l \in Start, ConnectFailsMoves(l)
      PROVE  StreamsHeld'
  <2>1. /\ \A j \in Start : inst'[j].stream = inst[j].stream
        /\ current' = current /\ torn' = torn /\ req' = req /\ stream' = stream
    BY <1>14 DEF ConnectFailsMoves
  <2>2. current = 0 \/ current \in Start
    BY CurrentIsStart
  <2> HIDE DEF StreamsHaveMakers, AloneIsInStep, SharedIsCrossed, Numbered
  <2> QED
    BY <2>1, <2>2
<1>15. ASSUME NEW l \in Start, NEW s \in Stream, CreateStreamMoves(l, s)
      PROVE  StreamsHeld'
  <2>1. /\ \A j \in Start : inst'[j].stream = IF j = loop[l].inst THEN s ELSE inst[j].stream
        /\ current' = current /\ torn \subseteq torn' /\ req' = req
        /\ \A t \in Stream : stream'[t] = "running" => stream[t] = "running" /\ t # s
        /\ loop[l].at = "connecting"
    BY <1>15 DEF CreateStreamMoves
  <2>2. current = 0 \/ current \in Start
    BY CurrentIsStart
  <2>3. ASSUME NEW t \in Stream, stream[t] = "running", loop[l].inst = current, inst[current].stream = t
        PROVE  t \in torn
    <3>1. l \in Alive /\ loop[l].inst \in Start
      BY <2>1
    <3>2. SUFFICES ASSUME NEW m \in Alive, loop[m].inst = current, loop[m].stream = t,
                          loop[m].at \in {"starting", "online", "connected"}
                   PROVE  t \in torn
      BY <2>3, <3>1
    <3>3. m \in crossed
      BY <2>1, <2>3, <3>1, <3>2
    <3> QED
      BY <1>0, <3>2, <3>3
  <2> HIDE DEF StreamsHaveMakers, AloneIsInStep, SharedIsCrossed, Numbered
  <2> QED
    BY <2>1, <2>2, <2>3
<1>16. ASSUME NEW l \in Start, ConnectedMoves(l)
      PROVE  StreamsHeld'
  <2>1. /\ \A j \in Start : inst'[j].stream = inst[j].stream
        /\ current' = current /\ torn' = torn /\ req' = req
        /\ \A s \in Stream : stream'[s] = "running" => stream[s] = "running" \/ (s = loop[l].stream /\ stream[s] = "created")
        /\ loop[l].at = "starting" \/ motion
    BY <1>16 DEF ConnectedMoves
  <2>2. current = 0 \/ current \in Start
    BY CurrentIsStart
  <2>3. ASSUME NEW s \in Stream, s = loop[l].stream, stream[s] = "created"
        PROVE  s \in torn \/ (current # 0 /\ inst[current].stream = s)
    <3>1. loop[l].at = "starting" /\ l \in Alive
      BY <2>1, <2>3
    <3>2. CASE l \in crossed
      BY <1>0, <2>3, <3>2
    <3>3. CASE l \notin crossed
      <4>1. inst[loop[l].inst].stream = s /\ loop[l].inst = current
        BY <2>3, <3>1, <3>3
      <4>2. loop[l].inst \in Start
        BY <3>1
      <4> QED
        BY <1>0, <4>1, <4>2
    <3> QED
      BY <3>2, <3>3
  <2> HIDE DEF StreamsHaveMakers, AloneIsInStep, SharedIsCrossed, Numbered
  <2> QED
    BY <2>1, <2>2, <2>3
<1>17. ASSUME NEW l \in Start, SelectMoves(l)
      PROVE  StreamsHeld'
  BY <1>17, <1>0 DEF SelectMoves
<1>18. ASSUME NEW l \in Start, StoppedMoves(l)
      PROVE  StreamsHeld'
  BY <1>18, <1>0 DEF StoppedMoves
<1>19. ASSUME NEW l \in Start, AgainMoves(l)
      PROVE  StreamsHeld'
  BY <1>19, <1>0 DEF AgainMoves
<1>20. ASSUME NEW l \in Start, CloseDoneMoves(l)
      PROVE  StreamsHeld'
  BY <1>20, <1>0 DEF CloseDoneMoves
<1>21. ASSUME NEW l \in Start, EndMoves(l)
      PROVE  StreamsHeld'
  <2>1. /\ \A j \in Start : inst'[j].stream = inst[j].stream
        /\ current' = current /\ torn' = torn /\ req' = req /\ stream' = stream
    BY <1>21 DEF EndMoves
  <2>2. current = 0 \/ current \in Start
    BY CurrentIsStart
  <2> HIDE DEF StreamsHaveMakers, AloneIsInStep, SharedIsCrossed, Numbered
  <2> QED
    BY <2>1, <2>2
<1> QED
  BY <1>1, <1>2, <1>3, <1>4, <1>5, <1>6, <1>7, <1>8, <1>9, <1>10, <1>11, <1>12, <1>13, <1>14,
     <1>15, <1>16, <1>17, <1>18, <1>19, <1>20, <1>21 DEF Moves

\* Without haste there is one goroutine, on its own channels.
LEMMA GoroutineKept ==
  ASSUME CameraTypes, Numbered, ~dead, OneGoroutine, OneRequest, RowIsServed, ~hasty, ~hasty', Moves
  PROVE  OneGoroutine'
<1>0. /\ starts \in Nat /\ Start \subseteq Nat /\ Alive \subseteq 1..starts
      /\ current <= starts /\ crossed \subseteq Start /\ 0 \notin Start /\ 0 \notin Stream
      /\ \A l \in Start : loop[l].at # "none" => ~(l > starts)
  BY NumbersInUse
<1>t. Hasty => \A l \in Alive : loop[l].at # "spawned" /\ ~Over(l)
  BY ToldIsOver DEF Hasty
<1> USE DEF OneGoroutine, OneRequest, Over, Numbered, Alive, OnlyLoop, OnlyReq, OnlyInst,
    SameInst, MovesTo, GoesTo, Answered, Halting, StreamsTyped
<1>1. ASSUME NEW r \in Request, NEW kind \in Kind, AskMoves(r, kind)
      PROVE  OneGoroutine'
  BY <1>1, <1>0, <1>t DEF AskMoves
<1>2. ASSUME NEW r \in Request, LookupMoves(r, "lookup", "save")
      PROVE  OneGoroutine'
  BY <1>2, <1>0, <1>t DEF LookupMoves
<1>3. ASSUME NEW r \in Request, SaveMoves(r)
      PROVE  OneGoroutine'
  BY <1>3, <1>0, <1>t DEF SaveMoves
<1>4. ASSUME NEW r \in Request, DecideMoves(r)
      PROVE  OneGoroutine'
  BY <1>4, <1>0, <1>t DEF DecideMoves
<1>5. ASSUME NEW r \in Request, LookupMoves(r, "start", "make")
      PROVE  OneGoroutine'
  BY <1>5, <1>0, <1>t DEF LookupMoves
<1>6. ASSUME NEW r \in Request, StartMoves(r)
      PROVE  OneGoroutine'
  <2>0. PICK c : c = starts'
    OBVIOUS
  <2>1. /\ starts \in Nat /\ c = starts + 1 /\ c \in Start /\ stopped' = stopped /\ done' = done
        /\ loop'[c] = Spawned /\ \A m \in Start : m # c => loop'[m] = loop[m]
        /\ current' = (IF current = 0 THEN c ELSE current) /\ current' \in Start /\ inst'[current'].chan = c
        /\ inst'[current'].running <=> current # 0 /\ inst[current].running
        /\ req[r].at = "make" /\ Hasty
    BY <1>6, <1>0, <2>0 DEF StartMoves
  <2>2. Spawned.at = "spawned" /\ c \notin stopped /\ loop[c].at = "none"
    BY <1>0, <2>1 DEF Spawned, NoLoop, CameraTypes
  <2>3. \A m \in Start : loop[m].at \in {"none", "ended"}
    BY <1>t, <2>1
  <2>4. ~(current # 0 /\ inst[current].running)
    BY <2>3
  <2>5. \A m \in done' : loop'[m].at \in {"closed", "ended"}
    BY <2>1, <2>2
  <2>6. \A m \in Start : loop'[m].at \notin {"none", "ended"} => m = c
    BY <2>1, <2>3
  <2> QED
    BY <1>0, <2>1, <2>2, <2>4, <2>5, <2>6
<1>7. ASSUME NEW r \in Request, StopMoves(r)
      PROVE  OneGoroutine'
  BY <1>7, <1>0, <1>t DEF StopMoves
<1>8. ASSUME NEW r \in Request, DeleteMoves(r)
      PROVE  OneGoroutine'
  BY <1>8, <1>0, <1>t DEF DeleteMoves
<1>9. ASSUME NEW r \in Request, HaltMoves(r)
      PROVE  OneGoroutine'
  BY <1>9, <1>0, <1>t DEF HaltMoves
<1>10. ASSUME NEW r \in Request, AwaitMoves(r)
      PROVE  OneGoroutine'
  BY <1>10, <1>0, <1>t DEF AwaitMoves
<1>11. ASSUME NEW r \in Request, EraseMoves(r)
      PROVE  OneGoroutine'
  BY <1>11, <1>0, <1>t DEF EraseMoves
<1>12. ASSUME NEW l \in Start, BeginMoves(l)
      PROVE  OneGoroutine'
  BY <1>12, <1>0, <1>t DEF BeginMoves
<1>13. ASSUME NEW l \in Start, CheckMoves(l)
      PROVE  OneGoroutine'
  BY <1>13, <1>0, <1>t DEF CheckMoves
<1>14. ASSUME NEW l \in Start, ConnectFailsMoves(l)
      PROVE  OneGoroutine'
  <2>1. /\ \A j \in Start : inst'[j].chan = inst[j].chan /\ inst'[j].running = inst[j].running
        /\ \A m \in Start : m # l => loop'[m] = loop[m]
        /\ loop[l].at \in {"connecting", "starting"} /\ loop'[l].at \in {"leaving", "waiting", "starting", "online"}
        /\ loop'[l].at = "waiting" => loop'[l].on = inst[loop[l].inst].chan
        /\ loop'[l].inst = loop[l].inst /\ loop'[l].chan = loop[l].chan
        /\ current' = current /\ stopped' = stopped /\ done' = done
    BY <1>14 DEF ConnectFailsMoves
  <2>2. current = 0 \/ current \in Start
    BY CurrentIsStart
  <2> HIDE DEF OneRequest, Numbered
  <2>3. \A m \in Start : loop'[m].at \notin {"none", "ended"} <=> loop[m].at \notin {"none", "ended"}
    BY <2>1
  <2>4. \A m \in Start : /\ loop'[m].at = "spawned" <=> loop[m].at = "spawned"
                         /\ loop'[m].inst = loop[m].inst /\ loop'[m].chan = loop[m].chan
    BY <2>1
  <2>5. ASSUME NEW m \in Start, loop'[m].at \notin {"none", "ended", "spawned"}
        PROVE  /\ loop'[m].chan = m /\ inst'[loop'[m].inst].chan = m /\ inst'[loop'[m].inst].running
               /\ loop'[m].at \in {"waiting", "connected"} => loop'[m].on = m
               /\ loop'[m].inst = current' \/ m \in stopped'
    <3>1. PICK i \in Start : i = loop[m].inst
      BY <2>3, <2>4, <2>5 DEF Numbered
    <3>2. loop[m].chan = m /\ inst[i].chan = m /\ inst[i].running /\ (i = current \/ m \in stopped)
      BY <2>3, <2>4, <2>5, <3>1
    <3>3. inst'[i].running
      BY <2>1, <3>2
    <3>4. loop'[m].at \in {"waiting", "connected"} => loop'[m].on = m
      BY <2>1, <2>3, <2>4, <2>5, <3>1, <3>2
    <3> QED
      BY <2>1, <2>4, <3>1, <3>2, <3>3, <3>4
  <2>6. ASSUME NEW m \in Start, loop'[m].at = "spawned"
        PROVE  current' # 0 /\ inst'[current'].chan = m /\ m \notin stopped'
    BY <2>1, <2>2, <2>4, <2>6
  <2>7. \A m \in done' : loop'[m].at \in {"closed", "ended"}
    BY <2>1
  <2>8. current' # 0 /\ inst'[current'].running => \E m \in Start : loop'[m].at \notin {"none", "ended"} /\ loop'[m].inst = current'
    BY <2>1, <2>2, <2>3, <2>4
  <2> QED
    BY <2>1, <2>3, <2>5, <2>6, <2>7, <2>8
<1>15. ASSUME NEW l \in Start, NEW s \in Stream, CreateStreamMoves(l, s)
      PROVE  OneGoroutine'
  <2>1. /\ \A j \in Start : inst'[j].chan = inst[j].chan /\ inst'[j].running = inst[j].running
        /\ \A m \in Start : m # l => loop'[m] = loop[m]
        /\ loop[l].at \in {"connecting", "starting"} /\ loop'[l].at \in {"leaving", "waiting", "starting", "online"}
        /\ loop'[l].at = "waiting" => loop'[l].on = inst[loop[l].inst].chan
        /\ loop'[l].inst = loop[l].inst /\ loop'[l].chan = loop[l].chan
        /\ current' = current /\ stopped' = stopped /\ done' = done
    BY <1>15 DEF CreateStreamMoves
  <2>2. current = 0 \/ current \in Start
    BY CurrentIsStart
  <2> HIDE DEF OneRequest, Numbered
  <2>3. \A m \in Start : loop'[m].at \notin {"none", "ended"} <=> loop[m].at \notin {"none", "ended"}
    BY <2>1
  <2>4. \A m \in Start : /\ loop'[m].at = "spawned" <=> loop[m].at = "spawned"
                         /\ loop'[m].inst = loop[m].inst /\ loop'[m].chan = loop[m].chan
    BY <2>1
  <2>5. ASSUME NEW m \in Start, loop'[m].at \notin {"none", "ended", "spawned"}
        PROVE  /\ loop'[m].chan = m /\ inst'[loop'[m].inst].chan = m /\ inst'[loop'[m].inst].running
               /\ loop'[m].at \in {"waiting", "connected"} => loop'[m].on = m
               /\ loop'[m].inst = current' \/ m \in stopped'
    <3>1. PICK i \in Start : i = loop[m].inst
      BY <2>3, <2>4, <2>5 DEF Numbered
    <3>2. loop[m].chan = m /\ inst[i].chan = m /\ inst[i].running /\ (i = current \/ m \in stopped)
      BY <2>3, <2>4, <2>5, <3>1
    <3>3. inst'[i].running
      BY <2>1, <3>2
    <3>4. loop'[m].at \in {"waiting", "connected"} => loop'[m].on = m
      BY <2>1, <2>3, <2>4, <2>5, <3>1, <3>2
    <3> QED
      BY <2>1, <2>4, <3>1, <3>2, <3>3, <3>4
  <2>6. ASSUME NEW m \in Start, loop'[m].at = "spawned"
        PROVE  current' # 0 /\ inst'[current'].chan = m /\ m \notin stopped'
    BY <2>1, <2>2, <2>4, <2>6
  <2>7. \A m \in done' : loop'[m].at \in {"closed", "ended"}
    BY <2>1
  <2>8. current' # 0 /\ inst'[current'].running => \E m \in Start : loop'[m].at \notin {"none", "ended"} /\ loop'[m].inst = current'
    BY <2>1, <2>2, <2>3, <2>4
  <2> QED
    BY <2>1, <2>3, <2>5, <2>6, <2>7, <2>8
<1>16. ASSUME NEW l \in Start, ConnectedMoves(l)
      PROVE  OneGoroutine'
  <2>1. /\ \A j \in Start : inst'[j].chan = inst[j].chan /\ inst'[j].running = inst[j].running
        /\ \A m \in Start : m # l => loop'[m] = loop[m]
        /\ loop[l].at \in {"connecting", "starting"} /\ loop'[l].at \in {"leaving", "waiting", "starting", "online"}
        /\ loop'[l].at = "waiting" => loop'[l].on = inst[loop[l].inst].chan
        /\ loop'[l].inst = loop[l].inst /\ loop'[l].chan = loop[l].chan
        /\ current' = current /\ stopped' = stopped /\ done' = done
    BY <1>16 DEF ConnectedMoves
  <2>2. current = 0 \/ current \in Start
    BY CurrentIsStart
  <2> HIDE DEF OneRequest, Numbered
  <2>3. \A m \in Start : loop'[m].at \notin {"none", "ended"} <=> loop[m].at \notin {"none", "ended"}
    BY <2>1
  <2>4. \A m \in Start : /\ loop'[m].at = "spawned" <=> loop[m].at = "spawned"
                         /\ loop'[m].inst = loop[m].inst /\ loop'[m].chan = loop[m].chan
    BY <2>1
  <2>5. ASSUME NEW m \in Start, loop'[m].at \notin {"none", "ended", "spawned"}
        PROVE  /\ loop'[m].chan = m /\ inst'[loop'[m].inst].chan = m /\ inst'[loop'[m].inst].running
               /\ loop'[m].at \in {"waiting", "connected"} => loop'[m].on = m
               /\ loop'[m].inst = current' \/ m \in stopped'
    <3>1. PICK i \in Start : i = loop[m].inst
      BY <2>3, <2>4, <2>5 DEF Numbered
    <3>2. loop[m].chan = m /\ inst[i].chan = m /\ inst[i].running /\ (i = current \/ m \in stopped)
      BY <2>3, <2>4, <2>5, <3>1
    <3>3. inst'[i].running
      BY <2>1, <3>2
    <3>4. loop'[m].at \in {"waiting", "connected"} => loop'[m].on = m
      BY <2>1, <2>3, <2>4, <2>5, <3>1, <3>2
    <3> QED
      BY <2>1, <2>4, <3>1, <3>2, <3>3, <3>4
  <2>6. ASSUME NEW m \in Start, loop'[m].at = "spawned"
        PROVE  current' # 0 /\ inst'[current'].chan = m /\ m \notin stopped'
    BY <2>1, <2>2, <2>4, <2>6
  <2>7. \A m \in done' : loop'[m].at \in {"closed", "ended"}
    BY <2>1
  <2>8. current' # 0 /\ inst'[current'].running => \E m \in Start : loop'[m].at \notin {"none", "ended"} /\ loop'[m].inst = current'
    BY <2>1, <2>2, <2>3, <2>4
  <2> QED
    BY <2>1, <2>3, <2>5, <2>6, <2>7, <2>8
<1>17. ASSUME NEW l \in Start, SelectMoves(l)
      PROVE  OneGoroutine'
  BY <1>17, <1>0, <1>t DEF SelectMoves
<1>18. ASSUME NEW l \in Start, StoppedMoves(l)
      PROVE  OneGoroutine'
  BY <1>18, <1>0, <1>t DEF StoppedMoves
<1>19. ASSUME NEW l \in Start, AgainMoves(l)
      PROVE  OneGoroutine'
  BY <1>19, <1>0, <1>t DEF AgainMoves
<1>20. ASSUME NEW l \in Start, CloseDoneMoves(l)
      PROVE  OneGoroutine'
  BY <1>20, <1>0, <1>t DEF CloseDoneMoves
<1>21. ASSUME NEW l \in Start, EndMoves(l)
      PROVE  OneGoroutine'
  <2>1. /\ \A j \in Start : inst'[j].chan = inst[j].chan
        /\ \A j \in Start : j # loop[l].inst => inst'[j] = inst[j]
        /\ inst'[loop[l].inst].running = FALSE
        /\ \A m \in Start : m # l => loop'[m] = loop[m]
        /\ loop[l].at = "closed" /\ loop'[l].at = "ended"
        /\ current' = current /\ stopped' = stopped /\ done' = done
    BY <1>21 DEF EndMoves
  <2>2. \A m \in Start : loop'[m].at \in {"none", "ended"}
    BY <2>1
  <2>3. current = 0 \/ current \in Start
    BY CurrentIsStart
  <2>4. ~(current' # 0 /\ inst'[current'].running)
    BY <2>1, <2>3
  <2>5. \A m \in done' : loop'[m].at \in {"closed", "ended"}
    BY <2>1
  <2> QED
    BY <2>1, <2>2, <2>4, <2>5
<1> QED
  BY <1>1, <1>2, <1>3, <1>4, <1>5, <1>6, <1>7, <1>8, <1>9, <1>10, <1>11, <1>12, <1>13, <1>14,
     <1>15, <1>16, <1>17, <1>18, <1>19, <1>20, <1>21 DEF Moves

\* Without haste the requests come one by one.
LEMMA RequestKept ==
  ASSUME CameraTypes, Numbered, ~dead, OneGoroutine, OneRequest, RowIsServed, ~hasty, ~hasty', Moves
  PROVE  OneRequest'
<1>0. /\ starts \in Nat /\ Start \subseteq Nat /\ Alive \subseteq 1..starts
      /\ current <= starts /\ crossed \subseteq Start /\ 0 \notin Start /\ 0 \notin Stream
      /\ \A l \in Start : loop[l].at # "none" => ~(l > starts)
  BY NumbersInUse
<1>t. Hasty => \A l \in Alive : loop[l].at # "spawned" /\ ~Over(l)
  BY ToldIsOver DEF Hasty
<1> USE DEF OneRequest, RowIsServed, OneGoroutine, Over, InProgress, Numbered, Alive, OnlyLoop,
    OnlyReq, OnlyInst, SameInst, MovesTo, GoesTo, Answered, Halting, StreamsTyped
<1>1. ASSUME NEW r \in Request, NEW kind \in Kind, AskMoves(r, kind)
      PROVE  OneRequest'
  <2>1. \A q \in Request : req[q].at \in {"idle", "answered"}
    BY <1>1, Zenon DEF AskMoves
  <2>2. /\ \A q \in Request : q # r => req'[q] = req[q]
        /\ (kind = "restart" /\ req'[r].at = "stop") \/ (kind = "delete" /\ req'[r].at = "delete")
           \/ (kind \in {"enable", "disable"} /\ req'[r].at = "lookup")
        /\ req'[r].kind = kind
    BY <1>1 DEF AskMoves, Kind
  <2> HIDE DEF OneGoroutine, RowIsServed, Over
  <2> QED
    BY <2>1, <2>2
<1>2. ASSUME NEW r \in Request, LookupMoves(r, "lookup", "save")
      PROVE  OneRequest'
  BY <1>2, <1>0, <1>t DEF LookupMoves
<1>3. ASSUME NEW r \in Request, SaveMoves(r)
      PROVE  OneRequest'
  BY <1>3, <1>0, <1>t DEF SaveMoves
<1>4. ASSUME NEW r \in Request, DecideMoves(r)
      PROVE  OneRequest'
  BY <1>4, <1>0, <1>t DEF DecideMoves
<1>5. ASSUME NEW r \in Request, LookupMoves(r, "start", "make")
      PROVE  OneRequest'
  BY <1>5, <1>0, <1>t DEF LookupMoves
<1>6. ASSUME NEW r \in Request, StartMoves(r)
      PROVE  OneRequest'
  BY <1>6, <1>0, <1>t DEF StartMoves
<1>7. ASSUME NEW r \in Request, StopMoves(r)
      PROVE  OneRequest'
  BY <1>7, <1>0, <1>t DEF StopMoves
<1>8. ASSUME NEW r \in Request, DeleteMoves(r)
      PROVE  OneRequest'
  BY <1>8, <1>0, <1>t DEF DeleteMoves
<1>9. ASSUME NEW r \in Request, HaltMoves(r)
      PROVE  OneRequest'
  BY <1>9, <1>0, <1>t DEF HaltMoves
<1>10. ASSUME NEW r \in Request, AwaitMoves(r)
      PROVE  OneRequest'
  BY <1>10, <1>0, <1>t DEF AwaitMoves
<1>11. ASSUME NEW r \in Request, EraseMoves(r)
      PROVE  OneRequest'
  BY <1>11, <1>0, <1>t DEF EraseMoves
<1>12. ASSUME NEW l \in Start, BeginMoves(l)
      PROVE  OneRequest'
  BY <1>12, <1>0, <1>t DEF BeginMoves
<1>13. ASSUME NEW l \in Start, CheckMoves(l)
      PROVE  OneRequest'
  BY <1>13, <1>0, <1>t DEF CheckMoves
<1>14. ASSUME NEW l \in Start, ConnectFailsMoves(l)
      PROVE  OneRequest'
  BY <1>14, <1>0, <1>t DEF ConnectFailsMoves
<1>15. ASSUME NEW l \in Start, NEW s \in Stream, CreateStreamMoves(l, s)
      PROVE  OneRequest'
  BY <1>15, <1>0, <1>t DEF CreateStreamMoves
<1>16. ASSUME NEW l \in Start, ConnectedMoves(l)
      PROVE  OneRequest'
  BY <1>16, <1>0, <1>t DEF ConnectedMoves
<1>17. ASSUME NEW l \in Start, SelectMoves(l)
      PROVE  OneRequest'
  BY <1>17, <1>0, <1>t DEF SelectMoves
<1>18. ASSUME NEW l \in Start, StoppedMoves(l)
      PROVE  OneRequest'
  BY <1>18, <1>0, <1>t DEF StoppedMoves
<1>19. ASSUME NEW l \in Start, AgainMoves(l)
      PROVE  OneRequest'
  BY <1>19, <1>0, <1>t DEF AgainMoves
<1>20. ASSUME NEW l \in Start, CloseDoneMoves(l)
      PROVE  OneRequest'
  BY <1>20, <1>0, <1>t DEF CloseDoneMoves
<1>21. ASSUME NEW l \in Start, EndMoves(l)
      PROVE  OneRequest'
  BY <1>21, <1>0, <1>t DEF EndMoves
<1> QED
  BY <1>1, <1>2, <1>3, <1>4, <1>5, <1>6, <1>7, <1>8, <1>9, <1>10, <1>11, <1>12, <1>13, <1>14,
     <1>15, <1>16, <1>17, <1>18, <1>19, <1>20, <1>21 DEF Moves

\* Without haste the row is served.
LEMMA ServedKept ==
  ASSUME CameraTypes, Numbered, ~dead, OneGoroutine, OneRequest, RowIsServed, ~hasty, ~hasty', Moves
  PROVE  RowIsServed'
<1>0. /\ starts \in Nat /\ Start \subseteq Nat /\ Alive \subseteq 1..starts
      /\ current <= starts /\ crossed \subseteq Start /\ 0 \notin Start /\ 0 \notin Stream
      /\ \A l \in Start : loop[l].at # "none" => ~(l > starts)
  BY NumbersInUse
<1>t. Hasty => \A l \in Alive : loop[l].at # "spawned" /\ ~Over(l)
  BY ToldIsOver DEF Hasty
<1> USE DEF Closed, RowIsServed, OneRequest, OneGoroutine, Over, InProgress, Numbered, Alive,
    OnlyLoop, OnlyReq, OnlyInst, SameInst, MovesTo, GoesTo, Answered, Halting, StreamsTyped
<1>1. ASSUME NEW r \in Request, NEW kind \in Kind, AskMoves(r, kind)
      PROVE  RowIsServed'
  BY <1>1, <1>0, <1>t DEF AskMoves
<1>2. ASSUME NEW r \in Request, LookupMoves(r, "lookup", "save")
      PROVE  RowIsServed'
  BY <1>2, <1>0, <1>t DEF LookupMoves
<1>3. ASSUME NEW r \in Request, SaveMoves(r)
      PROVE  RowIsServed'
  BY <1>3, <1>0, <1>t DEF SaveMoves
<1>4. ASSUME NEW r \in Request, DecideMoves(r)
      PROVE  RowIsServed'
  BY <1>4, <1>0, <1>t DEF DecideMoves
<1>5. ASSUME NEW r \in Request, LookupMoves(r, "start", "make")
      PROVE  RowIsServed'
  BY <1>5, <1>0, <1>t DEF LookupMoves
<1>6. ASSUME NEW r \in Request, StartMoves(r)
      PROVE  RowIsServed'
  <2>0. PICK c : c = starts'
    OBVIOUS
  <2>1. c \in Start /\ loop'[c] = Spawned /\ current' \in Start
    BY <1>6, <2>0 DEF StartMoves
  <2>2. Spawned.at = "spawned"
    BY DEF Spawned, NoLoop
  <2> QED
    BY <1>0, <2>1, <2>2
<1>7. ASSUME NEW r \in Request, StopMoves(r)
      PROVE  RowIsServed'
  BY <1>7, <1>0, <1>t DEF StopMoves
<1>8. ASSUME NEW r \in Request, DeleteMoves(r)
      PROVE  RowIsServed'
  BY <1>8, <1>0, <1>t DEF DeleteMoves
<1>9. ASSUME NEW r \in Request, HaltMoves(r)
      PROVE  RowIsServed'
  BY <1>9, <1>0, <1>t DEF HaltMoves
<1>10. ASSUME NEW r \in Request, AwaitMoves(r)
      PROVE  RowIsServed'
  BY <1>10, <1>0, <1>t DEF AwaitMoves
<1>11. ASSUME NEW r \in Request, EraseMoves(r)
      PROVE  RowIsServed'
  BY <1>11, <1>0, <1>t DEF EraseMoves
<1>12. ASSUME NEW l \in Start, BeginMoves(l)
      PROVE  RowIsServed'
  BY <1>12, <1>0, <1>t DEF BeginMoves
<1>13. ASSUME NEW l \in Start, CheckMoves(l)
      PROVE  RowIsServed'
  BY <1>13, <1>0, <1>t DEF CheckMoves
<1>14. ASSUME NEW l \in Start, ConnectFailsMoves(l)
      PROVE  RowIsServed'
  BY <1>14, <1>0, <1>t DEF ConnectFailsMoves
<1>15. ASSUME NEW l \in Start, NEW s \in Stream, CreateStreamMoves(l, s)
      PROVE  RowIsServed'
  BY <1>15, <1>0, <1>t DEF CreateStreamMoves
<1>16. ASSUME NEW l \in Start, ConnectedMoves(l)
      PROVE  RowIsServed'
  BY <1>16, <1>0, <1>t DEF ConnectedMoves
<1>17. ASSUME NEW l \in Start, SelectMoves(l)
      PROVE  RowIsServed'
  BY <1>17, <1>0, <1>t DEF SelectMoves
<1>18. ASSUME NEW l \in Start, StoppedMoves(l)
      PROVE  RowIsServed'
  BY <1>18, <1>0, <1>t DEF StoppedMoves
<1>19. ASSUME NEW l \in Start, AgainMoves(l)
      PROVE  RowIsServed'
  BY <1>19, <1>0, <1>t DEF AgainMoves
<1>20. ASSUME NEW l \in Start, CloseDoneMoves(l)
      PROVE  RowIsServed'
  BY <1>20, <1>0, <1>t DEF CloseDoneMoves
<1>21. ASSUME NEW l \in Start, EndMoves(l)
      PROVE  RowIsServed'
  BY <1>21, <1>0, <1>t DEF EndMoves
<1> QED
  BY <1>1, <1>2, <1>3, <1>4, <1>5, <1>6, <1>7, <1>8, <1>9, <1>10, <1>11, <1>12, <1>13, <1>14,
     <1>15, <1>16, <1>17, <1>18, <1>19, <1>20, <1>21 DEF Moves

\* Haste is not forgotten.
LEMMA HasteStays ==
  ASSUME hasty, Moves
  PROVE  hasty'
<1> USE DEF Hasty
<1>1. ASSUME NEW r \in Request, NEW kind \in Kind, AskMoves(r, kind)
      PROVE  hasty'
  BY <1>1, Zenon DEF AskMoves
<1>2. ASSUME NEW r \in Request, LookupMoves(r, "lookup", "save")
      PROVE  hasty'
  BY <1>2 DEF LookupMoves
<1>3. ASSUME NEW r \in Request, SaveMoves(r)
      PROVE  hasty'
  BY <1>3 DEF SaveMoves
<1>4. ASSUME NEW r \in Request, DecideMoves(r)
      PROVE  hasty'
  BY <1>4, Zenon DEF DecideMoves
<1>5. ASSUME NEW r \in Request, LookupMoves(r, "start", "make")
      PROVE  hasty'
  BY <1>5 DEF LookupMoves
<1>6. ASSUME NEW r \in Request, StartMoves(r)
      PROVE  hasty'
  BY <1>6, Zenon DEF StartMoves
<1>7. ASSUME NEW r \in Request, StopMoves(r)
      PROVE  hasty'
  BY <1>7, Zenon DEF StopMoves
<1>8. ASSUME NEW r \in Request, DeleteMoves(r)
      PROVE  hasty'
  BY <1>8, Zenon DEF DeleteMoves
<1>9. ASSUME NEW r \in Request, HaltMoves(r)
      PROVE  hasty'
  BY <1>9 DEF HaltMoves
<1>10. ASSUME NEW r \in Request, AwaitMoves(r)
      PROVE  hasty'
  BY <1>10 DEF AwaitMoves
<1>11. ASSUME NEW r \in Request, EraseMoves(r)
      PROVE  hasty'
  BY <1>11 DEF EraseMoves
<1>12. ASSUME NEW l \in Start, BeginMoves(l)
      PROVE  hasty'
  BY <1>12 DEF BeginMoves
<1>13. ASSUME NEW l \in Start, CheckMoves(l)
      PROVE  hasty'
  BY <1>13 DEF CheckMoves
<1>14. ASSUME NEW l \in Start, ConnectFailsMoves(l)
      PROVE  hasty'
  BY <1>14 DEF ConnectFailsMoves
<1>15. ASSUME NEW l \in Start, NEW s \in Stream, CreateStreamMoves(l, s)
      PROVE  hasty'
  BY <1>15 DEF CreateStreamMoves
<1>16. ASSUME NEW l \in Start, ConnectedMoves(l)
      PROVE  hasty'
  BY <1>16 DEF ConnectedMoves
<1>17. ASSUME NEW l \in Start, SelectMoves(l)
      PROVE  hasty'
  BY <1>17 DEF SelectMoves
<1>18. ASSUME NEW l \in Start, StoppedMoves(l)
      PROVE  hasty'
  BY <1>18 DEF StoppedMoves
<1>19. ASSUME NEW l \in Start, AgainMoves(l)
      PROVE  hasty'
  BY <1>19 DEF AgainMoves
<1>20. ASSUME NEW l \in Start, CloseDoneMoves(l)
      PROVE  hasty'
  BY <1>20 DEF CloseDoneMoves
<1>21. ASSUME NEW l \in Start, EndMoves(l)
      PROVE  hasty'
  BY <1>21 DEF EndMoves
<1> QED
  BY <1>1, <1>2, <1>3, <1>4, <1>5, <1>6, <1>7, <1>8, <1>9, <1>10, <1>11, <1>12, <1>13, <1>14,
     <1>15, <1>16, <1>17, <1>18, <1>19, <1>20, <1>21 DEF Moves

\* Without haste no goroutine panics.
LEMMA AliveKept ==
  ASSUME CameraTypes, ~dead, OneGoroutine, Moves
  PROVE  ~dead'
<1> USE DEF OneGoroutine, Alive
<1>1. ASSUME NEW r \in Request, NEW kind \in Kind, AskMoves(r, kind)
      PROVE  ~dead'
  BY <1>1 DEF AskMoves
<1>2. ASSUME NEW r \in Request, LookupMoves(r, "lookup", "save")
      PROVE  ~dead'
  BY <1>2 DEF LookupMoves
<1>3. ASSUME NEW r \in Request, SaveMoves(r)
      PROVE  ~dead'
  BY <1>3 DEF SaveMoves
<1>4. ASSUME NEW r \in Request, DecideMoves(r)
      PROVE  ~dead'
  BY <1>4 DEF DecideMoves
<1>5. ASSUME NEW r \in Request, LookupMoves(r, "start", "make")
      PROVE  ~dead'
  BY <1>5 DEF LookupMoves
<1>6. ASSUME NEW r \in Request, StartMoves(r)
      PROVE  ~dead'
  BY <1>6 DEF StartMoves
<1>7. ASSUME NEW r \in Request, StopMoves(r)
      PROVE  ~dead'
  BY <1>7 DEF StopMoves
<1>8. ASSUME NEW r \in Request, DeleteMoves(r)
      PROVE  ~dead'
  BY <1>8 DEF DeleteMoves
<1>9. ASSUME NEW r \in Request, HaltMoves(r)
      PROVE  ~dead'
  BY <1>9 DEF HaltMoves
<1>10. ASSUME NEW r \in Request, AwaitMoves(r)
      PROVE  ~dead'
  BY <1>10 DEF AwaitMoves
<1>11. ASSUME NEW r \in Request, EraseMoves(r)
      PROVE  ~dead'
  BY <1>11 DEF EraseMoves
<1>12. ASSUME NEW l \in Start, BeginMoves(l)
      PROVE  ~dead'
  BY <1>12 DEF BeginMoves
<1>13. ASSUME NEW l \in Start, CheckMoves(l)
      PROVE  ~dead'
  BY <1>13 DEF CheckMoves
<1>14. ASSUME NEW l \in Start, ConnectFailsMoves(l)
      PROVE  ~dead'
  BY <1>14 DEF ConnectFailsMoves
<1>15. ASSUME NEW l \in Start, NEW s \in Stream, CreateStreamMoves(l, s)
      PROVE  ~dead'
  BY <1>15 DEF CreateStreamMoves
<1>16. ASSUME NEW l \in Start, ConnectedMoves(l)
      PROVE  ~dead'
  BY <1>16 DEF ConnectedMoves
<1>17. ASSUME NEW l \in Start, SelectMoves(l)
      PROVE  ~dead'
  BY <1>17 DEF SelectMoves
<1>18. ASSUME NEW l \in Start, StoppedMoves(l)
      PROVE  ~dead'
  BY <1>18 DEF StoppedMoves
<1>19. ASSUME NEW l \in Start, AgainMoves(l)
      PROVE  ~dead'
  BY <1>19 DEF AgainMoves
<1>20. ASSUME NEW l \in Start, CloseDoneMoves(l)
      PROVE  ~dead'
  BY <1>20 DEF CloseDoneMoves
<1>21. ASSUME NEW l \in Start, EndMoves(l)
      PROVE  ~dead'
  BY <1>21 DEF EndMoves
<1> QED
  BY <1>1, <1>2, <1>3, <1>4, <1>5, <1>6, <1>7, <1>8, <1>9, <1>10, <1>11, <1>12, <1>13, <1>14,
     <1>15, <1>16, <1>17, <1>18, <1>19, <1>20, <1>21 DEF Moves

-----------------------------------------------------------------------------
(* The two invariants.                                                     *)

\* The camera manager starts in StreamInv.
LEMMA StreamInit == Init => StreamInv
<1> SUFFICES ASSUME Init PROVE StreamInv
  OBVIOUS
<1>1. /\ 1 \in Start /\ Start \subseteq Nat /\ starts = 1 /\ current = 1
      /\ \A l \in Start : l > 1 => l # 1
  BY CameraAssumption DEF Init, Start
<1>2. /\ \A i \in Start : inst[i] = [chan |-> 1, running |-> FALSE, stream |-> 0, tries |-> 0]
      /\ \A i \in Start : inst[i] = NewInst(1)
      /\ \A r \in Request : req[r] = Idle
      /\ \A l \in Start : loop[l] \in {NoLoop, Spawned} /\ (l # 1 => loop[l] = NoLoop)
      /\ \A r \in Request : req[r] = [at |-> "idle", kind |-> "enable", stream |-> 0]
      /\ \A s \in Stream : stream[s] = "none"
  BY DEF Init, NewInst, Idle
<1>3. /\ NoLoop = [at |-> "none", inst |-> 0, chan |-> 0, on |-> 0, until |-> 0, stream |-> 0]
      /\ Spawned = [at |-> "spawned", inst |-> 0, chan |-> 0, on |-> 0, until |-> 0, stream |-> 0]
  BY DEF NoLoop, Spawned
<1>4. CameraTypes
  <2>1. \A i \in Start : IsInst(inst[i]) /\ inst[i].chan <= starts
    <3>1. IsInst(NewInst(1)) /\ NewInst(1).chan = 1
      BY <1>1 DEF IsInst, NewInst, NoneOr
    <3> QED
      BY <1>1, <1>2, <3>1
  <2>2. IsLoop(NoLoop) /\ IsLoop(Spawned)
    BY <1>3 DEF IsLoop, NoneOr
  <2>3. \A l \in Start : IsLoop(loop[l])
    BY <1>2, <2>2
  <2>4. \A r \in Request : IsReq(req[r])
    <3>1. IsReq(Idle)
      BY DEF Idle, IsReq, NoneOr, Kind
    <3> QED
      BY <1>2, <3>1
  <2> QED
    BY <1>1, <2>1, <2>3, <2>4 DEF CameraTypes, Init
<1>5. Numbered
  BY <1>1, <1>2, <1>3 DEF Numbered, Alive
<1>6. SharedIsCrossed
  BY <1>1, <1>2, <1>3 DEF SharedIsCrossed, WorksOn, Begun, Alive, NoneOr, Init
<1>7. AloneIsInStep
  BY <1>1, <1>2, <1>3 DEF AloneIsInStep, WorksOn, Begun, Alive, Init
<1>8. 0 \notin Stream
  BY CameraAssumption DEF Stream
<1>9. StreamsHaveMakers
  BY <1>1, <1>2, <1>3, <1>8 DEF StreamsHaveMakers, Init
<1>10. StreamsHeld
  BY <1>2 DEF StreamsHeld
<1> QED
  BY <1>4, <1>5, <1>6, <1>7, <1>9, <1>10 DEF StreamInv

\* Every step keeps it.
LEMMA StreamNext == StreamInv /\ [Next]_vars => StreamInv'
<1> SUFFICES ASSUME StreamInv, [Next]_vars PROVE StreamInv'
  OBVIOUS
<1> USE DEF StreamInv
<1>1. CASE Next
  <2>1. Moves
    BY <1>1, NextMoves
  <2> QED
    BY <2>1, TypesKept, NumberedKept, SharedKept, AloneKept, MakersKept, HeldKept
<1>2. CASE UNCHANGED vars
  <2> USE <1>2 DEF vars, objects, history
  <2>1. CameraTypes' /\ StreamsHeld'
    BY DEF CameraTypes, StreamsHeld
  <2>2. Numbered' /\ SharedIsCrossed'
    BY DEF Numbered, SharedIsCrossed, Alive, WorksOn, Begun
  <2>3. AloneIsInStep' /\ StreamsHaveMakers'
    BY DEF AloneIsInStep, StreamsHaveMakers, Alive, WorksOn, Begun
  <2> QED
    BY <2>1, <2>2, <2>3
<1> QED
  BY <1>1, <1>2

\* It starts in OrderInv as well: no request is under way.
LEMMA OrderInit == Init => OrderInv
<1> SUFFICES ASSUME Init PROVE OrderInv
  OBVIOUS
<1>1. 1 \in Start /\ starts = 1 /\ current = 1
  BY CameraAssumption DEF Init, Start
<1>2. /\ inst[1] = [chan |-> 1, running |-> FALSE, stream |-> 0, tries |-> 0]
      /\ loop[1].at = (IF row = "on" THEN "spawned" ELSE "none")
      /\ \A l \in Start : l # 1 => loop[l].at = "none"
      /\ \A r \in Request : req[r].at = "idle"
  BY <1>1 DEF Init, NewInst, Idle, NoLoop, Spawned
<1>3. OneGoroutine
  BY <1>1, <1>2 DEF OneGoroutine, Alive, Init
<1>4. OneRequest
  BY <1>2 DEF OneRequest, InProgress
<1>5. RowIsServed
  BY <1>1, <1>2 DEF RowIsServed, Alive, Over
<1> QED
  BY <1>3, <1>4, <1>5 DEF OrderInv, Init

\* Every step keeps it.
LEMMA OrderNext == StreamInv /\ OrderInv /\ [Next]_vars => OrderInv'
<1> SUFFICES ASSUME StreamInv, OrderInv, [Next]_vars PROVE OrderInv'
  OBVIOUS
<1>1. CASE Next
  <2>1. Moves /\ CameraTypes /\ Numbered
    BY <1>1, NextMoves DEF StreamInv
  <2> SUFFICES ASSUME ~hasty' PROVE (~dead /\ OneRequest /\ OneGoroutine /\ RowIsServed)'
    BY DEF OrderInv
  <2>2. ~hasty
    BY <2>1, HasteStays
  <2>3. ~dead /\ OneRequest /\ OneGoroutine /\ RowIsServed
    BY <2>2 DEF OrderInv
  <2>4. ~dead' /\ OneGoroutine'
    BY <2>1, <2>2, <2>3, AliveKept, GoroutineKept
  <2>5. OneRequest' /\ RowIsServed'
    BY <2>1, <2>2, <2>3, RequestKept, ServedKept
  <2> QED
    BY <2>4, <2>5
<1>2. CASE UNCHANGED vars
  <2> USE <1>2 DEF vars, objects, history
  <2>1. hasty' = hasty /\ dead' = dead
    OBVIOUS
  <2>2. OneRequest => OneRequest'
    BY DEF OneRequest, InProgress, Alive, Over
  <2>3. OneGoroutine => OneGoroutine'
    BY DEF OneGoroutine, Alive
  <2>4. RowIsServed => RowIsServed'
    BY DEF RowIsServed, InProgress, Alive, Over
  <2> QED
    BY <2>1, <2>2, <2>3, <2>4 DEF OrderInv
<1> QED
  BY <1>1, <1>2

\* Both hold throughout.
LEMMA CameraInvariant == Spec => [](StreamInv /\ OrderInv)
<1>1. Init => StreamInv /\ OrderInv
  BY StreamInit, OrderInit
<1>2. (StreamInv /\ OrderInv) /\ [Next]_vars => (StreamInv /\ OrderInv)'
  BY StreamNext, OrderNext
<1> QED
  BY <1>1, <1>2, PTL DEF Spec

\* No ffmpeg is left behind, whatever the requests and whenever they come: a stream
\* that runs is in the hands of the instance, of a request, or was torn by a stop or
\* a second start that met its goroutine while it connected.
THEOREM NoStreamIsLost == Spec => []StreamsHeld
<1>1. StreamInv /\ OrderInv => StreamsHeld
  BY DEF StreamInv
<1> QED
  BY <1>1, CameraInvariant, PTL

\* The process survives every sequence of requests in which none meets another one
\* or a goroutine between two lives.
THEOREM SurvivesOrderlyRequests == Spec => []DiesOnlyInHaste
<1>1. StreamInv /\ OrderInv => DiesOnlyInHaste
  BY DEF OrderInv, DiesOnlyInHaste
<1> QED
  BY <1>1, CameraInvariant, PTL

\* After every such sequence a camera whose row says "record" has a goroutine that
\* has not been told to stop, unless one gave up.
THEOREM OrderlyRequestsAreServed == Spec => []EnabledRuns
<1>1. StreamInv /\ OrderInv => EnabledRuns
  <2> SUFFICES ASSUME StreamInv, OrderInv, ~dead, ~hasty, ~gaveUp, row = "on",
                      \A r \in Request : ~InProgress(r)
               PROVE  current # 0 /\ \E l \in Alive : ~Told(l)
    BY DEF EnabledRuns
  <2>1. OneGoroutine /\ RowIsServed /\ CameraTypes
    BY DEF OrderInv, StreamInv
  <2>2. current # 0
    BY <2>1 DEF RowIsServed, InProgress
  <2>3. \E l \in Alive : ~Over(l)
    BY <2>1 DEF RowIsServed
  <2> QED
    BY <2>1, <2>2, <2>3, ToldIsOver
<1> QED
  BY <1>1, CameraInvariant, PTL
=============================================================================
