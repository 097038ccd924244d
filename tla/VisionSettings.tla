---------------------------- MODULE VisionSettings ----------------------------
(***************************************************************************)
(* The settings of svc-vision that the console edits: in memory (s.cfg,    *)
(* RuntimeStorage, the camera manager), in rows of system_configs, and read *)
(* over the deployment's when the process starts.  No lock spans a request. *)
(* A field's value is 0 when it is empty, 1 as the deployment gives it, or *)
(* the number of the request that gave it.                                 *)
(***************************************************************************)
EXTENDS Naturals, FiniteSets

CONSTANTS
    Put,                \* PUT requests under way at a time
    Handler,            \* of the handlers below, those that are called
    MaxPuts,            \* bound: requests
    MaxSettingFaults    \* bound: rows that cannot be saved, restarts

\* What each handler lets one edit separately.
Fields == [storage  |-> {"local", "webdav", "minio"},
           snapshot |-> {"enabled", "interval"},
           defaults |-> {"recording", "picture"},
           alert    |-> {"push", "channels"},
           server   |-> {"name", "level", "port", "mode"}]

ASSUME HandlerAssumption == Handler \subseteq DOMAIN Fields

VARIABLES
    cfg,           \* cfg[f]: the value in memory
    system_configs,\* system_configs[f]: the value in f's row, empty if there is none
    put,           \* put[p]: a request
    puts, settingFaults,
    \* Kept for the properties:
    latest,        \* latest[f]: what the last request to reach the memory says of f
    contested,     \* fields that one request wrote while another was to write them
    unsaved        \* fields whose row may differ from the memory

settingVars == <<cfg, system_configs, put, puts, settingFaults, latest, contested, unsaved>>

Field    == UNION { Fields[h] : h \in Handler }
NoPut    == [at |-> "none", handler |-> "none", edits |-> {}, value |-> 0, seen |-> <<>>,
             left |-> {}]
Empty    == 0
Deployed == 1
Default  == [f \in Field |-> Deployed]

\* The storage groups have a row each, the other handlers one; the ports and the
\* mode have none.
NoRow   == {"port", "mode"}
Rows(h) == IF h = "storage" THEN { {f} : f \in Fields[h] } ELSE { Fields[h] \ NoRow }

\* These two copy the settings, edit the copy and write all of it back.  The
\* server's fields are not optional: what the request leaves out is emptied.
\* The others write into s.cfg what the request holds.
WritesBack(h) == h \in {"storage", "snapshot"}
Named(h, E)   == IF h = "server" THEN Fields[h] ELSE E

SettingsInit ==
    /\ cfg = Default /\ system_configs = [f \in Field |-> Empty]
    /\ put = [p \in Put |-> NoPut] /\ puts = 0 /\ settingFaults = 0
    /\ latest = Default /\ contested = {} /\ unsaved = {}

SettingFault == settingFaults < MaxSettingFaults /\ settingFaults' = settingFaults + 1
Others(p, h) == { q \in Put \ {p} : put[q].handler = h }

-----------------------------------------------------------------------------
\* A request that is valid, as far as it is checked first, and the copy it makes.
ReadSettings(p, h, E) ==
    /\ put[p] = NoPut /\ h \in Handler /\ E # {} /\ E \subseteq Fields[h]
    /\ puts < MaxPuts /\ puts' = puts + 1
    /\ put' = [put EXCEPT ![p] = [at |-> "read", handler |-> h, edits |-> E, value |-> puts + 2,
                                  seen |-> [f \in Fields[h] |-> cfg[f]], left |-> {}]]
    /\ contested' = contested \cup
          IF WritesBack(h) /\ Others(p, h) # {} THEN Fields[h]
          ELSE UNION { Named(h, E) \cap Named(h, put[q].edits) : q \in Others(p, h) }
    /\ unsaved' = IF Others(p, h) # {} THEN unsaved \cup Fields[h] ELSE unsaved
    /\ UNCHANGED <<cfg, system_configs, settingFaults, latest>>

PutStorage(p)  == \E E \in SUBSET Fields.storage  : ReadSettings(p, "storage", E)
PutSnapshot(p) == \E E \in SUBSET Fields.snapshot : ReadSettings(p, "snapshot", E)
PutDefaults(p) == \E E \in SUBSET Fields.defaults : ReadSettings(p, "defaults", E)
PutAlert(p)    == \E E \in SUBSET Fields.alert    : ReadSettings(p, "alert", E)
PutServer(p)   ==       \* a port that is left out is 0, which is refused
    \E E \in SUBSET Fields.server   : "port" \in E /\ ReadSettings(p, "server", E)

\* What a request says of the fields it names.
Said(p) == [f \in Named(put[p].handler, put[p].edits) |->
                IF f \in put[p].edits THEN put[p].value ELSE Empty]

\* Mutant: no handler's fields are optional.
Written_Whole(p) ==
    [f \in Fields[put[p].handler] |-> IF f \in put[p].edits THEN put[p].value ELSE Empty]
Written(p) ==
    IF WritesBack(put[p].handler)
    THEN [f \in Fields[put[p].handler] |-> IF f \in put[p].edits THEN put[p].value
                                           ELSE put[p].seen[f]]
    ELSE Said(p)

\* The memory; what is to be saved is taken from it.
Set(p) ==
    LET new == [f \in Field |-> IF f \in DOMAIN Written(p) THEN Written(p)[f] ELSE cfg[f]]
    IN  /\ put[p].at = "read" /\ cfg' = new
        /\ latest' = [f \in Field |-> IF f \in DOMAIN Said(p) THEN Said(p)[f] ELSE latest[f]]
        /\ put' = [put EXCEPT ![p] = [put[p] EXCEPT !.at = "save", !.left = Rows(put[p].handler),
                                     !.seen = [f \in Fields[put[p].handler] |-> new[f]]]]
        /\ UNCHANGED <<system_configs, puts, settingFaults, contested, unsaved>>

\* updateCameraDefaults sets record_enabled before it finds record_type invalid.
RefuseDefaults(p) ==
    /\ put[p].at = "read" /\ put[p].handler = "defaults" /\ "recording" \in put[p].edits
    /\ cfg' = [cfg EXCEPT !["recording"] = put[p].value]
    /\ latest' = [latest EXCEPT !["recording"] = put[p].value]
    /\ unsaved' = unsaved \cup {"recording"}
    /\ put' = [put EXCEPT ![p] = NoPut]
    /\ UNCHANGED <<system_configs, puts, settingFaults, contested>>

\* SaveSetting, row by row in any order.  An error is logged, and the request
\* goes on; that of the camera defaults says so.
SaveSetting(p) ==
    \E row \in put[p].left :
        /\ \/ /\ system_configs' = [f \in Field |-> IF f \in row THEN put[p].seen[f]
                                                    ELSE system_configs[f]]
              /\ UNCHANGED <<settingFaults, unsaved>>
           \/ SettingFault /\ unsaved' = unsaved \cup row /\ UNCHANGED system_configs
        /\ put' = [put EXCEPT ![p] = IF put[p].left = {row} THEN NoPut
                                     ELSE [put[p] EXCEPT !.left = put[p].left \ {row}]]
        /\ UNCHANGED <<cfg, puts, latest, contested>>

\* A restart: OverlaySettings over config.yaml, which is the deployment's if the
\* container is new.  What has no row and what is empty in one is the file's.  The
\* requests under way are lost, a part of what they did is saved.
Overlay(file) ==
    [f \in Field |-> IF system_configs[f] # Empty THEN system_configs[f] ELSE file[f]]
RestartVision ==
    /\ SettingFault
    /\ \E file \in {Default, cfg} : cfg' = Overlay(file)
    /\ unsaved' = unsaved \cup { f \in Field : f \in NoRow \/ latest[f] = Empty }
                  \cup UNION { Fields[put[p].handler] : p \in { q \in Put : put[q] # NoPut } }
    /\ put' = [p \in Put |-> NoPut]
    /\ UNCHANGED <<system_configs, puts, latest, contested>>

SettingsNext ==
    \/ \E p \in Put : PutStorage(p) \/ PutSnapshot(p) \/ PutDefaults(p) \/ PutAlert(p) \/ PutServer(p)
    \/ \E p \in Put : Set(p) \/ RefuseDefaults(p) \/ SaveSetting(p)
    \/ RestartVision

-----------------------------------------------------------------------------
\* Once no request is under way, the memory holds what the last request said of
\* every field, and so does its row, or it has none because nothing was said.
\* Not so where requests overlapped: two of storage or snapshots lose each other's
\* edits of other fields (server.go:1050), any two may save in the other order than
\* they wrote; where a row was not saved or a request was refused half way; and,
\* after a restart, the ports, the mode and what was emptied (server.go:2172-2201).
Kept(f) ==
    \/ f \in NoRow \/ system_configs[f] = latest[f]
    \/ latest[f] = Deployed /\ system_configs[f] = Empty
SettingsHold ==
    (\A p \in Put : put[p] = NoPut) =>
        \A f \in Field \ contested :
            /\ f \notin unsaved => cfg[f] = latest[f] /\ Kept(f)
            /\ settingFaults = 0 => cfg[f] = latest[f]
=============================================================================
