------------------------------ MODULE OAuthLogin ------------------------------
(***************************************************************************)
(* svc-oauth: a browser is sent to a provider with a state, comes back     *)
(* with it, and gets a code to exchange for tokens; any replica may serve  *)
(* any of the three requests.  A replica that cannot reach Redis when it   *)
(* starts keeps states and codes in its own memory, until it stops.        *)
(***************************************************************************)
EXTENDS Naturals, FiniteSets

CONSTANTS
    Flow,             \* logins
    OauthReplica,
    StateTTL, OauthCodeTTL,
    OauthMaxNow,      \* bound: time
    MaxOauthFaults,   \* bound: Redis or provider calls that fail
    MaxStarts         \* bound: starts of replicas

ASSUME OauthAssumption == StateTTL \in Nat /\ OauthCodeTTL \in Nat

VARIABLES
    mode,      \* mode[r]: "redis", "memory" or "down"
    shared,    \* Redis: <<kind, flow, expires>>
    memory,    \* memory[r]: the same, of a replica
    loginAt,   \* loginAt[f]: "new", "away", "coding", "coded" or "lost"
    oauthNow, oauthFaults, starts,
    accepted,  \* kept for the properties: how often a state or code was taken,
    until,     \* when it expires,
    marred     \* and which ones a failed call, a replica without Redis or a
               \* restart may have put out of reach

oauthVars == <<mode, shared, memory, loginAt, oauthNow, oauthFaults, starts, accepted, until, marred>>
stores    == <<shared, memory>>

Kind == {"state", "code"}
OauthInit ==
    /\ mode = [r \in OauthReplica |-> "down"]
    /\ shared = {} /\ memory = [r \in OauthReplica |-> {}]
    /\ loginAt = [f \in Flow |-> "new"]
    /\ oauthNow = 0 /\ oauthFaults = 0 /\ starts = 0
    /\ accepted = [t \in Kind \X Flow |-> 0] /\ until = [t \in Kind \X Flow |-> 0] /\ marred = {}

OauthFault == oauthFaults < MaxOauthFaults /\ oauthFaults' = oauthFaults + 1
TTL(kind)  == IF kind = "state" THEN StateTTL ELSE OauthCodeTTL

\* newStore: Redis if it answers a ping.  A replica without it neither sees what
\* the others stored nor shows them what it stores.
StartReplica(r) ==
    /\ mode[r] = "down" /\ starts < MaxStarts /\ starts' = starts + 1
    /\ \/ mode' = [mode EXCEPT ![r] = "redis"] /\ UNCHANGED <<marred, oauthFaults>>
       \/ OauthFault /\ mode' = [mode EXCEPT ![r] = "memory"] /\ marred' = Kind \X Flow
    /\ UNCHANGED <<stores, loginAt, oauthNow, accepted, until>>

StopReplica(r) ==
    /\ mode[r] # "down"
    /\ mode' = [mode EXCEPT ![r] = "down"] /\ memory' = [memory EXCEPT ![r] = {}]
    /\ UNCHANGED <<shared, loginAt, oauthNow, oauthFaults, starts, accepted, until, marred>>

\* putState and putCode, whose errors are ignored.
PutEntry(r, kind, f) ==
    LET entry == <<kind, f, oauthNow + TTL(kind)>>
    IN  /\ until' = [until EXCEPT ![<<kind, f>>] = entry[3]]
        /\ \/ /\ mode[r] = "memory" /\ memory' = [memory EXCEPT ![r] = @ \cup {entry}]
              /\ UNCHANGED <<shared, oauthFaults, marred>>
           \/ /\ mode[r] = "redis" /\ shared' = shared \cup {entry}
              /\ UNCHANGED <<memory, oauthFaults, marred>>
           \/ /\ mode[r] = "redis" /\ OauthFault /\ marred' = marred \cup {<<kind, f>>}
              /\ UNCHANGED stores

EntryOf(S, kind, f) == { e \in S : e[1] = kind /\ e[2] = f }

\* Mutant: the entry is read and stays.
Rest_Kept(S, kind, f) == S
Rest(S, kind, f) == S \ EntryOf(S, kind, f)

Fresh(r, e) == IF mode[r] = "redis" THEN oauthNow < e[3] ELSE oauthNow <= e[3]
Holds(r)    == IF mode[r] = "redis" THEN shared ELSE memory[r]

\* takeState and takeCode: DEL and GETDEL, or the map under the mutex.
TakeEntry(r, kind, f, found) ==
    /\ found = \E e \in EntryOf(Holds(r), kind, f) : Fresh(r, e)
    /\ \/ mode[r] = "redis" /\ shared' = Rest(shared, kind, f) /\ UNCHANGED memory
       \/ mode[r] = "memory" /\ memory' = [memory EXCEPT ![r] = Rest(@, kind, f)] /\ UNCHANGED shared
    /\ accepted' = IF found THEN [accepted EXCEPT ![<<kind, f>>] = @ + 1] ELSE accepted

\* The call fails, before or after Redis has deleted the entry.
TakeFails(r, kind, f) ==
    /\ mode[r] = "redis" /\ OauthFault
    /\ shared' \in {shared, Rest(shared, kind, f)}
    /\ marred' = marred \cup {<<kind, f>>}
    /\ UNCHANGED <<mode, memory, loginAt, oauthNow, starts, accepted, until>>

\* handleAuthorize; a provider that is not configured answers 501 afterwards.
Authorize(r, f) ==
    /\ loginAt[f] = "new"
    /\ PutEntry(r, "state", f)
    /\ loginAt' = [loginAt EXCEPT ![f] = "away"]
    /\ UNCHANGED <<mode, oauthNow, starts, accepted>>

\* handleCallback: the state; a browser may come back again, and late..
Callback(r, f, found) ==
    /\ loginAt[f] # "new"
    /\ TakeEntry(r, "state", f, found)
    /\ loginAt' = IF found THEN [loginAt EXCEPT ![f] = "coding"] ELSE loginAt
    /\ UNCHANGED <<mode, oauthNow, oauthFaults, starts, until, marred>>

\* ..the profile from the provider, the tokens from auth, and the code..
ProviderCode(r, f) ==
    /\ loginAt[f] = "coding"
    /\ PutEntry(r, "code", f)
    /\ loginAt' = [loginAt EXCEPT ![f] = "coded"]
    /\ UNCHANGED <<mode, oauthNow, starts, accepted>>

\* ..or one of those calls fails, and the login starts anew with another state.
CodeFails(f) ==
    /\ loginAt[f] = "coding" /\ OauthFault
    /\ loginAt' = [loginAt EXCEPT ![f] = "lost"]
    /\ UNCHANGED <<mode, stores, oauthNow, starts, accepted, until, marred>>

\* handleExchange.
Exchange(r, f, found) ==
    /\ loginAt[f] = "coded"
    /\ TakeEntry(r, "code", f, found)
    /\ UNCHANGED <<mode, loginAt, oauthNow, oauthFaults, starts, until, marred>>

\* Redis drops what has expired; the memory keeps it until it is asked for.
OauthTick ==
    /\ oauthNow < OauthMaxNow /\ oauthNow' = oauthNow + 1
    /\ shared' = { e \in shared : e[3] > oauthNow' }
    /\ UNCHANGED <<mode, memory, loginAt, oauthFaults, starts, accepted, until, marred>>

OauthNext ==
    \/ \E r \in OauthReplica :
        \/ StartReplica(r) \/ StopReplica(r)
        \/ \E f \in Flow :
            \/ Authorize(r, f) \/ ProviderCode(r, f)
            \/ \E found \in BOOLEAN : Callback(r, f, found) \/ Exchange(r, f, found)
            \/ \E kind \in Kind : loginAt[f] # "new" /\ TakeFails(r, kind, f)
    \/ \E f \in Flow : CodeFails(f)
    \/ OauthTick

-----------------------------------------------------------------------------
\* Left and not come back to.
Waiting(kind, f) ==
    IF kind = "state" THEN loginAt[f] = "away" ELSE loginAt[f] = "coded" /\ accepted[<<kind, f>>] = 0

\* A state lets one callback through and a code gives tokens once, on all
\* replicas together; and until it is used or expires every running replica has
\* it, unless a call failed or a replica started while Redis did not answer
\* (store.go:46).
LoginsHold ==
    /\ \A t \in DOMAIN accepted : accepted[t] <= 1
    /\ \A kind \in Kind, f \in Flow :
         Waiting(kind, f) /\ oauthNow < until[<<kind, f>>] /\ <<kind, f>> \notin marred =>
             \A r \in OauthReplica : mode[r] # "down" => EntryOf(Holds(r), kind, f) # {}
=============================================================================
