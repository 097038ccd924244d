------------------------------- MODULE AppsQuota -------------------------------
(***************************************************************************)
(* platform/auth and svc-openapi: one app of a partner.  The daily quota is *)
(* enforced when a token is issued, by what the metering log of the gateway *)
(* shows; tokens live on until they expire.  The console administers apps   *)
(* with a service token it caches.                                          *)
(***************************************************************************)
EXTENDS Naturals, FiniteSets
LOCAL INSTANCE Functions

CONSTANTS
    AppTokenTTL, Day,         \* 1 hour and 24 hours
    AskTime,                  \* a request for a token: bcrypt, and the log's 3 seconds
    Asker,                    \* requests for tokens served at a time
    ServiceTTL, CacheFor,     \* a service token lives 5 minutes, is cached for 4
    Quota,                    \* quotas an admin may set; 0: none
    AppsMaxNow,               \* bound: time
    MaxAppRequests,           \* bound: requests of the app
    MaxLokiFaults,            \* bound: tokens issued while the log cannot be read
    MaxAppEdits               \* bound: changes by an admin

\* The console counts the lifetime from the answer, at most one later.
ASSUME AppsAssumption ==
    /\ AppTokenTTL \in Nat \ {0} /\ AskTime \in Nat /\ AppsMaxNow \in Nat /\ ServiceTTL \in Nat /\ CacheFor \in Nat
    /\ CacheFor + 1 <= ServiceTTL

VARIABLES
    app,         \* [status, quota, secret], or Unregistered
    asking,      \* asking[a]: a request for a token: since when, the quota it read
    appTokens,   \* [at, free]: live tokens; free: issued without a check
    requests,    \* requests[t]: requests served at t
    logged,      \* logged[t]: those the log shows
    console,     \* the service token of the console: [got, until]
    appsNow, lokiFaults, appEdits,
    fullSince,   \* kept for the properties: since when the log shows the quota in
    overrun      \* force used up, and whether requests went on too long after it

appsVars == <<app, asking, appTokens, requests, logged, console, appsNow, lokiFaults, appEdits, fullSince, overrun>>

Unregistered == [status |-> 0, quota |-> 0, secret |-> 0]
NotAsking == [at |-> "none"]
NotFull == AppsMaxNow + 1
Times == 0..AppsMaxNow
AppsInit ==
    /\ app = Unregistered /\ asking = [a \in Asker |-> NotAsking] /\ appTokens = {}
    /\ requests = [t \in Times |-> 0] /\ logged = [t \in Times |-> 0]
    /\ console = [got |-> 0, until |-> 0]
    /\ appsNow = 0 /\ lokiFaults = 0 /\ appEdits = 0 /\ fullSince = NotFull /\ overrun = FALSE

\* lokiAppUsage: count_over_time[24h].
Usage(log, now) == SumFunctionOnSet(log, { t \in Times : t <= now /\ t + Day > now })
StillFull(a, log, now) ==
    IF a.quota = 0 \/ Usage(log, now) < a.quota THEN NotFull
    ELSE IF fullSince = NotFull \/ a.quota # app.quota THEN now ELSE fullSince

\* svc-openapi, serviceToken: the cached one, or a new one under the mutex.
ConsoleReady == appsNow < console.until
FetchToken(late) ==
    /\ ~ConsoleReady /\ appsNow + late <= AppsMaxNow
    /\ console' = [got |-> appsNow, until |-> appsNow + late + CacheFor]
    /\ UNCHANGED <<app, asking, appTokens, requests, logged, appsNow, lokiFaults, appEdits, fullSince, overrun>>

AppEdit == ConsoleReady /\ appEdits < MaxAppEdits /\ appEdits' = appEdits + 1

\* handleAppsCreate, and registerAppCLI, which also replaces.
CreateApp(q) ==
    /\ AppEdit /\ app = Unregistered
    /\ app' = [status |-> 1, quota |-> q, secret |-> 1]
    /\ UNCHANGED <<asking, appTokens, requests, logged, console, appsNow, lokiFaults, fullSince, overrun>>

\* handleAppsUpdate.
UpdateApp(q, status) ==
    /\ AppEdit /\ app # Unregistered
    /\ app' = [app EXCEPT !.quota = q, !.status = status]
    /\ fullSince' = StillFull(app', logged, appsNow)
    /\ UNCHANGED <<asking, appTokens, requests, logged, console, appsNow, lokiFaults, overrun>>

\* handleAppsRotate.
Rotate ==
    /\ AppEdit /\ app # Unregistered
    /\ app' = [app EXCEPT !.secret = @ + 1]
    /\ UNCHANGED <<asking, appTokens, requests, logged, console, appsNow, lokiFaults, fullSince, overrun>>

\* handleOAuthToken: one SELECT, and bcrypt against the hash it read;
AskToken(a, secret) ==
    /\ asking[a] = NotAsking /\ app.status = 1 /\ secret = app.secret
    /\ asking' = [asking EXCEPT ![a] = [at |-> IF app.quota = 0 THEN "sign" ELSE "log",
                                        since |-> appsNow, quota |-> app.quota, free |-> FALSE]]
    /\ UNCHANGED <<app, appTokens, requests, logged, console, appsNow, lokiFaults, appEdits, fullSince, overrun>>

\* Mutant: the last token is given at the quota.
WithinQuota_Last(used, quota) == used <= quota
WithinQuota(used, quota) == used < quota

\* the metering log is asked when there is a quota: 429 when it is used up; on
\* an error the request goes on;
AskLog(a) ==
    /\ asking[a].at = "log"
    /\ \/ /\ WithinQuota(Usage(logged, appsNow), asking[a].quota)
          /\ asking' = [asking EXCEPT ![a].at = "sign"] /\ UNCHANGED lokiFaults
       \/ /\ ~WithinQuota(Usage(logged, appsNow), asking[a].quota)
          /\ asking' = [asking EXCEPT ![a] = NotAsking] /\ UNCHANGED lokiFaults
       \/ /\ lokiFaults < MaxLokiFaults /\ lokiFaults' = lokiFaults + 1
          /\ asking' = [asking EXCEPT ![a].at = "sign", ![a].free = TRUE]
    /\ UNCHANGED <<app, appTokens, requests, logged, console, appsNow, appEdits, fullSince, overrun>>

\* and the token is signed, whatever has become of the app.
SignToken(a) ==
    /\ asking[a].at = "sign"
    /\ asking' = [asking EXCEPT ![a] = NotAsking]
    /\ appTokens' = appTokens \cup {[at |-> appsNow, free |-> asking[a].free]}
    /\ UNCHANGED <<app, requests, logged, console, appsNow, lokiFaults, appEdits, fullSince, overrun>>

\* The gateway serves a request with a token that has not expired.
Serve(tok) ==
    /\ tok \in appTokens /\ SumFunctionOnSet(requests, Times) < MaxAppRequests
    /\ requests' = [requests EXCEPT ![appsNow] = @ + 1]
    /\ overrun' = (overrun \/ (~tok.free /\ fullSince # NotFull /\ appsNow >= fullSince + AskTime + AppTokenTTL))
    /\ UNCHANGED <<app, asking, appTokens, logged, console, appsNow, lokiFaults, appEdits, fullSince>>

\* The log shows a request, sooner or later.
Ship(t) ==
    /\ logged[t] < requests[t]
    /\ logged' = [logged EXCEPT ![t] = @ + 1]
    /\ fullSince' = StillFull(app, logged', appsNow)
    /\ UNCHANGED <<app, asking, appTokens, requests, console, appsNow, lokiFaults, appEdits, overrun>>

AppsTick ==
    /\ appsNow < AppsMaxNow /\ appsNow' = appsNow + 1
    /\ \A a \in Asker : asking[a] # NotAsking => appsNow < asking[a].since + AskTime
    /\ appTokens' = { tok \in appTokens : tok.at + AppTokenTTL > appsNow' }
    /\ fullSince' = StillFull(app, logged, appsNow')
    /\ UNCHANGED <<app, asking, requests, logged, console, lokiFaults, appEdits, overrun>>

AppsNext ==
    \/ \E late \in {0, 1} : FetchToken(late)
    \/ \E q \in Quota : CreateApp(q) \/ \E status \in {0, 1} : UpdateApp(q, status)
    \/ Rotate \/ AppsTick
    \/ \E a \in Asker : AskLog(a) \/ SignToken(a) \/ \E secret \in 1..(MaxAppEdits + 1) : AskToken(a, secret)
    \/ \E tok \in appTokens : Serve(tok)
    \/ \E t \in Times : Ship(t)

-----------------------------------------------------------------------------
\* Past the quota an app goes on for one token lifetime at most (apps.go:58-59,
\* quota.go:2), and for the time a request for a token takes, which reads the
\* quota, asks the log and signs one after the other (apps.go:51, 61, 77):
\* whatever tokens it holds, however late the log is and whenever the quota is
\* changed under such a request, except with tokens issued while the log could
\* not be read.
OverrunBounded == ~overrun

\* A token the console would still use has not expired at auth, though it counts
\* from the answer and auth from the request (client.go:58-59).
ConsoleTokenLives == ConsoleReady => appsNow < console.got + ServiceTTL

AppsHold == OverrunBounded /\ ConsoleTokenLives
=============================================================================
