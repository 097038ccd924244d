----------------------------- MODULE TokenStore -----------------------------
(***************************************************************************)
(* What becomes of the tokens of one user once they are signed: the clock, *)
(* expiry, revocation of one token (revoke) and of all of them             *)
(* (revokeUserTokens), in the two stores of platform/auth/redisstore.go,   *)
(* and the two places that judge a token: auth's parse and the gateway.    *)
(*                                                                         *)
(* Times are ticks; a token carries whole seconds only, so its iat and exp *)
(* are the ticks at which a second began.  The memory store keeps exact    *)
(* times, Redis keeps the second of a cutoff and drops keys that expire.   *)
(***************************************************************************)
EXTENDS Integers

CONSTANTS
    Token,                  \* names of tokens (tokenId)
    TicksPerSecond,
    AccessTTL, RefreshTTL,  \* ticks, whole seconds
    MaxNow,                 \* bound: ticks the clock runs
    MaxFaults               \* bound: restarts of auth and outages of Redis

ASSUME StoreAssumption ==
    /\ TicksPerSecond \in Nat \ {0}
    /\ AccessTTL \in Nat \ {0} /\ RefreshTTL \in Nat
    /\ AccessTTL <= RefreshTTL
    /\ MaxNow \in Nat /\ MaxFaults \in Nat

VARIABLES
    backend,      \* "redis" with REDIS_URL set, else "memory": never changes
    now, second,  \* the clock and the tick its current second began
    token,        \* token[t]: signed claims, or Unsigned
    revoked,      \* revoked[t]: the time stored for pf:revoke, 0 if none
    cutoff,       \* value of pf:userkill, 0 if none
    cutoffUntil,  \* when Redis drops pf:userkill
    reachable,    \* who reaches Redis: auth, the gateway
    gate,         \* the request that is passing the gateway
    faults,       \* bound
    spent,        \* kept for the properties: tokens whose revocation was stored,
    killedAt      \* and the time of the last user revocation stored, 0 if none

clockVars == <<now, second>>
killVars  == <<cutoff, cutoffUntil, killedAt>>
vars == <<backend, clockVars, token, revoked, killVars, reachable, gate, faults, spent>>

Kinds    == {"access", "refresh"}
Readers  == {"auth", "gateway"}
Unsigned == [signed |-> FALSE]
Signed   == { t \in Token : token[t].signed }
NoRequest == [at |-> "idle"]

TTL(kind) == IF kind = "access" THEN AccessTTL ELSE RefreshTTL

-----------------------------------------------------------------------------
(* Who accepts a token.                                                    *)

Unexpired(t) == t \in Signed /\ now < token[t].exp

\* Redis drops the key by itself, the memory map waits for the janitor.
Listed(t) == IF backend = "redis" THEN revoked[t] > now ELSE revoked[t] > 0

\* userKilledBefore, zero for none.
Cutoff == IF backend = "redis" /\ cutoffUntil <= now THEN 0 ELSE cutoff

\* Mutant: a token signed in the second of the cutoff is refused too.
Killed_Inclusive(t) == Cutoff # 0 /\ token[t].iat <= Cutoff

Killed(t) == Cutoff # 0 /\ token[t].iat < Cutoff

\* An error of Redis counts as "not revoked".
Answers == backend = "memory" \/ "auth" \in reachable

\* parse
AuthAccepts(t) == Unexpired(t) /\ ~(Answers /\ (Listed(t) \/ Killed(t)))

-----------------------------------------------------------------------------
Init ==
    /\ backend \in {"redis", "memory"}
    /\ now = TicksPerSecond /\ second = TicksPerSecond
    /\ token = [t \in Token |-> Unsigned]
    /\ revoked = [t \in Token |-> 0]
    /\ cutoff = 0 /\ cutoffUntil = 0 /\ killedAt = 0
    /\ reachable = Readers /\ faults = 0
    /\ gate = NoRequest
    /\ spent = {}

\* signUser: NewNumericDate cuts both times to the second.
Sign(t, kind) ==
    /\ t \notin Signed
    /\ token' = [token EXCEPT ![t] =
          [signed |-> TRUE, kind |-> kind, at |-> now,
           iat |-> second, exp |-> second + TTL(kind)]]
    /\ UNCHANGED <<backend, clockVars, revoked, killVars, reachable, faults, spent, gate>>

\* Mutant: every revocation is kept as long as an access token.
RevokedUntil_Access(t) == now + AccessTTL

\* revoke keeps the entry until the token expires: in Redis as a TTL.
RevokedUntil(t) == token[t].exp

\* revoke: nothing to store once the token has expired; an error is dropped.
Revoke(t) ==
    /\ Unexpired(t)
    /\ IF Answers
       THEN /\ revoked' = [revoked EXCEPT ![t] = RevokedUntil(t)]
            /\ spent' = spent \cup {t}
       ELSE UNCHANGED <<revoked, spent>>
    /\ UNCHANGED <<backend, clockVars, token, killVars, reachable, faults, gate>>

\* Mutant: the memory store cuts the cutoff to the second as Redis does.
CutoffNow_Second == second

\* Mutant: the oldest sign time a live token can have.
CutoffNow_Oldest == second - RefreshTTL

\* The cutoff as it is stored: Unix seconds in Redis.
CutoffNow == IF backend = "redis" THEN second ELSE now

\* Mutant: the cutoff is kept as long as an access token lives.
CutoffTTL_Access == AccessTTL

\* The cutoff outlives every token it is meant for.
CutoffTTL == RefreshTTL

RevokeUserTokens ==
    /\ IF Answers
       THEN /\ cutoff' = CutoffNow
            /\ cutoffUntil' = now + CutoffTTL
            /\ killedAt' = now
       ELSE UNCHANGED killVars
    /\ UNCHANGED <<backend, clockVars, token, revoked, reachable, faults, spent, gate>>

\* Entries the janitor deletes: their token has expired.
Stale(t) == revoked[t] < now

\* janitor, memory store only; it never deletes a cutoff.
Janitor ==
    /\ backend = "memory"
    /\ revoked' = [t \in Token |-> IF t \in Signed /\ Stale(t) THEN 0 ELSE revoked[t]]
    /\ UNCHANGED <<backend, clockVars, token, killVars, reachable, faults, spent, gate>>

\* auth restarts and the maps of the memory store are gone.
Restart ==
    /\ faults < MaxFaults /\ faults' = faults + 1
    /\ IF backend = "memory"
       THEN /\ revoked' = [t \in Token |-> 0]
            /\ cutoff' = 0 /\ cutoffUntil' = 0 /\ killedAt' = 0
            /\ spent' = {}
       ELSE UNCHANGED <<revoked, killVars, spent>>
    /\ UNCHANGED <<backend, clockVars, token, reachable, gate>>

\* Redis is out of reach for one of its readers, and back with its keys.
Outage(r) ==
    /\ backend = "redis" /\ r \in reachable
    /\ faults < MaxFaults /\ faults' = faults + 1
    /\ reachable' = reachable \ {r}
    /\ UNCHANGED <<backend, clockVars, token, revoked, killVars, spent, gate>>

Recover(r) ==
    /\ r \in Readers \ reachable
    /\ reachable' = reachable \cup {r}
    /\ UNCHANGED <<backend, clockVars, token, revoked, killVars, faults, spent, gate>>

\* A request with token t: the jwt plugin checks its expiry, the pre-function
\* connects to Redis for an access token and lets it pass when it cannot.  Kept
\* for the properties: the token had been ended by then, and a read failed.
GatewayReceive(t) ==
    /\ backend = "redis" /\ gate.at \in {"idle", "passed"}
    /\ Unexpired(t)
    /\ LET heard == "gateway" \in reachable IN
        gate' = [at |-> IF token[t].kind = "access" /\ heard THEN "token" ELSE "passed",
                 token |-> t, ended |-> Listed(t) \/ Killed(t), deaf |-> ~heard]
    /\ UNCHANGED <<backend, clockVars, token, revoked, killVars, reachable, faults, spent>>

\* One answer of Redis: found turns the request away, an error counts as not found.
GatewayLookup(phase, found, next) ==
    /\ gate.at = phase
    /\ LET heard == "gateway" \in reachable IN
        gate' = IF heard /\ found THEN NoRequest
                ELSE [gate EXCEPT !.at = next, !.deaf = @ \/ ~heard]
    /\ UNCHANGED <<backend, clockVars, token, revoked, killVars, reachable, faults, spent>>

\* red:exists of pf:revoke, then red:get of pf:userkill.
GatewayToken == GatewayLookup("token", Listed(gate.token), "user")

\* Mutant: the cutoff is compared with the expiry.
GatewayUser_Expiry == GatewayLookup("user", Cutoff # 0 /\ token[gate.token].exp < Cutoff, "passed")

GatewayUser == GatewayLookup("user", Killed(gate.token), "passed")

ClockTick ==
    /\ now < MaxNow
    /\ now' = now + 1
    /\ second' = IF now' = second + TicksPerSecond THEN now' ELSE second
    /\ UNCHANGED <<backend, token, revoked, killVars, reachable, faults, spent, gate>>

Next ==
    \/ \E t \in Token, kind \in Kinds : Sign(t, kind)
    \/ \E t \in Token : Revoke(t)
    \/ RevokeUserTokens
    \/ Janitor \/ Restart
    \/ \E r \in Readers : Outage(r) \/ Recover(r)
    \/ \E t \in Token : GatewayReceive(t)
    \/ GatewayToken \/ GatewayUser
    \/ ClockTick

Spec == Init /\ [][Next]_vars

-----------------------------------------------------------------------------
Claims == [signed: {TRUE}, kind: Kinds, at: Nat, iat: Nat, exp: Nat]
Requests == [at: {"token", "user", "passed"}, token: Signed, ended: BOOLEAN, deaf: BOOLEAN]

\* Every variable keeps its type, and the clock is in its current second.
TypeOK ==
    /\ backend \in {"redis", "memory"}
    /\ now \in Nat /\ second \in Nat
    /\ 0 < second /\ second <= now /\ now < second + TicksPerSecond
    /\ token \in [Token -> {Unsigned} \cup Claims]
    /\ revoked \in [Token -> Nat]
    /\ cutoff \in Nat /\ cutoffUntil \in Nat /\ killedAt \in Nat
    /\ reachable \subseteq Readers /\ faults \in 0..MaxFaults
    /\ spent \subseteq Signed
    /\ gate \in {NoRequest} \cup Requests

\* A token whose revocation was stored is not accepted again, however long the
\* entry is kept and whenever the janitor runs (redisstore.go:32-49, 97-111);
\* while Redis is away nothing is refused, which the code accepts.
RevokedStaysDead == \A t \in spent : Answers => ~AuthAccepts(t)

\* A user revocation ends every token signed in an earlier second, for as long
\* as that token lives (redisstore.go:64-95, token.go:106-112).
KillCoversOldSeconds ==
    \A t \in Signed :
        Answers /\ token[t].iat + TicksPerSecond <= killedAt => ~AuthAccepts(t)

\* In the memory store a user revocation ends every token signed before it
\* (redisstore.go:64); in Redis one signed earlier in the same second survives.
KillCoversEarlier ==
    backend = "memory" =>
        \A t \in Signed : token[t].at < killedAt => ~AuthAccepts(t)

\* In Redis a token signed after the last user revocation, and not revoked
\* itself, is accepted until it expires: the user can sign in again at once.  In
\* the memory store the cutoff is later than the iat of the new token, which is
\* cut to the second, so signing in works from the next second on.
FreshTokensLive ==
    backend = "redis" =>
        \A t \in Signed : Unexpired(t) /\ t \notin spent /\ token[t].at >= killedAt
            => AuthAccepts(t)

\* The gateway looks a token up and then its user, while both keys may be written
\* and expire (gateway/kong.yml:97-107): no request goes on with an access token
\* that auth had ended when the request arrived, unless Redis failed the gateway
\* or the token has expired on the way, which the jwt plugin had checked before.
GatewayTurnsAway ==
    gate.at = "passed" /\ ~gate.deaf /\ gate.ended /\ token[gate.token].kind = "access"
        => ~Unexpired(gate.token)
=============================================================================
