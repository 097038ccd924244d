-------------------------- MODULE TokenStoreProofs --------------------------
(***************************************************************************)
(* TokenStore for any number of tokens, any clock and either store: what a *)
(* revocation ends stays ended.  The strengthening says how the times of   *)
(* a token, of a revocation entry and of a cutoff hang together; none of   *)
(* the promises is inductive without it, because an entry disappears from  *)
(* the store and only the times say that its token has expired by then.    *)
(***************************************************************************)
EXTENDS TokenStore, TLAPS

\* The times of a signed token: at most now, and iat began the second of "at".
TokenTimes ==
    \A t \in Signed :
        /\ token[t].iat <= token[t].at /\ token[t].at <= now
        /\ token[t].at >= second => token[t].iat = second
        /\ token[t].exp = token[t].iat + TTL(token[t].kind)

\* A revocation is kept for as long as its token lives.
SpentKept ==
    \A t \in spent :
        \/ revoked[t] = token[t].exp
        \/ backend = "memory" /\ token[t].exp < now

\* Nothing else has an entry.
OnlySpent == \A t \in Token \ spent : revoked[t] = 0

\* The stored cutoff is the time of the last user revocation, in the memory
\* store exactly, in Redis cut to its second; it is kept for RefreshTTL.
CutoffTimes ==
    /\ killedAt <= now
    /\ killedAt = 0 => cutoff = 0
    /\ killedAt > 0 =>
        /\ cutoff > 0
        /\ cutoffUntil = killedAt + RefreshTTL
        /\ cutoff <= killedAt
        /\ killedAt < cutoff + TicksPerSecond
        /\ backend = "memory" => cutoff = killedAt
        /\ backend = "redis" => cutoff <= second

\* Tokens signed after the last user revocation carry a second not before it.
FreshSeconds ==
    backend = "redis" =>
        \A t \in Signed : token[t].at >= killedAt => token[t].iat >= cutoff

\* What the gateway has still to find of a token that had been ended before.
ToBeFound ==
    /\ gate.at # "idle" => backend = "redis"
    /\ gate.at # "idle" /\ gate.ended /\ ~gate.deaf /\ token[gate.token].kind = "access"
         /\ Unexpired(gate.token) =>
        /\ gate.at # "passed"
        /\ gate.token \in spent \/ token[gate.token].iat < cutoff
        /\ gate.at = "user" => token[gate.token].iat < cutoff

TimesInv == TypeOK /\ TokenTimes /\ SpentKept /\ OnlySpent /\ CutoffTimes /\ FreshSeconds
IInv == TimesInv /\ ToBeFound

-----------------------------------------------------------------------------
\* No token lives longer than a refresh token.
LEMMA TTLType ==
    ASSUME NEW kind \in Kinds
    PROVE  TTL(kind) \in Nat /\ TTL(kind) <= RefreshTTL /\ TTL(kind) >= 0
BY StoreAssumption DEF TTL, Kinds

\* A signed token has claims of their type.
LEMMA SignedClaims ==
    ASSUME TypeOK, NEW t \in Signed
    PROVE  /\ t \in Token /\ token[t] \in Claims
           /\ token[t].kind \in Kinds
           /\ token[t].at \in Nat /\ token[t].iat \in Nat /\ token[t].exp \in Nat
<1>1. t \in Token /\ token[t].signed /\ token[t] \in {Unsigned} \cup Claims
    BY DEF TypeOK, Signed
<1>2. token[t] # Unsigned
    BY <1>1 DEF Unsigned
<1>3. token[t] \in Claims
    BY <1>1, <1>2
<1> QED
    BY <1>1, <1>3 DEF Claims

\* The empty stores have nothing to account for.
LEMMA TimesStart == Init => TimesInv
<1> SUFFICES ASSUME Init PROVE TimesInv
    OBVIOUS
<1> USE StoreAssumption DEF Init
<1>1. Signed = {}
    BY DEF Signed, Unsigned
<1>2. TypeOK
    BY <1>1 DEF TypeOK
<1>3. TokenTimes /\ SpentKept /\ OnlySpent /\ CutoffTimes /\ FreshSeconds
    BY <1>1 DEF TokenTimes, SpentKept, OnlySpent, CutoffTimes, FreshSeconds
<1> QED
    BY <1>2, <1>3 DEF TimesInv

\* Signing a token: the other tokens are untouched, the new one is of now.
LEMMA SignInv ==
    ASSUME TimesInv, NEW t \in Token, NEW kind \in Kinds, Sign(t, kind)
    PROVE  TimesInv'
<1> USE StoreAssumption DEF TimesInv
<1>1. /\ UNCHANGED <<backend, now, second, revoked, cutoff, cutoffUntil, killedAt,
                     reachable, faults, spent, gate>>
      /\ t \notin Signed
    BY DEF Sign, clockVars, killVars
<1>2. TTL(kind) \in Nat
    BY TTLType
<1>3. token'[t] = [signed |-> TRUE, kind |-> kind, at |-> now,
                   iat |-> second, exp |-> second + TTL(kind)]
    BY DEF Sign, TypeOK
<1>4. \A u \in Token \ {t} : token'[u] = token[u]
    BY DEF Sign, TypeOK
<1>5. token'[t] \in Claims
    BY <1>2, <1>3 DEF TypeOK, Claims
<1>6. token' \in [Token -> {Unsigned} \cup Claims]
    BY <1>5 DEF Sign, TypeOK
<1>7. Signed' = Signed \cup {t}
    BY <1>3, <1>4 DEF Signed
<1>8. TypeOK'
    BY <1>1, <1>6, <1>7 DEF TypeOK, Requests
<1>9. TokenTimes'
    BY <1>1, <1>3, <1>4, <1>7 DEF TokenTimes, TypeOK, Signed
<1>10. SpentKept' /\ OnlySpent'
    BY <1>1, <1>4 DEF SpentKept, OnlySpent, TypeOK, Signed
<1>11. CutoffTimes'
    BY <1>1 DEF CutoffTimes
<1>12. FreshSeconds'
    BY <1>1, <1>3, <1>4, <1>7 DEF FreshSeconds, TypeOK, Signed, CutoffTimes
<1> QED
    BY <1>8, <1>9, <1>10, <1>11, <1>12

\* Storing a revocation.
LEMMA RevokeInv ==
    ASSUME TimesInv, NEW t \in Token, Revoke(t)
    PROVE  TimesInv'
<1> USE StoreAssumption DEF TimesInv
<1>1. UNCHANGED <<backend, now, second, token, cutoff, cutoffUntil, killedAt, reachable, faults, gate>>
    BY DEF Revoke, clockVars, killVars
<1>2. TokenTimes' /\ CutoffTimes' /\ FreshSeconds'
    BY <1>1 DEF TokenTimes, CutoffTimes, FreshSeconds, Signed
<1>3. CASE Answers
    <2>1. /\ revoked' = [revoked EXCEPT ![t] = token[t].exp]
          /\ spent' = spent \cup {t} /\ t \in Signed
        BY <1>3 DEF Revoke, RevokedUntil, Unexpired
    <2>2. token[t].exp \in Nat
        BY <2>1, SignedClaims
    <2>3. TypeOK'
        BY <1>1, <2>1, <2>2 DEF TypeOK, Requests, Signed
    <2>4. SpentKept' /\ OnlySpent'
        BY <1>1, <2>1 DEF SpentKept, OnlySpent, TypeOK, Signed
    <2> QED
        BY <1>2, <2>3, <2>4
<1>4. CASE ~Answers
    BY <1>1, <1>2, <1>4 DEF Revoke, TypeOK, Requests, SpentKept, OnlySpent, Signed
<1> QED
    BY <1>3, <1>4

\* Storing a cutoff.
LEMMA RevokeUserInv ==
    ASSUME TimesInv, RevokeUserTokens
    PROVE  TimesInv'
<1> USE StoreAssumption DEF TimesInv
<1>1. UNCHANGED <<backend, now, second, token, revoked, reachable, faults, spent, gate>>
    BY DEF RevokeUserTokens, clockVars
<1>2. TokenTimes' /\ SpentKept' /\ OnlySpent'
    BY <1>1 DEF TokenTimes, SpentKept, OnlySpent, Signed
<1>3. CASE Answers
    <2>1. /\ cutoff' = IF backend = "redis" THEN second ELSE now
          /\ cutoffUntil' = now + RefreshTTL
          /\ killedAt' = now
        BY <1>3 DEF RevokeUserTokens, CutoffNow, CutoffTTL
    <2>2. TypeOK'
        BY <1>1, <2>1 DEF TypeOK, Requests, Signed
    <2>3. CutoffTimes'
        BY <1>1, <2>1 DEF CutoffTimes, TypeOK
    <2>4. FreshSeconds'
        <3> SUFFICES ASSUME backend = "redis", NEW t \in Signed, token[t].at >= now
                     PROVE  token[t].iat >= second
            BY <1>1, <2>1 DEF FreshSeconds, Signed
        <3> QED
            BY SignedClaims DEF TokenTimes, TypeOK
    <2> QED
        BY <1>2, <2>2, <2>3, <2>4
<1>4. CASE ~Answers
    BY <1>1, <1>2, <1>4 DEF RevokeUserTokens, killVars, TypeOK, Requests, CutoffTimes, FreshSeconds, Signed
<1> QED
    BY <1>3, <1>4

\* The janitor only drops entries whose token has expired.
LEMMA JanitorInv ==
    ASSUME TimesInv, Janitor
    PROVE  TimesInv'
<1> USE StoreAssumption DEF TimesInv
<1>1. UNCHANGED <<backend, now, second, token, cutoff, cutoffUntil, killedAt, reachable, faults, spent, gate>>
    BY DEF Janitor, clockVars, killVars
<1>2. /\ backend = "memory"
      /\ revoked' = [t \in Token |-> IF t \in Signed /\ revoked[t] < now THEN 0 ELSE revoked[t]]
    BY DEF Janitor, Stale
<1>3. TypeOK'
    BY <1>1, <1>2 DEF TypeOK, Requests, Signed
<1>4. SpentKept' /\ OnlySpent'
    BY <1>1, <1>2 DEF SpentKept, OnlySpent, TypeOK, Signed
<1> QED
    BY <1>1, <1>3, <1>4 DEF TokenTimes, CutoffTimes, FreshSeconds, Signed

\* Time passes; a new second begins after everything signed so far.
LEMMA ClockInv ==
    ASSUME TimesInv, ClockTick
    PROVE  TimesInv'
<1> USE StoreAssumption DEF TimesInv
<1>1. /\ UNCHANGED <<backend, token, revoked, cutoff, cutoffUntil, killedAt, reachable, faults, spent, gate>>
      /\ now' = now + 1
      /\ second' = IF now' = second + TicksPerSecond THEN now' ELSE second
    BY DEF ClockTick, killVars
<1>2. TypeOK'
    BY <1>1 DEF TypeOK, Requests, Signed
<1>3. TokenTimes'
    <2> SUFFICES ASSUME NEW t \in Signed
                 PROVE  /\ token[t].iat <= token[t].at /\ token[t].at <= now'
                        /\ token[t].at >= second' => token[t].iat = second'
                        /\ token[t].exp = token[t].iat + TTL(token[t].kind)
        BY <1>1 DEF TokenTimes, Signed
    <2> QED
        BY <1>1, SignedClaims DEF TokenTimes, TypeOK
<1>4. SpentKept' /\ OnlySpent'
    BY <1>1, SignedClaims DEF SpentKept, OnlySpent, TypeOK
<1>5. CutoffTimes' /\ FreshSeconds'
    BY <1>1 DEF CutoffTimes, FreshSeconds, TypeOK, Signed
<1> QED
    BY <1>2, <1>3, <1>4, <1>5

\* What the gateway holds keeps its type.
LEMMA RequestKept ==
    ASSUME TypeOK, (\E t \in Token : GatewayReceive(t)) \/ GatewayToken \/ GatewayUser
    PROVE  gate' \in {NoRequest} \cup Requests
<1>1. ASSUME NEW t \in Token, GatewayReceive(t) PROVE gate' \in Requests
    <2>1. t \in Signed /\ (Listed(t) \/ Killed(t)) \in BOOLEAN
        BY <1>1 DEF GatewayReceive, Unexpired, Listed, Killed
    <2> QED
        BY <1>1, <2>1 DEF GatewayReceive, Requests
<1>2. ASSUME NEW phase \in {"token", "user"}, NEW found, NEW next \in {"user", "passed"},
             GatewayLookup(phase, found, next)
      PROVE  gate' \in {NoRequest} \cup Requests
    <2>1. gate \in Requests
        BY <1>2 DEF GatewayLookup, NoRequest, TypeOK
    <2> QED
        BY <1>2, <2>1 DEF GatewayLookup, Requests
<1> QED
    BY <1>1, <1>2 DEF GatewayToken, GatewayUser

\* Every step keeps the times.
LEMMA TimesStep == TimesInv /\ [Next]_vars => TimesInv'
<1> SUFFICES ASSUME TimesInv, [Next]_vars PROVE TimesInv'
    OBVIOUS
<1>1. ASSUME NEW t \in Token, NEW kind \in Kinds, Sign(t, kind) PROVE TimesInv'
    BY <1>1, SignInv
<1>2. ASSUME NEW t \in Token, Revoke(t) PROVE TimesInv'
    BY <1>2, RevokeInv
<1>3. CASE RevokeUserTokens
    BY <1>3, RevokeUserInv
<1>4. CASE Janitor
    BY <1>4, JanitorInv
<1>5. CASE Restart
    <2>1. UNCHANGED <<backend, now, second, token, reachable, gate>> /\ faults' \in 0..MaxFaults
        BY <1>5, StoreAssumption DEF Restart, clockVars, TimesInv, TypeOK
    <2>2. CASE backend = "memory"
        BY <1>5, <2>1, <2>2, StoreAssumption DEF Restart, TimesInv, TypeOK, Requests, TokenTimes,
           SpentKept, OnlySpent, CutoffTimes, FreshSeconds, Signed
    <2>3. CASE backend # "memory"
        BY <1>5, <2>1, <2>3 DEF Restart, killVars, TimesInv, TypeOK, Requests, TokenTimes,
           SpentKept, OnlySpent, CutoffTimes, FreshSeconds, Signed
    <2> QED
        BY <2>2, <2>3
<1>6. ASSUME NEW r \in Readers, Outage(r) \/ Recover(r) PROVE TimesInv'
    <2>1. /\ UNCHANGED <<backend, now, second, token, revoked, cutoff, cutoffUntil, killedAt, spent, gate>>
          /\ reachable' \subseteq Readers
        BY <1>6 DEF Outage, Recover, clockVars, killVars, TimesInv, TypeOK
    <2>2. faults' \in 0..MaxFaults
        BY <1>6, StoreAssumption DEF Outage, Recover, TimesInv, TypeOK
    <2> QED
        BY <2>1, <2>2 DEF TimesInv, TypeOK, Requests, TokenTimes, SpentKept, OnlySpent, CutoffTimes,
           FreshSeconds, Signed
<1>7. CASE ClockTick
    BY <1>7, ClockInv
<1>9. CASE (\E t \in Token : GatewayReceive(t)) \/ GatewayToken \/ GatewayUser
    <2>1. UNCHANGED <<backend, now, second, token, revoked, cutoff, cutoffUntil, killedAt,
                      reachable, faults, spent>>
        BY <1>9 DEF GatewayReceive, GatewayToken, GatewayUser, GatewayLookup, clockVars, killVars
    <2>2. gate' \in {NoRequest} \cup Requests
        BY <1>9, RequestKept DEF TimesInv
    <2> QED
        BY <2>1, <2>2 DEF TimesInv, TypeOK, TokenTimes, SpentKept, OnlySpent, CutoffTimes,
           FreshSeconds, Signed, Requests
<1>8. CASE UNCHANGED vars
    BY <1>8 DEF vars, clockVars, killVars, TimesInv, TypeOK, Requests, TokenTimes, SpentKept, OnlySpent,
       CutoffTimes, FreshSeconds, Signed
<1> QED
    BY <1>1, <1>2, <1>3, <1>4, <1>5, <1>6, <1>7, <1>8, <1>9 DEF Next

\* While a token lives, its revocation and a cutoff after it are in Redis.
LEMMA KeysLast ==
    ASSUME TimesInv, backend = "redis", NEW t \in Signed, Unexpired(t)
    PROVE  /\ Listed(t) <=> t \in spent
           /\ Killed(t) <=> token[t].iat < cutoff
<1>1. /\ t \in Token /\ token[t].iat \in Nat /\ token[t].exp \in Nat /\ token[t].kind \in Kinds
      /\ token[t].exp = token[t].iat + TTL(token[t].kind)
      /\ now \in Nat /\ cutoff \in Nat /\ killedAt \in Nat /\ cutoffUntil \in Nat /\ revoked[t] \in Nat
    BY SignedClaims DEF TimesInv, TypeOK, TokenTimes
<1>2. now < token[t].exp
    BY DEF Unexpired
<1>3. t \in spent => revoked[t] = token[t].exp
    BY DEF TimesInv, SpentKept
<1>4. t \notin spent => revoked[t] = 0
    BY <1>1 DEF TimesInv, OnlySpent
<1>5. Listed(t) <=> t \in spent
    BY <1>1, <1>2, <1>3, <1>4 DEF Listed
<1>6. ASSUME token[t].iat < cutoff PROVE cutoffUntil > now
    <2>1. cutoffUntil = killedAt + RefreshTTL /\ cutoff <= killedAt
        BY <1>1, <1>6 DEF TimesInv, CutoffTimes
    <2> QED
        BY <1>1, <1>2, <1>6, <2>1, TTLType, StoreAssumption
<1>7. Killed(t) <=> token[t].iat < cutoff
    BY <1>1, <1>6 DEF Killed, Cutoff
<1> QED
    BY <1>5, <1>7

\* Nothing but the gateway's own steps changes what it has still to find.
LEMMA OthersLeaveIt ==
    ASSUME TimesInv, ToBeFound, gate' = gate, backend' = backend, TimesInv',
           now <= now', spent \subseteq spent' \/ backend # "redis",
           cutoff <= cutoff' \/ backend # "redis",
           \A t \in Signed : token'[t] = token[t]
    PROVE  ToBeFound'
<1>1. CASE gate.at = "idle"
    BY <1>1 DEF ToBeFound
<1>2. CASE gate.at # "idle"
    <2>1. gate \in Requests /\ gate.token \in Signed /\ backend = "redis"
        BY <1>2 DEF TimesInv, TypeOK, NoRequest, Requests, ToBeFound
    <2>2. token'[gate.token] = token[gate.token]
        BY <2>1
    <2>3. /\ token[gate.token].iat \in Nat /\ token[gate.token].exp \in Nat
          /\ now \in Nat /\ now' \in Nat /\ cutoff \in Nat /\ cutoff' \in Nat
        BY <2>1, SignedClaims DEF TimesInv, TypeOK
    <2>4. Unexpired(gate.token)' => Unexpired(gate.token)
        BY <2>1, <2>2, <2>3 DEF Unexpired
    <2>5. token[gate.token].iat < cutoff => token[gate.token].iat < cutoff'
        BY <2>1, <2>3
    <2> QED
        BY <2>1, <2>2, <2>4, <2>5 DEF ToBeFound
<1> QED
    BY <1>1, <1>2

\* The gateway's steps: at its arrival a token ended is one listed or killed, and
\* neither goes away while it lives.
LEMMA GatewayLooks ==
    ASSUME TimesInv, ToBeFound,
           (\E t \in Token : GatewayReceive(t)) \/ GatewayToken \/ GatewayUser
    PROVE  ToBeFound'
<1>1. UNCHANGED <<backend, now, token, cutoff, spent>>
    BY DEF GatewayReceive, GatewayToken, GatewayUser, GatewayLookup, clockVars, killVars
<1>2. \A t : Unexpired(t)' <=> Unexpired(t)
    BY <1>1 DEF Unexpired, Signed
<1>3. ASSUME NEW t \in Token, GatewayReceive(t) PROVE ToBeFound'
    <2>1. t \in Signed /\ Unexpired(t) /\ backend = "redis"
        BY <1>3 DEF GatewayReceive, Unexpired
    <2>2. Listed(t) \/ Killed(t) <=> t \in spent \/ token[t].iat < cutoff
        BY <2>1, KeysLast
    <2>3. /\ gate'.token = t /\ gate'.ended = (Listed(t) \/ Killed(t))
          /\ gate'.at \in {"token", "passed"}
          /\ gate'.at = "passed" => gate'.deaf \/ token[t].kind # "access"
        BY <1>3 DEF GatewayReceive
    <2> QED
        BY <1>1, <2>1, <2>2, <2>3 DEF ToBeFound
<1>4. CASE GatewayToken
    <2>1. gate \in Requests /\ gate.at = "token" /\ gate.token \in Signed /\ backend = "redis"
        BY <1>4 DEF GatewayToken, GatewayLookup, TimesInv, TypeOK, NoRequest, Requests, ToBeFound
    <2>2. \/ gate' = NoRequest
          \/ /\ gate'.at = "user" /\ gate'.token = gate.token /\ gate'.ended = gate.ended
             /\ ~gate'.deaf => ~gate.deaf /\ ~Listed(gate.token)
        BY <1>4, <2>1 DEF GatewayToken, GatewayLookup, Requests
    <2>3. Unexpired(gate.token) => (Listed(gate.token) <=> gate.token \in spent)
        BY <2>1, KeysLast
    <2> QED
        BY <1>1, <1>2, <2>1, <2>2, <2>3 DEF ToBeFound, NoRequest
<1>5. CASE GatewayUser
    <2>1. gate \in Requests /\ gate.at = "user" /\ gate.token \in Signed /\ backend = "redis"
        BY <1>5 DEF GatewayUser, GatewayLookup, TimesInv, TypeOK, NoRequest, Requests, ToBeFound
    <2>2. \/ gate' = NoRequest
          \/ /\ gate'.at = "passed" /\ gate'.token = gate.token /\ gate'.ended = gate.ended
             /\ ~gate'.deaf => ~gate.deaf /\ ~Killed(gate.token)
        BY <1>5, <2>1 DEF GatewayUser, GatewayLookup, Requests
    <2>3. Unexpired(gate.token) => (Killed(gate.token) <=> token[gate.token].iat < cutoff)
        BY <2>1, KeysLast
    <2> QED
        BY <1>1, <1>2, <2>1, <2>2, <2>3 DEF ToBeFound, NoRequest
<1> QED
    BY <1>3, <1>4, <1>5

\* The empty stores and nobody at the gateway.
LEMMA InitInv == Init => IInv
BY TimesStart DEF IInv, ToBeFound, Init, NoRequest

\* Every step keeps the invariant.
LEMMA NextInv == IInv /\ [Next]_vars => IInv'
<1> SUFFICES ASSUME IInv, [Next]_vars PROVE ToBeFound'
    BY TimesStep DEF IInv
<1>1. TimesInv /\ TimesInv' /\ ToBeFound
    BY TimesStep DEF IInv
<1>2. CASE (\E t \in Token : GatewayReceive(t)) \/ GatewayToken \/ GatewayUser
    BY <1>1, <1>2, GatewayLooks
<1>3. CASE ~((\E t \in Token : GatewayReceive(t)) \/ GatewayToken \/ GatewayUser)
    <2>1. \/ \E t \in Token, kind \in Kinds : Sign(t, kind)
          \/ \E t \in Token : Revoke(t)
          \/ RevokeUserTokens \/ Janitor \/ Restart
          \/ \E r \in Readers : Outage(r) \/ Recover(r)
          \/ ClockTick \/ UNCHANGED vars
        BY <1>3 DEF Next
    <2>2. gate' = gate /\ backend' = backend
        BY <2>1 DEF Sign, Revoke, RevokeUserTokens, Janitor, Restart, Outage, Recover, ClockTick, vars
    <2>3. now \in Nat /\ second \in Nat /\ cutoff \in Nat
        BY <1>1 DEF TimesInv, TypeOK
    <2>4. now <= now'
        BY <2>1, <2>3 DEF Sign, Revoke, RevokeUserTokens, Janitor, Restart, Outage, Recover, ClockTick,
           vars, clockVars
    <2>5. spent \subseteq spent' \/ backend # "redis"
        BY <2>1 DEF Sign, Revoke, RevokeUserTokens, Janitor, Restart, Outage, Recover, ClockTick, vars
    <2>6. cutoff <= cutoff' \/ backend # "redis"
        <3>1. CASE RevokeUserTokens
            <4>1. backend = "redis" => cutoff <= second
                BY <1>1, <2>3 DEF TimesInv, CutoffTimes, TypeOK
            <4> QED
                BY <2>3, <3>1, <4>1 DEF RevokeUserTokens, CutoffNow, killVars
        <3>2. CASE ~RevokeUserTokens
            BY <2>1, <2>3, <3>2 DEF Sign, Revoke, Janitor, Restart, Outage, Recover, ClockTick, vars, killVars
        <3> QED
            BY <3>1, <3>2
    <2>7. \A t \in Signed : token'[t] = token[t]
        <3>1. CASE \E t \in Token, kind \in Kinds : Sign(t, kind)
            BY <1>1, <3>1 DEF Sign, Signed, TimesInv, TypeOK
        <3>2. CASE ~\E t \in Token, kind \in Kinds : Sign(t, kind)
            BY <2>1, <3>2 DEF Revoke, RevokeUserTokens, Janitor, Restart, Outage, Recover, ClockTick, vars
        <3> QED
            BY <3>1, <3>2
    <2> QED
        BY <1>1, <2>2, <2>4, <2>5, <2>6, <2>7, OthersLeaveIt
<1> QED
    BY <1>2, <1>3

\* The strengthening is an invariant.
THEOREM Invariance == Spec => []IInv
BY InitInv, NextInv, PTL DEF Spec

\* Every variable keeps its type.
THEOREM TypeCorrect == Spec => []TypeOK
<1>1. IInv => TypeOK
    BY DEF IInv, TimesInv
<1> QED
    BY <1>1, Invariance, PTL

\* A revoked token is not accepted again (redisstore.go:32-62): by the time its
\* entry is gone it has expired.
THEOREM RevokedForGood == Spec => []RevokedStaysDead
<1>1. IInv => RevokedStaysDead
    <2> SUFFICES ASSUME IInv, NEW t \in spent, Answers, AuthAccepts(t) PROVE FALSE
        BY DEF RevokedStaysDead
    <2>1. t \in Signed /\ now < token[t].exp /\ ~Listed(t)
        BY DEF AuthAccepts, Unexpired
    <2>2. token[t].exp \in Nat /\ now \in Nat /\ revoked[t] \in Nat
        BY <2>1, SignedClaims DEF IInv, TimesInv, TypeOK
    <2>3. revoked[t] = token[t].exp
        BY <2>1, <2>2 DEF IInv, TimesInv, SpentKept
    <2> QED
        BY <2>1, <2>2, <2>3 DEF Listed
<1> QED
    BY <1>1, Invariance, PTL

\* A user revocation ends the tokens of earlier seconds for good, in both stores
\* (redisstore.go:64-95).
THEOREM KillForGood == Spec => []KillCoversOldSeconds
<1>1. IInv => KillCoversOldSeconds
    <2> SUFFICES ASSUME IInv, NEW t \in Signed, Answers,
                        token[t].iat + TicksPerSecond <= killedAt, AuthAccepts(t)
                 PROVE  FALSE
        BY DEF KillCoversOldSeconds
    <2>1. /\ token[t].iat \in Nat /\ token[t].exp \in Nat /\ token[t].kind \in Kinds
          /\ token[t].exp = token[t].iat + TTL(token[t].kind)
        BY SignedClaims DEF IInv, TimesInv, TokenTimes
    <2>2. TTL(token[t].kind) \in Nat /\ TTL(token[t].kind) <= RefreshTTL
        BY <2>1, TTLType
    <2>3. now \in Nat /\ killedAt \in Nat /\ cutoff \in Nat /\ cutoffUntil \in Nat
        BY DEF IInv, TimesInv, TypeOK
    <2>4. killedAt > 0
        BY <2>1, <2>3, StoreAssumption
    <2>5. /\ cutoffUntil = killedAt + RefreshTTL /\ cutoff <= killedAt
          /\ killedAt < cutoff + TicksPerSecond
        BY <2>4 DEF IInv, TimesInv, CutoffTimes
    <2>6. token[t].iat < cutoff
        BY <2>1, <2>3, <2>5, StoreAssumption
    <2>7. token[t].exp < cutoffUntil
        BY <2>1, <2>2, <2>3, <2>5, <2>6, StoreAssumption
    <2>8. now < token[t].exp /\ ~Killed(t)
        BY DEF AuthAccepts, Unexpired
    <2>9. Cutoff = cutoff
        BY <2>1, <2>3, <2>7, <2>8 DEF Cutoff
    <2> QED
        BY <2>1, <2>3, <2>6, <2>8, <2>9 DEF Killed
<1> QED
    BY <1>1, Invariance, PTL

\* In the memory store a user revocation ends every token signed before it.
THEOREM KillIsExact == Spec => []KillCoversEarlier
<1>1. IInv => KillCoversEarlier
    <2> SUFFICES ASSUME IInv, backend = "memory", NEW t \in Signed,
                        token[t].at < killedAt, AuthAccepts(t)
                 PROVE  FALSE
        BY DEF KillCoversEarlier
    <2>1. /\ token[t].at \in Nat /\ token[t].iat \in Nat /\ killedAt \in Nat
          /\ token[t].iat <= token[t].at
        BY SignedClaims DEF IInv, TimesInv, TypeOK, TokenTimes
    <2>2. killedAt > 0
        BY <2>1
    <2>3. cutoff = killedAt
        BY <2>2 DEF IInv, TimesInv, CutoffTimes
    <2>4. Cutoff = cutoff /\ Answers
        BY DEF Cutoff, Answers
    <2> QED
        BY <2>1, <2>2, <2>3, <2>4 DEF AuthAccepts, Killed
<1> QED
    BY <1>1, Invariance, PTL

\* In Redis a sign-in after a user revocation works at once: the cutoff never
\* reaches into the second in which it was taken.
THEOREM SignInAgain == Spec => []FreshTokensLive
<1>1. IInv => FreshTokensLive
    <2> SUFFICES ASSUME IInv, backend = "redis", NEW t \in Signed, Unexpired(t), t \notin spent,
                        token[t].at >= killedAt
                 PROVE  ~Listed(t) /\ ~Killed(t)
        BY DEF FreshTokensLive, AuthAccepts
    <2>1. token[t].iat >= cutoff
        BY DEF IInv, TimesInv, FreshSeconds
    <2>2. ~Listed(t)
        <3>1. t \in Token /\ revoked[t] = 0 /\ now \in Nat
            BY SignedClaims DEF IInv, TimesInv, TypeOK, OnlySpent
        <3> QED
            BY <3>1 DEF Listed
    <2>3. token[t].iat \in Nat /\ cutoff \in Nat /\ cutoffUntil \in Nat /\ now \in Nat
        BY SignedClaims DEF IInv, TimesInv, TypeOK
    <2> QED
        BY <2>1, <2>2, <2>3 DEF Killed, Cutoff
<1> QED
    BY <1>1, Invariance, PTL

\* A token ended before a request arrived at the gateway does not get it through,
\* for any tokens and times, unless a read failed or the token expired on the way.
THEOREM GatewayHoldsBack == Spec => []GatewayTurnsAway
<1>1. IInv => GatewayTurnsAway
    <2> SUFFICES ASSUME IInv, gate.at = "passed", ~gate.deaf, gate.ended,
                        token[gate.token].kind = "access", Unexpired(gate.token)
                 PROVE  FALSE
        BY DEF GatewayTurnsAway
    <2> QED
        BY DEF IInv, ToBeFound
<1> QED
    BY <1>1, Invariance, PTL
=============================================================================
