---------------------------- MODULE AuthSessions ----------------------------
(***************************************************************************)
(* User sessions of platform/auth: rows of users and tenants, the token    *)
(* pairs issued from them, and the requests that read a row in one         *)
(* statement and act on what they read in a later one.                     *)
(*                                                                         *)
(* A request runs in a slot; its fields are what the handler holds in      *)
(* local variables between two statements.  Token times are abstracted to  *)
(* an order: revokeUserTokens kills the pairs issued before it (module     *)
(* TokenStore has the clock, the expiry and the two stores).               *)
(*                                                                         *)
(* Any statement may fail, and a SET of Redis fails without a word: the    *)
(* request then ends, or goes on, with what it has written so far.         *)
(***************************************************************************)
EXTENDS Naturals, FiniteSets

CONSTANTS
    User, Admins,  \* users of the platform, those that start as admins
    Tenant,        \* tenants users may belong to, besides NoTenant
    NoTenant,      \* tenant_id 0
    Slot,          \* requests in progress at once
    AdminSlot,     \* the slots that may carry a PATCH of a user
    MaxPairs,      \* bound: token pairs issued
    MaxPasswords,  \* bound: password changes
    MaxFaults,     \* bound: failed statements, SETs of Redis and crashes
    Keep           \* stands for a field the PATCH does not mention

ASSUME SessionAssumption ==
    /\ IsFiniteSet(User) /\ Admins \subseteq User
    /\ Admins # {}         \* main.go:205
    /\ NoTenant \notin Tenant
    /\ AdminSlot \subseteq Slot
    /\ Keep \notin {0, 1} /\ Keep \notin {"admin", "user"}
    /\ Keep \notin Tenant \cup {NoTenant}
    /\ MaxPairs \in Nat /\ MaxPasswords \in Nat /\ MaxFaults \in Nat

VARIABLES
    role, status, password, tenant,  \* table users; passwords are numbered
    closed,        \* tenants whose status is not 1
    pair,          \* pair[n]: the n-th pair issued, or NoPair
    revoked,       \* <<n, kind>> in the revocation list
    killed,        \* pairs older than the last revokeUserTokens of their user
    slot,          \* slot[s]: the request in progress
    reset,         \* history: reset[u], the password of the last reset
    spared,        \* history: pairs a failed revokeUserTokens should have killed
    kept,          \* history: tokens whose revocation Redis did not store
    faults

rowVars   == <<role, status, password, tenant, closed>>
faultVars == <<spared, kept, faults>>
tokenVars == <<pair, revoked, killed, faultVars>>
vars      == <<rowVars, tokenVars, slot, reset>>

Pair    == 1..MaxPairs
Kinds   == {"access", "refresh"}
Roles   == {"admin", "user"}
Tenants == Tenant \cup {NoTenant}

NoPair == [issued |-> FALSE]
Idle   == [op |-> "idle"]

Issued == { n \in Pair : pair[n].issued }
PairsOf(u) == { n \in Issued : pair[n].user = u }

\* s.parse of one token of pair n.
Accepted(n, kind) == n \in Issued /\ <<n, kind>> \notin revoked /\ n \notin killed

\* A pair that still opens something.
Live(n) == \E kind \in Kinds : Accepted(n, kind)

\* What loadUser returns.
Snapshot(u) == [role |-> role[u], status |-> status[u],
                password |-> password[u], tenant |-> tenant[u]]

\* issuePair: the claims come from the row as it was read.  Two fields are kept
\* for the properties: the row has changed since it was read, and the tenant of
\* the claim is open.
Issue(u, row, parent) ==
    \E n \in Pair \ Issued :
        /\ \A m \in Pair \ Issued : n <= m
        /\ pair' = [pair EXCEPT ![n] =
              [issued |-> TRUE, user |-> u, role |-> row.role, tenant |-> row.tenant,
               password |-> row.password, parent |-> parent,
               straddled |-> row # Snapshot(u), open |-> row.tenant \notin closed]]

FaultIf(failed) ==
    IF failed THEN faults < MaxFaults /\ faults' = faults + 1 ELSE UNCHANGED faults

\* s.revoke of each token: an error of Redis is dropped.
Revoke(tokens) ==
    \E lost \in SUBSET tokens :
        /\ revoked' = revoked \cup (tokens \ lost)
        /\ kept' = kept \cup lost
        /\ FaultIf(lost # {})

\* revokeUserTokens still to be called, so many times, for these users.
PendingKill(us, times) == [op |-> "kill", users |-> us, times |-> times]

Finish(s) == slot' = [slot EXCEPT ![s] = Idle]

\* adminActor: an access token whose role claim is admin, whatever the row says.
ActingAdmin(n) == Accepted(n, "access") /\ pair[n].role = "admin"

ActiveAdmins == { u \in User : role[u] = "admin" /\ status[u] = 1 }

-----------------------------------------------------------------------------
Init ==
    /\ role = [u \in User |-> IF u \in Admins THEN "admin" ELSE "user"]
    /\ status = [u \in User |-> 1]
    /\ password = [u \in User |-> 0]
    /\ tenant \in [User -> Tenants]
    /\ closed = {}
    /\ pair = [n \in Pair |-> NoPair]
    /\ revoked = {}
    /\ killed = {}
    /\ slot = [s \in Slot |-> Idle]
    /\ reset = [u \in User |-> 0]
    /\ spared = {} /\ kept = {} /\ faults = 0

\* handleLogin up to issuePair: the row is read and the password checked.
LoginRead(s, u) ==
    /\ slot[s] = Idle
    /\ status[u] = 1
    /\ slot' = [slot EXCEPT ![s] = [op |-> "login", user |-> u, row |-> Snapshot(u)]]
    /\ UNCHANGED <<rowVars, tokenVars, reset>>

LoginIssue(s) ==
    /\ slot[s].op = "login"
    /\ Issue(slot[s].user, slot[s].row, 0)
    /\ Finish(s)
    /\ UNCHANGED <<rowVars, revoked, killed, faultVars, reset>>

\* handleRefresh: s.parse of the refresh token.  Kept for the properties: how many
\* pairs had been issued by then.
RefreshParse(s, n) ==
    /\ slot[s] = Idle
    /\ Accepted(n, "refresh")
    /\ slot' = [slot EXCEPT ![s] = [op |-> "refresh", pair |-> n,
                                       began |-> Cardinality(Issued)]]
    /\ UNCHANGED <<rowVars, tokenVars, reset>>

\* loadUser and the status check.
RefreshLoad(s) ==
    /\ slot[s].op = "refresh"
    /\ LET u == pair[slot[s].pair].user IN
        slot' = [slot EXCEPT ![s] =
                    IF status[u] = 1
                    THEN [op |-> "rotate", pair |-> slot[s].pair,
                          began |-> slot[s].began, row |-> Snapshot(u)]
                    ELSE Idle]
    /\ UNCHANGED <<rowVars, tokenVars, reset>>

\* Mutant: the old refresh token is not revoked.
RefreshRotate_KeepsOld(s) ==
    /\ slot[s].op = "rotate"
    /\ Issue(pair[slot[s].pair].user, slot[s].row, slot[s].pair)
    /\ Finish(s)
    /\ UNCHANGED <<rowVars, revoked, killed, faultVars, reset>>

\* s.revoke(c) and issuePair.
RefreshRotate(s) ==
    /\ slot[s].op = "rotate"
    /\ Revoke({<<slot[s].pair, "refresh">>})
    /\ Issue(pair[slot[s].pair].user, slot[s].row, slot[s].pair)
    /\ Finish(s)
    /\ UNCHANGED <<rowVars, killed, spared, reset>>

\* handleLogout, with or without a refresh token of the same user.
HandleLogout(n) ==
    /\ Accepted(n, "access")
    /\ \E more \in {{}} \cup { {<<m, "refresh">>} : m \in
                    { k \in PairsOf(pair[n].user) : Accepted(k, "refresh") } } :
        Revoke({<<n, "access">>} \cup more)
    /\ UNCHANGED <<rowVars, pair, killed, spared, slot, reset>>

\* handleChangePassword: bearer, loadUser and the check of the old password.
ChangeRead(s, n) ==
    /\ slot[s] = Idle
    /\ Accepted(n, "access")
    /\ slot' = [slot EXCEPT ![s] = [op |-> "change", pair |-> n]]
    /\ UNCHANGED <<rowVars, tokenVars, reset>>

\* The UPDATE, then s.revoke of the access token the request came with.
ChangeWrite(s) ==
    /\ slot[s].op = "change"
    /\ LET n == slot[s].pair IN
        /\ password[pair[n].user] < MaxPasswords
        /\ password' = [password EXCEPT ![pair[n].user] = @ + 1]
        /\ Revoke({<<n, "access">>})
    /\ Finish(s)
    /\ UNCHANGED <<role, status, tenant, closed, pair, killed, spared, reset>>

\* handleUsersReset and handleSetPassword: the UPDATE of password_hash.  The
\* first needs an acting admin, the second a whitelisted service, which only
\* calls it for a user who has shown a mailed code.
ResetWrite(s, u) ==
    /\ slot[s] = Idle
    /\ password[u] < MaxPasswords
    /\ password' = [password EXCEPT ![u] = @ + 1]
    /\ reset' = [reset EXCEPT ![u] = password[u] + 1]
    /\ slot' = [slot EXCEPT ![s] = PendingKill({u}, 1)]
    /\ UNCHANGED <<role, status, tenant, closed, tokenVars>>

\* handleUsersUpdate: the acting admin is checked, the row read and the first
\* guard taken.  r, t, m: the role, the status and the tenant asked for.
UpdateRead(s, n, u, r, t, m) ==
    /\ slot[s] = Idle /\ s \in AdminSlot
    /\ ActingAdmin(n)
    /\ LET demoting  == r = "user" /\ role[u] = "admin"
           disabling == t = 0 /\ status[u] = 1
           next      == IF (demoting \/ disabling) /\ role[u] = "admin"
                        THEN "count" ELSE "write"
       IN  /\ ~((demoting \/ disabling) /\ u = pair[n].user)
           /\ slot' = [slot EXCEPT ![s] =
                [op |-> next, user |-> u, row |-> Snapshot(u),
                 role |-> r, status |-> t, tenant |-> m]]
    /\ UNCHANGED <<rowVars, tokenVars, reset>>

\* Mutant: the guard lets the last admin go.
UpdateCount_OffByOne(s) ==
    /\ slot[s].op = "count"
    /\ slot' = [slot EXCEPT ![s] =
                  IF Cardinality(ActiveAdmins) < 1 THEN Idle ELSE [@ EXCEPT !.op = "write"]]
    /\ UNCHANGED <<rowVars, tokenVars, reset>>

\* SELECT count(*) of the active admins: with one left the request is refused.
UpdateCount(s) ==
    /\ slot[s].op = "count"
    /\ slot' = [slot EXCEPT ![s] =
                  IF Cardinality(ActiveAdmins) <= 1 THEN Idle ELSE [@ EXCEPT !.op = "write"]]
    /\ UNCHANGED <<rowVars, tokenVars, reset>>

\* nil in the request leaves the field as it was read.
Asked(wanted, current) == IF wanted = Keep THEN current ELSE wanted

\* Mutant: a change of role leaves the tokens alone.
NeedsKill_OnlyDisabling(req) == Asked(req.status, req.row.status) # 1

\* Whether the new role or status makes handleUsersUpdate revoke the tokens.
NeedsKill(req) ==
    \/ Asked(req.status, req.row.status) # 1
    \/ Asked(req.role, req.row.role) # req.row.role

\* UPDATE users SET role, status: a field not asked for is written as read.
UpdateWrite(s) ==
    /\ slot[s].op = "write"
    /\ LET req == slot[s] IN
        /\ role'   = [role EXCEPT ![req.user] = Asked(req.role, req.row.role)]
        /\ status' = [status EXCEPT ![req.user] = Asked(req.status, req.row.status)]
        /\ slot' = [slot EXCEPT ![s] =
              CASE req.tenant # Keep -> [@ EXCEPT !.op = "move"]
                [] req.tenant = Keep /\ NeedsKill(req) -> PendingKill({req.user}, 1)
                [] OTHER -> Idle]
    /\ UNCHANGED <<password, tenant, closed, tokenVars, reset>>

\* UPDATE users SET tenant_id: always followed by one revokeUserTokens, and by
\* a second one when the role or the status asks for it.
UpdateTenant(s) ==
    /\ slot[s].op = "move"
    /\ LET req == slot[s] IN
        /\ tenant' = [tenant EXCEPT ![req.user] = req.tenant]
        /\ slot' = [slot EXCEPT ![s] =
              PendingKill({req.user}, IF NeedsKill(req) THEN 2 ELSE 1)]
    /\ UNCHANGED <<role, status, password, closed, tokenVars, reset>>

PairsOfAll(us) == UNION { PairsOf(u) : u \in us }

\* revokeUserTokens of every user listed: an error of Redis is dropped, and so is
\* one of reading the list.
Kill(s) ==
    /\ slot[s].op = "kill"
    /\ \E lost \in SUBSET slot[s].users :
        /\ killed' = killed \cup PairsOfAll(slot[s].users \ lost)
        /\ spared' = spared \cup PairsOfAll(lost)
        /\ FaultIf(lost # {})
    /\ slot' = [slot EXCEPT ![s] = IF @.times = 1 THEN Idle ELSE [@ EXCEPT !.times = 1]]
    /\ UNCHANGED <<rowVars, pair, revoked, kept, reset>>

\* Mutant: the members of a closed tenant keep their sessions.
TenantWrite_NoSweep(s, n, t) ==
    /\ slot[s] = Idle
    /\ ActingAdmin(n)
    /\ closed' \in {closed \cup {t}, closed \ {t}}
    /\ UNCHANGED <<role, status, password, tenant, tokenVars, slot, reset>>

\* handleTenantsUpdate: the UPDATE of the tenant's status.
TenantWrite(s, n, t) ==
    /\ slot[s] = Idle
    /\ ActingAdmin(n)
    /\ \/ /\ closed' = closed \cup {t}
          /\ slot' = [slot EXCEPT ![s] = [op |-> "members", tenant |-> t]]
       \/ /\ closed' = closed \ {t}
          /\ UNCHANGED slot
    /\ UNCHANGED <<role, status, password, tenant, tokenVars, reset>>

\* SELECT of the members of the closed tenant.
TenantMembers(s) ==
    /\ slot[s].op = "members"
    /\ LET members == { u \in User : tenant[u] = slot[s].tenant } IN
        slot' = [slot EXCEPT ![s] = IF members = {} THEN Idle ELSE PendingKill(members, 1)]
    /\ UNCHANGED <<rowVars, tokenVars, reset>>

\* The request of s has written what ends the sessions of u, and has yet to
\* revoke the tokens.
Owes(s, u) ==
    \/ slot[s].op = "kill" /\ u \in slot[s].users
    \/ slot[s].op = "move" /\ u = slot[s].user /\ NeedsKill(slot[s])
    \/ slot[s].op = "members" /\ tenant[u] = slot[s].tenant

\* The next statement of a request that has written fails, or the process dies.
\* The admin has a 500 if it is the UPDATE of the tenant, a 200 if it is the query
\* of the members; what was written before stays.
Fail(s) ==
    /\ slot[s].op \in {"move", "members", "kill"}
    /\ FaultIf(TRUE)
    /\ spared' = spared \cup PairsOfAll({ u \in User : Owes(s, u) })
    /\ Finish(s)
    /\ UNCHANGED <<rowVars, pair, revoked, killed, kept, reset>>

-----------------------------------------------------------------------------
Next ==
    \/ \E s \in Slot :
        \/ \E u \in User : LoginRead(s, u) \/ ResetWrite(s, u)
        \/ \E n \in Pair : RefreshParse(s, n) \/ ChangeRead(s, n)
        \/ LoginIssue(s) \/ RefreshLoad(s) \/ RefreshRotate(s) \/ ChangeWrite(s)
        \/ UpdateCount(s) \/ UpdateWrite(s) \/ UpdateTenant(s)
        \/ TenantMembers(s) \/ Kill(s) \/ Fail(s)
        \/ \E n \in Pair, t \in Tenant : TenantWrite(s, n, t)
        \/ \E n \in Pair, u \in User, r \in Roles \cup {Keep}, t \in {0, 1, Keep},
              m \in Tenants \cup {Keep} : UpdateRead(s, n, u, r, t, m)
    \/ \E n \in Pair : HandleLogout(n)

Spec == Init /\ [][Next]_vars

-----------------------------------------------------------------------------
KillComing(u) == \E s \in Slot : Owes(s, u)

\* Claims that are no longer what the row says, or that it should no longer
\* give, or that were issued for a password since reset.
Stale(n) ==
    LET p == pair[n] IN
    \/ p.role # role[p.user] \/ p.tenant # tenant[p.user] \/ status[p.user] # 1
    \/ p.password < reset[p.user]

\* A pair that still opens something and whose claims the row has since
\* contradicted, by a change of role, status or tenant or by a password reset,
\* is about to be killed, or comes from one of the two windows the code leaves: a
\* login or refresh that read the row before the change and issued after it, or a
\* failure after the change that kept the revocation from this very pair
\* (users.go:159-174, redisstore.go:66-76, main.go:233-277).
SurvivorsStraddled ==
    \A n \in Issued : Live(n) /\ Stale(n)
        => pair[n].straddled \/ KillComing(pair[n].user) \/ n \in spared

\* Closing a tenant ends the sessions of all its members (tenants.go:63): a live
\* pair that names a closed tenant was issued after the closing, unless a failure
\* kept the revocation from it (tenants.go:96-103).
ClosingEndsSessions ==
    \A n \in Issued : Live(n) /\ pair[n].tenant \in closed
        => ~pair[n].open \/ pair[n].straddled \/ KillComing(pair[n].user) \/ n \in spared

Children(n) == { m \in Issued : pair[m].parent = n }

\* Rotation voids the old refresh token (main.go:259-276): a request that is
\* redeeming a token redeemed before has parsed it before any of the earlier
\* redemptions was answered, so a stolen token is no use after its owner's next
\* refresh, unless the two overlap or Redis failed to store the revocation.
RedemptionsOverlap ==
    \A s \in Slot :
        slot[s].op \in {"refresh", "rotate"} /\ <<slot[s].pair, "refresh">> \notin kept =>
        \A m \in Children(slot[s].pair) : slot[s].began < m

\* The platform keeps an active admin, whatever admins do to each other.
SomeActiveAdmin == ActiveAdmins # {}
=============================================================================
