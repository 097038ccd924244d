--------------------------- MODULE MCAuthSessions ---------------------------
(* Small instances of AuthSessions for TLC.  The scopes share one run: two   *)
(* admins who act on each other, one user in and out of a tenant, or an      *)
(* admin and a user while statements and SETs of Redis fail.                 *)
EXTENDS AuthSessions

CONSTANTS u1, u2, t1, s1, s2
VARIABLE scope

TwoUsers  == {u1, u2}
OneTenant == {t1}
OneSlot   == {s1}
TwoSlots  == {s1, s2}
NoTenants == {}

\* Between admins: no tenants, no passwords.
AmongAdmins ==
    /\ password' = password /\ closed' = {}
    /\ \A u \in User : tenant'[u] = NoTenant
    /\ \A s \in Slot : slot'[s].op \in {"count", "write", "move"} => slot'[s].tenant \notin Tenant

\* Around a tenant: u2 is not there, but for the row.
AroundTenant ==
    /\ \A n \in Pair : pair'[n].issued => pair'[n].user # u2
    /\ \A s \in Slot : slot'[s].op \in {"login", "count", "write", "move"} => slot'[s].user # u2
    /\ password'[u2] = 0

\* Failures: u1 demotes, disables or moves u2 or closes the tenant of u2, while
\* somebody signs in or refreshes; nobody logs out or changes a password.
AmidFailures ==
    /\ password' = password /\ \A n \in Pair : <<n, "access">> \notin revoked'
    /\ tenant'[u1] = NoTenant
    /\ \A s \in Slot : slot'[s].op \in {"count", "write", "move"} =>
          /\ slot'[s].user = u2 /\ slot'[s].tenant \notin Tenant
          /\ slot'[s].role # "admin" /\ slot'[s].status # 1
    /\ slot'[s1].op \notin {"login", "refresh"} /\ slot'[s2].op \in {"idle", "login", "refresh", "rotate"}

ScopedInit ==
    /\ scope \in {"admins", "tenant", "failures"} /\ Init
    /\ scope = "admins" => tenant[u1] = NoTenant
    /\ scope = "failures" => tenant[u1] = NoTenant
    /\ scope # "failures" => tenant[u2] = NoTenant
ScopedNext ==
    /\ Next /\ UNCHANGED scope
    /\ scope # "failures" => faults' = 0
    /\ CASE scope = "admins"   -> AmongAdmins
         [] scope = "tenant"   -> AroundTenant
         [] scope = "failures" -> AmidFailures
ScopedSpec == ScopedInit /\ [][ScopedNext]_<<vars, scope>>
=============================================================================
