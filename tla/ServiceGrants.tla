----------------------------- MODULE ServiceGrants -----------------------------
(***************************************************************************)
(* svc-grants: roles of services given to users.  A row is unique by its   *)
(* service, role and user, not by its tenant; tenant 0 sees and revokes    *)
(* everything.                                                             *)
(***************************************************************************)
EXTENDS Naturals, FiniteSets

CONSTANTS Target,   \* <<service, role, user>>
          Tenant    \* tenants of admins, 0 among them

VARIABLES
    grants,     \* grants[x]: {tenant of the row}, or {}
    told,       \* kept for the properties: <<x, t>> a PUT of tenant t answered
                \* with ok, and nobody who may revoked it since,
    elsewhere   \* and the row it found was of another tenant

grantVars == <<grants, told, elsewhere>>

GrantsInit == grants = [x \in Target |-> {}] /\ told = {} /\ elsewhere = {}

\* handleUsers, for an admin or a service token of tenant t.
Sees(t, x) == \E r \in grants[x] : t \in {0, r}

\* Mutant: any admin revokes any row.
MayRevoke_All(t, x) == grants[x] # {}
\* handleRevoke's DELETE finds the row.
MayRevoke(t, x) == \E r \in grants[x] : t \in {0, r}

\* handleGrant: ON CONFLICT DO NOTHING, answered with ok.
Grant(t, x) ==
    /\ grants' = [grants EXCEPT ![x] = IF @ = {} THEN {t} ELSE @]
    /\ told' = told \cup {<<x, t>>}
    /\ elsewhere' = IF grants[x] \notin {{}, {t}} THEN elsewhere \cup {<<x, t>>} ELSE elsewhere

Revoke(t, x) ==
    /\ MayRevoke(t, x)
    /\ grants' = [grants EXCEPT ![x] = {}]
    /\ told' = { p \in told : ~(p[1] = x /\ (t = 0 \/ p[2] = t)) }
    /\ elsewhere' = { p \in elsewhere : ~(p[1] = x /\ (t = 0 \/ p[2] = t)) }

GrantsNext == \E t \in Tenant, x \in Target : Grant(t, x) \/ Revoke(t, x)

-----------------------------------------------------------------------------
\* A role an admin was told is granted is one his tenant sees until he or the
\* platform revokes it, unless the row was another tenant's already, which the
\* PUT does not say (main.go:184-190).
GrantsHold == \A p \in told \ elsewhere : Sees(p[2], p[1])
=============================================================================
