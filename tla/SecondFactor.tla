----------------------------- MODULE SecondFactor -----------------------------
(***************************************************************************)
(* platform/auth, TOTP of one account.  Each handler reads the row, checks *)
(* a code against what it read, and updates the row by id alone.           *)
(***************************************************************************)
EXTENDS Naturals, FiniteSets

CONSTANTS
    Secret,            \* secrets in the order they are generated: 1..n
    TotpCall,          \* requests served at a time
    Skew,              \* steps a code is accepted before and after its own: 1
    MaxStep,           \* bound: time steps
    MaxTotpRequests    \* bound: requests

VARIABLES
    secret, enabled,   \* totp_secret (0: empty) and totp_enabled
    generated,         \* secrets generated
    totp,              \* totp[c]: a request between its read and its update
    typed,             \* codes the person has typed: <<secret, step>>
    step, totpRequests,
    proven,            \* kept for the properties: secrets a code was checked against,
    overtaken          \* secrets switched on or off by a request that read another

factorVars == <<secret, enabled, generated, totp, typed, step, totpRequests, proven, overtaken>>

NoCall == [at |-> "free"]
FactorInit ==
    /\ secret = 0 /\ enabled = FALSE /\ generated = 0
    /\ totp = [c \in TotpCall |-> NoCall]
    /\ typed = {} /\ step = 1 /\ totpRequests = 0 /\ proven = {} /\ overtaken = {}

TotpRequest == totpRequests < MaxTotpRequests /\ totpRequests' = totpRequests + 1
Tick ==
    /\ step < MaxStep /\ step' = step + 1
    /\ UNCHANGED <<secret, enabled, generated, totp, typed, totpRequests, proven, overtaken>>

\* verifyTOTP: the codes of this step and of its neighbours, typed again or not.
VerifyTOTP(k, code) == k # 0 /\ code[1] = k /\ code[2] + Skew >= step /\ code[2] <= step + Skew

\* The app of the person shows a code of a secret that was handed out.
TypeCode(k) ==
    /\ k \in 1..generated /\ typed' = typed \cup {<<k, step>>} /\ typed' # typed
    /\ UNCHANGED <<secret, enabled, generated, totp, step, totpRequests, proven, overtaken>>

\* Mutant: the factor stays on while the secret changes.
AfterSetup_StillOn == enabled
AfterSetup == FALSE

\* handleTOTPSetup: one UPDATE.
Setup ==
    /\ TotpRequest /\ generated + 1 \in Secret
    /\ generated' = generated + 1 /\ secret' = generated' /\ enabled' = AfterSetup
    /\ UNCHANGED <<totp, typed, step, proven, overtaken>>

\* handleTOTPEnable and handleTOTPDisable up to the check of the code..
Check(c, kind, code) ==
    /\ totp[c] = NoCall /\ TotpRequest
    /\ kind = "disable" => enabled
    /\ VerifyTOTP(secret, code)
    /\ totp' = [totp EXCEPT ![c] = [at |-> kind, read |-> secret]]
    /\ proven' = proven \cup {secret}
    /\ UNCHANGED <<secret, enabled, generated, typed, step, overtaken>>

\* ..and the update, or its failure.
Enable(c) ==
    /\ totp[c].at = "enable"
    /\ enabled' = TRUE
    /\ overtaken' = IF secret # totp[c].read THEN overtaken \cup {secret} ELSE overtaken
    /\ totp' = [totp EXCEPT ![c] = NoCall]
    /\ UNCHANGED <<secret, generated, typed, step, totpRequests, proven>>

Disable(c) ==
    /\ totp[c].at = "disable"
    /\ enabled' = FALSE /\ secret' = 0
    /\ overtaken' = IF secret # totp[c].read THEN overtaken \cup {secret} ELSE overtaken
    /\ totp' = [totp EXCEPT ![c] = NoCall]
    /\ UNCHANGED <<generated, typed, step, totpRequests, proven>>

UpdateFails(c) ==
    /\ totp[c] # NoCall
    /\ totp' = [totp EXCEPT ![c] = NoCall]
    /\ UNCHANGED <<secret, enabled, generated, typed, step, totpRequests, proven, overtaken>>

\* handleTOTPReset, by an admin.
ResetTOTP ==
    /\ TotpRequest
    /\ enabled' = FALSE /\ secret' = 0
    /\ UNCHANGED <<generated, totp, typed, step, proven, overtaken>>

FactorNext ==
    \/ Tick \/ Setup \/ ResetTOTP
    \/ \E k \in Secret : TypeCode(k)
    \/ \E c \in TotpCall :
        \/ \E kind \in {"enable", "disable"}, code \in typed : Check(c, kind, code)
        \/ Enable(c) \/ Disable(c) \/ UpdateFails(c)

FactorSpec == FactorInit /\ [][FactorNext]_factorVars

-----------------------------------------------------------------------------
\* Whoever must type a code can: the secret in force is one a code was checked
\* against, unless a setup or a reset came between the check of an enabling
\* request and its update (account.go:164-175), which may leave the account
\* asking for codes of a secret nobody has.
EnabledIsProven == enabled => secret \in proven \cup overtaken
=============================================================================
