--------------------------- MODULE ExternalAccounts ---------------------------
(***************************************************************************)
(* platform/auth: accounts opened by registration, by an admin, or by the  *)
(* first login of an external identity, and the identities bound to them.  *)
(* The login reads the identity, inserts the user, inserts the identity:   *)
(* three statements, no transaction.  Names are unique and stay, so a name *)
(* stands for the user.                                                    *)
(***************************************************************************)
EXTENDS Naturals, FiniteSets

CONSTANTS
    External,          \* external identities
    Name,              \* user names
    NameOf,            \* NameOf[e]: provider_externalId cut to 60 characters
    LoginCall,         \* external logins served at a time
    RegisterMax,       \* registrations per window of an address
    RegisterWindow,
    MaxHour,           \* bound: time
    MaxAccountFaults   \* bound: statements that fail, restarts

ASSUME AccountsAssumption ==
    /\ NameOf \in [External -> Name] /\ "none" \notin Name
    /\ RegisterMax \in Nat /\ RegisterWindow \in Nat \ {0}

VARIABLES
    users,       \* names that exist
    identities,  \* identities[e]: user it is bound to, or "none"
    login,       \* login[c]: a login between two statements
    hits,        \* registrations the limiter remembers: <<hour, number>>
    hour, accountFaults,
    signedIn,    \* kept for the properties: <<e, user>> of logins that got tokens,
    overlapped,  \* identities bound during a login, or whose lookup failed,
    registered   \* registrations let through since the process started

accountVars == <<users, identities, login, hits, hour, accountFaults, signedIn, overlapped, registered>>
limiterVars == <<hits, hour, registered>>
loginVars   == <<users, identities, login, signedIn, overlapped>>

NoLogin == [at |-> "free"]
AccountsInit ==
    /\ users = {} /\ identities = [e \in External |-> "none"]
    /\ login = [c \in LoginCall |-> NoLogin]
    /\ hits = {} /\ hour = RegisterWindow /\ registered = {}
    /\ accountFaults = 0 /\ signedIn = {} /\ overlapped = {}

AccountFault == accountFaults < MaxAccountFaults /\ accountFaults' = accountFaults + 1

-----------------------------------------------------------------------------
\* handleExternalLogin: SELECT; any error counts as "not bound".
LookUp(c, e) ==
    /\ login[c] = NoLogin
    /\ \/ /\ identities[e] # "none"
          /\ signedIn' = signedIn \cup {<<e, identities[e]>>}
          /\ UNCHANGED <<login, overlapped, accountFaults>>
       \/ /\ identities[e] = "none"
          /\ login' = [login EXCEPT ![c] = [at |-> "provision", e |-> e]]
          /\ UNCHANGED <<signedIn, overlapped, accountFaults>>
       \/ /\ AccountFault
          /\ login' = [login EXCEPT ![c] = [at |-> "provision", e |-> e]]
          /\ overlapped' = overlapped \cup {e}
          /\ UNCHANGED signedIn
    /\ UNCHANGED <<users, identities, limiterVars>>

\* Mutant: a taken name is avoided instead of returning its user.
AccountOf_Fresh(e) ==
    IF NameOf[e] \in users /\ Name # users THEN CHOOSE n \in Name \ users : TRUE ELSE NameOf[e]
AccountOf(e) == NameOf[e]

\* provisionExternalUser: INSERT .. ON CONFLICT (username) returns the row
\* there is..
Provision(c) ==
    /\ login[c].at = "provision"
    /\ LET u == AccountOf(login[c].e)
       IN  /\ users' = users \cup {u}
           /\ login' = [login EXCEPT ![c] = [at |-> "bind", e |-> login[c].e, user |-> u]]
    /\ UNCHANGED <<identities, signedIn, overlapped, accountFaults, limiterVars>>

\* ..INSERT .. ON CONFLICT DO NOTHING, and tokens for the user it inserted.
BindFirst(c) ==
    /\ login[c].at = "bind"
    /\ LET e == login[c].e
       IN  /\ identities' = [identities EXCEPT ![e] = IF @ = "none" THEN login[c].user ELSE @]
           /\ signedIn' = signedIn \cup {<<e, login[c].user>>}
    /\ login' = [login EXCEPT ![c] = NoLogin]
    /\ UNCHANGED <<users, overlapped, accountFaults, limiterVars>>

\* A statement fails, or the process restarts: the user may stay without the
\* identity, and a restart forgets the registrations.
LoginFails(c) ==
    /\ login[c] # NoLogin /\ AccountFault
    /\ login' = [login EXCEPT ![c] = NoLogin]
    /\ UNCHANGED <<users, identities, signedIn, overlapped, limiterVars>>

Restart ==
    /\ AccountFault
    /\ login' = [c \in LoginCall |-> NoLogin] /\ hits' = {} /\ registered' = {}
    /\ UNCHANGED <<users, identities, signedIn, overlapped, hour>>

\* handleBindExternal: a plain INSERT, refused when the identity is bound.
BindExternal(u, e) ==
    /\ u \in users /\ identities[e] = "none"
    /\ identities' = [identities EXCEPT ![e] = u]
    /\ overlapped' = IF \E c \in LoginCall : login[c] # NoLogin /\ login[c].e = e THEN overlapped \cup {e} ELSE overlapped
    /\ UNCHANGED <<users, login, signedIn, accountFaults, limiterVars>>

-----------------------------------------------------------------------------
Remembered == { h \in hits : h[1] > hour - RegisterWindow }

\* Mutant: a full window lets one more through.
Allow_OneMore == Cardinality(Remembered) <= RegisterMax
\* registerLimiter.allow.
Allow == Cardinality(Remembered) < RegisterMax

\* handleRegister from one address: counted before the INSERT, which may find
\* the name taken.
Register(n) ==
    /\ hits' = IF Allow THEN Remembered \cup {<<hour, Cardinality(Remembered)>>} ELSE Remembered
    /\ users' = IF Allow THEN users \cup {n} ELSE users
    /\ registered' = IF Allow THEN registered \cup {<<hour, Cardinality({ r \in registered : r[1] = hour })>>} ELSE registered
    /\ UNCHANGED <<identities, login, signedIn, overlapped, hour, accountFaults>>

\* handleUsersCreate.
CreateUser(n) ==
    /\ n \notin users
    /\ users' = users \cup {n}
    /\ UNCHANGED <<identities, login, signedIn, overlapped, accountFaults, limiterVars>>

HourPasses ==
    /\ hour < MaxHour /\ hour' = hour + 1
    /\ UNCHANGED <<loginVars, hits, registered, accountFaults>>

AccountsNext ==
    \/ \E c \in LoginCall : (\E e \in External : LookUp(c, e)) \/ Provision(c) \/ BindFirst(c) \/ LoginFails(c)
    \/ \E n \in Name : Register(n) \/ CreateUser(n) \/ \E e \in External : BindExternal(n, e)
    \/ Restart \/ HourPasses

-----------------------------------------------------------------------------
\* An external identity signs in one user for ever, the one it is bound to: two
\* first logins at a time, and a first login after one that died between its
\* statements, end at the same account.  Only a binding that comes between the
\* statements of a login, and a lookup that fails (external.go:68), let a login
\* get tokens of another user.
SameAccount ==
    \A s \in signedIn : s[1] \notin overlapped => identities[s[1]] = s[2]

\* In no window does one process let more than RegisterMax through.
RegistrationsLimited ==
    \A h \in 1..hour :
        Cardinality({ r \in registered : r[1] <= h /\ r[1] > h - RegisterWindow }) <= RegisterMax

AccountsHold == SameAccount /\ RegistrationsLimited
=============================================================================
