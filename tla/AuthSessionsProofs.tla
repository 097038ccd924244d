------------------------- MODULE AuthSessionsProofs -------------------------
(***************************************************************************)
(* AuthSessions for any number of users, tenants, requests in progress and *)
(* token pairs.  Two of the promises need no restriction on the requests;  *)
(* the other two hold while no PATCH of a user overlaps another, which is  *)
(* a hypothesis of their theorems: handleUsersUpdate writes back what it   *)
(* has read, and the run AuthSessions_last_admin shows what comes of two.  *)
(***************************************************************************)
EXTENDS AuthSessions, FiniteSetTheorems, TLAPS

Row == [role : Roles, status : {0, 1}, password : Nat, tenant : Tenants]

PairRecord == [issued : {TRUE}, user : User, role : Roles, tenant : Tenants, password : Nat,
               parent : Nat, straddled : BOOLEAN, open : BOOLEAN]

\* What a handler holds between two statements.
LoginRequest   == [op : {"login"}, user : User, row : Row]
RefreshRequest == [op : {"refresh"}, pair : Pair, began : Nat]
RotateRequest  == [op : {"rotate"}, pair : Pair, began : Nat, row : Row]
ChangeRequest  == [op : {"change"}, pair : Pair]
PatchRequest   == [op : {"count", "write", "move"}, user : User, row : Row, role : Roles \cup {Keep},
                   status : {0, 1, Keep}, tenant : Tenants \cup {Keep}]
KillRequest    == [op : {"kill"}, users : SUBSET User, times : {1, 2}]
MembersRequest == [op : {"members"}, tenant : Tenant]

Request == {Idle} \cup LoginRequest \cup RefreshRequest \cup RotateRequest \cup ChangeRequest
           \cup PatchRequest \cup KillRequest \cup MembersRequest

RowTypes ==
    /\ role \in [User -> Roles]
    /\ status \in [User -> {0, 1}]
    /\ password \in [User -> Nat]
    /\ tenant \in [User -> Tenants]
    /\ closed \subseteq Tenant
    /\ reset \in [User -> Nat]

TokenTypes ==
    /\ pair \in [Pair -> {NoPair} \cup PairRecord]
    /\ revoked \subseteq Pair \X Kinds
    /\ killed \subseteq Pair
    /\ spared \subseteq Pair
    /\ kept \subseteq Pair \X Kinds
    /\ faults \in Nat

\* A request about a pair is about an issued one, and only a PATCH of an existing
\* tenant moves a user.
SlotTypes ==
    /\ slot \in [Slot -> Request]
    /\ \A s \in Slot : slot[s].op \in {"refresh", "rotate", "change"} => slot[s].pair \in Issued
    /\ \A s \in Slot : slot[s].op = "move" => slot[s].tenant # Keep

SessionTypes == RowTypes /\ TokenTypes /\ SlotTypes

\* Pairs are issued in order, and a redeemed refresh token is revoked, or Redis
\* has failed to store that.
PairsInOrder == \A n \in Issued, m \in Pair : m < n => m \in Issued
RedeemedIsSpent == \A m \in Issued : pair[m].parent # 0 => <<pair[m].parent, "refresh">> \in revoked \cup kept

\* No pair that is still to come is older than a refresh in progress.
RefreshesBegan ==
    \A s \in Slot : slot[s].op \in {"refresh", "rotate"} =>
        \A m \in Pair \ Issued : slot[s].began < m

RotationInv == SessionTypes /\ PairsInOrder /\ RedeemedIsSpent /\ RefreshesBegan /\ RedemptionsOverlap

\* A pair is issued from a row that was active when it was read.
ReadsActive == \A s \in Slot : slot[s].op \in {"login", "rotate"} => slot[s].row.status = 1

ResetsPast == \A u \in User : reset[u] <= password[u]

\* No PATCH of a user overlaps another of the same user, up to its UPDATE.
Patching(s) == slot[s].op \in {"count", "write"}
OnePatchPerUser ==
    \A s, z \in Slot : Patching(s) /\ Patching(z) /\ slot[s].user = slot[z].user => s = z

\* No PATCH of a user overlaps another, up to its UPDATE.
OnePatch == \A s, z \in Slot : Patching(s) /\ Patching(z) => s = z

\* So what a PATCH has read is what it overwrites.
RowAsRead ==
    \A s \in Slot : Patching(s) =>
        /\ slot[s].row.role = role[slot[s].user]
        /\ slot[s].row.status = status[slot[s].user]

SurvivorInv == SessionTypes /\ RowAsRead /\ ReadsActive /\ ResetsPast
               /\ SurvivorsStraddled /\ ClosingEndsSessions

\* A PATCH past its count that takes the rights of an admin leaves another one.
TakesRights(req) == Asked(req.role, req.row.role) # "admin" \/ Asked(req.status, req.row.status) # 1
OtherAdminLeft ==
    \A s \in Slot : slot[s].op = "write" /\ TakesRights(slot[s])
        => \E v \in ActiveAdmins : v # slot[s].user

AdminInv == SessionTypes /\ RowAsRead /\ OtherAdminLeft /\ SomeActiveAdmin

-----------------------------------------------------------------------------
(***************************************************************************)
(* The shapes of requests and pairs.                                       *)
(***************************************************************************)

\* The step a request is at says what it holds.
LEMMA RequestShapes ==
  ASSUME NEW r \in Request
  PROVE  /\ r.op = "login" => r \in LoginRequest
         /\ r.op = "refresh" => r \in RefreshRequest
         /\ r.op = "rotate" => r \in RotateRequest
         /\ r.op = "change" => r \in ChangeRequest
         /\ r.op \in {"count", "write", "move"} => r \in PatchRequest
         /\ r.op = "kill" => r \in KillRequest
         /\ r.op = "members" => r \in MembersRequest
BY DEF Request, Idle, LoginRequest, RefreshRequest, RotateRequest, ChangeRequest, PatchRequest,
   KillRequest, MembersRequest

\* Every kind of request is a request.
LEMMA RequestKinds ==
  /\ Idle \in Request /\ LoginRequest \subseteq Request /\ RefreshRequest \subseteq Request
  /\ RotateRequest \subseteq Request /\ ChangeRequest \subseteq Request
  /\ PatchRequest \subseteq Request /\ KillRequest \subseteq Request
  /\ MembersRequest \subseteq Request
BY DEF Request

\* The row a handler reads has its type.
LEMMA SnapshotType == ASSUME RowTypes, NEW u \in User PROVE Snapshot(u) \in Row
BY DEF RowTypes, Snapshot, Row

\* A pair that was issued has the record of one.
LEMMA IssuedShape ==
  ASSUME TokenTypes, NEW n \in Issued
  PROVE  n \in Pair /\ pair[n] \in PairRecord
<1>1. n \in Pair /\ pair[n].issued /\ pair[n] \in {NoPair} \cup PairRecord
  BY DEF TokenTypes, Issued
<1>2. pair[n] # NoPair
  BY <1>1 DEF NoPair
<1> QED
  BY <1>1, <1>2

\* Issuing fills the least free pair and touches no other.
LEMMA IssueStep ==
  ASSUME TokenTypes, NEW u \in User, NEW row \in Row, NEW parent \in Nat, Issue(u, row, parent)
  PROVE  \E n \in Pair \ Issued :
            /\ \A m \in Pair \ Issued : n <= m
            /\ Issued' = Issued \cup {n}
            /\ pair' \in [Pair -> {NoPair} \cup PairRecord]
            /\ \A m \in Pair : m # n => pair'[m] = pair[m]
            /\ pair'[n].user = u /\ pair'[n].role = row.role /\ pair'[n].tenant = row.tenant
            /\ pair'[n].password = row.password /\ pair'[n].parent = parent
            /\ pair'[n].straddled <=> row # Snapshot(u)
            /\ pair'[n].open <=> row.tenant \notin closed
<1> DEFINE late == row # Snapshot(u)
           good == row.tenant \notin closed
           p == [issued |-> TRUE, user |-> u, role |-> row.role, tenant |-> row.tenant,
                 password |-> row.password, parent |-> parent, straddled |-> late, open |-> good]
<1>1. PICK n \in Pair \ Issued :
        (\A m \in Pair \ Issued : n <= m) /\ pair' = [pair EXCEPT ![n] = p]
  BY DEF Issue
<1>2. late \in BOOLEAN /\ good \in BOOLEAN
  OBVIOUS
<1> HIDE DEF late, good
<1>3. p \in PairRecord /\ p.issued = TRUE /\ p.straddled = late /\ p.open = good
  BY <1>2 DEF PairRecord, Row
<1>4. /\ p.user = u /\ p.role = row.role /\ p.tenant = row.tenant
      /\ p.password = row.password /\ p.parent = parent
  OBVIOUS
<1> HIDE DEF p
<1>5. pair' \in [Pair -> {NoPair} \cup PairRecord] /\ pair'[n] = p
      /\ \A m \in Pair : m # n => pair'[m] = pair[m]
  BY <1>1, <1>3 DEF TokenTypes
<1>6. Issued' = Issued \cup {n}
  BY <1>1, <1>3, <1>5 DEF Issued
<1>7. (pair'[n].straddled <=> late) /\ (pair'[n].open <=> good)
  BY <1>3, <1>5, Zenon
<1> QED
  BY <1>1, <1>4, <1>5, <1>6, <1>7 DEF late, good

\* Pairs are counted.
LEMMA IssuedCount == Cardinality(Issued) \in Nat
<1>1. IsFiniteSet(Pair)
  BY SessionAssumption, FS_Interval DEF Pair
<1>2. Issued \subseteq Pair
  BY DEF Issued
<1> QED
  BY <1>1, <1>2, FS_Subset, FS_CardinalityType

\* A revocation takes place for all the tokens but those that Redis lost.
LEMMA RevokeStep ==
  ASSUME TokenTypes, NEW tokens \in SUBSET (Pair \X Kinds), Revoke(tokens)
  PROVE  /\ revoked' \in SUBSET (Pair \X Kinds) /\ kept' \in SUBSET (Pair \X Kinds) /\ faults' \in Nat
         /\ revoked \subseteq revoked' /\ kept \subseteq kept' /\ tokens \subseteq revoked' \cup kept'
BY DEF TokenTypes, Revoke, FaultIf

\* A step that changes one request to another of a known shape, about an issued pair.
LEMMA SlotStep ==
  ASSUME SlotTypes, NEW s \in Slot, NEW r \in Request, slot' = [slot EXCEPT ![s] = r],
         Issued \subseteq Issued',
         r.op \in {"refresh", "rotate", "change"} => r.pair \in Issued',
         r.op = "move" => r.tenant # Keep
  PROVE  SlotTypes'
<1>1. slot' \in [Slot -> Request] /\ slot'[s] = r /\ \A z \in Slot : z # s => slot'[z] = slot[z]
  BY DEF SlotTypes
<1> QED
  BY <1>1 DEF SlotTypes

\* What a request at each step holds.
LEMMA SlotShapes ==
  ASSUME SlotTypes, NEW s \in Slot
  PROVE  /\ slot[s].op = "login" => slot[s].user \in User /\ slot[s].row \in Row
         /\ slot[s].op = "refresh" => slot[s].pair \in Issued /\ slot[s].began \in Nat
         /\ slot[s].op = "rotate" => slot[s].pair \in Issued /\ slot[s].began \in Nat /\ slot[s].row \in Row
         /\ slot[s].op = "change" => slot[s].pair \in Issued
         /\ slot[s].op \in {"count", "write", "move"} =>
              slot[s] \in PatchRequest /\ slot[s].user \in User /\ slot[s].row \in Row
         /\ slot[s].op = "move" => slot[s].tenant \in Tenants
         /\ slot[s].op = "kill" => slot[s] \in KillRequest /\ slot[s].users \subseteq User
         /\ slot[s].op = "members" => slot[s].tenant \in Tenant
<1>1. slot[s] \in Request
  BY DEF SlotTypes
<1>2. slot[s].op = "login" => slot[s].user \in User /\ slot[s].row \in Row
  BY <1>1, RequestShapes DEF LoginRequest
<1>3. slot[s].op = "refresh" => slot[s].began \in Nat
  BY <1>1, RequestShapes DEF RefreshRequest
<1>4. slot[s].op = "rotate" => slot[s].began \in Nat /\ slot[s].row \in Row
  BY <1>1, RequestShapes DEF RotateRequest
<1>5. slot[s].op \in {"count", "write", "move"} =>
        /\ slot[s] \in PatchRequest /\ slot[s].user \in User /\ slot[s].row \in Row
        /\ slot[s].tenant \in Tenants \cup {Keep}
  BY <1>1, RequestShapes DEF PatchRequest
<1>6. slot[s].op = "kill" => slot[s] \in KillRequest /\ slot[s].users \subseteq User
  BY <1>1, RequestShapes DEF KillRequest
<1>7. slot[s].op = "members" => slot[s].tenant \in Tenant
  BY <1>1, RequestShapes DEF MembersRequest
<1> QED
  BY <1>2, <1>3, <1>4, <1>5, <1>6, <1>7 DEF SlotTypes

-----------------------------------------------------------------------------
(***************************************************************************)
(* Types.                                                                  *)
(***************************************************************************)

\* The rows of a new platform have their types.
LEMMA SessionsStart == Init => SessionTypes
<1> SUFFICES ASSUME Init PROVE SessionTypes
  OBVIOUS
<1>1. RowTypes
  BY SessionAssumption DEF Init, RowTypes, Roles
<1>2. TokenTypes
  BY DEF Init, TokenTypes
<1>3. SlotTypes
  BY RequestKinds DEF Init, SlotTypes, Idle
<1> QED
  BY <1>1, <1>2, <1>3 DEF SessionTypes

\* A login or a refresh that answers with a new pair.
LEMMA IssueTypes ==
  ASSUME SessionTypes, NEW s \in Slot, NEW u \in User, NEW row \in Row, NEW parent \in Nat,
         Issue(u, row, parent), Finish(s), UNCHANGED <<rowVars, killed, spared, reset>>,
         revoked' \subseteq Pair \X Kinds, kept' \subseteq Pair \X Kinds, faults' \in Nat
  PROVE  SessionTypes'
<1> USE DEF SessionTypes
<1>1. pair' \in [Pair -> {NoPair} \cup PairRecord] /\ Issued \subseteq Issued'
  BY IssueStep
<1>2. RowTypes' /\ TokenTypes'
  BY <1>1 DEF RowTypes, TokenTypes, rowVars
<1>3. SlotTypes'
  BY <1>1, SlotStep, RequestKinds DEF Finish, Idle
<1> QED
  BY <1>2, <1>3

\* The requests that only read: the row, the token or the count.
LEMMA ReadTypes ==
  ASSUME SessionTypes, NEW s \in Slot,
         \/ \E u \in User : LoginRead(s, u)
         \/ \E n \in Pair : RefreshParse(s, n) \/ ChangeRead(s, n)
         \/ RefreshLoad(s) \/ UpdateCount(s) \/ TenantMembers(s)
         \/ \E n \in Pair, u \in User, r \in Roles \cup {Keep}, t \in {0, 1, Keep},
              m \in Tenants \cup {Keep} : UpdateRead(s, n, u, r, t, m)
  PROVE  SessionTypes'
<1> USE DEF SessionTypes
<1>1. UNCHANGED <<rowVars, tokenVars, reset>>
  BY DEF LoginRead, RefreshParse, ChangeRead, RefreshLoad, UpdateCount, TenantMembers, UpdateRead
<1>2. RowTypes' /\ TokenTypes' /\ Issued' = Issued
  BY <1>1 DEF RowTypes, TokenTypes, rowVars, tokenVars, faultVars, Issued
<1>3. ASSUME NEW u \in User, LoginRead(s, u) PROVE SlotTypes'
  <2>1. [op |-> "login", user |-> u, row |-> Snapshot(u)] \in Request
    BY SnapshotType, RequestKinds DEF LoginRequest
  <2> QED
    BY <1>2, <1>3, <2>1, SlotStep DEF LoginRead
<1>4. ASSUME NEW n \in Pair, RefreshParse(s, n) PROVE SlotTypes'
  <2>1. [op |-> "refresh", pair |-> n, began |-> Cardinality(Issued)] \in Request
    BY IssuedCount, RequestKinds DEF RefreshRequest
  <2>2. n \in Issued
    BY <1>4 DEF RefreshParse, Accepted
  <2> QED
    BY <1>2, <1>4, <2>1, <2>2, SlotStep DEF RefreshParse
<1>5. ASSUME NEW n \in Pair, ChangeRead(s, n) PROVE SlotTypes'
  <2>1. [op |-> "change", pair |-> n] \in Request
    BY RequestKinds DEF ChangeRequest
  <2>2. n \in Issued
    BY <1>5 DEF ChangeRead, Accepted
  <2> QED
    BY <1>2, <1>5, <2>1, <2>2, SlotStep DEF ChangeRead
<1>6. ASSUME RefreshLoad(s) PROVE SlotTypes'
  <2> DEFINE n == slot[s].pair
             u == pair[n].user
  <2>1. n \in Issued /\ slot[s].began \in Nat /\ n \in Pair
    BY <1>6, SlotShapes DEF RefreshLoad, Issued
  <2>2. u \in User
    BY <2>1, IssuedShape DEF PairRecord
  <2>3. Snapshot(u) \in Row
    BY <2>2, SnapshotType
  <2> HIDE DEF n, u
  <2>4. [op |-> "rotate", pair |-> n, began |-> slot[s].began, row |-> Snapshot(u)] \in Request
    BY <2>1, <2>3, RequestKinds DEF RotateRequest
  <2>5. \/ slot' = [slot EXCEPT ![s] = Idle]
        \/ slot' = [slot EXCEPT ![s] = [op |-> "rotate", pair |-> n, began |-> slot[s].began,
                                        row |-> Snapshot(u)]]
    BY <1>6 DEF RefreshLoad, n, u
  <2> QED
    BY <1>2, <2>1, <2>4, <2>5, SlotStep, RequestKinds DEF Idle
<1>7. ASSUME UpdateCount(s) PROVE SlotTypes'
  <2>1. [slot[s] EXCEPT !.op = "write"] \in PatchRequest
    BY <1>7, SlotShapes DEF UpdateCount, PatchRequest
  <2>2. [slot[s] EXCEPT !.op = "write"].op = "write"
    BY <1>7, SlotShapes DEF UpdateCount, PatchRequest
  <2>3. \/ slot' = [slot EXCEPT ![s] = Idle]
        \/ slot' = [slot EXCEPT ![s] = [slot[s] EXCEPT !.op = "write"]]
    BY <1>7 DEF UpdateCount
  <2> QED
    BY <1>2, <2>1, <2>2, <2>3, SlotStep, RequestKinds DEF Idle
<1>8. ASSUME TenantMembers(s) PROVE SlotTypes'
  <2>1. PICK us \in SUBSET User :
          slot' = [slot EXCEPT ![s] = Idle] \/ slot' = [slot EXCEPT ![s] = PendingKill(us, 1)]
    BY <1>8 DEF TenantMembers
  <2>2. PendingKill(us, 1) \in Request /\ PendingKill(us, 1).op = "kill"
    BY <2>1, RequestKinds DEF PendingKill, KillRequest
  <2> QED
    BY <1>2, <2>1, <2>2, SlotStep, RequestKinds DEF Idle
<1>9. ASSUME NEW n \in Pair, NEW u \in User, NEW r \in Roles \cup {Keep}, NEW t \in {0, 1, Keep},
             NEW m \in Tenants \cup {Keep}, UpdateRead(s, n, u, r, t, m)
      PROVE  SlotTypes'
  <2>1. PICK next \in {"count", "write"} :
          slot' = [slot EXCEPT ![s] = [op |-> next, user |-> u, row |-> Snapshot(u),
                                       role |-> r, status |-> t, tenant |-> m]]
    BY <1>9 DEF UpdateRead
  <2>2. [op |-> next, user |-> u, row |-> Snapshot(u), role |-> r, status |-> t, tenant |-> m] \in Request
    BY <2>1, SnapshotType, RequestKinds DEF PatchRequest
  <2> QED
    BY <1>2, <2>1, <2>2, SlotStep
<1> QED
  BY <1>2, <1>3, <1>4, <1>5, <1>6, <1>7, <1>8, <1>9

\* The requests that write a row and come to an end or to the next statement.
LEMMA WriteTypes ==
  ASSUME SessionTypes, NEW s \in Slot,
         \/ \E u \in User : ResetWrite(s, u)
         \/ ChangeWrite(s) \/ UpdateWrite(s) \/ UpdateTenant(s) \/ Kill(s) \/ Fail(s)
         \/ \E n \in Pair, t \in Tenant : TenantWrite(s, n, t)
  PROVE  SessionTypes'
<1> USE DEF SessionTypes
<1>1. pair' = pair /\ Issued' = Issued
  BY DEF ResetWrite, ChangeWrite, UpdateWrite, UpdateTenant, Kill, Fail, TenantWrite, tokenVars, Issued
<1>2. ASSUME NEW u \in User, ResetWrite(s, u) PROVE SessionTypes'
  <2>1. PendingKill({u}, 1) \in Request /\ PendingKill({u}, 1).op = "kill"
    BY RequestKinds DEF PendingKill, KillRequest
  <2>2. SlotTypes'
    BY <1>1, <1>2, <2>1, SlotStep DEF ResetWrite
  <2>3. RowTypes' /\ TokenTypes'
    BY <1>2 DEF ResetWrite, RowTypes, TokenTypes, tokenVars, faultVars
  <2> QED
    BY <2>2, <2>3
<1>3. ASSUME ChangeWrite(s) PROVE SessionTypes'
  <2>1. slot[s].pair \in Issued /\ slot[s].pair \in Pair
    BY <1>3, SlotShapes DEF ChangeWrite, Issued
  <2>2. pair[slot[s].pair].user \in User
    BY <2>1, IssuedShape DEF PairRecord
  <2>3. RowTypes' /\ TokenTypes'
    <3>1. {<<slot[s].pair, "access">>} \in SUBSET (Pair \X Kinds)
      BY <2>1 DEF Kinds
    <3>2. revoked' \in SUBSET (Pair \X Kinds) /\ kept' \in SUBSET (Pair \X Kinds) /\ faults' \in Nat
      BY <1>3, <3>1, RevokeStep DEF ChangeWrite
    <3> QED
      BY <1>3, <2>2, <3>2 DEF ChangeWrite, RowTypes, TokenTypes
  <2>4. SlotTypes'
    BY <1>1, <1>3, SlotStep, RequestKinds DEF ChangeWrite, Finish, Idle
  <2> QED
    BY <2>3, <2>4
<1>4. ASSUME UpdateWrite(s) PROVE SessionTypes'
  <2>1. slot[s] \in PatchRequest /\ slot[s].op = "write"
    BY <1>4, SlotShapes DEF UpdateWrite
  <2>2. /\ slot[s].user \in User
        /\ Asked(slot[s].role, slot[s].row.role) \in Roles
        /\ Asked(slot[s].status, slot[s].row.status) \in {0, 1}
    BY <2>1 DEF PatchRequest, Row, Asked
  <2>3. RowTypes' /\ TokenTypes'
    BY <1>4, <2>2 DEF UpdateWrite, RowTypes, TokenTypes, tokenVars, faultVars
  <2>4. [slot[s] EXCEPT !.op = "move"] \in PatchRequest /\ [slot[s] EXCEPT !.op = "move"].op = "move"
        /\ [slot[s] EXCEPT !.op = "move"].tenant = slot[s].tenant
    BY <2>1 DEF PatchRequest
  <2>5. PendingKill({slot[s].user}, 1) \in Request /\ PendingKill({slot[s].user}, 1).op = "kill"
    BY <2>2, RequestKinds DEF PendingKill, KillRequest
  <2>6. \/ slot' = [slot EXCEPT ![s] = Idle]
        \/ slot' = [slot EXCEPT ![s] = PendingKill({slot[s].user}, 1)]
        \/ slot' = [slot EXCEPT ![s] = [slot[s] EXCEPT !.op = "move"]] /\ slot[s].tenant # Keep
    BY <1>4 DEF UpdateWrite
  <2>7. SlotTypes'
    BY <1>1, <2>4, <2>5, <2>6, SlotStep, RequestKinds DEF Idle
  <2> QED
    BY <2>3, <2>7
<1>5. ASSUME UpdateTenant(s) PROVE SessionTypes'
  <2>1. slot[s].user \in User /\ slot[s].tenant \in Tenants
    BY <1>5, SlotShapes DEF UpdateTenant
  <2>2. RowTypes' /\ TokenTypes'
    BY <1>5, <2>1 DEF UpdateTenant, RowTypes, TokenTypes, tokenVars, faultVars
  <2>3. PICK times \in {1, 2} : slot' = [slot EXCEPT ![s] = PendingKill({slot[s].user}, times)]
    BY <1>5 DEF UpdateTenant
  <2>4. PendingKill({slot[s].user}, times) \in Request /\ PendingKill({slot[s].user}, times).op = "kill"
    BY <2>1, RequestKinds DEF PendingKill, KillRequest
  <2>5. SlotTypes'
    BY <1>1, <2>3, <2>4, SlotStep
  <2> QED
    BY <2>2, <2>5
<1>6. ASSUME Kill(s) PROVE SessionTypes'
  <2>1. slot[s] \in KillRequest
    BY <1>6, SlotShapes DEF Kill
  <2>2. RowTypes' /\ TokenTypes'
    BY <1>6 DEF Kill, FaultIf, RowTypes, TokenTypes, rowVars, PairsOfAll, PairsOf, Issued
  <2>3. [slot[s] EXCEPT !.times = 1] \in KillRequest /\ [slot[s] EXCEPT !.times = 1].op = "kill"
    BY <2>1 DEF KillRequest
  <2>4. \/ slot' = [slot EXCEPT ![s] = Idle]
        \/ slot' = [slot EXCEPT ![s] = [slot[s] EXCEPT !.times = 1]]
    BY <1>6 DEF Kill
  <2>5. SlotTypes'
    BY <1>1, <2>3, <2>4, SlotStep, RequestKinds DEF Idle
  <2> QED
    BY <2>2, <2>5
<1>7. ASSUME NEW n \in Pair, NEW t \in Tenant, TenantWrite(s, n, t) PROVE SessionTypes'
  <2>1. RowTypes' /\ TokenTypes'
    BY <1>7 DEF TenantWrite, RowTypes, TokenTypes, tokenVars, faultVars
  <2>2. [op |-> "members", tenant |-> t] \in Request
    BY RequestKinds DEF MembersRequest
  <2>3. slot' = slot \/ slot' = [slot EXCEPT ![s] = [op |-> "members", tenant |-> t]]
    BY <1>7 DEF TenantWrite
  <2>4. SlotTypes'
    BY <1>1, <2>2, <2>3, SlotStep DEF SlotTypes
  <2> QED
    BY <2>1, <2>4
<1>8. ASSUME Fail(s) PROVE SessionTypes'
  <2>1. RowTypes' /\ TokenTypes'
    BY <1>8 DEF Fail, FaultIf, RowTypes, TokenTypes, rowVars, PairsOfAll, PairsOf, Issued
  <2>2. SlotTypes'
    BY <1>1, <1>8, SlotStep, RequestKinds DEF Fail, Finish, Idle
  <2> QED
    BY <2>1, <2>2
<1> QED
  BY <1>2, <1>3, <1>4, <1>5, <1>6, <1>7, <1>8

\* The requests that issue a pair issue it to a user, from a row as it was read.
LEMMA LoginIssueShape ==
  ASSUME SessionTypes, NEW s \in Slot, LoginIssue(s)
  PROVE  \E u \in User, row \in Row :
            /\ slot[s].op = "login" /\ u = slot[s].user /\ row = slot[s].row
            /\ Issue(u, row, 0) /\ Finish(s) /\ UNCHANGED <<rowVars, revoked, killed, faultVars, reset>>
BY SlotShapes DEF SessionTypes, LoginIssue

\* What a rotation writes, and where it leaves its request.
LEMMA RotateShape ==
  ASSUME SessionTypes, NEW s \in Slot, RefreshRotate(s)
  PROVE  \E n \in Issued, u \in User, row \in Row :
            /\ slot[s].op = "rotate" /\ n = slot[s].pair /\ u = pair[n].user /\ row = slot[s].row
            /\ Revoke({<<n, "refresh">>})
            /\ Issue(u, row, n) /\ Finish(s) /\ UNCHANGED <<rowVars, killed, spared, reset>>
<1> DEFINE n == slot[s].pair
<1>1. n \in Issued /\ slot[s].row \in Row
  BY SlotShapes DEF SessionTypes, RefreshRotate
<1>2. pair[n].user \in User
  BY <1>1, IssuedShape DEF SessionTypes, PairRecord
<1> QED
  BY <1>1, <1>2 DEF RefreshRotate

\* Every action keeps the types.
LEMMA SessionTypesStep == SessionTypes /\ [Next]_vars => SessionTypes'
<1> SUFFICES ASSUME SessionTypes, [Next]_vars PROVE SessionTypes'
  OBVIOUS
<1>1. ASSUME NEW s \in Slot, LoginIssue(s) PROVE SessionTypes'
  <2>1. revoked' \subseteq Pair \X Kinds /\ kept' \subseteq Pair \X Kinds /\ faults' \in Nat /\ spared' = spared
    BY <1>1 DEF LoginIssue, SessionTypes, TokenTypes, faultVars
  <2> QED
    BY <1>1, <2>1, LoginIssueShape, IssueTypes
<1>2. ASSUME NEW s \in Slot, RefreshRotate(s) PROVE SessionTypes'
  <2>1. PICK n \in Issued, u \in User, row \in Row :
          /\ Revoke({<<n, "refresh">>})
          /\ Issue(u, row, n) /\ Finish(s) /\ UNCHANGED <<rowVars, killed, spared, reset>>
    BY <1>2, RotateShape
  <2>2. n \in Pair /\ n \in Nat
    BY SessionAssumption DEF Issued, Pair
  <2>3. revoked' \subseteq Pair \X Kinds /\ kept' \subseteq Pair \X Kinds /\ faults' \in Nat
    <3>1. {<<n, "refresh">>} \in SUBSET (Pair \X Kinds)
      BY <2>2 DEF Kinds
    <3> QED
      BY <2>1, <3>1, RevokeStep DEF SessionTypes
  <2> QED
    BY <2>1, <2>2, <2>3, IssueTypes
<1>3. ASSUME NEW n \in Pair, HandleLogout(n) PROVE SessionTypes'
  <2>1. PICK tokens \in SUBSET (Pair \X Kinds) : Revoke(tokens)
    BY <1>3 DEF HandleLogout, Kinds, PairsOf, Issued
  <2>2. revoked' \subseteq Pair \X Kinds /\ kept' \subseteq Pair \X Kinds /\ faults' \in Nat
    BY <2>1, RevokeStep DEF SessionTypes
  <2> QED
    BY <1>3, <2>2 DEF HandleLogout, SessionTypes, RowTypes, TokenTypes, SlotTypes, rowVars, Issued
<1>4. CASE UNCHANGED vars
  BY <1>4 DEF vars, rowVars, tokenVars, faultVars, SessionTypes, RowTypes, TokenTypes, SlotTypes, Issued
<1> QED
  BY <1>1, <1>2, <1>3, <1>4, ReadTypes, WriteTypes DEF Next

-----------------------------------------------------------------------------
(***************************************************************************)
(* Rotation of refresh tokens.                                             *)
(***************************************************************************)

\* Nothing is being redeemed at the start.
LEMMA RotationStart == Init => RotationInv
<1> SUFFICES ASSUME Init PROVE RotationInv
  OBVIOUS
<1>1. Issued = {} /\ \A s \in Slot : slot[s].op = "idle"
  BY DEF Init, Issued, NoPair, Idle
<1>2. PairsInOrder /\ RedeemedIsSpent /\ RefreshesBegan /\ RedemptionsOverlap
  BY <1>1 DEF PairsInOrder, RedeemedIsSpent, RefreshesBegan, RedemptionsOverlap
<1> QED
  BY <1>2, SessionsStart DEF RotationInv

\* Steps that issue nothing and begin no refresh.
LEMMA NoRotation ==
  ASSUME RotationInv, SessionTypes', pair' = pair, revoked \subseteq revoked', kept \subseteq kept',
         \A z \in Slot : slot'[z].op \in {"refresh", "rotate"} =>
            /\ slot[z].op \in {"refresh", "rotate"}
            /\ slot'[z].pair = slot[z].pair /\ slot'[z].began = slot[z].began
  PROVE  RotationInv'
<1>1. Issued' = Issued /\ \A n \in Issued : Children(n)' = Children(n)
  BY DEF Issued, Children
<1>2. \A z \in Slot : slot'[z].op \in {"refresh", "rotate"} => slot[z].pair \in Issued
  BY DEF RotationInv, SessionTypes, SlotTypes
<1> QED
  BY <1>1, <1>2 DEF RotationInv, PairsInOrder, RedeemedIsSpent, RefreshesBegan, RedemptionsOverlap

\* No pair still to be issued is as low as the number of those that are.
LEMMA CountBelow ==
  ASSUME PairsInOrder, NEW m \in Pair \ Issued
  PROVE  Cardinality(Issued) < m
<1>1. m \in Nat /\ m >= 1
  BY SessionAssumption DEF Pair
<1>2. Issued \subseteq 1 .. (m - 1)
  <2> SUFFICES ASSUME NEW n \in Issued PROVE n \in 1 .. (m - 1)
    OBVIOUS
  <2>1. n \in Pair /\ n # m /\ ~(m < n)
    BY DEF Issued, PairsInOrder
  <2> QED
    BY <1>1, <2>1, SessionAssumption DEF Pair
<1>3. IsFiniteSet(1 .. (m - 1)) /\ Cardinality(1 .. (m - 1)) = m - 1
  BY <1>1, FS_Interval
<1>4. Cardinality(Issued) <= m - 1
  BY <1>2, <1>3, FS_Subset
<1> QED
  BY <1>1, <1>4, IssuedCount

\* A refresh that begins has a token that nobody has redeemed, unless Redis lost it.
LEMMA ParseRotation ==
  ASSUME RotationInv, SessionTypes', NEW s \in Slot, NEW n \in Pair, RefreshParse(s, n)
  PROVE  RotationInv'
<1> USE DEF RotationInv
<1>1. n \in Issued /\ <<n, "refresh">> \notin revoked
  BY DEF RefreshParse, Accepted
<1>2. <<n, "refresh">> \notin kept => \A m \in Issued : pair[m].parent # n
  <2>1. n # 0
    BY SessionAssumption DEF Pair
  <2> QED
    BY <1>1, <2>1 DEF RedeemedIsSpent
<1>3. /\ slot'[s].pair = n /\ slot'[s].began = Cardinality(Issued)
      /\ \A z \in Slot : z # s => slot'[z] = slot[z]
      /\ UNCHANGED <<pair, revoked, kept>>
  BY DEF RefreshParse, SessionTypes, SlotTypes, tokenVars, faultVars
<1>4. Issued' = Issued
  BY <1>3 DEF Issued
<1>5. RefreshesBegan'
  BY <1>3, <1>4, CountBelow DEF RefreshesBegan
<1>6. RedemptionsOverlap'
  BY <1>2, <1>3, <1>4 DEF RedemptionsOverlap, Children
<1> QED
  BY <1>3, <1>4, <1>5, <1>6 DEF PairsInOrder, RedeemedIsSpent

\* The new pair is younger than every refresh in progress, and its parent is spent.
LEMMA IssueRotation ==
  ASSUME RotationInv, SessionTypes', NEW s \in Slot, NEW u \in User, NEW row \in Row,
         NEW parent \in Nat, Issue(u, row, parent), Finish(s),
         revoked \subseteq revoked', kept \subseteq kept',
         parent # 0 => <<parent, "refresh">> \in revoked' \cup kept'
  PROVE  RotationInv'
<1> USE DEF RotationInv
<1>1. PICK n \in Pair \ Issued :
        /\ \A m \in Pair \ Issued : n <= m
        /\ Issued' = Issued \cup {n}
        /\ \A m \in Pair : m # n => pair'[m] = pair[m]
        /\ pair'[n].parent = parent
  <2>1. TokenTypes
    BY DEF SessionTypes
  <2> QED
    BY <2>1, IssueStep
<1>2. \A z \in Slot : slot'[z].op \in {"refresh", "rotate"} => z # s /\ slot'[z] = slot[z]
  BY DEF Finish, Idle, SessionTypes, SlotTypes
<1>4. PairsInOrder'
  <2> SUFFICES ASSUME NEW k \in Issued', NEW m \in Pair, m < k PROVE m \in Issued'
    BY DEF PairsInOrder
  <2>1. k \in Issued => m \in Issued
    BY DEF PairsInOrder
  <2>2. k = n => m \in Issued
    BY <1>1, SessionAssumption DEF Pair
  <2> QED
    BY <1>1, <2>1, <2>2
<1>5. RedeemedIsSpent'
  BY <1>1 DEF RedeemedIsSpent, Issued
<1>6. RefreshesBegan'
  BY <1>1, <1>2 DEF RefreshesBegan
<1>7. RedemptionsOverlap'
  <2> SUFFICES ASSUME NEW z \in Slot, slot[z].op \in {"refresh", "rotate"},
                      <<slot[z].pair, "refresh">> \notin kept,
                      NEW m \in Issued', pair'[m].parent = slot[z].pair
               PROVE  slot[z].began < m
    BY <1>2 DEF RedemptionsOverlap, Children
  <2>1. CASE m = n
    BY <2>1 DEF RefreshesBegan
  <2>2. CASE m # n
    <3>1. m \in Issued /\ pair[m].parent = slot[z].pair
      BY <1>1, <2>2 DEF Issued
    <3> QED
      BY <3>1 DEF RedemptionsOverlap, Children
  <2> QED
    BY <2>1, <2>2
<1> QED
  BY <1>4, <1>5, <1>6, <1>7
\* Every step keeps the times of the redemptions.
LEMMA RotationStep == RotationInv /\ [Next]_vars => RotationInv'
<1> SUFFICES ASSUME RotationInv, [Next]_vars PROVE RotationInv'
  OBVIOUS
<1>1. SessionTypes'
  BY SessionTypesStep DEF RotationInv
<1>2. ASSUME NEW s \in Slot, LoginIssue(s) PROVE RotationInv'
  BY <1>1, <1>2, LoginIssueShape, IssueRotation DEF RotationInv, faultVars
<1>3. ASSUME NEW s \in Slot, RefreshRotate(s) PROVE RotationInv'
  <2>1. PICK n \in Issued, u \in User, row \in Row :
          /\ Revoke({<<n, "refresh">>})
          /\ Issue(u, row, n) /\ Finish(s)
    BY <1>3, RotateShape DEF RotationInv
  <2>2. n \in Nat /\ n \in Pair
    BY SessionAssumption DEF Issued, Pair
  <2>3. {<<n, "refresh">>} \in SUBSET (Pair \X Kinds)
    BY <2>2 DEF Kinds
  <2>4. revoked \subseteq revoked' /\ kept \subseteq kept' /\ <<n, "refresh">> \in revoked' \cup kept'
    BY <2>1, <2>3, RevokeStep DEF RotationInv, SessionTypes
  <2> QED
    BY <1>1, <2>1, <2>2, <2>4, IssueRotation
<1>4. ASSUME NEW s \in Slot, RefreshLoad(s) PROVE RotationInv'
  BY <1>1, <1>4, NoRotation DEF RefreshLoad, tokenVars, faultVars, Idle, RotationInv, SessionTypes, SlotTypes
<1>5. ASSUME NEW s \in Slot, NEW n \in Pair, RefreshParse(s, n) PROVE RotationInv'
  BY <1>1, <1>5, ParseRotation
<1>6. ASSUME NEW s \in Slot,
             \/ \E u \in User : LoginRead(s, u) \/ ResetWrite(s, u)
             \/ \E n \in Pair : ChangeRead(s, n)
             \/ ChangeWrite(s) \/ UpdateTenant(s) \/ TenantMembers(s) \/ Fail(s)
             \/ \E n \in Pair, t \in Tenant : TenantWrite(s, n, t)
      PROVE  RotationInv'
  <2>1. \A z \in Slot : slot'[z].op \in {"refresh", "rotate"} => slot'[z] = slot[z]
    <3>1. Fail(s) \/ ChangeWrite(s) => slot' = [slot EXCEPT ![s] = Idle]
      BY DEF Fail, ChangeWrite, Finish
    <3>2. UpdateTenant(s) => \E t \in {1, 2} : slot' = [slot EXCEPT ![s] = PendingKill({slot[s].user}, t)]
      BY DEF UpdateTenant
    <3>3. TenantMembers(s) =>
            slot' = [slot EXCEPT ![s] = Idle] \/ \E us : slot' = [slot EXCEPT ![s] = PendingKill(us, 1)]
      BY DEF TenantMembers
    <3> QED
      BY <1>6, <3>1, <3>2, <3>3 DEF LoginRead, ResetWrite, ChangeRead, TenantWrite, PendingKill, Idle,
         RotationInv, SessionTypes, SlotTypes
  <2>2. pair' = pair /\ revoked \subseteq revoked' /\ kept \subseteq kept'
    BY <1>6 DEF LoginRead, ResetWrite, ChangeRead, ChangeWrite, Revoke, UpdateTenant, TenantMembers,
       TenantWrite, Fail, tokenVars, faultVars
  <2> QED
    BY <1>1, <2>1, <2>2, NoRotation
<1>7. ASSUME NEW s \in Slot,
             \/ UpdateCount(s) \/ UpdateWrite(s) \/ Kill(s)
             \/ \E n \in Pair, u \in User, r \in Roles \cup {Keep}, t \in {0, 1, Keep},
                  m \in Tenants \cup {Keep} : UpdateRead(s, n, u, r, t, m)
      PROVE  RotationInv'
  <2>1. slot'[s].op \in {"idle", "count", "write", "move", "kill"}
        /\ \A z \in Slot : z # s => slot'[z] = slot[z]
    <3>1. slot[s].op \in {"count", "write", "move"} => slot[s] \in PatchRequest
      BY SlotShapes DEF RotationInv, SessionTypes
    <3>2. slot[s].op = "kill" => slot[s] \in KillRequest
      BY SlotShapes DEF RotationInv, SessionTypes
    <3> QED
      BY <1>7, <3>1, <3>2 DEF UpdateCount, UpdateWrite, Kill, UpdateRead, PendingKill, Idle,
         PatchRequest, KillRequest, RotationInv, SessionTypes, SlotTypes
  <2>2. pair' = pair /\ revoked' = revoked /\ kept' = kept
    BY <1>7 DEF UpdateCount, UpdateWrite, Kill, UpdateRead, tokenVars, faultVars
  <2> QED
    BY <1>1, <2>1, <2>2, NoRotation
<1>8. ASSUME NEW n \in Pair, HandleLogout(n) PROVE RotationInv'
  BY <1>1, <1>8, NoRotation DEF HandleLogout, Revoke
<1>9. CASE UNCHANGED vars
  BY <1>1, <1>9, NoRotation DEF vars, tokenVars, faultVars
<1> QED
  BY <1>2, <1>3, <1>4, <1>5, <1>6, <1>7, <1>8, <1>9 DEF Next

\* A refresh token is redeemed twice only by requests that overlap (main.go:259-276),
\* or after Redis failed to store its revocation (redisstore.go:43).
THEOREM TokensRedeemedOnce == Spec => []RedemptionsOverlap
<1>1. RotationInv => RedemptionsOverlap
  BY DEF RotationInv
<1> QED
  BY <1>1, RotationStart, RotationStep, PTL DEF Spec
-----------------------------------------------------------------------------
(***************************************************************************)
(* Sessions that a change of the row contradicts.                          *)
(***************************************************************************)

\* The row of u gives no new reason to end a session, unless one is being ended.
RowKept(u) ==
    \/ KillComing(u)'
    \/ /\ role'[u] = role[u] /\ tenant'[u] = tenant[u] /\ reset'[u] = reset[u]
       /\ status'[u] = status[u] \/ status'[u] = 1

\* What an action that issues no pair has to do for the two promises to stay:
\* whoever was going to revoke still is, or has done it; a row changes only under
\* a revocation; and so does a tenant that closes.
LEMMA SurvivorsKept ==
  ASSUME SessionTypes, SurvivorsStraddled, ClosingEndsSessions,
         pair' = pair, revoked \subseteq revoked', killed \subseteq killed', spared \subseteq spared',
         \A u \in User : KillComing(u) => KillComing(u)' \/ PairsOf(u) \subseteq killed' \cup spared',
         \A u \in User : RowKept(u),
         \A u \in User : tenant'[u] \in closed' \ closed => KillComing(u)'
  PROVE  SurvivorsStraddled' /\ ClosingEndsSessions'
<1>1. /\ Issued' = Issued
      /\ \A n \in Issued : Live(n)' => Live(n) /\ n \notin killed'
      /\ \A n \in Issued : pair[n].user \in User
  BY IssuedShape DEF Issued, Live, Accepted, SessionTypes, PairRecord
<1>2. ASSUME NEW n \in Issued, Live(n)', KillComing(pair[n].user)
      PROVE  KillComing(pair[n].user)' \/ n \in spared'
  <2> DEFINE u == pair[n].user
  <2>1. u \in User /\ n \in PairsOf(u) /\ n \notin killed'
    BY <1>1, <1>2 DEF PairsOf
  <2>2. u' = u
    OBVIOUS
  <2> HIDE DEF u
  <2>3. KillComing(u)' \/ n \in spared'
    BY <1>2, <2>1 DEF u
  <2> QED
    BY <2>2, <2>3 DEF u, KillComing, Owes, NeedsKill, Asked
<1>3. ASSUME NEW n \in Issued, Live(n)', Stale(n)'
      PROVE  pair[n].straddled \/ KillComing(pair[n].user)' \/ n \in spared'
  <2>1. CASE KillComing(pair[n].user)
    BY <1>2, <1>3, <2>1
  <2>2. CASE ~KillComing(pair[n].user) /\ Stale(n)
    BY <1>1, <1>3, <2>2 DEF SurvivorsStraddled
  <2>3. CASE ~Stale(n)
    <3>1. PICK u \in User : u = pair[n].user
      BY <1>1
    <3>2. KillComing(u)'
      BY <1>3, <2>3, <3>1 DEF Stale, RowKept
    <3> QED
      BY <3>1, <3>2 DEF KillComing, Owes, NeedsKill, Asked
  <2> QED
    BY <2>1, <2>2, <2>3
<1>4. SurvivorsStraddled'
  BY <1>1, <1>3 DEF SurvivorsStraddled
<1>5. ASSUME NEW n \in Issued, Live(n)', pair[n].tenant \in closed'
      PROVE  ~pair[n].open \/ pair[n].straddled \/ KillComing(pair[n].user)' \/ n \in spared'
  <2>1. CASE pair[n].tenant \in closed
    BY <1>1, <1>2, <1>5, <2>1 DEF ClosingEndsSessions
  <2>2. CASE pair[n].tenant \notin closed /\ tenant'[pair[n].user] = pair[n].tenant
    <3>1. PICK u \in User : u = pair[n].user
      BY <1>1
    <3>2. KillComing(u)'
      BY <1>5, <2>2, <3>1
    <3> QED
      BY <3>1, <3>2 DEF KillComing, Owes, NeedsKill, Asked
  <2>3. CASE tenant'[pair[n].user] # pair[n].tenant
    BY <1>3, <1>5, <2>3 DEF Stale
  <2> QED
    BY <2>1, <2>2, <2>3
<1> QED
  BY <1>1, <1>4, <1>5 DEF ClosingEndsSessions

\* A step of one request loses no revocation but its own.
LEMMA KillsStay ==
  ASSUME SlotTypes, NEW s \in Slot, \A z \in Slot : z # s => slot'[z] = slot[z],
         \A u \in User : tenant'[u] = tenant[u] \/ KillComing(u)',
         \A u \in User : Owes(s, u) => KillComing(u)' \/ PairsOf(u) \subseteq killed' \cup spared'
  PROVE  \A u \in User : KillComing(u) => KillComing(u)' \/ PairsOf(u) \subseteq killed' \cup spared'
<1> SUFFICES ASSUME NEW u \in User, NEW z \in Slot, Owes(z, u), z # s, tenant'[u] = tenant[u]
             PROVE  KillComing(u)'
  BY DEF KillComing
<1> QED
  BY DEF Owes, KillComing, NeedsKill, Asked

\* A pair is issued from a row that was active, and it is straddled unless the
\* row is still the same, so that its claims are good.
LEMMA IssueSurvives ==
  ASSUME SurvivorInv, NEW s \in Slot, NEW u \in User, NEW row \in Row, NEW parent \in Nat,
         slot[s].op \in {"login", "rotate"}, row = slot[s].row,
         Issue(u, row, parent), Finish(s), UNCHANGED <<rowVars, killed, spared, reset>>,
         revoked \subseteq revoked'
  PROVE  SurvivorsStraddled' /\ ClosingEndsSessions'
<1> USE DEF SurvivorInv
<1>1. PICK n \in Pair \ Issued :
        /\ Issued' = Issued \cup {n}
        /\ \A m \in Pair : m # n => pair'[m] = pair[m]
        /\ pair'[n].user = u /\ pair'[n].role = row.role /\ pair'[n].tenant = row.tenant
        /\ pair'[n].password = row.password
        /\ pair'[n].straddled <=> row # Snapshot(u)
        /\ pair'[n].open <=> row.tenant \notin closed
  <2>1. TokenTypes
    BY DEF SessionTypes
  <2> QED
    BY <2>1, IssueStep
<1>2. \A z \in Slot : z # s => slot'[z] = slot[z]
  BY DEF Finish, SessionTypes, SlotTypes
<1>3. \A v : KillComing(v) => KillComing(v)'
  <2>1. \A z \in Slot : \A v : Owes(z, v) => z # s
    BY DEF Owes
  <2> QED
    BY <1>2, <2>1 DEF KillComing, Owes, NeedsKill, Asked, rowVars
<1>4. ASSUME NEW m \in Issued
      PROVE  /\ pair'[m] = pair[m] /\ m # n /\ (Stale(m)' <=> Stale(m)) /\ (Live(m)' => Live(m))
             /\ KillComing(pair[m].user) => KillComing(pair[m].user)'
  <2>1. pair'[m] = pair[m] /\ m # n
    BY <1>1 DEF Issued
  <2>2. Stale(m)' <=> Stale(m)
    BY <2>1 DEF Stale, rowVars
  <2>3. Live(m)' => Live(m)
    BY DEF Live, Accepted
  <2>4. KillComing(pair[m].user) => KillComing(pair[m].user)'
    <3>1. PICK v : v = pair[m].user
      OBVIOUS
    <3>2. KillComing(v) => KillComing(v)'
      BY <1>3
    <3> QED
      BY <2>1, <3>1, <3>2 DEF KillComing
  <2> QED
    BY <2>1, <2>2, <2>3, <2>4
<1>5. row = Snapshot(u) => ~Stale(n)'
  <2>1. ASSUME row = Snapshot(u) PROVE ~Stale(n)'
    <3>1. row.role = role[u] /\ row.tenant = tenant[u] /\ row.status = status[u] /\ row.password = password[u]
      BY <2>1 DEF Snapshot
    <3>2. row.status = 1
      BY DEF ReadsActive
    <3>3. reset[u] <= password[u] /\ reset[u] \in Nat /\ password[u] \in Nat
      BY DEF ResetsPast, SessionTypes, RowTypes
    <3>4. /\ pair'[n].user = u /\ pair'[n].role = role[u] /\ pair'[n].tenant = tenant[u]
          /\ pair'[n].password = password[u] /\ status[u] = 1
      BY <1>1, <3>1, <3>2
    <3> QED
      BY <3>3, <3>4 DEF Stale, rowVars
  <2> QED
    BY <2>1
<1>6. row # Snapshot(u) => pair'[n].straddled
  BY <1>1
<1>7. pair'[n].tenant \in closed => ~pair'[n].open
  BY <1>1
<1>8. SurvivorsStraddled'
  <2> SUFFICES ASSUME NEW m \in Issued', Live(m)', Stale(m)'
               PROVE  pair'[m].straddled \/ KillComing(pair[m].user)' \/ m \in spared
    BY DEF SurvivorsStraddled
  <2>1. CASE m = n
    BY <1>5, <1>6, <2>1
  <2>2. CASE m # n
    BY <1>1, <1>4, <2>2 DEF SurvivorsStraddled
  <2> QED
    BY <2>1, <2>2
<1>9. ClosingEndsSessions'
  <2> SUFFICES ASSUME NEW m \in Issued', Live(m)', pair'[m].tenant \in closed
               PROVE  ~pair'[m].open \/ pair'[m].straddled \/ KillComing(pair[m].user)' \/ m \in spared
    BY DEF ClosingEndsSessions, rowVars
  <2>1. CASE m = n
    BY <1>7, <2>1
  <2>2. CASE m # n
    BY <1>1, <1>4, <2>2 DEF ClosingEndsSessions
  <2> QED
    BY <2>1, <2>2
<1> QED
  BY <1>8, <1>9
\* No session contradicts its user at the start.
LEMMA SurvivorsStart == Init => SurvivorInv
<1> SUFFICES ASSUME Init PROVE SurvivorInv
  OBVIOUS
<1>1. Issued = {} /\ \A s \in Slot : slot[s].op = "idle"
  BY DEF Init, Issued, NoPair, Idle
<1>2. RowAsRead /\ ReadsActive
  BY <1>1 DEF RowAsRead, ReadsActive, Patching
<1>3. ResetsPast
  BY DEF Init, ResetsPast
<1>4. SurvivorsStraddled /\ ClosingEndsSessions
  BY <1>1 DEF SurvivorsStraddled, ClosingEndsSessions
<1> QED
  BY <1>2, <1>3, <1>4, SessionsStart DEF SurvivorInv

\* A PATCH of a user begins.
Reading(s) ==
    \E n \in Pair, u \in User, r \in Roles \cup {Keep}, t \in {0, 1, Keep},
       m \in Tenants \cup {Keep} : UpdateRead(s, n, u, r, t, m)

\* One request takes its next step.
Moves(s) ==
    \/ \E u \in User : LoginRead(s, u) \/ ResetWrite(s, u)
    \/ \E n \in Pair : RefreshParse(s, n) \/ ChangeRead(s, n)
    \/ LoginIssue(s) \/ RefreshLoad(s) \/ RefreshRotate(s) \/ ChangeWrite(s)
    \/ UpdateCount(s) \/ UpdateWrite(s) \/ UpdateTenant(s)
    \/ TenantMembers(s) \/ Kill(s) \/ Fail(s)
    \/ \E n \in Pair, t \in Tenant : TenantWrite(s, n, t)
    \/ Reading(s)

\* What a request holds is changed by its own steps only; a PATCH begins with the
\* row as it is, and a login or a refresh with an active one.
LEMMA RequestStep ==
  ASSUME SessionTypes, NEW s \in Slot, Moves(s)
  PROVE  /\ \A z \in Slot : z # s => slot'[z] = slot[z]
         /\ slot'[s].op \in {"count", "write"} =>
              /\ ~UpdateWrite(s)
              /\ \/ slot'[s].row = Snapshot(slot'[s].user)
                 \/ /\ slot[s].op = "count" /\ UpdateCount(s)
                    /\ slot'[s].row = slot[s].row /\ slot'[s].user = slot[s].user
         /\ slot'[s].op \in {"count", "write"} => UpdateCount(s) \/ Reading(s)
         /\ slot'[s].op \in {"login", "rotate"} => slot'[s].row.status = 1
<1> USE DEF Moves, Reading
<1>1. ASSUME UpdateCount(s) PROVE slot'[s].op = "idle" \/
        /\ slot'[s].op = "write" /\ slot'[s].row = slot[s].row /\ slot'[s].user = slot[s].user
  BY <1>1, SlotShapes DEF UpdateCount, PatchRequest, Idle, SessionTypes, SlotTypes
<1>2. ASSUME UpdateWrite(s) PROVE slot'[s].op \in {"idle", "move", "kill"}
  BY <1>2, SlotShapes DEF UpdateWrite, PatchRequest, PendingKill, Idle, SessionTypes, SlotTypes
<1>3. ASSUME Kill(s) PROVE slot'[s].op \in {"idle", "kill"}
  BY <1>3, SlotShapes DEF Kill, KillRequest, Idle, SessionTypes, SlotTypes
<1>4. ASSUME \/ \E u \in User : ResetWrite(s, u)
             \/ \E n \in Pair : RefreshParse(s, n) \/ ChangeRead(s, n)
             \/ LoginIssue(s) \/ RefreshRotate(s) \/ ChangeWrite(s) \/ UpdateTenant(s)
             \/ TenantMembers(s) \/ Fail(s) \/ \E n \in Pair, t \in Tenant : TenantWrite(s, n, t)
      PROVE  slot'[s].op \in {"idle", "refresh", "change", "kill", "members"}
  <2>1. LoginIssue(s) \/ RefreshRotate(s) \/ ChangeWrite(s) \/ Fail(s) => slot' = [slot EXCEPT ![s] = Idle]
    BY DEF LoginIssue, RefreshRotate, ChangeWrite, Fail, Finish
  <2>2. UpdateTenant(s) => \E t \in {1, 2} : slot' = [slot EXCEPT ![s] = PendingKill({slot[s].user}, t)]
    BY DEF UpdateTenant
  <2>3. TenantMembers(s) =>
          slot' = [slot EXCEPT ![s] = Idle] \/ \E us : slot' = [slot EXCEPT ![s] = PendingKill(us, 1)]
    BY DEF TenantMembers
  <2>4. \A n \in Pair, t \in Tenant : TenantWrite(s, n, t) =>
          (slot' = slot /\ slot[s].op = "idle") \/ slot' = [slot EXCEPT ![s] = [op |-> "members", tenant |-> t]]
    BY DEF TenantWrite, Idle
  <2> QED
    BY <1>4, <2>1, <2>2, <2>3, <2>4 DEF ResetWrite, RefreshParse, ChangeRead, Idle, PendingKill,
       SessionTypes, SlotTypes
<1>5. ASSUME NEW u \in User, LoginRead(s, u)
      PROVE  slot'[s].op = "login" /\ slot'[s].row.status = 1
  BY <1>5 DEF LoginRead, Snapshot, SessionTypes, SlotTypes
<1>6. ASSUME RefreshLoad(s)
      PROVE  slot'[s].op = "idle" \/ (slot'[s].op = "rotate" /\ slot'[s].row.status = 1)
  BY <1>6 DEF RefreshLoad, Snapshot, Idle, SessionTypes, SlotTypes
<1>7. ASSUME NEW n \in Pair, NEW u \in User, NEW r \in Roles \cup {Keep}, NEW t \in {0, 1, Keep},
             NEW m \in Tenants \cup {Keep}, UpdateRead(s, n, u, r, t, m)
      PROVE  slot'[s].op \in {"count", "write"} /\ slot'[s].row = Snapshot(slot'[s].user)
  <2>1. PICK next \in {"count", "write"} :
          slot' = [slot EXCEPT ![s] = [op |-> next, user |-> u, row |-> Snapshot(u),
                                       role |-> r, status |-> t, tenant |-> m]]
    BY <1>7 DEF UpdateRead
  <2> QED
    BY <2>1 DEF SessionTypes, SlotTypes
<1>8. ASSUME UpdateWrite(s) PROVE slot[s].op = "write"
  BY <1>8 DEF UpdateWrite
<1>9. \A z \in Slot : z # s => slot'[z] = slot[z]
  BY DEF LoginRead, ResetWrite, RefreshParse, ChangeRead, LoginIssue, RefreshLoad, RefreshRotate,
     ChangeWrite, UpdateCount, UpdateWrite, UpdateTenant, TenantMembers, Kill, Fail, TenantWrite, UpdateRead,
     Finish, SessionTypes, SlotTypes
<1>10. UpdateCount(s) => slot[s].op = "count"
  BY DEF UpdateCount
<1> QED
  BY <1>1, <1>2, <1>3, <1>4, <1>5, <1>6, <1>7, <1>9, <1>10
\* With one PATCH of a user at a time, what it has read stays true up to its UPDATE.
LEMMA RowAsReadStep ==
  ASSUME SessionTypes, RowAsRead, OnePatchPerUser, [Next]_vars
  PROVE  RowAsRead'
<1>1. CASE UNCHANGED vars \/ \E n \in Pair : HandleLogout(n)
  BY <1>1 DEF vars, rowVars, HandleLogout, RowAsRead, Patching
<1>2. ASSUME NEW s \in Slot, Moves(s) PROVE RowAsRead'
  <2> SUFFICES ASSUME NEW z \in Slot, slot'[z].op \in {"count", "write"}
               PROVE  /\ slot'[z].row.role = role'[slot'[z].user]
                      /\ slot'[z].row.status = status'[slot'[z].user]
    BY DEF RowAsRead, Patching
  <2>1. CASE UpdateWrite(s)
    <3>1. z # s /\ slot'[z] = slot[z] /\ slot[s].op = "write"
      BY <1>2, <2>1, RequestStep DEF UpdateWrite
    <3>2. slot[z].user # slot[s].user
      BY <3>1 DEF OnePatchPerUser, Patching
    <3>3. role'[slot[z].user] = role[slot[z].user] /\ status'[slot[z].user] = status[slot[z].user]
      BY <2>1, <3>2 DEF UpdateWrite, SessionTypes, RowTypes
    <3> QED
      BY <3>1, <3>3 DEF RowAsRead, Patching
  <2>2. CASE ~UpdateWrite(s)
    <3>1. role' = role /\ status' = status
      BY <1>2, <2>2 DEF Moves, Reading, LoginRead, ResetWrite, RefreshParse, ChangeRead, LoginIssue, RefreshLoad,
         RefreshRotate, ChangeWrite, UpdateCount, UpdateTenant, TenantMembers, Kill, Fail, TenantWrite,
         UpdateRead, rowVars
    <3>2. CASE z = s /\ slot'[s].row = Snapshot(slot'[s].user)
      BY <3>1, <3>2 DEF Snapshot
    <3>3. CASE z = s /\ slot'[s].row # Snapshot(slot'[s].user)
      <4>1. slot[s].op = "count" /\ slot'[s].row = slot[s].row /\ slot'[s].user = slot[s].user
        BY <1>2, <3>3, RequestStep
      <4> QED
        BY <3>1, <3>3, <4>1 DEF RowAsRead, Patching
    <3>4. CASE z # s
      BY <1>2, <3>1, <3>4, RequestStep DEF RowAsRead, Patching
    <3> QED
      BY <3>2, <3>3, <3>4
  <2> QED
    BY <2>1, <2>2
<1> QED
  BY <1>1, <1>2 DEF Next, Moves, Reading

\* Every step keeps what the requests have read.
LEMMA ReadsStep == SessionTypes /\ ReadsActive /\ ResetsPast /\ [Next]_vars => ReadsActive' /\ ResetsPast'
<1> SUFFICES ASSUME SessionTypes, ReadsActive, ResetsPast, [Next]_vars PROVE ReadsActive' /\ ResetsPast'
  OBVIOUS
<1>1. CASE UNCHANGED vars \/ \E n \in Pair : HandleLogout(n)
  BY <1>1 DEF vars, rowVars, HandleLogout, ReadsActive, ResetsPast
<1>2. ASSUME NEW s \in Slot, Moves(s) PROVE ReadsActive' /\ ResetsPast'
  <2>1. ReadsActive'
    BY <1>2, RequestStep DEF ReadsActive
  <2>2. ASSUME NEW u \in User, ResetWrite(s, u) PROVE ResetsPast'
    BY <2>2 DEF ResetWrite, ResetsPast, SessionTypes, RowTypes
  <2>3. ASSUME ChangeWrite(s) PROVE ResetsPast'
    <3>1. \A u \in User : password'[u] \in Nat /\ password'[u] >= password[u] /\ reset'[u] = reset[u]
      BY <2>3 DEF ChangeWrite, SessionTypes, RowTypes
    <3> QED
      BY <3>1 DEF ResetsPast, SessionTypes, RowTypes
  <2>4. ASSUME UNCHANGED <<password, reset>> PROVE ResetsPast'
    BY <2>4 DEF ResetsPast
  <2>5. UNCHANGED <<password, reset>> \/ ChangeWrite(s) \/ \E u \in User : ResetWrite(s, u)
    BY <1>2 DEF Moves, Reading, LoginRead, RefreshParse, ChangeRead, LoginIssue, RefreshLoad, RefreshRotate,
       UpdateCount, UpdateWrite, UpdateTenant, TenantMembers, Kill, Fail, TenantWrite, UpdateRead, rowVars
  <2> QED
    BY <2>1, <2>2, <2>3, <2>4, <2>5
<1> QED
  BY <1>1, <1>2 DEF Next, Moves, Reading

\* A request that was on its way to revoke nothing changes no row.
LEMMA ReadSurvives ==
  ASSUME SurvivorInv, NEW s \in Slot,
         \/ \E u \in User : LoginRead(s, u)
         \/ \E n \in Pair : RefreshParse(s, n) \/ ChangeRead(s, n)
         \/ RefreshLoad(s) \/ ChangeWrite(s) \/ UpdateCount(s)
         \/ \E n \in Pair, u \in User, r \in Roles \cup {Keep}, t \in {0, 1, Keep},
              m \in Tenants \cup {Keep} : UpdateRead(s, n, u, r, t, m)
  PROVE  SurvivorsStraddled' /\ ClosingEndsSessions'
<1> USE DEF SurvivorInv
<1>1. /\ UNCHANGED <<role, status, tenant, closed, pair, killed, spared, reset>> /\ revoked \subseteq revoked'
      /\ slot[s].op \notin {"kill", "move", "members"}
  BY DEF LoginRead, RefreshParse, ChangeRead, RefreshLoad, ChangeWrite, Revoke, UpdateCount, UpdateRead,
     rowVars, tokenVars, faultVars, Idle
<1>2. \A z \in Slot : z # s => slot'[z] = slot[z]
  BY RequestStep DEF Moves, Reading
<1>3. \A u \in User : ~Owes(s, u)
  BY <1>1 DEF Owes
<1>4. SlotTypes
  BY DEF SessionTypes
<1>5. \A u \in User : KillComing(u) => KillComing(u)' \/ PairsOf(u) \subseteq killed' \cup spared'
  BY <1>1, <1>2, <1>3, <1>4, KillsStay
<1>6. \A u \in User : RowKept(u)
  BY <1>1 DEF RowKept
<1> QED
  BY <1>1, <1>5, <1>6, SurvivorsKept

\* A reset is followed by the revocation it needs.
LEMMA ResetSurvives ==
  ASSUME SurvivorInv, NEW s \in Slot, NEW u \in User, ResetWrite(s, u)
  PROVE  SurvivorsStraddled' /\ ClosingEndsSessions'
<1> USE DEF SurvivorInv
<1>1. /\ UNCHANGED <<role, status, tenant, closed, pair, revoked, killed, spared>> /\ slot[s] = Idle
      /\ \A v \in User : v # u => reset'[v] = reset[v]
  BY DEF ResetWrite, tokenVars, faultVars, SessionTypes, RowTypes
<1>2. (\A z \in Slot : z # s => slot'[z] = slot[z]) /\ slot'[s] = PendingKill({u}, 1)
  BY DEF ResetWrite, SessionTypes, SlotTypes
<1>3. KillComing(u)'
  BY <1>2 DEF KillComing, Owes, PendingKill
<1>4. \A v \in User : ~Owes(s, v)
  BY <1>1 DEF Owes, Idle
<1>5. SlotTypes
  BY DEF SessionTypes
<1>6. \A v \in User : KillComing(v) => KillComing(v)' \/ PairsOf(v) \subseteq killed' \cup spared'
  BY <1>1, <1>2, <1>4, <1>5, KillsStay
<1>7. \A v \in User : RowKept(v)
  BY <1>1, <1>3 DEF RowKept
<1> QED
  BY <1>1, <1>6, <1>7, SurvivorsKept
\* An UPDATE of the role or the status is followed by the revocation it needs,
\* since what it overwrites is what was read when the need was decided.
LEMMA UpdateSurvives ==
  ASSUME SurvivorInv, NEW s \in Slot, UpdateWrite(s)
  PROVE  SurvivorsStraddled' /\ ClosingEndsSessions'
<1> USE DEF SurvivorInv
<1>1. slot[s] \in PatchRequest /\ slot[s].op = "write"
  BY SlotShapes DEF UpdateWrite, SessionTypes
<1>2. PICK u \in User : u = slot[s].user
  BY <1>1 DEF PatchRequest
<1>3. slot[s].row.role = role[u] /\ slot[s].row.status = status[u]
  BY <1>1, <1>2 DEF RowAsRead, Patching
<1>4. /\ \A z \in Slot : z # s => slot'[z] = slot[z]
      /\ UNCHANGED <<tenant, closed, pair, revoked, killed, spared, reset>>
      /\ \A v \in User : v # u => role'[v] = role[v] /\ status'[v] = status[v]
      /\ role'[u] = Asked(slot[s].role, role[u]) /\ status'[u] = Asked(slot[s].status, status[u])
  BY <1>2, <1>3 DEF UpdateWrite, SessionTypes, SlotTypes, RowTypes, tokenVars, faultVars
<1>5. KillComing(u)' \/ (role'[u] = role[u] /\ status'[u] = 1)
  <2>1. CASE slot[s].tenant # Keep /\ NeedsKill(slot[s])
    <3>1. slot'[s] = [slot[s] EXCEPT !.op = "move"]
      BY <2>1 DEF UpdateWrite, SessionTypes, SlotTypes
    <3>2. slot'[s].op = "move" /\ slot'[s].user = u /\ NeedsKill(slot'[s])
      BY <1>1, <1>2, <2>1, <3>1 DEF PatchRequest, NeedsKill
    <3> QED
      BY <3>2 DEF KillComing, Owes, NeedsKill, Asked
  <2>2. CASE slot[s].tenant = Keep /\ NeedsKill(slot[s])
    <3>1. slot'[s] = PendingKill({u}, 1)
      BY <1>2, <2>2 DEF UpdateWrite, SessionTypes, SlotTypes
    <3> QED
      BY <3>1 DEF KillComing, Owes, PendingKill
  <2>3. CASE ~NeedsKill(slot[s])
    BY <1>3, <1>4, <2>3 DEF NeedsKill
  <2> QED
    BY <2>1, <2>2, <2>3
<1>6. \A v \in User : ~Owes(s, v)
  BY <1>1 DEF Owes
<1>7. SlotTypes
  BY DEF SessionTypes
<1>8. \A v \in User : KillComing(v) => KillComing(v)' \/ PairsOf(v) \subseteq killed' \cup spared'
  BY <1>4, <1>6, <1>7, KillsStay
<1>9. \A v \in User : RowKept(v)
  BY <1>4, <1>5 DEF RowKept
<1> QED
  BY <1>4, <1>8, <1>9, SurvivorsKept

\* A user who is moved to another tenant is signed out next.
LEMMA MoveSurvives ==
  ASSUME SurvivorInv, NEW s \in Slot, UpdateTenant(s)
  PROVE  SurvivorsStraddled' /\ ClosingEndsSessions'
<1> USE DEF SurvivorInv
<1>1. slot[s].op = "move" /\ slot[s].user \in User
  BY SlotShapes DEF UpdateTenant, SessionTypes
<1>2. PICK times \in {1, 2} : slot' = [slot EXCEPT ![s] = PendingKill({slot[s].user}, times)]
  BY DEF UpdateTenant
<1>3. PICK u \in User : u = slot[s].user
  BY <1>1
<1>4. /\ \A z \in Slot : z # s => slot'[z] = slot[z]
      /\ slot'[s] = PendingKill({u}, times)
  BY <1>2, <1>3 DEF SessionTypes, SlotTypes
<1>5. KillComing(u)'
  BY <1>4 DEF KillComing, Owes, PendingKill
<1>6. /\ UNCHANGED <<role, status, closed, pair, revoked, killed, spared, reset>>
      /\ \A v \in User : v # u => tenant'[v] = tenant[v]
  BY <1>3 DEF UpdateTenant, tokenVars, faultVars, SessionTypes, RowTypes
<1>7. \A v \in User : Owes(s, v) => v = u
  BY <1>1, <1>3 DEF Owes
<1>8. SlotTypes
  BY DEF SessionTypes
<1>9. \A v \in User : KillComing(v) => KillComing(v)' \/ PairsOf(v) \subseteq killed' \cup spared'
  BY <1>4, <1>5, <1>6, <1>7, <1>8, KillsStay
<1>10. \A v \in User : RowKept(v)
  BY <1>5, <1>6 DEF RowKept
<1> QED
  BY <1>6, <1>9, <1>10, SurvivorsKept

\* A tenant that closes has its members signed out, those it has when they are
\* looked up; who has left it by then is signed out by the move.
LEMMA TenantSurvives ==
  ASSUME SurvivorInv, NEW s \in Slot,
         TenantMembers(s) \/ \E n \in Pair, t \in Tenant : TenantWrite(s, n, t)
  PROVE  SurvivorsStraddled' /\ ClosingEndsSessions'
<1> USE DEF SurvivorInv
<1>1. UNCHANGED <<role, status, tenant, pair, revoked, killed, spared, reset>>
  BY DEF TenantMembers, TenantWrite, rowVars, tokenVars, faultVars
<1>2. \A z \in Slot : z # s => slot'[z] = slot[z]
  BY RequestStep DEF Moves, Reading
<1>3. \A v \in User : Owes(s, v) => KillComing(v)'
  <2>1. CASE TenantMembers(s)
    <3> SUFFICES ASSUME NEW v \in User, Owes(s, v) PROVE KillComing(v)'
      OBVIOUS
    <3>1. v \in { u \in User : tenant[u] = slot[s].tenant }
      BY <2>1 DEF Owes, TenantMembers
    <3>2. slot'[s] = PendingKill({ u \in User : tenant[u] = slot[s].tenant }, 1)
      BY <2>1, <3>1 DEF TenantMembers, SessionTypes, SlotTypes
    <3> QED
      BY <3>1, <3>2 DEF KillComing, Owes, PendingKill
  <2>2. CASE ~TenantMembers(s)
    BY <2>2 DEF Owes, TenantWrite, Idle
  <2> QED
    BY <2>1, <2>2
<1>4. \A v \in User : tenant'[v] \in closed' \ closed => KillComing(v)'
  <2> SUFFICES ASSUME NEW v \in User, tenant'[v] \in closed' \ closed PROVE KillComing(v)'
    OBVIOUS
  <2>1. PICK n \in Pair, t \in Tenant : TenantWrite(s, n, t)
    BY DEF TenantMembers, rowVars
  <2>2. tenant[v] = t /\ slot'[s] = [op |-> "members", tenant |-> t]
    BY <1>1, <2>1 DEF TenantWrite, SessionTypes, SlotTypes
  <2> QED
    BY <1>1, <2>2 DEF KillComing, Owes
<1>5. SlotTypes
  BY DEF SessionTypes
<1>6. \A v \in User : KillComing(v) => KillComing(v)' \/ PairsOf(v) \subseteq killed' \cup spared'
  BY <1>1, <1>2, <1>3, <1>5, KillsStay
<1>7. \A v \in User : RowKept(v)
  BY <1>1 DEF RowKept
<1> QED
  BY <1>1, <1>4, <1>6, <1>7, SurvivorsKept

\* revokeUserTokens kills what its users have, but for what a failure spares; a
\* request that fails spares what it has yet to kill.
LEMMA KillSurvives ==
  ASSUME SurvivorInv, NEW s \in Slot, Kill(s) \/ Fail(s)
  PROVE  SurvivorsStraddled' /\ ClosingEndsSessions'
<1> USE DEF SurvivorInv
<1>1. /\ UNCHANGED <<rowVars, pair, revoked, reset>>
      /\ killed \subseteq killed' /\ spared \subseteq spared'
  BY DEF Kill, Fail
<1>2. \A z \in Slot : z # s => slot'[z] = slot[z]
  BY RequestStep DEF Moves, Reading
<1>3. \A v \in User : Owes(s, v) => PairsOf(v) \subseteq killed' \cup spared'
  <2>1. CASE Kill(s)
    <3>1. PICK lost \in SUBSET slot[s].users :
            /\ killed' = killed \cup PairsOfAll(slot[s].users \ lost)
            /\ spared' = spared \cup PairsOfAll(lost)
      BY <2>1 DEF Kill
    <3> QED
      BY <2>1, <3>1 DEF Kill, Owes, PairsOfAll
  <2>2. CASE Fail(s)
    BY <2>2 DEF Fail, PairsOfAll
  <2> QED
    BY <2>1, <2>2
<1>4. SlotTypes
  BY DEF SessionTypes
<1>5. \A v \in User : KillComing(v) => KillComing(v)' \/ PairsOf(v) \subseteq killed' \cup spared'
  BY <1>1, <1>2, <1>3, <1>4, KillsStay DEF rowVars
<1>6. \A v \in User : RowKept(v)
  BY <1>1 DEF RowKept, rowVars
<1> QED
  BY <1>1, <1>5, <1>6, SurvivorsKept DEF rowVars

\* Every action keeps the invariant while PATCHes of one user do not overlap.
LEMMA SurvivorsStep == SurvivorInv /\ OnePatchPerUser /\ [Next]_vars => SurvivorInv'
<1> SUFFICES ASSUME SurvivorInv, OnePatchPerUser, [Next]_vars PROVE SurvivorInv'
  OBVIOUS
<1>1. SessionTypes' /\ RowAsRead' /\ ReadsActive' /\ ResetsPast'
  BY SessionTypesStep, RowAsReadStep, ReadsStep DEF SurvivorInv
<1>2. SurvivorsStraddled' /\ ClosingEndsSessions'
  <2>1. ASSUME NEW s \in Slot, LoginIssue(s) PROVE SurvivorsStraddled' /\ ClosingEndsSessions'
    BY <2>1, LoginIssueShape, IssueSurvives DEF SurvivorInv, faultVars
  <2>2. ASSUME NEW s \in Slot, RefreshRotate(s) PROVE SurvivorsStraddled' /\ ClosingEndsSessions'
    <3>1. PICK n \in Issued, u \in User, row \in Row :
            /\ slot[s].op = "rotate" /\ row = slot[s].row
            /\ Revoke({<<n, "refresh">>})
            /\ Issue(u, row, n) /\ Finish(s) /\ UNCHANGED <<rowVars, killed, spared, reset>>
      BY <2>2, RotateShape DEF SurvivorInv
    <3>2. n \in Nat
      BY SessionAssumption DEF Issued, Pair
    <3>3. revoked \subseteq revoked'
      BY <3>1 DEF Revoke
    <3> QED
      BY <3>1, <3>2, <3>3, IssueSurvives
  <2>3. CASE UNCHANGED vars \/ \E n \in Pair : HandleLogout(n)
    <3>1. /\ UNCHANGED <<role, status, tenant, closed, pair, killed, spared, slot, reset>>
          /\ revoked \subseteq revoked'
      BY <2>3 DEF vars, rowVars, tokenVars, faultVars, HandleLogout, Revoke
    <3>2. \A u \in User : RowKept(u) /\ (KillComing(u) => KillComing(u)')
      BY <3>1 DEF RowKept, KillComing, Owes, NeedsKill, Asked
    <3> QED
      BY <3>1, <3>2, SurvivorsKept DEF SurvivorInv
  <2> QED
    BY <2>1, <2>2, <2>3, ReadSurvives, ResetSurvives, UpdateSurvives, MoveSurvives, TenantSurvives,
       KillSurvives DEF Next
<1> QED
  BY <1>1, <1>2 DEF SurvivorInv

\* If no two requests patch one user at a time, the invariant always holds.
LEMMA SurvivorsInvariance == Spec /\ []OnePatchPerUser => []SurvivorInv
BY SurvivorsStart, SurvivorsStep, PTL DEF Spec

\* A session that a change of the row contradicts is ended, or was issued by a
\* request that straddled the change, or a failure kept its revocation from it
\* (users.go:159-174, redisstore.go:66-76), as long as no two PATCHes of one user
\* overlap.
THEOREM ContradictedSessionsEnd == Spec /\ []OnePatchPerUser => []SurvivorsStraddled
<1>1. SurvivorInv => SurvivorsStraddled
  BY DEF SurvivorInv
<1> QED
  BY <1>1, SurvivorsInvariance, PTL

\* Closing a tenant ends the sessions of its members (tenants.go:63), up to the same
\* failures and under the same condition.
THEOREM ClosedTenantsHaveNoSessions == Spec /\ []OnePatchPerUser => []ClosingEndsSessions
<1>1. SurvivorInv => ClosingEndsSessions
  BY DEF SurvivorInv
<1> QED
  BY <1>1, SurvivorsInvariance, PTL
-----------------------------------------------------------------------------
(***************************************************************************)
(* The last admin.                                                         *)
(***************************************************************************)

\* The seed has an active admin.
LEMMA AdminsStart == Init => AdminInv
<1> SUFFICES ASSUME Init PROVE AdminInv
  OBVIOUS
<1>1. RowAsRead /\ OtherAdminLeft
  BY DEF Init, Idle, RowAsRead, OtherAdminLeft, Patching
<1>2. PICK u \in User : u \in Admins
  BY SessionAssumption
<1>3. u \in ActiveAdmins
  BY <1>2 DEF Init, ActiveAdmins
<1> QED
  BY <1>1, <1>3, SessionsStart DEF AdminInv, SomeActiveAdmin

\* Of two active admins, one is somebody else.
LEMMA AnotherAdmin ==
  ASSUME NEW u, ~(Cardinality(ActiveAdmins) <= 1)
  PROVE  \E v \in ActiveAdmins : v # u
<1>1. IsFiniteSet(ActiveAdmins)
  BY SessionAssumption, FS_Subset DEF ActiveAdmins
<1> SUFFICES ASSUME ActiveAdmins \subseteq {u} PROVE FALSE
  OBVIOUS
<1>2. Cardinality({u}) = 1 /\ IsFiniteSet({u})
  BY FS_Singleton
<1>3. Cardinality(ActiveAdmins) <= 1
  BY <1>1, <1>2, FS_Subset
<1> QED
  BY <1>3

\* The first guard lets a PATCH pass uncounted only if it takes no admin's rights.
LEMMA UncountedKeeps ==
  ASSUME AdminInv, NEW s \in Slot, Reading(s), slot'[s].op = "write", TakesRights(slot[s])'
  PROVE  \E v \in ActiveAdmins : v # slot'[s].user
<1> USE DEF AdminInv
<1>1. PICK n \in Pair, u \in User, r \in Roles \cup {Keep}, t \in {0, 1, Keep},
           m \in Tenants \cup {Keep} : UpdateRead(s, n, u, r, t, m)
  BY DEF Reading
<1> DEFINE demoting  == r = "user" /\ role[u] = "admin"
           disabling == t = 0 /\ status[u] = 1
           next      == IF (demoting \/ disabling) /\ role[u] = "admin" THEN "count" ELSE "write"
<1>2. slot'[s] = [op |-> next, user |-> u, row |-> Snapshot(u), role |-> r, status |-> t, tenant |-> m]
  BY <1>1 DEF UpdateRead, SessionTypes, SlotTypes
<1>3. slot'[s].user = u /\ slot'[s].op = next
      /\ slot'[s].role = r /\ slot'[s].status = t
      /\ slot'[s].row.role = role[u] /\ slot'[s].row.status = status[u]
  BY <1>2 DEF Snapshot
<1>4. ~((demoting \/ disabling) /\ role[u] = "admin")
  BY <1>3
<1>5. u \notin ActiveAdmins
  <2> SUFFICES ASSUME role[u] = "admin", status[u] = 1 PROVE FALSE
    BY DEF ActiveAdmins
  <2>1. r # "user" /\ t # 0
    BY <1>4
  <2>2. Asked(r, role[u]) = "admin" /\ Asked(t, status[u]) = 1
    BY <2>1 DEF Asked, Roles
  <2> QED
    BY <1>3, <2>2 DEF TakesRights, Asked
<1> QED
  BY <1>3, <1>5 DEF SomeActiveAdmin

\* Every action keeps the invariant while PATCHes do not overlap.
LEMMA AdminsStep == AdminInv /\ OnePatch /\ [Next]_vars => AdminInv'
<1> SUFFICES ASSUME AdminInv, OnePatch, [Next]_vars PROVE AdminInv'
  OBVIOUS
<1> USE DEF AdminInv
<1>1. SessionTypes' /\ RowAsRead'
  BY SessionTypesStep, RowAsReadStep DEF OnePatch, OnePatchPerUser
<1>2. ASSUME NEW s \in Slot, UpdateWrite(s) PROVE OtherAdminLeft' /\ SomeActiveAdmin'
  <2>1. slot[s].op = "write" /\ slot[s].user \in User
    BY <1>2, SlotShapes DEF UpdateWrite, SessionTypes
  <2>2. \A z \in Slot : slot'[z].op # "write"
    BY <1>2, <2>1, RequestStep DEF Moves, OnePatch, Patching
  <2>3. /\ \A v \in User : v # slot[s].user => role'[v] = role[v] /\ status'[v] = status[v]
        /\ role'[slot[s].user] = Asked(slot[s].role, slot[s].row.role)
        /\ status'[slot[s].user] = Asked(slot[s].status, slot[s].row.status)
    BY <1>2, <2>1 DEF UpdateWrite, SessionTypes, RowTypes
  <2>4. CASE TakesRights(slot[s])
    <3>1. PICK v \in ActiveAdmins : v # slot[s].user
      BY <2>1, <2>4 DEF OtherAdminLeft
    <3>2. v \in ActiveAdmins'
      BY <2>3, <3>1 DEF ActiveAdmins
    <3> QED
      BY <2>2, <3>2 DEF OtherAdminLeft, SomeActiveAdmin
  <2>5. CASE ~TakesRights(slot[s])
    <3>1. slot[s].user \in { u \in User : role'[u] = "admin" /\ status'[u] = 1 }
      BY <2>1, <2>3, <2>5 DEF TakesRights
    <3>2. SomeActiveAdmin'
      BY <3>1 DEF SomeActiveAdmin, ActiveAdmins
    <3> QED
      BY <2>2, <3>2 DEF OtherAdminLeft
  <2> QED
    BY <2>4, <2>5
<1>3. ASSUME NEW s \in Slot, Moves(s), ~UpdateWrite(s) PROVE OtherAdminLeft' /\ SomeActiveAdmin'
  <2>1. role' = role /\ status' = status
    BY <1>3 DEF Moves, Reading, LoginRead, ResetWrite, RefreshParse, ChangeRead, LoginIssue, RefreshLoad,
       RefreshRotate, ChangeWrite, UpdateCount, UpdateTenant, TenantMembers, Kill, Fail, TenantWrite,
       UpdateRead, rowVars
  <2>2. ActiveAdmins' = ActiveAdmins
    BY <2>1 DEF ActiveAdmins
  <2>3. ASSUME NEW z \in Slot, slot'[z].op = "write", TakesRights(slot[z])'
        PROVE  \E v \in ActiveAdmins : v # slot'[z].user
    <3>1. CASE z # s
      <4>1. slot'[z] = slot[z]
        BY <1>3, <3>1, RequestStep
      <4> QED
        BY <2>3, <4>1 DEF OtherAdminLeft, TakesRights
    <3>2. CASE z = s /\ UpdateCount(s)
      <4>1. ~(Cardinality(ActiveAdmins) <= 1)
        BY <2>3, <3>2 DEF UpdateCount, SessionTypes, SlotTypes, Idle
      <4> QED
        BY <4>1, AnotherAdmin
    <3>3. CASE z = s /\ Reading(s)
      BY <2>3, <3>3, UncountedKeeps
    <3> QED
      BY <1>3, <2>3, <3>1, <3>2, <3>3, RequestStep
  <2> QED
    BY <2>2, <2>3 DEF OtherAdminLeft, SomeActiveAdmin
<1>4. CASE UNCHANGED vars \/ \E n \in Pair : HandleLogout(n)
  <2>1. UNCHANGED <<role, status, slot>>
    BY <1>4 DEF vars, rowVars, HandleLogout
  <2> QED
    BY <1>1, <2>1 DEF OtherAdminLeft, SomeActiveAdmin, ActiveAdmins, TakesRights
<1> QED
  BY <1>1, <1>2, <1>3, <1>4 DEF Next, Moves, Reading

\* An active admin remains (users.go:124-143), as long as no two PATCHes overlap.
THEOREM AnAdminRemains == Spec /\ []OnePatch => []SomeActiveAdmin
<1>1. AdminInv => SomeActiveAdmin
  BY DEF AdminInv
<1> QED
  BY <1>1, AdminsStart, AdminsStep, PTL DEF Spec
=============================================================================
