----------------------------- MODULE PartsProofs -----------------------------
(***************************************************************************)
(* Proofs about the parts of MCParts, each for any sets and any bounds,    *)
(* and about the properties the parts have together.  A part shares no     *)
(* state with the others, so each has an invariant of its own, and a       *)
(* platform that runs several of them runs their specifications at once.   *)
(***************************************************************************)
EXTENDS MCParts, WellFoundedInduction, FiniteSetTheorems, TLAPS

-----------------------------------------------------------------------------
\* Sets of naturals.

\* A set of numbers that is not empty has a least one.
LEMMA LeastNatural ==
  ASSUME NEW S \in SUBSET Nat, S # {}
  PROVE  \E m \in S : \A n \in S : m <= n
<1>1. PICK R : R = { r \in Nat \X Nat : r[1] < r[2] }
  OBVIOUS
<1>2. IsWellFoundedOn(R, Nat)
  BY <1>1, NatLessThanWellFounded, Zenon DEF OpToRel
<1>3. \E m \in S : \A n \in S : <<n, m>> \notin R
  BY <1>2, WFMin, Zenon
<1>4. \A m, n \in Nat : <<n, m>> \notin R => m <= n
  <2> SUFFICES ASSUME NEW m \in Nat, NEW n \in Nat, ~(m <= n) PROVE <<n, m>> \in R
    OBVIOUS
  <2>1. n < m /\ <<n, m>> \in Nat \X Nat /\ <<n, m>>[1] = n /\ <<n, m>>[2] = m
    OBVIOUS
  <2> QED
    BY <1>1, <2>1, Zenon
<1> QED
  BY <1>3, <1>4

-----------------------------------------------------------------------------
(***************************************************************************)
(* SecondFactor for any number of secrets, requests and time steps: the    *)
(* factor is never switched on for a secret no code was checked against,   *)
(* but by a request that another has overtaken.  A request remembers the   *)
(* secret it checked, which is why its update can be judged.               *)
(***************************************************************************)

\* A request between its check and its update has checked the secret it read.
CheckedWhatItRead ==
    /\ DOMAIN totp = TotpCall
    /\ \A c \in TotpCall : totp[c].at # "free" => totp[c].read \in proven

FactorInv == CheckedWhatItRead /\ EnabledIsProven

\* Initially no secret is on.
LEMMA FactorStart == FactorInit => FactorInv
BY DEF FactorInit, FactorInv, CheckedWhatItRead, EnabledIsProven, NoCall

\* Every action keeps the invariant.
LEMMA FactorStep == FactorInv /\ [FactorNext]_factorVars => FactorInv'
<1> SUFFICES ASSUME FactorInv, [FactorNext]_factorVars PROVE FactorInv'
  OBVIOUS
<1> USE DEF FactorInv, CheckedWhatItRead, EnabledIsProven
<1>1. CASE Tick \/ ResetTOTP \/ \E k \in Secret : TypeCode(k)
  BY <1>1 DEF Tick, ResetTOTP, TypeCode
<1>2. CASE Setup
  BY <1>2 DEF Setup, AfterSetup
<1>3. ASSUME NEW c \in TotpCall, NEW kind \in {"enable", "disable"}, NEW code \in typed,
             Check(c, kind, code)
      PROVE  FactorInv'
  <2>1. totp' = [totp EXCEPT ![c] = [at |-> kind, read |-> secret]]
        /\ proven' = proven \cup {secret} /\ UNCHANGED <<secret, enabled, overtaken>>
    BY <1>3 DEF Check
  <2> QED
    BY <2>1
<1>4. ASSUME NEW c \in TotpCall, Enable(c) PROVE FactorInv'
  <2>1. totp[c].read \in proven
    BY <1>4 DEF Enable
  <2> QED
    BY <1>4, <2>1 DEF Enable, NoCall
<1>5. ASSUME NEW c \in TotpCall, Disable(c) \/ UpdateFails(c) PROVE FactorInv'
  BY <1>5 DEF Disable, UpdateFails, NoCall
<1>6. CASE UNCHANGED factorVars
  BY <1>6 DEF factorVars
<1> QED
  BY <1>1, <1>2, <1>3, <1>4, <1>5, <1>6 DEF FactorNext

\* A second factor that is on can be satisfied: a code of its secret has been
\* checked, unless a setup or reset overtook the request that switched it on
\* (account.go:164-175).
THEOREM OnIsProven == FactorSpec => []EnabledIsProven
<1>1. FactorInv => EnabledIsProven
  BY DEF FactorInv
<1> QED
  BY <1>1, FactorStart, FactorStep, PTL DEF FactorSpec

-----------------------------------------------------------------------------
(* The grants of services, for any roles, users and tenants.               *)

\* A PUT answered with ok has left a row of its tenant, unless it found another's.
OwnRow ==
    /\ DOMAIN grants = Target /\ told \subseteq Target \X Tenant
    /\ \A p \in told \ elsewhere : grants[p[1]] = {p[2]}

\* Nothing has been told.
LEMMA GrantsStart == GrantsInit => OwnRow
BY DEF GrantsInit, OwnRow

\* A revocation finds the row of its own tenant, or is the platform's, and either
\* takes back what was said of it.
LEMMA GrantsStep == OwnRow /\ [GrantsNext]_grantVars => OwnRow'
<1> SUFFICES ASSUME OwnRow, [GrantsNext]_grantVars PROVE OwnRow'
  OBVIOUS
<1> USE DEF OwnRow
<1>1. ASSUME NEW t \in Tenant, NEW x \in Target, Grant(t, x) PROVE OwnRow'
  BY <1>1 DEF Grant
<1>2. ASSUME NEW t \in Tenant, NEW x \in Target, Revoke(t, x) PROVE OwnRow'
  <2>1. DOMAIN grants' = Target /\ told' \subseteq told
    BY <1>2 DEF Revoke
  <2>2. ASSUME NEW p \in told' \ elsewhere' PROVE grants'[p[1]] = {p[2]}
    <3>1. p \in told \ elsewhere /\ p[1] \in Target /\ ~(p[1] = x /\ (t = 0 \/ p[2] = t))
      BY <1>2, <2>2 DEF Revoke
    <3>2. p[1] # x
      BY <1>2, <3>1 DEF Revoke, MayRevoke
    <3> QED
      BY <1>2, <3>1, <3>2 DEF Revoke
  <2> QED
    BY <2>1, <2>2
<1>3. CASE UNCHANGED grantVars
  BY <1>3 DEF grantVars
<1> QED
  BY <1>1, <1>2, <1>3 DEF GrantsNext

GrantsSpec == GrantsInit /\ [][GrantsNext]_grantVars

\* GrantsHold is kept by the grants alone.
LEMMA GrantsAlone == GrantsSpec => []GrantsHold
<1>1. OwnRow => GrantsHold
  BY DEF OwnRow, GrantsHold, Sees
<1> QED
  BY <1>1, GrantsStart, GrantsStep, PTL DEF GrantsSpec


-----------------------------------------------------------------------------
(* The providers of svc-ai, for any number of them, of calls and of PATCHes. *)

IsPatch(x) ==
    /\ x = [p |-> x.p, v |-> x.v, on |-> x.on, todo |-> x.todo, alone |-> x.alone]
    /\ x.p \in Provider /\ x.p <= lastId
    /\ x.todo # {} /\ x.todo \subseteq Column /\ x.alone \subseteq x.todo

AiTypes ==
    /\ lastId \in Nat /\ alias \in {0} \cup Provider
    /\ provider = [p \in Provider |-> provider[p]] /\ DOMAIN aiCall = AiCall
    /\ meant = [p \in Provider |-> meant[p]] /\ patch = [e \in Editor |-> patch[e]]
    /\ \A p \in Provider : /\ There(p) => p <= lastId
                           /\ provider[p] = [c \in Column |-> provider[p][c]]
    /\ \A e \in Editor : patch[e] = NoPatch \/ IsPatch(patch[e])

\* Column c of p is yet to be set by e.
IsToWrite(e, p, c) == c \in patch[e].todo /\ patch[e].p = p

\* A PATCH that is alone on a column has yet to set it to what is meant; one that
\* is not leaves it mixed.
Alone ==
    \A e \in Editor : patch[e] # NoPatch =>
        /\ \A c \in patch[e].alone : /\ \A f \in Editor : IsToWrite(f, patch[e].p, c) => f = e
                                     /\ Given(c, patch[e].v, patch[e].on) = meant[patch[e].p][c]
        /\ \A c \in patch[e].todo : c \notin patch[e].alone => <<patch[e].p, c>> \in mixed

\* A column that nobody is to set and that is not mixed is what is meant.
AsMeant ==
    \A p \in Provider, c \in Column :
        There(p) /\ <<p, c>> \notin mixed /\ (\A e \in Editor : ~IsToWrite(e, p, c)) => provider[p][c] = meant[p][c]

AiInv == AiTypes /\ Alone /\ AsMeant /\ CredentialFits

\* Two ways to say that a column is pending.
LEMMA PendingIsHeld ==
  ASSUME AiTypes, NEW p \in Provider
  PROVE  \A c : c \in Pending(p) <=> \E e \in Editor : IsToWrite(e, p, c)
<1>1. \A e \in Editor : \A c : IsToWrite(e, p, c) <=> e \in Patching(p) /\ c \in patch[e].todo
  BY DEF AiTypes, Patching, IsToWrite, NoPatch, IsPatch
<1> QED
  BY <1>1 DEF Pending, Patching

\* No provider, no PATCH and no call.
LEMMA AiStart == AiInit => AiInv
<1> SUFFICES ASSUME AiInit PROVE AiInv
  OBVIOUS
<1>1. NoProvider = [c \in Column |-> NoProvider[c]]
  BY DEF NoProvider, Column
<1> QED
  BY <1>1 DEF AiInit, AiInv, AiTypes, Alone, AsMeant, CredentialFits, There, NoPatch, NoAiCall, IsToWrite

\* A PATCH begins: alone on the columns that nobody is to set, and then nobody
\* else is alone on those it names.
LEMMA AiPatchBegins ==
  ASSUME AiInv, NEW e \in Editor, NEW p \in Provider, NEW named \in SUBSET Column, named # {},
         NEW v, NEW on, Patch(e, p, named, v, on)
  PROVE  AiInv'
<1> USE PendingIsHeld DEF AiInv
<1>1. /\ patch' = [f \in Editor |-> patch'[f]] /\ patch[e] = NoPatch
      /\ patch'[e] = [p |-> p, v |-> v, on |-> on, todo |-> named, alone |-> named \ Pending(p)]
      /\ \A f \in Editor : f # e =>
            patch'[f] = IF f \in Patching(p) THEN [patch[f] EXCEPT !.alone = @ \ named] ELSE patch[f]
  BY DEF Patch
<1>2. /\ patch'[e].p = p /\ patch'[e].v = v /\ patch'[e].on = on /\ patch'[e].todo = named
      /\ patch'[e].alone = named \ Pending(p)
  BY <1>1
<1>3. ASSUME NEW f \in Editor, f # e
      PROVE  \/ patch'[f] = patch[f] /\ (patch[f] # NoPatch => patch[f].p # p)
             \/ /\ patch[f] # NoPatch /\ patch[f].p = p /\ IsPatch(patch[f]) /\ IsPatch(patch'[f])
                /\ patch'[f].p = p /\ patch'[f].v = patch[f].v /\ patch'[f].on = patch[f].on
                /\ patch'[f].todo = patch[f].todo /\ patch'[f].alone = patch[f].alone \ named
  <2>1. CASE f \in Patching(p)
    <3>1. IsPatch(patch[f]) /\ patch[f] # NoPatch /\ patch[f].p = p
      BY <2>1 DEF AiTypes, Patching
    <3>2. patch'[f] = [p |-> p, v |-> patch[f].v, on |-> patch[f].on, todo |-> patch[f].todo,
                       alone |-> patch[f].alone \ named]
      BY <1>1, <1>3, <2>1, <3>1 DEF IsPatch
    <3> QED
      BY <3>1, <3>2 DEF IsPatch
  <2>2. CASE f \notin Patching(p)
    BY <1>1, <1>3, <2>2 DEF Patching
  <2> QED
    BY <2>1, <2>2
<1>4. /\ provider' = provider /\ lastId' = lastId /\ aiCall' = aiCall /\ alias' = alias /\ There(p)
      /\ mixed' = mixed \cup {p} \X (named \cap Pending(p))
      /\ meant' = [q \in Provider |-> meant'[q]]
      /\ \A q \in Provider : q # p => meant'[q] = meant[q]
      /\ \A c \in Column : meant'[p][c] = IF c \in named THEN Given(c, v, on) ELSE meant[p][c]
  BY DEF Patch, AiTypes
<1>5. NoPatch # patch'[e] /\ \A q, c : ~IsToWrite(e, q, c)
  BY <1>1, <1>2 DEF NoPatch, IsToWrite
<1>6. AiTypes'
  <2>1. IsPatch(patch'[e])
    BY <1>1, <1>2, <1>4 DEF IsPatch, AiTypes
  <2>2. \A f \in Editor : patch'[f] = NoPatch \/ IsPatch(patch'[f])
    BY <1>3, <2>1 DEF AiTypes
  <2> QED
    BY <1>1, <1>4, <2>2 DEF AiTypes, There, IsPatch
<1>7. \A f \in Editor, q \in Provider : \A c : f # e => (IsToWrite(f, q, c)' <=> IsToWrite(f, q, c))
  BY <1>3 DEF IsToWrite
<1>8. \A q \in Provider : \A c : IsToWrite(e, q, c)' <=> q = p /\ c \in named
  BY <1>2 DEF IsToWrite
<1>9. Alone'
  <2> SUFFICES ASSUME NEW f \in Editor, patch'[f] # NoPatch, NEW q, q = patch'[f].p
               PROVE  /\ \A c \in patch'[f].alone :
                           /\ \A g \in Editor : IsToWrite(g, q, c)' => g = f
                           /\ Given(c, patch'[f].v, patch'[f].on) = meant'[q][c]
                      /\ \A c \in patch'[f].todo : c \notin patch'[f].alone => <<q, c>> \in mixed'
    BY Zenon DEF Alone, IsToWrite
  <2>1. CASE f = e
    <3>1. \A c \in named : c \in Pending(p) => <<p, c>> \in mixed'
      BY <1>4
    <3>2. \A c \in named : c \notin Pending(p) => \A g \in Editor : IsToWrite(g, p, c)' => g = e
      BY <1>7
    <3> QED
      BY <1>2, <1>4, <2>1, <3>1, <3>2
  <2>2. CASE f # e
    <3>1. patch[f] # NoPatch /\ IsPatch(patch[f])
      BY <1>3, <2>2 DEF AiTypes
    <3>2. CASE patch'[f] = patch[f] /\ patch[f].p # p
      BY <1>4, <1>7, <1>8, <3>1, <3>2 DEF Alone, IsPatch
    <3>3. CASE /\ patch[f].p = p /\ patch'[f].p = p /\ patch'[f].v = patch[f].v /\ patch'[f].on = patch[f].on
               /\ patch'[f].todo = patch[f].todo /\ patch'[f].alone = patch[f].alone \ named
      <4>1. \A c \in patch'[f].alone : /\ \A g \in Editor : IsToWrite(g, p, c)' => g = f
                                       /\ Given(c, patch'[f].v, patch'[f].on) = meant'[p][c]
        BY <1>4, <1>7, <1>8, <3>1, <3>3 DEF Alone, IsPatch
      <4>2. \A c \in patch'[f].todo : c \notin patch'[f].alone => <<p, c>> \in mixed'
        <5> SUFFICES ASSUME NEW c \in patch[f].todo, c \notin patch'[f].alone PROVE <<p, c>> \in mixed'
          BY <3>3
        <5>1. CASE c \in named
          <6>1. c \in Pending(p)
            BY <3>3 DEF IsToWrite
          <6> QED
            BY <1>4, <5>1, <6>1
        <5>2. CASE c \notin named
          BY <1>4, <3>1, <3>3, <5>2 DEF Alone
        <5> QED
          BY <5>1, <5>2
      <4> QED
        BY <3>3, <4>1, <4>2
    <3> QED
      BY <1>3, <2>2, <3>1, <3>2, <3>3
  <2> QED
    BY <2>1, <2>2
<1>10. AsMeant'
  BY <1>4, <1>5, <1>7, <1>8 DEF AsMeant, There
<1> QED
  BY <1>4, <1>6, <1>9, <1>10 DEF CredentialFits

\* The column a PATCH comes to next is one it is to set.
LEMMA NextIsLeft ==
  ASSUME NEW todo \in SUBSET Column, todo # {}
  PROVE  NextColumn(todo) \in todo
BY DEF NextColumn, Column

\* One column is set, or its statement fails and it is mixed.
LEMMA AiColumn ==
  ASSUME AiInv, NEW e \in Editor, NEW works \in BOOLEAN, PatchColumn(e, works)
  PROVE  AiInv'
<1> USE DEF AiInv
<1>1. PICK p \in Provider : p = patch[e].p /\ p <= lastId /\ IsPatch(patch[e]) /\ patch[e] # NoPatch
  BY DEF PatchColumn, AiTypes, IsPatch
<1>2. PICK c \in Column : c = NextColumn(patch[e].todo) /\ c \in patch[e].todo
  BY <1>1, NextIsLeft DEF IsPatch
<1>3. PICK w : w = Given(c, patch[e].v, patch[e].on)
  OBVIOUS
<1>4. /\ provider' = IF works /\ There(p) THEN [provider EXCEPT ![p][c] = w] ELSE provider
      /\ patch' = [patch EXCEPT ![e] = IF patch[e].todo \ {c} = {} THEN NoPatch
                                       ELSE [patch[e] EXCEPT !.todo = patch[e].todo \ {c}, !.alone = @ \ {c}]]
      /\ mixed' = IF ~works THEN mixed \cup {<<p, c>>}
                  ELSE IF c \in patch[e].alone THEN mixed \ {<<p, c>>} ELSE mixed
      /\ lastId' = lastId /\ aiCall' = aiCall /\ alias' = alias /\ meant' = meant
  BY <1>1, <1>2, <1>3 DEF PatchColumn, Left
<1>5. /\ provider' = [q \in Provider |-> provider'[q]]
      /\ \A q \in Provider : /\ q # p => provider'[q] = provider[q]
                             /\ provider'[q] = [d \in Column |-> provider'[q][d]]
                             /\ There(q)' => There(q)
      /\ \A d \in Column : d # c => provider'[p][d] = provider[p][d]
      /\ works /\ There(p) => provider'[p][c] = w
  <2>1. CASE ~(works /\ There(p))
    BY <1>4, <2>1 DEF AiTypes, There
  <2>2. CASE works /\ There(p)
    <3>1. provider' = [provider EXCEPT ![p] = [provider[p] EXCEPT ![c] = w]]
      BY <1>4, <2>2
    <3>2. provider'[p] = [provider[p] EXCEPT ![c] = w]
      BY <3>1 DEF AiTypes
    <3>3. provider'[p] = [d \in Column |-> provider'[p][d]] /\ provider'[p][c] = w
          /\ \A d \in Column : d # c => provider'[p][d] = provider[p][d]
      BY <3>2 DEF AiTypes
    <3> QED
      BY <2>2, <3>1, <3>3 DEF AiTypes, There
  <2> QED
    BY <2>1, <2>2
<1>6. /\ patch' = [f \in Editor |-> patch'[f]] /\ \A f \in Editor : f # e => patch'[f] = patch[f]
      /\ \/ patch'[e] = NoPatch /\ patch[e].todo = {c}
         \/ /\ IsPatch(patch'[e]) /\ patch'[e].p = p /\ patch'[e].v = patch[e].v /\ patch'[e].on = patch[e].on
            /\ patch'[e].todo = patch[e].todo \ {c} /\ patch'[e].alone = patch[e].alone \ {c}
  <2>1. CASE patch[e].todo \ {c} = {}
    BY <1>2, <1>4, <2>1 DEF AiTypes
  <2>2. CASE patch[e].todo \ {c} # {}
    <3>1. patch'[e] = [patch[e] EXCEPT !.todo = patch[e].todo \ {c}, !.alone = @ \ {c}]
      BY <1>4, <2>2 DEF AiTypes
    <3>2. patch'[e] = [p |-> p, v |-> patch[e].v, on |-> patch[e].on, todo |-> patch[e].todo \ {c},
                       alone |-> patch[e].alone \ {c}]
      BY <1>1, <3>1 DEF IsPatch
    <3>3. /\ patch'[e].p = p /\ patch'[e].v = patch[e].v /\ patch'[e].on = patch[e].on
          /\ patch'[e].todo = patch[e].todo \ {c} /\ patch'[e].alone = patch[e].alone \ {c}
      BY <3>2
    <3>4. IsPatch(patch'[e])
      BY <1>1, <2>2, <3>2, <3>3 DEF IsPatch
    <3> QED
      BY <1>4, <3>3, <3>4 DEF AiTypes
  <2> QED
    BY <2>1, <2>2
<1>7. \A f \in Editor, q \in Provider : \A d : IsToWrite(f, q, d)' <=> IsToWrite(f, q, d) /\ ~(f = e /\ d = c)
  BY <1>1, <1>6 DEF IsToWrite, NoPatch
<1>8. IsToWrite(e, p, c) /\ \A q \in Provider : \A d : IsToWrite(e, q, d) => q = p
  BY <1>1, <1>2 DEF IsToWrite
<1>9. c \in patch[e].alone => (\A f \in Editor : IsToWrite(f, p, c) => f = e) /\ w = meant[p][c]
  BY <1>1, <1>3 DEF Alone
<1>10. AiTypes'
  <2>1. \A f \in Editor : patch'[f] = NoPatch \/ IsPatch(patch'[f])
    BY <1>6 DEF AiTypes
  <2> QED
    BY <1>4, <1>5, <1>6, <2>1 DEF AiTypes, IsPatch
<1>11. Alone'
  <2> SUFFICES ASSUME NEW f \in Editor, patch'[f] # NoPatch, NEW q, q = patch'[f].p
               PROVE  /\ \A d \in patch'[f].alone :
                           /\ \A g \in Editor : IsToWrite(g, q, d)' => g = f
                           /\ Given(d, patch'[f].v, patch'[f].on) = meant'[q][d]
                      /\ \A d \in patch'[f].todo : d \notin patch'[f].alone => <<q, d>> \in mixed'
    BY Zenon DEF Alone, IsToWrite
  <2>1. CASE f = e
    <3>1. \A d \in patch[e].alone : /\ \A g \in Editor : IsToWrite(g, p, d) => g = e
                                    /\ Given(d, patch[e].v, patch[e].on) = meant[p][d]
      BY <1>1 DEF Alone
    <3>2. \A d \in patch[e].todo : d # c /\ d \notin patch[e].alone => <<p, d>> \in mixed'
      BY <1>1, <1>4 DEF Alone
    <3> QED
      BY <1>4, <1>6, <1>7, <2>1, <3>1, <3>2
  <2>2. CASE f # e
    <3>1. patch'[f] = patch[f] /\ patch[f] # NoPatch /\ IsPatch(patch[f]) /\ q = patch[f].p
      BY <1>6, <2>2 DEF AiTypes
    <3>2. \A d \in patch[f].alone : /\ \A g \in Editor : IsToWrite(g, q, d)' => g = f
                                    /\ Given(d, patch[f].v, patch[f].on) = meant[q][d]
      BY <1>7, <3>1 DEF Alone, IsPatch
    <3>3. \A d \in patch[f].todo : d \notin patch[f].alone => <<q, d>> \in mixed'
      <4> SUFFICES ASSUME NEW d \in patch[f].todo, d \notin patch[f].alone PROVE <<q, d>> \in mixed'
        OBVIOUS
      <4>1. <<q, d>> \in mixed
        BY <3>1 DEF Alone
      <4>2. c \in patch[e].alone => <<q, d>> # <<p, c>>
        BY <1>9, <2>2, <3>1 DEF IsToWrite
      <4> QED
        BY <1>4, <4>1, <4>2
    <3> QED
      BY <1>4, <3>1, <3>2, <3>3
  <2> QED
    BY <2>1, <2>2
<1>12. AsMeant'
  <2> SUFFICES ASSUME NEW q \in Provider, NEW d \in Column, There(q)', <<q, d>> \notin mixed',
                      \A f \in Editor : ~IsToWrite(f, q, d)'
               PROVE  provider'[q][d] = meant[q][d]
    BY <1>4 DEF AsMeant
  <2>1. There(q)
    BY <1>5
  <2>2. CASE q = p /\ d = c
    <3>1. works
      BY <1>4, <2>2
    <3>2. c \in patch[e].alone
      <4>1. c \notin patch[e].alone => <<p, c>> \in mixed
        BY <1>1, <1>2 DEF Alone
      <4> QED
        BY <1>4, <2>2, <3>1, <4>1
    <3> QED
      BY <1>5, <1>9, <2>1, <2>2, <3>1, <3>2
  <2>3. CASE ~(q = p /\ d = c)
    <3>1. <<q, d>> \notin mixed
      BY <1>4, <2>3
    <3>2. \A f \in Editor : ~IsToWrite(f, q, d)
      BY <1>7, <1>8, <2>3
    <3>3. provider'[q][d] = provider[q][d]
      BY <1>5, <2>3
    <3> QED
      BY <2>1, <3>1, <3>2, <3>3 DEF AsMeant
  <2> QED
    BY <2>2, <2>3
<1> QED
  BY <1>4, <1>10, <1>11, <1>12 DEF CredentialFits

\* A crash ends every PATCH and leaves mixed what it had yet to set.
LEMMA AiEndsInCrash == AiInv /\ AiCrash => AiInv'
<1> SUFFICES ASSUME AiInv, AiCrash PROVE AiInv'
  OBVIOUS
<1> USE DEF AiInv
<1>1. /\ \A e \in Editor : patch'[e] = NoPatch
      /\ patch' = [e \in Editor |-> patch'[e]] /\ provider' = provider /\ lastId' = lastId /\ alias' = alias
      /\ meant' = meant /\ \A c \in AiCall : aiCall'[c].at = "free"
      /\ DOMAIN aiCall' = AiCall
  BY DEF AiCrash, NoPatch, NoAiCall
<1>2. \A p \in Provider, c \in Column : <<p, c>> \notin mixed' => <<p, c>> \notin mixed /\ \A e \in Editor : ~IsToWrite(e, p, c)
  <2> SUFFICES ASSUME NEW p \in Provider, NEW c \in Column, <<p, c>> \notin mixed'
               PROVE  <<p, c>> \notin mixed /\ c \notin Pending(p)
    BY PendingIsHeld
  <2>1. mixed' = mixed \cup UNION { {q} \X Pending(q) : q \in Provider }
    BY DEF AiCrash
  <2>2. c \in Pending(p) => <<p, c>> \in {p} \X Pending(p)
    OBVIOUS
  <2> QED
    BY <2>1, <2>2
<1>3. AiTypes'
  BY <1>1 DEF AiTypes, There
<1>4. Alone'
  BY <1>1 DEF Alone
<1>5. AsMeant'
  BY <1>1, <1>2 DEF AsMeant, There
<1> QED
  BY <1>1, <1>3, <1>4, <1>5 DEF CredentialFits

\* A new provider is in no PATCH, and as meant; one that is deleted is not there.
LEMMA AiProviders ==
  ASSUME AiInv, NEW p \in Provider, (\E v \in Version : CreateProvider(p, v)) \/ DeleteProvider(p)
  PROVE  AiInv'
<1> USE DEF AiInv
<1>1. /\ provider' = [q \in Provider |-> provider'[q]] /\ meant' = [q \in Provider |-> meant'[q]]
      /\ \A q \in Provider : q # p => provider'[q] = provider[q] /\ meant'[q] = meant[q]
      /\ patch' = patch /\ aiCall' = aiCall /\ mixed' = mixed
      /\ lastId' \in Nat /\ lastId <= lastId' /\ alias' \in {0} \cup Provider
  BY AiAssumption DEF CreateProvider, DeleteProvider, AiTypes
<1>2. \/ provider'[p] = NoProvider /\ meant' = meant
      \/ /\ (\A e \in Editor : patch[e] # NoPatch => patch[e].p # p) /\ p <= lastId'
         /\ provider'[p] = meant'[p]
         /\ \E v \in Version : provider'[p] = [url |-> v, key |-> v, on |-> TRUE]
  <2>1. CASE DeleteProvider(p)
    BY <2>1 DEF DeleteProvider, AiTypes
  <2>2. CASE \E v \in Version : CreateProvider(p, v)
    <3>1. p = lastId + 1 /\ lastId' = p /\ lastId \in Nat
      BY <2>2 DEF CreateProvider, AiTypes
    <3>2. \A e \in Editor : patch[e] # NoPatch => patch[e].p # p
      BY <3>1 DEF AiTypes, IsPatch
    <3>3. PICK v \in Version : /\ provider' = [provider EXCEPT ![p] = [url |-> v, key |-> v, on |-> TRUE]]
                               /\ meant' = [meant EXCEPT ![p] = [url |-> v, key |-> v, on |-> TRUE]]
      BY <2>2 DEF CreateProvider
    <3>4. provider'[p] = [url |-> v, key |-> v, on |-> TRUE] /\ meant'[p] = [url |-> v, key |-> v, on |-> TRUE]
      BY <3>3 DEF AiTypes
    <3>5. p <= lastId'
      BY <3>1
    <3> QED
      BY <3>2, <3>4, <3>5, Zenon
  <2> QED
    BY <2>1, <2>2
<1>3. provider'[p] = [c \in Column |-> provider'[p][c]]
  <2>1. CASE provider'[p] = NoProvider
    BY <2>1 DEF NoProvider, Column
  <2>2. CASE \E v \in Version : provider'[p] = [url |-> v, key |-> v, on |-> TRUE]
    BY <2>2 DEF Column
  <2> QED
    BY <1>2, <2>1, <2>2
<1>4. \A q \in Provider : q # p => (There(q)' <=> There(q))
  BY <1>1 DEF There
<1>5. \A e \in Editor : patch[e] # NoPatch => meant'[patch[e].p] = meant[patch[e].p]
  BY <1>1, <1>2 DEF AiTypes, IsPatch
<1>6. There(p)' => provider'[p] = meant'[p] /\ p <= lastId'
  BY <1>2 DEF There
<1>7. AiTypes'
  <2>1. \A e \in Editor : patch[e] = NoPatch \/ (IsPatch(patch[e]) /\ patch[e].p <= lastId')
    BY <1>1, AiAssumption DEF AiTypes, IsPatch
  <2>2. \A q \in Provider : /\ There(q)' => q <= lastId'
                           /\ provider'[q] = [c \in Column |-> provider'[q][c]]
    BY <1>1, <1>3, <1>4, <1>6, AiAssumption DEF AiTypes
  <2> QED
    BY <1>1, <2>1, <2>2 DEF AiTypes, IsPatch
<1>8. Alone'
  BY <1>1, <1>5 DEF Alone, IsToWrite
<1>9. AsMeant'
  BY <1>1, <1>4, <1>6 DEF AsMeant, IsToWrite
<1> QED
  BY <1>1, <1>7, <1>8, <1>9 DEF CredentialFits

\* A call is routed to a provider as it stands: what is settled is as meant.
LEMMA AiCalls ==
  ASSUME AiInv, NEW c \in AiCall, Fallback(c) \/ CallOut(c) \/ \E named \in BOOLEAN : CallIn(c, named)
  PROVE  AiInv'
<1> USE DEF AiInv
<1>1. /\ provider' = provider /\ lastId' = lastId /\ patch' = patch /\ mixed' = mixed /\ alias' = alias
      /\ meant' = meant /\ DOMAIN aiCall' = AiCall
      /\ \A d \in AiCall : d # c => aiCall'[d] = aiCall[d]
  BY DEF Fallback, CallOut, CallIn, AiTypes
<1>2. \/ aiCall'[c].at \in {"free", "fallback"}
      \/ \E p \in Provider : There(p) /\ aiCall'[c] = Routed(p)
  <2>1. CASE CallOut(c)
    BY <2>1 DEF CallOut, AiTypes, NoAiCall
  <2>2. ASSUME NEW named \in BOOLEAN, CallIn(c, named)
        PROVE  aiCall'[c].at = "fallback" \/ \E p \in Provider : There(p) /\ aiCall'[c] = Routed(p)
    <3>1. CASE named /\ alias # 0 /\ On(alias)
      BY <2>2, <3>1 DEF CallIn, AiTypes, On
    <3>2. CASE ~(named /\ alias # 0 /\ On(alias))
      BY <2>2, <3>2 DEF CallIn, AiTypes
    <3> QED
      BY <3>1, <3>2
  <2>3. CASE Fallback(c)
    <3>1. PICK on : on = { p \in Provider : On(p) }
      OBVIOUS
    <3>2. CASE on = {}
      BY <2>3, <3>1, <3>2 DEF Fallback, AiTypes, NoAiCall
    <3>3. CASE on # {}
      <4>1. on \in SUBSET Nat
        BY <3>1, AiAssumption
      <4>2. \E p \in on : \A q \in on : p <= q
        BY <3>3, <4>1, LeastNatural
      <4>3. PICK p : p = CHOOSE x \in on : \A q \in on : x <= q
        OBVIOUS
      <4>4. p \in on
        BY <4>2, <4>3, Zenon
      <4>5. aiCall' = [aiCall EXCEPT ![c] = IF on = {} THEN NoAiCall ELSE Routed(p)]
        BY <2>3, <3>1, <4>3 DEF Fallback
      <4>6. aiCall'[c] = Routed(p)
        BY <3>3, <4>5 DEF AiTypes
      <4> QED
        BY <3>1, <4>4, <4>6 DEF On
    <3> QED
      BY <3>2, <3>3
  <2> QED
    BY <2>1, <2>2, <2>3
<1>3. aiCall'[c].at = "routed" => \A col \in aiCall'[c].settled : aiCall'[c].route[col] = aiCall'[c].meant[col]
  <2> SUFFICES ASSUME NEW p \in Provider, There(p), aiCall'[c] = Routed(p), NEW col \in aiCall'[c].settled
               PROVE  aiCall'[c].route[col] = aiCall'[c].meant[col]
    BY <1>2
  <2>1. /\ aiCall'[c].route = provider[p] /\ aiCall'[c].meant = meant[p]
        /\ aiCall'[c].settled = { d \in Column \ Pending(p) : <<p, d>> \notin mixed }
    BY DEF Routed
  <2>2. provider[p][col] = meant[p][col]
    BY <2>1, PendingIsHeld DEF AsMeant
  <2> QED
    BY <2>1, <2>2
<1>4. AiTypes' /\ Alone' /\ AsMeant'
  BY <1>1 DEF AiTypes, Alone, AsMeant, IsToWrite, There, IsPatch
<1> QED
  BY <1>1, <1>3, <1>4 DEF CredentialFits

\* The alias and the virtual key are of no account to it.
LEMMA AiStep == AiInv /\ [AiNext]_aiVars => AiInv'
<1> SUFFICES ASSUME AiInv, [AiNext]_aiVars PROVE AiInv'
  OBVIOUS
<1>1. ASSUME provider' = provider, lastId' = lastId, patch' = patch, mixed' = mixed, meant' = meant,
             aiCall' = aiCall, alias' \in {0} \cup Provider
      PROVE  AiInv'
  BY <1>1 DEF AiInv, AiTypes, Alone, AsMeant, CredentialFits, IsToWrite, There, IsPatch
<1>2. ASSUME NEW p \in Provider, (\E v \in Version : CreateProvider(p, v)) \/ DeleteProvider(p) PROVE AiInv'
  BY <1>2, AiProviders
<1>3. ASSUME NEW p \in Provider, NEW v \in Version, NEW e \in Editor, NEW on \in BOOLEAN,
             NEW named \in (SUBSET Column) \ {{}}, Patch(e, p, named, v, on)
      PROVE  AiInv'
  <2>1. named \in SUBSET Column /\ named # {}
    OBVIOUS
  <2> QED
    BY <1>3, <2>1, AiPatchBegins
<1>4. ASSUME NEW e \in Editor, NEW works \in BOOLEAN, PatchColumn(e, works) PROVE AiInv'
  BY <1>4, AiColumn
<1>5. ASSUME NEW c \in AiCall, Fallback(c) \/ CallOut(c) \/ \E named \in BOOLEAN : CallIn(c, named) PROVE AiInv'
  BY <1>5, AiCalls
<1>6. CASE AiCrash
  BY <1>6, AiEndsInCrash
<1>7. CASE UNCHANGED aiVars
  BY <1>1, <1>7 DEF aiVars, AiInv, AiTypes
<1>8. ASSUME NEW p \in Provider, CreateAlias(p) PROVE AiInv'
  BY <1>1, <1>8 DEF CreateAlias
<1>9. CASE DeleteAlias \/ CreateKey \/ UpdateKey \/ DeleteKey
  BY <1>1, <1>9 DEF DeleteAlias, CreateKey, UpdateKey, DeleteKey, KeyEdit, AiInv, AiTypes
<1> QED
  BY <1>2, <1>3, <1>4, <1>5, <1>6, <1>7, <1>8, <1>9 DEF AiNext

AiSpec == AiInit /\ [][AiNext]_aiVars

\* CredentialFits is kept by svc-ai alone.
LEMMA AiAlone == AiSpec => []CredentialFits
<1>1. AiInv => CredentialFits
  BY DEF AiInv
<1> QED
  BY <1>1, AiStart, AiStep, PTL DEF AiSpec

-----------------------------------------------------------------------------
(* The apps of partners, for any lifetimes, quotas and usage.              *)

IsAsking(x) ==
    /\ x = [at |-> x.at, since |-> x.since, quota |-> x.quota, free |-> x.free]
    /\ x.at \in {"log", "sign"} /\ x.free \in BOOLEAN
    /\ x.since \in Nat /\ x.since <= appsNow /\ appsNow <= x.since + AskTime

AppsTypes ==
    /\ appsNow \in Nat /\ console.got \in Nat /\ console.until \in Nat
    /\ console.until <= console.got + 1 + CacheFor
    /\ asking = [a \in Asker |-> asking[a]]
    /\ \A a \in Asker : asking[a] = NotAsking \/ IsAsking(asking[a])
    /\ \A tok \in appTokens : tok.at \in Nat /\ tok.at <= appsNow /\ tok.at + AppTokenTTL > appsNow

\* While the log shows the quota used up, every token that was checked was asked
\* for before; so was every one that waits for its signature; and a request that
\* came later will be told of the quota it read.
FullForTokens ==
    fullSince # NotFull =>
        /\ fullSince \in Nat /\ fullSince <= appsNow
        /\ app.quota # 0 /\ ~(Usage(logged, appsNow) < app.quota)
        /\ \A tok \in appTokens : tok.free \/ tok.at <= fullSince + AskTime
        /\ \A a \in Asker :
              /\ asking[a].at = "sign" => asking[a].free \/ asking[a].since <= fullSince
              /\ asking[a].at = "log" => asking[a].quota = app.quota \/ asking[a].since <= fullSince

AppsInv == AppsTypes /\ FullForTokens /\ OverrunBounded

\* Nothing is issued, and nothing is cached.
LEMMA AppsStart == AppsInit => AppsInv
BY AppsAssumption DEF AppsInit, AppsInv, AppsTypes, FullForTokens, OverrunBounded, NotFull, NotAsking

\* Whatever the log and the quota become, the tokens and the requests for them
\* are those there were.
LEMMA AppsStillFull ==
  ASSUME AppsInv, appTokens' \subseteq appTokens, appsNow' \in Nat, appsNow <= appsNow', asking' = asking,
         fullSince' = StillFull(app', logged', appsNow')
  PROVE  FullForTokens'
<1>1. PICK u, q : u = Usage(logged, appsNow)' /\ q = app'.quota
  OBVIOUS
<1>2. fullSince' = IF q = 0 \/ u < q THEN NotFull
                   ELSE IF fullSince = NotFull \/ q # app.quota THEN appsNow' ELSE fullSince
  BY <1>1 DEF StillFull
<1>3. /\ \A tok \in appTokens' : tok.at \in Nat /\ tok.at <= appsNow'
      /\ \A a \in Asker : asking[a].at \in {"log", "sign"} => asking[a].since \in Nat /\ asking[a].since <= appsNow'
  BY DEF AppsInv, AppsTypes, IsAsking, NotAsking
<1>4. fullSince' # NotFull =>
        /\ q # 0 /\ ~(u < q) /\ fullSince' \in Nat /\ fullSince' <= appsNow'
        /\ \A tok \in appTokens' : tok.free \/ tok.at <= fullSince' + AskTime
        /\ \A a \in Asker :
              /\ asking[a].at = "sign" => asking[a].free \/ asking[a].since <= fullSince'
              /\ asking[a].at = "log" => asking[a].quota = q \/ asking[a].since <= fullSince'
  BY <1>2, <1>3, AppsAssumption DEF AppsInv, AppsTypes, FullForTokens
<1> QED
  BY <1>1, <1>4 DEF FullForTokens, NotFull

\* A request reads the quota there is; the log lets it pass only if it is not used
\* up, or it read another one, or the log was not asked.
LEMMA AppsAsk ==
  ASSUME AppsInv, NEW a \in Asker, AskLog(a) \/ SignToken(a) \/ \E key : AskToken(a, key)
  PROVE  AppsInv'
<1> USE AppsAssumption DEF AppsInv
<1>1. /\ appsNow' = appsNow /\ console' = console /\ fullSince' = fullSince /\ app' = app /\ logged' = logged
      /\ overrun' = overrun
  BY DEF AskLog, SignToken, AskToken
<1>2. /\ asking' = [b \in Asker |-> asking'[b]] /\ \A b \in Asker : b # a => asking'[b] = asking[b]
  BY DEF AskLog, SignToken, AskToken, AppsTypes
<1>3. /\ asking'[a] = NotAsking \/ IsAsking(asking'[a])
      /\ asking'[a].at = "sign" => \/ asking'[a].free
                                   \/ app.quota = 0
                                   \/ /\ asking[a].at = "log" /\ asking'[a].since = asking[a].since
                                      /\ Usage(logged, appsNow) < asking[a].quota
      /\ asking'[a].at = "log" => asking'[a].quota = app.quota
      /\ \A tok \in appTokens' : \/ tok \in appTokens
                                 \/ /\ tok.at = appsNow /\ IsAsking(asking[a]) /\ asking[a].at = "sign"
                                    /\ tok.free = asking[a].free
  <2>1. CASE AskLog(a)
    <3>1. asking[a].at = "log" /\ IsAsking(asking[a]) /\ appTokens' = appTokens
      BY <2>1 DEF AskLog, AppsTypes, NotAsking
    <3>2. CASE asking'[a] = NotAsking
      BY <3>1, <3>2 DEF NotAsking
    <3>3. CASE asking' = [asking EXCEPT ![a].at = "sign"] /\ WithinQuota(Usage(logged, appsNow), asking[a].quota)
      <4>1. asking'[a] = [at |-> "sign", since |-> asking[a].since, quota |-> asking[a].quota, free |-> asking[a].free]
        BY <3>1, <3>3 DEF AppsTypes, IsAsking
      <4>2. IsAsking(asking'[a]) /\ asking'[a].since = asking[a].since /\ asking'[a].at = "sign"
        BY <3>1, <4>1 DEF IsAsking
      <4> QED
        BY <3>1, <3>3, <4>2 DEF WithinQuota
    <3>4. CASE asking' = [asking EXCEPT ![a].at = "sign", ![a].free = TRUE]
      <4>1. asking'[a] = [at |-> "sign", since |-> asking[a].since, quota |-> asking[a].quota, free |-> TRUE]
        BY <3>1, <3>4 DEF AppsTypes, IsAsking
      <4>2. IsAsking(asking'[a]) /\ asking'[a].free /\ asking'[a].at = "sign"
        BY <3>1, <4>1 DEF IsAsking
      <4> QED
        BY <3>1, <4>2
    <3> QED
      BY <2>1, <3>2, <3>3, <3>4 DEF AskLog, AppsTypes
  <2>2. CASE SignToken(a)
    <3>1. asking[a].at = "sign" /\ IsAsking(asking[a]) /\ asking'[a] = NotAsking
      BY <2>2 DEF SignToken, AppsTypes, NotAsking
    <3> QED
      BY <2>2, <3>1 DEF SignToken, NotAsking
  <2>3. ASSUME NEW key, AskToken(a, key)
        PROVE  /\ IsAsking(asking'[a]) /\ appTokens' = appTokens
               /\ asking'[a].at = "sign" => app.quota = 0
               /\ asking'[a].at = "log" => asking'[a].quota = app.quota
    <3>1. asking'[a] = [at |-> IF app.quota = 0 THEN "sign" ELSE "log", since |-> appsNow,
                        quota |-> app.quota, free |-> FALSE]
      BY <2>3 DEF AskToken, AppsTypes
    <3>2. PICK at \in {"log", "sign"} : at = (IF app.quota = 0 THEN "sign" ELSE "log")
      BY Zenon
    <3>3. asking'[a] = [at |-> at, since |-> appsNow, quota |-> app.quota, free |-> FALSE]
      BY <3>1, <3>2
    <3>4. asking'[a].at = at /\ asking'[a].quota = app.quota
      BY <3>3
    <3>5. IsAsking(asking'[a])
      BY <3>3 DEF IsAsking, AppsTypes
    <3> QED
      BY <2>3, <3>2, <3>4, <3>5 DEF AskToken
  <2> QED
    BY <2>1, <2>2, <2>3
<1>4. AppsTypes'
  <2>1. \A tok \in appTokens' : tok.at \in Nat /\ tok.at <= appsNow /\ tok.at + AppTokenTTL > appsNow
    BY <1>3 DEF AppsTypes
  <2> QED
    BY <1>1, <1>2, <1>3, <2>1 DEF AppsTypes, IsAsking
<1>5. FullForTokens'
  <2> SUFFICES ASSUME fullSince # NotFull
               PROVE  /\ \A tok \in appTokens' : tok.free \/ tok.at <= fullSince + AskTime
                      /\ \A b \in Asker :
                           /\ asking'[b].at = "sign" => asking'[b].free \/ asking'[b].since <= fullSince
                           /\ asking'[b].at = "log" => asking'[b].quota = app.quota \/ asking'[b].since <= fullSince
    BY <1>1 DEF FullForTokens, NotFull
  <2>1. \A tok \in appTokens' : tok.free \/ tok.at <= fullSince + AskTime
    <3> SUFFICES ASSUME NEW tok \in appTokens', tok \notin appTokens
                 PROVE  tok.free \/ tok.at <= fullSince + AskTime
      BY DEF FullForTokens
    <3>1. /\ tok.at = appsNow /\ IsAsking(asking[a]) /\ asking[a].at = "sign" /\ tok.free = asking[a].free
      BY <1>3
    <3>2. asking[a].free \/ asking[a].since <= fullSince
      BY <3>1 DEF FullForTokens
    <3>3. asking[a].since <= fullSince => tok.at <= fullSince + AskTime
      <4>1. fullSince \in Nat /\ appsNow \in Nat
        BY DEF FullForTokens, AppsTypes
      <4>2. asking[a].since \in Nat /\ appsNow <= asking[a].since + AskTime
        BY <3>1, Zenon DEF IsAsking
      <4> QED
        BY <3>1, <4>1, <4>2
    <3>4. tok.free = asking[a].free
      BY <3>1
    <3> QED
      BY <3>2, <3>3, <3>4, Zenon
  <2>2. asking'[a].at = "sign" => asking'[a].free \/ asking'[a].since <= fullSince
    BY <1>3 DEF FullForTokens
  <2> QED
    BY <1>2, <1>3, <2>1, <2>2 DEF FullForTokens
<1> QED
  BY <1>1, <1>4, <1>5 DEF OverrunBounded

\* A token that was checked was asked for before the quota was used up, and is
\* not older than its lifetime.
LEMMA AppsServe ==
  ASSUME AppsInv, NEW tok \in appTokens, Serve(tok)
  PROVE  AppsInv'
<1> USE AppsAssumption DEF AppsInv
<1>1. UNCHANGED <<app, asking, appTokens, logged, console, appsNow, fullSince>>
  BY DEF Serve
<1>2. ~(~tok.free /\ fullSince # NotFull /\ appsNow >= fullSince + AskTime + AppTokenTTL)
  BY DEF AppsTypes, FullForTokens
<1>3. ~overrun'
  BY <1>2, Zenon DEF Serve, OverrunBounded
<1> QED
  BY <1>1, <1>3 DEF AppsTypes, IsAsking, FullForTokens, OverrunBounded, NotFull

\* Every step of the apps keeps it.
LEMMA AppsStep == AppsInv /\ [AppsNext]_appsVars => AppsInv'
<1> SUFFICES ASSUME AppsInv, [AppsNext]_appsVars PROVE AppsInv'
  OBVIOUS
<1> USE AppsAssumption DEF AppsInv
<1>1. ASSUME NEW late \in {0, 1}, FetchToken(late) PROVE AppsInv'
  BY <1>1 DEF FetchToken, AppsTypes, IsAsking, FullForTokens, OverrunBounded, NotFull
<1>2. ASSUME NEW q \in Quota, CreateApp(q) PROVE AppsInv'
  BY <1>2 DEF CreateApp, Unregistered, AppsTypes, IsAsking, FullForTokens, OverrunBounded, NotFull
<1>3. ASSUME NEW q \in Quota, NEW status \in {0, 1}, UpdateApp(q, status) PROVE AppsInv'
  <2>1. FullForTokens'
    BY <1>3, AppsStillFull DEF UpdateApp, AppsTypes, StillFull
  <2> QED
    BY <1>3, <2>1 DEF UpdateApp, AppsTypes, IsAsking, OverrunBounded
<1>4. CASE Rotate
  <2>1. app'.quota = app.quota
    BY <1>4 DEF Rotate
  <2> QED
    BY <1>4, <2>1 DEF Rotate, AppsTypes, IsAsking, FullForTokens, OverrunBounded, NotFull
<1>5. CASE AppsTick
  <2>1. FullForTokens'
    BY <1>5, AppsStillFull DEF AppsTick, AppsTypes, StillFull
  <2> QED
    BY <1>5, <2>1 DEF AppsTick, AppsTypes, IsAsking, OverrunBounded
<1>6. ASSUME NEW a \in Asker, AskLog(a) \/ SignToken(a) \/ \E key : AskToken(a, key) PROVE AppsInv'
  BY <1>6, AppsAsk
<1>7. ASSUME NEW tok \in appTokens, Serve(tok) PROVE AppsInv'
  BY <1>7, AppsServe
<1>8. ASSUME NEW t \in Times, Ship(t) PROVE AppsInv'
  <2>1. FullForTokens'
    BY <1>8, AppsStillFull DEF Ship, AppsTypes, StillFull
  <2> QED
    BY <1>8, <2>1 DEF Ship, AppsTypes, IsAsking, OverrunBounded
<1>9. CASE UNCHANGED appsVars
  BY <1>9 DEF appsVars, AppsTypes, IsAsking, FullForTokens, OverrunBounded, NotFull
<1> QED
  BY <1>1, <1>2, <1>3, <1>4, <1>5, <1>6, <1>7, <1>8, <1>9 DEF AppsNext

AppsSpec == AppsInit /\ [][AppsNext]_appsVars

\* AppsHold is kept by the apps alone.
LEMMA AppsAlone == AppsSpec => []AppsHold
<1>1. AppsInv => AppsHold
  BY AppsAssumption DEF AppsInv, AppsTypes, AppsHold, ConsoleTokenLives, ConsoleReady
<1> QED
  BY <1>1, AppsStart, AppsStep, PTL DEF AppsSpec

-----------------------------------------------------------------------------
(* Administration, by all its parts.                                       *)

\* What an app, a service or a provider is given stays within what an admin set,
\* for any number of them: auth/apps.go:58, svc-grants/main.go:184, svc-ai/admin.go:116.
THEOREM AdministrationIsKept == AppsSpec /\ GrantsSpec /\ AiSpec => []AdministrationHolds
BY AppsAlone, GrantsAlone, AiAlone, PTL DEF AdministrationHolds

-----------------------------------------------------------------------------
(* External identities and registrations, for any of them.                 *)

\* A login that has read an identity knows the user its name stands for, and unless
\* it was overlapped nobody has bound the identity to another.
LoginTypes ==
    /\ login = [c \in LoginCall |-> login[c]] /\ DOMAIN identities = External
    /\ users \subseteq Name
    /\ \A c \in LoginCall :
        \/ login[c] = NoLogin
        \/ /\ login[c].e \in External /\ login[c].at \in {"provision", "bind"}
           /\ login[c].at = "bind" => login[c].user = NameOf[login[c].e]
LoginsKnow ==
    \A c \in LoginCall :
        login[c].at # "free" /\ login[c].e \notin overlapped => identities[login[c].e] \in {"none", NameOf[login[c].e]}

\* Only users sign in, and they are bound from then on.
SignedInTypes ==
    \A s \in signedIn : s = <<s[1], s[2]>> /\ s[1] \in External /\ s[2] # "none"
IdentityInv == LoginTypes /\ LoginsKnow /\ SignedInTypes /\ SameAccount

\* Since[k]: those let through, and those remembered, from k on.
RegisteredSince(k) == { r \in registered : r[1] >= k }
HitsSince(k)       == { x \in hits : x[1] >= k }
LimiterTypes ==
    /\ hour \in Nat /\ IsFiniteSet(hits) /\ IsFiniteSet(registered)
    /\ \A x \in hits : x = <<x[1], x[2]>> /\ x[1] \in Nat /\ x[2] \in Nat /\ x[1] <= hour
    /\ \A x \in registered : x[1] \in Nat /\ x[1] <= hour

\* What the limiter remembers within the window accounts for what it let through,
\* and it numbers what it remembers of this hour.
HitsAccount ==
    /\ \A k \in Int : k > hour - RegisterWindow => Cardinality(RegisteredSince(k)) <= Cardinality(HitsSince(k))
    /\ Cardinality(Remembered) <= RegisterMax
    /\ \A x \in hits : x[1] = hour => x[2] < Cardinality(Remembered)
LimiterInv == LimiterTypes /\ HitsAccount /\ RegistrationsLimited

\* Nobody has signed in.
LEMMA IdentitiesStart == AccountsInit => IdentityInv
BY AccountsAssumption DEF AccountsInit, IdentityInv, LoginTypes, LoginsKnow, SignedInTypes, SameAccount, NoLogin

\* The first statement of a login.
LEMMA LookUpKeeps ==
  ASSUME IdentityInv, NEW c \in LoginCall, NEW e \in External, LookUp(c, e)
  PROVE  IdentityInv'
<1> USE AccountsAssumption DEF IdentityInv
<1>1. identities' = identities /\ users' = users /\ overlapped \subseteq overlapped'
  BY DEF LookUp
<1>2. CASE identities[e] # "none" /\ signedIn' = signedIn \cup {<<e, identities[e]>>}
           /\ UNCHANGED <<login, overlapped>>
  BY <1>1, <1>2 DEF LoginTypes, LoginsKnow, SignedInTypes, SameAccount
<1>3. CASE /\ login' = [login EXCEPT ![c] = [at |-> "provision", e |-> e]] /\ signedIn' = signedIn
           /\ identities[e] = "none" \/ e \in overlapped'
  <2>1. /\ login' = [d \in LoginCall |-> login'[d]]
        /\ login'[c] = [at |-> "provision", e |-> e] /\ \A d \in LoginCall : d # c => login'[d] = login[d]
    BY <1>3 DEF LoginTypes
  <2>2. login'[c].at = "provision" /\ login'[c].e = e
    BY <2>1
  <2> QED
    BY <1>1, <1>3, <2>1, <2>2 DEF LoginTypes, LoginsKnow, SignedInTypes, SameAccount
<1> QED
  BY <1>2, <1>3 DEF LookUp

\* The second: whoever has the name is the user.
LEMMA ProvisionKeeps ==
  ASSUME IdentityInv, NEW c \in LoginCall, Provision(c)
  PROVE  IdentityInv'
<1> USE AccountsAssumption DEF IdentityInv
<1>1. PICK e \in External : login[c].at = "provision" /\ login[c].e = e
  BY DEF Provision, LoginTypes, NoLogin
<1>2. /\ login' = [d \in LoginCall |-> login'[d]]
      /\ login'[c] = [at |-> "bind", e |-> e, user |-> NameOf[e]]
      /\ \A d \in LoginCall : d # c => login'[d] = login[d]
      /\ identities' = identities /\ signedIn' = signedIn /\ overlapped' = overlapped
      /\ users' \subseteq Name
  BY <1>1 DEF Provision, LoginTypes, AccountOf
<1>3. login'[c].at = "bind" /\ login'[c].e = e /\ login'[c].user = NameOf[e]
  BY <1>2
<1> QED
  BY <1>1, <1>2, <1>3 DEF LoginTypes, LoginsKnow, SignedInTypes, SameAccount

\* The third: it binds the identity, or finds it bound to the same user.
LEMMA BindFirstKeeps ==
  ASSUME IdentityInv, NEW c \in LoginCall, BindFirst(c)
  PROVE  IdentityInv'
<1> USE AccountsAssumption DEF IdentityInv
<1>1. PICK e \in External : login[c].at = "bind" /\ login[c].e = e /\ login[c].user = NameOf[e]
  BY DEF BindFirst, LoginTypes, NoLogin
<1>2. /\ DOMAIN identities' = External /\ \A f \in External : f # e => identities'[f] = identities[f]
      /\ identities'[e] = IF identities[e] = "none" THEN NameOf[e] ELSE identities[e]
      /\ signedIn' = signedIn \cup {<<e, NameOf[e]>>}
      /\ login' = [d \in LoginCall |-> login'[d]] /\ login'[c] = NoLogin
      /\ \A d \in LoginCall : d # c => login'[d] = login[d]
      /\ users' = users /\ overlapped' = overlapped
  BY <1>1 DEF BindFirst, LoginTypes
<1>3. e \notin overlapped => identities'[e] = NameOf[e]
  BY <1>1, <1>2 DEF LoginsKnow
<1>4. LoginTypes' /\ SignedInTypes'
  BY <1>2 DEF LoginTypes, SignedInTypes
<1>5. LoginsKnow'
  BY <1>2, <1>3 DEF LoginsKnow, LoginTypes, NoLogin
<1>6. SameAccount'
  BY <1>2, <1>3 DEF SameAccount, SignedInTypes
<1> QED
  BY <1>4, <1>5, <1>6

\* A binding from the console marks the identity when a login is between its
\* statements; the rest only ends logins or adds users.
LEMMA OtherLoginSteps ==
  ASSUME IdentityInv,
         \/ \E c \in LoginCall : LoginFails(c)
         \/ Restart \/ HourPasses
         \/ \E n \in Name : Register(n) \/ CreateUser(n) \/ \E e \in External : BindExternal(n, e)
  PROVE  IdentityInv'
<1> USE AccountsAssumption DEF IdentityInv
<1>1. ASSUME NEW c \in LoginCall, LoginFails(c) PROVE IdentityInv'
  BY <1>1 DEF LoginFails, LoginTypes, LoginsKnow, SignedInTypes, SameAccount, NoLogin
<1>2. CASE Restart
  BY <1>2 DEF Restart, LoginTypes, LoginsKnow, SignedInTypes, SameAccount, NoLogin
<1>3. CASE HourPasses
  BY <1>3 DEF HourPasses, loginVars, LoginTypes, LoginsKnow, SignedInTypes, SameAccount
<1>4. ASSUME NEW n \in Name, Register(n) \/ CreateUser(n) PROVE IdentityInv'
  BY <1>4 DEF Register, CreateUser, LoginTypes, LoginsKnow, SignedInTypes, SameAccount
<1>5. ASSUME NEW n \in Name, NEW e \in External, BindExternal(n, e) PROVE IdentityInv'
  <2>1. /\ DOMAIN identities' = External /\ \A f \in External : f # e => identities'[f] = identities[f]
        /\ identities[e] = "none" /\ login' = login /\ signedIn' = signedIn /\ users' = users
        /\ overlapped \subseteq overlapped'
        /\ \A c \in LoginCall : login[c] # NoLogin /\ login[c].e = e => e \in overlapped'
    BY <1>5 DEF BindExternal, LoginTypes
  <2>2. LoginTypes' /\ SignedInTypes'
    BY <2>1 DEF LoginTypes, SignedInTypes
  <2>3. LoginsKnow'
    BY <2>1 DEF LoginsKnow, LoginTypes, NoLogin
  <2>4. SameAccount'
    BY <2>1 DEF SameAccount, SignedInTypes
  <2> QED
    BY <2>2, <2>3, <2>4
<1> QED
  BY <1>1, <1>2, <1>3, <1>4, <1>5

\* The process has just started.
LEMMA LimiterStart == AccountsInit => LimiterInv
<1> SUFFICES ASSUME AccountsInit PROVE LimiterInv
  OBVIOUS
<1>1. hits = {} /\ registered = {} /\ hour = RegisterWindow
  BY DEF AccountsInit
<1>2. \A k : RegisteredSince(k) = {} /\ HitsSince(k) = {} /\ Remembered = {}
  BY <1>1 DEF RegisteredSince, HitsSince, Remembered
<1>3. Cardinality({}) = 0 /\ IsFiniteSet({})
  BY FS_EmptySet
<1>4. LimiterTypes
  BY <1>1, <1>3, AccountsAssumption DEF LimiterTypes
<1>5. HitsAccount
  BY <1>1, <1>2, <1>3, AccountsAssumption DEF HitsAccount
<1>6. RegistrationsLimited
  <2>1. ASSUME NEW h \in 1..hour
        PROVE  Cardinality({ r \in registered : r[1] <= h /\ r[1] > h - RegisterWindow }) <= RegisterMax
    <3>1. { r \in registered : r[1] <= h /\ r[1] > h - RegisterWindow } = {}
      BY <1>1
    <3>2. Cardinality({ r \in registered : r[1] <= h /\ r[1] > h - RegisterWindow }) = 0
      BY <1>3, <3>1, Zenon
    <3> QED
      BY <3>2, AccountsAssumption
  <2> QED
    BY <2>1 DEF RegistrationsLimited
<1> QED
  BY <1>4, <1>5, <1>6 DEF LimiterInv

\* What the limiter forgets is outside the window, and sets of it are finite.
LEMMA RememberedSince ==
  ASSUME LimiterTypes
  PROVE  /\ Remembered \subseteq hits /\ IsFiniteSet(Remembered) /\ Cardinality(Remembered) \in Nat
         /\ Remembered = HitsSince(hour - RegisterWindow + 1)
         /\ \A k \in Int : k > hour - RegisterWindow => { x \in Remembered : x[1] >= k } = HitsSince(k)
         /\ \A k \in Int : /\ IsFiniteSet(HitsSince(k)) /\ Cardinality(HitsSince(k)) \in Nat
                           /\ IsFiniteSet(RegisteredSince(k)) /\ Cardinality(RegisteredSince(k)) \in Nat
<1> USE AccountsAssumption DEF LimiterTypes
<1>1. /\ Remembered \subseteq hits
      /\ Remembered = HitsSince(hour - RegisterWindow + 1)
      /\ \A k \in Int : k > hour - RegisterWindow => { x \in Remembered : x[1] >= k } = HitsSince(k)
  BY DEF Remembered, HitsSince
<1>2. \A k \in Int : HitsSince(k) \subseteq hits /\ RegisteredSince(k) \subseteq registered
  BY DEF HitsSince, RegisteredSince
<1> QED
  BY <1>1, <1>2, FS_Subset, FS_CardinalityType

\* The window that ends now is within what is remembered.
LEMMA LimitedNow ==
  LimiterTypes /\ HitsAccount =>
    Cardinality({ r \in registered : r[1] <= hour /\ r[1] > hour - RegisterWindow }) <= RegisterMax
<1> SUFFICES ASSUME LimiterTypes, HitsAccount
             PROVE  Cardinality({ r \in registered : r[1] <= hour /\ r[1] > hour - RegisterWindow }) <= RegisterMax
  OBVIOUS
<1>1. PICK k \in Int : k = hour - RegisterWindow + 1
  BY AccountsAssumption DEF LimiterTypes
<1>2. { r \in registered : r[1] <= hour /\ r[1] > hour - RegisterWindow } = RegisteredSince(k)
  BY <1>1, AccountsAssumption DEF RegisteredSince, LimiterTypes
<1>3. Cardinality(RegisteredSince(k)) <= Cardinality(HitsSince(k))
  BY <1>1, AccountsAssumption DEF HitsAccount, LimiterTypes
<1>4. HitsSince(k) = Remembered
  BY <1>1, RememberedSince
<1>5. Cardinality(RegisteredSince(k)) \in Nat /\ Cardinality(Remembered) \in Nat
  BY RememberedSince
<1>6. Cardinality(RegisteredSince(k)) <= RegisterMax
  BY <1>3, <1>4, <1>5, AccountsAssumption DEF HitsAccount
<1> QED
  BY <1>2, <1>6, Zenon

\* The windows that have ended stay as they were.
LEMMA LimitedIfEarlier ==
  ASSUME LimiterInv, LimiterTypes', HitsAccount', hour' \in {hour, hour + 1},
         registered' = {} \/ registered' = registered \/ \E r : r[1] = hour' /\ registered' = registered \cup {r}
  PROVE  RegistrationsLimited'
<1> USE AccountsAssumption DEF LimiterInv
<1>1. (LimiterTypes /\ HitsAccount =>
         Cardinality({ r \in registered : r[1] <= hour /\ r[1] > hour - RegisterWindow }) <= RegisterMax)'
  BY LimitedNow, PTL
<1>2. ASSUME NEW h \in 1..hour', h # hour'
      PROVE  Cardinality({ r \in registered' : r[1] <= h /\ r[1] > h - RegisterWindow }) <= RegisterMax
  <2>1. h \in 1..hour /\ h < hour'
    BY <1>2 DEF LimiterTypes
  <2>2. CASE registered' = {}
    <3>1. { r \in registered' : r[1] <= h /\ r[1] > h - RegisterWindow } = {}
      BY <2>2
    <3>2. Cardinality({ r \in registered' : r[1] <= h /\ r[1] > h - RegisterWindow }) = 0
      BY <3>1, FS_EmptySet, Zenon
    <3> QED
      BY <3>2
  <2>3. CASE registered' = registered \/ \E r : r[1] = hour' /\ registered' = registered \cup {r}
    <3>1. { r \in registered' : r[1] <= h /\ r[1] > h - RegisterWindow }
            = { r \in registered : r[1] <= h /\ r[1] > h - RegisterWindow }
      BY <2>1, <2>3 DEF LimiterTypes
    <3> QED
      BY <2>1, <3>1 DEF RegistrationsLimited
  <2> QED
    BY <2>2, <2>3
<1> QED
  BY <1>1, <1>2 DEF RegistrationsLimited

\* One more is let through, and remembered under a number of its own.
LEMMA LetThrough ==
  ASSUME LimiterInv, NEW n \in Name, Register(n), Allow
  PROVE  LimiterInv'
<1> USE AccountsAssumption DEF LimiterInv
<1>1. PICK m \in Nat : m = Cardinality(Remembered) /\ m < RegisterMax
  BY RememberedSince DEF Allow
<1>2. PICK i \in Nat : i = Cardinality({ r \in registered : r[1] = hour })
  <2>1. IsFiniteSet({ r \in registered : r[1] = hour })
    BY FS_Subset DEF LimiterTypes
  <2> QED
    BY <2>1, FS_CardinalityType
<1>3. PICK x, r : x = <<hour, m>> /\ r = <<hour, i>>
  OBVIOUS
<1>4. hits' = Remembered \cup {x} /\ registered' = registered \cup {r} /\ hour' = hour
  BY <1>1, <1>2, <1>3 DEF Register, Allow
<1>5. x \notin Remembered /\ x[1] = hour /\ r[1] = hour /\ x[2] = m
  BY <1>1, <1>3, RememberedSince DEF HitsAccount
<1>6. Cardinality(Remembered \cup {x}) = m + 1 /\ IsFiniteSet(Remembered \cup {x})
  BY <1>1, <1>5, RememberedSince, FS_AddElement
<1>7. LimiterTypes'
  <2>1. IsFiniteSet(registered')
    BY <1>4, FS_AddElement DEF LimiterTypes
  <2> QED
    BY <1>1, <1>2, <1>3, <1>4, <1>6, <2>1, RememberedSince DEF LimiterTypes
<1>8. Remembered' = Remembered \cup {x}
  <2>1. { h \in Remembered : h[1] > hour - RegisterWindow } = Remembered
    BY DEF Remembered
  <2>2. hour > hour - RegisterWindow
    BY AccountsAssumption DEF LimiterTypes
  <2> QED
    BY <1>4, <1>5, <2>1, <2>2 DEF Remembered
<1>9. HitsAccount'
  <2>1. ASSUME NEW k \in Int, k > hour - RegisterWindow
        PROVE  Cardinality(RegisteredSince(k))' <= Cardinality(HitsSince(k))'
    <3>1. CASE k > hour
      <4>1. RegisteredSince(k)' = {} /\ HitsSince(k)' = {}
        BY <1>7, <3>1, <1>4 DEF LimiterTypes, RegisteredSince, HitsSince
      <4> QED
        BY <4>1, FS_EmptySet
    <3>2. CASE k <= hour
      <4>1. RegisteredSince(k)' = RegisteredSince(k) \cup {r}
        BY <1>4, <1>5, <3>2 DEF RegisteredSince, LimiterTypes
      <4>2. HitsSince(k)' = HitsSince(k) \cup {x}
        BY <1>4, <1>5, <2>1, <3>2, RememberedSince DEF HitsSince, LimiterTypes
      <4>3. x \notin HitsSince(k)
        BY <1>5, <2>1, RememberedSince
      <4>4. /\ IsFiniteSet(HitsSince(k)) /\ IsFiniteSet(RegisteredSince(k))
            /\ Cardinality(HitsSince(k)) \in Nat /\ Cardinality(RegisteredSince(k)) \in Nat
        BY RememberedSince
      <4>5. Cardinality(HitsSince(k) \cup {x}) = Cardinality(HitsSince(k)) + 1
        BY <4>3, <4>4, FS_AddElement
      <4>6. Cardinality(RegisteredSince(k) \cup {r}) <= Cardinality(RegisteredSince(k)) + 1
        <5>1. Cardinality(RegisteredSince(k) \cup {r}) =
                IF r \in RegisteredSince(k) THEN Cardinality(RegisteredSince(k)) ELSE Cardinality(RegisteredSince(k)) + 1
          BY <4>4, FS_AddElement
        <5> QED
          BY <4>4, <5>1
      <4>7. Cardinality(RegisteredSince(k)) <= Cardinality(HitsSince(k))
        BY <2>1 DEF HitsAccount
      <4>8. Cardinality(RegisteredSince(k) \cup {r}) <= Cardinality(HitsSince(k) \cup {x})
        <5>1. Cardinality(RegisteredSince(k) \cup {r}) \in Nat
          BY <4>4, FS_AddElement, FS_CardinalityType
        <5> QED
          BY <4>4, <4>5, <4>6, <4>7, <5>1
      <4> QED
        BY <4>1, <4>2, <4>8
    <3> QED
      BY <2>1, <3>1, <3>2 DEF LimiterTypes
  <2>2. \A y \in hits' : y[1] = hour => y[2] < m + 1
    BY <1>1, <1>4, <1>5, RememberedSince DEF HitsAccount, LimiterTypes
  <2>3. Cardinality(Remembered)' = m + 1
    BY <1>6, <1>8, Zenon
  <2>4. Cardinality(Remembered)' <= RegisterMax
    BY <1>1, <2>3
  <2>5. \A y \in hits' : y[1] = hour' => y[2] < Cardinality(Remembered)'
    BY <1>4, <2>2, <2>3
  <2>6. \A k \in Int : k > hour' - RegisterWindow =>
                        Cardinality(RegisteredSince(k))' <= Cardinality(HitsSince(k))'
    BY <1>4, <2>1
  <2> QED
    BY <2>4, <2>5, <2>6 DEF HitsAccount
<1>10. RegistrationsLimited'
  BY <1>4, <1>5, <1>7, <1>9, LimitedIfEarlier
<1> QED
  BY <1>7, <1>9, <1>10

\* A refusal only forgets what is outside the window.
LEMMA RefusalKeeps ==
  ASSUME LimiterInv, NEW n \in Name, Register(n), ~Allow
  PROVE  LimiterInv'
<1> USE AccountsAssumption DEF LimiterInv
<1>1. hits' = Remembered /\ registered' = registered /\ hour' = hour
  BY DEF Register
<1>2. LimiterTypes'
  BY <1>1, RememberedSince DEF LimiterTypes
<1>3. Remembered' = Remembered
  BY <1>1 DEF Remembered
<1>4. HitsAccount'
  <2>1. \A k \in Int : k > hour - RegisterWindow => HitsSince(k)' = HitsSince(k) /\ RegisteredSince(k)' = RegisteredSince(k)
    BY <1>1, RememberedSince DEF HitsSince, RegisteredSince
  <2>2. \A x \in hits' : x \in hits
    BY <1>1, RememberedSince
  <2>3. \A k \in Int : k > hour' - RegisterWindow =>
                        Cardinality(RegisteredSince(k))' <= Cardinality(HitsSince(k))'
    BY <1>1, <2>1 DEF HitsAccount
  <2>4. Cardinality(Remembered)' = Cardinality(Remembered)
    BY <1>3, Zenon
  <2> QED
    BY <1>1, <2>2, <2>3, <2>4 DEF HitsAccount
<1>5. RegistrationsLimited'
  BY <1>1, <1>2, <1>4, LimitedIfEarlier
<1> QED
  BY <1>2, <1>4, <1>5

\* In a new hour nothing has been let through, and the window has moved on.
LEMMA HourKeeps ==
  ASSUME LimiterInv, HourPasses
  PROVE  LimiterInv'
<1> USE AccountsAssumption DEF LimiterInv
<1>1. hits' = hits /\ registered' = registered /\ hour' = hour + 1
  BY DEF HourPasses
<1>2. LimiterTypes'
  BY <1>1 DEF LimiterTypes
<1>3. HitsAccount'
  <2>1. \A k \in Int : HitsSince(k)' = HitsSince(k) /\ RegisteredSince(k)' = RegisteredSince(k)
    BY <1>1 DEF HitsSince, RegisteredSince
  <2>2. \A k \in Int : k > hour' - RegisterWindow =>
                        Cardinality(RegisteredSince(k))' <= Cardinality(HitsSince(k))'
    BY <1>1, <2>1 DEF HitsAccount, LimiterTypes
  <2>3. Remembered' \subseteq Remembered
    BY <1>1 DEF Remembered, LimiterTypes
  <2>4. Cardinality(Remembered') <= Cardinality(Remembered) /\ Cardinality(Remembered') \in Nat
    BY <2>3, RememberedSince, FS_Subset, FS_CardinalityType
  <2>5. Cardinality(Remembered)' <= RegisterMax
    BY <2>4, RememberedSince DEF HitsAccount
  <2> QED
    BY <1>1, <2>2, <2>5 DEF HitsAccount, LimiterTypes
<1> QED
  BY <1>1, <1>2, <1>3, LimitedIfEarlier

\* A restart forgets both.
LEMMA RestartKeeps ==
  ASSUME LimiterInv, Restart
  PROVE  LimiterInv'
<1> USE AccountsAssumption DEF LimiterInv
<1>1. hits' = {} /\ registered' = {} /\ hour' = hour
  BY DEF Restart
<1>2. LimiterTypes'
  BY <1>1, FS_EmptySet DEF LimiterTypes
<1>3. HitsAccount'
  <2>1. \A k : HitsSince(k)' = {} /\ RegisteredSince(k)' = {} /\ Remembered' = {}
    BY <1>1 DEF HitsSince, RegisteredSince, Remembered
  <2>2. Cardinality(Remembered)' = 0 /\ \A k : Cardinality(RegisteredSince(k))' = 0 /\ Cardinality(HitsSince(k))' = 0
    BY <2>1, FS_EmptySet, Zenon
  <2> QED
    BY <1>1, <2>2 DEF HitsAccount
<1> QED
  BY <1>1, <1>2, <1>3, LimitedIfEarlier

\* Every step keeps both.
LEMMA AccountsStep == IdentityInv /\ LimiterInv /\ [AccountsNext]_accountVars => IdentityInv' /\ LimiterInv'
<1> SUFFICES ASSUME IdentityInv, LimiterInv, [AccountsNext]_accountVars PROVE IdentityInv' /\ LimiterInv'
  OBVIOUS
<1>1. ASSUME UNCHANGED limiterVars PROVE LimiterInv'
  <2>1. hits' = hits /\ registered' = registered /\ hour' = hour
    BY <1>1 DEF limiterVars
  <2>2. \A k : HitsSince(k)' = HitsSince(k) /\ RegisteredSince(k)' = RegisteredSince(k)
    BY <2>1 DEF HitsSince, RegisteredSince
  <2>3. Remembered' = Remembered
    BY <2>1 DEF Remembered
  <2> QED
    BY <2>1, <2>2, <2>3 DEF LimiterInv, LimiterTypes, HitsAccount, RegistrationsLimited
<1>2. ASSUME NEW c \in LoginCall, NEW e \in External, LookUp(c, e) PROVE IdentityInv' /\ LimiterInv'
  BY <1>1, <1>2, LookUpKeeps DEF LookUp
<1>3. ASSUME NEW c \in LoginCall, Provision(c) PROVE IdentityInv' /\ LimiterInv'
  BY <1>1, <1>3, ProvisionKeeps DEF Provision
<1>4. ASSUME NEW c \in LoginCall, BindFirst(c) PROVE IdentityInv' /\ LimiterInv'
  BY <1>1, <1>4, BindFirstKeeps DEF BindFirst
<1>5. ASSUME NEW c \in LoginCall, LoginFails(c) PROVE IdentityInv' /\ LimiterInv'
  BY <1>1, <1>5, OtherLoginSteps DEF LoginFails
<1>6. ASSUME NEW n \in Name, Register(n) PROVE IdentityInv' /\ LimiterInv'
  <2>1. IdentityInv'
    BY <1>6, OtherLoginSteps
  <2>2. CASE Allow
    BY <1>6, <2>1, <2>2, LetThrough
  <2>3. CASE ~Allow
    BY <1>6, <2>1, <2>3, RefusalKeeps
  <2> QED
    BY <2>2, <2>3
<1>7. ASSUME NEW n \in Name, CreateUser(n) PROVE IdentityInv' /\ LimiterInv'
  BY <1>1, <1>7, OtherLoginSteps DEF CreateUser
<1>8. ASSUME NEW n \in Name, NEW e \in External, BindExternal(n, e) PROVE IdentityInv' /\ LimiterInv'
  BY <1>1, <1>8, OtherLoginSteps DEF BindExternal
<1>9. CASE Restart
  BY <1>9, OtherLoginSteps, RestartKeeps
<1>10. CASE HourPasses
  BY <1>10, OtherLoginSteps, HourKeeps
<1>11. CASE UNCHANGED accountVars
  <2>1. IdentityInv'
    BY <1>11 DEF accountVars, IdentityInv, LoginTypes, LoginsKnow, SignedInTypes, SameAccount
  <2> QED
    BY <1>1, <1>11, <2>1 DEF accountVars, limiterVars
<1> QED
  BY <1>2, <1>3, <1>4, <1>5, <1>6, <1>7, <1>8, <1>9, <1>10, <1>11 DEF AccountsNext

AccountsSpec == AccountsInit /\ [][AccountsNext]_accountVars

\* AccountsHold is kept by them alone.
LEMMA AccountsAlone == AccountsSpec => []AccountsHold
<1>1. IdentityInv /\ LimiterInv => AccountsHold
  BY DEF IdentityInv, LimiterInv, AccountsHold
<1> QED
  BY <1>1, IdentitiesStart, LimiterStart, AccountsStep, PTL DEF AccountsSpec

-----------------------------------------------------------------------------
(* Logins through a provider, for any number of them and of replicas.      *)

OauthTypes ==
    /\ oauthNow \in Nat
    /\ DOMAIN memory = OauthReplica /\ DOMAIN mode = OauthReplica /\ DOMAIN loginAt = Flow
    /\ DOMAIN accepted = Kind \X Flow /\ DOMAIN until = Kind \X Flow
    /\ \A t \in Kind \X Flow : accepted[t] \in Nat /\ until[t] \in Nat
    /\ marred \subseteq Kind \X Flow
    /\ \A r \in OauthReplica : mode[r] \in {"redis", "memory", "down"}
    /\ \A f \in Flow : loginAt[f] \in {"new", "away", "coding", "coded", "lost"}

Has(S, kind, f) == \E e \in S : e[1] = kind /\ e[2] = f
Held(kind, f)   == Has(shared, kind, f) \/ \E r \in OauthReplica : Has(memory[r], kind, f)

\* An entry is in one place, and no longer there when it has been taken.
OnePlace ==
    \A kind \in Kind, f \in Flow :
        /\ accepted[<<kind, f>>] <= 1
        /\ Held(kind, f) => accepted[<<kind, f>>] = 0
        /\ \A r \in OauthReplica : Has(memory[r], kind, f) =>
              ~Has(shared, kind, f) /\ \A q \in OauthReplica : Has(memory[q], kind, f) => q = r

\* A login has stored what belongs to the step it is at, and nothing before.
Course ==
    \A f \in Flow :
        /\ loginAt[f] = "new" => ~Held("state", f)
        /\ loginAt[f] # "coded" => ~Held("code", f) /\ accepted[<<"code", f>>] = 0
        /\ accepted[<<"state", f>>] = 0 <=> loginAt[f] \in {"new", "away"}

\* What is waited for, is good and is not marred is in Redis, and nobody goes without.
InReach ==
    /\ \A r \in OauthReplica : mode[r] = "memory" => Kind \X Flow \subseteq marred
    /\ \A kind \in Kind, f \in Flow :
        Waiting(kind, f) /\ oauthNow < until[<<kind, f>>] /\ <<kind, f>> \notin marred =>
            <<kind, f, until[<<kind, f>>]>> \in shared

OauthInv == OauthTypes /\ OnePlace /\ Course /\ InReach

\* Every login is new.
LEMMA OauthStart == OauthInit => OauthInv
BY DEF OauthInit, OauthInv, OauthTypes, OnePlace, Course, InReach, Held, Has, Waiting, Kind

\* Taking: of this entry, where it was held, nothing is left.
Took(r, kind, f, found) ==
    /\ DOMAIN memory' = OauthReplica /\ DOMAIN accepted' = Kind \X Flow
    /\ \A k, g : Has(shared', k, g) => Has(shared, k, g)
    /\ \A k, g : \A q \in OauthReplica : Has(memory'[q], k, g) => Has(memory[q], k, g)
    /\ found => Held(kind, f) /\ ~Held(kind, f)' /\ accepted'[<<kind, f>>] = 1
    /\ ~found => accepted' = accepted
    /\ \A t \in Kind \X Flow : t # <<kind, f>> => accepted'[t] = accepted[t]
    /\ \A e \in shared : e \in shared' \/ (e[1] = kind /\ e[2] = f)
    /\ mode[r] = "redis" => (found <=> \E e \in shared : e[1] = kind /\ e[2] = f /\ oauthNow < e[3])

\* Both stores are as described.
LEMMA Taken ==
  ASSUME OauthTypes, OnePlace, NEW r \in OauthReplica, NEW kind \in Kind, NEW f \in Flow, NEW found \in BOOLEAN,
         TakeEntry(r, kind, f, found)
  PROVE  Took(r, kind, f, found)
<1> USE DEF Took
<1>1. CASE mode[r] = "redis"
  <2>1. shared' = { e \in shared : ~(e[1] = kind /\ e[2] = f) } /\ memory' = memory
    BY <1>1 DEF TakeEntry, Rest, EntryOf
  <2>2. found <=> \E e \in shared : e[1] = kind /\ e[2] = f /\ oauthNow < e[3]
    BY <1>1 DEF TakeEntry, EntryOf, Holds, Fresh
  <2>3. found => Has(shared, kind, f)
    BY <2>2 DEF Has
  <2>4. ~Has(shared', kind, f)
    BY <2>1 DEF Has
  <2>5. found => ~Held(kind, f)' /\ accepted[<<kind, f>>] = 0
    BY <2>1, <2>3, <2>4 DEF Held, OnePlace
  <2>6. /\ DOMAIN accepted' = Kind \X Flow
        /\ found => accepted'[<<kind, f>>] = 1
        /\ ~found => accepted' = accepted
        /\ \A t \in Kind \X Flow : t # <<kind, f>> => accepted'[t] = accepted[t]
    BY <2>5 DEF TakeEntry, OauthTypes
  <2> QED
    BY <2>1, <2>2, <2>3, <2>5, <2>6 DEF OauthTypes, Has, Held
<1>2. CASE mode[r] = "memory"
  <2>1. /\ shared' = shared /\ DOMAIN memory' = OauthReplica
        /\ memory'[r] = { e \in memory[r] : ~(e[1] = kind /\ e[2] = f) }
        /\ \A q \in OauthReplica : q # r => memory'[q] = memory[q]
    BY <1>2 DEF TakeEntry, Rest, EntryOf, OauthTypes
  <2>2. found => Has(memory[r], kind, f)
    BY <1>2 DEF TakeEntry, EntryOf, Holds, Has
  <2>3. ~Has(memory'[r], kind, f)
    BY <2>1 DEF Has
  <2>4. found => ~Held(kind, f)' /\ accepted[<<kind, f>>] = 0
    BY <2>1, <2>2, <2>3 DEF Held, OnePlace
  <2>5. /\ DOMAIN accepted' = Kind \X Flow
        /\ found => accepted'[<<kind, f>>] = 1
        /\ ~found => accepted' = accepted
        /\ \A t \in Kind \X Flow : t # <<kind, f>> => accepted'[t] = accepted[t]
    BY <2>4 DEF TakeEntry, OauthTypes
  <2> QED
    BY <1>2, <2>1, <2>2, <2>4, <2>5 DEF Has, Held
<1> QED
  BY <1>1, <1>2 DEF TakeEntry

\* An action that only takes entries away keeps them in one place.
LEMMA FewerEntries ==
  ASSUME OnePlace, Course,
         \A k, g : Has(shared', k, g) => Has(shared, k, g),
         \A k, g : \A q \in OauthReplica : Has(memory'[q], k, g) => Has(memory[q], k, g)
  PROVE  /\ \A k \in Kind, g \in Flow : Held(k, g)' => Held(k, g)
         /\ \A k \in Kind, g \in Flow, q \in OauthReplica : Has(memory'[q], k, g) =>
              ~Has(shared', k, g) /\ \A p \in OauthReplica : Has(memory'[p], k, g) => p = q
BY DEF OnePlace, Held

\* The browser comes back with a state.
LEMMA CallbackKeeps ==
  ASSUME OauthInv, NEW r \in OauthReplica, NEW f \in Flow, NEW found \in BOOLEAN, Callback(r, f, found)
  PROVE  OauthInv'
<1> USE DEF OauthInv, Kind
<1>1. /\ TakeEntry(r, "state", f, found) /\ loginAt[f] # "new"
      /\ DOMAIN loginAt' = Flow /\ \A g \in Flow : g # f => loginAt'[g] = loginAt[g]
      /\ loginAt'[f] = (IF found THEN "coding" ELSE loginAt[f])
      /\ mode' = mode /\ until' = until /\ marred' = marred /\ oauthNow' = oauthNow
  BY DEF Callback, OauthTypes
<1>2. /\ DOMAIN memory' = OauthReplica /\ DOMAIN accepted' = Kind \X Flow
      /\ \A k, g : Has(shared', k, g) => Has(shared, k, g)
      /\ \A k, g : \A q \in OauthReplica : Has(memory'[q], k, g) => Has(memory[q], k, g)
      /\ found => Held("state", f) /\ ~Held("state", f)' /\ accepted'[<<"state", f>>] = 1
      /\ ~found => accepted' = accepted
      /\ \A t \in Kind \X Flow : t # <<"state", f>> => accepted'[t] = accepted[t]
      /\ \A e \in shared : e \in shared' \/ (e[1] = "state" /\ e[2] = f)
      /\ mode[r] = "redis" => (found <=> \E e \in shared : e[1] = "state" /\ e[2] = f /\ oauthNow < e[3])
  BY <1>1, Taken DEF Took
<1>3. /\ \A k \in Kind, g \in Flow : Held(k, g)' => Held(k, g)
      /\ \A k \in Kind, g \in Flow, q \in OauthReplica : Has(memory'[q], k, g) =>
           ~Has(shared', k, g) /\ \A p \in OauthReplica : Has(memory'[p], k, g) => p = q
  BY <1>2, FewerEntries
<1>4. found => loginAt[f] = "away" /\ accepted[<<"code", f>>] = 0 /\ ~Held("code", f)
  BY <1>1, <1>2 DEF Course, OnePlace
<1>5. OauthTypes'
  BY <1>1, <1>2 DEF OauthTypes
<1>6. OnePlace'
  BY <1>2, <1>3 DEF OnePlace
<1>7. Course'
  <2> SUFFICES ASSUME NEW g \in Flow
               PROVE  /\ loginAt'[g] = "new" => ~Held("state", g)'
                      /\ loginAt'[g] # "coded" => ~Held("code", g)' /\ accepted'[<<"code", g>>] = 0
                      /\ accepted'[<<"state", g>>] = 0 <=> loginAt'[g] \in {"new", "away"}
    BY DEF Course
  <2>1. /\ loginAt[g] = "new" => ~Held("state", g)
        /\ loginAt[g] # "coded" => ~Held("code", g) /\ accepted[<<"code", g>>] = 0
        /\ accepted[<<"state", g>>] = 0 <=> loginAt[g] \in {"new", "away"}
    BY DEF Course
  <2>2. accepted'[<<"code", g>>] = accepted[<<"code", g>>]
    BY <1>2
  <2>3. CASE g = f /\ found
    BY <1>1, <1>2, <1>3, <1>4, <2>1, <2>2, <2>3
  <2>4. CASE ~(g = f /\ found)
    <3>1. accepted'[<<"state", g>>] = accepted[<<"state", g>>] /\ loginAt'[g] = loginAt[g]
      BY <1>1, <1>2, <2>4
    <3> QED
      BY <1>3, <2>1, <2>2, <3>1
  <2> QED
    BY <2>3, <2>4
<1>8. InReach'
  <2>1. ASSUME NEW k \in Kind, NEW g \in Flow, Waiting(k, g)', oauthNow < until[<<k, g>>], <<k, g>> \notin marred
        PROVE  <<k, g, until[<<k, g>>]>> \in shared'
    <3>1. Waiting(k, g) /\ <<k, g, until[<<k, g>>]>> \in shared
      BY <1>1, <1>2, <2>1 DEF Waiting, InReach
    <3>2. CASE k = "state" /\ g = f
      <4>1. mode[r] = "redis"
        BY <1>1, <2>1 DEF InReach, TakeEntry
      <4>2. PICK e : e = <<k, g, until[<<k, g>>]>>
        OBVIOUS
      <4>3. found
        BY <1>2, <2>1, <3>1, <3>2, <4>1, <4>2
      <4> QED
        BY <1>1, <2>1, <3>2, <4>3 DEF Waiting
    <3>3. CASE ~(k = "state" /\ g = f)
      BY <1>2, <3>1, <3>3
    <3> QED
      BY <3>2, <3>3
  <2> QED
    BY <1>1, <2>1 DEF InReach
<1> QED
  BY <1>5, <1>6, <1>7, <1>8

\* A code is exchanged.
LEMMA ExchangeKeeps ==
  ASSUME OauthInv, NEW r \in OauthReplica, NEW f \in Flow, NEW found \in BOOLEAN, Exchange(r, f, found)
  PROVE  OauthInv'
<1> USE DEF OauthInv, Kind
<1>1. /\ TakeEntry(r, "code", f, found) /\ loginAt[f] = "coded" /\ loginAt' = loginAt
      /\ mode' = mode /\ until' = until /\ marred' = marred /\ oauthNow' = oauthNow
  BY DEF Exchange, OauthTypes
<1>2. /\ DOMAIN memory' = OauthReplica /\ DOMAIN accepted' = Kind \X Flow
      /\ \A k, g : Has(shared', k, g) => Has(shared, k, g)
      /\ \A k, g : \A q \in OauthReplica : Has(memory'[q], k, g) => Has(memory[q], k, g)
      /\ found => Held("code", f) /\ ~Held("code", f)' /\ accepted'[<<"code", f>>] = 1
      /\ ~found => accepted' = accepted
      /\ \A t \in Kind \X Flow : t # <<"code", f>> => accepted'[t] = accepted[t]
      /\ \A e \in shared : e \in shared' \/ (e[1] = "code" /\ e[2] = f)
      /\ mode[r] = "redis" => (found <=> \E e \in shared : e[1] = "code" /\ e[2] = f /\ oauthNow < e[3])
  <2>1. Took(r, "code", f, found)
    BY <1>1, Taken
  <2> QED
    BY <2>1 DEF Took
<1>3. /\ \A k \in Kind, g \in Flow : Held(k, g)' => Held(k, g)
      /\ \A k \in Kind, g \in Flow, q \in OauthReplica : Has(memory'[q], k, g) =>
           ~Has(shared', k, g) /\ \A p \in OauthReplica : Has(memory'[p], k, g) => p = q
  BY <1>2, FewerEntries
<1>4. OauthTypes'
  BY <1>1, <1>2 DEF OauthTypes
<1>5. OnePlace'
  BY <1>2, <1>3 DEF OnePlace
<1>6. Course'
  <2> SUFFICES ASSUME NEW g \in Flow
               PROVE  /\ loginAt'[g] = "new" => ~Held("state", g)'
                      /\ loginAt'[g] # "coded" => ~Held("code", g)' /\ accepted'[<<"code", g>>] = 0
                      /\ accepted'[<<"state", g>>] = 0 <=> loginAt'[g] \in {"new", "away"}
    BY DEF Course
  <2>1. /\ loginAt[g] = "new" => ~Held("state", g)
        /\ loginAt[g] # "coded" => ~Held("code", g) /\ accepted[<<"code", g>>] = 0
        /\ accepted[<<"state", g>>] = 0 <=> loginAt[g] \in {"new", "away"}
    BY DEF Course
  <2>2. accepted'[<<"state", g>>] = accepted[<<"state", g>>] /\ loginAt'[g] = loginAt[g]
    BY <1>1, <1>2
  <2>3. loginAt[g] # "coded" => accepted'[<<"code", g>>] = accepted[<<"code", g>>]
    BY <1>1, <1>2
  <2> QED
    BY <1>3, <2>1, <2>2, <2>3
<1>7. InReach'
  <2>1. ASSUME NEW k \in Kind, NEW g \in Flow, Waiting(k, g)', oauthNow < until[<<k, g>>], <<k, g>> \notin marred
        PROVE  <<k, g, until[<<k, g>>]>> \in shared'
    <3>1. ~(k = "code" /\ g = f /\ found)
      BY <1>2, <2>1 DEF Waiting
    <3>2. accepted'[<<k, g>>] = accepted[<<k, g>>]
      BY <1>2, <3>1
    <3>3. Waiting(k, g) /\ <<k, g, until[<<k, g>>]>> \in shared
      BY <1>1, <2>1, <3>2 DEF Waiting, InReach
    <3>4. CASE k = "code" /\ g = f
      <4>1. mode[r] = "redis"
        BY <1>1, <2>1 DEF InReach, TakeEntry
      <4>2. PICK e : e = <<k, g, until[<<k, g>>]>>
        OBVIOUS
      <4>3. found
        BY <1>2, <2>1, <3>3, <3>4, <4>1, <4>2
      <4> QED
        BY <3>1, <3>4, <4>3
    <3>5. CASE ~(k = "code" /\ g = f)
      BY <1>2, <3>3, <3>5
    <3> QED
      BY <3>4, <3>5
  <2> QED
    BY <1>1, <2>1 DEF InReach
<1> QED
  BY <1>4, <1>5, <1>6, <1>7

\* Time passes in Redis, a call fails, a replica stops, or a login is lost.
LEMMA LosingKeeps ==
  ASSUME OauthInv,
         \/ OauthTick \/ (\E r \in OauthReplica : StopReplica(r)) \/ (\E f \in Flow : CodeFails(f))
         \/ \E r \in OauthReplica, f \in Flow, kind \in Kind : loginAt[f] # "new" /\ TakeFails(r, kind, f)
  PROVE  OauthInv'
<1> USE DEF OauthInv, Kind
<1>1. /\ accepted' = accepted /\ until' = until /\ marred \subseteq marred'
      /\ DOMAIN memory' = OauthReplica /\ DOMAIN mode' = OauthReplica
      /\ oauthNow' \in Nat /\ oauthNow <= oauthNow' /\ DOMAIN loginAt' = Flow
      /\ marred' \subseteq Kind \X Flow
      /\ \A r \in OauthReplica : mode'[r] = mode[r] \/ mode'[r] = "down"
      /\ \A f \in Flow : loginAt'[f] = loginAt[f] \/ (loginAt[f] = "coding" /\ loginAt'[f] = "lost")
  BY DEF OauthTick, StopReplica, CodeFails, TakeFails, OauthTypes, stores
<1>2. /\ \A k, g : Has(shared', k, g) => Has(shared, k, g)
      /\ \A k, g : \A q \in OauthReplica : Has(memory'[q], k, g) => Has(memory[q], k, g)
  BY DEF OauthTick, StopReplica, CodeFails, TakeFails, OauthTypes, stores, Has, Rest
<1>3. \A e \in shared : e \in shared' \/ ~(oauthNow' < e[3]) \/ <<e[1], e[2]>> \in marred'
  BY DEF OauthTick, StopReplica, CodeFails, TakeFails, OauthTypes, stores, Rest, EntryOf
<1>4. /\ \A k \in Kind, g \in Flow : Held(k, g)' => Held(k, g)
      /\ \A k \in Kind, g \in Flow, q \in OauthReplica : Has(memory'[q], k, g) =>
           ~Has(shared', k, g) /\ \A p \in OauthReplica : Has(memory'[p], k, g) => p = q
  BY <1>2, FewerEntries
<1>5. OauthTypes'
  BY <1>1 DEF OauthTypes
<1>6. OnePlace'
  BY <1>1, <1>4 DEF OnePlace
<1>7. Course'
  BY <1>1, <1>4 DEF Course
<1>8. InReach'
  <2>1. ASSUME NEW k \in Kind, NEW g \in Flow, Waiting(k, g)', oauthNow' < until[<<k, g>>], <<k, g>> \notin marred'
        PROVE  <<k, g, until[<<k, g>>]>> \in shared'
    <3>1. Waiting(k, g) /\ oauthNow < until[<<k, g>>] /\ until[<<k, g>>] \in Nat
      BY <1>1, <2>1 DEF Waiting, OauthTypes
    <3>2. <<k, g, until[<<k, g>>]>> \in shared
      BY <1>1, <2>1, <3>1 DEF InReach
    <3> QED
      BY <1>1, <1>3, <2>1, <3>1, <3>2
  <2>2. \A r \in OauthReplica : mode'[r] = "memory" => Kind \X Flow \subseteq marred'
    BY <1>1 DEF InReach
  <2> QED
    BY <1>1, <2>1, <2>2 DEF InReach
<1> QED
  BY <1>5, <1>6, <1>7, <1>8

\* Storing: the entry is in one place, or the call failed and it is in none.
Stored(r, kind, f) ==
    /\ DOMAIN memory' = OauthReplica /\ DOMAIN until' = Kind \X Flow /\ until'[<<kind, f>>] \in Nat
    /\ \A t \in Kind \X Flow : t # <<kind, f>> => until'[t] = until[t]
    /\ shared \subseteq shared' /\ marred \subseteq marred' /\ marred' \subseteq Kind \X Flow
    /\ \A k, g : Has(shared', k, g) => Has(shared, k, g) \/ (k = kind /\ g = f)
    /\ \A k, g : \A q \in OauthReplica : Has(memory'[q], k, g) => Has(memory[q], k, g) \/ (k = kind /\ g = f)
    /\ \A q \in OauthReplica : Has(memory'[q], kind, f) => q = r /\ ~Has(shared', kind, f)
    /\ \/ mode[r] = "memory" \/ <<kind, f>> \in marred'
       \/ <<kind, f, until'[<<kind, f>>]>> \in shared'

\* Nothing of it was held before.
LEMMA PutStores ==
  ASSUME OauthTypes, NEW r \in OauthReplica, NEW kind \in Kind, NEW f \in Flow, ~Held(kind, f),
         PutEntry(r, kind, f)
  PROVE  Stored(r, kind, f)
<1>1. PICK u \in Nat : u = oauthNow + TTL(kind)
  BY OauthAssumption DEF OauthTypes, TTL
<1>2. PICK e : e = <<kind, f, u>>
  OBVIOUS
<1>3. e[1] = kind /\ e[2] = f /\ e[3] = u
  BY <1>2
<1>4. until' = [until EXCEPT ![<<kind, f>>] = u]
  BY <1>1, <1>2, <1>3 DEF PutEntry
<1>5. /\ DOMAIN until' = Kind \X Flow /\ until'[<<kind, f>>] = u
      /\ \A t \in Kind \X Flow : t # <<kind, f>> => until'[t] = until[t]
  BY <1>4 DEF OauthTypes
<1>6. \/ /\ mode[r] = "memory" /\ memory' = [memory EXCEPT ![r] = @ \cup {e}] /\ shared' = shared /\ marred' = marred
      \/ shared' = shared \cup {e} /\ memory' = memory /\ marred' = marred
      \/ marred' = marred \cup {<<kind, f>>} /\ shared' = shared /\ memory' = memory
  BY <1>1, <1>2 DEF PutEntry, stores
<1>7. CASE mode[r] = "memory" /\ memory' = [memory EXCEPT ![r] = @ \cup {e}] /\ shared' = shared /\ marred' = marred
  <2>1. /\ DOMAIN memory' = OauthReplica /\ memory'[r] = memory[r] \cup {e}
        /\ \A q \in OauthReplica : q # r => memory'[q] = memory[q]
    BY <1>7 DEF OauthTypes
  <2>2. \A q \in OauthReplica : Has(memory'[q], kind, f) => q = r /\ ~Has(shared', kind, f)
    BY <1>7, <2>1 DEF Held
  <2>3. \A k, g : \A q \in OauthReplica : Has(memory'[q], k, g) => Has(memory[q], k, g) \/ (k = kind /\ g = f)
    BY <1>3, <2>1 DEF Has
  <2> QED
    BY <1>1, <1>5, <1>7, <2>1, <2>2, <2>3 DEF Stored, OauthTypes
<1>8. CASE shared' = shared \cup {e} /\ memory' = memory /\ marred' = marred
  <2>1. \A k, g : Has(shared', k, g) => Has(shared, k, g) \/ (k = kind /\ g = f)
    BY <1>3, <1>8 DEF Has
  <2>2. <<kind, f, until'[<<kind, f>>]>> \in shared'
    BY <1>2, <1>5, <1>8
  <2>3. \A q \in OauthReplica : ~Has(memory'[q], kind, f)
    BY <1>8 DEF Held
  <2>4. \A k, g : \A q \in OauthReplica : Has(memory'[q], k, g) => Has(memory[q], k, g)
    BY <1>8
  <2> QED
    BY <1>1, <1>5, <1>8, <2>1, <2>2, <2>3, <2>4 DEF Stored, OauthTypes
<1>9. CASE marred' = marred \cup {<<kind, f>>} /\ shared' = shared /\ memory' = memory
  <2>1. /\ \A q \in OauthReplica : ~Has(memory'[q], kind, f)
        /\ \A k, g : \A q \in OauthReplica : Has(memory'[q], k, g) => Has(memory[q], k, g)
        /\ \A k, g : Has(shared', k, g) => Has(shared, k, g)
    BY <1>9 DEF Held
  <2> QED
    BY <1>1, <1>5, <1>9, <2>1 DEF Stored, OauthTypes
<1> QED
  BY <1>6, <1>7, <1>8, <1>9

\* What the login is at now, when an entry of it has been stored.
StoredNow(r, kind, f) ==
    /\ ~Held(kind, f) /\ accepted[<<kind, f>>] = 0 /\ Stored(r, kind, f)
    /\ oauthNow' = oauthNow /\ mode' = mode /\ accepted' = accepted
    /\ DOMAIN loginAt' = Flow /\ \A g \in Flow : g # f => loginAt'[g] = loginAt[g]
    /\ \/ kind = "state" /\ loginAt[f] = "new" /\ loginAt'[f] = "away"
       \/ kind = "code" /\ loginAt[f] = "coding" /\ loginAt'[f] = "coded"

\* It is in one place, and in reach unless the call failed.
LEMMA StoredKeeps ==
  ASSUME OauthInv, NEW r \in OauthReplica, NEW kind \in Kind, NEW f \in Flow, StoredNow(r, kind, f)
  PROVE  OauthInv'
<1> USE DEF OauthInv, Kind, StoredNow
<1>1. OauthTypes'
  <2>1. \A t \in Kind \X Flow : until'[t] \in Nat
    BY DEF Stored, OauthTypes
  <2> QED
    BY <2>1 DEF OauthTypes, Stored
<1>2. \A k \in Kind, g \in Flow : ~(k = kind /\ g = f) =>
        /\ Held(k, g)' => Held(k, g)
        /\ Has(shared', k, g) => Has(shared, k, g)
        /\ \A q \in OauthReplica : Has(memory'[q], k, g) => Has(memory[q], k, g)
  BY DEF Stored, Held
<1>3. OnePlace'
  <2> SUFFICES ASSUME NEW k \in Kind, NEW g \in Flow
               PROVE  /\ accepted[<<k, g>>] <= 1
                      /\ Held(k, g)' => accepted[<<k, g>>] = 0
                      /\ \A q \in OauthReplica : Has(memory'[q], k, g) =>
                            ~Has(shared', k, g) /\ \A p \in OauthReplica : Has(memory'[p], k, g) => p = q
    BY DEF OnePlace
  <2>1. CASE k = kind /\ g = f
    BY <2>1 DEF Stored
  <2>2. CASE ~(k = kind /\ g = f)
    BY <1>2, <2>2 DEF OnePlace
  <2> QED
    BY <2>1, <2>2
<1>4. Course'
  <2> SUFFICES ASSUME NEW g \in Flow
               PROVE  /\ loginAt'[g] = "new" => ~Held("state", g)'
                      /\ loginAt'[g] # "coded" => ~Held("code", g)' /\ accepted[<<"code", g>>] = 0
                      /\ accepted[<<"state", g>>] = 0 <=> loginAt'[g] \in {"new", "away"}
    BY DEF Course
  <2>1. /\ loginAt[g] = "new" => ~Held("state", g)
        /\ loginAt[g] # "coded" => ~Held("code", g) /\ accepted[<<"code", g>>] = 0
        /\ accepted[<<"state", g>>] = 0 <=> loginAt[g] \in {"new", "away"}
    BY DEF Course
  <2>2. CASE g = f
    BY <1>2, <2>1, <2>2
  <2>3. CASE g # f
    BY <1>2, <2>1, <2>3
  <2> QED
    BY <2>2, <2>3
<1>5. InReach'
  <2>1. \A q \in OauthReplica : mode'[q] = "memory" => Kind \X Flow \subseteq marred'
    BY DEF InReach, Stored
  <2>2. ASSUME NEW k \in Kind, NEW g \in Flow, Waiting(k, g)', oauthNow < until'[<<k, g>>], <<k, g>> \notin marred'
        PROVE  <<k, g, until'[<<k, g>>]>> \in shared'
    <3>1. CASE k = kind /\ g = f
      BY <2>1, <2>2, <3>1 DEF Stored
    <3>2. CASE ~(k = kind /\ g = f)
      <4>1. until'[<<k, g>>] = until[<<k, g>>] /\ <<k, g>> \notin marred
        BY <2>2, <3>2 DEF Stored
      <4>2. Waiting(k, g)
        BY <2>2, <3>2 DEF Waiting
      <4> QED
        BY <2>2, <4>1, <4>2 DEF InReach, Stored
    <3> QED
      BY <3>1, <3>2
  <2> QED
    BY <2>1, <2>2 DEF InReach
<1> QED
  BY <1>1, <1>3, <1>4, <1>5

\* A login begins, and has its code.
LEMMA PutKeeps ==
  ASSUME OauthInv, NEW r \in OauthReplica, NEW f \in Flow, Authorize(r, f) \/ ProviderCode(r, f)
  PROVE  OauthInv'
<1>1. CASE Authorize(r, f)
  <2>1. ~Held("state", f) /\ accepted[<<"state", f>>] = 0 /\ "state" \in Kind
    BY <1>1 DEF Authorize, OauthInv, Course, Kind
  <2>2. Stored(r, "state", f)
    BY <1>1, <2>1, PutStores DEF Authorize, OauthInv
  <2>3. /\ oauthNow' = oauthNow /\ mode' = mode /\ accepted' = accepted /\ DOMAIN loginAt' = Flow
        /\ \A g \in Flow : g # f => loginAt'[g] = loginAt[g]
        /\ loginAt[f] = "new" /\ loginAt'[f] = "away"
    BY <1>1 DEF Authorize, OauthInv, OauthTypes
  <2>4. StoredNow(r, "state", f)
    BY <2>1, <2>2, <2>3 DEF StoredNow
  <2> QED
    BY <2>1, <2>4, StoredKeeps
<1>2. CASE ProviderCode(r, f)
  <2>1. ~Held("code", f) /\ accepted[<<"code", f>>] = 0 /\ "code" \in Kind
    BY <1>2 DEF ProviderCode, OauthInv, Course, Kind
  <2>2. Stored(r, "code", f)
    BY <1>2, <2>1, PutStores DEF ProviderCode, OauthInv
  <2>3. /\ oauthNow' = oauthNow /\ mode' = mode /\ accepted' = accepted /\ DOMAIN loginAt' = Flow
        /\ \A g \in Flow : g # f => loginAt'[g] = loginAt[g]
        /\ loginAt[f] = "coding" /\ loginAt'[f] = "coded"
    BY <1>2 DEF ProviderCode, OauthInv, OauthTypes
  <2>4. StoredNow(r, "code", f)
    BY <2>1, <2>2, <2>3 DEF StoredNow
  <2> QED
    BY <2>1, <2>4, StoredKeeps
<1> QED
  BY <1>1, <1>2

\* A replica that starts without Redis mars everything.
LEMMA OauthStep == OauthInv /\ [OauthNext]_oauthVars => OauthInv'
<1> SUFFICES ASSUME OauthInv, [OauthNext]_oauthVars PROVE OauthInv'
  OBVIOUS
<1>1. ASSUME UNCHANGED <<shared, memory, loginAt, oauthNow, accepted, until>>, DOMAIN mode' = OauthReplica,
             \A r \in OauthReplica : mode'[r] \in {"redis", "memory", "down"},
             \A r \in OauthReplica : mode'[r] = "memory" => Kind \X Flow \subseteq marred',
             marred \subseteq marred', marred' \subseteq Kind \X Flow
      PROVE  OauthInv'
  <2>1. OauthTypes' /\ OnePlace' /\ Course'
    BY <1>1 DEF OauthInv, OauthTypes, OnePlace, Course, Held, Has
  <2>2. InReach'
    BY <1>1 DEF OauthInv, InReach, Waiting
  <2> QED
    BY <2>1, <2>2 DEF OauthInv
<1>2. ASSUME NEW r \in OauthReplica, StartReplica(r) PROVE OauthInv'
  <2>1. UNCHANGED <<shared, memory, loginAt, oauthNow, accepted, until>> /\ DOMAIN mode' = OauthReplica
    BY <1>2 DEF StartReplica, stores, OauthInv, OauthTypes
  <2>2. CASE mode' = [mode EXCEPT ![r] = "redis"] /\ marred' = marred
    BY <1>1, <2>1, <2>2 DEF OauthInv, OauthTypes, InReach
  <2>3. CASE mode' = [mode EXCEPT ![r] = "memory"] /\ marred' = Kind \X Flow /\ marred \subseteq Kind \X Flow
    BY <1>1, <2>1, <2>3 DEF OauthInv, OauthTypes, InReach
  <2> QED
    BY <1>2, <2>2, <2>3 DEF StartReplica, OauthInv, OauthTypes
<1>3. ASSUME NEW r \in OauthReplica, StopReplica(r) PROVE OauthInv'
  BY <1>3, LosingKeeps
<1>4. ASSUME NEW r \in OauthReplica, NEW f \in Flow, Authorize(r, f) \/ ProviderCode(r, f) PROVE OauthInv'
  BY <1>4, PutKeeps
<1>5. ASSUME NEW r \in OauthReplica, NEW f \in Flow, NEW found \in BOOLEAN, Callback(r, f, found) PROVE OauthInv'
  BY <1>5, CallbackKeeps
<1>6. ASSUME NEW r \in OauthReplica, NEW f \in Flow, NEW found \in BOOLEAN, Exchange(r, f, found) PROVE OauthInv'
  BY <1>6, ExchangeKeeps
<1>7. ASSUME NEW r \in OauthReplica, NEW f \in Flow, NEW kind \in Kind, loginAt[f] # "new", TakeFails(r, kind, f)
      PROVE  OauthInv'
  BY <1>7, LosingKeeps
<1>8. ASSUME NEW f \in Flow, CodeFails(f) PROVE OauthInv'
  BY <1>8, LosingKeeps
<1>9. CASE OauthTick
  BY <1>9, LosingKeeps
<1>10. CASE UNCHANGED oauthVars
  BY <1>1, <1>10 DEF oauthVars, stores, OauthInv, OauthTypes, InReach
<1> QED
  BY <1>2, <1>3, <1>4, <1>5, <1>6, <1>7, <1>8, <1>9, <1>10 DEF OauthNext

OauthSpec == OauthInit /\ [][OauthNext]_oauthVars

\* LoginsHold is kept by them alone.
LEMMA OauthAlone == OauthSpec => []LoginsHold
<1>1. OauthInv => LoginsHold
  <2> SUFFICES ASSUME OauthInv PROVE LoginsHold
    OBVIOUS
  <2>1. \A t \in DOMAIN accepted : accepted[t] <= 1
    BY DEF OauthInv, OauthTypes, OnePlace
  <2>2. ASSUME NEW kind \in Kind, NEW f \in Flow, Waiting(kind, f), oauthNow < until[<<kind, f>>],
               <<kind, f>> \notin marred, NEW r \in OauthReplica, mode[r] # "down"
        PROVE  EntryOf(Holds(r), kind, f) # {}
    <3>1. PICK e \in shared : e = <<kind, f, until[<<kind, f>>]>>
      BY <2>2 DEF OauthInv, InReach
    <3>2. Holds(r) = shared
      BY <2>2 DEF OauthInv, InReach, OauthTypes, Holds
    <3>3. e \in EntryOf(Holds(r), kind, f)
      BY <3>1, <3>2 DEF EntryOf
    <3> QED
      BY <3>3
  <2> QED
    BY <2>1, <2>2 DEF LoginsHold
<1> QED
  BY <1>1, OauthStart, OauthStep, PTL DEF OauthSpec

-----------------------------------------------------------------------------
(* The codes mailed to one account, for any number of them, of requests and *)
(* of guesses.                                                              *)

IsRow(x) ==
    /\ x = [born |-> x.born, attempts |-> x.attempts, used |-> x.used]
    /\ x.born \in Nat /\ x.attempts \in Nat /\ x.used \in BOOLEAN

CodesTypes ==
    /\ codesNow \in Nat /\ uncounted \in Nat
    /\ codes = [c \in Code |-> codes[c]] /\ \A c \in Code : codes[c] = NoCode \/ IsRow(codes[c])
    /\ wrongGuesses = [c \in Code |-> wrongGuesses[c]] /\ \A c \in Code : wrongGuesses[c] \in Nat
    /\ applied = [c \in Code |-> applied[c]] /\ \A c \in Code : applied[c] \in Nat
    /\ codeSlot = [s \in CodeSlot |-> codeSlot[s]]
    /\ \A s \in CodeSlot : \/ codeSlot[s].at \in {"free", "counted"}
                           \/ /\ codeSlot[s].at \in {"right", "wrong", "applied"}
                              /\ codeSlot[s] = [at |-> codeSlot[s].at, code |-> codeSlot[s].code]
                              /\ codeSlot[s].code \in Code /\ codes[codeSlot[s].code] # NoCode
    /\ raced \cup unmarked \subseteq Code

\* Requests that have counted the codes and not stored theirs, and those that have
\* found a guess wrong and not counted it.
Counting    == { s \in CodeSlot : codeSlot[s].at = "counted" }
Guessing(c) == { s \in CodeSlot : codeSlot[s].at = "wrong" /\ codeSlot[s].code = c }
Slots       == Cardinality(CodeSlot)

\* A code in the making is as good as one that is there.
HourHolds == Cardinality(RecentCodes) + Cardinality(Counting) <= MaxCodesPerHour + (Slots - 1) + uncounted

\* A wrong guess is counted, is about to be, or was not in silence.
GuessesHold ==
    \A c \in Code :
        /\ wrongGuesses[c] <= MaxResetAttempts + (Slots - 1) + uncounted
        /\ codes[c] = NoCode => wrongGuesses[c] = 0
        /\ codes[c] # NoCode => wrongGuesses[c] <= codes[c].attempts + Cardinality(Guessing(c)) + uncounted

\* A code that was neither raced nor left unmarked is in one request's hands at
\* most, and when it has taken effect it is used or about to be.
SpendingHolds ==
    \A c \in Code \ (raced \cup unmarked) :
        /\ applied[c] <= 1
        /\ codes[c] = NoCode => applied[c] = 0
        /\ \A s, z \in CodeSlot : CodeInUse(s, c) /\ CodeInUse(z, c) => s = z
        /\ \A s \in CodeSlot : codeSlot[s].at = "right" /\ codeSlot[s].code = c => applied[c] = 0
        /\ applied[c] = 1 =>
             codes[c].used \/ \E s \in CodeSlot : codeSlot[s].at = "applied" /\ codeSlot[s].code = c

CodesInv == CodesTypes /\ HourHolds /\ GuessesHold /\ SpendingHolds

\* The sets that are counted are finite, and there is a request.
LEMMA CodesAreFinite ==
  ASSUME CodesTypes
  PROVE  /\ IsFiniteSet(RecentCodes) /\ Cardinality(RecentCodes) \in Nat
         /\ IsFiniteSet(Counting) /\ Cardinality(Counting) \in Nat /\ Cardinality(Counting) <= Slots
         /\ \A c : /\ IsFiniteSet(Guessing(c)) /\ Cardinality(Guessing(c)) \in Nat
                   /\ Cardinality(Guessing(c)) <= Slots
         /\ Slots \in Nat
<1>1. RecentCodes \subseteq Code /\ Counting \subseteq CodeSlot /\ \A c : Guessing(c) \subseteq CodeSlot
  BY DEF RecentCodes, CodeRows, Counting, Guessing
<1>2. IsFiniteSet(Code) /\ IsFiniteSet(CodeSlot)
  BY CodesAssumption
<1> QED
  BY <1>1, <1>2, FS_Subset, FS_CardinalityType DEF Slots

\* A request that is doing something else is not among those that count or guess.
LEMMA OneMoreSlot ==
  ASSUME CodesTypes, NEW s \in CodeSlot
  PROVE  /\ s \notin Counting => Cardinality(Counting) <= Slots - 1
         /\ \A c : s \notin Guessing(c) => Cardinality(Guessing(c)) <= Slots - 1
<1>1. IsFiniteSet(CodeSlot \ {s}) /\ Cardinality(CodeSlot \ {s}) = Slots - 1
  BY CodesAssumption, FS_RemoveElement DEF Slots
<1>2. s \notin Counting => Counting \subseteq CodeSlot \ {s}
  BY DEF Counting
<1>3. \A c : s \notin Guessing(c) => Guessing(c) \subseteq CodeSlot \ {s}
  BY DEF Guessing
<1> QED
  BY <1>1, <1>2, <1>3, FS_Subset

\* No code changes hands, and none is spent.
LEMMA SpendingStays ==
  ASSUME SpendingHolds, applied' = applied, raced' = raced, unmarked' = unmarked,
         \A z \in CodeSlot : codeSlot'[z].at \in {"right", "applied"} => codeSlot'[z] = codeSlot[z],
         \A z \in CodeSlot : codeSlot[z].at = "applied" => codeSlot'[z] = codeSlot[z],
         \A d \in Code : (codes'[d] = NoCode <=> codes[d] = NoCode) /\ codes'[d].used = codes[d].used
  PROVE  SpendingHolds'
<1> SUFFICES ASSUME NEW c \in Code, c \notin raced, c \notin unmarked
             PROVE  /\ applied[c] <= 1
                    /\ codes'[c] = NoCode => applied[c] = 0
                    /\ \A y, z \in CodeSlot : CodeInUse(y, c)' /\ CodeInUse(z, c)' => y = z
                    /\ \A y \in CodeSlot : codeSlot'[y].at = "right" /\ codeSlot'[y].code = c => applied[c] = 0
                    /\ applied[c] = 1 => codes'[c].used \/ \E y \in CodeSlot : codeSlot'[y].at = "applied" /\ codeSlot'[y].code = c
  BY DEF SpendingHolds
<1>1. \A z \in CodeSlot : CodeInUse(z, c)' => CodeInUse(z, c)
  BY DEF CodeInUse
<1>2. /\ applied[c] <= 1
      /\ codes[c] = NoCode => applied[c] = 0
      /\ \A y, z \in CodeSlot : CodeInUse(y, c) /\ CodeInUse(z, c) => y = z
      /\ \A y \in CodeSlot : codeSlot[y].at = "right" /\ codeSlot[y].code = c => applied[c] = 0
      /\ applied[c] = 1 => codes[c].used \/ \E y \in CodeSlot : codeSlot[y].at = "applied" /\ codeSlot[y].code = c
  BY DEF SpendingHolds
<1>3. applied[c] = 1 => codes'[c].used \/ \E y \in CodeSlot : codeSlot'[y].at = "applied" /\ codeSlot'[y].code = c
  BY <1>2
<1> QED
  BY <1>1, <1>2, <1>3

\* No code, and nobody.
LEMMA CodesStart == CodesInit => CodesInv
<1> SUFFICES ASSUME CodesInit PROVE CodesInv
  OBVIOUS
<1>1. CodesTypes
  BY DEF CodesInit, CodesTypes, FreeSlot
<1>2. RecentCodes = {} /\ Counting = {} /\ \A c \in Code : Guessing(c) = {} /\ codes[c] = NoCode
  BY DEF CodesInit, RecentCodes, CodeRows, Counting, Guessing, FreeSlot
<1>3. Slots \in Nat /\ MaxCodesPerHour \in Nat \ {0} /\ MaxResetAttempts \in Nat \ {0}
  BY <1>1, CodesAssumption, CodesAreFinite
<1>4. HourHolds
  BY <1>2, <1>3, FS_EmptySet DEF CodesInit, HourHolds
<1>5. GuessesHold
  BY <1>2, <1>3 DEF CodesInit, GuessesHold
<1>6. SpendingHolds
  BY DEF CodesInit, SpendingHolds, CodeInUse, FreeSlot
<1> QED
  BY <1>1, <1>4, <1>5, <1>6 DEF CodesInv

\* What one request does to the sets.
SlotMoves(s) ==
    codeSlot' = [z \in CodeSlot |-> codeSlot'[z]] /\ \A z \in CodeSlot : z # s => codeSlot'[z] = codeSlot[z]

\* It joins or leaves them alone.
LEMMA SetsMove ==
  ASSUME CodesTypes, CodesTypes', NEW s \in CodeSlot, SlotMoves(s)
  PROVE  /\ codeSlot[s].at # "counted" /\ codeSlot'[s].at = "counted" =>
              Cardinality(Counting') = Cardinality(Counting) + 1 /\ Cardinality(Counting) <= Slots - 1
         /\ codeSlot[s].at # "counted" /\ codeSlot'[s].at # "counted" => Counting' = Counting
         /\ codeSlot[s].at = "counted" /\ codeSlot'[s].at # "counted" =>
              Cardinality(Counting') = Cardinality(Counting) - 1
         /\ \A c : s \notin Guessing(c) /\ s \notin Guessing(c)' => Guessing(c)' = Guessing(c)
         /\ \A c : s \notin Guessing(c) /\ s \in Guessing(c)' =>
              Cardinality(Guessing(c)') = Cardinality(Guessing(c)) + 1 /\ Cardinality(Guessing(c)) <= Slots - 1
         /\ \A c : s \in Guessing(c) /\ s \notin Guessing(c)' =>
              Cardinality(Guessing(c)') = Cardinality(Guessing(c)) - 1
<1>1. codeSlot[s].at # "counted" /\ codeSlot'[s].at = "counted" => Counting' = Counting \cup {s} /\ s \notin Counting
  BY DEF SlotMoves, Counting
<1>2. codeSlot[s].at # "counted" /\ codeSlot'[s].at # "counted" => Counting' = Counting
  BY DEF SlotMoves, Counting
<1>3. codeSlot[s].at = "counted" /\ codeSlot'[s].at # "counted" => Counting' = Counting \ {s} /\ s \in Counting
  BY DEF SlotMoves, Counting
<1>4. \A c : s \notin Guessing(c) /\ s \notin Guessing(c)' => Guessing(c)' = Guessing(c)
  BY DEF SlotMoves, Guessing
<1>5. \A c : s \notin Guessing(c) /\ s \in Guessing(c)' => Guessing(c)' = Guessing(c) \cup {s}
  BY DEF SlotMoves, Guessing
<1>6. \A c : s \in Guessing(c) /\ s \notin Guessing(c)' => Guessing(c)' = Guessing(c) \ {s}
  BY DEF SlotMoves, Guessing
<1>7. IsFiniteSet(Counting) /\ \A c : IsFiniteSet(Guessing(c))
  BY CodesAreFinite
<1>8. s \notin Counting => Cardinality(Counting \cup {s}) = Cardinality(Counting) + 1
  BY <1>7, FS_AddElement
<1>9. s \in Counting => Cardinality(Counting \ {s}) = Cardinality(Counting) - 1
  BY <1>7, FS_RemoveElement
<1>10. \A c : s \notin Guessing(c) => Cardinality(Guessing(c) \cup {s}) = Cardinality(Guessing(c)) + 1
  BY <1>7, FS_AddElement
<1>11. \A c : s \in Guessing(c) => Cardinality(Guessing(c) \ {s}) = Cardinality(Guessing(c)) - 1
  BY <1>7, FS_RemoveElement
<1>12. s \notin Counting => Cardinality(Counting) <= Slots - 1
  BY OneMoreSlot
<1>13. \A c : s \notin Guessing(c) => Cardinality(Guessing(c)) <= Slots - 1
  BY OneMoreSlot
<1>14. codeSlot[s].at # "counted" /\ codeSlot'[s].at = "counted" =>
         Cardinality(Counting') = Cardinality(Counting) + 1 /\ Cardinality(Counting) <= Slots - 1
  BY <1>1, <1>8, <1>12
<1>15. codeSlot[s].at = "counted" /\ codeSlot'[s].at # "counted" => Cardinality(Counting') = Cardinality(Counting) - 1
  BY <1>3, <1>9
<1>16. \A c : s \notin Guessing(c) /\ s \in Guessing(c)' =>
         Cardinality(Guessing(c)') = Cardinality(Guessing(c)) + 1 /\ Cardinality(Guessing(c)) <= Slots - 1
  BY <1>5, <1>10, <1>13
<1>17. \A c : s \in Guessing(c) /\ s \notin Guessing(c)' => Cardinality(Guessing(c)') = Cardinality(Guessing(c)) - 1
  BY <1>6, <1>11
<1> QED
  BY <1>2, <1>4, <1>14, <1>15, <1>16, <1>17

\* Nobody asks, and nothing new is stored.
LEMMA HourStays ==
  ASSUME CodesInv, CodesTypes', RecentCodes' \subseteq RecentCodes,
         Cardinality(Counting') <= Cardinality(Counting), uncounted <= uncounted'
  PROVE  HourHolds'
<1>1. PICK n, m, r, k : n = Cardinality(RecentCodes') /\ m = Cardinality(Counting') /\ r = Cardinality(RecentCodes)
                        /\ k = Cardinality(Counting)
  OBVIOUS
<1>2. IsFiniteSet(RecentCodes) /\ r \in Nat /\ k \in Nat /\ Slots \in Nat
  BY <1>1, CodesAreFinite DEF CodesInv
<1>3. IsFiniteSet(RecentCodes') /\ n <= r
  BY <1>1, <1>2, FS_Subset
<1>4. IsFiniteSet(Counting')
  <2>1. Counting' \subseteq CodeSlot
    BY DEF Counting
  <2> QED
    BY <2>1, CodesAssumption, FS_Subset
<1>5. n \in Nat /\ m \in Nat
  BY <1>1, <1>3, <1>4, FS_CardinalityType
<1>6. r + k <= MaxCodesPerHour + (Slots - 1) + uncounted
  BY <1>1 DEF CodesInv, HourHolds
<1>7. n + m <= MaxCodesPerHour + (Slots - 1) + uncounted'
  BY <1>1, <1>2, <1>3, <1>5, <1>6, CodesAssumption DEF CodesInv, CodesTypes
<1> QED
  BY <1>1, <1>7 DEF HourHolds, Slots

\* Nobody guesses, and no guess is counted.
LEMMA GuessesStay ==
  ASSUME CodesInv, CodesTypes', wrongGuesses' = wrongGuesses, uncounted <= uncounted',
         \A c \in Code : Guessing(c)' = Guessing(c),
         \A c \in Code : codes[c] # NoCode => codes'[c] # NoCode /\ codes'[c].attempts = codes[c].attempts
  PROVE  GuessesHold'
<1> SUFFICES ASSUME NEW c \in Code
             PROVE  /\ wrongGuesses[c] <= MaxResetAttempts + (Slots - 1) + uncounted'
                    /\ codes'[c] = NoCode => wrongGuesses[c] = 0
                    /\ codes'[c] # NoCode =>
                         wrongGuesses[c] <= codes'[c].attempts + Cardinality(Guessing(c))' + uncounted'
  BY DEF GuessesHold, Slots
<1>1. PICK n : n = Cardinality(Guessing(c)) /\ n = Cardinality(Guessing(c))'
  BY Zenon
<1>2. n \in Nat /\ Slots \in Nat /\ uncounted \in Nat /\ uncounted' \in Nat /\ wrongGuesses[c] \in Nat
  BY <1>1, CodesAreFinite DEF CodesInv, CodesTypes
<1>3. /\ wrongGuesses[c] <= MaxResetAttempts + (Slots - 1) + uncounted
      /\ codes[c] = NoCode => wrongGuesses[c] = 0
      /\ codes[c] # NoCode => wrongGuesses[c] <= codes[c].attempts + n + uncounted
  BY <1>1 DEF CodesInv, GuessesHold
<1>4. /\ codes[c] # NoCode => codes[c].attempts \in Nat
      /\ codes'[c] # NoCode => codes'[c].attempts \in Nat
  BY DEF CodesInv, CodesTypes, IsRow
<1>5. wrongGuesses[c] <= MaxResetAttempts + (Slots - 1) + uncounted'
  BY <1>2, <1>3, CodesAssumption
<1>6. codes'[c] # NoCode => wrongGuesses[c] <= codes'[c].attempts + n + uncounted'
  BY <1>2, <1>3, <1>4
<1> QED
  BY <1>1, <1>3, <1>5, <1>6

\* The hour is counted, or the count fails.
LEMMA AskKeeps ==
  ASSUME CodesInv, NEW s \in CodeSlot, AskForCode(s)
  PROVE  CodesInv'
<1> USE CodesAssumption DEF CodesInv
<1>1. /\ SlotMoves(s) /\ codeSlot[s].at = "free" /\ codeSlot'[s] = [at |-> "counted"]
      /\ UNCHANGED <<codes, codesNow, wrongGuesses, applied, unmarked, raced>>
      /\ \/ uncounted' = uncounted + 1
         \/ uncounted' = uncounted /\ Cardinality(RecentCodes) < MaxCodesPerHour
  BY DEF AskForCode, SilentFault, SlotMoves, FreeSlot, CodesTypes
<1>2. CodesTypes'
  BY <1>1 DEF CodesTypes, SlotMoves, IsRow
<1>3. /\ Cardinality(Counting') = Cardinality(Counting) + 1 /\ Cardinality(Counting) <= Slots - 1
      /\ \A c : Guessing(c)' = Guessing(c)
  <2>1. \A c : s \notin Guessing(c) /\ s \notin Guessing(c)'
    BY <1>1 DEF Guessing
  <2> QED
    BY <1>1, <1>2, <2>1, SetsMove
<1>4. RecentCodes' = RecentCodes
  BY <1>1 DEF RecentCodes, CodeRows
<1>5. HourHolds'
  <2>1. Cardinality(RecentCodes)' = Cardinality(RecentCodes) /\ Cardinality(Counting)' = Cardinality(Counting) + 1
    BY <1>3, <1>4, Zenon
  <2>2. Cardinality(RecentCodes) \in Nat /\ Cardinality(Counting) \in Nat /\ Slots \in Nat /\ uncounted \in Nat
    BY CodesAreFinite DEF CodesTypes
  <2>3. Cardinality(RecentCodes) + (Cardinality(Counting) + 1) <= MaxCodesPerHour + (Slots - 1) + uncounted'
    BY <1>1, <1>3, <2>2 DEF HourHolds
  <2> QED
    BY <2>1, <2>3 DEF HourHolds, Slots
<1>6. GuessesHold'
  <2>1. uncounted <= uncounted'
    BY <1>1 DEF CodesTypes
  <2> QED
    BY <1>1, <1>2, <1>3, <2>1, GuessesStay
<1>7. SpendingHolds'
  BY <1>1 DEF SpendingHolds, CodeInUse, SlotMoves
<1> QED
  BY <1>2, <1>5, <1>6, <1>7

\* A counted code is stored, or is not; the sum does not grow.
LEMMA StoreKeeps ==
  ASSUME CodesInv, NEW s \in CodeSlot, StoreCode(s)
  PROVE  CodesInv'
<1> USE CodesAssumption DEF CodesInv
<1>1. /\ SlotMoves(s) /\ codeSlot[s].at = "counted" /\ codeSlot'[s].at = "free"
      /\ UNCHANGED <<codesNow, wrongGuesses, applied, unmarked, raced, uncounted>>
  BY DEF StoreCode, LeaveCode, SlotMoves, FreeSlot, CodesTypes
<1>2. /\ codes' = [c \in Code |-> codes'[c]]
      /\ \A c \in Code : codes[c] # NoCode => codes'[c] = codes[c]
      /\ \A c \in Code : codes'[c] = NoCode \/ IsRow(codes'[c])
      /\ codes' = codes \/ \E c \in Code : \A d \in Code : d # c => codes'[d] = codes[d]
  <2>1. ASSUME NEW c \in Code, c \notin CodeRows, codes' = [codes EXCEPT ![c] = [born |-> codesNow, attempts |-> 0, used |-> FALSE]]
        PROVE  <1>2
    <3>1. codes[c] = NoCode
      BY <2>1 DEF CodeRows
    <3>2. codes'[c] = [born |-> codesNow, attempts |-> 0, used |-> FALSE] /\ \A d \in Code : d # c => codes'[d] = codes[d]
      BY <2>1 DEF CodesTypes
    <3>3. IsRow(codes'[c])
      BY <3>2 DEF IsRow, CodesTypes
    <3> QED
      BY <2>1, <3>1, <3>2, <3>3 DEF CodesTypes
  <2>2. CASE codes' = codes
    BY <2>2 DEF CodesTypes
  <2> QED
    BY <2>1, <2>2 DEF StoreCode
<1>3. CodesTypes'
  BY <1>1, <1>2 DEF CodesTypes, SlotMoves
<1>4. Cardinality(Counting') = Cardinality(Counting) - 1 /\ \A c : Guessing(c)' = Guessing(c)
  <2>1. \A c : s \notin Guessing(c) /\ s \notin Guessing(c)'
    BY <1>1 DEF Guessing
  <2> QED
    BY <1>1, <1>3, <2>1, SetsMove
<1>5. HourHolds'
  <2>1. \E x : RecentCodes' \subseteq RecentCodes \cup {x}
    BY <1>1, <1>2 DEF RecentCodes, CodeRows
  <2>2. PICK x : RecentCodes' \subseteq RecentCodes \cup {x}
    BY <2>1
  <2>3. PICK n, m, r, k : n = Cardinality(RecentCodes') /\ m = Cardinality(Counting') /\ r = Cardinality(RecentCodes)
                          /\ k = Cardinality(Counting)
    OBVIOUS
  <2>4. IsFiniteSet(RecentCodes) /\ r \in Nat /\ k \in Nat /\ Slots \in Nat /\ uncounted \in Nat
    BY <2>3, CodesAreFinite DEF CodesTypes
  <2>5. IsFiniteSet(RecentCodes \cup {x}) /\ Cardinality(RecentCodes \cup {x}) = (IF x \in RecentCodes THEN r ELSE r + 1)
    BY <2>3, <2>4, FS_AddElement
  <2>6. IsFiniteSet(RecentCodes') /\ n <= Cardinality(RecentCodes \cup {x})
    BY <2>2, <2>3, <2>5, FS_Subset
  <2>7. n \in Nat /\ n <= r + 1
    BY <2>3, <2>4, <2>5, <2>6, FS_CardinalityType
  <2>8. r + k <= MaxCodesPerHour + (Slots - 1) + uncounted /\ m = k - 1
    BY <1>4, <2>3 DEF HourHolds
  <2>9. n + m <= MaxCodesPerHour + (Slots - 1) + uncounted'
    BY <1>1, <2>4, <2>7, <2>8
  <2> QED
    BY <2>3, <2>9 DEF HourHolds, Slots
<1>6. GuessesHold'
  <2>1. uncounted <= uncounted'
    BY <1>1 DEF CodesTypes
  <2> QED
    BY <1>1, <1>2, <1>3, <1>4, <2>1, GuessesStay
<1>7. SpendingHolds'
  <2> SUFFICES ASSUME NEW c \in Code, c \notin raced, c \notin unmarked
               PROVE  /\ applied[c] <= 1
                      /\ codes'[c] = NoCode => applied[c] = 0
                      /\ \A y, z \in CodeSlot : CodeInUse(y, c)' /\ CodeInUse(z, c)' => y = z
                      /\ \A y \in CodeSlot : codeSlot'[y].at = "right" /\ codeSlot'[y].code = c => applied[c] = 0
                      /\ applied[c] = 1 => codes'[c].used \/ \E y \in CodeSlot : codeSlot'[y].at = "applied" /\ codeSlot'[y].code = c
    BY <1>1 DEF SpendingHolds
  <2>1. \A y \in CodeSlot : codeSlot'[y].at \in {"right", "applied"} => codeSlot'[y] = codeSlot[y]
    BY <1>1 DEF SlotMoves
  <2>2. \A y \in CodeSlot : codeSlot[y].at = "applied" => codeSlot'[y] = codeSlot[y]
    BY <1>1 DEF SlotMoves
  <2>3. applied[c] = 1 => codes[c] # NoCode /\ codes'[c] = codes[c]
    BY <1>2 DEF SpendingHolds
  <2>4. codes'[c] = NoCode => codes[c] = NoCode
    BY <1>2
  <2> QED
    BY <2>1, <2>2, <2>3, <2>4 DEF SpendingHolds, CodeInUse
<1> QED
  BY <1>3, <1>5, <1>6, <1>7

\* Nothing happens to the rows but what the handler sets.
SameRows ==
    codes' = [c \in Code |-> codes'[c]] /\ \A c \in Code :
        /\ codes'[c] = NoCode <=> codes[c] = NoCode
        /\ codes'[c] = NoCode \/ IsRow(codes'[c])
        /\ codes[c] # NoCode => codes'[c].born = codes[c].born

\* They are as recent as they were.
LEMMA SameRecent ==
  ASSUME SameRows, codesNow' = codesNow
  PROVE  RecentCodes' = RecentCodes
BY DEF SameRows, RecentCodes, CodeRows

\* A guess at a code: it is compared before it is counted.
LEMMA SubmitKeeps ==
  ASSUME CodesInv, NEW s \in CodeSlot, NEW right \in BOOLEAN, SubmitCode(s, right)
  PROVE  CodesInv'
<1> USE CodesAssumption DEF CodesInv
<1>1. PICK c \in NewestOf(UsableCodes) :
        /\ codes[c].attempts < MaxResetAttempts
        /\ codeSlot' = [codeSlot EXCEPT ![s] = [at |-> IF right THEN "right" ELSE "wrong", code |-> c]]
        /\ wrongGuesses' = IF right THEN wrongGuesses ELSE [wrongGuesses EXCEPT ![c] = @ + 1]
        /\ raced' = IF \E other \in CodeSlot : CodeInUse(other, c) THEN raced \cup {c} ELSE raced
  BY DEF SubmitCode
<1>2. c \in Code /\ codes[c] # NoCode /\ IsRow(codes[c]) /\ ~codes[c].used
  BY <1>1 DEF NewestOf, UsableCodes, CodeRows, CodesTypes
<1>3. PICK a : a = IF right THEN "right" ELSE "wrong"
  OBVIOUS
<1>4. /\ SlotMoves(s) /\ codeSlot[s].at = "free" /\ codeSlot'[s] = [at |-> a, code |-> c]
      /\ UNCHANGED <<codes, codesNow, applied, unmarked, uncounted>>
  BY <1>1, <1>3 DEF SubmitCode, SlotMoves, FreeSlot, CodesTypes
<1>5. codeSlot'[s].at = a /\ codeSlot'[s].code = c /\ a \in {"right", "wrong"} /\ (a = "right" <=> right)
  BY <1>3, <1>4
<1>6. /\ wrongGuesses' = [d \in Code |-> wrongGuesses'[d]]
      /\ wrongGuesses'[c] = wrongGuesses[c] + (IF a = "wrong" THEN 1 ELSE 0)
      /\ \A d \in Code : d # c => wrongGuesses'[d] = wrongGuesses[d]
  BY <1>1, <1>2, <1>5 DEF CodesTypes
<1>7. CodesTypes'
  <2>1. \A d \in Code : wrongGuesses'[d] \in Nat
    BY <1>2, <1>6 DEF CodesTypes
  <2>2. raced' \cup unmarked' \subseteq Code
    BY <1>1, <1>2, <1>4 DEF CodesTypes
  <2> QED
    BY <1>2, <1>4, <1>5, <1>6, <2>1, <2>2 DEF CodesTypes, SlotMoves
<1>8. RecentCodes' = RecentCodes
  BY <1>4 DEF RecentCodes, CodeRows
<1>9. HourHolds'
  <2>1. Counting' = Counting
    BY <1>4, <1>5, <1>7, SetsMove
  <2>2. Cardinality(Counting') <= Cardinality(Counting)
    BY <2>1, CodesAreFinite
  <2> QED
    BY <1>4, <1>7, <1>8, <2>2, HourStays DEF CodesTypes
<1>10. GuessesHold'
  <2>1. \A d \in Code : d # c \/ a = "right" => Guessing(d)' = Guessing(d)
    <3>1. \A d \in Code : d # c \/ a = "right" => s \notin Guessing(d) /\ s \notin Guessing(d)'
      BY <1>4, <1>5 DEF Guessing
    <3> QED
      BY <1>4, <1>7, <3>1, SetsMove
  <2>2. a = "wrong" => Cardinality(Guessing(c)') = Cardinality(Guessing(c)) + 1 /\ Cardinality(Guessing(c)) <= Slots - 1
    <3>1. a = "wrong" => s \notin Guessing(c) /\ s \in Guessing(c)'
      BY <1>4, <1>5 DEF Guessing
    <3> QED
      BY <1>4, <1>7, <3>1, SetsMove
  <2>3. CASE a = "right"
    BY <1>2, <1>4, <1>5, <1>6, <1>7, <2>1, <2>3, GuessesStay DEF CodesTypes
  <2>4. CASE a = "wrong"
    <3> SUFFICES ASSUME NEW d \in Code
                 PROVE  /\ wrongGuesses'[d] <= MaxResetAttempts + (Slots - 1) + uncounted
                        /\ codes[d] = NoCode => wrongGuesses'[d] = 0
                        /\ codes[d] # NoCode => wrongGuesses'[d] <= codes[d].attempts + Cardinality(Guessing(d))' + uncounted
      BY <1>4 DEF GuessesHold, Slots
    <3>1. /\ wrongGuesses[d] <= MaxResetAttempts + (Slots - 1) + uncounted
          /\ codes[d] = NoCode => wrongGuesses[d] = 0
          /\ codes[d] # NoCode => wrongGuesses[d] <= codes[d].attempts + Cardinality(Guessing(d)) + uncounted
      BY DEF GuessesHold
    <3>2. CASE d # c
      <4>1. Cardinality(Guessing(d))' = Cardinality(Guessing(d)) /\ wrongGuesses'[d] = wrongGuesses[d]
        BY <1>6, <2>1, <3>2
      <4> QED
        BY <3>1, <4>1
    <3>3. CASE d = c
      <4>1. PICK n : n = Cardinality(Guessing(c)) /\ Cardinality(Guessing(c)') = n + 1 /\ n <= Slots - 1
        BY <2>2, <2>4
      <4>2. n \in Nat /\ Slots \in Nat /\ uncounted \in Nat /\ wrongGuesses[c] \in Nat /\ codes[c].attempts \in Nat
        BY <1>2, <4>1, CodesAreFinite DEF CodesTypes, IsRow
      <4>3. wrongGuesses[c] <= codes[c].attempts + n + uncounted
        BY <1>2, <3>1, <3>3, <4>1
      <4>4. wrongGuesses'[c] = wrongGuesses[c] + 1
        BY <1>6, <2>4
      <4>5. codes[c].attempts < MaxResetAttempts
        BY <1>1
      <4>6. wrongGuesses'[c] <= MaxResetAttempts + (Slots - 1) + uncounted
        BY <4>1, <4>2, <4>3, <4>4, <4>5
      <4>7. wrongGuesses'[c] <= codes[c].attempts + (n + 1) + uncounted
        BY <4>2, <4>3, <4>4
      <4> QED
        BY <1>2, <3>3, <4>1, <4>6, <4>7
    <3> QED
      BY <3>2, <3>3
  <2> QED
    BY <1>5, <2>3, <2>4
<1>11. SpendingHolds'
  <2> SUFFICES ASSUME NEW d \in Code, d \notin raced', d \notin unmarked
               PROVE  /\ applied[d] <= 1
                      /\ codes[d] = NoCode => applied[d] = 0
                      /\ \A y, z \in CodeSlot : CodeInUse(y, d)' /\ CodeInUse(z, d)' => y = z
                      /\ \A y \in CodeSlot : codeSlot'[y].at = "right" /\ codeSlot'[y].code = d => applied[d] = 0
                      /\ applied[d] = 1 => codes[d].used \/ \E y \in CodeSlot : codeSlot'[y].at = "applied" /\ codeSlot'[y].code = d
    BY <1>4 DEF SpendingHolds
  <2>1. d \notin raced /\ (d = c => \A z \in CodeSlot : ~CodeInUse(z, d))
    BY <1>1
  <2>2. \A z \in CodeSlot : z # s => codeSlot'[z] = codeSlot[z]
    BY <1>4 DEF SlotMoves
  <2>3. CASE d = c
    <3>1. applied[d] = 0
      BY <1>2, <2>1, <2>3 DEF SpendingHolds, CodeInUse, CodesTypes
    <3>2. \A z \in CodeSlot : CodeInUse(z, d)' => z = s
      BY <2>1, <2>2, <2>3 DEF CodeInUse
    <3> QED
      BY <3>1, <3>2
  <2>4. CASE d # c
    <3>1. \A z \in CodeSlot : CodeInUse(z, d)' => z # s /\ CodeInUse(z, d)
      BY <1>5, <2>2, <2>4 DEF CodeInUse
    <3>2. \A z \in CodeSlot : codeSlot[z].at = "applied" => z # s
      BY <1>4
    <3>3. /\ applied[d] <= 1
          /\ codes[d] = NoCode => applied[d] = 0
          /\ \A y, z \in CodeSlot : CodeInUse(y, d) /\ CodeInUse(z, d) => y = z
          /\ \A y \in CodeSlot : codeSlot[y].at = "right" /\ codeSlot[y].code = d => applied[d] = 0
          /\ applied[d] = 1 => codes[d].used \/ \E y \in CodeSlot : codeSlot[y].at = "applied" /\ codeSlot[y].code = d
      BY <2>1 DEF SpendingHolds
    <3>4. \A y, z \in CodeSlot : CodeInUse(y, d)' /\ CodeInUse(z, d)' => y = z
      BY <3>1, <3>3
    <3>5. \A y \in CodeSlot : codeSlot'[y].at = "right" /\ codeSlot'[y].code = d => applied[d] = 0
      BY <1>5, <2>2, <2>4, <3>3
    <3>6. applied[d] = 1 => codes[d].used \/ \E y \in CodeSlot : codeSlot'[y].at = "applied" /\ codeSlot'[y].code = d
      BY <2>2, <3>2, <3>3
    <3> QED
      BY <3>3, <3>4, <3>5, <3>6
  <2> QED
    BY <2>3, <2>4
<1> QED
  BY <1>7, <1>9, <1>10, <1>11

\* The guess is counted, or the count fails in silence.
LEMMA CountKeeps ==
  ASSUME CodesInv, NEW s \in CodeSlot, CountGuess(s)
  PROVE  CodesInv'
<1> USE CodesAssumption DEF CodesInv
<1>1. PICK c \in Code : codeSlot[s].at = "wrong" /\ codeSlot[s].code = c /\ codes[c] # NoCode /\ IsRow(codes[c])
  BY DEF CountGuess, CodesTypes
<1>2. /\ SlotMoves(s) /\ codeSlot'[s].at = "free"
      /\ UNCHANGED <<codesNow, wrongGuesses, applied, unmarked, raced>>
      /\ \/ codes' = [codes EXCEPT ![c].attempts = @ + 1] /\ uncounted' = uncounted
         \/ codes' = codes /\ uncounted' = uncounted + 1
  BY <1>1 DEF CountGuess, LeaveCode, SilentFault, SlotMoves, FreeSlot, CodesTypes
<1>3. /\ codes' = [d \in Code |-> codes'[d]] /\ \A d \in Code : d # c => codes'[d] = codes[d]
      /\ codes'[c] = [born |-> codes[c].born, attempts |-> codes'[c].attempts, used |-> codes[c].used]
      /\ \/ codes'[c].attempts = codes[c].attempts + 1 /\ uncounted' = uncounted
         \/ codes'[c].attempts = codes[c].attempts /\ uncounted' = uncounted + 1
  <2>1. CASE codes' = [codes EXCEPT ![c].attempts = @ + 1] /\ uncounted' = uncounted
    <3>1. codes'[c] = [codes[c] EXCEPT !.attempts = codes[c].attempts + 1]
      BY <2>1 DEF CodesTypes
    <3>2. codes'[c] = [born |-> codes[c].born, attempts |-> codes[c].attempts + 1, used |-> codes[c].used]
      BY <1>1, <3>1 DEF IsRow
    <3> QED
      BY <2>1, <3>2 DEF CodesTypes
  <2>2. CASE codes' = codes /\ uncounted' = uncounted + 1
    BY <1>1, <2>2 DEF CodesTypes, IsRow
  <2> QED
    BY <1>2, <2>1, <2>2
<1>4. codes'[c].born = codes[c].born /\ codes'[c].used = codes[c].used
  BY <1>3
<1>5. IsRow(codes'[c]) /\ codes'[c] # NoCode
  BY <1>1, <1>3, <1>4 DEF IsRow, NoCode
<1>6. SameRows
  BY <1>1, <1>3, <1>4, <1>5 DEF SameRows, CodesTypes
<1>7. CodesTypes'
  BY <1>2, <1>3, <1>6 DEF CodesTypes, SlotMoves, SameRows
<1>8. Cardinality(Guessing(c)') = Cardinality(Guessing(c)) - 1 /\ Counting' = Counting
      /\ \A d \in Code : d # c => Guessing(d)' = Guessing(d)
  <2>1. s \in Guessing(c) /\ s \notin Guessing(c)'
    BY <1>1, <1>2 DEF Guessing
  <2>2. \A d \in Code : d # c => s \notin Guessing(d) /\ s \notin Guessing(d)'
    BY <1>1, <1>2 DEF Guessing
  <2> QED
    BY <1>1, <1>2, <1>7, <2>1, <2>2, SetsMove
<1>9. HourHolds'
  <2>1. RecentCodes' = RecentCodes
    BY <1>2, <1>6, SameRecent
  <2>2. Cardinality(Counting') <= Cardinality(Counting)
    BY <1>8, CodesAreFinite
  <2> QED
    BY <1>3, <1>7, <2>1, <2>2, HourStays DEF CodesTypes
<1>10. GuessesHold'
  <2> SUFFICES ASSUME NEW d \in Code
               PROVE  /\ wrongGuesses[d] <= MaxResetAttempts + (Slots - 1) + uncounted'
                      /\ codes'[d] = NoCode => wrongGuesses[d] = 0
                      /\ codes'[d] # NoCode =>
                           wrongGuesses[d] <= codes'[d].attempts + Cardinality(Guessing(d))' + uncounted'
    BY <1>2 DEF GuessesHold, Slots
  <2>1. /\ wrongGuesses[d] <= MaxResetAttempts + (Slots - 1) + uncounted
        /\ codes[d] = NoCode => wrongGuesses[d] = 0
        /\ codes[d] # NoCode => wrongGuesses[d] <= codes[d].attempts + Cardinality(Guessing(d)) + uncounted
    BY DEF GuessesHold
  <2>2. PICK n : n = Cardinality(Guessing(d))
    OBVIOUS
  <2>3. /\ n \in Nat /\ Slots \in Nat /\ uncounted \in Nat /\ uncounted' \in Nat /\ wrongGuesses[d] \in Nat
        /\ codes[d] # NoCode => codes[d].attempts \in Nat
    BY <1>7, <2>2, CodesAreFinite DEF CodesTypes, IsRow
  <2>4. wrongGuesses[d] <= MaxResetAttempts + (Slots - 1) + uncounted'
    BY <1>3, <2>1, <2>3
  <2>5. CASE d # c
    <3>1. Cardinality(Guessing(d))' = n /\ codes'[d] = codes[d]
      BY <1>3, <1>8, <2>2, <2>5
    <3> QED
      BY <1>3, <2>1, <2>2, <2>3, <2>4, <3>1
  <2>6. CASE d = c
    <3>1. Cardinality(Guessing(d))' = n - 1
      BY <1>8, <2>2, <2>6
    <3> QED
      BY <1>1, <1>3, <1>5, <2>1, <2>2, <2>3, <2>4, <2>6, <3>1
  <2> QED
    BY <2>5, <2>6
<1>11. SpendingHolds'
  <2>1. \A z \in CodeSlot : codeSlot'[z].at \in {"right", "applied"} => codeSlot'[z] = codeSlot[z]
    BY <1>2 DEF SlotMoves
  <2>2. \A z \in CodeSlot : codeSlot[z].at = "applied" => codeSlot'[z] = codeSlot[z]
    BY <1>1, <1>2 DEF SlotMoves
  <2>3. \A d \in Code : (codes'[d] = NoCode <=> codes[d] = NoCode) /\ codes'[d].used = codes[d].used
    BY <1>1, <1>3, <1>4, <1>5
  <2> QED
    BY <1>2, <2>1, <2>2, <2>3, SpendingStays
<1> QED
  BY <1>7, <1>9, <1>10, <1>11

\* The code takes effect, or auth fails, or its answer is lost.
LEMMA ApplyKeeps ==
  ASSUME CodesInv, NEW s \in CodeSlot, NEW outcome \in CallOutcomes, ApplyCode(s, outcome)
  PROVE  CodesInv'
<1> USE CodesAssumption DEF CodesInv
<1>1. PICK c \in Code : codeSlot[s].at = "right" /\ codeSlot[s].code = c
                        /\ codeSlot[s] = [at |-> "right", code |-> c] /\ codes[c] # NoCode
  BY DEF ApplyCode, CodesTypes
<1>2. /\ SlotMoves(s) /\ UNCHANGED <<codes, codesNow, wrongGuesses, raced>>
      /\ unmarked \subseteq unmarked' /\ unmarked' \subseteq Code
      /\ \A d \in Code : d # c => (d \in unmarked' <=> d \in unmarked)
      /\ uncounted' \in Nat /\ uncounted <= uncounted'
      /\ applied' = [d \in Code |-> applied'[d]] /\ \A d \in Code : d # c => applied'[d] = applied[d]
      /\ \/ applied' = applied /\ codeSlot'[s].at = "free"
         \/ applied'[c] = applied[c] + 1 /\ codeSlot'[s] = [at |-> "applied", code |-> c]
         \/ applied'[c] = applied[c] + 1 /\ codeSlot'[s].at = "free" /\ c \in unmarked'
  <2>1. CASE outcome = "done"
    <3>1. codeSlot' = [codeSlot EXCEPT ![s].at = "applied"]
      BY <2>1 DEF ApplyCode
    <3>2. codeSlot'[s] = [codeSlot[s] EXCEPT !.at = "applied"]
      BY <3>1 DEF CodesTypes
    <3>3. codeSlot'[s] = [at |-> "applied", code |-> c]
      BY <1>1, <3>2
    <3>4. applied' = [applied EXCEPT ![c] = @ + 1] /\ unmarked' = unmarked /\ uncounted' = uncounted
      BY <1>1, <2>1 DEF ApplyCode
    <3>5. SlotMoves(s)
      BY <3>1 DEF SlotMoves, CodesTypes
    <3>6. /\ applied' = [d \in Code |-> applied'[d]] /\ \A d \in Code : d # c => applied'[d] = applied[d]
          /\ applied'[c] = applied[c] + 1
      BY <3>4 DEF CodesTypes
    <3>7. UNCHANGED <<codes, codesNow, wrongGuesses, raced>> /\ unmarked' \subseteq Code
          /\ uncounted' \in Nat /\ uncounted <= uncounted'
      BY <3>4 DEF ApplyCode, CodesTypes
    <3> QED
      BY <3>3, <3>4, <3>5, <3>6, <3>7
  <2>2. CASE outcome = "failed"
    BY <1>1, <2>2 DEF ApplyCode, LeaveCode, SlotMoves, CodesTypes, FreeSlot
  <2>3. CASE outcome = "unanswered"
    BY <1>1, <2>3 DEF ApplyCode, LeaveCode, SilentFault, SlotMoves, CodesTypes, FreeSlot
  <2> QED
    BY <2>1, <2>2, <2>3 DEF CallOutcomes
<1>3. codeSlot'[s].at \in {"free", "applied"} /\ (codeSlot'[s].at = "applied" => codeSlot'[s].code = c)
  BY <1>2
<1>4. CodesTypes'
  <2>1. \A d \in Code : applied'[d] \in Nat
    BY <1>2 DEF CodesTypes
  <2>2. \/ codeSlot'[s].at = "free"
        \/ /\ codeSlot'[s].at = "applied" /\ codeSlot'[s] = [at |-> codeSlot'[s].at, code |-> codeSlot'[s].code]
           /\ codeSlot'[s].code \in Code /\ codes'[codeSlot'[s].code] # NoCode
    BY <1>1, <1>2
  <2> QED
    BY <1>2, <2>1, <2>2 DEF CodesTypes, SlotMoves, IsRow
<1>5. Counting' = Counting /\ \A d : Guessing(d)' = Guessing(d)
  <2>1. \A d : s \notin Guessing(d) /\ s \notin Guessing(d)'
    BY <1>1, <1>3 DEF Guessing
  <2>2. codeSlot[s].at # "counted" /\ codeSlot'[s].at # "counted"
    BY <1>1, <1>3
  <2> QED
    BY <1>2, <1>4, <2>1, <2>2, SetsMove
<1>6. HourHolds'
  <2>1. RecentCodes' = RecentCodes
    BY <1>2 DEF RecentCodes, CodeRows
  <2>2. Cardinality(Counting') <= Cardinality(Counting)
    BY <1>5, CodesAreFinite
  <2> QED
    BY <1>2, <1>4, <2>1, <2>2, HourStays
<1>7. GuessesHold'
  BY <1>2, <1>4, <1>5, GuessesStay
<1>8. SpendingHolds'
  <2> SUFFICES ASSUME NEW d \in Code, d \notin raced, d \notin unmarked'
               PROVE  /\ applied'[d] <= 1
                      /\ codes[d] = NoCode => applied'[d] = 0
                      /\ \A y, z \in CodeSlot : CodeInUse(y, d)' /\ CodeInUse(z, d)' => y = z
                      /\ \A y \in CodeSlot : codeSlot'[y].at = "right" /\ codeSlot'[y].code = d => applied'[d] = 0
                      /\ applied'[d] = 1 => codes[d].used \/ \E y \in CodeSlot : codeSlot'[y].at = "applied" /\ codeSlot'[y].code = d
    BY <1>2 DEF SpendingHolds
  <2>1. /\ applied[d] <= 1
        /\ codes[d] = NoCode => applied[d] = 0
        /\ \A y, z \in CodeSlot : CodeInUse(y, d) /\ CodeInUse(z, d) => y = z
        /\ \A y \in CodeSlot : codeSlot[y].at = "right" /\ codeSlot[y].code = d => applied[d] = 0
        /\ applied[d] = 1 => codes[d].used \/ \E y \in CodeSlot : codeSlot[y].at = "applied" /\ codeSlot[y].code = d
    BY <1>2 DEF SpendingHolds
  <2>2. \A z \in CodeSlot : z # s => codeSlot'[z] = codeSlot[z]
    BY <1>2 DEF SlotMoves
  <2>3. \A z \in CodeSlot : CodeInUse(z, d)' => CodeInUse(z, d)
    BY <1>1, <1>3, <2>2 DEF CodeInUse
  <2>4. CASE d # c
    <3>1. applied'[d] = applied[d]
      BY <1>2, <2>4
    <3>2. \A y \in CodeSlot : codeSlot'[y].at = "right" /\ codeSlot'[y].code = d => applied[d] = 0
      BY <1>3, <2>1, <2>2
    <3>3. applied[d] = 1 => codes[d].used \/ \E y \in CodeSlot : codeSlot'[y].at = "applied" /\ codeSlot'[y].code = d
      BY <1>1, <2>1, <2>2
    <3> QED
      BY <2>1, <2>3, <3>1, <3>2, <3>3
  <2>5. CASE d = c
    <3>1. applied[c] = 0 /\ CodeInUse(s, c)
      BY <1>1, <2>1, <2>5 DEF CodeInUse
    <3>2. \A z \in CodeSlot : CodeInUse(z, c)' => z = s
      BY <2>1, <2>3, <2>5, <3>1
    <3>3. \A z \in CodeSlot : ~(codeSlot'[z].at = "right" /\ codeSlot'[z].code = c)
      BY <1>3, <3>2 DEF CodeInUse
    <3>4. \/ applied'[c] = 0
          \/ applied'[c] = 1 /\ codeSlot'[s].at = "applied" /\ codeSlot'[s].code = c
      BY <1>2, <2>5, <3>1
    <3> QED
      BY <1>1, <2>1, <2>5, <3>2, <3>3, <3>4
  <2> QED
    BY <2>4, <2>5
<1> QED
  BY <1>4, <1>6, <1>7, <1>8

\* The code is marked used, or the mark fails in silence.
LEMMA MarkKeeps ==
  ASSUME CodesInv, NEW s \in CodeSlot, MarkUsed(s)
  PROVE  CodesInv'
<1> USE CodesAssumption DEF CodesInv
<1>1. PICK c \in Code : codeSlot[s].at = "applied" /\ codeSlot[s].code = c /\ codes[c] # NoCode /\ IsRow(codes[c])
  BY DEF MarkUsed, CodesTypes
<1>2. /\ SlotMoves(s) /\ codeSlot'[s].at = "free" /\ UNCHANGED <<codesNow, wrongGuesses, applied, raced>>
      /\ \/ codes' = [codes EXCEPT ![c].used = TRUE] /\ uncounted' = uncounted /\ unmarked' = unmarked
         \/ codes' = codes /\ uncounted' = uncounted + 1 /\ unmarked' = unmarked \cup {c}
  BY <1>1 DEF MarkUsed, LeaveCode, SilentFault, SlotMoves, FreeSlot, CodesTypes
<1>3. PICK w \in BOOLEAN :
        /\ codes' = [d \in Code |-> codes'[d]] /\ \A d \in Code : d # c => codes'[d] = codes[d]
        /\ codes'[c] = [born |-> codes[c].born, attempts |-> codes[c].attempts, used |-> w]
        /\ w = TRUE \/ c \in unmarked'
        /\ unmarked \subseteq unmarked' /\ unmarked' \subseteq unmarked \cup {c} /\ uncounted <= uncounted' /\ uncounted' \in Nat
  <2>1. CASE codes' = [codes EXCEPT ![c].used = TRUE] /\ uncounted' = uncounted /\ unmarked' = unmarked
    <3>1. codes'[c] = [codes[c] EXCEPT !.used = TRUE]
      BY <2>1 DEF CodesTypes
    <3>2. codes'[c] = [born |-> codes[c].born, attempts |-> codes[c].attempts, used |-> TRUE]
      BY <1>1, <3>1 DEF IsRow
    <3>3. codes' = [d \in Code |-> codes'[d]] /\ \A d \in Code : d # c => codes'[d] = codes[d]
      BY <2>1 DEF CodesTypes
    <3>4. uncounted <= uncounted' /\ uncounted' \in Nat
      BY <2>1 DEF CodesTypes
    <3> QED
      BY <2>1, <3>2, <3>3, <3>4
  <2>2. CASE codes' = codes /\ uncounted' = uncounted + 1 /\ unmarked' = unmarked \cup {c}
    BY <1>1, <2>2 DEF CodesTypes, IsRow
  <2> QED
    BY <1>2, <2>1, <2>2
<1>4. codes'[c].born = codes[c].born /\ codes'[c].attempts = codes[c].attempts /\ codes'[c].used = w
  BY <1>3
<1>5. IsRow(codes'[c]) /\ codes'[c] # NoCode
  BY <1>1, <1>3, <1>4 DEF IsRow, NoCode
<1>6. SameRows
  BY <1>1, <1>3, <1>4, <1>5 DEF SameRows, CodesTypes
<1>7. CodesTypes'
  BY <1>2, <1>3, <1>6 DEF CodesTypes, SlotMoves, SameRows
<1>8. Counting' = Counting /\ \A d : Guessing(d)' = Guessing(d)
  <2>1. \A d : s \notin Guessing(d) /\ s \notin Guessing(d)'
    BY <1>1, <1>2 DEF Guessing
  <2> QED
    BY <1>1, <1>2, <1>7, <2>1, SetsMove
<1>9. HourHolds'
  <2>1. RecentCodes' = RecentCodes
    BY <1>2, <1>6, SameRecent
  <2>2. Cardinality(Counting') <= Cardinality(Counting)
    BY <1>8, CodesAreFinite
  <2> QED
    BY <1>3, <1>7, <2>1, <2>2, HourStays
<1>10. GuessesHold'
  <2>1. \A d \in Code : codes[d] # NoCode => codes'[d] # NoCode /\ codes'[d].attempts = codes[d].attempts
    BY <1>3, <1>4, <1>5
  <2> QED
    BY <1>2, <1>3, <1>7, <1>8, <2>1, GuessesStay
<1>11. SpendingHolds'
  <2> SUFFICES ASSUME NEW d \in Code, d \notin raced, d \notin unmarked'
               PROVE  /\ applied[d] <= 1
                      /\ codes'[d] = NoCode => applied[d] = 0
                      /\ \A y, z \in CodeSlot : CodeInUse(y, d)' /\ CodeInUse(z, d)' => y = z
                      /\ \A y \in CodeSlot : codeSlot'[y].at = "right" /\ codeSlot'[y].code = d => applied[d] = 0
                      /\ applied[d] = 1 => codes'[d].used \/ \E y \in CodeSlot : codeSlot'[y].at = "applied" /\ codeSlot'[y].code = d
    BY <1>2 DEF SpendingHolds
  <2>1. /\ applied[d] <= 1
        /\ codes[d] = NoCode => applied[d] = 0
        /\ \A y, z \in CodeSlot : CodeInUse(y, d) /\ CodeInUse(z, d) => y = z
        /\ \A y \in CodeSlot : codeSlot[y].at = "right" /\ codeSlot[y].code = d => applied[d] = 0
        /\ applied[d] = 1 => codes[d].used \/ \E y \in CodeSlot : codeSlot[y].at = "applied" /\ codeSlot[y].code = d
    BY <1>3 DEF SpendingHolds
  <2>2. \A z \in CodeSlot : z # s => codeSlot'[z] = codeSlot[z]
    BY <1>2 DEF SlotMoves
  <2>3. \A z \in CodeSlot : codeSlot'[z].at \in {"right", "applied"} => codeSlot'[z] = codeSlot[z]
    BY <1>2, <2>2
  <2>4. \A z \in CodeSlot : CodeInUse(z, d)' => CodeInUse(z, d)
    BY <2>3 DEF CodeInUse
  <2>5. codes'[d] = NoCode => codes[d] = NoCode
    BY <1>3, <1>5
  <2>6. applied[d] = 1 => codes'[d].used \/ \E y \in CodeSlot : codeSlot'[y].at = "applied" /\ codeSlot'[y].code = d
    <3>1. CASE d = c
      BY <1>3, <3>1
    <3>2. CASE d # c
      BY <1>1, <1>3, <2>1, <2>2, <3>2
    <3> QED
      BY <3>1, <3>2
  <2>7. \A y \in CodeSlot : codeSlot'[y].at = "right" /\ codeSlot'[y].code = d => applied[d] = 0
    BY <2>1, <2>3
  <2> QED
    BY <2>1, <2>4, <2>5, <2>6, <2>7
<1> QED
  BY <1>7, <1>9, <1>10, <1>11

\* Time makes codes less recent.
LEMMA CodesStep == CodesInv /\ [CodesNext]_codesVars => CodesInv'
<1> SUFFICES ASSUME CodesInv, [CodesNext]_codesVars PROVE CodesInv'
  OBVIOUS
<1>1. ASSUME UNCHANGED <<codes, codeSlot, wrongGuesses, applied, unmarked, raced, uncounted>>,
             codesNow' \in Nat, codesNow <= codesNow'
      PROVE  CodesInv'
  <2> USE DEF CodesInv
  <2>1. CodesTypes'
    BY <1>1 DEF CodesTypes, IsRow
  <2>2. Counting' = Counting /\ \A c : Guessing(c)' = Guessing(c)
    BY <1>1 DEF Counting, Guessing
  <2>3. RecentCodes' \subseteq RecentCodes
    BY <1>1, CodesAssumption DEF RecentCodes, CodeRows, CodesTypes, IsRow
  <2>4. HourHolds'
    <3>1. Cardinality(Counting') <= Cardinality(Counting) /\ uncounted <= uncounted'
      BY <1>1, <2>2, CodesAreFinite DEF CodesTypes
    <3> QED
      BY <2>1, <2>3, <3>1, HourStays
  <2>5. GuessesHold'
    <3>1. uncounted <= uncounted'
      BY <1>1 DEF CodesTypes
    <3> QED
      BY <1>1, <2>1, <2>2, <3>1, GuessesStay
  <2>6. SpendingHolds'
    BY <1>1, SpendingStays
  <2> QED
    BY <2>1, <2>4, <2>5, <2>6
<1>2. CASE CodesTick
  BY <1>1, <1>2 DEF CodesTick, CodesInv, CodesTypes
<1>3. CASE UNCHANGED codesVars
  BY <1>1, <1>3 DEF codesVars, CodesInv, CodesTypes
<1>4. ASSUME NEW s \in CodeSlot, HandleForgot(s) \/ HandleVerifySend(s) PROVE CodesInv'
  BY <1>4, AskKeeps, StoreKeeps DEF HandleForgot, HandleVerifySend
<1>5. ASSUME NEW s \in CodeSlot, HandleReset(s) \/ HandleVerifyConfirm(s) PROVE CodesInv'
  <2>1. ConfirmCode(s)
    BY <1>5 DEF HandleReset, HandleVerifyConfirm
  <2> QED
    BY <2>1, SubmitKeeps, CountKeeps, ApplyKeeps, MarkKeeps DEF ConfirmCode
<1> QED
  BY <1>2, <1>3, <1>4, <1>5 DEF CodesNext

CodesSpec == CodesInit /\ [][CodesNext]_codesVars

\* CodesHold is kept by them alone.
LEMMA CodesAlone == CodesSpec => []CodesHold
<1>1. CodesInv => CodesHold
  <2> SUFFICES ASSUME CodesInv PROVE CodesHold
    OBVIOUS
  <2> USE CodesAssumption DEF CodesInv
  <2>1. Cardinality(RecentCodes) <= MaxCodesPerHour + (Slots - 1 + uncounted)
    <3>1. /\ Cardinality(RecentCodes) \in Nat /\ Cardinality(Counting) \in Nat /\ Slots \in Nat /\ uncounted \in Nat
      BY CodesAreFinite DEF CodesTypes
    <3> QED
      BY <3>1 DEF HourHolds
  <2>2. \A c \in Code : wrongGuesses[c] <= MaxResetAttempts + (Slots - 1 + uncounted)
    <3>1. Slots \in Nat /\ uncounted \in Nat
      BY CodesAreFinite DEF CodesTypes
    <3> QED
      BY <3>1 DEF GuessesHold, CodesTypes
  <2>3. CodeSpentOnce
    BY DEF SpendingHolds, CodesTypes, CodeSpentOnce
  <2> QED
    BY <2>1, <2>2, <2>3 DEF CodesHold, LimitsHold, Slots
<1> QED
  BY <1>1, CodesStart, CodesStep, PTL DEF CodesSpec

-----------------------------------------------------------------------------
(* Signing in, by all its parts.                                           *)

\* For any number of accounts, codes, logins and requests, whoever gets into an
\* account is whom it belongs to, as far as SignInHolds says it:
\* svc-users/reset.go:156, svc-oauth/store.go:46, auth/external.go:101.
THEOREM SignInIsKept == CodesSpec /\ OauthSpec /\ AccountsSpec => []SignInHolds
BY CodesAlone, OauthAlone, AccountsAlone, PTL DEF SignInHolds

-----------------------------------------------------------------------------
\* The issues of a repository (IssueMatches).

MatchesSpec == MatchesInit /\ [][MatchesNext]_matchVars

MatchStatus == {"none", "pending", "confirmed", "rejected"}
IssueStatus == {"none", "open", "ai_matched", "verified", "closed"}

\* A match that is inserted and marked is one of an issue and a commit.
LinkerHasPair ==
    linker.at \in {"insert", "mark"} =>
        /\ linker.pair \in Issue \X Fix
        /\ linker = [at |-> linker.at, by |-> linker.by, todo |-> linker.todo, pair |-> linker.pair]

MatchesTypes ==
    /\ issue \in [Issue -> IssueStatus]
    /\ match \in [Issue -> [Fix -> MatchStatus]]
    /\ deed \in [Person -> {Resting} \cup [at : {"verify", "reopen"}, i : Issue]]
    /\ LinkerHasPair

\* The parts of MatchesTold, of one issue.
MatchedShown(i) ==
    issue[i] = "ai_matched" =>
        Live(i) \/ i \in resurrected \/ \E p \in Person : deed[p] = [at |-> "reopen", i |-> i]
VerifiedShown(i) ==
    issue[i] = "verified" => (\E c \in Fix : match[i][c] = "confirmed") \/ i \in undoneDeeds
ConfirmedShown(i) ==
    (\E c \in Fix : match[i][c] = "confirmed") =>
        issue[i] = "verified" \/ i \in unverified \/ \E p \in Person : deed[p] = [at |-> "verify", i |-> i]

MatchesInv == MatchesTypes /\ MatchesTold

\* The parts make the whole.
LEMMA ToldParts == MatchesTold <=> \A i \in Issue : MatchedShown(i) /\ VerifiedShown(i) /\ ConfirmedShown(i)
  BY DEF MatchesTold, MatchedShown, VerifiedShown, ConfirmedShown
\* So they do after a step.
LEMMA ToldPartsNext == MatchesTold' <=> (\A i \in Issue : MatchedShown(i) /\ VerifiedShown(i) /\ ConfirmedShown(i))'
  BY ToldParts, PTL

\* One match is written.
LEMMA OneMatch ==
  ASSUME NEW f \in [Issue -> [Fix -> MatchStatus]], NEW i \in Issue, NEW c \in Fix, NEW v \in MatchStatus,
         NEW g, g = [f EXCEPT ![i][c] = v]
  PROVE  /\ g \in [Issue -> [Fix -> MatchStatus]]
         /\ g[i][c] = v
         /\ \A j \in Issue, d \in Fix : g[j][d] = f[j][d] \/ (j = i /\ d = c)
<1>1. g = [f EXCEPT ![i] = [f[i] EXCEPT ![c] = v]]
  OBVIOUS
<1>2. [f[i] EXCEPT ![c] = v] \in [Fix -> MatchStatus]
  OBVIOUS
<1>3. g[i] = [f[i] EXCEPT ![c] = v] /\ \A j \in Issue : j # i => g[j] = f[j]
  BY <1>1
<1>4. \A d \in Fix : d # c => g[i][d] = f[i][d]
  BY <1>3
<1> QED
  BY <1>1, <1>2, <1>3, <1>4

\* The two kinds of second statement, told apart.
LEMMA DeedKinds ==
  ASSUME MatchesTypes, NEW p \in Person
  PROVE  /\ deed[p] # Resting =>
              /\ deed[p].at \in {"verify", "reopen"} /\ deed[p].i \in Issue
              /\ deed[p] = [at |-> deed[p].at, i |-> deed[p].i]
         /\ deed[p].at \in {"verify", "reopen"} => deed[p] # Resting
  BY DEF MatchesTypes, Resting

\* What an issue says is kept by whatever leaves it, its matches and the second
\* statements alone.
LEMMA MatchesQuiet ==
  ASSUME MatchesInv, UNCHANGED <<issue, match, deed, matchSeen>>
  PROVE  MatchesTold'
  BY DEF MatchesInv, MatchesTold, Live, matchSeen

\* Every step keeps the types.
LEMMA MatchesTypesStep == MatchesInv /\ [MatchesNext]_matchVars => MatchesTypes'
<1> SUFFICES ASSUME MatchesInv, [MatchesNext]_matchVars PROVE MatchesTypes'
  OBVIOUS
<1> USE DEF MatchesTypes, MatchesInv, personal, matchSeen
<1>1. ASSUME NEW c \in Fix, NEW refs, Fetch(c, refs) PROVE MatchesTypes'
  BY <1>1 DEF Fetch, LinkerHasPair
<1>2. ASSUME NEW pair \in Issue \X Fix, Take(pair) PROVE MatchesTypes'
  BY <1>2 DEF Take, LinkerHasPair
<1>3. ASSUME InsertMatch PROVE MatchesTypes'
  <2>1. match' \in [Issue -> [Fix -> MatchStatus]]
    BY <1>3 DEF InsertMatch, MatchStatus
  <2> QED
    BY <1>3, <2>1 DEF InsertMatch, LinkerHasPair
<1>4. ASSUME MarkIssue PROVE MatchesTypes'
  BY <1>4 DEF MarkIssue, LinkerHasPair, IssueStatus
<1>5. ASSUME Ask \/ MoreCommits \/ \E S : AiAnswers(S) PROVE MatchesTypes'
  BY <1>5 DEF Ask, MoreCommits, AiAnswers, LinkerHasPair, Resting
<1>6. ASSUME NEW i \in Issue, CreateIssue(i) PROVE MatchesTypes'
  BY <1>6 DEF CreateIssue, IssueStatus, LinkerHasPair
<1>7. ASSUME NEW p \in Person, NEW i \in Issue, NEW c \in Fix, Confirm(p, i, c) \/ Reject(p, i, c) PROVE MatchesTypes'
  <2>1. match' \in [Issue -> [Fix -> MatchStatus]]
    <3>1. "confirmed" \in MatchStatus /\ "rejected" \in MatchStatus
      BY DEF MatchStatus
    <3>2. match' = [match EXCEPT ![i][c] = "confirmed"] \/ match' = [match EXCEPT ![i][c] = "rejected"]
      BY <1>7 DEF Confirm, Reject
    <3>3. CASE match' = [match EXCEPT ![i][c] = "confirmed"]
      BY <3>1, <3>3, OneMatch
    <3>4. CASE match' = [match EXCEPT ![i][c] = "rejected"]
      BY <3>1, <3>4, OneMatch
    <3> QED
      BY <3>2, <3>3, <3>4
  <2> QED
    BY <1>7, <2>1 DEF Confirm, Reject, LinkerHasPair
<1>8. ASSUME NEW p \in Person, NEW i \in Issue, NEW status \in {"open", "closed"}, PatchIssue(p, i, status) PROVE MatchesTypes'
  BY <1>8 DEF PatchIssue, IssueStatus, LinkerHasPair
<1>9. ASSUME NEW p \in Person, Verify(p) \/ Reopen(p) \/ SecondFails(p) PROVE MatchesTypes'
  <2>1. CASE Verify(p)
    BY <1>9, <2>1 DEF Verify, IssueStatus, LinkerHasPair
  <2>2. CASE Reopen(p)
    BY <1>9, <2>2 DEF Reopen, IssueStatus, LinkerHasPair
  <2>3. CASE SecondFails(p)
    BY <1>9, <2>3 DEF SecondFails, LinkerHasPair
  <2> QED
    BY <1>9, <2>1, <2>2, <2>3
<1>10. ASSUME MatchCrash PROVE MatchesTypes'
  BY <1>10 DEF MatchCrash, LinkerHasPair, Resting
<1>11. ASSUME UNCHANGED matchVars PROVE MatchesTypes'
  BY <1>11 DEF matchVars, LinkerHasPair
<1> QED
  BY <1>1, <1>2, <1>3, <1>4, <1>5, <1>6, <1>7, <1>8, <1>9, <1>10, <1>11 DEF MatchesNext

\* The sync: it only marks an open issue, and one it marks for a match that is
\* not alive is kept among the resurrected.
LEMMA LinkerTells ==
  ASSUME MatchesInv, InsertMatch \/ MarkIssue
  PROVE  MatchesTold'
<1> USE DEF MatchesInv, MatchesTypes, personal, matchSeen
<1>1. PICK i \in Issue, c \in Fix : linker.pair = <<i, c>>
  BY DEF LinkerHasPair, InsertMatch, MarkIssue
<1>2. CASE InsertMatch
  <2>1. \A j \in Issue, d \in Fix :
           match'[j][d] = match[j][d] \/ (match[j][d] = "none" /\ match'[j][d] = "pending")
    <3>1. CASE match' = [match EXCEPT ![i][c] = IF @ = "none" THEN "pending" ELSE @]
      <4>1. PICK v : v = IF match[i][c] = "none" THEN "pending" ELSE match[i][c]
        OBVIOUS
      <4>2. v \in MatchStatus /\ match' = [match EXCEPT ![i][c] = v]
        BY <3>1, <4>1 DEF MatchStatus
      <4> QED
        BY <4>1, <4>2, OneMatch
    <3> QED
      BY <1>1, <1>2, <3>1 DEF InsertMatch
  <2>2. UNCHANGED <<issue, deed, resurrected, undoneDeeds, unverified>>
    BY <1>2 DEF InsertMatch
  <2>11. ASSUME NEW j \in Issue PROVE MatchedShown(j)'
    BY <2>1, <2>2, ToldParts DEF MatchedShown, Live
  <2>12. ASSUME NEW j \in Issue PROVE VerifiedShown(j)'
    BY <2>1, <2>2, ToldParts DEF VerifiedShown
  <2>13. ASSUME NEW j \in Issue PROVE ConfirmedShown(j)'
    BY <2>1, <2>2, ToldParts DEF ConfirmedShown
  <2> QED
    BY <2>11, <2>12, <2>13, ToldPartsNext
<1>3. CASE MarkIssue
  <2>1. UNCHANGED <<match, deed, undoneDeeds, unverified>>
    BY <1>3 DEF MarkIssue
  <2>2. CASE UNCHANGED <<issue, resurrected>>
    BY <2>1, <2>2, MatchesQuiet
  <2>3. CASE /\ Marks(i) /\ issue' = [issue EXCEPT ![i] = "ai_matched"]
             /\ resurrected \subseteq resurrected'
             /\ match[i][c] \in {"none", "rejected"} => i \in resurrected'
    <3>1. match[i][c] \in {"pending", "confirmed"} => Live(i)
      BY DEF Live
    <3>2. \A j \in Issue : Live(j)' = Live(j)
      BY <2>1 DEF Live
    <3>3. match[i][c] \in MatchStatus
      OBVIOUS
    <3> QED
      BY <2>1, <2>3, <3>1, <3>2, <3>3 DEF MatchesTold, Marks, MatchStatus
  <2> QED
    BY <1>1, <1>3, <2>2, <2>3 DEF MarkIssue
<1> QED
  BY <1>2, <1>3

\* People: a first statement leaves a second one to execute, which makes it good,
\* and one that fails or is lost is kept.
LEMMA PeopleTell ==
  ASSUME MatchesInv, NEW p \in Person,
         \/ \E i \in Issue, c \in Fix : Confirm(p, i, c) \/ Reject(p, i, c)
         \/ \E i \in Issue, status \in {"open", "closed"} : PatchIssue(p, i, status)
         \/ Verify(p) \/ Reopen(p) \/ SecondFails(p)
  PROVE  MatchesTold'
<1> USE DEF MatchesInv, MatchesTypes, personal, matchSeen
<1>1. ASSUME NEW i \in Issue, NEW c \in Fix, Confirm(p, i, c) PROVE MatchesTold'
  <2>1. /\ \A j \in Issue, d \in Fix : match'[j][d] = match[j][d] \/ (j = i /\ match'[j][d] = "confirmed")
        /\ match'[i][c] = "confirmed"
        /\ deed' = [deed EXCEPT ![p] = [at |-> "verify", i |-> i]] /\ deed[p] = Resting
        /\ UNCHANGED <<issue, resurrected, undoneDeeds, unverified>>
    <3>1. "confirmed" \in MatchStatus
      BY DEF MatchStatus
    <3>2. match' = [match EXCEPT ![i][c] = "confirmed"]
      BY <1>1 DEF Confirm
    <3>3. /\ \A j \in Issue, d \in Fix : match'[j][d] = match[j][d] \/ (j = i /\ d = c)
          /\ match'[i][c] = "confirmed"
      BY <3>1, <3>2, OneMatch
    <3> QED
      BY <1>1, <3>3 DEF Confirm, Deed
  <2>2. deed'[p] = [at |-> "verify", i |-> i] /\ \A q \in Person : deed[q] # Resting => deed'[q] = deed[q]
    BY <2>1
  <2>3. \A j : Resting # [at |-> "verify", i |-> j] /\ Resting # [at |-> "reopen", i |-> j]
    BY DEF Resting
  <2>11. ASSUME NEW j \in Issue PROVE MatchedShown(j)'
    <3>1. MatchedShown(j)
      BY ToldParts
    <3>2. Live(j) => Live(j)' \/ (deed'[p] = [at |-> "reopen", i |-> j])
      BY <2>1, <2>2, <2>3 DEF Live
    <3> QED
      BY <3>1, <3>2, <2>1, <2>2, <2>3 DEF MatchedShown
  <2>12. ASSUME NEW j \in Issue PROVE VerifiedShown(j)'
    BY <2>1, <2>2, <2>3, ToldParts DEF VerifiedShown
  <2>13. ASSUME NEW j \in Issue PROVE ConfirmedShown(j)'
    BY <2>1, <2>2, <2>3, ToldParts DEF ConfirmedShown
  <2> QED
    BY <2>11, <2>12, <2>13, ToldPartsNext
<1>2. ASSUME NEW i \in Issue, NEW c \in Fix, Reject(p, i, c) PROVE MatchesTold'
  <2>1. /\ \A j \in Issue, d \in Fix : match'[j][d] = match[j][d] \/ (j = i /\ d = c)
        /\ match'[i][c] = "rejected"
        /\ deed' = [deed EXCEPT ![p] = [at |-> "reopen", i |-> i]] /\ deed[p] = Resting
        /\ match[i][c] = "confirmed" => i \in undoneDeeds'
        /\ undoneDeeds \subseteq undoneDeeds'
        /\ UNCHANGED <<issue, resurrected, unverified>>
    <3>1. "rejected" \in MatchStatus
      BY DEF MatchStatus
    <3>2. match' = [match EXCEPT ![i][c] = "rejected"]
      BY <1>2 DEF Reject
    <3>3. /\ \A j \in Issue, d \in Fix : match'[j][d] = match[j][d] \/ (j = i /\ d = c)
          /\ match'[i][c] = "rejected"
      BY <3>1, <3>2, OneMatch
    <3> QED
      BY <1>2, <3>3 DEF Reject, Deed
  <2>2. deed'[p] = [at |-> "reopen", i |-> i] /\ \A q \in Person : deed[q] # Resting => deed'[q] = deed[q]
    BY <2>1
  <2>3. \A j : Resting # [at |-> "verify", i |-> j] /\ Resting # [at |-> "reopen", i |-> j]
    BY DEF Resting
  <2>11. ASSUME NEW j \in Issue PROVE MatchedShown(j)'
    <3>1. MatchedShown(j)
      BY ToldParts
    <3>2. Live(j) => Live(j)' \/ (deed'[p] = [at |-> "reopen", i |-> j])
      BY <2>1, <2>2, <2>3 DEF Live
    <3> QED
      BY <3>1, <3>2, <2>1, <2>2, <2>3 DEF MatchedShown
  <2>12. ASSUME NEW j \in Issue PROVE VerifiedShown(j)'
    BY <2>1, <2>2, <2>3, ToldParts DEF VerifiedShown
  <2>13. ASSUME NEW j \in Issue PROVE ConfirmedShown(j)'
    BY <2>1, <2>2, <2>3, ToldParts DEF ConfirmedShown
  <2> QED
    BY <2>11, <2>12, <2>13, ToldPartsNext
<1>3. ASSUME NEW i \in Issue, NEW status \in {"open", "closed"}, PatchIssue(p, i, status) PROVE MatchesTold'
  BY <1>3 DEF PatchIssue, MatchesTold, Live
<1>4. ASSUME deed[p] # Resting, deed' = [deed EXCEPT ![p] = Resting], NEW j
      PROVE  /\ deed[p].at # "verify" \/ deed[p].i # j =>
                  \A q \in Person : deed[q] = [at |-> "verify", i |-> j] => deed'[q] = deed[q]
             /\ deed[p].at # "reopen" \/ deed[p].i # j =>
                  \A q \in Person : deed[q] = [at |-> "reopen", i |-> j] => deed'[q] = deed[q]
  BY <1>4
<1>5. CASE Verify(p)
  <2>1. PICK i \in Issue : deed[p].i = i
    BY <1>5, DeedKinds DEF Verify
  <2>2. /\ issue' = [issue EXCEPT ![i] = "verified"] /\ unverified' = unverified \ {i}
        /\ (\A c \in Fix : match[i][c] # "confirmed") => i \in undoneDeeds'
        /\ undoneDeeds \subseteq undoneDeeds'
        /\ UNCHANGED <<match, resurrected>>
    BY <1>5, <2>1 DEF Verify
  <2>3. deed[p].at = "verify" /\ deed[p] # Resting /\ deed' = [deed EXCEPT ![p] = Resting]
    BY <1>5, DeedKinds DEF Verify
  <2>4. \A j \in Issue \ {i} : \A q \in Person :
             deed[q] = [at |-> "verify", i |-> j] \/ deed[q] = [at |-> "reopen", i |-> j] => deed'[q] = deed[q]
    BY <1>4, <2>1, <2>3
  <2>5. \A j \in Issue : issue'[j] = IF j = i THEN "verified" ELSE issue[j]
    BY <2>2
  <2>11. ASSUME NEW j \in Issue PROVE MatchedShown(j)'
    <3>1. MatchedShown(j)
      BY ToldParts
    <3>2. Live(j) => Live(j)' \/ (deed'[p] = [at |-> "reopen", i |-> j])
      BY <2>2, <2>4, <2>5 DEF Live
    <3> QED
      BY <3>1, <3>2, <2>2, <2>4, <2>5 DEF MatchedShown
  <2>12. ASSUME NEW j \in Issue PROVE VerifiedShown(j)'
    BY <2>2, <2>4, <2>5, ToldParts DEF VerifiedShown
  <2>13. ASSUME NEW j \in Issue PROVE ConfirmedShown(j)'
    <3>1. ConfirmedShown(j) /\ match' = match
      BY <2>2, ToldParts
    <3>2. CASE j = i
      BY <2>5, <3>2 DEF ConfirmedShown
    <3>3. CASE j # i
      <4>1. j \in Issue \ {i} /\ issue'[j] = issue[j]
        BY <2>5, <3>3
      <4>2. j \in unverified => j \in unverified'
        BY <2>2, <3>3
      <4>3. \A q \in Person : deed[q] = [at |-> "verify", i |-> j] => deed'[q] = [at |-> "verify", i |-> j]
        BY <2>4, <4>1
      <4> QED
        BY <3>1, <4>1, <4>2, <4>3 DEF ConfirmedShown
    <3> QED
      BY <3>2, <3>3
  <2> QED
    BY <2>11, <2>12, <2>13, ToldPartsNext
<1>6. CASE Reopen(p)
  <2>1. PICK i \in Issue : deed[p].i = i
    BY <1>6, DeedKinds DEF Reopen
  <2>2. /\ issue' = IF Reopens(i) THEN [issue EXCEPT ![i] = "open"] ELSE issue
        /\ UNCHANGED <<match, resurrected, undoneDeeds, unverified>>
    BY <1>6, <2>1 DEF Reopen
  <2>3. deed[p].at = "reopen" /\ deed[p] # Resting /\ deed' = [deed EXCEPT ![p] = Resting]
    BY <1>6, DeedKinds DEF Reopen
  <2>4. /\ \A j \in Issue \ {i} : \A q \in Person : deed[q] = [at |-> "reopen", i |-> j] => deed'[q] = deed[q]
        /\ \A j \in Issue : \A q \in Person : deed[q] = [at |-> "verify", i |-> j] => deed'[q] = deed[q]
    BY <1>4, <2>1, <2>3
  <2>5. \A j \in Issue : Live(j)' = Live(j)
    BY <2>2 DEF Live
  <2>6. \A j \in Issue \ {i} : issue'[j] = issue[j]
    BY <2>2
  <2>7. issue'[i] = "ai_matched" => Live(i)
    BY <2>2 DEF Reopens
  <2>8. issue[i] = "verified" => issue'[i] = "verified"
    BY <2>2 DEF Reopens
  <2>9. issue'[i] = "verified" => issue[i] = "verified"
    BY <2>2 DEF Reopens
  <2>10. \A j \in Issue : issue'[j] = "verified" <=> issue[j] = "verified"
    BY <2>6, <2>8, <2>9
  <2>11. ASSUME NEW j \in Issue PROVE MatchedShown(j)'
    BY <2>2, <2>4, <2>5, <2>6, <2>7, ToldParts DEF MatchedShown
  <2>12. ASSUME NEW j \in Issue PROVE VerifiedShown(j)'
    BY <2>2, <2>10, ToldParts DEF VerifiedShown
  <2>13. ASSUME NEW j \in Issue PROVE ConfirmedShown(j)'
    BY <2>2, <2>4, <2>10, ToldParts DEF ConfirmedShown
  <2> QED
    BY <2>11, <2>12, <2>13, ToldPartsNext
<1>7. CASE SecondFails(p)
  <2>1. PICK i \in Issue : deed[p].i = i
    BY <1>7, DeedKinds DEF SecondFails
  <2>2. /\ UNCHANGED <<issue, match, undoneDeeds>>
        /\ deed[p] # Resting /\ deed' = [deed EXCEPT ![p] = Resting]
        /\ resurrected \subseteq resurrected' /\ unverified \subseteq unverified'
        /\ deed[p].at = "verify" => i \in unverified'
        /\ deed[p].at # "verify" => i \in resurrected'
    BY <1>7, <2>1 DEF SecondFails
  <2>3. deed[p].at \in {"verify", "reopen"}
    BY <2>2, DeedKinds
  <2>4. \A j \in Issue : /\ j \in unverified' \/ \A q \in Person : deed[q] = [at |-> "verify", i |-> j] => deed'[q] = deed[q]
                         /\ j \in resurrected' \/ \A q \in Person : deed[q] = [at |-> "reopen", i |-> j] => deed'[q] = deed[q]
    BY <1>4, <2>1, <2>2, <2>3
  <2> QED
    BY <2>2, <2>4 DEF MatchesTold, Live
<1> QED
  BY <1>1, <1>2, <1>3, <1>5, <1>6, <1>7

\* What the sync, the people and a crash do keeps what the issues say.
LEMMA MatchesStep == MatchesInv /\ [MatchesNext]_matchVars => MatchesInv'
<1> SUFFICES ASSUME MatchesInv, [MatchesNext]_matchVars PROVE MatchesTold'
  BY MatchesTypesStep DEF MatchesInv
<1>1. ASSUME \/ \E c \in Fix : \E refs : Fetch(c, refs)
             \/ \E pair : Take(pair)
             \/ Ask \/ MoreCommits \/ \E S : AiAnswers(S)
             \/ UNCHANGED matchVars
      PROVE  MatchesTold'
  BY <1>1, MatchesQuiet DEF Fetch, Take, Ask, MoreCommits, AiAnswers, matchVars, personal, matchSeen
<1>2. ASSUME InsertMatch \/ MarkIssue PROVE MatchesTold'
  BY <1>2, LinkerTells
<1>3. ASSUME NEW i \in Issue, CreateIssue(i) PROVE MatchesTold'
  BY <1>3 DEF CreateIssue, MatchesInv, MatchesTypes, MatchesTold, Live, personal, matchSeen
<1>4. ASSUME NEW p \in Person,
             \/ \E i \in Issue, c \in Fix : Confirm(p, i, c) \/ Reject(p, i, c)
             \/ \E i \in Issue, status \in {"open", "closed"} : PatchIssue(p, i, status)
             \/ Verify(p) \/ Reopen(p) \/ SecondFails(p)
      PROVE  MatchesTold'
  BY <1>4, PeopleTell
<1>5. ASSUME MatchCrash PROVE MatchesTold'
  BY <1>5 DEF MatchCrash, MatchesInv, MatchesTold, Live
<1> QED
  BY <1>1, <1>2, <1>3, <1>4, <1>5 DEF MatchesNext

\* What is shown of an issue is what its matches say, in every behaviour.
LEMMA MatchesAlone == MatchesSpec => []MatchesTold
<1>1. MatchesInit => MatchesInv
  BY DEF MatchesInit, MatchesInv, MatchesTypes, MatchesTold, LinkerHasPair, IssueStatus, MatchStatus, Resting
<1> QED
  BY <1>1, MatchesStep, PTL DEF MatchesSpec, MatchesInv

-----------------------------------------------------------------------------
\* The digests of a repository (RepoReports).

ReportsSpec == ReportsInit /\ [][ReportsNext]_reportVars

ReportRange == [start : Nat, end : Nat, of : SUBSET Nat]
ReportRow   == [date : Nat, at : Nat]

ReportsTypes ==
    /\ reportsNow \in Nat /\ 1 <= reportsNow /\ looked \in Nat /\ looked <= reportsNow
    /\ listed \in Nat /\ listed <= reportsNow
    /\ committed \subseteq { x \in Nat : 1 <= x /\ x <= reportsNow }
    /\ rows \subseteq { c \in ReportRow : 1 <= c.date /\ c.date <= c.at /\ c.at <= reportsNow }
    /\ writing \in [Writer -> ReportRange]
    /\ failed \subseteq ReportRange
    /\ analyses \subseteq [start : Nat, end : Nat, of : SUBSET Nat, made : Nat]

\* What is being written covers its span, and counts what it covers.
Covers(r) == r.start = StartOf(r.end) /\ \A x \in r.of : Within(x, r)

\* A report covers its span; it is made when it ends or later.
Spans == /\ \A a \in analyses : (a.start = 0 \/ a.start + Span = a.end) /\ a.end <= a.made /\ a.made <= reportsNow
         /\ \A r \in failed : r.end <= reportsNow
         /\ \A w \in Writer : Covers(writing[w]) /\ writing[w].end <= reportsNow

\* What a report covers and does not count was stored after it was decided on.
Missed(r) == \A c \in rows : Within(c.date, r) /\ c.date \notin r.of => r.end <= c.at
NoneMissed == /\ \A r \in analyses : Missed(r)
              /\ \A r \in failed : Missed(r)
              /\ \A w \in Writer : Missed(writing[w])

\* The last sync came to its digest when the timer began what it writes; neither
\* the AI nor the sync has taken too long.
Pace == /\ writing["timer"] # NoReport => listed = 0 /\ writing["timer"].end = looked /\ reportsNow <= looked + AnswerTime
        /\ listed # 0 => reportsNow <= listed + MatchTime
        /\ listed = 0 => reportsNow <= looked + AnswerTime \/ reportsNow <= looked + PollGap

\* A commit that is in a report which is stored or which the timer writes.
TimerHas(x) ==
    \/ \E a \in analyses : x \in a.of
    \/ writing["timer"] # NoReport /\ x \in writing["timer"].of
InAGap(x) ==
    \/ \E a \in analyses : a.end < x /\ x < a.made + PollGap + MatchTime
    \/ \E r \in failed : r.start < x /\ x <= r.start + AnswerTime + PollGap + MatchTime
Excused(c) == StoredLate(c) \/ InAGap(c.date)

\* A sync comes to its digest in time for a commit made at x.
LooksInTime(x) ==
    IF listed # 0 THEN listed + MatchTime < x + Span
    ELSE /\ looked + PollGap + MatchTime < x + Span
         /\ \/ writing["timer"] = NoReport /\ reportsNow <= looked + PollGap
            \/ looked + AnswerTime + MatchTime < x + Span

Waited == \A c \in rows : TimerHas(c.date) \/ Excused(c) \/ LooksInTime(c.date)

ReportsInv == ReportsTypes /\ Spans /\ NoneMissed /\ Pace /\ Waited

\* A commit the timer looks for in time is not older than the span.
LEMMA InTimeIsYoung ==
  ASSUME ReportsTypes, Pace, NEW c \in rows, LooksInTime(c.date)
  PROVE  c.date \in Nat /\ 1 <= c.date /\ c.date <= reportsNow /\ reportsNow < c.date + Span
<1>1. c.date \in Nat /\ c.at \in Nat /\ 1 <= c.date /\ c.date <= reportsNow
  BY DEF ReportsTypes, ReportRow
<1>2. reportsNow < c.date + Span
  BY <1>1, ReportTimes DEF ReportsTypes, Pace, LooksInTime
<1> QED
  BY <1>1, <1>2

\* So the invariant says what is lost.
LEMMA LostIfWaited == ReportsInv => LostOnlyInGaps
<1> SUFFICES ASSUME ReportsInv, NEW c \in rows, reportsNow - c.date >= Span, ~InSomeReport(c.date)
             PROVE  StoredLate(c) \/ InAGap(c.date)
  BY DEF LostOnlyInGaps, InAGap
<1>1. c.date \in Nat /\ reportsNow \in Nat
  BY DEF ReportsInv, ReportsTypes, ReportRow
<1>2. ~LooksInTime(c.date)
  BY <1>1, InTimeIsYoung, ReportTimes DEF ReportsInv
<1>3. ~TimerHas(c.date)
  BY DEF TimerHas, InSomeReport, Writer
<1> QED
  BY <1>2, <1>3 DEF ReportsInv, Waited, Excused

\* What a report decided on now covers, and what it counts.
LEMMA ReportNow ==
  ASSUME ReportsTypes
  PROVE  /\ Report(reportsNow) \in ReportRange /\ Report(reportsNow).end = reportsNow
         /\ Report(reportsNow).start = StartOf(reportsNow) /\ Report(reportsNow) # NoReport
         /\ Missed(Report(reportsNow)) /\ Covers(Report(reportsNow))
         /\ \A c \in rows : reportsNow < c.date + Span =>
              Within(c.date, Report(reportsNow)) /\ c.date \in Report(reportsNow).of
<1>1. PICK of : of = Counted(StartOf(reportsNow), reportsNow)
  OBVIOUS
<1>2. Report(reportsNow) = [start |-> StartOf(reportsNow), end |-> reportsNow, of |-> of]
  BY <1>1 DEF Report
<1>3. StartOf(reportsNow) \in Nat
  BY ReportTimes DEF ReportsTypes, StartOf
<1>4. /\ of \subseteq Nat /\ \A x \in of : StartOf(reportsNow) < x /\ x <= reportsNow
      /\ \A c \in rows : StartOf(reportsNow) < c.date /\ c.date <= reportsNow => c.date \in of
  BY <1>1 DEF Counted, ReportsTypes, ReportRow
<1>5. \A c \in rows : c.date \in Nat /\ 1 <= c.date /\ c.date <= reportsNow
  BY DEF ReportsTypes, ReportRow
<1>6. \A c \in rows : reportsNow < c.date + Span => StartOf(reportsNow) < c.date
  BY <1>5, ReportTimes DEF ReportsTypes, StartOf
<1>7. Report(reportsNow) \in ReportRange /\ Report(reportsNow) # NoReport
  BY <1>2, <1>3, <1>4 DEF ReportRange, NoReport, ReportsTypes
<1>8. Report(reportsNow).start = StartOf(reportsNow) /\ Report(reportsNow).end = reportsNow /\ Report(reportsNow).of = of
  BY <1>2
<1>9. Missed(Report(reportsNow))
  BY <1>4, <1>8 DEF Missed, Within
<1>10. Covers(Report(reportsNow))
  BY <1>4, <1>8 DEF Covers, Within
<1>11. \A c \in rows : reportsNow < c.date + Span => Within(c.date, Report(reportsNow)) /\ c.date \in Report(reportsNow).of
  BY <1>4, <1>5, <1>6, <1>8 DEF Within
<1> QED
  BY <1>7, <1>8, <1>9, <1>10, <1>11

\* A report that began at e and failed gives no excuse to what the next but one
\* look is too late for.
LEMMA FailedInTime ==
  ASSUME ReportsTypes, NEW r \in failed', NEW e \in Nat, r.start = StartOf(e), NEW x \in Nat, Within(x, r), ~InAGap(x)'
  PROVE  e + AnswerTime + PollGap + MatchTime < x + Span
<1>1. ~(x <= r.start + AnswerTime + PollGap + MatchTime)
  BY DEF InAGap, Within
<1> QED
  BY <1>1, ReportTimes DEF StartOf

\* A commit in no report, without excuse and looked for in time makes a report
\* due: the last one was made too long before it.
LEMMA DueInTime ==
  ASSUME ReportsInv, NEW c \in rows, LooksInTime(c.date), ~TimerHas(c.date), ~Excused(c), ~Due
  PROVE  reportsNow + PollGap + MatchTime < c.date + Span
<1>1. PICK a \in analyses : ~(reportsNow - a.made >= Span)
  BY DEF Due
<1>2. /\ a.start \in Nat /\ a.end \in Nat /\ a.made \in Nat
      /\ (a.start = 0 \/ a.start + Span = a.end) /\ a.end <= a.made /\ a.made <= reportsNow
      /\ reportsNow \in Nat
  BY <1>1 DEF ReportsInv, ReportsTypes, Spans
<1>3. c.date \in Nat /\ 1 <= c.date /\ c.date <= reportsNow /\ reportsNow < c.date + Span
  BY InTimeIsYoung DEF ReportsInv
<1>4. ~Within(c.date, a)
  BY <1>1 DEF TimerHas, ReportsInv, NoneMissed, Missed, Excused, StoredLate
<1>5. a.end < c.date
  BY <1>2, <1>3, <1>4, ReportTimes DEF Within
<1>6. ~(c.date < a.made + PollGap + MatchTime)
  BY <1>1, <1>5 DEF Excused, InAGap
<1> QED
  BY <1>1, <1>2, <1>3, <1>6, ReportTimes

\* What becomes of the reports in a step that adds none but r, decided on now.
LEMMA ReportsMoved ==
  ASSUME ReportsInv, reportsNow' = reportsNow, rows' = rows, NEW r \in ReportRange,
         r = NoReport \/ r = Report(reportsNow),
         analyses' = analyses, failed' \subseteq failed \cup {r},
         NEW w \in Writer, writing' = writing \/ writing' = [writing EXCEPT ![w] = r]
  PROVE  /\ writing' \in [Writer -> ReportRange] /\ failed' \subseteq ReportRange
         /\ Spans' /\ NoneMissed'
<1> USE DEF ReportsInv, ReportsTypes
<1>1. Covers(r) /\ r.end <= reportsNow /\ Missed(r)
  <2>1. CASE r = NoReport
    BY <2>1, ReportTimes DEF NoReport, StartOf, Missed, Covers, Within, ReportRow
  <2>2. CASE r = Report(reportsNow)
    BY <2>2, ReportNow
  <2> QED
    BY <2>1, <2>2
<1>2. writing' \in [Writer -> ReportRange] /\ \A v \in Writer : writing'[v] = writing[v] \/ writing'[v] = r
  OBVIOUS
<1>3. Spans'
  BY <1>1, <1>2 DEF Spans, Covers, Within
<1>4. NoneMissed'
  BY <1>1, <1>2 DEF NoneMissed, Missed
<1> QED
  BY <1>2, <1>3, <1>4

\* Every step keeps the types, the spans and what was missed.
LEMMA ReportsTypesStep == ReportsInv /\ [ReportsNext]_reportVars => ReportsTypes' /\ Spans' /\ NoneMissed'
<1> SUFFICES ASSUME ReportsInv, [ReportsNext]_reportVars PROVE ReportsTypes' /\ Spans' /\ NoneMissed'
  OBVIOUS
<1> USE ReportTimes DEF ReportsInv
<1>1. NoReport \in ReportRange /\ "timer" \in Writer
  BY DEF NoReport, ReportRange, Writer
<1>2. CASE CommitNow
  BY <1>2 DEF CommitNow, ReportsTypes, Spans, Covers, Within, NoneMissed, Missed
<1>3. ASSUME NEW pushed \in SUBSET committed, Sync(pushed) PROVE ReportsTypes' /\ Spans' /\ NoneMissed'
  <2>1. /\ UNCHANGED <<reportsNow, analyses, looked, writing, failed>>
        /\ listed' = reportsNow /\ committed' \subseteq committed
        /\ \A c \in rows' : c \in rows \/ \E x \in committed : c = [date |-> x, at |-> reportsNow]
    BY <1>3 DEF Sync
  <2>2. \A c \in rows' : c \in rows \/ (c \in ReportRow /\ 1 <= c.date /\ c.date <= c.at /\ c.at = reportsNow)
    BY <2>1 DEF ReportsTypes, ReportRow
  <2>3. ReportsTypes'
    BY <2>1, <2>2 DEF ReportsTypes
  <2>4. Spans'
    BY <2>1 DEF Spans, Covers, Within
  <2>5. NoneMissed'
    BY <2>1, <2>2 DEF NoneMissed, Missed, Spans, ReportsTypes
  <2> QED
    BY <2>3, <2>4, <2>5
<1>4. CASE RunIfDue
  <2>1. Report(reportsNow) \in ReportRange
    BY ReportNow
  <2>2. UNCHANGED <<reportsNow, rows, committed, analyses>> /\ looked' = reportsNow /\ listed' = 0
    BY <1>4 DEF RunIfDue
  <2>3. failed' \subseteq failed \cup {Report(reportsNow)}
        /\ (writing' = writing \/ writing' = [writing EXCEPT !["timer"] = Report(reportsNow)])
    BY <1>4 DEF RunIfDue
  <2>4. writing' \in [Writer -> ReportRange] /\ failed' \subseteq ReportRange /\ Spans' /\ NoneMissed'
    BY <1>1, <2>1, <2>2, <2>3, ReportsMoved
  <2> QED
    BY <2>2, <2>4 DEF ReportsTypes
<1>5. CASE HourGoes
  <2>1. /\ reportsNow' = reportsNow + 1
        /\ UNCHANGED <<committed, rows, analyses, listed, looked, writing, failed>>
    BY <1>5 DEF HourGoes
  <2>2. ReportsTypes'
    BY <2>1 DEF ReportsTypes, ReportRow
  <2>3. Spans'
    BY <2>1 DEF Spans, Covers, Within, ReportsTypes, ReportRange
  <2>4. NoneMissed'
    BY <2>1 DEF NoneMissed, Missed
  <2> QED
    BY <2>2, <2>3, <2>4
<1>6. ASSUME NEW w \in Writer, Analyze(w) PROVE ReportsTypes' /\ Spans' /\ NoneMissed'
  <2>1. /\ UNCHANGED <<reportsNow, committed, rows, analyses, listed, looked, failed>>
        /\ writing' = [writing EXCEPT ![w] = Report(reportsNow)]
    BY <1>6 DEF Analyze
  <2>2. Report(reportsNow) \in ReportRange
    BY ReportNow
  <2>3. writing' \in [Writer -> ReportRange] /\ failed' \subseteq ReportRange /\ Spans' /\ NoneMissed'
    BY <2>1, <2>2, ReportsMoved
  <2> QED
    BY <2>1, <2>3 DEF ReportsTypes
<1>7. ASSUME NEW w \in Writer, StoreReport(w) PROVE ReportsTypes' /\ Spans' /\ NoneMissed'
  <2>1. /\ UNCHANGED <<reportsNow, committed, rows, listed, looked>> /\ writing[w] # NoReport
        /\ writing' = [writing EXCEPT ![w] = NoReport]
        /\ failed' = failed \/ failed' = failed \cup {writing[w]}
    BY <1>7 DEF StoreReport
  <2>2. PICK a : a = [start |-> writing[w].start, end |-> writing[w].end, of |-> writing[w].of, made |-> reportsNow]
    OBVIOUS
  <2>3. analyses' = analyses \/ analyses' = analyses \cup {a}
    BY <1>7, <2>2 DEF StoreReport
  <2>4. writing[w] \in ReportRange /\ writing[w].start = StartOf(writing[w].end) /\ writing[w].end <= reportsNow
        /\ Missed(writing[w])
    BY DEF ReportsTypes, Spans, Covers, NoneMissed
  <2>5. /\ a \in [start : Nat, end : Nat, of : SUBSET Nat, made : Nat]
        /\ (a.start = 0 \/ a.start + Span = a.end) /\ a.end <= a.made /\ a.made <= reportsNow /\ Missed(a)
    BY <2>2, <2>4 DEF ReportsTypes, ReportRange, StartOf, Missed, Within
  <2>6. Missed(NoReport) /\ Covers(NoReport) /\ NoReport.end <= reportsNow
    BY DEF Missed, Covers, StartOf, NoReport, Within, ReportsTypes, ReportRow
  <2>7. writing' \in [Writer -> ReportRange]
        /\ \A v \in Writer : writing'[v] = writing[v] \/ writing'[v] = NoReport
    BY <1>1, <2>1 DEF ReportsTypes
  <2>8. ReportsTypes'
    BY <2>1, <2>3, <2>4, <2>5, <2>7 DEF ReportsTypes
  <2>9. Spans'
    <3>1. \A b \in analyses' : (b.start = 0 \/ b.start + Span = b.end) /\ b.end <= b.made /\ b.made <= reportsNow
      BY <2>3, <2>5 DEF Spans
    <3>2. \A r \in failed' : r.end <= reportsNow
      BY <2>1, <2>4 DEF Spans
    <3>3. \A v \in Writer : Covers(writing'[v]) /\ writing'[v].end <= reportsNow
      BY <2>6, <2>7 DEF Spans
    <3> QED
      BY <2>1, <3>1, <3>2, <3>3 DEF Spans, Covers, Within
  <2>10. NoneMissed'
    BY <2>1, <2>3, <2>4, <2>5, <2>6, <2>7 DEF NoneMissed, Missed
  <2> QED
    BY <2>8, <2>9, <2>10
<1>8. CASE UNCHANGED reportVars
  BY <1>8 DEF reportVars, ReportsTypes, Spans, Covers, Within, NoneMissed, Missed
<1> QED
  BY <1>2, <1>3, <1>4, <1>5, <1>6, <1>7, <1>8 DEF ReportsNext

\* Every step keeps the pace.
LEMMA PaceStep == ReportsInv /\ [ReportsNext]_reportVars => Pace'
<1> SUFFICES ASSUME ReportsInv, [ReportsNext]_reportVars PROVE Pace'
  OBVIOUS
<1> USE ReportTimes DEF ReportsInv, ReportsTypes, Pace
<1>1. "timer" \in Writer
  BY DEF Writer
<1>2. CASE CommitNow
  BY <1>2 DEF CommitNow
<1>3. ASSUME NEW pushed \in SUBSET committed, Sync(pushed) PROVE Pace'
  BY <1>3 DEF Sync
<1>4. CASE RunIfDue
  <2>1. listed # 0 /\ listed' = 0 /\ looked' = reportsNow /\ reportsNow' = reportsNow /\ writing["timer"] = NoReport
    BY <1>4 DEF RunIfDue
  <2>2. writing' = writing \/ writing' = [writing EXCEPT !["timer"] = Report(reportsNow)]
    BY <1>4 DEF RunIfDue
  <2> QED
    BY <1>1, <2>1, <2>2, ReportNow
<1>5. CASE HourGoes
  <2>1. /\ reportsNow' = reportsNow + 1 /\ UNCHANGED <<listed, looked, writing>>
        /\ writing["timer"] # NoReport => reportsNow < writing["timer"].end + AnswerTime
        /\ listed # 0 => reportsNow < listed + MatchTime
        /\ reportsNow < looked + PollGap \/ listed # 0 \/ writing["timer"] # NoReport
    BY <1>1, <1>5 DEF HourGoes
  <2> QED
    BY <2>1
<1>6. ASSUME NEW w \in Writer, Analyze(w) PROVE Pace'
  BY <1>1, <1>6 DEF Analyze
<1>7. ASSUME NEW w \in Writer, StoreReport(w) PROVE Pace'
  BY <1>1, <1>7 DEF StoreReport
<1>8. CASE UNCHANGED reportVars
  BY <1>8 DEF reportVars
<1> QED
  BY <1>2, <1>3, <1>4, <1>5, <1>6, <1>7, <1>8 DEF ReportsNext

\* What is stored or excused stays so.
LEMMA ReportsGrow ==
  ASSUME ReportsInv, [ReportsNext]_reportVars, NEW c, c.date \in Nat
  PROVE  /\ Excused(c) => Excused(c)'
         /\ (\E a \in analyses : c.date \in a.of) => \E a \in analyses' : c.date \in a.of
<1>1. analyses \subseteq analyses' /\ failed \subseteq failed'
  BY DEF ReportsNext, CommitNow, Sync, RunIfDue, HourGoes, Analyze, StoreReport, reportVars
<1>2. InAGap(c.date) => InAGap(c.date)'
  BY <1>1 DEF InAGap
<1>3. \/ writing'["timer"] = writing["timer"]
      \/ writing["timer"] = NoReport
      \/ /\ writing["timer"] \in failed'
      \/ \E a \in analyses' : a.start = writing["timer"].start /\ a.end = writing["timer"].end
  <2>1. "timer" \in Writer
    BY DEF Writer
  <2>2. ASSUME NEW pushed, Sync(pushed) PROVE writing'["timer"] = writing["timer"]
    BY <2>2 DEF Sync
  <2>3. CASE CommitNow \/ HourGoes \/ UNCHANGED reportVars
    BY <2>3 DEF CommitNow, HourGoes, reportVars
  <2>4. CASE RunIfDue
    BY <2>4 DEF RunIfDue, ReportsInv, Pace
  <2>5. ASSUME NEW w \in Writer, Analyze(w) PROVE writing'["timer"] = writing["timer"]
    BY <2>1, <2>5 DEF Analyze, ReportsInv, ReportsTypes
  <2>6. ASSUME NEW w \in Writer, StoreReport(w), w # "timer" PROVE writing'["timer"] = writing["timer"]
    BY <2>1, <2>6 DEF StoreReport, ReportsInv, ReportsTypes
  <2>7. CASE StoreReport("timer")
    <3>1. PICK a : a = [start |-> writing["timer"].start, end |-> writing["timer"].end,
                        of |-> writing["timer"].of, made |-> reportsNow]
      OBVIOUS
    <3>2. a.start = writing["timer"].start /\ a.end = writing["timer"].end
      BY <3>1
    <3> QED
      BY <2>7, <3>1, <3>2 DEF StoreReport
  <2> QED
    BY <2>2, <2>3, <2>4, <2>5, <2>6, <2>7 DEF ReportsNext
<1>4. StoredLate(c) => StoredLate(c)'
  <2>1. CASE c.at + MatchTime >= c.date + Span
    BY <2>1 DEF StoredLate
  <2>2. ASSUME NEW r \in analyses \cup failed \cup {writing["timer"]}, Within(c.date, r), r.end <= c.at
        PROVE  \E q \in analyses' \cup failed' \cup {writing'["timer"]} : Within(c.date, q) /\ q.end <= c.at
    <3>1. CASE r \in analyses \cup failed
      BY <1>1, <2>2, <3>1
    <3>2. CASE r = writing["timer"] /\ (writing'["timer"] = r \/ r \in failed')
      BY <2>2, <3>2
    <3>3. ASSUME r = NoReport PROVE FALSE
      BY <2>2, <3>3 DEF NoReport, Within
    <3>4. ASSUME NEW a \in analyses', a.start = r.start, a.end = r.end
          PROVE  \E q \in analyses' \cup failed' \cup {writing'["timer"]} : Within(c.date, q) /\ q.end <= c.at
      BY <2>2, <3>4 DEF Within
    <3> QED
      BY <1>3, <2>2, <3>1, <3>2, <3>3, <3>4
  <2> QED
    BY <2>1, <2>2 DEF StoredLate, Within
<1> QED
  BY <1>1, <1>2, <1>4 DEF Excused

\* A sync that comes in time for a commit of the table.
LEMMA SyncInTime ==
  ASSUME ReportsInv, NEW pushed \in SUBSET committed, Sync(pushed), NEW c \in rows', ~TimerHas(c.date)', ~Excused(c)'
  PROVE  LooksInTime(c.date)'
<1> USE ReportTimes DEF ReportsInv, ReportsTypes
<1>1. /\ UNCHANGED <<reportsNow, analyses, looked, writing, failed>>
      /\ listed = 0 /\ listed' = reportsNow /\ writing["timer"] = NoReport
      /\ c \in rows \/ \E x \in committed : c = [date |-> x, at |-> reportsNow]
  BY DEF Sync
<1>2. c.date \in Nat
  BY <1>1 DEF ReportRow
<1>3. CASE c \in rows
  <2>1. ~TimerHas(c.date) /\ ~Excused(c)
    BY <1>1 DEF TimerHas, Excused, StoredLate, InAGap, Within
  <2>2. LooksInTime(c.date)
    BY <1>3, <2>1 DEF Waited
  <2> QED
    BY <1>1, <1>2, <2>2 DEF LooksInTime, Pace
<1>4. CASE c.at = reportsNow
  <2>1. ~(reportsNow + MatchTime >= c.date + Span)
    BY <1>4 DEF Excused, StoredLate
  <2> QED
    BY <1>1, <1>2, <2>1 DEF LooksInTime
<1> QED
  BY <1>1, <1>3, <1>4

\* Every step keeps what was waited for: only syncs, the timer's own steps and the
\* clock tell, and a sync comes in time for what the timer does not have.
LEMMA WaitedStep == ReportsInv /\ [ReportsNext]_reportVars => Waited'
<1> SUFFICES ASSUME ReportsInv, [ReportsNext]_reportVars, NEW c \in rows', ~TimerHas(c.date)', ~Excused(c)'
             PROVE  LooksInTime(c.date)'
  BY DEF Waited
<1> USE ReportTimes DEF ReportsInv, ReportsTypes
<1> DEFINE x == c.date
<1>1. ASSUME NEW pushed \in SUBSET committed, Sync(pushed) PROVE LooksInTime(x)'
  BY <1>1, SyncInTime
<1> SUFFICES ASSUME rows' = rows PROVE LooksInTime(x)'
  BY <1>1 DEF ReportsNext, CommitNow, RunIfDue, HourGoes, Analyze, StoreReport, reportVars
<1>0. c.date \in Nat
  BY DEF ReportRow
<1>2. TimerHas(x) \/ LooksInTime(x)
  BY <1>0, ReportsGrow DEF Waited
<1>3. ~(\E a \in analyses : x \in a.of) /\ ~Excused(c)
  BY <1>0, ReportsGrow DEF TimerHas
<1>4. "timer" \in Writer /\ x \in Nat /\ 1 <= x /\ x <= reportsNow
  BY DEF Writer, ReportRow
<1>5. TimerHas(x) => writing["timer"] # NoReport /\ x \in writing["timer"].of
  BY <1>3 DEF TimerHas
<1> HIDE DEF x
<1>6. ASSUME UNCHANGED <<reportsNow, listed, looked>>, writing'["timer"] = writing["timer"]
      PROVE  LooksInTime(x)'
  <2>1. ~TimerHas(x)
    BY <1>3, <1>5, <1>6 DEF TimerHas, x
  <2> QED
    BY <1>2, <1>6, <2>1 DEF LooksInTime
<1>7. CASE CommitNow \/ UNCHANGED reportVars
  BY <1>6, <1>7 DEF CommitNow, reportVars
<1>8. CASE RunIfDue
  <2>1. UNCHANGED <<reportsNow, analyses>> /\ looked' = reportsNow /\ listed' = 0 /\ writing["timer"] = NoReport
    BY <1>8 DEF RunIfDue, Pace
  <2>2. LooksInTime(x) /\ ~TimerHas(x)
    BY <1>2, <1>5, <2>1
  <2>3. reportsNow < x + Span
    BY <2>2, InTimeIsYoung DEF x
  <2>4. Within(x, Report(reportsNow)) /\ x \in Report(reportsNow).of /\ Report(reportsNow) # NoReport
        /\ Report(reportsNow).start = StartOf(reportsNow)
    BY <2>3, ReportNow DEF x
  <2>5. writing' = writing
    <3>1. writing' = [writing EXCEPT !["timer"] = Report(reportsNow)] => TimerHas(x)'
      BY <1>4, <2>4 DEF TimerHas
    <3> QED
      BY <1>8, <3>1 DEF RunIfDue, x
  <2>6. ~Due \/ Report(reportsNow) \in failed'
    <3>1. \E d \in rows : d.date > StartOf(reportsNow)
      BY <1>4, <2>4 DEF Within, x
    <3>2. writing' # [writing EXCEPT !["timer"] = Report(reportsNow)]
      BY <1>4, <2>1, <2>4, <2>5
    <3> QED
      BY <1>8, <3>1, <3>2 DEF RunIfDue
  <2>7. reportsNow + PollGap + MatchTime < x + Span
    <3>1. CASE ~Due
      BY <1>3, <2>2, <3>1, DueInTime DEF x
    <3>2. CASE Report(reportsNow) \in failed'
      <4>1. ~InAGap(x)'
        BY DEF Excused, x
      <4>2. reportsNow + AnswerTime + PollGap + MatchTime < x + Span
        BY <1>4, <2>4, <3>2, <4>1, FailedInTime
      <4> QED
        BY <1>4, <4>2
    <3> QED
      BY <2>6, <3>1, <3>2
  <2> QED
    BY <2>1, <2>5, <2>7 DEF LooksInTime
<1>9. CASE HourGoes
  <2>1. /\ reportsNow' = reportsNow + 1 /\ UNCHANGED <<analyses, listed, looked, writing>>
        /\ reportsNow < looked + PollGap \/ listed # 0 \/ writing["timer"] # NoReport
    BY <1>9 DEF HourGoes
  <2>2. LooksInTime(x)
    <3>1. ~TimerHas(x)
      BY <2>1 DEF TimerHas, x
    <3> QED
      BY <1>2, <3>1
  <2> QED
    BY <1>4, <2>1, <2>2 DEF LooksInTime, Pace
<1>10. ASSUME NEW w \in Writer, Analyze(w) PROVE LooksInTime(x)'
  BY <1>4, <1>6, <1>10 DEF Analyze
<1>11. ASSUME NEW w \in Writer, StoreReport(w) PROVE LooksInTime(x)'
  <2>1. /\ UNCHANGED <<reportsNow, listed, looked>>
        /\ writing[w] # NoReport /\ writing' = [writing EXCEPT ![w] = NoReport]
    BY <1>11 DEF StoreReport
  <2>2. CASE w # "timer"
    BY <1>4, <1>6, <2>1, <2>2
  <2>3. CASE w = "timer"
    <3>1. writing'["timer"] = NoReport /\ listed = 0
      BY <1>4, <2>1, <2>3 DEF Pace
    <3>2. writing["timer"].end = looked /\ reportsNow <= looked + AnswerTime /\ writing["timer"].start = StartOf(looked)
      BY <1>4, <2>1, <2>3 DEF Pace, Spans, Covers
    <3>3. CASE LooksInTime(x)
      BY <1>4, <2>1, <2>3, <3>1, <3>2, <3>3 DEF LooksInTime
    <3>4. CASE TimerHas(x)
      <4>1. x \in writing["timer"].of
        BY <1>5, <3>4
      <4>2. writing["timer"] \in failed'
        <5>1. PICK a : a = [start |-> writing[w].start, end |-> writing[w].end, of |-> writing[w].of, made |-> reportsNow]
          OBVIOUS
        <5>2. a \notin analyses'
          BY <2>3, <4>1, <5>1 DEF TimerHas, x
        <5> QED
          BY <1>11, <2>3, <5>1, <5>2 DEF StoreReport
      <4>3. Within(x, writing["timer"])
        BY <1>4, <4>1 DEF Spans, Covers
      <4>4. ~InAGap(x)'
        BY DEF Excused, x
      <4>5. looked + AnswerTime + PollGap + MatchTime < x + Span
        BY <1>4, <3>2, <4>2, <4>3, <4>4, FailedInTime
      <4> QED
        BY <1>4, <2>1, <3>1, <4>5 DEF LooksInTime
    <3> QED
      BY <1>2, <3>3, <3>4
  <2> QED
    BY <2>2, <2>3
<1> QED
  BY <1>1, <1>7, <1>8, <1>9, <1>10, <1>11 DEF ReportsNext

\* What no digest has was lost in a gap, in every behaviour.
LEMMA ReportsAlone == ReportsSpec => []LostOnlyInGaps
<1>1. ReportsInit => ReportsInv
  <2> SUFFICES ASSUME ReportsInit PROVE ReportsInv
    OBVIOUS
  <2>1. ReportsTypes /\ Spans /\ NoneMissed /\ Waited
    BY ReportTimes DEF ReportsInit, ReportsTypes, ReportRange, NoReport, Spans, Covers, StartOf, NoneMissed, Missed, Waited
  <2>2. Pace
    BY ReportTimes DEF ReportsInit, Pace, Writer
  <2> QED
    BY <2>1, <2>2 DEF ReportsInv
<1>2. ReportsInv /\ [ReportsNext]_reportVars => ReportsInv'
  BY ReportsTypesStep, PaceStep, WaitedStep DEF ReportsInv
<1> QED
  BY <1>1, <1>2, LostIfWaited, PTL DEF ReportsSpec

-----------------------------------------------------------------------------
\* For any issues, commits and people, any spans and any pace of the timer: what
\* gitpulse says of a repository accounts for its commits.
THEOREM AnalysisIsKept == MatchesSpec /\ ReportsSpec => []AnalysisHolds
  BY MatchesAlone, ReportsAlone, PTL DEF AnalysisHolds

-----------------------------------------------------------------------------
\* The settings of svc-vision (VisionSettings).

SettingsSpec == SettingsInit /\ [][SettingsNext]_settingVars

\* A request that is under way: a record of its own, with what its handler edits.
IsRequest(r) ==
    /\ r = [at |-> r.at, handler |-> r.handler, edits |-> r.edits, value |-> r.value,
            seen |-> r.seen, left |-> r.left]
    /\ r.at \in {"read", "save"} /\ r.handler \in Handler /\ r.edits \subseteq Fields[r.handler]
    /\ r.value \in Nat /\ r.seen \in [Fields[r.handler] -> Nat] /\ r.left \subseteq Rows(r.handler)
    /\ r.at = "read" => r.left = {}

SettingsTypes ==
    /\ cfg \in [Field -> Nat] /\ system_configs \in [Field -> Nat] /\ latest \in [Field -> Nat]
    /\ puts \in Nat /\ settingFaults \in Nat
    /\ put = [p \in Put |-> put[p]] /\ \A p \in Put : put[p] = NoPut \/ IsRequest(put[p])

\* Two requests to one handler are noticed.
OverlapsKept ==
    \A p, q \in Put : p # q /\ put[p] # NoPut /\ put[q] # NoPut /\ put[p].handler = put[q].handler =>
        /\ Fields[put[p].handler] \subseteq unsaved
        /\ WritesBack(put[p].handler) => Fields[put[p].handler] \subseteq contested

\* The memory has the last edit; a copy to write back is not older; what is to be
\* saved is the last edit; and it is saved, or a request is to save it.
MemoryHeld ==
    \A f \in Field \ contested : f \notin unsaved \/ settingFaults = 0 => cfg[f] = latest[f]
CopiesFresh ==
    \A p \in Put : put[p] # NoPut /\ put[p].at = "read" /\ WritesBack(put[p].handler) =>
        \A f \in Fields[put[p].handler] \ contested : put[p].seen[f] = cfg[f]
SavesLast ==
    \A p \in Put : put[p] # NoPut /\ put[p].at = "save" =>
        \A f \in UNION put[p].left : f \notin contested /\ f \notin unsaved => put[p].seen[f] = latest[f]
RowsHeld ==
    \A f \in Field : f \notin contested /\ f \notin unsaved =>
        \/ Kept(f)
        \/ \E p \in Put : put[p] # NoPut /\ put[p].at = "save" /\ f \in UNION put[p].left

SettingsInv == SettingsTypes /\ OverlapsKept /\ MemoryHeld /\ CopiesFresh /\ SavesLast /\ RowsHeld

\* What each handler edits.
LEMMA FieldsOf ==
  /\ DOMAIN Fields = {"storage", "snapshot", "defaults", "alert", "server"}
  /\ Fields["storage"] = {"local", "webdav", "minio"} /\ Fields["snapshot"] = {"enabled", "interval"}
  /\ Fields["defaults"] = {"recording", "picture"} /\ Fields["alert"] = {"push", "channels"}
  /\ Fields["server"] = {"name", "level", "port", "mode"}
  BY DEF Fields

\* No two handlers edit the same field, and none is called "none".
LEMMA FieldsApart ==
  ASSUME NEW h \in Handler, NEW k \in Handler
  PROVE  /\ h # "none" /\ Fields[h] \subseteq Field
         /\ \A f \in Fields[h] : f \in Fields[k] => h = k
         /\ "recording" \in Fields[h] => h = "defaults"
         /\ WritesBack(h) => h # "defaults"
<1>1. h \in {"storage", "snapshot", "defaults", "alert", "server"} /\ k \in {"storage", "snapshot", "defaults", "alert", "server"}
  BY HandlerAssumption, FieldsOf
<1>2. Fields[h] \subseteq Field
  BY DEF Field
<1>3. \A f \in Fields[h] : f \in Fields[k] => h = k
  BY <1>1, FieldsOf
<1>4. "recording" \in Fields[h] => h = "defaults"
  BY <1>1, FieldsOf
<1> QED
  BY <1>1, <1>2, <1>3, <1>4 DEF WritesBack

\* The rows of a handler have its fields, but those that have no row.
LEMMA RowsOf ==
  ASSUME NEW h \in Handler
  PROVE  UNION Rows(h) = Fields[h] \ NoRow /\ \A row \in Rows(h) : row \subseteq Fields[h]
<1>1. UNION { {f} : f \in Fields[h] } = Fields[h]
  OBVIOUS
<1>2. UNION { Fields[h] \ NoRow } = Fields[h] \ NoRow
  OBVIOUS
<1>3. CASE h = "storage"
  <2>1. Fields[h] \ NoRow = Fields[h]
    BY <1>3, FieldsOf DEF NoRow
  <2> QED
    BY <1>1, <1>3, <2>1 DEF Rows
<1>4. CASE h # "storage"
  BY <1>2, <1>4 DEF Rows
<1> QED
  BY <1>3, <1>4

\* A request under way is none that is not.
LEMMA RequestsAre ==
  ASSUME SettingsTypes, NEW p \in Put
  PROVE  /\ put[p] # NoPut => IsRequest(put[p])
         /\ put[p].at \in {"read", "save"} => put[p] # NoPut
         /\ put[p].handler \in Handler <=> put[p] # NoPut
<1>1. put[p] # NoPut => IsRequest(put[p])
  BY DEF SettingsTypes
<1>2. NoPut.at = "none" /\ NoPut.handler = "none" /\ "none" \notin Handler
  BY FieldsApart DEF NoPut
<1>3. CASE put[p] = NoPut
  BY <1>2, <1>3
<1>4. CASE put[p] # NoPut
  BY <1>1, <1>4 DEF IsRequest
<1> QED
  BY <1>3, <1>4

\* Once no request is under way, this is what is promised.
LEMMA HeldAtRest == SettingsInv => SettingsHold
  BY DEF SettingsInv, SettingsHold, MemoryHeld, RowsHeld

\* A request begins: it notices the others at its handler.
LEMMA ReadKeeps ==
  ASSUME SettingsInv, NEW p \in Put, NEW h, NEW E, ReadSettings(p, h, E)
  PROVE  SettingsInv'
<1> USE DEF SettingsInv
<1>1. PICK r : r = [at |-> "read", handler |-> h, edits |-> E, value |-> puts + 2,
                    seen |-> [f \in Fields[h] |-> cfg[f]], left |-> {}]
  OBVIOUS
<1>2. put' = [put EXCEPT ![p] = r] /\ put[p] = NoPut /\ h \in Handler /\ E \subseteq Fields[h] /\ puts' = puts + 1
      /\ UNCHANGED <<cfg, system_configs, settingFaults, latest>>
  BY <1>1 DEF ReadSettings
<1>3. /\ contested \subseteq contested' /\ unsaved \subseteq unsaved'
      /\ Others(p, h) # {} => Fields[h] \subseteq unsaved'
      /\ Others(p, h) # {} /\ WritesBack(h) => Fields[h] \subseteq contested'
  BY DEF ReadSettings
<1>4. IsRequest(r) /\ r # NoPut
  <2>1. \A f \in Fields[h] : cfg[f] \in Nat
    BY <1>2, FieldsApart DEF SettingsTypes
  <2> QED
    BY <1>1, <1>2, <2>1 DEF IsRequest, NoPut, SettingsTypes
<1>5. put'[p] = r /\ \A q \in Put : q # p => put'[q] = put[q]
  BY <1>2 DEF SettingsTypes
<1>6. SettingsTypes'
  <2>1. put' = [q \in Put |-> put'[q]]
    BY <1>2 DEF SettingsTypes
  <2>2. \A q \in Put : put'[q] = NoPut \/ IsRequest(put'[q])
    BY <1>4, <1>5 DEF SettingsTypes
  <2> QED
    BY <1>2, <2>1, <2>2 DEF SettingsTypes
<1>7. OverlapsKept'
  <2>1. ASSUME NEW q \in Put, q # p, put[q].handler = h
        PROVE  Fields[h] \subseteq unsaved' /\ (WritesBack(h) => Fields[h] \subseteq contested')
    BY <1>3, <2>1 DEF Others
  <2>2. \A q, s \in Put : q # s /\ put'[q] # NoPut /\ put'[s] # NoPut /\ put'[q].handler = put'[s].handler =>
        /\ Fields[put'[q].handler] \subseteq unsaved'
        /\ WritesBack(put'[q].handler) => Fields[put'[q].handler] \subseteq contested'
    BY <1>1, <1>3, <1>5, <2>1 DEF OverlapsKept
  <2> QED
    BY <2>2 DEF OverlapsKept
<1>8. MemoryHeld'
  BY <1>2, <1>3 DEF MemoryHeld
<1>9. CopiesFresh'
  BY <1>1, <1>2, <1>3, <1>5 DEF CopiesFresh
<1>10. SavesLast'
  BY <1>1, <1>2, <1>3, <1>5 DEF SavesLast
<1>11. RowsHeld'
  BY <1>2, <1>3, <1>5 DEF RowsHeld, Kept
<1> QED
  BY <1>6, <1>7, <1>8, <1>9, <1>10, <1>11

\* It writes into the memory: its edits, and a copy that is not older.
LEMMA SetKeeps ==
  ASSUME SettingsInv, NEW p \in Put, Set(p)
  PROVE  SettingsInv'
<1> USE DEF SettingsInv
<1>1. put[p] # NoPut /\ IsRequest(put[p]) /\ put[p].at = "read"
  BY RequestsAre DEF Set
<1>2. PICK h \in Handler : h = put[p].handler
  BY <1>1 DEF IsRequest
<1>3. PICK new : new = [f \in Field |-> IF f \in DOMAIN Written(p) THEN Written(p)[f] ELSE cfg[f]]
  OBVIOUS
<1>4. PICK r : r = [put[p] EXCEPT !.at = "save", !.left = Rows(h), !.seen = [f \in Fields[h] |-> new[f]]]
  OBVIOUS
<1>5. /\ cfg' = new /\ put' = [put EXCEPT ![p] = r]
      /\ latest' = [f \in Field |-> IF f \in DOMAIN Said(p) THEN Said(p)[f] ELSE latest[f]]
      /\ UNCHANGED <<system_configs, puts, settingFaults, contested, unsaved>>
  BY <1>2, <1>3, <1>4 DEF Set
<1>6. Fields[h] \subseteq Field /\ put[p].edits \subseteq Fields[h] /\ put[p].value \in Nat /\ put[p].seen \in [Fields[h] -> Nat]
  BY <1>1, <1>2, FieldsApart DEF IsRequest
<1>7. /\ DOMAIN Said(p) \subseteq Fields[h]
      /\ \A f \in DOMAIN Said(p) : Said(p)[f] \in Nat /\ new[f] = Said(p)[f]
      /\ \A f \in Field : f \notin Fields[h] => new[f] = cfg[f]
      /\ \A f \in Fields[h] : f \notin DOMAIN Said(p) => new[f] = IF WritesBack(h) THEN put[p].seen[f] ELSE cfg[f]
  <2>1. /\ DOMAIN Said(p) = Named(h, put[p].edits) /\ Named(h, put[p].edits) \subseteq Fields[h]
        /\ \A f \in DOMAIN Said(p) : Said(p)[f] = IF f \in put[p].edits THEN put[p].value ELSE Empty
    BY <1>2, <1>6 DEF Said, Named
  <2>2. CASE WritesBack(h)
    <3>1. Written(p) = [f \in Fields[h] |-> IF f \in put[p].edits THEN put[p].value ELSE put[p].seen[f]]
      BY <1>2, <2>2 DEF Written
    <3>2. DOMAIN Said(p) = put[p].edits
      BY <2>1, <2>2 DEF WritesBack, Named
    <3> QED
      BY <1>3, <1>6, <2>1, <2>2, <3>1, <3>2 DEF Empty
  <2>3. CASE ~WritesBack(h)
    <3>1. Written(p) = Said(p)
      BY <1>2, <2>3 DEF Written
    <3> QED
      BY <1>3, <1>6, <2>1, <2>3, <3>1 DEF Empty
  <2> QED
    BY <2>2, <2>3
<1>8. new \in [Field -> Nat] /\ latest' \in [Field -> Nat]
  <2>1. \A f \in Field : new[f] \in Nat
    BY <1>6, <1>7 DEF SettingsTypes
  <2> QED
    BY <1>3, <1>5, <1>7, <2>1 DEF SettingsTypes
<1>9. r.at = "save" /\ r.handler = h /\ r.left = Rows(h) /\ r.seen = [f \in Fields[h] |-> new[f]] /\ IsRequest(r) /\ r # NoPut
  <2>1. r = [at |-> "save", handler |-> h, edits |-> put[p].edits, value |-> put[p].value,
             seen |-> [f \in Fields[h] |-> new[f]], left |-> Rows(h)]
    BY <1>1, <1>2, <1>4 DEF IsRequest
  <2>2. [f \in Fields[h] |-> new[f]] \in [Fields[h] -> Nat]
    BY <1>6, <1>8
  <2> QED
    BY <1>6, <2>1, <2>2 DEF IsRequest, NoPut
<1>10. put'[p] = r /\ \A q \in Put : q # p => put'[q] = put[q]
  BY <1>5 DEF SettingsTypes
<1>11. SettingsTypes'
  <2>1. put' = [q \in Put |-> put'[q]]
    BY <1>5 DEF SettingsTypes
  <2>2. \A q \in Put : put'[q] = NoPut \/ IsRequest(put'[q])
    BY <1>9, <1>10 DEF SettingsTypes
  <2> QED
    BY <1>5, <1>8, <2>1, <2>2 DEF SettingsTypes
<1>12. OverlapsKept'
  BY <1>1, <1>2, <1>5, <1>9, <1>10 DEF OverlapsKept
<1>13. MemoryHeld'
  <2>1. ASSUME NEW f \in Field \ contested, f \notin unsaved \/ settingFaults = 0
        PROVE  new[f] = latest'[f]
    <3>1. cfg[f] = latest[f]
      BY <2>1 DEF MemoryHeld
    <3>2. CASE f \in DOMAIN Said(p)
      BY <1>5, <1>7, <3>2
    <3>3. CASE f \notin DOMAIN Said(p)
      <4>1. latest'[f] = latest[f]
        BY <1>5, <3>3
      <4>2. f \in Fields[h] /\ WritesBack(h) => put[p].seen[f] = cfg[f]
        BY <1>1, <1>2 DEF CopiesFresh
      <4> QED
        BY <1>7, <3>1, <3>3, <4>1, <4>2
    <3> QED
      BY <3>2, <3>3
  <2> QED
    BY <1>5, <2>1 DEF MemoryHeld
<1>14. \A q \in Put : q # p /\ put[q] # NoPut /\ put[q].handler # h =>
          \A f \in Fields[put[q].handler] : cfg'[f] = cfg[f] /\ latest'[f] = latest[f]
  <2>1. ASSUME NEW q \in Put, put[q] # NoPut, put[q].handler # h, NEW f \in Fields[put[q].handler]
        PROVE  f \in Field /\ f \notin Fields[h]
    BY <2>1, RequestsAre, FieldsApart DEF IsRequest
  <2> QED
    BY <1>5, <1>6, <1>7, <2>1
<1>15. \A q \in Put : q # p /\ put[q] # NoPut /\ put[q].handler = h =>
          Fields[h] \subseteq unsaved /\ (WritesBack(h) => Fields[h] \subseteq contested)
  BY <1>1, <1>2 DEF OverlapsKept
<1>16. CopiesFresh'
  <2>1. ASSUME NEW q \in Put, put'[q] # NoPut, put'[q].at = "read", WritesBack(put'[q].handler),
               NEW f \in Fields[put'[q].handler], f \notin contested
        PROVE  put'[q].seen[f] = cfg'[f]
    <3>1. q # p /\ put'[q] = put[q]
      BY <1>9, <1>10, <2>1
    <3>2. put[q].seen[f] = cfg[f]
      BY <2>1, <3>1 DEF CopiesFresh
    <3>3. put[q].handler # h
      BY <1>15, <2>1, <3>1
    <3> QED
      BY <1>14, <2>1, <3>1, <3>2, <3>3
  <2> QED
    BY <1>5, <2>1 DEF CopiesFresh
<1>17. SavesLast'
  <2>1. ASSUME NEW q \in Put, put'[q] # NoPut, put'[q].at = "save",
               NEW f \in UNION put'[q].left, f \notin contested, f \notin unsaved
        PROVE  put'[q].seen[f] = latest'[f]
    <3>1. CASE q = p
      <4>1. f \in Fields[h]
        BY <1>9, <1>10, <2>1, <3>1, RowsOf
      <4>2. put'[q].seen[f] = new[f]
        BY <1>9, <1>10, <3>1, <4>1
      <4>3. new[f] = latest'[f]
        BY <1>5, <1>6, <1>13, <2>1, <4>1 DEF MemoryHeld
      <4> QED
        BY <4>2, <4>3
    <3>2. CASE q # p
      <4>1. put'[q] = put[q] /\ IsRequest(put[q]) /\ put[q] # NoPut
        BY <1>10, <2>1, <3>2, RequestsAre
      <4>2. f \in Fields[put[q].handler]
        BY <2>1, <4>1, RowsOf DEF IsRequest
      <4>3. put[q].handler # h
        BY <1>15, <2>1, <3>2, <4>1, <4>2
      <4>4. put[q].seen[f] = latest[f]
        BY <2>1, <4>1 DEF SavesLast
      <4> QED
        BY <1>14, <3>2, <4>1, <4>2, <4>3, <4>4
    <3> QED
      BY <3>1, <3>2
  <2> QED
    BY <1>5, <2>1 DEF SavesLast
<1>18. RowsHeld'
  <2>1. ASSUME NEW f \in Field, f \notin contested, f \notin unsaved
        PROVE  \/ Kept(f)'
               \/ \E q \in Put : put'[q] # NoPut /\ put'[q].at = "save" /\ f \in UNION put'[q].left
    <3>1. CASE f \in Fields[h]
      BY <1>9, <1>10, <3>1, RowsOf DEF Kept
    <3>2. CASE f \notin Fields[h]
      <4>1. latest'[f] = latest[f]
        BY <1>5, <1>7, <3>2
      <4>2. CASE Kept(f)
        BY <1>5, <4>1, <4>2 DEF Kept
      <4>3. CASE \E q \in Put : put[q] # NoPut /\ put[q].at = "save" /\ f \in UNION put[q].left
        <5>1. PICK q \in Put : put[q] # NoPut /\ put[q].at = "save" /\ f \in UNION put[q].left
          BY <4>3
        <5>2. q # p
          BY <1>1, <5>1
        <5> QED
          BY <1>10, <5>1, <5>2
      <4> QED
        BY <2>1, <4>2, <4>3 DEF RowsHeld
    <3> QED
      BY <3>1, <3>2
  <2> QED
    BY <1>5, <2>1 DEF RowsHeld
<1> QED
  BY <1>11, <1>12, <1>13, <1>16, <1>17, <1>18

\* A row is saved, or kept as one that is not.
LEMMA SaveKeeps ==
  ASSUME SettingsInv, NEW p \in Put, SaveSetting(p)
  PROVE  SettingsInv'
<1> USE DEF SettingsInv
<1>1. PICK row \in put[p].left :
        /\ \/ /\ system_configs' = [f \in Field |-> IF f \in row THEN put[p].seen[f] ELSE system_configs[f]]
              /\ UNCHANGED <<settingFaults, unsaved>>
           \/ SettingFault /\ unsaved' = unsaved \cup row /\ UNCHANGED system_configs
        /\ put' = [put EXCEPT ![p] = IF put[p].left = {row} THEN NoPut
                                     ELSE [put[p] EXCEPT !.left = put[p].left \ {row}]]
        /\ UNCHANGED <<cfg, puts, latest, contested>>
  BY DEF SaveSetting
<1>2. put[p] # NoPut /\ IsRequest(put[p])
  BY <1>1, RequestsAre DEF NoPut
<1>3. PICK h \in Handler : h = put[p].handler
  BY <1>2 DEF IsRequest
<1>4. Fields[h] \subseteq Field /\ row \subseteq Fields[h] /\ row \in Rows(h) /\ put[p].seen \in [Fields[h] -> Nat]
  BY <1>1, <1>2, <1>3, FieldsApart, RowsOf DEF IsRequest
<1>5. PICK r : r = IF put[p].left = {row} THEN NoPut ELSE [put[p] EXCEPT !.left = put[p].left \ {row}]
  OBVIOUS
<1>6. \/ r = NoPut /\ put[p].left = {row}
      \/ /\ put[p].left # {row} /\ r # NoPut /\ IsRequest(r) /\ r.at = put[p].at /\ r.handler = h /\ r.seen = put[p].seen
         /\ r.left = put[p].left \ {row}
  <2>1. CASE put[p].left = {row}
    BY <1>5, <2>1
  <2>2. CASE put[p].left # {row}
    <3>1. r = [at |-> put[p].at, handler |-> put[p].handler, edits |-> put[p].edits, value |-> put[p].value,
               seen |-> put[p].seen, left |-> put[p].left \ {row}]
      BY <1>2, <1>5, <2>2 DEF IsRequest
    <3> QED
      BY <1>2, <1>3, <2>2, <3>1 DEF IsRequest, NoPut
  <2> QED
    BY <2>1, <2>2
<1>7. put'[p] = r /\ \A q \in Put : q # p => put'[q] = put[q]
  BY <1>1, <1>5 DEF SettingsTypes
<1>8. unsaved \subseteq unsaved' /\ (settingFaults' = 0 => settingFaults = 0) /\ settingFaults' \in Nat
  BY <1>1 DEF SettingFault, SettingsTypes
<1>9. \A f \in Field : \/ system_configs'[f] = system_configs[f] /\ (f \in row => f \in unsaved')
                       \/ f \in row /\ system_configs'[f] = put[p].seen[f]
  BY <1>1
<1>10. put[p].at = "save" \/ put[p].at = "read"
  BY <1>2 DEF IsRequest
<1>11. SettingsTypes'
  <2>1. put' = [q \in Put |-> put'[q]]
    BY <1>1 DEF SettingsTypes
  <2>2. \A q \in Put : put'[q] = NoPut \/ IsRequest(put'[q])
    BY <1>6, <1>7 DEF SettingsTypes
  <2>3. system_configs' \in [Field -> Nat]
    BY <1>1, <1>4 DEF SettingsTypes
  <2> QED
    BY <1>1, <1>8, <2>1, <2>2, <2>3 DEF SettingsTypes
<1>12. \A q \in Put : put'[q] # NoPut =>
          /\ put[q] # NoPut /\ put'[q].handler = put[q].handler /\ put'[q].at = put[q].at
          /\ put'[q].seen = put[q].seen /\ put'[q].left \subseteq put[q].left
  BY <1>2, <1>3, <1>6, <1>7
<1>13. OverlapsKept'
  BY <1>1, <1>8, <1>12 DEF OverlapsKept
<1>14. MemoryHeld'
  BY <1>1, <1>8 DEF MemoryHeld
<1>15. CopiesFresh'
  BY <1>1, <1>12 DEF CopiesFresh
<1>16. SavesLast'
  <2>1. ASSUME NEW q \in Put, put'[q] # NoPut, put'[q].at = "save",
               NEW f \in UNION put'[q].left, f \notin contested, f \notin unsaved'
        PROVE  put'[q].seen[f] = latest[f]
    <3>1. put[q] # NoPut /\ put[q].at = "save" /\ put'[q].seen = put[q].seen /\ f \in UNION put[q].left /\ f \notin unsaved
      BY <1>8, <1>12, <2>1
    <3> QED
      BY <2>1, <3>1 DEF SavesLast
  <2> QED
    BY <1>1, <2>1 DEF SavesLast
<1>17. RowsHeld'
  <2>1. ASSUME NEW f \in Field, f \notin contested, f \notin unsaved'
        PROVE  \/ Kept(f)'
               \/ \E q \in Put : put'[q] # NoPut /\ put'[q].at = "save" /\ f \in UNION put'[q].left
    <3>1. f \notin unsaved
      BY <1>8, <2>1
    <3>2. CASE f \in row
      <4>1. system_configs'[f] = put[p].seen[f]
        BY <1>9, <2>1, <3>2
      <4>2. f \in UNION put[p].left
        BY <3>2
      <4>3. put[p].at = "save"
        BY <1>2, <3>2 DEF IsRequest
      <4> QED
        BY <1>1, <1>2, <2>1, <3>1, <4>1, <4>2, <4>3 DEF SavesLast, Kept
    <3>3. CASE f \notin row
      <4>1. system_configs'[f] = system_configs[f]
        BY <1>9, <3>3
      <4>2. ASSUME NEW q \in Put, put[q] # NoPut, put[q].at = "save", f \in UNION put[q].left
            PROVE  put'[q] # NoPut /\ put'[q].at = "save" /\ f \in UNION put'[q].left
        BY <1>6, <1>7, <3>3, <4>2
      <4> QED
        BY <1>1, <2>1, <3>1, <4>1, <4>2 DEF RowsHeld, Kept
    <3> QED
      BY <3>2, <3>3
  <2> QED
    BY <1>1, <2>1 DEF RowsHeld
<1> QED
  BY <1>11, <1>13, <1>14, <1>15, <1>16, <1>17

\* Camera defaults refused half way: one field is set and not saved.
LEMMA RefuseKeeps ==
  ASSUME SettingsInv, NEW p \in Put, RefuseDefaults(p)
  PROVE  SettingsInv'
<1> USE DEF SettingsInv
<1>1. put[p] # NoPut /\ IsRequest(put[p]) /\ put[p].at = "read" /\ put[p].handler = "defaults" /\ "recording" \in put[p].edits
  BY RequestsAre DEF RefuseDefaults
<1>2. "recording" \in Field /\ "defaults" \in Handler /\ put[p].value \in Nat
  BY <1>1, FieldsApart DEF IsRequest
<1>3. /\ cfg' = [cfg EXCEPT !["recording"] = put[p].value]
      /\ latest' = [latest EXCEPT !["recording"] = put[p].value]
      /\ unsaved' = unsaved \cup {"recording"} /\ put' = [put EXCEPT ![p] = NoPut]
      /\ UNCHANGED <<system_configs, puts, settingFaults, contested>>
  BY DEF RefuseDefaults
<1>4. put'[p] = NoPut /\ \A q \in Put : q # p => put'[q] = put[q]
  BY <1>3 DEF SettingsTypes
<1>5. \A q \in Put : put'[q] # NoPut => put'[q] = put[q] /\ put[q] # NoPut /\ q # p
  BY <1>4
<1>6. /\ \A f \in Field : f # "recording" => cfg'[f] = cfg[f] /\ latest'[f] = latest[f]
      /\ cfg'["recording"] = put[p].value /\ latest'["recording"] = put[p].value
  BY <1>2, <1>3 DEF SettingsTypes
<1>7. SettingsTypes'
  <2>1. put' = [q \in Put |-> put'[q]]
    BY <1>3 DEF SettingsTypes
  <2>2. \A q \in Put : put'[q] = NoPut \/ IsRequest(put'[q])
    BY <1>5 DEF SettingsTypes
  <2> QED
    BY <1>2, <1>3, <2>1, <2>2 DEF SettingsTypes
<1>8. OverlapsKept'
  BY <1>3, <1>5 DEF OverlapsKept
<1>9. MemoryHeld'
  BY <1>3, <1>6 DEF MemoryHeld
<1>10. CopiesFresh'
  <2>1. ASSUME NEW q \in Put, put'[q] # NoPut, put'[q].at = "read", WritesBack(put'[q].handler),
               NEW f \in Fields[put'[q].handler], f \notin contested
        PROVE  put'[q].seen[f] = cfg'[f]
    <3>1. put'[q] = put[q] /\ put[q] # NoPut /\ put[q].handler \in Handler
      BY <1>5, <2>1, RequestsAre
    <3>2. f # "recording" /\ f \in Field
      BY <2>1, <3>1, FieldsApart
    <3> QED
      BY <1>6, <2>1, <3>1, <3>2 DEF CopiesFresh
  <2> QED
    BY <1>3, <2>1 DEF CopiesFresh
<1>11. SavesLast'
  <2>1. ASSUME NEW q \in Put, put'[q] # NoPut, put'[q].at = "save",
               NEW f \in UNION put'[q].left, f \notin contested, f \notin unsaved'
        PROVE  put'[q].seen[f] = latest'[f]
    <3>1. put'[q] = put[q] /\ put[q] # NoPut /\ IsRequest(put[q])
      BY <1>5, <2>1, RequestsAre
    <3>2. f \in Field
      <4>1. f \in UNION Rows(put[q].handler) /\ put[q].handler \in Handler
        BY <2>1, <3>1 DEF IsRequest
      <4> QED
        BY <4>1, RowsOf, FieldsApart
    <3>3. f # "recording" /\ f \notin unsaved
      BY <1>3, <2>1
    <3> QED
      BY <1>6, <2>1, <3>1, <3>2, <3>3 DEF SavesLast
  <2> QED
    BY <1>3, <2>1 DEF SavesLast
<1>12. RowsHeld'
  <2>1. ASSUME NEW f \in Field, f \notin contested, f \notin unsaved'
        PROVE  \/ Kept(f)'
               \/ \E q \in Put : put'[q] # NoPut /\ put'[q].at = "save" /\ f \in UNION put'[q].left
    <3>1. latest'[f] = latest[f] /\ f \notin unsaved
      BY <1>3, <1>6, <2>1
    <3>2. \A q \in Put : put[q] # NoPut /\ put[q].at = "save" => put'[q] = put[q]
      BY <1>1, <1>4
    <3> QED
      BY <1>3, <2>1, <3>1, <3>2 DEF RowsHeld, Kept
  <2> QED
    BY <1>3, <2>1 DEF RowsHeld
<1> QED
  BY <1>7, <1>8, <1>9, <1>10, <1>11, <1>12

\* A restart: what was saved, over what the deployment says.
LEMMA VisionRestartKeeps ==
  ASSUME SettingsInv, RestartVision
  PROVE  SettingsInv'
<1> USE DEF SettingsInv
<1>1. PICK file \in {Default, cfg} : cfg' = Overlay(file)
  BY DEF RestartVision
<1>2. /\ put' = [p \in Put |-> NoPut] /\ UNCHANGED <<system_configs, puts, latest, contested>>
      /\ settingFaults' = settingFaults + 1 /\ settingFaults' # 0 /\ settingFaults' \in Nat
      /\ unsaved' = unsaved \cup { f \in Field : f \in NoRow \/ latest[f] = Empty }
                  \cup UNION { Fields[put[p].handler] : p \in { q \in Put : put[q] # NoPut } }
  BY DEF RestartVision, SettingFault, SettingsTypes
<1>3. \A p \in Put : put'[p] = NoPut
  BY <1>2
<1>4. Default \in [Field -> Nat] /\ \A f \in Field : Default[f] = Deployed
  BY DEF Default, Deployed
<1>5. /\ cfg' \in [Field -> Nat]
      /\ \A f \in Field : cfg'[f] = IF system_configs[f] # Empty THEN system_configs[f] ELSE file[f]
  BY <1>1, <1>4 DEF Overlay, SettingsTypes
<1>6. SettingsTypes'
  <2>1. put' = [q \in Put |-> put'[q]]
    BY <1>2
  <2> QED
    BY <1>2, <1>3, <1>5, <2>1 DEF SettingsTypes
<1>7. \A f \in Field : f \notin contested /\ f \notin unsaved' => Kept(f) /\ cfg'[f] = latest[f]
  <2>1. ASSUME NEW f \in Field, f \notin contested, f \notin unsaved'
        PROVE  Kept(f) /\ cfg'[f] = latest[f]
    <3>1. f \notin unsaved /\ f \notin NoRow /\ latest[f] # Empty /\ \A p \in Put : put[p] # NoPut => f \notin Fields[put[p].handler]
      BY <1>2, <2>1
    <3>2. ASSUME NEW p \in Put, put[p] # NoPut, f \in UNION put[p].left PROVE FALSE
      <4>1. f \in UNION Rows(put[p].handler) /\ put[p].handler \in Handler
        BY <3>2, RequestsAre DEF IsRequest
      <4> QED
        BY <3>1, <3>2, <4>1, RowsOf
    <3>3. Kept(f) /\ cfg[f] = latest[f]
      BY <2>1, <3>1, <3>2 DEF RowsHeld, MemoryHeld
    <3> QED
      BY <1>1, <1>4, <1>5, <3>1, <3>3 DEF Kept
  <2> QED
    BY <2>1
<1>8. OverlapsKept' /\ CopiesFresh' /\ SavesLast'
  BY <1>3 DEF OverlapsKept, CopiesFresh, SavesLast
<1>9. MemoryHeld' /\ RowsHeld'
  BY <1>2, <1>7 DEF MemoryHeld, RowsHeld, Kept
<1> QED
  BY <1>6, <1>8, <1>9

\* Memory and table hold the last edits, in every behaviour.
LEMMA SettingsAlone == SettingsSpec => []SettingsHold
<1>1. SettingsInit => SettingsInv
  <2> SUFFICES ASSUME SettingsInit PROVE SettingsInv
    OBVIOUS
  <2>1. \A p \in Put : put[p] = NoPut
    BY DEF SettingsInit
  <2>2. Default \in [Field -> Nat] /\ [f \in Field |-> Empty] \in [Field -> Nat]
    BY DEF Default, Deployed, Empty
  <2>3. SettingsTypes
    BY <2>1, <2>2 DEF SettingsInit, SettingsTypes
  <2>4. \A f \in Field : Kept(f)
    BY DEF SettingsInit, Default, Kept
  <2> QED
    BY <2>1, <2>3, <2>4 DEF SettingsInit, SettingsInv, OverlapsKept, MemoryHeld, CopiesFresh, SavesLast, RowsHeld
<1>2. SettingsInv /\ [SettingsNext]_settingVars => SettingsInv'
  <2> SUFFICES ASSUME SettingsInv, [SettingsNext]_settingVars PROVE SettingsInv'
    OBVIOUS
  <2>1. ASSUME NEW p \in Put, PutStorage(p) \/ PutSnapshot(p) \/ PutDefaults(p) \/ PutAlert(p) \/ PutServer(p) PROVE SettingsInv'
    BY <2>1, ReadKeeps DEF PutStorage, PutSnapshot, PutDefaults, PutAlert, PutServer
  <2>2. ASSUME NEW p \in Put, Set(p) \/ RefuseDefaults(p) \/ SaveSetting(p) PROVE SettingsInv'
    BY <2>2, SetKeeps, RefuseKeeps, SaveKeeps
  <2>3. CASE RestartVision
    BY <2>3, VisionRestartKeeps
  <2>4. CASE UNCHANGED settingVars
    BY <2>4 DEF settingVars, SettingsInv, SettingsTypes, OverlapsKept, MemoryHeld, CopiesFresh, SavesLast, RowsHeld, Kept
  <2> QED
    BY <2>1, <2>2, <2>3, <2>4 DEF SettingsNext
<1> QED
  BY <1>1, <1>2, HeldAtRest, PTL DEF SettingsSpec

-----------------------------------------------------------------------------
\* The alarms of the ONVIF cameras (CameraAlerts).

AlarmsSpec == AlarmsInit /\ [][AlarmsNext]_alarmVars

Alarm    == [cam : Cam, topic : Topic, at : Nat \ {0}]
AlertRow == [cam : Cam, topic : Topic, status : {"new", "acknowledged", "resolved", "gone"}]

AlarmTypes ==
    /\ alarmsNow \in Nat \ {0} /\ alarmFaults \in Nat
    /\ lastRecord \in [Cam -> [Topic -> Nat]] /\ motionRecordLast \in [Cam -> Nat]
    /\ IsFiniteSet(recorded) /\ recorded \subseteq Alarm /\ savedAlarms \subseteq recorded
    /\ telling \in [Cam -> [topic : Topic \cup {"none"}, at : Nat, alert : Nat]]

\* The last time of a type is that of an alarm that was recorded, and the camera's
\* last motion is in a clip.
LastOnes ==
    /\ \A c \in Cam, t \in Topic : lastRecord[c][t] # 0 =>
          lastRecord[c][t] <= alarmsNow /\ [cam |-> c, topic |-> t, at |-> lastRecord[c][t]] \in recorded
    /\ \A c \in Cam : motionRecordLast[c] # 0 =>
          motionRecordLast[c] <= alarmsNow /\ \E k \in clips : k.cam = c /\ k.from = motionRecordLast[c]

\* AlarmsTold, in its parts.
EachHeardIsRecorded ==
    \A h \in heard : \E r \in recorded : SameAlarm(r, h) /\ r.at <= h.at /\ h.at < r.at + Quiet
Lost       == { r \in recorded \ savedAlarms : ~BeingSaved(r) }
FewUnsaved == Cardinality(Lost) <= alarmFaults

\* An alarm that is being told was marked.
Underway ==
    \A c \in Cam : telling[c] # NoAlarm =>
        /\ telling[c].at <= alarmsNow
        /\ [cam |-> c, topic |-> telling[c].topic, at |-> telling[c].at] \in recorded

\* The table has a row for every alert that was deleted.
TableTypes ==
    /\ alerts \in Seq(AlertRow) /\ cleared \subseteq 1..Len(alerts)
    /\ doing \in [Guard -> {Nothing} \cup [alert : Nat, to : {"acknowledged", "resolved"}]]

AlarmsInv  == AlarmTypes /\ LastOnes /\ EachHeardIsRecorded /\ FewUnsaved /\ MotionFilmed /\ Underway
TableInv   == TableTypes /\ ClearedStaysCleared

\* A function of two arguments changed at one place.
LEMMA OneTime ==
  ASSUME NEW f \in [Cam -> [Topic -> Nat]], NEW c \in Cam, NEW t \in Topic, NEW v \in Nat,
         NEW g, g = [f EXCEPT ![c][t] = v]
  PROVE  /\ g \in [Cam -> [Topic -> Nat]]
         /\ g[c][t] = v
         /\ \A d \in Cam, u \in Topic : g[d][u] = f[d][u] \/ (d = c /\ u = t)
<1>1. g = [f EXCEPT ![c] = [f[c] EXCEPT ![t] = v]]
  OBVIOUS
<1>2. [f[c] EXCEPT ![t] = v] \in [Topic -> Nat]
  OBVIOUS
<1>3. g[c] = [f[c] EXCEPT ![t] = v] /\ \A d \in Cam : d # c => g[d] = f[d]
  BY <1>1
<1>4. \A u \in Topic : u # t => g[c][u] = f[c][u]
  BY <1>3
<1> QED
  BY <1>1, <1>2, <1>3, <1>4

\* Fewer are lost, or as many.
LEMMA NoMoreLost ==
  ASSUME IsFiniteSet(recorded), FewUnsaved, alarmFaults \in Nat, NEW L, L \subseteq Lost, NEW n \in Nat, alarmFaults <= n
  PROVE  Cardinality(L) <= n
<1>1. IsFiniteSet(Lost) /\ Cardinality(Lost) \in Nat
  BY FS_Subset, FS_CardinalityType DEF Lost
<1>2. Cardinality(L) \in Nat /\ Cardinality(L) <= Cardinality(Lost)
  BY <1>1, FS_Subset, FS_CardinalityType
<1> QED
  BY <1>1, <1>2 DEF FewUnsaved

\* One more is lost, and a fault was spent on it.
LEMMA OneMoreLost ==
  ASSUME IsFiniteSet(recorded), FewUnsaved, alarmFaults \in Nat, NEW r, NEW L, L \subseteq Lost \cup {r}
  PROVE  Cardinality(L) <= alarmFaults + 1
<1>1. IsFiniteSet(Lost) /\ Cardinality(Lost) \in Nat
  BY FS_Subset, FS_CardinalityType DEF Lost
<1>2. /\ IsFiniteSet(Lost \cup {r})
      /\ Cardinality(Lost \cup {r}) = IF r \in Lost THEN Cardinality(Lost) ELSE Cardinality(Lost) + 1
  BY <1>1, FS_AddElement
<1>3. Cardinality(L) \in Nat /\ Cardinality(L) <= Cardinality(Lost \cup {r}) /\ Cardinality(Lost \cup {r}) \in Nat
  BY <1>2, FS_Subset, FS_CardinalityType
<1> QED
  BY <1>1, <1>2, <1>3 DEF FewUnsaved

\* An alarm within the quiet time of one that was recorded changes nothing else.
LEMMA DuplicateKeeps ==
  ASSUME AlarmsInv, NEW c \in Cam, NEW t \in Topic, duplicated(c, t),
         heard' = heard \cup {[cam |-> c, topic |-> t, at |-> alarmsNow]},
         UNCHANGED <<alarmsNow, telling, motionRecordLast, clips, recorded, savedAlarms, alarmFaults>>
  PROVE  AlarmsInv'
<1> USE AlarmTimes DEF AlarmsInv, AlarmTypes
<1>1. UNCHANGED lastRecord /\ lastRecord[c][t] # 0 /\ alarmsNow - lastRecord[c][t] < Quiet /\ lastRecord[c][t] \in Nat
  BY DEF duplicated
<1>2. LastOnes' /\ AlarmTypes' /\ MotionFilmed' /\ Underway'
  BY <1>1 DEF LastOnes, MotionFilmed, Underway
<1>3. FewUnsaved'
  BY DEF FewUnsaved, Lost, BeingSaved
<1>4. EachHeardIsRecorded'
  <2>1. PICK r \in recorded : r = [cam |-> c, topic |-> t, at |-> lastRecord[c][t]]
    BY <1>1 DEF LastOnes
  <2>2. lastRecord[c][t] <= alarmsNow
    BY <1>1 DEF LastOnes
  <2>3. ASSUME NEW h, h = [cam |-> c, topic |-> t, at |-> alarmsNow]
        PROVE  SameAlarm(r, h) /\ r.at <= h.at /\ h.at < r.at + Quiet
    BY <1>1, <2>1, <2>2, <2>3 DEF SameAlarm
  <2> QED
    BY <2>3 DEF EachHeardIsRecorded
<1> QED
  BY <1>2, <1>3, <1>4

\* One that is not is marked, and about to be saved.
LEMMA MarkedKeeps ==
  ASSUME AlarmsInv, NEW c \in Cam, NEW t \in Topic, NEW alarm, telling[c] = NoAlarm,
         alarm = [cam |-> c, topic |-> t, at |-> alarmsNow],
         heard' = heard \cup {alarm}, recorded' = recorded \cup {alarm},
         lastRecord' = [lastRecord EXCEPT ![c][t] = alarmsNow],
         telling' = [telling EXCEPT ![c] = [topic |-> t, at |-> alarmsNow, alert |-> 0]],
         UNCHANGED <<alarmsNow, motionRecordLast, clips, savedAlarms, alarmFaults>>
  PROVE  AlarmsInv'
<1> USE AlarmTimes DEF AlarmsInv, AlarmTypes
<1>1. /\ lastRecord' \in [Cam -> [Topic -> Nat]] /\ lastRecord'[c][t] = alarmsNow
      /\ \A d \in Cam, u \in Topic : lastRecord'[d][u] = lastRecord[d][u] \/ (d = c /\ u = t)
  BY OneTime
<1>2. alarm.cam = c /\ alarm.topic = t /\ alarm.at = alarmsNow /\ alarm \in Alarm
  BY DEF Alarm
<1>3. /\ telling'[c] = [topic |-> t, at |-> alarmsNow, alert |-> 0] /\ \A d \in Cam : d # c => telling'[d] = telling[d]
      /\ telling' \in [Cam -> [topic : Topic \cup {"none"}, at : Nat, alert : Nat]]
  OBVIOUS
<1>4. AlarmTypes'
  <2>1. IsFiniteSet(recorded')
    BY FS_AddElement
  <2> QED
    BY <1>1, <1>2, <1>3, <2>1
<1>5. LastOnes'
  <2>1. \A d \in Cam, u \in Topic : lastRecord'[d][u] # 0 =>
          lastRecord'[d][u] <= alarmsNow' /\ [cam |-> d, topic |-> u, at |-> lastRecord'[d][u]] \in recorded'
    BY <1>1 DEF LastOnes
  <2> QED
    BY <2>1 DEF LastOnes
<1>6. EachHeardIsRecorded'
  BY <1>2 DEF EachHeardIsRecorded, SameAlarm
<1>7. FewUnsaved'
  <2>1. ASSUME NEW r \in Lost' PROVE r \in Lost
    <3>1. r # alarm
      BY <1>2, <1>3, <2>1 DEF Lost, BeingSaved
    <3>2. r \in recorded \ savedAlarms /\ r.cam \in Cam /\ r.at # 0
      BY <2>1, <3>1 DEF Lost, Alarm
    <3>3. CASE r.cam = c
      <4>1. telling[r.cam] # [topic |-> r.topic, at |-> r.at, alert |-> 0]
        BY <3>2, <3>3 DEF NoAlarm
      <4> QED
        BY <3>2, <4>1 DEF Lost, BeingSaved
    <3>4. CASE r.cam # c
      BY <1>3, <2>1, <3>2, <3>4 DEF Lost, BeingSaved
    <3> QED
      BY <3>3, <3>4
  <2> QED
    BY <2>1, NoMoreLost DEF FewUnsaved
<1>8. MotionFilmed'
  <2>1. ASSUME NEW h \in savedAlarms, h.topic = "motion"
        PROVE  \/ telling'[h.cam].alert # 0 /\ telling'[h.cam].topic = "motion" /\ telling'[h.cam].at = h.at
               \/ \E k \in clips : k.cam = h.cam /\ h.at < k.from + Cooldown
    <3>1. h.cam \in Cam
      BY DEF Alarm
    <3>2. telling[c].alert = 0
      BY DEF NoAlarm
    <3> QED
      BY <1>3, <2>1, <3>1, <3>2 DEF MotionFilmed
  <2> QED
    BY <2>1 DEF MotionFilmed
<1>9. Underway'
  BY <1>3 DEF Underway
<1> QED
  BY <1>4, <1>5, <1>6, <1>7, <1>8, <1>9

\* It is saved, or lost for a fault that was spent on it.
LEMMA InsertKeeps ==
  ASSUME AlarmsInv, NEW c \in Cam, SaveAlert(c), Len(alerts) \in Nat
  PROVE  AlarmsInv'
<1> USE AlarmTimes DEF AlarmsInv, AlarmTypes
<1>1. PICK alarm : alarm = [cam |-> c, topic |-> telling[c].topic, at |-> telling[c].at]
  OBVIOUS
<1>2. /\ telling[c] # NoAlarm /\ telling[c].alert = 0 /\ alarm \in recorded
      /\ UNCHANGED <<alarmsNow, lastRecord, motionRecordLast, clips, heard, recorded>>
  BY <1>1 DEF SaveAlert, Underway
<1>3. CASE /\ telling' = [telling EXCEPT ![c].alert = Len(alerts) + 1]
           /\ savedAlarms' = savedAlarms \cup {alarm} /\ UNCHANGED alarmFaults
  <2>1. PICK n \in Nat \ {0} : n = Len(alerts) + 1
    OBVIOUS
  <2>2. telling[c] = [topic |-> telling[c].topic, at |-> telling[c].at, alert |-> telling[c].alert]
    OBVIOUS
  <2>3. telling'[c] = [topic |-> telling[c].topic, at |-> telling[c].at, alert |-> n]
    BY <1>3, <2>1, <2>2
  <2>4. /\ telling'[c].topic = telling[c].topic /\ telling'[c].at = telling[c].at /\ telling'[c].alert # 0
        /\ telling'[c] # NoAlarm /\ \A d \in Cam : d # c => telling'[d] = telling[d]
    BY <1>3, <2>3 DEF NoAlarm
  <2>5. telling' = [telling EXCEPT ![c] = telling'[c]]
    BY <1>3
  <2>6. telling' \in [Cam -> [topic : Topic \cup {"none"}, at : Nat, alert : Nat]]
    <3>1. telling'[c] \in [topic : Topic \cup {"none"}, at : Nat, alert : Nat]
      <4>1. telling[c].topic \in Topic \cup {"none"} /\ telling[c].at \in Nat
        OBVIOUS
      <4> QED
        BY <2>3, <4>1
    <3> QED
      BY <2>5, <3>1
  <2>7. AlarmTypes' /\ LastOnes' /\ EachHeardIsRecorded'
    BY <1>2, <1>3, <2>6 DEF LastOnes, EachHeardIsRecorded
  <2>8. FewUnsaved'
    <3>1. ASSUME NEW r \in Lost' PROVE r \in Lost
      <4>1. r \in recorded \ savedAlarms /\ r # alarm /\ r \in Alarm
        BY <1>2, <1>3, <3>1 DEF Lost
      <4>2. r = [cam |-> r.cam, topic |-> r.topic, at |-> r.at]
        BY <4>1 DEF Alarm
      <4>3. ~BeingSaved(r)
        <5>1. CASE r.cam = c
          BY <1>1, <4>1, <4>2, <5>1 DEF BeingSaved
        <5>2. CASE r.cam # c
          BY <2>4, <3>1, <4>1, <5>2 DEF Lost, BeingSaved, Alarm
        <5> QED
          BY <5>1, <5>2
      <4> QED
        BY <4>1, <4>3 DEF Lost
    <3>2. alarmFaults' = alarmFaults /\ alarmFaults <= alarmFaults /\ Lost' \subseteq Lost
      BY <1>3, <3>1
    <3> QED
      BY <3>2, NoMoreLost DEF FewUnsaved
  <2>9. MotionFilmed'
    <3>1. ASSUME NEW h \in savedAlarms', h.topic = "motion"
          PROVE  \/ telling'[h.cam].alert # 0 /\ telling'[h.cam].topic = "motion" /\ telling'[h.cam].at = h.at
                 \/ \E k \in clips : k.cam = h.cam /\ h.at < k.from + Cooldown
      <4>1. CASE h = alarm
        BY <1>1, <2>4, <3>1, <4>1
      <4>2. CASE h # alarm
        <5>1. h \in savedAlarms /\ h.cam \in Cam
          BY <1>3, <4>2 DEF Alarm
        <5> QED
          BY <1>2, <2>4, <3>1, <5>1 DEF MotionFilmed
      <4> QED
        BY <4>1, <4>2
    <3> QED
      BY <1>2, <3>1 DEF MotionFilmed
  <2>10. Underway'
    BY <1>2, <2>4 DEF Underway
  <2> QED
    BY <2>7, <2>8, <2>9, <2>10
<1>4. CASE /\ telling' = [telling EXCEPT ![c] = NoAlarm] /\ UNCHANGED savedAlarms
           /\ alarmFaults' = alarmFaults + 1
  <2>1. /\ telling'[c] = NoAlarm /\ \A d \in Cam : d # c => telling'[d] = telling[d]
        /\ telling' \in [Cam -> [topic : Topic \cup {"none"}, at : Nat, alert : Nat]]
    BY <1>4 DEF NoAlarm
  <2>2. AlarmTypes' /\ LastOnes' /\ EachHeardIsRecorded' /\ Underway'
    BY <1>2, <1>4, <2>1 DEF LastOnes, EachHeardIsRecorded, Underway
  <2>3. FewUnsaved'
    <3>1. ASSUME NEW r \in Lost', r # alarm PROVE r \in Lost
      <4>1. r \in recorded \ savedAlarms /\ r \in Alarm
        BY <1>2, <1>4, <3>1 DEF Lost
      <4>2. r = [cam |-> r.cam, topic |-> r.topic, at |-> r.at]
        BY <4>1 DEF Alarm
      <4>3. ~BeingSaved(r)
        <5>1. CASE r.cam = c
          BY <1>1, <3>1, <4>1, <4>2, <5>1 DEF BeingSaved
        <5>2. CASE r.cam # c
          BY <2>1, <3>1, <4>1, <5>2 DEF Lost, BeingSaved, Alarm
        <5> QED
          BY <5>1, <5>2
      <4> QED
        BY <4>1, <4>3 DEF Lost
    <3> QED
      BY <1>4, <3>1, OneMoreLost DEF FewUnsaved
  <2>4. MotionFilmed'
    <3>1. ASSUME NEW h \in savedAlarms, h.topic = "motion"
          PROVE  \/ telling'[h.cam].alert # 0 /\ telling'[h.cam].topic = "motion" /\ telling'[h.cam].at = h.at
                 \/ \E k \in clips : k.cam = h.cam /\ h.at < k.from + Cooldown
      <4>1. h.cam \in Cam
        BY DEF Alarm
      <4> QED
        BY <1>2, <2>1, <3>1, <4>1 DEF MotionFilmed
    <3> QED
      BY <1>2, <1>4, <3>1 DEF MotionFilmed
  <2> QED
    BY <2>2, <2>3, <2>4
<1> QED
  BY <1>1, <1>3, <1>4 DEF SaveAlert, AlarmFault

\* Once it is told, motion is in a clip or in the cooldown of one.
LEMMA TellKeeps ==
  ASSUME AlarmsInv, NEW c \in Cam, TellAlert(c)
  PROVE  AlarmsInv'
<1> USE AlarmTimes DEF AlarmsInv, AlarmTypes
<1>1. /\ telling[c].alert # 0 /\ telling' = [telling EXCEPT ![c] = NoAlarm]
      /\ UNCHANGED <<alarmsNow, lastRecord, heard, recorded, savedAlarms, alarmFaults>>
  BY DEF TellAlert
<1>2. /\ telling[c] # NoAlarm /\ telling'[c] = NoAlarm /\ \A d \in Cam : d # c => telling'[d] = telling[d]
      /\ telling' \in [Cam -> [topic : Topic \cup {"none"}, at : Nat, alert : Nat]]
      /\ telling[c].at <= alarmsNow /\ telling[c].at \in Nat
  <2>1. NoAlarm.alert = 0 /\ NoAlarm \in [topic : Topic \cup {"none"}, at : Nat, alert : Nat]
    BY DEF NoAlarm
  <2>2. telling[c] # NoAlarm /\ telling[c] \in [topic : Topic \cup {"none"}, at : Nat, alert : Nat]
    BY <1>1, <2>1
  <2>3. telling[c].at <= alarmsNow /\ telling[c].at \in Nat
    BY <2>2 DEF Underway
  <2> QED
    BY <1>1, <2>1, <2>2, <2>3
<1>3. \/ UNCHANGED <<motionRecordLast, clips>>
      \/ /\ motionRecordLast' = [motionRecordLast EXCEPT ![c] = alarmsNow]
         /\ clips' = clips \cup {[cam |-> c, from |-> alarmsNow, at |-> "filming"]}
  BY DEF TellAlert, TriggerMotionRecording
<1>4. AlarmTypes' /\ EachHeardIsRecorded' /\ Underway'
  BY <1>1, <1>2, <1>3 DEF EachHeardIsRecorded, Underway
<1>5. \A d \in Cam : motionRecordLast'[d] # 0 =>
          motionRecordLast'[d] <= alarmsNow' /\ \E k \in clips' : k.cam = d /\ k.from = motionRecordLast'[d]
  <2>1. CASE UNCHANGED <<motionRecordLast, clips>>
    BY <1>1, <2>1 DEF LastOnes
  <2>2. ASSUME motionRecordLast' = [motionRecordLast EXCEPT ![c] = alarmsNow],
               clips' = clips \cup {[cam |-> c, from |-> alarmsNow, at |-> "filming"]},
               NEW d \in Cam, motionRecordLast'[d] # 0
        PROVE  motionRecordLast'[d] <= alarmsNow' /\ \E k \in clips' : k.cam = d /\ k.from = motionRecordLast'[d]
    <3>1. CASE d = c
      <4>1. PICK k \in clips' : k = [cam |-> c, from |-> alarmsNow, at |-> "filming"]
        BY <2>2
      <4>2. k.cam = c /\ k.from = alarmsNow
        BY <4>1
      <4>3. motionRecordLast'[d] = alarmsNow
        BY <2>2, <3>1
      <4> QED
        BY <1>1, <3>1, <4>2, <4>3
    <3>2. CASE d # c
      BY <1>1, <2>2, <3>2 DEF LastOnes
    <3> QED
      BY <3>1, <3>2
  <2> QED
    BY <1>3, <2>1, <2>2
<1>6. LastOnes'
  BY <1>1, <1>5 DEF LastOnes
<1>7. FewUnsaved'
  <2>1. ASSUME NEW r \in Lost' PROVE r \in Lost
    <3>1. r \in recorded \ savedAlarms /\ r \in Alarm
      BY <1>1, <2>1 DEF Lost
    <3>2. ~BeingSaved(r)
      <4>1. CASE r.cam = c
        <5>1. [topic |-> r.topic, at |-> r.at, alert |-> 0].alert = 0
          OBVIOUS
        <5> QED
          BY <1>1, <4>1, <5>1 DEF BeingSaved
      <4>2. CASE r.cam # c
        BY <1>2, <2>1, <3>1, <4>2 DEF Lost, BeingSaved, Alarm
      <4> QED
        BY <4>1, <4>2
    <3> QED
      BY <3>1, <3>2 DEF Lost
  <2> QED
    BY <1>1, <2>1, NoMoreLost DEF FewUnsaved
<1>8. MotionFilmed'
  <2>1. clips \subseteq clips'
    BY <1>3
  <2>2. ASSUME telling[c].topic = "motion"
        PROVE  \E k \in clips' : k.cam = c /\ telling[c].at < k.from + Cooldown
    <3>1. TriggerMotionRecording(c)
      BY <2>2 DEF TellAlert
    <3>2. CASE motionRecordLast[c] # 0 /\ alarmsNow - motionRecordLast[c] < Cooldown
      <4>1. PICK k \in clips : k.cam = c /\ k.from = motionRecordLast[c]
        BY <3>2 DEF LastOnes
      <4>2. motionRecordLast[c] \in Nat /\ motionRecordLast[c] <= alarmsNow
        BY <3>2 DEF LastOnes
      <4> QED
        BY <1>2, <2>1, <3>2, <4>1, <4>2
    <3>3. CASE ~(motionRecordLast[c] # 0 /\ alarmsNow - motionRecordLast[c] < Cooldown)
      <4>1. PICK k \in clips' : k = [cam |-> c, from |-> alarmsNow, at |-> "filming"]
        BY <3>1, <3>3 DEF TriggerMotionRecording
      <4> QED
        BY <1>2, <4>1
    <3> QED
      BY <3>2, <3>3
  <2>3. ASSUME NEW h \in savedAlarms, h.topic = "motion"
        PROVE  \/ telling'[h.cam].alert # 0 /\ telling'[h.cam].topic = "motion" /\ telling'[h.cam].at = h.at
               \/ \E k \in clips' : k.cam = h.cam /\ h.at < k.from + Cooldown
    <3>1. h.cam \in Cam
      BY DEF Alarm
    <3> QED
      BY <1>2, <2>1, <2>2, <2>3, <3>1 DEF MotionFilmed
  <2> QED
    BY <1>1, <2>3 DEF MotionFilmed
<1> QED
  BY <1>4, <1>6, <1>7, <1>8

\* Every step keeps what is told and filmed.
LEMMA AlarmsStep == AlarmsInv /\ TableInv /\ [AlarmsNext]_alarmVars => AlarmsInv'
<1> SUFFICES ASSUME AlarmsInv, TableInv, [AlarmsNext]_alarmVars PROVE AlarmsInv'
  OBVIOUS
<1>1. ASSUME UNCHANGED <<telling, lastRecord, motionRecordLast, heard, recorded, savedAlarms>>,
             \A k \in clips : \E m \in clips' : m.cam = k.cam /\ m.from = k.from,
             alarmsNow' = alarmsNow \/ alarmsNow' = alarmsNow + 1,
             alarmFaults' = alarmFaults \/ alarmFaults' = alarmFaults + 1
      PROVE  AlarmsInv'
  <2> USE DEF AlarmsInv, AlarmTypes
  <2>1. AlarmTypes' /\ EachHeardIsRecorded'
    BY <1>1 DEF EachHeardIsRecorded
  <2>2. FewUnsaved'
    <3>1. Lost' = Lost /\ alarmFaults' \in Nat /\ alarmFaults <= alarmFaults'
      BY <1>1 DEF Lost, BeingSaved
    <3> QED
      BY <3>1, NoMoreLost DEF FewUnsaved
  <2>3. LastOnes'
    <3>1. \A c \in Cam, t \in Topic : lastRecord[c][t] \in Nat
      OBVIOUS
    <3> QED
      BY <1>1, <3>1 DEF LastOnes
  <2>4. MotionFilmed'
    <3>1. ASSUME NEW h \in savedAlarms, h.topic = "motion", NEW k \in clips, k.cam = h.cam, h.at < k.from + Cooldown
          PROVE  \E m \in clips' : m.cam = h.cam /\ h.at < m.from + Cooldown
      <4>1. PICK m \in clips' : m.cam = k.cam /\ m.from = k.from
        BY <1>1
      <4> QED
        BY <3>1, <4>1
    <3> QED
      BY <1>1, <3>1 DEF MotionFilmed
  <2>5. Underway'
    <3>1. \A c \in Cam : telling[c].at \in Nat
      OBVIOUS
    <3> QED
      BY <1>1, <3>1 DEF Underway
  <2> QED
    BY <2>1, <2>2, <2>3, <2>4, <2>5
<1>2. ASSUME NEW c \in Cam, NEW t \in Topic, HandleEvent(c, t) PROVE AlarmsInv'
  <2>1. PICK alarm : alarm = [cam |-> c, topic |-> t, at |-> alarmsNow]
    OBVIOUS
  <2>2. /\ heard' = heard \cup {alarm} /\ telling[c] = NoAlarm
        /\ UNCHANGED <<alarmsNow, motionRecordLast, clips, savedAlarms, alarmFaults>>
    BY <1>2, <2>1 DEF HandleEvent
  <2>3. CASE duplicated(c, t) /\ UNCHANGED <<telling, recorded>>
    BY <2>1, <2>2, <2>3, DuplicateKeeps
  <2>4. CASE /\ lastRecord' = [lastRecord EXCEPT ![c][t] = alarmsNow] /\ recorded' = recorded \cup {alarm}
             /\ telling' = [telling EXCEPT ![c] = [topic |-> t, at |-> alarmsNow, alert |-> 0]]
    BY <2>1, <2>2, <2>4, MarkedKeeps
  <2> QED
    BY <1>2, <2>1, <2>3, <2>4 DEF HandleEvent
<1>7. ASSUME NEW c \in Cam, SaveAlert(c) \/ TellAlert(c) PROVE AlarmsInv'
  <2>1. Len(alerts) \in Nat
    BY DEF TableInv, TableTypes
  <2> QED
    BY <1>7, <2>1, InsertKeeps, TellKeeps
<1>3. ASSUME NEW k, RunMotionRecording(k) PROVE AlarmsInv'
  <2>1. PICK m : m.cam = k.cam /\ m.from = k.from /\ clips' = (clips \ {k}) \cup {m}
    <3>1. [k EXCEPT !.at = "saved"].cam = k.cam /\ [k EXCEPT !.at = "saved"].from = k.from
      OBVIOUS
    <3>2. [k EXCEPT !.at = "failed"].cam = k.cam /\ [k EXCEPT !.at = "failed"].from = k.from
      OBVIOUS
    <3> QED
      BY <1>3, <3>1, <3>2 DEF RunMotionRecording
  <2>2. UNCHANGED <<alarmsNow, telling, lastRecord, motionRecordLast, heard, recorded, savedAlarms>>
        /\ (alarmFaults' = alarmFaults \/ alarmFaults' = alarmFaults + 1)
    BY <1>3 DEF RunMotionRecording, AlarmFault, watchVars
  <2> QED
    BY <1>1, <2>1, <2>2
<1>4. ASSUME NEW c, Subscribe(c) \/ Pull(c) \/ LeaveLoop(c) \/ \E t : Raise(c, t) PROVE AlarmsInv'
  BY <1>1, <1>4 DEF Subscribe, Pull, LeaveLoop, Raise, AlarmFault, eventVars
<1>5. ASSUME \/ SendAlert \/ sendWebhook \/ sendEmail \/ sendSMS
             \/ UpdateAlertConfig \/ StopAlerts \/ LeaveProcessLoop \/ StopEvents
             \/ \E g : UpdateAlert(g) \/ \E a : AcknowledgeAlert(g, a) \/ ResolveAlert(g, a)
             \/ \E a : DeleteAlert(a)
             \/ ClearAlerts \/ SecondGoes
      PROVE AlarmsInv'
  BY <1>1, <1>5 DEF SendAlert, sendWebhook, sendEmail, sendSMS, ChannelReturns, UpdateAlertConfig,
     StopAlerts, LeaveProcessLoop, StopEvents, UpdateAlert, AcknowledgeAlert, ResolveAlert, ReadAlert,
     DeleteAlert, ClearAlerts, Remove, SecondGoes, AlertDeed, eventVars, watchVars
<1>6. CASE UNCHANGED alarmVars
  BY <1>1, <1>6 DEF alarmVars, eventVars, watchVars
<1> QED
  BY <1>2, <1>3, <1>4, <1>5, <1>6, <1>7 DEF AlarmsNext

\* Every step keeps the table: a row that was deleted stays deleted.
LEMMA TableStep == TableInv /\ AlarmsInv /\ [AlarmsNext]_alarmVars => TableInv'
<1> SUFFICES ASSUME TableInv, AlarmsInv, [AlarmsNext]_alarmVars PROVE TableInv'
  OBVIOUS
<1> USE DEF TableInv, TableTypes
<1>1. ASSUME alerts' \in Seq(AlertRow), cleared' \subseteq 1..Len(alerts'),
             \A a \in cleared' : alerts'[a].status = "gone",
             doing' = doing \/ \E g \in Guard : doing' = [doing EXCEPT ![g] = Nothing]
      PROVE  TableInv'
  BY <1>1 DEF ClearedStaysCleared
<1>2. ASSUME UNCHANGED <<alerts, cleared>>,
             doing' = doing \/ \E g \in Guard : doing' = [doing EXCEPT ![g] = Nothing]
      PROVE  TableInv'
  BY <1>2 DEF ClearedStaysCleared
<1>3. ASSUME NEW c \in Cam, SaveAlert(c), telling[c] # NoAlarm => telling[c].topic \in Topic PROVE TableInv'
  <2>1. cleared' = cleared /\ doing' = doing
    BY <1>3 DEF SaveAlert
  <2>2. CASE alerts' = alerts
    BY <1>2, <2>1, <2>2
  <2>3. CASE alerts' = Append(alerts, [cam |-> c, topic |-> telling[c].topic, status |-> "new"])
    <3>1. [cam |-> c, topic |-> telling[c].topic, status |-> "new"] \in AlertRow
      BY <1>3 DEF AlertRow, SaveAlert
    <3>2. alerts' \in Seq(AlertRow) /\ Len(alerts') = Len(alerts) + 1 /\ \A a \in 1..Len(alerts) : alerts'[a] = alerts[a]
      BY <2>3, <3>1
    <3>3. Len(alerts) \in Nat
      OBVIOUS
    <3> QED
      BY <1>1, <2>1, <3>2, <3>3 DEF ClearedStaysCleared
  <2> QED
    BY <1>3, <2>2, <2>3 DEF SaveAlert
<1>4. ASSUME NEW g \in Guard, UpdateAlert(g) PROVE TableInv'
  <2>1. cleared' = cleared /\ doing' = [doing EXCEPT ![g] = Nothing]
    BY <1>4 DEF UpdateAlert
  <2>2. CASE ~AlertThere(doing[g].alert)
    BY <1>2, <1>4, <2>1, <2>2 DEF UpdateAlert
  <2>3. CASE AlertThere(doing[g].alert)
    <3>1. PICK b \in 1..Len(alerts) : b = doing[g].alert /\ alerts[b].status # "gone"
      BY <2>3 DEF AlertThere
    <3>2. PICK to \in {"acknowledged", "resolved"} : to = doing[g].to
      <4>1. doing[g] # Nothing
        BY <1>4 DEF UpdateAlert
      <4> QED
        BY <4>1
    <3>3. alerts' = [alerts EXCEPT ![b].status = to]
      BY <1>4, <2>3, <3>1, <3>2 DEF UpdateAlert
    <3>4. b \notin cleared
      BY <3>1 DEF ClearedStaysCleared
    <3>5. alerts[b] \in AlertRow /\ [alerts[b] EXCEPT !.status = to] \in AlertRow
      <4>1. PICK row \in AlertRow : row = alerts[b]
        BY <3>1
      <4>2. [row EXCEPT !.status = to] \in AlertRow
        BY <3>2 DEF AlertRow
      <4> QED
        BY <4>1, <4>2
    <3>6. alerts' = [alerts EXCEPT ![b] = [alerts[b] EXCEPT !.status = to]]
      BY <3>3
    <3>7. alerts' \in Seq(AlertRow) /\ Len(alerts') = Len(alerts) /\ \A a \in 1..Len(alerts) : a # b => alerts'[a] = alerts[a]
      BY <3>5, <3>6
    <3> QED
      BY <1>1, <2>1, <3>4, <3>7 DEF ClearedStaysCleared
  <2> QED
    BY <2>2, <2>3
<1>5. ASSUME NEW A, A \subseteq 1..Len(alerts), Remove(A) PROVE TableInv'
  <2>1. doing' = doing /\ cleared' = cleared \cup A /\ alerts' = [a \in DOMAIN alerts |-> IF a \in A THEN [alerts[a] EXCEPT !.status = "gone"] ELSE alerts[a]]
    BY <1>5 DEF Remove
  <2>2. DOMAIN alerts = 1..Len(alerts) /\ Len(alerts) \in Nat
    OBVIOUS
  <2>3. \A a \in 1..Len(alerts) : alerts'[a] \in AlertRow /\ (a \in A => alerts'[a].status = "gone") /\ (a \notin A => alerts'[a] = alerts[a])
    <3>1. ASSUME NEW a \in 1..Len(alerts)
          PROVE  alerts'[a] \in AlertRow /\ (a \in A => alerts'[a].status = "gone") /\ (a \notin A => alerts'[a] = alerts[a])
      <4>1. PICK row \in AlertRow : row = alerts[a]
        OBVIOUS
      <4>2. [row EXCEPT !.status = "gone"] \in AlertRow /\ [row EXCEPT !.status = "gone"].status = "gone"
        BY DEF AlertRow
      <4>3. alerts'[a] = IF a \in A THEN [row EXCEPT !.status = "gone"] ELSE row
        BY <2>1, <2>2, <4>1
      <4> QED
        BY <4>1, <4>2, <4>3
    <3> QED
      BY <3>1
  <2>4. alerts' \in [1..Len(alerts) -> AlertRow]
    BY <2>1, <2>2, <2>3
  <2>5. alerts' \in Seq(AlertRow) /\ Len(alerts') = Len(alerts)
    BY <2>2, <2>4
  <2> QED
    BY <1>1, <1>5, <2>1, <2>2, <2>3, <2>5 DEF ClearedStaysCleared
<1>6. ASSUME NEW a \in 1..Len(alerts), DeleteAlert(a) PROVE TableInv'
  BY <1>5, <1>6 DEF DeleteAlert
<1>7. ASSUME ClearAlerts PROVE TableInv'
  BY <1>5, <1>7 DEF ClearAlerts
<1>8. ASSUME NEW g \in Guard, NEW a \in 1..Len(alerts), AcknowledgeAlert(g, a) \/ ResolveAlert(g, a) PROVE TableInv'
  <2>1. UNCHANGED <<alerts, cleared>> /\ a \in Nat
    BY <1>8 DEF AcknowledgeAlert, ResolveAlert, ReadAlert
  <2>2. PICK to \in {"acknowledged", "resolved"} : doing' = [doing EXCEPT ![g] = [alert |-> a, to |-> to]]
    BY <1>8 DEF AcknowledgeAlert, ResolveAlert, ReadAlert
  <2> QED
    BY <2>1, <2>2 DEF ClearedStaysCleared
<1>9. ASSUME NEW c, Subscribe(c) \/ Pull(c) \/ LeaveLoop(c) \/ TellAlert(c) \/ \E t : Raise(c, t) \/ HandleEvent(c, t)
      PROVE  TableInv'
  BY <1>2, <1>9 DEF Subscribe, Pull, LeaveLoop, TellAlert, Raise, HandleEvent, tableVars
<1>10. ASSUME \/ SendAlert \/ sendWebhook \/ sendEmail \/ sendSMS
             \/ UpdateAlertConfig \/ StopAlerts \/ LeaveProcessLoop \/ StopEvents
             \/ \E k : RunMotionRecording(k)
             \/ SecondGoes \/ UNCHANGED alarmVars
      PROVE  TableInv'
  BY <1>2, <1>10 DEF SendAlert, sendWebhook, sendEmail, sendSMS, ChannelReturns, UpdateAlertConfig,
     StopAlerts, LeaveProcessLoop, StopEvents,
     RunMotionRecording, SecondGoes, tableVars, alarmVars
<1>11. \A c \in Cam : telling[c] # NoAlarm => telling[c].topic \in Topic
  <2>1. ASSUME NEW c \in Cam, telling[c] # NoAlarm PROVE telling[c].topic \in Topic
    <3>1. [cam |-> c, topic |-> telling[c].topic, at |-> telling[c].at] \in Alarm
      BY <2>1 DEF AlarmsInv, AlarmTypes, Underway
    <3> QED
      BY <3>1 DEF Alarm
  <2> QED
    BY <2>1
<1> QED
  BY <1>3, <1>4, <1>6, <1>7, <1>8, <1>9, <1>10, <1>11 DEF AlarmsNext

\* Alarms are told, filmed and cleared as they should be, in every behaviour.
LEMMA AlarmsAlone == AlarmsSpec => []AlertsHold
<1>1. AlarmsInit => AlarmsInv
  <2> SUFFICES ASSUME AlarmsInit PROVE AlarmsInv
    OBVIOUS
  <2>1. AlarmTypes /\ LastOnes /\ EachHeardIsRecorded /\ MotionFilmed /\ Underway
    BY FS_EmptySet DEF AlarmsInit, NoAlarm, AlarmTypes, LastOnes, EachHeardIsRecorded, MotionFilmed, Underway
  <2>2. FewUnsaved
    <3>1. Lost = {} /\ alarmFaults = 0
      BY DEF AlarmsInit, Lost
    <3> QED
      BY <3>1, FS_EmptySet DEF FewUnsaved
  <2> QED
    BY <2>1, <2>2 DEF AlarmsInv
<1>2. AlarmsInit => TableInv
  BY DEF AlarmsInit, TableInv, Nothing, TableTypes, ClearedStaysCleared
<1>3. AlarmsInv /\ TableInv => AlertsHold
  BY DEF AlarmsInv, TableInv, AlertsHold, AlarmsTold, EachHeardIsRecorded, FewUnsaved, Lost
<1> QED
  BY <1>1, <1>2, <1>3, AlarmsStep, TableStep, PTL DEF AlarmsSpec

-----------------------------------------------------------------------------
\* For any cameras, channels and times, any handlers and requests: what svc-vision
\* is told by a camera and by its console is neither lost nor doubled in silence.
THEOREM VisionIsKept == AlarmsSpec /\ SettingsSpec => []VisionHolds
  BY AlarmsAlone, SettingsAlone, PTL DEF VisionHolds

-----------------------------------------------------------------------------
\* The pages of a list, newest first (RepoSync, Rank and PageOf).

\* The k newest of S.
Top(k, S) == { z \in S : Rank(z, S) < k }

\* A rank is a number.
LEMMA RankType ==
  ASSUME NEW S \in SUBSET Nat, IsFiniteSet(S), NEW x
  PROVE  Rank(x, S) \in Nat /\ IsFiniteSet({ y \in S : y > x })
<1>1. IsFiniteSet({ y \in S : y > x })
  BY FS_Subset
<1> QED
  BY <1>1, FS_CardinalityType DEF Rank

\* Newer elements have smaller ranks.
LEMMA RankLess ==
  ASSUME NEW S \in SUBSET Nat, IsFiniteSet(S), NEW x \in S, NEW n \in S, n > x
  PROVE  Rank(n, S) < Rank(x, S)
<1>1. PICK A, B : A = { y \in S : y > n } /\ B = { y \in S : y > x }
  OBVIOUS
<1>2. IsFiniteSet(A) /\ IsFiniteSet(B) /\ Cardinality(A) \in Nat /\ Cardinality(B) \in Nat
  BY <1>1, RankType DEF Rank
<1>3. A \cup {n} \subseteq B /\ n \notin A
  <2>1. n \in Nat /\ x \in Nat /\ \A z \in S : z \in Nat
    OBVIOUS
  <2>2. n \notin A /\ n \in B
    BY <1>1, <2>1
  <2>3. \A z \in A : z \in B
    BY <1>1, <2>1
  <2> QED
    BY <2>2, <2>3
<1>4. Cardinality(A \cup {n}) = Cardinality(A) + 1 /\ Cardinality(A \cup {n}) <= Cardinality(B)
  BY <1>2, <1>3, FS_AddElement, FS_Subset
<1> QED
  BY <1>1, <1>2, <1>4 DEF Rank

\* More elements make no rank smaller.
LEMMA RankGrows ==
  ASSUME NEW S \in SUBSET Nat, NEW T \in SUBSET Nat, IsFiniteSet(T), S \subseteq T, NEW x
  PROVE  IsFiniteSet(S) /\ Rank(x, S) \in Nat /\ Rank(x, T) \in Nat /\ Rank(x, S) <= Rank(x, T)
<1>1. IsFiniteSet(S)
  BY FS_Subset
<1>2. { y \in S : y > x } \subseteq { y \in T : y > x }
  OBVIOUS
<1> QED
  BY <1>1, <1>2, RankType, FS_Subset DEF Rank

\* A finite set of naturals that is not empty has a greatest element.
LEMMA GreatestNatural ==
  ASSUME NEW S \in SUBSET Nat, IsFiniteSet(S), S # {}
  PROVE  \E m \in S : \A n \in S : n <= m
<1>1. PICK R : R = { Rank(x, S) : x \in S }
  OBVIOUS
<1>2. R \in SUBSET Nat /\ R # {}
  BY <1>1, RankType
<1>3. PICK r \in R : \A q \in R : r <= q
  BY <1>2, LeastNatural
<1>4. PICK m \in S : r = Rank(m, S)
  BY <1>1
<1>5. ASSUME NEW n \in S, ~(n <= m) PROVE FALSE
  <2>1. Rank(n, S) < Rank(m, S)
    BY <1>5, RankLess
  <2>2. Rank(n, S) \in R /\ Rank(n, S) \in Nat /\ Rank(m, S) \in Nat
    BY <1>1, RankType
  <2> QED
    BY <1>3, <1>4, <2>1, <2>2
<1> QED
  BY <1>5

\* One more of the newest is one element more.
LEMMA TopOneMore ==
  ASSUME NEW S \in SUBSET Nat, IsFiniteSet(S), NEW k \in Nat, k < Cardinality(S), Cardinality(Top(k, S)) = k
  PROVE  Cardinality(Top(k + 1, S)) = k + 1
<1>1. PICK T : T = Top(k, S)
  OBVIOUS
<1>2. T \subseteq S /\ IsFiniteSet(T) /\ Cardinality(T) = k
  BY <1>1, FS_Subset DEF Top
<1>3. S \ T # {} /\ IsFiniteSet(S \ T)
  <2>1. T # S
    BY <1>2
  <2> QED
    BY <1>2, <2>1, FS_Subset
<1>4. PICK m \in S \ T : \A n \in S \ T : n <= m
  BY <1>3, GreatestNatural
<1>5. \A z \in S : Rank(z, S) \in Nat
  BY RankType
<1>6. { y \in S : y > m } = T
  <2>1. ASSUME NEW z \in S, z > m PROVE z \in T
    BY <1>4, <2>1
  <2>2. ASSUME NEW z \in T PROVE z > m
    <3>1. Rank(z, S) < k /\ ~(Rank(m, S) < k) /\ z \in S
      BY <1>1, <1>4 DEF Top
    <3>2. CASE m > z
      BY <1>1, <1>4, <1>5, <3>1, <3>2, RankLess
    <3>3. CASE m = z
      BY <3>1, <3>3
    <3> QED
      BY <3>1, <3>2, <3>3
  <2> QED
    BY <1>2, <2>1, <2>2
<1>7. Rank(m, S) = k
  BY <1>2, <1>6 DEF Rank
<1>8. Top(k + 1, S) = T \cup {m}
  <2>1. ASSUME NEW z \in S, Rank(z, S) < k + 1 PROVE z \in T \cup {m}
    <3>1. CASE z \in T \/ z = m
      BY <3>1
    <3>2. CASE z \notin T /\ z # m
      <4>1. m > z
        BY <1>4, <3>2
      <4>2. Rank(m, S) < Rank(z, S)
        BY <1>4, <4>1, RankLess
      <4> QED
        BY <1>5, <1>7, <2>1, <4>2
    <3> QED
      BY <3>1, <3>2
  <2>2. ASSUME NEW z \in T \cup {m} PROVE z \in S /\ Rank(z, S) < k + 1
    <3>1. CASE z \in T
      <4>1. z \in S /\ Rank(z, S) < k
        BY <1>1, <3>1 DEF Top
      <4> QED
        BY <1>5, <4>1
    <3>2. CASE z = m
      BY <1>4, <1>7, <3>2
    <3> QED
      BY <3>1, <3>2
  <2> QED
    BY <2>1, <2>2 DEF Top
<1> QED
  BY <1>2, <1>4, <1>8, FS_AddElement

\* The k newest are k.
LEMMA TopCount ==
  ASSUME NEW S \in SUBSET Nat, IsFiniteSet(S), NEW k \in Nat, k <= Cardinality(S)
  PROVE  Cardinality(Top(k, S)) = k
<1>1. PICK W : W = { n \in Nat : n <= Cardinality(S) /\ Cardinality(Top(n, S)) # n }
  OBVIOUS
<1>2. Cardinality(S) \in Nat
  BY FS_CardinalityType
<1>3. CASE W = {}
  BY <1>1, <1>3
<1>4. CASE W # {}
  <2>1. PICK n \in W : \A j \in W : n <= j
    BY <1>1, <1>4, LeastNatural
  <2>2. n \in Nat /\ n <= Cardinality(S) /\ Cardinality(Top(n, S)) # n
    BY <1>1, <2>1
  <2>3. n # 0
    <3>1. Top(0, S) = {}
      <4>1. ASSUME NEW z \in Top(0, S) PROVE FALSE
        <5>1. Rank(z, S) \in Nat /\ Rank(z, S) < 0
          BY <4>1, RankType DEF Top
        <5> QED
          BY <5>1
      <4> QED
        BY <4>1
    <3> QED
      BY <2>2, <3>1, FS_EmptySet
  <2>4. n - 1 \in Nat /\ n - 1 < Cardinality(S) /\ (n - 1) + 1 = n
    BY <1>2, <2>2, <2>3
  <2>5. Cardinality(Top(n - 1, S)) = n - 1
    <3>1. n - 1 \notin W
      BY <2>1, <2>2, <2>4
    <3> QED
      BY <1>1, <1>2, <2>4, <3>1
  <2>6. Cardinality(Top(n, S)) = n
    BY <2>4, <2>5, TopOneMore
  <2> QED
    BY <2>2, <2>6
<1> QED
  BY <1>3, <1>4

\* A page more is PageSize places more.
LEMMA PageStep ==
  ASSUME NEW p \in Nat \ {0}
  PROVE  /\ PageSize \in Nat /\ PageSize # 0
         /\ (p - 1) * PageSize \in Nat /\ p * PageSize \in Nat
         /\ p * PageSize = (p - 1) * PageSize + PageSize
<1>1. PageSize \in Nat /\ PageSize # 0
  BY SyncAssumption
<1>2. PICK q \in Nat : q = p - 1 /\ p = q + 1
  OBVIOUS
<1>3. q * PageSize \in Nat /\ (q + 1) * PageSize = q * PageSize + PageSize
  BY <1>1
<1>4. q * PageSize + PageSize \in Nat
  BY <1>1, <1>3
<1> QED
  BY <1>1, <1>2, <1>3, <1>4

\* A page that something comes after is full.
LEMMA PagesAreFull ==
  ASSUME NEW S \in SUBSET Nat, IsFiniteSet(S), NEW p \in Nat \ {0}, NEW x \in S, Rank(x, S) >= p * PageSize
  PROVE  Cardinality(PageOf(S, p)) = PageSize
<1>1. PICK lo \in Nat, hi \in Nat : lo = (p - 1) * PageSize /\ hi = p * PageSize /\ hi = lo + PageSize
  BY PageStep
<1>0. PageSize \in Nat /\ lo <= hi /\ Rank(x, S) >= hi
  BY <1>1, PageStep
<1>2. hi < Cardinality(S) /\ Cardinality(S) \in Nat
  <2>1. { y \in S : y > x } \cup {x} \subseteq S /\ x \notin { y \in S : y > x }
    OBVIOUS
  <2>2. Cardinality({ y \in S : y > x } \cup {x}) = Cardinality({ y \in S : y > x }) + 1
    <3>1. IsFiniteSet({ y \in S : y > x })
      BY RankType
    <3> QED
      BY <2>1, <3>1, FS_AddElement
  <2>3. Cardinality({ y \in S : y > x } \cup {x}) <= Cardinality(S) /\ Cardinality(S) \in Nat
    BY <2>1, FS_Subset, FS_CardinalityType
  <2>4. Rank(x, S) + 1 <= Cardinality(S)
    BY <2>2, <2>3 DEF Rank
  <2> QED
    <3>1. Rank(x, S) \in Nat
      BY RankType
    <3> QED
      BY <1>0, <2>3, <2>4, <3>1
<1>3. Cardinality(Top(lo, S)) = lo /\ Cardinality(Top(hi, S)) = hi
  BY <1>0, <1>2, TopCount
<1>4. Top(lo, S) \subseteq Top(hi, S) /\ IsFiniteSet(Top(hi, S))
  <2>1. Top(hi, S) \subseteq S
    BY DEF Top
  <2>2. \A z \in S : Rank(z, S) \in Nat
    BY RankType
  <2>3. ASSUME NEW z \in Top(lo, S) PROVE z \in Top(hi, S)
    <3>1. z \in S /\ Rank(z, S) \in Nat /\ Rank(z, S) < lo
      BY <2>2, <2>3 DEF Top
    <3>2. Rank(z, S) < hi
      BY <1>0, <3>1
    <3> QED
      BY <3>1, <3>2 DEF Top
  <2> QED
    BY <2>1, <2>3, FS_Subset
<1>5. PageOf(S, p) = Top(hi, S) \ Top(lo, S)
  <2>1. \A z \in S : Rank(z, S) \in Nat
    BY RankType
  <2>2. ASSUME NEW z \in PageOf(S, p) PROVE z \in Top(hi, S) \ Top(lo, S)
    <3>1. z \in S /\ Rank(z, S) \in Nat /\ Rank(z, S) >= lo /\ Rank(z, S) < hi
      BY <1>1, <2>1, <2>2 DEF PageOf
    <3>2. ~(Rank(z, S) < lo)
      BY <3>1
    <3> QED
      BY <3>1, <3>2 DEF Top
  <2>3. ASSUME NEW z \in Top(hi, S) \ Top(lo, S) PROVE z \in PageOf(S, p)
    <3>1. z \in S /\ Rank(z, S) \in Nat /\ ~(Rank(z, S) < lo) /\ Rank(z, S) < hi
      BY <2>1, <2>3 DEF Top
    <3>2. Rank(z, S) >= lo
      BY <3>1
    <3> QED
      BY <1>1, <3>1, <3>2 DEF PageOf
  <2> QED
    BY <2>2, <2>3
<1>6. Cardinality(Top(hi, S) \ Top(lo, S)) = Cardinality(Top(hi, S)) - Cardinality(Top(hi, S) \cap Top(lo, S))
  BY <1>4, FS_Difference
<1>7. Top(hi, S) \cap Top(lo, S) = Top(lo, S)
  BY <1>4
<1> QED
  <2>1. Cardinality(PageOf(S, p)) = hi - lo
    BY <1>3, <1>5, <1>6, <1>7
  <2> QED
    BY <1>0, <1>1, <2>1

-----------------------------------------------------------------------------
\* The fetching of commits (RepoSync).

\* A commit is stored, or may stay unfetched.
Covered == commits \cup excused

\* Nothing of a branch is missing from before a date, and nothing pushed later
\* will be: the date is old by the overlap when the newest commit of it is.
Fetched(b, since) ==
    /\ since \in Nat
    /\ since = 0 \/ since + Overlap \in PushedTo
    /\ \A x \in remote[b] : x < since => x \in Covered

RowOfRepo == [at : {"there"}, branch : Branch \cup {""}, default : {"", DefaultBranch}, mark : Nat, enabled : BOOLEAN]
Working == {"listing", "page"}

LeftOf(s) == IF s.at = "page" THEN s.left ELSE {}
\* Pages of a sync that are listed.
Listed(s) == IF s.at = "page" THEN s.page ELSE s.page - 1
\* The next page is still to come.
More(s) == s.at = "page" => s.full

LoadedCall  == [at : {"loaded"}, repo : RowOfRepo]
ListingCall == [at : {"listing"}, branch : Branch, since : Nat, page : Nat \ {0}, pages : Nat \ {0}]
PageCall    == [at : {"page"}, branch : Branch, since : Nat, page : Nat \ {0}, pages : Nat \ {0},
                left : SUBSET PushedTo, full : BOOLEAN]

\* The state of a call of syncRepo.
SyncState(s) == s = IdleSync \/ s \in LoadedCall \/ (s \in ListingCall \cup PageCall /\ s.page <= s.pages)

SyncTypes ==
    /\ repo = Gone \/ repo \in RowOfRepo
    /\ remote \in [Branch -> SUBSET Commit]
    /\ commits \subseteq PushedTo
    /\ DOMAIN sync = Caller
    /\ sync = [c \in Caller |-> sync[c]]
    /\ \A c \in Caller : SyncState(sync[c])

OneSync == \A c, d \in Caller : sync[c].at \in Working /\ sync[d].at \in Working => c = d

RepoFetched == repo # Gone => Fetched(Effective(repo), Since(repo))

RowsFetched == \A c \in Caller : sync[c].at = "loaded" =>
    repo # Gone /\ Fetched(Effective(sync[c].repo), Since(sync[c].repo))

WorkFetched == \A c \in Caller : sync[c].at \in Working => repo # Gone /\ Fetched(sync[c].branch, sync[c].since)

\* What is newer than the overlap leaves nothing behind on the listed pages.
PageHolds(s) ==
    \A x \in Wanted(s) : \A y \in commits \cup LeftOf(s) :
        x + Overlap < y =>
            \/ x \in Covered \cup LeftOf(s)
            \/ More(s) /\ Rank(x, Wanted(s)) >= Listed(s) * PageSize

PagesHold == \A c \in Caller : sync[c].at \in Working => PageHolds(sync[c])

SyncInv == SyncTypes /\ OneSync /\ RepoFetched /\ RowsFetched /\ WorkFetched /\ PagesHold

\* Commits are dates: what is pushed is a finite set of naturals.
LEMMA PushedAreDates ==
  ASSUME remote \in [Branch -> SUBSET Commit]
  PROVE  /\ PushedTo \subseteq Commit /\ IsFiniteSet(PushedTo)
         /\ \A b \in Branch : remote[b] \subseteq PushedTo /\ remote[b] \subseteq Nat /\ IsFiniteSet(remote[b])
         /\ \A x \in PushedTo : x \in Nat /\ x # 0
<1>1. PushedTo \subseteq Commit
  BY DEF PushedTo
<1>2. IsFiniteSet(PushedTo)
  BY <1>1, SyncAssumption, FS_Subset
<1>3. \A b \in Branch : remote[b] \subseteq PushedTo
  BY DEF PushedTo
<1>4. \A b \in Branch : IsFiniteSet(remote[b])
  BY <1>2, <1>3, FS_Subset
<1>5. \A x \in PushedTo : x \in Nat /\ x # 0
  BY <1>1, SyncAssumption
<1> QED
  BY <1>1, <1>2, <1>3, <1>4, <1>5

\* The newest of a set of dates, or zero.
LEMMA NewestIs ==
  ASSUME NEW S \in SUBSET Nat, IsFiniteSet(S)
  PROVE  /\ Newest(S) \in S \cup {0} /\ Newest(S) \in Nat
         /\ \A y \in S : y <= Newest(S)
<1>1. \E x \in S \cup {0} : \A y \in S : y <= x
  <2>1. CASE S = {}
    BY <2>1
  <2>2. CASE S # {}
    BY <2>2, GreatestNatural
  <2> QED
    BY <2>1, <2>2
<1>2. Newest(S) \in S \cup {0} /\ \A y \in S : y <= Newest(S)
  BY <1>1 DEF Newest
<1>3. S \cup {0} \subseteq Nat
  OBVIOUS
<1> QED
  BY <1>2, <1>3

\* The branch of a row is a branch, its date to fetch from a date.
LEMMA RowIs ==
  ASSUME NEW r \in RowOfRepo
  PROVE  /\ r # Gone /\ Effective(r) \in Branch /\ Since(r) \in Nat /\ r.mark \in Nat
         /\ r.mark = 0 => Since(r) = 0
         /\ Since(r) # 0 => Since(r) + Overlap = r.mark
<1>1. r.at = "there" /\ r.mark \in Nat /\ r.branch \in Branch \cup {""} /\ r.default \in {"", DefaultBranch}
  BY DEF RowOfRepo
<1>2. r # Gone
  <2>1. Gone.at = "gone"
    BY DEF Gone
  <2> QED
    BY <1>1, <2>1
<1>3. Effective(r) \in Branch
  BY <1>1, SyncAssumption DEF Effective
<1>4. PICK m \in Nat, o \in Nat : m = r.mark /\ o = Overlap
  BY <1>1, SyncAssumption
<1>5. Since(r) = IF m > o THEN m - o ELSE 0
  BY <1>4 DEF Since
<1>6. Since(r) \in Nat /\ (m = 0 => Since(r) = 0) /\ (Since(r) # 0 => Since(r) + o = m)
  BY <1>5
<1> QED
  BY <1>1, <1>2, <1>3, <1>4, <1>6

\* From the beginning of time on, nothing is missing.
LEMMA FetchedFromZero ==
  ASSUME remote \in [Branch -> SUBSET Commit], NEW b \in Branch
  PROVE  Fetched(b, 0)
<1>1. \A x \in remote[b] : x \in Nat
  BY PushedAreDates
<1>2. \A x \in remote[b] : ~(x < 0)
  BY <1>1
<1> QED
  BY <1>2 DEF Fetched

\* The kinds of state of a call differ.
LEMMA SyncStates ==
  ASSUME NEW s, SyncState(s)
  PROVE  /\ s.at \in {"idle", "loaded", "listing", "page"}
         /\ s = IdleSync <=> s.at = "idle"
         /\ s.at = "loaded" <=> s \in LoadedCall
         /\ s.at = "loaded" => s.repo \in RowOfRepo
         /\ s.at = "listing" => s \in ListingCall
         /\ s.at = "page" => s \in PageCall /\ s.left \subseteq PushedTo /\ s.full \in BOOLEAN
         /\ s.at \in Working => /\ s.branch \in Branch /\ s.since \in Nat
                                /\ s.page \in Nat \ {0} /\ s.pages \in Nat \ {0} /\ s.page <= s.pages
<1>1. CASE s = IdleSync
  <2>1. s.at = "idle"
    BY <1>1 DEF IdleSync
  <2> QED
    BY <1>1, <2>1 DEF LoadedCall, Working
<1>2. CASE s \in LoadedCall
  <2>1. s.at = "loaded" /\ s.repo \in RowOfRepo
    BY <1>2 DEF LoadedCall
  <2>2. s # IdleSync
    BY <2>1 DEF IdleSync
  <2> QED
    BY <1>2, <2>1, <2>2 DEF Working
<1>3. CASE s \in ListingCall /\ s.page <= s.pages
  <2>1. /\ s.at = "listing" /\ s.branch \in Branch /\ s.since \in Nat
        /\ s.page \in Nat \ {0} /\ s.pages \in Nat \ {0}
    BY <1>3 DEF ListingCall
  <2>2. s # IdleSync /\ s \notin LoadedCall
    BY <2>1 DEF IdleSync, LoadedCall
  <2> QED
    BY <1>3, <2>1, <2>2 DEF Working
<1>4. CASE s \in PageCall /\ s.page <= s.pages
  <2>1. /\ s.at = "page" /\ s.branch \in Branch /\ s.since \in Nat
        /\ s.page \in Nat \ {0} /\ s.pages \in Nat \ {0} /\ s.left \subseteq PushedTo /\ s.full \in BOOLEAN
    BY <1>4 DEF PageCall
  <2>2. s # IdleSync /\ s \notin LoadedCall
    BY <2>1 DEF IdleSync, LoadedCall
  <2> QED
    BY <1>4, <2>1, <2>2 DEF Working
<1> QED
  BY <1>1, <1>2, <1>3, <1>4 DEF SyncState

\* Initially nothing is pushed.
LEMMA SyncInvInit == SyncInit => SyncInv
<1> SUFFICES ASSUME SyncInit PROVE SyncInv
  OBVIOUS
<1>1. PICK b \in Branch \cup {""} : repo = NewRepo(b)
  BY DEF SyncInit
<1>2. repo \in RowOfRepo /\ repo.mark = 0
  BY <1>1 DEF NewRepo, RowOfRepo
<1>3. remote \in [Branch -> SUBSET Commit]
  BY DEF SyncInit
<1>4. \A c \in Caller : sync[c] = IdleSync /\ sync[c].at = "idle"
  BY DEF SyncInit, IdleSync
<1>5. SyncTypes
  BY <1>2, <1>3, <1>4 DEF SyncInit, SyncTypes, SyncState
<1>6. RepoFetched
  BY <1>2, <1>3, RowIs, FetchedFromZero DEF RepoFetched
<1> QED
  BY <1>4, <1>5, <1>6 DEF SyncInv, OneSync, RowsFetched, WorkFetched, PagesHold, Working

\* What is pushed stays pushed, and what is stored or excused stays so until
\* the repository is deleted.
LEMMA StepsGrow ==
  ASSUME SyncTypes, SyncNext
  PROVE  /\ remote' \in [Branch -> SUBSET Commit]
         /\ \A b \in Branch : remote[b] \subseteq remote'[b]
         /\ PushedTo \subseteq PushedTo'
         /\ excused \subseteq excused'
         /\ ~DeleteRepo => commits \subseteq commits' /\ Covered \subseteq Covered'
<1>1. CASE \E b \in Branch, x \in Commit : Push(b, x)
  <2>1. PICK b \in Branch, x \in Commit : Push(b, x)
    BY <1>1
  <2>2. remote' \in [Branch -> SUBSET Commit] /\ \A d \in Branch : remote[d] \subseteq remote'[d]
    BY <2>1 DEF Push, SyncTypes
  <2>3. commits' = commits /\ excused \subseteq excused'
    BY <2>1 DEF Push
  <2> QED
    BY <2>2, <2>3 DEF PushedTo, Covered
<1>2. CASE ~\E b \in Branch, x \in Commit : Push(b, x)
  <2>1. remote' = remote
    BY <1>2 DEF SyncNext, Load, Begin, CallFails, ListPage, Item, NextPage, Finish, SwitchBranch, CreateRepo,
                TogglePolling, DeleteRepo, GitCrash
  <2>2. excused \subseteq excused'
    BY <1>2 DEF SyncNext, Load, Begin, CallFails, ListPage, Item, NextPage, Finish, SwitchBranch, CreateRepo,
                TogglePolling, DeleteRepo, GitCrash, syncSeen
  <2>3. ~DeleteRepo => commits \subseteq commits'
    BY <1>2 DEF SyncNext, Load, Begin, CallFails, ListPage, Item, NextPage, Finish, SwitchBranch, CreateRepo,
                TogglePolling, GitCrash
  <2> QED
    BY <2>1, <2>2, <2>3 DEF SyncTypes, PushedTo, Covered
<1> QED
  BY <1>1, <1>2

\* What is fetched stays fetched: a commit pushed late is excused.
LEMMA StaysFetched ==
  ASSUME SyncTypes, SyncNext, ~DeleteRepo, NEW b \in Branch, NEW n, Fetched(b, n)
  PROVE  Fetched(b, n)'
<1>1. /\ PushedTo \subseteq PushedTo' /\ Covered \subseteq Covered'
  BY StepsGrow
<1>2. n \in Nat /\ (n = 0 \/ n + Overlap \in PushedTo)
  BY DEF Fetched
<1>3. ASSUME NEW z \in remote'[b], z < n, z \notin remote[b] PROVE z \in Covered'
  <2>1. PICK d \in Branch, x \in Commit : Push(d, x)
    BY <1>3 DEF SyncNext, Load, Begin, CallFails, ListPage, Item, NextPage, Finish, SwitchBranch, CreateRepo,
                TogglePolling, DeleteRepo, GitCrash
  <2>2. z = x
    BY <1>3, <2>1 DEF Push, SyncTypes
  <2>3. z \in Nat
    BY <2>2, SyncAssumption
  <2>4. PICK o \in Nat : o = Overlap
    BY SyncAssumption
  <2>5. n + Overlap \in PushedTo /\ z + Overlap < n + Overlap
    BY <1>2, <1>3, <2>3, <2>4
  <2>6. excused' = excused \cup {z}
    BY <2>1, <2>2, <2>5 DEF Push
  <2> QED
    BY <2>6 DEF Covered
<1>4. \A z \in remote'[b] : z < n => z \in Covered'
  BY <1>1, <1>3 DEF Fetched
<1> QED
  BY <1>1, <1>2, <1>4 DEF Fetched

\* A page is a part of what is wanted, and what is wanted was pushed.
LEMMA PageIsPushed ==
  ASSUME remote \in [Branch -> SUBSET Commit], NEW s, s.branch \in Branch, NEW p
  PROVE  /\ PageOf(Wanted(s), p) \subseteq Wanted(s)
         /\ Wanted(s) \subseteq PushedTo /\ Wanted(s) \subseteq Nat /\ IsFiniteSet(Wanted(s))
<1>1. PageOf(Wanted(s), p) \subseteq Wanted(s)
  BY DEF PageOf
<1>2. Wanted(s) \subseteq remote[s.branch]
  BY DEF Wanted
<1>3. remote[s.branch] \subseteq PushedTo /\ remote[s.branch] \subseteq Nat /\ IsFiniteSet(remote[s.branch])
  BY PushedAreDates
<1> QED
  BY <1>1, <1>2, <1>3, FS_Subset

\* A call that moves leaves the others where they are.
LEMMA OnlyOneMoves ==
  ASSUME DOMAIN sync = Caller, NEW c \in Caller, NEW v, sync' = [sync EXCEPT ![c] = v]
  PROVE  /\ DOMAIN sync' = Caller /\ sync' = [d \in Caller |-> sync'[d]]
         /\ sync'[c] = v /\ \A d \in Caller : d # c => sync'[d] = sync[d]
OBVIOUS

\* Where each step of syncRepo leaves the call.
LEMMA CallMoves ==
  ASSUME SyncTypes, NEW c \in Caller
  PROVE  /\ Load(c) => sync' = [sync EXCEPT ![c] = [at |-> "loaded", repo |-> repo]] /\ repo \in RowOfRepo
         /\ Begin(c) => \E v \in ListingCall :
               /\ sync[c] \in LoadedCall
               /\ sync' = [sync EXCEPT ![c] = v]
               /\ v.branch = Effective(sync[c].repo) /\ v.since = Since(sync[c].repo)
               /\ v.page = 1 /\ v.page <= v.pages
         /\ CallFails(c) \/ Finish(c) => sync' = [sync EXCEPT ![c] = IdleSync]
         /\ ListPage(c) => \E v \in PageCall :
               /\ sync' = [sync EXCEPT ![c] = v]
               /\ v.branch = sync[c].branch /\ v.since = sync[c].since
               /\ v.page = sync[c].page /\ v.pages = sync[c].pages
               /\ v.left = PageOf(Wanted(sync[c]), sync[c].page)
               /\ v.full = (Cardinality(v.left) = PageSize)
         /\ Item(c) => \E v \in PageCall : \E x \in sync[c].left :
               /\ sync' = [sync EXCEPT ![c] = v]
               /\ v.branch = sync[c].branch /\ v.since = sync[c].since
               /\ v.page = sync[c].page /\ v.pages = sync[c].pages
               /\ v.full = sync[c].full /\ v.left = sync[c].left \ {x}
               /\ commits \subseteq commits' /\ commits' \subseteq commits \cup {x} /\ x \in Covered'
         /\ NextPage(c) => \E v \in ListingCall :
               /\ sync' = [sync EXCEPT ![c] = v]
               /\ v.branch = sync[c].branch /\ v.since = sync[c].since
               /\ v.page = sync[c].page + 1 /\ v.pages = sync[c].pages /\ v.page <= v.pages
<1> DEFINE s == sync[c]
<1>1. SyncState(s)
  BY DEF SyncTypes
<1>2. remote \in [Branch -> SUBSET Commit]
  BY DEF SyncTypes
<1>3. Load(c) => sync' = [sync EXCEPT ![c] = [at |-> "loaded", repo |-> repo]] /\ repo \in RowOfRepo
  BY DEF Load, SyncTypes
<1>4. CallFails(c) \/ Finish(c) => sync' = [sync EXCEPT ![c] = IdleSync]
  BY DEF CallFails, Finish
<1>5. ASSUME Begin(c)
      PROVE  \E v \in ListingCall :
               /\ sync[c] \in LoadedCall
               /\ sync' = [sync EXCEPT ![c] = v]
               /\ v.branch = Effective(sync[c].repo) /\ v.since = Since(sync[c].repo)
               /\ v.page = 1 /\ v.page <= v.pages
  <2>1. sync[c] \in LoadedCall /\ sync[c].repo \in RowOfRepo
    BY <1>1, <1>5, SyncStates DEF Begin
  <2>2. Effective(sync[c].repo) \in Branch /\ Since(sync[c].repo) \in Nat
    BY <2>1, RowIs
  <2>3. PICK n \in Nat \ {0} : n = (IF sync[c].repo.mark = 0 THEN BackfillPages ELSE DeltaPages)
    BY SyncAssumption
  <2> DEFINE v == [at |-> "listing", branch |-> Effective(sync[c].repo), since |-> Since(sync[c].repo),
                   page |-> 1, pages |-> n]
  <2>4. sync' = [sync EXCEPT ![c] = v]
    BY <1>5, <2>3 DEF Begin
  <2>5. v \in ListingCall /\ v.page <= v.pages
    BY <2>2, <2>3 DEF ListingCall
  <2> QED
    BY <2>1, <2>4, <2>5
<1>6. ASSUME ListPage(c)
      PROVE  \E v \in PageCall :
               /\ sync' = [sync EXCEPT ![c] = v]
               /\ v.branch = sync[c].branch /\ v.since = sync[c].since
               /\ v.page = sync[c].page /\ v.pages = sync[c].pages
               /\ v.left = PageOf(Wanted(sync[c]), sync[c].page)
               /\ v.full = (Cardinality(v.left) = PageSize)
  <2>1. sync[c] \in ListingCall
    BY <1>1, <1>6, SyncStates DEF ListPage
  <2>2. sync[c].branch \in Branch
    BY <2>1 DEF ListingCall
  <2>3. PICK list \in SUBSET PushedTo : list = PageOf(Wanted(sync[c]), sync[c].page)
    BY <1>2, <2>2, PageIsPushed
  <2>4. PICK w \in BOOLEAN : w = (Cardinality(list) = PageSize)
    OBVIOUS
  <2> DEFINE v == [at |-> "page", branch |-> sync[c].branch, since |-> sync[c].since, page |-> sync[c].page,
                   pages |-> sync[c].pages, left |-> list, full |-> w]
  <2>5. sync' = [sync EXCEPT ![c] = v]
    BY <1>6, <2>3, <2>4 DEF ListPage, SyncTypes
  <2>6. v \in PageCall
    BY <2>1 DEF ListingCall, PageCall
  <2> QED
    BY <2>3, <2>4, <2>5, <2>6
<1>7. ASSUME Item(c)
      PROVE  \E v \in PageCall : \E x \in sync[c].left :
               /\ sync' = [sync EXCEPT ![c] = v]
               /\ v.branch = sync[c].branch /\ v.since = sync[c].since
               /\ v.page = sync[c].page /\ v.pages = sync[c].pages
               /\ v.full = sync[c].full /\ v.left = sync[c].left \ {x}
               /\ commits \subseteq commits' /\ commits' \subseteq commits \cup {x} /\ x \in Covered'
  <2>1. sync[c] \in PageCall
    BY <1>1, <1>7, SyncStates DEF Item
  <2>2. PICK r \in PageCall : r = sync[c]
    BY <2>1
  <2>3. IsFiniteSet(r.left) /\ r.left \subseteq Nat /\ r.left # {}
    <3>1. r.left \subseteq PushedTo
      BY <2>2 DEF PageCall
    <3> QED
      BY <1>2, <1>7, <2>2, <3>1, PushedAreDates, FS_Subset DEF Item
  <2>4. PICK x : x = Newest(r.left)
    OBVIOUS
  <2>5. x \in r.left
    <3>1. x \in r.left \cup {0} /\ \A y \in r.left : y <= x
      BY <2>3, <2>4, NewestIs
    <3>2. \A y \in r.left : y \in Nat /\ y # 0
      BY <1>2, <2>2, PushedAreDates DEF PageCall
    <3> QED
      BY <2>3, <3>1, <3>2
  <2> DEFINE v == [r EXCEPT !.left = @ \ {x}]
  <2>6. v \in PageCall /\ v.left = r.left \ {x} /\ v.branch = r.branch /\ v.since = r.since
        /\ v.page = r.page /\ v.pages = r.pages /\ v.full = r.full
    BY DEF PageCall
  <2>7. sync' = [sync EXCEPT ![c] = v]
    BY <1>7, <2>2, <2>4 DEF Item, SyncTypes
  <2>8. commits \subseteq commits' /\ commits' \subseteq commits \cup {x} /\ x \in Covered'
    BY <1>7, <2>2, <2>4 DEF Item, Covered
  <2> QED
    BY <2>2, <2>5, <2>6, <2>7, <2>8
<1>8. ASSUME NextPage(c)
      PROVE  \E v \in ListingCall :
               /\ sync' = [sync EXCEPT ![c] = v]
               /\ v.branch = sync[c].branch /\ v.since = sync[c].since
               /\ v.page = sync[c].page + 1 /\ v.pages = sync[c].pages /\ v.page <= v.pages
  <2>1. sync[c] \in PageCall
    BY <1>1, <1>8, SyncStates DEF NextPage
  <2>2. PICK r \in PageCall : r = sync[c]
    BY <2>1
  <2> DEFINE v == [at |-> "listing", branch |-> r.branch, since |-> r.since, page |-> r.page + 1, pages |-> r.pages]
  <2>3. sync' = [sync EXCEPT ![c] = v]
    BY <1>8, <2>2 DEF NextPage, SyncTypes
  <2>4. v \in ListingCall /\ v.page <= v.pages
    BY <1>8, <2>2 DEF PageCall, ListingCall, NextPage
  <2> QED
    BY <2>2, <2>3, <2>4
<1> QED
  BY <1>3, <1>4, <1>5, <1>6, <1>7, <1>8

\* Who moves: one caller, or all of them to the beginning, or nobody.
LEMMA WhoMoves ==
  ASSUME SyncTypes, SyncNext
  PROVE  \/ \E c \in Caller : Load(c) \/ Begin(c) \/ CallFails(c) \/ ListPage(c) \/ Item(c) \/ NextPage(c) \/ Finish(c)
         \/ sync' = [c \in Caller |-> IdleSync] /\ commits' \in {{}, commits}
         \/ /\ UNCHANGED <<sync, commits>>
            /\ \/ \E b \in Branch, x \in Commit : Push(b, x)
               \/ \E b \in Branch \cup {""} : SwitchBranch(b) \/ CreateRepo(b)
               \/ TogglePolling
BY DEF SyncNext, Push, SwitchBranch, CreateRepo, TogglePolling, DeleteRepo, GitCrash

\* A state of a call stays one when more is pushed.
LEMMA StateStays ==
  ASSUME PushedTo \subseteq PushedTo', NEW s, SyncState(s)
  PROVE  SyncState(s)'
<1>1. PageCall \subseteq PageCall'
  BY DEF PageCall
<1> QED
  BY <1>1 DEF SyncState

\* The row stays a row.
LEMMA RowStays ==
  ASSUME SyncTypes, SyncNext
  PROVE  repo' = Gone \/ repo' \in RowOfRepo
<1>1. CASE repo' = repo
  BY <1>1 DEF SyncTypes
<1>2. ASSUME NEW b \in Branch \cup {""}, CreateRepo(b) PROVE repo' \in RowOfRepo
  BY <1>2 DEF CreateRepo, NewRepo, RowOfRepo
<1>3. ASSUME NEW c \in Caller, Begin(c) \/ Finish(c) PROVE repo' = Gone \/ repo' \in RowOfRepo
  <2>1. CASE repo = Gone
    <3>1. PICK m, d : repo' \in {[repo EXCEPT !.mark = m], [repo EXCEPT !.default = d], repo}
      BY <1>3 DEF Begin, Finish
    <3>2. [repo EXCEPT !.mark = m] = Gone /\ [repo EXCEPT !.default = d] = Gone
      BY <2>1 DEF Gone
    <3> QED
      BY <2>1, <3>1, <3>2
  <2>2. CASE repo \in RowOfRepo
    <3>1. commits \subseteq Nat /\ IsFiniteSet(commits)
      BY PushedAreDates, FS_Subset DEF SyncTypes
    <3>2. PICK m \in Nat : m = Newest(commits)
      BY <3>1, NewestIs
    <3>3. PICK r \in RowOfRepo : r = repo
      BY <2>2
    <3>4. repo' \in {[r EXCEPT !.mark = m], [r EXCEPT !.default = DefaultBranch], r}
      BY <1>3, <3>2, <3>3 DEF Begin, Finish
    <3>5. [r EXCEPT !.mark = m] \in RowOfRepo /\ [r EXCEPT !.default = DefaultBranch] \in RowOfRepo
      BY DEF RowOfRepo
    <3> QED
      BY <3>3, <3>4, <3>5
  <2> QED
    BY <2>1, <2>2 DEF SyncTypes
<1>4. ASSUME NEW b \in Branch \cup {""}, SwitchBranch(b) PROVE repo' \in RowOfRepo
  <2>1. PICK r \in RowOfRepo : r = repo
    BY <1>4 DEF SwitchBranch, SyncTypes
  <2>2. PICK m \in Nat : m = (IF b = r.branch THEN r.mark ELSE 0)
    BY RowIs
  <2>3. repo' = [r EXCEPT !.branch = b, !.mark = m]
    BY <1>4, <2>1, <2>2 DEF SwitchBranch
  <2> QED
    BY <2>3 DEF RowOfRepo
<1>5. ASSUME TogglePolling PROVE repo' \in RowOfRepo
  <2>1. PICK r \in RowOfRepo : r = repo
    BY <1>5 DEF TogglePolling, SyncTypes
  <2>2. PICK e \in BOOLEAN : e = ~r.enabled
    OBVIOUS
  <2>3. repo' = [r EXCEPT !.enabled = e]
    BY <1>5, <2>1, <2>2 DEF TogglePolling
  <2> QED
    BY <2>3 DEF RowOfRepo
<1>6. ASSUME DeleteRepo PROVE repo' = Gone
  BY <1>6 DEF DeleteRepo
<1>7. repo' = repo \/ (\E b \in Branch \cup {""} : SwitchBranch(b) \/ CreateRepo(b)) \/ TogglePolling \/ DeleteRepo
      \/ \E c \in Caller : Begin(c) \/ Finish(c)
  BY DEF SyncNext, Push, Load, CallFails, ListPage, Item, NextPage, GitCrash
<1> QED
  BY <1>1, <1>2, <1>3, <1>4, <1>5, <1>6, <1>7

\* A step of a call leaves it in a state of a call.
LEMMA MovesTo ==
  ASSUME SyncTypes, NEW c \in Caller,
         Load(c) \/ Begin(c) \/ CallFails(c) \/ ListPage(c) \/ Item(c) \/ NextPage(c) \/ Finish(c)
  PROVE  /\ \E v : SyncState(v) /\ sync' = [sync EXCEPT ![c] = v]
         /\ commits' \subseteq PushedTo
<1>0. SyncState(sync[c]) /\ commits \subseteq PushedTo
  BY DEF SyncTypes
<1>1. CASE Load(c)
  <2>1. [at |-> "loaded", repo |-> repo] \in LoadedCall
    BY <1>1, CallMoves DEF LoadedCall
  <2> QED
    BY <1>0, <1>1, <2>1, CallMoves DEF SyncState, Load
<1>2. CASE Begin(c)
  <2>1. PICK v \in ListingCall : sync' = [sync EXCEPT ![c] = v] /\ v.page <= v.pages
    BY <1>2, CallMoves
  <2>2. commits' = commits
    BY <1>2 DEF Begin
  <2> QED
    BY <1>0, <2>1, <2>2 DEF SyncState
<1>3. CASE CallFails(c) \/ Finish(c)
  BY <1>0, <1>3, CallMoves DEF SyncState, CallFails, Finish
<1>4. CASE ListPage(c)
  <2>1. PICK v \in PageCall : sync' = [sync EXCEPT ![c] = v] /\ v.page = sync[c].page /\ v.pages = sync[c].pages
    BY <1>4, CallMoves
  <2>2. v.page <= v.pages
    BY <1>0, <1>4, <2>1, SyncStates DEF ListPage, Working
  <2> QED
    BY <1>0, <1>4, <2>1, <2>2 DEF SyncState, ListPage
<1>5. CASE Item(c)
  <2>1. PICK v \in PageCall, x \in sync[c].left :
          sync' = [sync EXCEPT ![c] = v] /\ v.page = sync[c].page /\ v.pages = sync[c].pages
          /\ commits' \subseteq commits \cup {x}
    BY <1>5, CallMoves
  <2>2. v.page <= v.pages /\ x \in PushedTo
    BY <1>0, <1>5, <2>1, SyncStates DEF Item, Working
  <2> QED
    BY <1>0, <2>1, <2>2 DEF SyncState
<1>6. CASE NextPage(c)
  <2>1. PICK v \in ListingCall : sync' = [sync EXCEPT ![c] = v] /\ v.page <= v.pages
    BY <1>6, CallMoves
  <2>2. commits' = commits
    BY <1>6 DEF NextPage
  <2> QED
    BY <1>0, <2>1, <2>2 DEF SyncState
<1> QED
  BY <1>1, <1>2, <1>3, <1>4, <1>5, <1>6

\* Every call stays in one of its states, and only commits that were pushed are
\* stored.
LEMMA SyncTypesKept ==
  ASSUME SyncTypes, SyncNext
  PROVE  SyncTypes'
<1>1. remote' \in [Branch -> SUBSET Commit] /\ PushedTo \subseteq PushedTo'
  BY StepsGrow
<1>2. (\A d \in Caller : SyncState(sync[d])) /\ commits \subseteq PushedTo
  BY DEF SyncTypes
<1>3. DOMAIN sync' = Caller /\ sync' = [d \in Caller |-> sync'[d]] /\ commits' \subseteq PushedTo
  <2>1. CASE \E c \in Caller : Load(c) \/ Begin(c) \/ CallFails(c) \/ ListPage(c) \/ Item(c) \/ NextPage(c) \/ Finish(c)
    BY <2>1, MovesTo, OnlyOneMoves DEF SyncTypes
  <2>2. CASE sync' = [c \in Caller |-> IdleSync] /\ commits' \in {{}, commits}
    BY <1>2, <2>2
  <2>3. CASE UNCHANGED <<sync, commits>>
    BY <2>3 DEF SyncTypes
  <2> QED
    BY <2>1, <2>2, <2>3, WhoMoves
<1>4. ASSUME NEW d \in Caller PROVE SyncState(sync'[d])
  <2>1. CASE \E c \in Caller : Load(c) \/ Begin(c) \/ CallFails(c) \/ ListPage(c) \/ Item(c) \/ NextPage(c) \/ Finish(c)
    <3>0. PICK c \in Caller : \E v : SyncState(v) /\ sync' = [sync EXCEPT ![c] = v]
      BY <2>1, MovesTo
    <3>1. PICK v : SyncState(v) /\ sync' = [sync EXCEPT ![c] = v]
      BY <3>0
    <3>2. sync'[d] = v \/ sync'[d] = sync[d]
      BY <3>1, OnlyOneMoves DEF SyncTypes
    <3> QED
      BY <1>2, <3>1, <3>2
  <2>2. CASE sync' = [c \in Caller |-> IdleSync]
    BY <2>2 DEF SyncState
  <2>3. CASE UNCHANGED sync
    BY <1>2, <2>3
  <2> QED
    BY <2>1, <2>2, <2>3, WhoMoves
<1>5. ASSUME NEW d \in Caller PROVE SyncState(sync[d])'
  <2>1. PICK v : v = sync'[d]
    OBVIOUS
  <2>2. SyncState(v)'
    BY <1>1, <1>4, <2>1, StateStays
  <2> QED
    BY <2>1, <2>2 DEF SyncState, PageCall
<1>6. repo' = Gone \/ repo' \in RowOfRepo
  BY RowStays
<1> QED
  BY <1>1, <1>3, <1>5, <1>6 DEF SyncTypes

\* At most one call is past the lock.
LEMMA OneSyncKept ==
  ASSUME SyncTypes, OneSync, SyncNext
  PROVE  OneSync'
<1>1. CASE \E c \in Caller : Load(c) \/ Begin(c) \/ CallFails(c) \/ ListPage(c) \/ Item(c) \/ NextPage(c) \/ Finish(c)
  <2>1. PICK c \in Caller :
          Load(c) \/ Begin(c) \/ CallFails(c) \/ ListPage(c) \/ Item(c) \/ NextPage(c) \/ Finish(c)
    BY <1>1
  <2>2. PICK v : sync' = [sync EXCEPT ![c] = v]
    BY <2>1, MovesTo
  <2>3. sync'[c] = v /\ \A d \in Caller : d # c => sync'[d] = sync[d]
    BY <2>2, OnlyOneMoves DEF SyncTypes
  <2>4. CASE Begin(c)
    <3>1. \A d \in Caller : ~(sync[d].at \in Working)
      BY <2>4 DEF Begin, SyncLocked, Working
    <3> QED
      BY <2>3, <3>1 DEF OneSync
  <2>5. CASE sync[c].at \in Working
    BY <2>3, <2>5 DEF OneSync
  <2>6. CASE ~(v.at \in Working)
    BY <2>3, <2>6 DEF OneSync
  <2>7. Begin(c) \/ sync[c].at \in Working \/ ~(v.at \in Working)
    <3>1. CASE Load(c)
      <4>1. sync' = [sync EXCEPT ![c] = [at |-> "loaded", repo |-> repo]]
        BY <3>1, CallMoves
      <4>2. v = [at |-> "loaded", repo |-> repo]
        BY <2>3, <4>1, OnlyOneMoves DEF SyncTypes
      <4> QED
        BY <4>2 DEF Working
    <3>2. CASE CallFails(c)
      <4>1. sync' = [sync EXCEPT ![c] = IdleSync]
        BY <3>2, CallMoves
      <4>2. v = IdleSync
        BY <2>3, <4>1, OnlyOneMoves DEF SyncTypes
      <4> QED
        BY <4>2 DEF Working, IdleSync
    <3>3. CASE ListPage(c) \/ Item(c) \/ NextPage(c) \/ Finish(c)
      BY <3>3 DEF ListPage, Item, NextPage, Finish, Working
    <3> QED
      BY <2>1, <3>1, <3>2, <3>3
  <2> QED
    BY <2>4, <2>5, <2>6, <2>7
<1>2. CASE sync' = [c \in Caller |-> IdleSync]
  BY <1>2 DEF OneSync, IdleSync, Working
<1>3. CASE UNCHANGED sync
  BY <1>3 DEF OneSync
<1> QED
  BY <1>1, <1>2, <1>3, WhoMoves

\* The date and the branch of the row move when the branch is switched, and when
\* a sync finishes.
LEMMA RowMoves ==
  ASSUME SyncTypes, SyncNext, repo \in RowOfRepo, ~DeleteRepo
  PROVE  /\ repo' \in RowOfRepo
         /\ \/ Effective(repo') = Effective(repo) /\ Since(repo') = Since(repo)
            \/ Since(repo') = 0
            \/ \E c \in Caller : Finish(c) /\ repo'.mark = Newest(commits) /\ Effective(repo') = Effective(repo)
<1>0. PICK r \in RowOfRepo : r = repo
  OBVIOUS
<1>1. repo # Gone
  BY RowIs
<1>2. ASSUME NEW c \in Caller, Begin(c), repo' # repo
      PROVE  repo' \in RowOfRepo /\ Effective(repo') = Effective(repo) /\ Since(repo') = Since(repo)
  <2>1. repo' = [r EXCEPT !.default = DefaultBranch]
    BY <1>0, <1>2 DEF Begin
  <2>2. repo' \in RowOfRepo /\ repo'.branch = r.branch /\ repo'.mark = r.mark /\ repo'.default = DefaultBranch
    BY <2>1 DEF RowOfRepo
  <2>3. r.default \in {"", DefaultBranch}
    BY DEF RowOfRepo
  <2> QED
    BY <1>0, <2>2, <2>3, SyncAssumption DEF Effective, Since
<1>3. ASSUME NEW c \in Caller, Finish(c), repo' # repo
      PROVE  repo' \in RowOfRepo /\ Effective(repo') = Effective(repo) /\ repo'.mark = Newest(commits)
  <2>1. commits \subseteq Nat /\ IsFiniteSet(commits)
    BY PushedAreDates, FS_Subset DEF SyncTypes
  <2>2. PICK m \in Nat : m = Newest(commits)
    BY <2>1, NewestIs
  <2>3. repo' = [r EXCEPT !.mark = m]
    BY <1>0, <1>3, <2>2 DEF Finish
  <2>4. repo' \in RowOfRepo /\ repo'.branch = r.branch /\ repo'.mark = m /\ repo'.default = r.default
    BY <2>3 DEF RowOfRepo
  <2> QED
    BY <1>0, <2>2, <2>4 DEF Effective
<1>4. ASSUME NEW b \in Branch \cup {""}, SwitchBranch(b)
      PROVE  repo' \in RowOfRepo /\ (Since(repo') = 0 \/ (Effective(repo') = Effective(repo) /\ Since(repo') = Since(repo)))
  <2>1. PICK m \in Nat : m = (IF b = r.branch THEN r.mark ELSE 0)
    BY RowIs
  <2>2. repo' = [r EXCEPT !.branch = b, !.mark = m]
    BY <1>0, <1>4, <2>1 DEF SwitchBranch
  <2>3. repo' \in RowOfRepo /\ repo'.branch = b /\ repo'.mark = m /\ repo'.default = r.default
    BY <2>2 DEF RowOfRepo
  <2>4. CASE b = r.branch
    BY <1>0, <2>1, <2>3, <2>4 DEF Effective, Since
  <2>5. CASE b # r.branch
    BY <2>1, <2>3, <2>5, RowIs
  <2> QED
    BY <2>3, <2>4, <2>5
<1>5. ASSUME TogglePolling
      PROVE  repo' \in RowOfRepo /\ Effective(repo') = Effective(repo) /\ Since(repo') = Since(repo)
  <2>1. PICK e \in BOOLEAN : e = ~r.enabled
    OBVIOUS
  <2>2. repo' = [r EXCEPT !.enabled = e]
    BY <1>0, <1>5, <2>1 DEF TogglePolling
  <2>3. repo' \in RowOfRepo /\ repo'.branch = r.branch /\ repo'.mark = r.mark /\ repo'.default = r.default
    BY <2>2 DEF RowOfRepo
  <2> QED
    BY <1>0, <2>3 DEF Effective, Since
<1>6. repo' = repo \/ (\E b \in Branch \cup {""} : SwitchBranch(b)) \/ TogglePolling
      \/ (\E c \in Caller : Begin(c) /\ repo' # repo) \/ (\E c \in Caller : Finish(c) /\ repo' # repo)
  BY <1>1 DEF SyncNext, Push, Load, CallFails, ListPage, Item, NextPage, GitCrash, CreateRepo
<1> QED
  BY <1>2, <1>3, <1>4, <1>5, <1>6

\* From the beginning of time on, nothing will be missing.
LEMMA ZeroStaysFetched ==
  ASSUME remote' \in [Branch -> SUBSET Commit], NEW b \in Branch
  PROVE  Fetched(b, 0)'
<1>1. \A x \in remote'[b] : x \in Nat
  BY SyncAssumption
<1>2. \A x \in remote'[b] : ~(x < 0)
  BY <1>1
<1> QED
  BY <1>2 DEF Fetched

\* A sync that finishes has fetched the tracked branch up to its watermark.
LEMMA FinishFetches ==
  ASSUME SyncInv, NEW c \in Caller, Finish(c), NEW b \in Branch, b = Effective(repo), NEW n \in Nat,
         n # 0 => n + Overlap = Newest(commits)
  PROVE  Fetched(b, n)'
<1>1. PICK o \in Nat : o = Overlap
  BY SyncAssumption
<1>2. PICK s : s = sync[c]
  OBVIOUS
<1>3. SyncTypes /\ SyncState(s) /\ s.at = "page" /\ s.left = {} /\ ~(s.full /\ s.page < s.pages)
  BY <1>2 DEF SyncInv, SyncTypes, Finish
<1>4. /\ s.branch \in Branch /\ s.since \in Nat /\ s.full \in BOOLEAN
      /\ s.page \in Nat \ {0} /\ s.pages \in Nat \ {0} /\ s.page <= s.pages
  BY <1>3, SyncStates DEF Working
<1>5. Fetched(s.branch, s.since) /\ PageHolds(s)
  BY <1>2, <1>3 DEF SyncInv, WorkFetched, PagesHold, Working
<1>6. PICK m \in Nat : m = Newest(commits) /\ m \in commits \cup {0}
  <2>1. commits \subseteq Nat /\ IsFiniteSet(commits)
    BY <1>3, PushedAreDates, FS_Subset DEF SyncTypes
  <2> QED
    BY <2>1, NewestIs
<1>7. remote' = remote /\ commits' = commits /\ Covered \subseteq Covered'
  BY DEF Finish, Covered
<1>8. ASSUME NEW x \in remote[b], x < n PROVE x \in Covered'
  <2>1. x \in Commit /\ x \in Nat
    BY <1>3, SyncAssumption DEF SyncTypes
  <2>2. x + Overlap < m /\ m \in commits
    <3>1. n # 0 /\ x + o < n + o
      BY <1>8, <2>1
    <3>2. x + o < m /\ m # 0
      BY <1>1, <1>6, <2>1, <3>1
    <3> QED
      BY <1>1, <1>6, <3>2
  <2>3. CASE s.branch # b
    <3>1. x \in Older(m)
      BY <2>1, <2>2 DEF Older
    <3>2. Older(m) \ commits \subseteq excused'
      BY <1>2, <1>6, <2>3 DEF Finish
    <3> QED
      BY <1>7, <3>1, <3>2 DEF Covered
  <2>4. CASE s.branch = b /\ x < s.since
    BY <1>5, <1>7, <2>4 DEF Fetched
  <2>5. CASE s.branch = b /\ ~(x < s.since)
    <3>1. x \in Wanted(s)
      BY <1>4, <2>1, <2>5 DEF Wanted
    <3>2. x \in Covered \/ (s.full /\ Rank(x, Wanted(s)) >= s.page * PageSize)
      BY <1>3, <1>5, <2>2, <3>1 DEF PageHolds, LeftOf, More, Listed
    <3>3. CASE x \in Covered
      BY <1>7, <3>3
    <3>4. CASE s.full /\ Rank(x, Wanted(s)) >= s.page * PageSize
      <4>1. s.page = s.pages
        BY <1>3, <1>4, <3>4
      <4>2. x \in { z \in Wanted(s) : Rank(z, Wanted(s)) >= s.pages * PageSize }
        BY <3>1, <3>4, <4>1
      <4>3. { z \in Wanted(s) : Rank(z, Wanted(s)) >= s.pages * PageSize } \subseteq excused'
        BY <1>2, <3>4 DEF Finish
      <4> QED
        BY <4>2, <4>3 DEF Covered
    <3> QED
      BY <3>2, <3>3, <3>4
  <2> QED
    BY <2>3, <2>4, <2>5
<1>9. n = 0 \/ n + Overlap \in PushedTo'
  <2>1. ASSUME n # 0 PROVE n + Overlap \in commits
    <3>1. n + o = m /\ m # 0
      BY <1>1, <1>6, <2>1
    <3> QED
      BY <1>1, <1>6, <3>1
  <2>2. commits \subseteq PushedTo' 
    BY <1>3, <1>7 DEF SyncTypes, PushedTo
  <2> QED
    BY <2>1, <2>2
<1> QED
  BY <1>7, <1>8, <1>9 DEF Fetched

\* The branch of the row is fetched up to its watermark.
LEMMA RepoFetchedKept ==
  ASSUME SyncInv, SyncNext
  PROVE  RepoFetched'
<1> SUFFICES ASSUME repo' # Gone PROVE Fetched(Effective(repo), Since(repo))'
  BY DEF RepoFetched
<1>1. SyncTypes
  BY DEF SyncInv
<1>2. repo' \in RowOfRepo /\ ~DeleteRepo
  BY <1>1, RowStays DEF DeleteRepo
<1>3. PICK b \in Branch, n \in Nat : b = Effective(repo') /\ n = Since(repo')
  BY <1>2, RowIs
<1>4. SUFFICES Fetched(b, n)'
  BY <1>3
<1>5. CASE n = 0
  BY <1>1, <1>5, StepsGrow, ZeroStaysFetched
<1>6. CASE repo # Gone /\ Effective(repo') = Effective(repo) /\ Since(repo') = Since(repo)
  <2>1. Fetched(b, n)
    BY <1>3, <1>6 DEF SyncInv, RepoFetched
  <2> QED
    BY <1>1, <1>2, <2>1, StaysFetched
<1>7. ASSUME NEW c \in Caller, Finish(c), repo'.mark = Newest(commits), Effective(repo') = Effective(repo)
      PROVE  Fetched(b, n)'
  <2>1. n # 0 => n + Overlap = Newest(commits)
    BY <1>2, <1>3, <1>7, RowIs
  <2> QED
    BY <1>3, <1>7, <2>1, FinishFetches
<1>8. CASE repo = Gone
  <2>1. \E d \in Branch \cup {""} : CreateRepo(d)
    <3>1. \A c \in Caller : ~Begin(c) /\ ~Finish(c)
      BY <1>8 DEF SyncInv, RowsFetched, WorkFetched, Working, Begin, Finish
    <3>2. repo' # repo
      BY <1>8
    <3> QED
      BY <1>2, <1>8, <3>1, <3>2 DEF SyncNext, Push, Load, CallFails, ListPage, Item, NextPage, SwitchBranch,
                                    TogglePolling, GitCrash
  <2>2. repo'.mark = 0
    <3>1. PICK d \in Branch \cup {""} : repo' = NewRepo(d)
      BY <2>1 DEF CreateRepo
    <3> QED
      BY <3>1 DEF NewRepo
  <2> QED
    BY <1>2, <1>3, <1>5, <2>2, RowIs
<1>9. CASE repo # Gone
  <2>1. repo \in RowOfRepo
    BY <1>1, <1>9 DEF SyncTypes
  <2> QED
    BY <1>1, <1>2, <1>3, <1>5, <1>6, <1>7, <1>9, <2>1, RowMoves
<1> QED
  BY <1>8, <1>9

\* A row that a call has read was fetched up to its watermark, and is there yet.
LEMMA RowsFetchedKept ==
  ASSUME SyncInv, SyncNext
  PROVE  RowsFetched'
<1>1. SyncTypes
  BY DEF SyncInv
<1>2. SUFFICES ASSUME NEW d \in Caller, sync'[d].at = "loaded"
               PROVE  repo' # Gone /\ Fetched(Effective(sync[d].repo), Since(sync[d].repo))'
  BY DEF RowsFetched
<1>3. ~(sync' = [c \in Caller |-> IdleSync]) /\ ~DeleteRepo
  BY <1>2 DEF IdleSync, DeleteRepo
<1>4. sync'[d] = sync[d] \/ Load(d)
  <2>1. ASSUME NEW c \in Caller,
               Load(c) \/ Begin(c) \/ CallFails(c) \/ ListPage(c) \/ Item(c) \/ NextPage(c) \/ Finish(c)
        PROVE  sync'[d] = sync[d] \/ Load(d)
    <3>1. PICK v : sync' = [sync EXCEPT ![c] = v]
      BY <1>1, <2>1, MovesTo
    <3>2. c # d => sync'[d] = sync[d]
      BY <1>1, <3>1, OnlyOneMoves DEF SyncTypes
    <3>3. c = d => sync'[d] = v
      BY <1>1, <3>1, OnlyOneMoves DEF SyncTypes
    <3>4. ASSUME c = d, ~Load(d) PROVE FALSE
      <4>1. CASE CallFails(c) \/ Finish(c)
        <5>1. sync' = [sync EXCEPT ![c] = IdleSync]
          BY <1>1, <4>1, CallMoves
        <5>2. sync'[d] = IdleSync
          BY <1>1, <3>4, <5>1, OnlyOneMoves DEF SyncTypes
        <5> QED
          BY <1>2, <5>2 DEF IdleSync
      <4>2. CASE Begin(c) \/ NextPage(c)
        <5>1. PICK w \in ListingCall : sync' = [sync EXCEPT ![c] = w]
          BY <1>1, <4>2, CallMoves
        <5>2. sync'[d] = w
          BY <1>1, <3>4, <5>1, OnlyOneMoves DEF SyncTypes
        <5> QED
          BY <1>2, <5>2 DEF ListingCall
      <4>3. CASE ListPage(c) \/ Item(c)
        <5>1. PICK w \in PageCall : sync' = [sync EXCEPT ![c] = w]
          BY <1>1, <4>3, CallMoves
        <5>2. sync'[d] = w
          BY <1>1, <3>4, <5>1, OnlyOneMoves DEF SyncTypes
        <5> QED
          BY <1>2, <5>2 DEF PageCall
      <4> QED
        BY <2>1, <3>4, <4>1, <4>2, <4>3
    <3> QED
      BY <3>2, <3>4
  <2> QED
    BY <1>1, <1>3, <2>1, WhoMoves
<1>5. CASE Load(d)
  <2>1. repo \in RowOfRepo /\ repo' = repo /\ repo # Gone /\ sync'[d].repo = repo
    <3>1. sync' = [sync EXCEPT ![d] = [at |-> "loaded", repo |-> repo]] /\ repo \in RowOfRepo
      BY <1>1, <1>5, CallMoves
    <3>2. sync'[d] = [at |-> "loaded", repo |-> repo]
      BY <1>1, <3>1, OnlyOneMoves DEF SyncTypes
    <3> QED
      BY <1>5, <3>1, <3>2 DEF Load
  <2>2. PICK b \in Branch, n \in Nat : b = Effective(repo) /\ n = Since(repo)
    BY <2>1, RowIs
  <2>3. Fetched(b, n)
    BY <2>1, <2>2 DEF SyncInv, RepoFetched
  <2>4. Fetched(b, n)'
    BY <1>1, <1>3, <2>3, StaysFetched
  <2>5. b = Effective(sync'[d].repo) /\ n = Since(sync'[d].repo)
    BY <2>1, <2>2
  <2> QED
    BY <2>1, <2>4, <2>5
<1>6. CASE sync'[d] = sync[d]
  <2>1. sync[d].at = "loaded" /\ sync[d].repo \in RowOfRepo
    BY <1>1, <1>2, <1>6, SyncStates DEF SyncTypes
  <2>2. PICK b \in Branch, n \in Nat : b = Effective(sync[d].repo) /\ n = Since(sync[d].repo)
    BY <2>1, RowIs
  <2>3. repo # Gone /\ Fetched(b, n)
    BY <2>1, <2>2 DEF SyncInv, RowsFetched
  <2>4. Fetched(b, n)'
    BY <1>1, <1>3, <2>3, StaysFetched
  <2>5. repo' # Gone
    BY <1>1, <1>3, <2>3, RowMoves, RowIs DEF SyncTypes
  <2>6. b = Effective(sync'[d].repo) /\ n = Since(sync'[d].repo)
    BY <1>6, <2>2
  <2> QED
    BY <2>4, <2>5, <2>6
<1> QED
  BY <1>4, <1>5, <1>6

\* What a sync has to fetch stays fetched before its date, and the repository is
\* there.
LEMMA WorkFetchedKept ==
  ASSUME SyncInv, SyncNext
  PROVE  WorkFetched'
<1>1. SyncTypes
  BY DEF SyncInv
<1>2. SUFFICES ASSUME NEW d \in Caller, sync'[d].at \in Working
               PROVE  repo' # Gone /\ Fetched(sync[d].branch, sync[d].since)'
  BY DEF WorkFetched
<1>3. ~(sync' = [c \in Caller |-> IdleSync]) /\ ~DeleteRepo
  BY <1>2 DEF IdleSync, DeleteRepo, Working
<1>4. \E b \in Branch, n \in Nat : Fetched(b, n) /\ repo # Gone /\ b = sync'[d].branch /\ n = sync'[d].since
  <2>1. CASE sync[d].at \in Working /\ sync'[d].branch = sync[d].branch /\ sync'[d].since = sync[d].since
    <3>1. sync[d].branch \in Branch /\ sync[d].since \in Nat
      BY <1>1, <2>1, SyncStates DEF SyncTypes
    <3> QED
      BY <2>1, <3>1 DEF SyncInv, WorkFetched
  <2>2. ASSUME NEW c \in Caller, Begin(c), c = d
        PROVE  \E b \in Branch, n \in Nat : Fetched(b, n) /\ repo # Gone /\ b = sync'[d].branch /\ n = sync'[d].since
    <3>1. PICK v \in ListingCall :
               /\ sync[c] \in LoadedCall
               /\ sync' = [sync EXCEPT ![c] = v]
               /\ v.branch = Effective(sync[c].repo) /\ v.since = Since(sync[c].repo)
      BY <1>1, <2>2, CallMoves
    <3>2. sync'[c] = v /\ v.branch \in Branch /\ v.since \in Nat
      BY <1>1, <3>1, OnlyOneMoves DEF SyncTypes, ListingCall
    <3>3. repo # Gone /\ Fetched(Effective(sync[c].repo), Since(sync[c].repo))
      BY <2>2 DEF SyncInv, RowsFetched, Begin
    <3>4. Fetched(v.branch, v.since)
      BY <3>1, <3>3
    <3> QED
      BY <2>2, <3>2, <3>3, <3>4
  <2>3. ASSUME NEW c \in Caller, ListPage(c) \/ Item(c) \/ NextPage(c), c = d
        PROVE  sync[d].at \in Working /\ sync'[d].branch = sync[d].branch /\ sync'[d].since = sync[d].since
    <3>1. sync[d].at \in Working
      BY <2>3 DEF ListPage, Item, NextPage, Working
    <3>2. PICK v : sync' = [sync EXCEPT ![c] = v] /\ v.branch = sync[c].branch /\ v.since = sync[c].since
      BY <1>1, <2>3, CallMoves
    <3>3. sync'[c] = v
      BY <1>1, <3>2, OnlyOneMoves DEF SyncTypes
    <3> QED
      BY <2>3, <3>1, <3>2, <3>3
  <2>4. ASSUME NEW c \in Caller, Load(c) \/ CallFails(c) \/ Finish(c), c = d PROVE FALSE
    <3>1. PICK v : sync' = [sync EXCEPT ![c] = v] /\ v.at \in {"loaded", "idle"}
      <4>1. CASE Load(c)
        <5> DEFINE w == [at |-> "loaded", repo |-> repo]
        <5>1. sync' = [sync EXCEPT ![c] = w]
          BY <1>1, <4>1, CallMoves
        <5>2. w.at = "loaded"
          OBVIOUS
        <5> QED
          BY <5>1, <5>2
      <4>2. CASE CallFails(c) \/ Finish(c)
        <5>1. sync' = [sync EXCEPT ![c] = IdleSync]
          BY <1>1, <4>2, CallMoves
        <5>2. IdleSync.at = "idle"
          BY DEF IdleSync
        <5> QED
          BY <5>1, <5>2
      <4> QED
        BY <2>4, <4>1, <4>2
    <3>2. sync'[c] = v
      BY <1>1, <3>1, OnlyOneMoves DEF SyncTypes
    <3> QED
      BY <1>2, <2>4, <3>1, <3>2 DEF Working
  <2>5. ASSUME NEW c \in Caller, c # d,
               Load(c) \/ Begin(c) \/ CallFails(c) \/ ListPage(c) \/ Item(c) \/ NextPage(c) \/ Finish(c)
        PROVE  sync'[d] = sync[d]
    <3>1. PICK v : sync' = [sync EXCEPT ![c] = v]
      BY <1>1, <2>5, MovesTo
    <3> QED
      BY <1>1, <2>5, <3>1, OnlyOneMoves DEF SyncTypes
  <2>6. sync'[d] = sync[d] \/ \E c \in Caller : c = d /\
          (Load(c) \/ Begin(c) \/ CallFails(c) \/ ListPage(c) \/ Item(c) \/ NextPage(c) \/ Finish(c))
    BY <1>1, <1>3, <2>5, WhoMoves
  <2>7. CASE sync'[d] = sync[d]
    BY <1>2, <2>1, <2>7
  <2> QED
    BY <2>1, <2>2, <2>3, <2>4, <2>6, <2>7
<1>5. PICK b \in Branch, n \in Nat : Fetched(b, n) /\ repo # Gone /\ b = sync'[d].branch /\ n = sync'[d].since
  BY <1>4
<1>6. Fetched(b, n)'
  BY <1>1, <1>3, <1>5, StaysFetched
<1>7. repo' # Gone
  BY <1>1, <1>3, <1>5, RowMoves, RowIs DEF SyncTypes
<1> QED
  BY <1>5, <1>6, <1>7

\* While others move, nothing that a sync leaves behind is lost to it: a commit
\* pushed meanwhile is late, or older than nothing it has seen.
LEMMA PageStaysHeld ==
  ASSUME SyncTypes, SyncNext, commits' = commits, NEW s, SyncState(s), s.at \in Working, PageHolds(s)
  PROVE  PageHolds(s)'
<1>1. s.branch \in Branch /\ LeftOf(s) \subseteq PushedTo
  BY SyncStates DEF LeftOf
<1>2. PICK W, V : W = Wanted(s) /\ V = { x \in remote'[s.branch] : x >= s.since }
  OBVIOUS
<1>3. V = Wanted(s)'
  BY <1>2 DEF Wanted
<1>4. W \subseteq V /\ V \subseteq Nat /\ IsFiniteSet(V)
  <2>1. remote'[s.branch] \subseteq Commit /\ remote[s.branch] \subseteq remote'[s.branch]
    BY <1>1, StepsGrow
  <2>2. V \subseteq Commit
    BY <1>2, <2>1
  <2> QED
    BY <1>2, <2>1, <2>2, SyncAssumption, FS_Subset DEF Wanted
<1>5. Covered \subseteq Covered' /\ commits \cup LeftOf(s) \subseteq PushedTo
  <2>1. excused \subseteq excused'
    BY StepsGrow
  <2> QED
    BY <1>1, <2>1 DEF Covered, SyncTypes
<1>6. ASSUME NEW x \in V, NEW y \in commits \cup LeftOf(s), x + Overlap < y
      PROVE  \/ x \in Covered' \cup LeftOf(s)
             \/ More(s) /\ Rank(x, V) >= Listed(s) * PageSize
  <2>1. CASE x \in W
    <3>1. x \in Covered \cup LeftOf(s) \/ (More(s) /\ Rank(x, W) >= Listed(s) * PageSize)
      BY <1>2, <1>6, <2>1 DEF PageHolds
    <3>2. Rank(x, W) \in Nat /\ Rank(x, V) \in Nat /\ Rank(x, W) <= Rank(x, V)
      BY <1>4, RankGrows
    <3>3. PICK k \in Nat : k = Listed(s) * PageSize
      <4>1. s.page \in Nat \ {0}
        BY SyncStates
      <4> QED
        BY <4>1, PageStep DEF Listed
    <3> QED
      BY <1>5, <3>1, <3>2, <3>3
  <2>2. CASE x \notin W
    <3>1. PICK d \in Branch, z \in Commit : Push(d, z)
      BY <1>2, <2>2 DEF SyncNext, Load, Begin, CallFails, ListPage, Item, NextPage, Finish, SwitchBranch, CreateRepo,
                        TogglePolling, DeleteRepo, GitCrash, Wanted
    <3>2. x = z
      BY <1>1, <1>2, <2>2, <3>1 DEF Push, SyncTypes, Wanted
    <3>3. x \in excused'
      BY <1>5, <1>6, <3>1, <3>2 DEF Push
    <3> QED
      BY <3>3 DEF Covered
  <2> QED
    BY <2>1, <2>2
<1> QED
  BY <1>3, <1>6 DEF PageHolds, LeftOf, More, Listed

\* A listed page holds all that comes before its end, and nothing comes after
\* the end of a page that is not full.
LEMMA ListedPageHolds ==
  ASSUME SyncTypes, NEW c \in Caller, ListPage(c), PageHolds(sync[c]),
         NEW v \in PageCall, v.branch = sync[c].branch, v.since = sync[c].since, v.page = sync[c].page,
         v.left = PageOf(Wanted(sync[c]), sync[c].page), v.full = (Cardinality(v.left) = PageSize)
  PROVE  PageHolds(v)'
<1>1. PICK s : s = sync[c]
  OBVIOUS
<1>2. s.at = "listing" /\ s.branch \in Branch /\ s.page \in Nat \ {0}
  BY <1>1, SyncStates DEF SyncTypes, ListPage, Working
<1>3. PICK W : W = Wanted(s) /\ W = Wanted(v) /\ W = Wanted(v)'
  BY <1>1 DEF Wanted, ListPage
<1>4. W \subseteq Nat /\ IsFiniteSet(W)
  BY <1>2, <1>3, PageIsPushed DEF SyncTypes
<1>5. commits' = commits /\ Covered' = Covered
  BY DEF ListPage, Covered, syncSeen
<1>6. PICK lo \in Nat, hi \in Nat : lo = (s.page - 1) * PageSize /\ hi = s.page * PageSize
  BY <1>2, PageStep
<1>7. v.at = "page" /\ v.left = { x \in W : Rank(x, W) >= lo /\ Rank(x, W) < hi }
  <2>1. v.at = "page"
    BY DEF PageCall
  <2> QED
    BY <1>1, <1>3, <1>6, <2>1 DEF PageOf
<1>8. ASSUME NEW x \in W, NEW y \in commits \cup v.left, x + Overlap < y
      PROVE  x \in Covered \cup v.left \/ (v.full /\ Rank(x, W) >= hi)
  <2>1. Rank(x, W) \in Nat
    BY <1>4, RankType
  <2>2. x \in Covered \/ Rank(x, W) >= lo
    <3>1. CASE y \in commits
      BY <1>1, <1>2, <1>3, <1>6, <1>8, <3>1 DEF PageHolds, LeftOf, More, Listed
    <3>2. CASE y \in v.left
      <4>1. y \in W /\ Rank(y, W) >= lo /\ Rank(y, W) \in Nat
        BY <1>4, <1>7, <3>2, RankType
      <4>2. y > x
        <5>1. PICK o \in Nat : o = Overlap
          BY SyncAssumption
        <5>2. x \in Nat /\ y \in Nat /\ x + o < y
          BY <1>4, <1>8, <4>1, <5>1
        <5> QED
          BY <5>2
      <4>3. Rank(y, W) < Rank(x, W)
        BY <1>4, <4>1, <4>2, RankLess
      <4> QED
        BY <2>1, <4>1, <4>3
    <3> QED
      BY <3>1, <3>2
  <2>3. CASE Rank(x, W) >= hi
    <3>1. Cardinality(PageOf(W, s.page)) = PageSize
      BY <1>2, <1>4, <1>6, <2>3, PagesAreFull
    <3>2. v.full
      BY <1>1, <1>3, <3>1
    <3> QED
      BY <2>3, <3>2
  <2>4. CASE ~(Rank(x, W) >= hi)
    <3>1. Rank(x, W) < hi
      BY <2>1, <2>4
    <3> QED
      BY <1>7, <2>2, <3>1
  <2> QED
    BY <2>3, <2>4
<1> QED
  BY <1>1, <1>3, <1>5, <1>6, <1>7, <1>8 DEF PageHolds, LeftOf, More, Listed

\* Nothing newer than the overlap leaves anything behind on the listed pages.
LEMMA PagesHoldKept ==
  ASSUME SyncInv, SyncNext
  PROVE  PagesHold'
<1>1. SyncTypes /\ \A c \in Caller : sync[c].at \in Working => PageHolds(sync[c])
  BY DEF SyncInv, PagesHold
<1>2. SUFFICES ASSUME NEW d \in Caller, sync'[d].at \in Working
               PROVE  PageHolds(sync[d])'
  BY DEF PagesHold
<1>3. PICK v : v = sync'[d]
  OBVIOUS
<1>4. SUFFICES PageHolds(v)'
  BY <1>3 DEF PageHolds, Wanted, LeftOf, More, Listed
<1>5. CASE sync'[d] = sync[d]
  <2>1. commits' = commits
    <3>1. sync[d].at \in Working
      BY <1>2, <1>5
    <3>2. \A c \in Caller : c # d => ~Item(c)
      BY <3>1 DEF Item, SyncInv, OneSync, Working
    <3>3. ~Item(d)
      <4>1. ASSUME Item(d) PROVE FALSE
        <5>1. PICK w \in PageCall, x \in sync[d].left : sync' = [sync EXCEPT ![d] = w] /\ w.left = sync[d].left \ {x}
          BY <1>1, <4>1, CallMoves
        <5>2. sync'[d] = w
          BY <1>1, <5>1, OnlyOneMoves DEF SyncTypes
        <5> QED
          BY <1>5, <5>1, <5>2
      <4> QED
        BY <4>1
    <3>4. ~DeleteRepo
      BY <1>2 DEF DeleteRepo, IdleSync, Working
    <3> QED
      BY <3>2, <3>3, <3>4 DEF SyncNext, Push, Load, Begin, CallFails, ListPage, NextPage, Finish, SwitchBranch,
                              CreateRepo, TogglePolling, GitCrash
  <2> QED
    BY <1>1, <1>2, <1>3, <1>5, <2>1, PageStaysHeld DEF SyncTypes
<1>6. ASSUME NEW c \in Caller, c = d,
             Load(c) \/ Begin(c) \/ CallFails(c) \/ ListPage(c) \/ Item(c) \/ NextPage(c) \/ Finish(c)
      PROVE  PageHolds(v)'
  <2>1. SyncState(sync[c]) /\ remote \in [Branch -> SUBSET Commit]
    BY <1>1 DEF SyncTypes
  <2>2. CASE Load(c) \/ CallFails(c) \/ Finish(c)
    <3>1. v = [at |-> "loaded", repo |-> repo] \/ v = IdleSync
      <4>1. sync' = [sync EXCEPT ![c] = [at |-> "loaded", repo |-> repo]] \/ sync' = [sync EXCEPT ![c] = IdleSync]
        BY <1>1, <2>2, CallMoves
      <4> QED
        BY <1>1, <1>3, <1>6, <4>1, OnlyOneMoves DEF SyncTypes
    <3>2. ~(v.at \in Working)
      BY <3>1 DEF Working, IdleSync
    <3> QED
      BY <1>2, <1>3, <3>2
  <2>3. CASE Begin(c)
    <3>1. PICK w \in ListingCall : sync' = [sync EXCEPT ![c] = w] /\ w.page = 1
      BY <1>1, <2>3, CallMoves
    <3>2. v = w
      BY <1>1, <1>3, <1>6, <3>1, OnlyOneMoves DEF SyncTypes
    <3>3. v.at = "listing" /\ v.branch \in Branch
      BY <3>2 DEF ListingCall
    <3>4. PICK W : W = Wanted(v) /\ W = Wanted(v)'
      BY <2>3 DEF Wanted, Begin
    <3>5. \A x \in W : Rank(x, W) \in Nat
      <4>1. W \subseteq Nat /\ IsFiniteSet(W)
        BY <2>1, <3>3, <3>4, PageIsPushed
      <4> QED
        BY <4>1, RankType
    <3>6. (v.page - 1) * PageSize = 0
      <4>1. PICK p \in Nat : p = PageSize
        BY SyncAssumption
      <4> QED
        BY <3>1, <3>2, <4>1
    <3> QED
      BY <3>3, <3>4, <3>5, <3>6 DEF PageHolds, More, Listed
  <2>4. CASE ListPage(c)
    <3>1. PICK w \in PageCall :
               /\ sync' = [sync EXCEPT ![c] = w]
               /\ w.branch = sync[c].branch /\ w.since = sync[c].since /\ w.page = sync[c].page
               /\ w.left = PageOf(Wanted(sync[c]), sync[c].page)
               /\ w.full = (Cardinality(w.left) = PageSize)
      BY <1>1, <2>4, CallMoves
    <3>2. v = w
      BY <1>1, <1>3, <1>6, <3>1, OnlyOneMoves DEF SyncTypes
    <3>3. PageHolds(sync[c])
      BY <1>1, <2>4 DEF ListPage, Working
    <3> QED
      BY <1>1, <2>4, <3>1, <3>2, <3>3, ListedPageHolds
  <2>5. CASE Item(c)
    <3>1. PICK w \in PageCall, x \in sync[c].left :
               /\ sync' = [sync EXCEPT ![c] = w]
               /\ w.branch = sync[c].branch /\ w.since = sync[c].since /\ w.page = sync[c].page
               /\ w.full = sync[c].full /\ w.left = sync[c].left \ {x}
               /\ commits' \subseteq commits \cup {x} /\ x \in Covered'
      BY <1>1, <2>5, CallMoves
    <3>2. v = w
      BY <1>1, <1>3, <1>6, <3>1, OnlyOneMoves DEF SyncTypes
    <3>3. v.at = "page" /\ sync[c].at = "page"
      BY <2>5, <3>2 DEF PageCall, Item
    <3>4. PageHolds(sync[c])
      BY <1>1, <3>3 DEF Working
    <3>5. PICK W : W = Wanted(sync[c]) /\ W = Wanted(v)'
      BY <2>5, <3>1, <3>2 DEF Wanted, Item
    <3>6. Covered \subseteq Covered'
      BY <1>1, <2>5, StepsGrow DEF DeleteRepo, Item, Covered
    <3>7. ASSUME NEW z \in W, NEW y \in commits' \cup v.left, z + Overlap < y
          PROVE  z \in Covered' \cup v.left \/ (v.full /\ Rank(z, W) >= v.page * PageSize)
      <4>1. y \in commits \cup LeftOf(sync[c])
        BY <3>1, <3>2, <3>3, <3>7 DEF LeftOf
      <4>2. z \in Covered \cup sync[c].left \/ (sync[c].full /\ Rank(z, W) >= sync[c].page * PageSize)
        BY <3>3, <3>4, <3>5, <3>7, <4>1 DEF PageHolds, LeftOf, More, Listed
      <4> QED
        BY <3>1, <3>2, <3>6, <4>2
    <3> QED
      BY <3>3, <3>5, <3>7 DEF PageHolds, LeftOf, More, Listed
  <2>6. CASE NextPage(c)
    <3>1. PICK w \in ListingCall :
               /\ sync' = [sync EXCEPT ![c] = w]
               /\ w.branch = sync[c].branch /\ w.since = sync[c].since /\ w.page = sync[c].page + 1
      BY <1>1, <2>6, CallMoves
    <3>2. v = w
      BY <1>1, <1>3, <1>6, <3>1, OnlyOneMoves DEF SyncTypes
    <3>3. v.at = "listing" /\ sync[c].at = "page" /\ sync[c].left = {} /\ sync[c].page \in Nat \ {0}
      BY <2>1, <2>6, <3>2, SyncStates DEF ListingCall, NextPage, Working
    <3>4. PageHolds(sync[c])
      BY <1>1, <3>3 DEF Working
    <3>5. PICK W : W = Wanted(sync[c]) /\ W = Wanted(v)'
      BY <2>6, <3>1, <3>2 DEF Wanted, NextPage
    <3>6. commits' = commits /\ Covered' = Covered
      BY <2>6 DEF NextPage, Covered, syncSeen
    <3>7. v.page - 1 = sync[c].page
      BY <3>1, <3>2, <3>3
    <3>8. ASSUME NEW z \in W, NEW y \in commits, z + Overlap < y
          PROVE  z \in Covered \/ Rank(z, W) >= (v.page - 1) * PageSize
      BY <3>3, <3>4, <3>5, <3>7, <3>8 DEF PageHolds, LeftOf, More, Listed
    <3> QED
      BY <3>3, <3>5, <3>6, <3>8 DEF PageHolds, LeftOf, More, Listed
  <2> QED
    BY <1>6, <2>2, <2>3, <2>4, <2>5, <2>6
<1>7. sync'[d] = sync[d] \/ \E c \in Caller : c = d /\
        (Load(c) \/ Begin(c) \/ CallFails(c) \/ ListPage(c) \/ Item(c) \/ NextPage(c) \/ Finish(c))
  <2>1. ASSUME NEW c \in Caller, c # d,
               Load(c) \/ Begin(c) \/ CallFails(c) \/ ListPage(c) \/ Item(c) \/ NextPage(c) \/ Finish(c)
        PROVE  sync'[d] = sync[d]
    <3>1. PICK w : sync' = [sync EXCEPT ![c] = w]
      BY <1>1, <2>1, MovesTo
    <3> QED
      BY <1>1, <2>1, <3>1, OnlyOneMoves DEF SyncTypes
  <2>2. ~(sync' = [c \in Caller |-> IdleSync])
    BY <1>2 DEF IdleSync, Working
  <2> QED
    BY <1>1, <2>1, <2>2, WhoMoves
<1> QED
  BY <1>5, <1>6, <1>7

\* A commit of the tracked branch that no later sync will ask for is stored, or
\* could not be read, came after the last page, late, or under a sync of another
\* branch: for any number of commits, branches and callers, any page size and
\* overlap, and any number of failures, switches and crashes.
THEOREM NothingIsSkipped == SyncSpec => []NothingSkipped
<1>1. SyncInit => SyncInv
  BY SyncInvInit
<1>2. SyncInv /\ [SyncNext]_syncVars => SyncInv'
  <2> SUFFICES ASSUME SyncInv, [SyncNext]_syncVars PROVE SyncInv'
    OBVIOUS
  <2>1. CASE SyncNext
    BY <2>1, SyncTypesKept, OneSyncKept, RepoFetchedKept, RowsFetchedKept, WorkFetchedKept, PagesHoldKept DEF SyncInv
  <2>2. CASE UNCHANGED syncVars
    BY <2>2 DEF syncVars, SyncInv, SyncTypes, OneSync, RepoFetched, RowsFetched, WorkFetched, PagesHold, PageHolds,
                Fetched, Covered, PushedTo, SyncState, PageCall, Wanted
  <2> QED
    BY <2>1, <2>2
<1>3. SyncInv => NothingSkipped
  BY DEF SyncInv, RepoFetched, NothingSkipped, Fetched, Covered
<1> QED
  BY <1>1, <1>2, <1>3, PTL DEF SyncSpec

-----------------------------------------------------------------------------
(***************************************************************************)
(* DataIngest for any keys, documents, rules, filters and deliveries.  The *)
(* index of a key that nothing put behind is what the rules extract from   *)
(* the record, also while a reindex reads; and a delivery in progress      *)
(* whose item was written before is known to be in progress twice.         *)
(***************************************************************************)
DataSpec == DataInit /\ [][DataNext]_dataVars

Serving    == {"loaded", "open", "waiting", "accepted", "rejected"}
Unwritten  == {"loaded", "open", "waiting"}
IngestCall == [at : Serving, d : Delivery, rules : RuleSets, crossed : BOOLEAN]
Contents   == [PK -> Delivery \cup {Absent}]
Rebuild    == [at : {"loaded"}, rules : RuleSets]
              \cup [at : {"deleted"}, rules : RuleSets, missed : SUBSET PK]
              \cup [at : {"read"}, rules : RuleSets, missed : SUBSET PK, rows : Contents]

DataTypes ==
    /\ rules \in RuleSets
    /\ records \in Contents
    /\ index = [pk \in PK |-> index[pk]]
    /\ ingest = [s \in IngestSlot |-> ingest[s]]
    /\ \A s \in IngestSlot : ingest[s] = NoRequest \/ ingest[s] \in IngestCall
    /\ reindex = NoReindex \/ reindex \in Rebuild

\* The rows of a key that is not behind are those of its record.
IndexTrue ==
    \A pk \in PK \ behind : records[pk] # Absent => index[pk] = Extract(rules, DocOf[records[pk]])

\* What a reindex has read is there yet, but for the keys written since.
RebuildRead ==
    /\ Rebuilding => wipe = "no"
    /\ reindex.at = "read" => \A pk \in PK \ reindex.missed : reindex.rows[pk] = records[pk]

\* Of two copies in progress the delivery is marked, and so is a repetition of
\* what was written; what was written is saved, marked, or about to be answered.
PairsMarked ==
    \A s, o \in IngestSlot :
        s # o /\ ingest[s].at \in Serving /\ ingest[o].at \in Serving /\ ingest[s].d = ingest[o].d
            => ingest[s].d \in doubled
RepeatsMarked == \A s \in IngestSlot : ingest[s].at \in Unwritten /\ ingest[s].d \in taken => ingest[s].d \in doubled
TakenSaved ==
    \A d \in taken : d \in saved \cup doubled \/ \E s \in IngestSlot : ingest[s].at = "accepted" /\ ingest[s].d = d

DataInv == DataTypes /\ IndexTrue /\ RebuildRead /\ PairsMarked /\ RepeatsMarked /\ TakenSaved /\ WrittenOnce

\* A row of the index that a filter asks for.
FitsRow(f, e) == e.field = f.field /\ (f.key # "" => e.k = f.key) /\ Compares(f.op, e.v, f.value)

\* What the rules extract answers the filters as the document does: the two say
\* the same of a key that is not behind.
LEMMA ExtractAnswers ==
  ASSUME NEW R, NEW doc, NEW f
  PROVE  (\E e \in Extract(R, doc) : FitsRow(f, e)) <=> Satisfies(R, doc, f)
<1> USE DEF FitsRow
<1>1. ASSUME NEW e \in Extract(R, doc), FitsRow(f, e) PROVE Satisfies(R, doc, f)
  <2>1. CASE \E r \in R : r.path \in DOMAIN doc /\ r.mode = "scalar" /\ e = [field |-> r.field, k |-> "", v |-> doc[r.path]]
    <3>1. PICK r \in R : r.path \in DOMAIN doc /\ r.mode = "scalar"
                         /\ e = [field |-> r.field, k |-> "", v |-> doc[r.path]]
      BY <2>1
    <3>2. e.field = r.field /\ e.k = "" /\ e.v = doc[r.path]
      BY <3>1
    <3> QED
      BY <1>1, <3>1, <3>2 DEF Satisfies
  <2>2. CASE \E r \in R : r.path \in DOMAIN doc /\ r.mode = "array" /\ e \in ArrayEntries(r, doc[r.path])
    <3>1. PICK r \in R : r.path \in DOMAIN doc /\ r.mode = "array" /\ e \in ArrayEntries(r, doc[r.path])
      BY <2>2
    <3>2. PICK i \in LastOfKeys(doc[r.path]) :
            e = [field |-> r.field, k |-> doc[r.path][i].k, v |-> doc[r.path][i].v]
      BY <3>1 DEF ArrayEntries
    <3>3. e.field = r.field /\ e.k = doc[r.path][i].k /\ e.v = doc[r.path][i].v
      BY <3>2
    <3> QED
      BY <1>1, <3>1, <3>3 DEF Satisfies
  <2> QED
    BY <1>1, <2>1, <2>2 DEF Extract
<1>2. ASSUME Satisfies(R, doc, f) PROVE \E e \in Extract(R, doc) : FitsRow(f, e)
  <2>1. PICK r \in R : /\ r.field = f.field /\ r.path \in DOMAIN doc
                       /\ \/ r.mode = "scalar" /\ f.key = "" /\ Compares(f.op, doc[r.path], f.value)
                          \/ r.mode = "array" /\ \E i \in LastOfKeys(doc[r.path]) :
                               (f.key # "" => doc[r.path][i].k = f.key) /\ Compares(f.op, doc[r.path][i].v, f.value)
    BY <1>2 DEF Satisfies
  <2>2. CASE r.mode = "scalar" /\ f.key = "" /\ Compares(f.op, doc[r.path], f.value)
    <3> DEFINE e == [field |-> r.field, k |-> "", v |-> doc[r.path]]
    <3>1. e \in Extract(R, doc)
      BY <2>1, <2>2 DEF Extract
    <3>2. e.field = r.field /\ e.k = "" /\ e.v = doc[r.path]
      OBVIOUS
    <3>3. FitsRow(f, e)
      BY <2>1, <2>2, <3>2
    <3> QED
      BY <3>1, <3>3
  <2>3. CASE r.mode = "array" /\ \E i \in LastOfKeys(doc[r.path]) :
               (f.key # "" => doc[r.path][i].k = f.key) /\ Compares(f.op, doc[r.path][i].v, f.value)
    <3>1. PICK i \in LastOfKeys(doc[r.path]) :
               (f.key # "" => doc[r.path][i].k = f.key) /\ Compares(f.op, doc[r.path][i].v, f.value)
      BY <2>3
    <3> DEFINE e == [field |-> r.field, k |-> doc[r.path][i].k, v |-> doc[r.path][i].v]
    <3>2. e \in ArrayEntries(r, doc[r.path])
      BY DEF ArrayEntries
    <3>3. e \in Extract(R, doc)
      BY <2>1, <2>3, <3>2 DEF Extract
    <3>4. e.field = r.field /\ e.k = doc[r.path][i].k /\ e.v = doc[r.path][i].v
      OBVIOUS
    <3>5. FitsRow(f, e)
      BY <2>1, <3>1, <3>4
    <3> QED
      BY <3>3, <3>5
  <2> QED
    BY <2>1, <2>2, <2>3
<1> QED
  BY <1>1, <1>2

\* Where the index is true, so are the answers.
LEMMA TrueAnswers ==
  ASSUME DataInv
  PROVE  IngestHolds
<1>1. ASSUME NEW pk \in PK \ behind, records[pk] # Absent, NEW f \in Filters
      PROVE  pk \in Answers(f) <=> Satisfies(rules, DocOf[records[pk]], f)
  <2>1. index[pk] = Extract(rules, DocOf[records[pk]])
    BY <1>1 DEF DataInv, IndexTrue
  <2>2. pk \in Answers(f) <=> \E e \in index[pk] : FitsRow(f, e)
    <3>1. Answers(f) = { q \in PK : records[q] # Absent /\ \E e \in index[q] : FitsRow(f, e) }
      BY Zenon DEF Answers, FitsRow
    <3> QED
      BY <1>1, <3>1
  <2> QED
    BY <2>1, <2>2, ExtractAnswers
<1> QED
  BY <1>1 DEF DataInv, IngestHolds, QueriesTrue

\* The rows of no rows are the entries.
LEMMA OverNothing == \A entries : Over(entries, {}) = entries
BY DEF Over

\* A request under way is one, and its key is a key.
LEMMA CallsAre ==
  ASSUME DataTypes, NEW s \in IngestSlot
  PROVE  /\ ingest[s] = NoRequest <=> ~(ingest[s].at \in Serving)
         /\ ingest[s].at \in Serving => /\ ingest[s] \in IngestCall /\ ingest[s].d \in Delivery
                                        /\ ingest[s].rules \in RuleSets /\ ingest[s].crossed \in BOOLEAN
                                        /\ AtKey(s) \in PK
<1>1. CASE ingest[s] = NoRequest
  <2>1. ingest[s].at = "free"
    BY <1>1 DEF NoRequest
  <2> QED
    BY <1>1, <2>1 DEF Serving
<1>2. CASE ingest[s] \in IngestCall
  <2>1. /\ ingest[s].at \in Serving /\ ingest[s].d \in Delivery
        /\ ingest[s].rules \in RuleSets /\ ingest[s].crossed \in BOOLEAN
    BY <1>2 DEF IngestCall
  <2>2. ingest[s] # NoRequest
    <3>1. NoRequest.at = "free"
      BY DEF NoRequest
    <3> QED
      BY <2>1, <3>1 DEF Serving
  <2> QED
    BY <1>2, <2>1, <2>2, DataAssumption DEF AtKey
<1> QED
  BY <1>1, <1>2 DEF DataTypes

\* A request that moves on stays what it is, and the others do.
LEMMA SlotGoesOn ==
  ASSUME DataTypes, NEW s \in IngestSlot, ingest[s].at \in Serving, NEW a \in Serving,
         ingest' = [ingest EXCEPT ![s].at = a]
  PROVE  /\ ingest' = [o \in IngestSlot |-> ingest'[o]]
         /\ ingest'[s] \in IngestCall /\ ingest'[s].at = a /\ ingest'[s].d = ingest[s].d
         /\ \A o \in IngestSlot : o # s => ingest'[o] = ingest[o]
<1>1. PICK r \in IngestCall : r = ingest[s]
  BY CallsAre
<1>2. PICK v : v = [r EXCEPT !.at = a]
  OBVIOUS
<1>3. v \in IngestCall /\ v.at = a /\ v.d = r.d
  BY <1>2 DEF IngestCall
<1>4. ingest' = [ingest EXCEPT ![s] = v]
  BY <1>1, <1>2 DEF DataTypes
<1>5. DOMAIN ingest = IngestSlot
  BY DEF DataTypes
<1>6. ingest' = [o \in IngestSlot |-> ingest'[o]] /\ ingest'[s] = v
  BY <1>4, <1>5
<1>7. \A o \in IngestSlot : o # s => ingest'[o] = ingest[o]
  BY <1>4, <1>5
<1> QED
  BY <1>1, <1>3, <1>6, <1>7

\* A slot that takes or ends a request leaves the others where they are.
LEMMA SlotTakes ==
  ASSUME DataTypes, NEW s \in IngestSlot, NEW v, ingest' = [ingest EXCEPT ![s] = v]
  PROVE  /\ ingest' = [o \in IngestSlot |-> ingest'[o]] /\ ingest'[s] = v
         /\ \A o \in IngestSlot : o # s => ingest'[o] = ingest[o]
BY DEF DataTypes

\* The requests that a step moves: one of them, those a reindex crosses, or none.
LEMMA WhoIsServed ==
  ASSUME DataTypes, DataNext
  PROVE  \/ \E s \in IngestSlot :
              \/ \E d \in Delivery : Ingest(s, d)
              \/ UpsertBegins(s) \/ UpsertCommits(s) \/ UpsertFails(s)
              \/ \E saves, hears \in BOOLEAN : Answer(s, saves, hears)
         \/ ReindexCommits
         \/ UNCHANGED <<ingest, taken, again>> /\ doubled \subseteq doubled' /\ saved \subseteq saved' \cup doubled'
BY DEF DataNext, PostDataset, PutDataset, SetDataset, ReindexLoads, ReindexDeletes, ReindexReads, ReindexFails,
       PurgeRecords, PurgeDeliveries, PurgeRows, WipeRows, WipeRecords, WipeFails, DropDataset, dataSeen

\* The calls stay calls.
LEMMA IngestKept ==
  ASSUME DataTypes, DataNext
  PROVE  /\ ingest' = [s \in IngestSlot |-> ingest'[s]]
         /\ \A s \in IngestSlot : ingest'[s] = NoRequest \/ ingest'[s] \in IngestCall
<1>0. \A s \in IngestSlot : ingest[s] = NoRequest \/ ingest[s] \in IngestCall
  BY DEF DataTypes
<1>1. ASSUME NEW s \in IngestSlot, NEW d \in Delivery, Ingest(s, d)
      PROVE  /\ ingest' = [o \in IngestSlot |-> ingest'[o]]
             /\ \A o \in IngestSlot : ingest'[o] = NoRequest \/ ingest'[o] \in IngestCall
  <2>1. CASE ingest' = ingest
    BY <1>0, <2>1 DEF DataTypes
  <2>2. CASE ingest' = [ingest EXCEPT ![s] = [at |-> "loaded", d |-> d, rules |-> rules, crossed |-> FALSE]]
    <3>1. [at |-> "loaded", d |-> d, rules |-> rules, crossed |-> FALSE] \in IngestCall
      BY DEF IngestCall, Serving, DataTypes
    <3> QED
      BY <1>0, <2>2, <3>1, SlotTakes
  <2> QED
    BY <1>1, <2>1, <2>2 DEF Ingest
<1>2. ASSUME NEW s \in IngestSlot, NEW a \in Serving, ingest[s].at \in Serving, ingest' = [ingest EXCEPT ![s].at = a]
      PROVE  /\ ingest' = [o \in IngestSlot |-> ingest'[o]]
             /\ \A o \in IngestSlot : ingest'[o] = NoRequest \/ ingest'[o] \in IngestCall
  BY <1>0, <1>2, SlotGoesOn
<1>3. ASSUME NEW s \in IngestSlot, UpsertBegins(s) \/ UpsertCommits(s) \/ UpsertFails(s)
      PROVE  \E a \in Serving : ingest[s].at \in Serving /\ ingest' = [ingest EXCEPT ![s].at = a]
  BY <1>3 DEF UpsertBegins, UpsertCommits, UpsertFails, Serving
<1>4. ASSUME NEW s \in IngestSlot, NEW saves \in BOOLEAN, NEW hears \in BOOLEAN, Answer(s, saves, hears)
      PROVE  /\ ingest' = [o \in IngestSlot |-> ingest'[o]]
             /\ \A o \in IngestSlot : ingest'[o] = NoRequest \/ ingest'[o] \in IngestCall
  <2>1. ingest' = [ingest EXCEPT ![s] = NoRequest]
    BY <1>4 DEF Answer
  <2> QED
    BY <1>0, <2>1, SlotTakes
<1>5. ASSUME ReindexCommits
      PROVE  /\ ingest' = [o \in IngestSlot |-> ingest'[o]]
             /\ \A o \in IngestSlot : ingest'[o] = NoRequest \/ ingest'[o] \in IngestCall
  <2>1. ingest' = [s \in IngestSlot |-> IF ingest[s].at \in {"open", "waiting"}
                                        THEN [ingest[s] EXCEPT !.crossed = TRUE] ELSE ingest[s]]
    BY <1>5 DEF ReindexCommits
  <2>2. ASSUME NEW o \in IngestSlot PROVE ingest'[o] = NoRequest \/ ingest'[o] \in IngestCall
    <3>1. CASE ingest[o].at \in {"open", "waiting"}
      <4>1. PICK r \in IngestCall : r = ingest[o]
        BY <3>1, CallsAre DEF Serving
      <4>2. [r EXCEPT !.crossed = TRUE] \in IngestCall
        BY DEF IngestCall
      <4> QED
        BY <2>1, <3>1, <4>1, <4>2
    <3>2. CASE ~(ingest[o].at \in {"open", "waiting"})
      BY <1>0, <2>1, <3>2
    <3> QED
      BY <3>1, <3>2
  <2>3. ingest' = [o \in IngestSlot |-> ingest'[o]]
    BY <2>1
  <2> QED
    BY <2>2, <2>3
<1>6. CASE ingest' = ingest
  BY <1>0, <1>6 DEF DataTypes
<1> QED
  BY <1>1, <1>2, <1>3, <1>4, <1>5, <1>6, WhoIsServed

\* The states of a reindex.
LEMMA RebuildIs ==
  ASSUME reindex = NoReindex \/ reindex \in Rebuild
  PROVE  /\ reindex.at \in {"none", "loaded", "deleted", "read"}
         /\ reindex # NoReindex => reindex.rules \in RuleSets
         /\ reindex.at = "loaded" => reindex \in [at : {"loaded"}, rules : RuleSets]
         /\ reindex.at = "deleted" => reindex \in [at : {"deleted"}, rules : RuleSets, missed : SUBSET PK]
         /\ reindex.at = "read" => reindex \in [at : {"read"}, rules : RuleSets, missed : SUBSET PK, rows : Contents]
<1>1. CASE reindex = NoReindex
  <2>1. reindex.at = "none"
    BY <1>1 DEF NoReindex
  <2> QED
    BY <1>1, <2>1
<1>2. CASE reindex \in [at : {"loaded"}, rules : RuleSets]
  BY <1>2
<1>3. CASE reindex \in [at : {"deleted"}, rules : RuleSets, missed : SUBSET PK]
  BY <1>3
<1>4. CASE reindex \in [at : {"read"}, rules : RuleSets, missed : SUBSET PK, rows : Contents]
  BY <1>4
<1> QED
  BY <1>1, <1>2, <1>3, <1>4 DEF Rebuild

\* The tables, the calls and the reindex keep their types.
LEMMA DataTypesKept ==
  ASSUME DataTypes, DataNext
  PROVE  DataTypes'
<1>1. ingest' = [s \in IngestSlot |-> ingest'[s]] /\ \A s \in IngestSlot : ingest'[s] = NoRequest \/ ingest'[s] \in IngestCall
  BY IngestKept
<1>2. rules' \in RuleSets
  BY DEF DataTypes, DataNext, Ingest, UpsertBegins, UpsertCommits, UpsertFails, Answer, PostDataset, PutDataset, SetDataset,
         ReindexLoads, ReindexDeletes, ReindexReads, ReindexCommits, ReindexFails, PurgeRecords, PurgeDeliveries, PurgeRows,
         WipeRows, WipeRecords, WipeFails, DropDataset, dataConfig
<1>3. records' \in Contents
  <2>1. CASE records' = records
    BY <2>1 DEF DataTypes
  <2>2. ASSUME NEW s \in IngestSlot, UpsertCommits(s) PROVE records' \in Contents
    <3>1. PICK d \in Delivery, pk \in PK : d = ingest[s].d /\ pk = AtKey(s)
      BY <2>2, CallsAre DEF UpsertCommits, Serving
    <3>2. records' = [records EXCEPT ![pk] = d]
      BY <2>2, <3>1 DEF UpsertCommits
    <3> QED
      BY <3>2 DEF DataTypes, Contents
  <2>3. ASSUME NEW S \in SUBSET PK, PurgeRecords(S) PROVE records' \in Contents
    BY <2>3 DEF PurgeRecords, DataTypes, Contents
  <2>4. CASE WipeRecords
    BY <2>4 DEF WipeRecords, Contents
  <2>5. records' = records \/ (\E s \in IngestSlot : UpsertCommits(s)) \/ (\E S \in SUBSET PK : PurgeRecords(S)) \/ WipeRecords
    BY DEF DataNext, Ingest, UpsertBegins, UpsertFails, Answer, PostDataset, PutDataset, SetDataset, ReindexLoads,
           ReindexDeletes, ReindexReads, ReindexCommits, ReindexFails, PurgeDeliveries, PurgeRows, WipeRows, WipeFails,
           DropDataset, dataRows
  <2> QED
    BY <2>1, <2>2, <2>3, <2>4, <2>5
<1>4. index' = [pk \in PK |-> index'[pk]]
  <2>1. CASE index' = index
    BY <2>1 DEF DataTypes
  <2>2. ASSUME NEW s \in IngestSlot, UpsertCommits(s) PROVE index' = [pk \in PK |-> index'[pk]]
    BY <2>2 DEF UpsertCommits, DataTypes
  <2>3. CASE ReindexCommits \/ PurgeRows \/ WipeRows
    BY <2>3 DEF ReindexCommits, PurgeRows, WipeRows
  <2>4. index' = index \/ (\E s \in IngestSlot : UpsertCommits(s)) \/ ReindexCommits \/ PurgeRows \/ WipeRows
    BY DEF DataNext, Ingest, UpsertBegins, UpsertFails, Answer, PostDataset, PutDataset, SetDataset, ReindexLoads,
           ReindexDeletes, ReindexReads, ReindexFails, PurgeRecords, PurgeDeliveries, WipeRecords, WipeFails,
           DropDataset, dataRows
  <2> QED
    BY <2>1, <2>2, <2>3, <2>4
<1>5. reindex' = NoReindex \/ reindex' \in Rebuild
  <2>1. CASE reindex' = reindex
    BY <2>1 DEF DataTypes
  <2>2. ASSUME NEW s \in IngestSlot, UpsertCommits(s), Rebuilding PROVE reindex' \in Rebuild
    <3>1. PICK pk \in PK : pk = AtKey(s)
      BY <2>2, CallsAre DEF UpsertCommits, Serving
    <3>2. reindex' = [reindex EXCEPT !.missed = @ \cup {pk}]
      BY <2>2, <3>1 DEF UpsertCommits
    <3>3. CASE reindex.at = "deleted"
      <4>1. PICK r \in [at : {"deleted"}, rules : RuleSets, missed : SUBSET PK] : r = reindex
        BY <3>3, RebuildIs DEF DataTypes
      <4>2. [r EXCEPT !.missed = @ \cup {pk}] \in [at : {"deleted"}, rules : RuleSets, missed : SUBSET PK]
        OBVIOUS
      <4> QED
        BY <3>2, <4>1, <4>2 DEF Rebuild
    <3>4. CASE reindex.at = "read"
      <4>1. PICK r \in [at : {"read"}, rules : RuleSets, missed : SUBSET PK, rows : Contents] : r = reindex
        BY <3>4, RebuildIs DEF DataTypes
      <4>2. [r EXCEPT !.missed = @ \cup {pk}] \in [at : {"read"}, rules : RuleSets, missed : SUBSET PK, rows : Contents]
        OBVIOUS
      <4> QED
        BY <3>2, <4>1, <4>2 DEF Rebuild
    <3> QED
      BY <2>2, <3>3, <3>4 DEF Rebuilding
  <2>3. CASE ReindexLoads
    BY <2>3 DEF ReindexLoads, DataTypes, Rebuild
  <2>4. CASE ReindexDeletes
    <3>1. reindex.rules \in RuleSets
      BY <2>4, RebuildIs DEF ReindexDeletes, DataTypes
    <3> QED
      BY <2>4, <3>1 DEF ReindexDeletes, Rebuild
  <2>5. CASE ReindexReads
    <3>1. PICK r \in [at : {"deleted"}, rules : RuleSets, missed : SUBSET PK] : r = reindex
      BY <2>5, RebuildIs DEF ReindexReads, DataTypes
    <3> QED
      BY <2>5, <3>1 DEF ReindexReads, Rebuild, DataTypes
  <2>6. CASE ReindexCommits \/ ReindexFails
    BY <2>6 DEF ReindexCommits, ReindexFails
  <2>7. reindex' = reindex \/ (\E s \in IngestSlot : UpsertCommits(s) /\ Rebuilding)
        \/ ReindexLoads \/ ReindexDeletes \/ ReindexReads \/ ReindexCommits \/ ReindexFails
    BY DEF DataNext, Ingest, UpsertBegins, UpsertCommits, UpsertFails, Answer, PostDataset, PutDataset, SetDataset,
           PurgeRecords, PurgeDeliveries, PurgeRows, WipeRows, WipeRecords, WipeFails, DropDataset
  <2> QED
    BY <2>1, <2>2, <2>3, <2>4, <2>5, <2>6, <2>7
<1> QED
  BY <1>1, <1>2, <1>3, <1>4, <1>5 DEF DataTypes

\* A reindex keeps where it is and what it read while an upsert commits.
LEMMA UpsertMisses ==
  ASSUME DataTypes, NEW s \in IngestSlot, UpsertCommits(s), Rebuilding
  PROVE  /\ reindex'.at = reindex.at
         /\ reindex'.missed = reindex.missed \cup {AtKey(s)}
         /\ reindex.at = "read" => reindex'.rows = reindex.rows
<1>1. reindex' = [reindex EXCEPT !.missed = @ \cup {AtKey(s)}]
  BY DEF UpsertCommits
<1>2. CASE reindex.at = "deleted"
  <2>1. PICK r \in [at : {"deleted"}, rules : RuleSets, missed : SUBSET PK] : r = reindex
    BY <1>2, RebuildIs DEF DataTypes
  <2>2. PICK m : m = r.missed \cup {AtKey(s)}
    OBVIOUS
  <2>3. reindex' = [r EXCEPT !.missed = m]
    BY <1>1, <2>1, <2>2
  <2>4. reindex'.at = r.at /\ reindex'.missed = m
    BY <2>3
  <2> QED
    BY <1>2, <2>1, <2>2, <2>4
<1>3. CASE reindex.at = "read"
  <2>1. PICK r \in [at : {"read"}, rules : RuleSets, missed : SUBSET PK, rows : Contents] : r = reindex
    BY <1>3, RebuildIs DEF DataTypes
  <2>2. PICK m : m = r.missed \cup {AtKey(s)}
    OBVIOUS
  <2>3. reindex' = [r EXCEPT !.missed = m]
    BY <1>1, <2>1, <2>2
  <2>4. reindex'.at = r.at /\ reindex'.missed = m /\ reindex'.rows = r.rows
    BY <2>3
  <2> QED
    BY <2>1, <2>2, <2>4
<1> QED
  BY <1>2, <1>3 DEF Rebuilding

\* What a reindex has read is there until it commits.
LEMMA RebuildReadKept ==
  ASSUME DataInv, DataNext
  PROVE  RebuildRead'
<1>1. DataTypes /\ (Rebuilding => wipe = "no")
      /\ (reindex.at = "read" => \A pk \in PK \ reindex.missed : reindex.rows[pk] = records[pk])
  BY DEF DataInv, RebuildRead
<1>2. ASSUME UNCHANGED <<reindex, records>>, Rebuilding => wipe' = "no" PROVE RebuildRead'
  BY <1>1, <1>2 DEF RebuildRead, Rebuilding
<1>3. ASSUME NEW s \in IngestSlot, UpsertCommits(s) PROVE RebuildRead'
  <2>1. PICK d \in Delivery, pk \in PK : d = ingest[s].d /\ pk = AtKey(s)
    BY <1>1, <1>3, CallsAre DEF UpsertCommits, Serving
  <2>2. records' = [records EXCEPT ![pk] = d] /\ wipe' = wipe
    BY <1>3, <2>1 DEF UpsertCommits
  <2>3. CASE Rebuilding
    <3>1. reindex'.at = reindex.at /\ reindex'.missed = reindex.missed \cup {pk}
          /\ (reindex.at = "read" => reindex'.rows = reindex.rows)
      BY <1>1, <1>3, <2>1, <2>3, UpsertMisses
    <3>2. \A q \in PK : q # pk => records'[q] = records[q]
      BY <1>1, <2>2 DEF DataTypes, Contents
    <3> QED
      BY <1>1, <2>2, <2>3, <3>1, <3>2 DEF RebuildRead, Rebuilding
  <2>4. CASE ~Rebuilding
    <3>1. reindex' = reindex
      BY <1>3, <2>4 DEF UpsertCommits
    <3> QED
      BY <2>4, <3>1 DEF RebuildRead, Rebuilding
  <2> QED
    BY <2>3, <2>4
<1>4. CASE ReindexLoads
  <2>1. reindex'.at = "loaded"
    BY <1>4 DEF ReindexLoads
  <2> QED
    BY <2>1 DEF RebuildRead, Rebuilding
<1>5. CASE ReindexDeletes
  <2>1. reindex'.at = "deleted" /\ wipe' = "no"
    BY <1>5 DEF ReindexDeletes
  <2> QED
    BY <2>1 DEF RebuildRead, Rebuilding
<1>6. CASE ReindexReads
  <2>1. reindex'.at = "read" /\ reindex'.rows = records /\ records' = records /\ wipe' = wipe /\ Rebuilding
    BY <1>6 DEF ReindexReads, dataRows, Rebuilding
  <2> QED
    BY <1>1, <2>1 DEF RebuildRead
<1>7. CASE ReindexCommits \/ ReindexFails
  <2>1. reindex'.at = "none"
    BY <1>7 DEF ReindexCommits, ReindexFails, NoReindex
  <2> QED
    BY <2>1 DEF RebuildRead, Rebuilding
<1>8. ASSUME (\E S \in SUBSET PK : PurgeRecords(S)) \/ WipeRecords PROVE RebuildRead'
  <2>1. ~Rebuilding /\ reindex' = reindex
    BY <1>1, <1>8 DEF PurgeRecords, WipeRecords
  <2> QED
    BY <2>1 DEF RebuildRead, Rebuilding
<1>9. \/ UNCHANGED <<reindex, records>> /\ (Rebuilding => wipe' = "no")
      \/ \E s \in IngestSlot : UpsertCommits(s)
      \/ ReindexLoads \/ ReindexDeletes \/ ReindexReads \/ ReindexCommits \/ ReindexFails
      \/ (\E S \in SUBSET PK : PurgeRecords(S)) \/ WipeRecords
  BY <1>1 DEF DataNext, Ingest, UpsertBegins, UpsertFails, Answer, PostDataset, PutDataset, SetDataset,
              PurgeDeliveries, PurgeRows, WipeRows, WipeFails, DropDataset, dataRows
<1> QED
  BY <1>2, <1>3, <1>4, <1>5, <1>6, <1>7, <1>8, <1>9

\* The index stays true.
LEMMA IndexTrueKept ==
  ASSUME DataInv, DataNext
  PROVE  IndexTrue'
<1>1. DataTypes /\ RebuildRead
      /\ \A pk \in PK \ behind : records[pk] # Absent => index[pk] = Extract(rules, DocOf[records[pk]])
  BY DEF DataInv, IndexTrue
<1>2. SUFFICES ASSUME NEW pk \in PK, pk \notin behind', records'[pk] # Absent
               PROVE  index'[pk] = Extract(rules, DocOf[records[pk]])'
  BY DEF IndexTrue
<1>3. ASSUME rules' = rules, pk \notin behind, records'[pk] = records[pk], index'[pk] = index[pk]
      PROVE  index'[pk] = Extract(rules, DocOf[records[pk]])'
  BY <1>1, <1>2, <1>3
<1>4. ASSUME NEW s \in IngestSlot, UpsertCommits(s)
      PROVE  index'[pk] = Extract(rules, DocOf[records[pk]])'
  <2>1. PICK d \in Delivery, q \in PK : d = ingest[s].d /\ q = AtKey(s)
    BY <1>1, <1>4, CallsAre DEF UpsertCommits, Serving
  <2>2. records' = [records EXCEPT ![q] = d] /\ rules' = rules
    BY <1>4, <2>1 DEF UpsertCommits, dataConfig
  <2>3. CASE pk = q
    <3>1. ingest[s].rules = rules /\ ~ingest[s].crossed
      BY <1>2, <1>4, <2>1, <2>3 DEF UpsertCommits
    <3>2. index' = [index EXCEPT ![q] = Extract(rules, DocOf[d])]
      BY <1>4, <2>1, <3>1 DEF UpsertCommits
    <3>3. index'[pk] = Extract(rules, DocOf[d]) /\ records'[pk] = d
      BY <1>1, <2>2, <2>3, <3>2 DEF DataTypes, Contents
    <3> QED
      BY <2>2, <3>3
  <2>4. CASE pk # q
    <3>1. records'[pk] = records[pk]
      BY <1>1, <2>2, <2>4 DEF DataTypes, Contents
    <3>2. index'[pk] = index[pk]
      BY <1>1, <1>4, <2>1, <2>4 DEF UpsertCommits, DataTypes
    <3>3. pk \notin behind
      BY <1>2, <1>4, <2>1, <2>4 DEF UpsertCommits
    <3> QED
      BY <1>3, <2>2, <3>1, <3>2, <3>3
  <2> QED
    BY <2>3, <2>4
<1>5. ASSUME ReindexCommits
      PROVE  index'[pk] = Extract(rules, DocOf[records[pk]])'
  <2>1. reindex.at = "read" /\ rules' = rules /\ records' = records /\ index' = [q \in PK |-> Rebuilt(q)]
    BY <1>5 DEF ReindexCommits, dataConfig
  <2>2. reindex.rules = rules /\ pk \notin reindex.missed
    BY <1>2, <1>5 DEF ReindexCommits
  <2>3. reindex.rows[pk] = records[pk] /\ records[pk] # Absent
    BY <1>1, <1>2, <2>1, <2>2 DEF RebuildRead
  <2>4. Rebuilt(pk) = Over(Extract(rules, DocOf[records[pk]]), {})
    BY <2>2, <2>3 DEF Rebuilt
  <2>5. index'[pk] = Extract(rules, DocOf[records[pk]])
    BY <2>1, <2>4, OverNothing
  <2> QED
    BY <2>1, <2>5
<1>6. ASSUME NEW R, NEW state, SetDataset(R, state)
      PROVE  index'[pk] = Extract(rules, DocOf[records[pk]])'
  <2>1. rules' = rules /\ behind' = behind
    BY <1>2, <1>6 DEF SetDataset
  <2>2. records' = records /\ index' = index
    BY <1>6 DEF SetDataset, dataRows
  <2> QED
    BY <1>2, <1>3, <2>1, <2>2
<1>7. ASSUME NEW S \in SUBSET PK, PurgeRecords(S)
      PROVE  index'[pk] = Extract(rules, DocOf[records[pk]])'
  <2>1. records'[pk] = records[pk]
    BY <1>2, <1>7 DEF PurgeRecords
  <2> QED
    BY <1>2, <1>3, <1>7, <2>1 DEF PurgeRecords, dataConfig, dataSeen
<1>8. CASE PurgeRows
  <2>1. records' = records /\ index'[pk] = index[pk]
    BY <1>2, <1>8 DEF PurgeRows
  <2> QED
    BY <1>2, <1>3, <1>8, <2>1 DEF PurgeRows, dataConfig, dataSeen
<1>9. CASE WipeRows \/ WipeRecords
  BY <1>2, <1>9 DEF WipeRows, WipeRecords
<1>10. \/ rules' = rules /\ behind' = behind /\ records' = records /\ index' = index
       \/ (\E s \in IngestSlot : UpsertCommits(s)) \/ ReindexCommits
       \/ \E R \in RuleSets, state \in {"off", "on"} : SetDataset(R, state)
       \/ (\E S \in SUBSET PK : PurgeRecords(S)) \/ PurgeRows \/ WipeRows \/ WipeRecords
  BY DEF DataNext, Ingest, UpsertBegins, UpsertFails, Answer, PostDataset, PutDataset, ReindexLoads, ReindexDeletes,
         ReindexReads, ReindexFails, PurgeDeliveries, WipeFails, DropDataset, dataRows, dataConfig, dataSeen
<1> QED
  BY <1>2, <1>3, <1>4, <1>5, <1>6, <1>7, <1>8, <1>9, <1>10

\* What is written, saved and marked keeps together.
LEMMA MarksKept ==
  ASSUME DataInv, DataNext
  PROVE  PairsMarked' /\ RepeatsMarked' /\ TakenSaved' /\ WrittenOnce'
<1>1. DataTypes /\ PairsMarked /\ RepeatsMarked /\ TakenSaved /\ WrittenOnce
  BY DEF DataInv
<1>2. ASSUME UNCHANGED <<ingest, taken, again>>, doubled \subseteq doubled', saved \subseteq saved' \cup doubled'
      PROVE  PairsMarked' /\ RepeatsMarked' /\ TakenSaved' /\ WrittenOnce'
  <2>1. PairsMarked'
    BY <1>1, <1>2 DEF PairsMarked
  <2>2. RepeatsMarked'
    BY <1>1, <1>2 DEF RepeatsMarked
  <2>3. TakenSaved'
    BY <1>1, <1>2 DEF TakenSaved
  <2>4. WrittenOnce'
    BY <1>1, <1>2 DEF WrittenOnce
  <2> QED
    BY <2>1, <2>2, <2>3, <2>4
<1>3. ASSUME NEW s \in IngestSlot, NEW d \in Delivery, Ingest(s, d)
      PROVE  PairsMarked' /\ RepeatsMarked' /\ TakenSaved' /\ WrittenOnce'
  <2>1. UNCHANGED <<saved, taken, again>> /\ doubled \subseteq doubled'
    BY <1>3 DEF Ingest
  <2>2. CASE ingest' = ingest
    BY <1>2, <2>1, <2>2
  <2>3. CASE ingest' = [ingest EXCEPT ![s] = [at |-> "loaded", d |-> d, rules |-> rules, crossed |-> FALSE]]
             /\ d \notin saved
             /\ ((\E o \in IngestSlot \ {s} : ingest[o] # NoRequest /\ ingest[o].d = d) => d \in doubled')
    <3>1. PICK v : v = [at |-> "loaded", d |-> d, rules |-> rules, crossed |-> FALSE]
      OBVIOUS
    <3>2. v.at = "loaded" /\ v.d = d
      BY <3>1
    <3>3. ingest'[s] = v /\ \A o \in IngestSlot : o # s => ingest'[o] = ingest[o]
      BY <1>1, <2>3, <3>1, SlotTakes
    <3>4. \A o \in IngestSlot : o # s /\ ingest[o].at \in Serving /\ ingest[o].d = d => d \in doubled'
      BY <1>1, <2>3, CallsAre
    <3>5. ingest[s].at \notin Serving
      BY <1>1, <1>3, CallsAre DEF Ingest
    <3>6. PairsMarked'
      <4>1. ASSUME NEW o \in IngestSlot, NEW p \in IngestSlot, o # p, ingest'[o].at \in Serving,
                   ingest'[p].at \in Serving, ingest'[o].d = ingest'[p].d
            PROVE  ingest'[o].d \in doubled'
        <5>1. CASE o = s
          BY <3>2, <3>3, <3>4, <4>1, <5>1
        <5>2. CASE p = s
          BY <3>2, <3>3, <3>4, <4>1, <5>2
        <5>3. CASE o # s /\ p # s
          BY <1>1, <2>1, <3>3, <4>1, <5>3 DEF PairsMarked
        <5> QED
          BY <5>1, <5>2, <5>3
      <4> QED
        BY <4>1 DEF PairsMarked
    <3>7. d \in taken => d \in doubled'
      <4>1. ASSUME NEW o \in IngestSlot, ingest[o].at = "accepted", ingest[o].d = d PROVE d \in doubled'
        BY <3>4, <3>5, <4>1 DEF Serving
      <4> QED
        BY <1>1, <2>1, <2>3, <4>1 DEF TakenSaved
    <3>8. RepeatsMarked'
      BY <1>1, <2>1, <3>2, <3>3, <3>7 DEF RepeatsMarked
    <3>9. TakenSaved'
      <4>1. ASSUME NEW e \in taken, NEW o \in IngestSlot, ingest[o].at = "accepted", ingest[o].d = e
            PROVE  ingest'[o].at = "accepted" /\ ingest'[o].d = e
        BY <3>3, <3>5, <4>1 DEF Serving
      <4> QED
        BY <1>1, <2>1, <4>1 DEF TakenSaved
    <3>10. WrittenOnce'
      BY <1>1, <2>1 DEF WrittenOnce
    <3> QED
      BY <3>6, <3>8, <3>9, <3>10
  <2> QED
    BY <1>3, <2>2, <2>3 DEF Ingest, Known
<1>4. ASSUME NEW s \in IngestSlot, UpsertBegins(s) \/ UpsertFails(s)
      PROVE  PairsMarked' /\ RepeatsMarked' /\ TakenSaved' /\ WrittenOnce'
  <2>1. UNCHANGED <<saved, taken, again, doubled>>
    BY <1>4 DEF UpsertBegins, UpsertFails, dataSeen
  <2>2. PICK a \in Serving : a # "accepted" /\ ingest' = [ingest EXCEPT ![s].at = a]
    BY <1>4 DEF UpsertBegins, UpsertFails, Serving
  <2>3. ingest[s].at \in Unwritten /\ ingest[s].at \in Serving
    BY <1>4 DEF UpsertBegins, UpsertFails, Serving, Unwritten
  <2>4. ingest'[s].at = a /\ ingest'[s].d = ingest[s].d /\ \A o \in IngestSlot : o # s => ingest'[o] = ingest[o]
    BY <1>1, <2>2, <2>3, SlotGoesOn
  <2>5. PairsMarked'
    BY <1>1, <2>1, <2>3, <2>4 DEF PairsMarked
  <2>6. RepeatsMarked'
    BY <1>1, <2>1, <2>3, <2>4 DEF RepeatsMarked
  <2>7. TakenSaved'
    <3>1. ASSUME NEW o \in IngestSlot, ingest[o].at = "accepted" PROVE ingest'[o] = ingest[o]
      BY <2>3, <2>4, <3>1 DEF Unwritten
    <3> QED
      BY <1>1, <2>1, <3>1 DEF TakenSaved
  <2>8. WrittenOnce'
    BY <1>1, <2>1 DEF WrittenOnce
  <2> QED
    BY <2>5, <2>6, <2>7, <2>8
<1>5. ASSUME NEW s \in IngestSlot, UpsertCommits(s)
      PROVE  PairsMarked' /\ RepeatsMarked' /\ TakenSaved' /\ WrittenOnce'
  <2>1. UNCHANGED <<saved, doubled>> /\ taken' = taken \cup {ingest[s].d}
    BY <1>5 DEF UpsertCommits
  <2>2. ingest' = [ingest EXCEPT ![s].at = "accepted"]
    BY <1>5 DEF UpsertCommits
  <2>3. ingest[s].at \in Unwritten /\ ingest[s].at \in Serving /\ "accepted" \in Serving
    BY <1>5 DEF UpsertCommits, Serving, Unwritten
  <2>4. ingest'[s].at = "accepted" /\ ingest'[s].d = ingest[s].d /\ \A o \in IngestSlot : o # s => ingest'[o] = ingest[o]
    BY <1>1, <2>2, <2>3, SlotGoesOn
  <2>5. PairsMarked'
    BY <1>1, <2>1, <2>3, <2>4 DEF PairsMarked
  <2>6. RepeatsMarked'
    <3>1. ASSUME NEW o \in IngestSlot, ingest'[o].at \in Unwritten, ingest'[o].d \in taken' PROVE ingest'[o].d \in doubled
      <4>1. o # s /\ ingest'[o] = ingest[o]
        BY <2>4, <3>1 DEF Unwritten
      <4>2. CASE ingest[o].d \in taken
        BY <1>1, <3>1, <4>1, <4>2 DEF RepeatsMarked
      <4>3. CASE ingest[o].d = ingest[s].d
        <5>1. ingest[o].at \in Serving
          BY <3>1, <4>1 DEF Unwritten, Serving
        <5> QED
          BY <1>1, <2>3, <4>1, <4>3, <5>1 DEF PairsMarked
      <4> QED
        BY <2>1, <3>1, <4>1, <4>2, <4>3
    <3> QED
      BY <2>1, <3>1 DEF RepeatsMarked
  <2>7. TakenSaved'
    <3>1. ASSUME NEW o \in IngestSlot, ingest[o].at = "accepted" PROVE ingest'[o] = ingest[o]
      BY <2>3, <2>4, <3>1 DEF Unwritten
    <3> QED
      BY <1>1, <2>1, <2>4, <3>1 DEF TakenSaved
  <2>8. WrittenOnce'
    <3>1. again' = (IF ingest[s].d \in taken THEN again \cup {ingest[s].d} ELSE again)
      BY <1>5 DEF UpsertCommits
    <3>2. ingest[s].d \in taken => ingest[s].d \in doubled
      BY <1>1, <2>3 DEF RepeatsMarked
    <3> QED
      BY <1>1, <2>1, <3>1, <3>2 DEF WrittenOnce
  <2> QED
    BY <2>5, <2>6, <2>7, <2>8
<1>6. ASSUME NEW s \in IngestSlot, NEW saves \in BOOLEAN, NEW hears \in BOOLEAN, Answer(s, saves, hears)
      PROVE  PairsMarked' /\ RepeatsMarked' /\ TakenSaved' /\ WrittenOnce'
  <2>1. UNCHANGED <<taken, again>> /\ saved \subseteq saved' /\ doubled \subseteq doubled' /\ ingest[s].d \in saved' \cup doubled'
    BY <1>6 DEF Answer
  <2>2. ingest' = [ingest EXCEPT ![s] = NoRequest]
    BY <1>6 DEF Answer
  <2>3. ingest'[s] = NoRequest /\ \A o \in IngestSlot : o # s => ingest'[o] = ingest[o]
    BY <1>1, <2>2, SlotTakes
  <2>4. NoRequest.at = "free"
    BY DEF NoRequest
  <2>5. PairsMarked'
    BY <1>1, <2>1, <2>3, <2>4 DEF PairsMarked, Serving
  <2>6. RepeatsMarked'
    BY <1>1, <2>1, <2>3, <2>4 DEF RepeatsMarked, Unwritten
  <2>7. TakenSaved'
    BY <1>1, <2>1, <2>3 DEF TakenSaved
  <2>8. WrittenOnce'
    BY <1>1, <2>1 DEF WrittenOnce
  <2> QED
    BY <2>5, <2>6, <2>7, <2>8
<1>7. ASSUME ReindexCommits
      PROVE  PairsMarked' /\ RepeatsMarked' /\ TakenSaved' /\ WrittenOnce'
  <2>1. UNCHANGED <<saved, taken, again, doubled>>
    BY <1>7 DEF ReindexCommits
  <2>2. \A o \in IngestSlot : ingest'[o].at = ingest[o].at /\ (ingest[o].at \in Serving => ingest'[o].d = ingest[o].d)
    <3>1. ASSUME NEW o \in IngestSlot
          PROVE  ingest'[o].at = ingest[o].at /\ (ingest[o].at \in Serving => ingest'[o].d = ingest[o].d)
      <4>1. CASE ingest[o].at \in {"open", "waiting"}
        <5>1. PICK r \in IngestCall : r = ingest[o]
          BY <1>1, <4>1, CallsAre DEF Serving
        <5>2. ingest'[o] = [r EXCEPT !.crossed = TRUE]
          BY <1>7, <4>1, <5>1 DEF ReindexCommits
        <5>3. ingest'[o].at = r.at /\ ingest'[o].d = r.d
          BY <5>2 DEF IngestCall
        <5> QED
          BY <5>1, <5>3
      <4>2. CASE ~(ingest[o].at \in {"open", "waiting"})
        BY <1>7, <4>2 DEF ReindexCommits
      <4> QED
        BY <4>1, <4>2
    <3> QED
      BY <3>1
  <2>3. Unwritten \subseteq Serving /\ "accepted" \in Serving
    BY DEF Unwritten, Serving
  <2>4. PairsMarked'
    BY <1>1, <2>1, <2>2 DEF PairsMarked
  <2>5. RepeatsMarked'
    BY <1>1, <2>1, <2>2, <2>3 DEF RepeatsMarked
  <2>6. TakenSaved'
    BY <1>1, <2>1, <2>2, <2>3 DEF TakenSaved
  <2>7. WrittenOnce'
    BY <1>1, <2>1 DEF WrittenOnce
  <2> QED
    BY <2>4, <2>5, <2>6, <2>7
<1> QED
  BY <1>1, <1>2, <1>3, <1>4, <1>5, <1>6, <1>7, WhoIsServed

\* Initially nothing is written.
LEMMA DataInvInit == DataInit => DataInv
<1> SUFFICES ASSUME DataInit PROVE DataInv
  OBVIOUS
<1>1. \A s \in IngestSlot : ingest[s] = NoRequest /\ ingest[s].at = "free"
  BY DEF DataInit, NoRequest
<1>2. reindex = NoReindex /\ reindex.at = "none"
  BY DEF DataInit, NoReindex
<1>3. DataTypes
  BY <1>1, <1>2 DEF DataInit, DataTypes, Contents
<1>4. IndexTrue
  BY DEF DataInit, IndexTrue
<1>5. RebuildRead
  BY <1>2 DEF RebuildRead, Rebuilding
<1>6. PairsMarked /\ RepeatsMarked /\ TakenSaved /\ WrittenOnce
  BY <1>1 DEF DataInit, PairsMarked, RepeatsMarked, TakenSaved, WrittenOnce, Serving, Unwritten
<1> QED
  BY <1>3, <1>4, <1>5, <1>6 DEF DataInv

\* For any keys, documents (a key of an array may repeat), rules and filters,
\* any number of deliveries, requests and failures: the filters find the records
\* that satisfy them, but for the keys put behind, and a delivery is written
\* once, but for those marked.
THEOREM IngestIsKept == DataSpec => []IngestHolds
<1>1. DataInit => DataInv
  BY DataInvInit
<1>2. DataInv /\ [DataNext]_dataVars => DataInv'
  <2> SUFFICES ASSUME DataInv, [DataNext]_dataVars PROVE DataInv'
    OBVIOUS
  <2>1. CASE DataNext
    <3>1. DataTypes'
      BY <2>1, DataTypesKept DEF DataInv
    <3> QED
      BY <2>1, <3>1, IndexTrueKept, RebuildReadKept, MarksKept DEF DataInv
  <2>2. CASE UNCHANGED dataVars
    BY <2>2 DEF dataVars, DataInv, DataTypes, IndexTrue, RebuildRead, PairsMarked, RepeatsMarked, TakenSaved,
                WrittenOnce, Rebuilding
  <2> QED
    BY <2>1, <2>2
<1>3. DataInv => IngestHolds
  BY TrueAnswers
<1> QED
  BY <1>1, <1>2, <1>3, PTL DEF DataSpec

-----------------------------------------------------------------------------
(***************************************************************************)
(* Migrations for any number of replicas and files and any number of       *)
(* failures: a file is in the database once.  What makes it inductive is   *)
(* that a version inserted and not yet committed belongs to one replica,   *)
(* whose look at the ledger has found every file before it.                *)
(***************************************************************************)

MigrationsTypeOK ==
    /\ ledger \subseteq Migration
    /\ ran \in [Migration -> Nat]
    /\ starter \in [Starter -> [at : {"look", "open", "ran", "recorded", "serves", "down"},
                                build : 0 .. LastVersion, next : 1 .. LastVersion + 1]]

\* The file in hand is one of the build, and all before it are in the ledger.
InOrder ==
    \A r \in Starter :
        /\ starter[r].at \in {"open", "ran", "recorded"} => starter[r].next <= starter[r].build
        /\ starter[r].at # "down" => \A u \in Migration : u < starter[r].next => u \in ledger
        /\ starter[r].at = "serves" => starter[r].build < starter[r].next

\* An inserted row is not committed, and nobody else has inserted it.
OneInserter ==
    \A r \in Starter : At(r, "recorded") =>
        /\ starter[r].next \notin ledger
        /\ \A q \in Starter : At(q, "recorded") /\ starter[q].next = starter[r].next => q = r

RanOnce == \A v \in Migration : ran[v] = IF v \in ledger THEN 1 ELSE 0
NoGap   == \A v \in ledger : \A u \in Migration : u <= v => u \in ledger

MigrationsInv == MigrationsTypeOK /\ InOrder /\ OneInserter /\ RanOnce /\ NoGap

\* Nothing is applied, and every replica looks at the first file.
LEMMA MigrationsStart == MigrationsInit => MigrationsInv
BY VersionAssumption DEF MigrationsInit, MigrationsInv, MigrationsTypeOK, InOrder, OneInserter,
   RanOnce, NoGap, Migration, At

\* A step of a replica that leaves the ledger alone, and whose new state is in
\* order and inserts nothing that another has inserted.
LEMMA QuietStep ==
  ASSUME MigrationsInv, NEW r \in Starter,
         NEW s \in [at : {"look", "open", "ran", "recorded", "serves", "down"},
                    build : 0 .. LastVersion, next : 1 .. LastVersion + 1],
         starter' = [starter EXCEPT ![r] = s], UNCHANGED <<ledger, ran>>,
         s.at \in {"open", "ran", "recorded"} => s.next <= s.build,
         s.at # "down" => \A u \in Migration : u < s.next => u \in ledger,
         s.at = "serves" => s.build < s.next,
         s.at = "recorded" => Insertable(s.next)
  PROVE  MigrationsInv'
<1>1. \A q \in Starter : starter'[q] = IF q = r THEN s ELSE starter[q]
  BY DEF MigrationsInv, MigrationsTypeOK
<1>2. MigrationsTypeOK'
  BY DEF MigrationsInv, MigrationsTypeOK, Migration
<1>3. InOrder'
  BY <1>1 DEF MigrationsInv, InOrder, Migration
<1>4. OneInserter'
  BY <1>1 DEF MigrationsInv, OneInserter, Insertable, At
<1>5. RanOnce' /\ NoGap'
  BY DEF MigrationsInv, RanOnce, NoGap, Migration
<1> QED
  BY <1>2, <1>3, <1>4, <1>5 DEF MigrationsInv

\* The commit of a file adds the one version its replica has inserted.
LEMMA CommitStep ==
  ASSUME MigrationsInv, NEW r \in Starter, NEW answers \in BOOLEAN, CommitFile(r, answers)
  PROVE  MigrationsInv'
<1> DEFINE v == starter[r].next
<1>1. starter[r].at = "recorded"
  BY DEF CommitFile, At
<1>2. starter[r].build \in 0 .. LastVersion /\ v \in 1 .. LastVersion + 1
  BY DEF MigrationsInv, MigrationsTypeOK
<1>3. v \in Migration /\ v \notin ledger /\ v <= starter[r].build
      /\ \A u \in Migration : u < v => u \in ledger
  BY <1>1, <1>2, VersionAssumption DEF MigrationsInv, InOrder, OneInserter, At, Migration
<1>4. ledger' = ledger \cup {v} /\ ran' = [ran EXCEPT ![v] = @ + 1]
  BY DEF CommitFile
<1>5. \A q \in Starter : q # r => starter'[q] = starter[q]
  BY DEF MigrationsInv, MigrationsTypeOK, CommitFile
<1>6. starter'[r].at \in {"look", "down"} /\ starter'[r].build = starter[r].build
      /\ starter'[r].next = v + 1
  BY DEF MigrationsInv, MigrationsTypeOK, CommitFile
<1>7. MigrationsTypeOK'
  <2>1. ledger' \subseteq Migration /\ ran' \in [Migration -> Nat]
    BY <1>3, <1>4 DEF MigrationsInv, MigrationsTypeOK
  <2> DEFINE s == [at |-> IF answers THEN "look" ELSE "down", build |-> starter[r].build,
                   next |-> v + 1]
  <2>2. starter' = [starter EXCEPT ![r] = s]
    BY DEF CommitFile, MigrationsInv, MigrationsTypeOK
  <2>3. s \in [at : {"look", "open", "ran", "recorded", "serves", "down"},
               build : 0 .. LastVersion, next : 1 .. LastVersion + 1]
    <3>1. s.at \in {"look", "down"} /\ v + 1 \in 1 .. LastVersion + 1
      BY <1>3, <1>2, VersionAssumption DEF Migration
    <3> QED
      BY <1>2, <3>1
  <2> QED
    BY <2>1, <2>2, <2>3 DEF MigrationsInv, MigrationsTypeOK
<1>8. InOrder'
  <2>1. ASSUME NEW q \in Starter, q # r
        PROVE  /\ starter'[q].at \in {"open", "ran", "recorded"} => starter'[q].next <= starter'[q].build
               /\ starter'[q].at # "down" => \A u \in Migration : u < starter'[q].next => u \in ledger'
               /\ starter'[q].at = "serves" => starter'[q].build < starter'[q].next
    BY <1>4, <1>5, <2>1 DEF MigrationsInv, InOrder
  <2>2. \A u \in Migration : u < starter'[r].next => u \in ledger'
    BY <1>3, <1>4, <1>6 DEF Migration
  <2> QED
    BY <1>6, <2>1, <2>2 DEF InOrder, Migration
<1>9. OneInserter'
  <2>1. ~At(r, "recorded")' /\ starter[r].at = "recorded"
    BY <1>6 DEF CommitFile, At
  <2>2. ASSUME NEW q \in Starter, q # r, starter[q].at = "recorded"
        PROVE  starter[q].next \notin ledger'
    BY <1>4, <2>1, <2>2 DEF MigrationsInv, OneInserter, At
  <2> QED
    BY <1>5, <2>1, <2>2 DEF MigrationsInv, OneInserter, At
<1>10. RanOnce'
  BY <1>3, <1>4 DEF MigrationsInv, MigrationsTypeOK, RanOnce, Migration
<1>11. NoGap'
  BY <1>3, <1>4 DEF MigrationsInv, MigrationsTypeOK, NoGap, Migration
<1> QED
  BY <1>7, <1>8, <1>9, <1>10, <1>11 DEF MigrationsInv

\* Every action keeps the invariant.
LEMMA MigrationsStep == MigrationsInv /\ [MigrationsNext]_migrationVars => MigrationsInv'
<1> SUFFICES ASSUME MigrationsInv, [MigrationsNext]_migrationVars PROVE MigrationsInv'
  OBVIOUS
<1> DEFINE State == [at : {"look", "open", "ran", "recorded", "serves", "down"},
                     build : 0 .. LastVersion, next : 1 .. LastVersion + 1]
<1>1. \A r \in Starter : starter[r] \in State
  BY DEF MigrationsInv, MigrationsTypeOK
<1>2. ASSUME NEW r \in Starter, Look(r) PROVE MigrationsInv'
  <2>1. CASE starter[r].next > starter[r].build /\ Reaches(r, "serves")
    BY <1>1, <1>2, <2>1, QuietStep DEF Look, Reaches, At, MigrationsInv, InOrder, MigrationsTypeOK
  <2>2. CASE starter[r].next <= starter[r].build /\ starter[r].next \in ledger
             /\ starter' = [starter EXCEPT ![r].next = @ + 1]
    <3> DEFINE s == [starter[r] EXCEPT !.next = @ + 1]
    <3>1. s \in State /\ starter' = [starter EXCEPT ![r] = s] /\ s.at = "look"
      BY <1>1, <1>2, <2>2, VersionAssumption DEF Look, At
    <3>2. \A u \in Migration : u < s.next => u \in ledger
      BY <1>1, <1>2, <2>2 DEF Look, At, MigrationsInv, InOrder, Migration
    <3> QED
      BY <1>2, <3>1, <3>2, QuietStep DEF Look
  <2>3. CASE starter[r].next <= starter[r].build /\ starter[r].next \notin ledger /\ Reaches(r, "open")
    BY <1>1, <1>2, <2>3, QuietStep DEF Look, Reaches, At, MigrationsInv, InOrder, MigrationsTypeOK
  <2> QED
    BY <1>2, <2>1, <2>2, <2>3 DEF Look
<1>3. ASSUME NEW r \in Starter, RunFile(r) PROVE MigrationsInv'
  BY <1>1, <1>3, QuietStep DEF RunFile, Reaches, At, MigrationsInv, InOrder, MigrationsTypeOK
<1>4. ASSUME NEW r \in Starter, Record(r) PROVE MigrationsInv'
  BY <1>1, <1>4, QuietStep DEF Record, Reaches, At, MigrationsInv, InOrder, MigrationsTypeOK
<1>5. ASSUME NEW r \in Starter, Refused(r) PROVE MigrationsInv'
  BY <1>1, <1>5, QuietStep DEF Refused, Reaches, At, MigrationsInv, InOrder, MigrationsTypeOK
<1>6. ASSUME NEW r \in Starter, Dies(r) PROVE MigrationsInv'
  BY <1>1, <1>6, QuietStep DEF Dies, Reaches, At, MigrationsInv, InOrder, MigrationsTypeOK
<1>7. ASSUME NEW r \in Starter, NEW build \in 0 .. LastVersion, StartAgain(r, build)
      PROVE  MigrationsInv'
  <2> DEFINE s == [at |-> "look", build |-> build, next |-> 1]
  <2>1. s \in State /\ \A u \in Migration : ~(u < s.next)
    BY VersionAssumption DEF Migration
  <2> QED
    BY <1>7, <2>1, QuietStep DEF StartAgain
<1>8. CASE UNCHANGED migrationVars
  BY <1>8 DEF migrationVars, MigrationsInv, MigrationsTypeOK, InOrder, OneInserter, RanOnce,
     NoGap, Migration, At
<1> QED
  BY <1>2, <1>3, <1>4, <1>5, <1>6, <1>7, <1>8, CommitStep DEF MigrationsNext

\* However many replicas of whatever builds start, fail and start again
\* (migrate.go:37-72), every file is in the database exactly as often as the
\* ledger says, in order, and a replica listens only on the schema of its build.
THEOREM AppliedOnce == MigrationsSpec => []MigratedOnce
<1>1. MigrationsInv => MigratedOnce
  <2> SUFFICES ASSUME MigrationsInv PROVE MigratedOnce
    OBVIOUS
  <2>1. \A v \in Migration : ran[v] = IF v \in ledger THEN 1 ELSE 0
    BY DEF MigrationsInv, RanOnce
  <2>2. \A v \in ledger : 1 .. v \subseteq ledger
    BY VersionAssumption DEF MigrationsInv, MigrationsTypeOK, NoGap, Migration
  <2>3. \A r \in Starter : At(r, "serves") => 1 .. starter[r].build \subseteq ledger
    BY VersionAssumption DEF MigrationsInv, MigrationsTypeOK, InOrder, Migration, At
  <2> QED
    BY <2>1, <2>2, <2>3 DEF MigratedOnce
<1> QED
  BY <1>1, MigrationsStart, MigrationsStep, PTL DEF MigrationsSpec

-----------------------------------------------------------------------------
-----------------------------------------------------------------------------
(* All the parts in one behaviour.                                          *)

partsVars == <<part, codesVars, factorVars, accountVars, oauthVars, appsVars, grantVars, aiVars, dataVars,
               syncVars, matchVars, reportVars, alarmVars, settingVars, migrationVars>>

\* A step of a part is a step of its own, and the others stutter.
LEMMA EachStepsAlone ==
  ASSUME [PartsNext]_partsVars
  PROVE  /\ [CodesNext]_codesVars
         /\ [FactorNext]_factorVars
         /\ [AccountsNext]_accountVars
         /\ [OauthNext]_oauthVars
         /\ [AppsNext]_appsVars
         /\ [GrantsNext]_grantVars
         /\ [AiNext]_aiVars
         /\ [DataNext]_dataVars
         /\ [SyncNext]_syncVars
         /\ [MatchesNext]_matchVars
         /\ [ReportsNext]_reportVars
         /\ [AlarmsNext]_alarmVars
         /\ [SettingsNext]_settingVars
         /\ [MigrationsNext]_migrationVars
<1>1. [CodesNext]_codesVars
  BY DEF PartsNext, OthersRest, partsVars
<1>2. [FactorNext]_factorVars
  BY DEF PartsNext, OthersRest, partsVars
<1>3. [AccountsNext]_accountVars
  BY DEF PartsNext, OthersRest, partsVars
<1>4. [OauthNext]_oauthVars
  BY DEF PartsNext, OthersRest, partsVars
<1>5. [AppsNext]_appsVars
  BY DEF PartsNext, OthersRest, partsVars
<1>6. [GrantsNext]_grantVars
  BY DEF PartsNext, OthersRest, partsVars
<1>7. [AiNext]_aiVars
  BY DEF PartsNext, OthersRest, partsVars
<1>8. [DataNext]_dataVars
  BY DEF PartsNext, OthersRest, partsVars
<1>9. [SyncNext]_syncVars
  BY DEF PartsNext, OthersRest, partsVars
<1>10. [MatchesNext]_matchVars
  BY DEF PartsNext, OthersRest, partsVars
<1>11. [ReportsNext]_reportVars
  BY DEF PartsNext, OthersRest, partsVars
<1>12. [AlarmsNext]_alarmVars
  BY DEF PartsNext, OthersRest, partsVars
<1>13. [SettingsNext]_settingVars
  BY DEF PartsNext, OthersRest, partsVars
<1>14. [MigrationsNext]_migrationVars
  BY DEF PartsNext, OthersRest, partsVars
<1> QED
  BY <1>1, <1>2, <1>3, <1>4, <1>5, <1>6, <1>7, <1>8, <1>9, <1>10, <1>11, <1>12, <1>13, <1>14

\* The behaviours of MCParts are behaviours of every part by itself: nothing that is
\* proved of a part alone is lost when it stands beside the others.
THEOREM PartsStandAlone == PartsSpec =>
    /\ CodesSpec
    /\ FactorSpec
    /\ AccountsSpec
    /\ OauthSpec
    /\ AppsSpec
    /\ GrantsSpec
    /\ AiSpec
    /\ DataSpec
    /\ SyncSpec
    /\ MatchesSpec
    /\ ReportsSpec
    /\ AlarmsSpec
    /\ SettingsSpec
    /\ MigrationsSpec
<1>1. PartsInit => CodesInit /\ FactorInit /\ AccountsInit /\ OauthInit /\ AppsInit /\ GrantsInit /\ AiInit
                 /\ DataInit /\ SyncInit /\ MatchesInit /\ ReportsInit /\ AlarmsInit /\ SettingsInit /\ MigrationsInit
  BY DEF PartsInit
<1> QED
  BY <1>1, EachStepsAlone, PTL DEF PartsSpec, partsVars, CodesSpec, FactorSpec, AccountsSpec, OauthSpec, AppsSpec, GrantsSpec, AiSpec, DataSpec, SyncSpec, MatchesSpec, ReportsSpec, AlarmsSpec, SettingsSpec, MigrationsSpec

\* So the whole run is safe, for any constants: every invariant of the run Parts.
THEOREM PartsHold ==
  PartsSpec => [](/\ EnabledIsProven /\ SignInHolds /\ AdministrationHolds /\ IngestHolds
                  /\ NothingSkipped /\ AnalysisHolds /\ VisionHolds /\ MigratedOnce)
BY PartsStandAlone, OnIsProven, SignInIsKept, AdministrationIsKept, IngestIsKept, NothingIsSkipped,
   AnalysisIsKept, VisionIsKept, AppliedOnce, PTL
=============================================================================
