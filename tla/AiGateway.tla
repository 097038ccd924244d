------------------------------- MODULE AiGateway -------------------------------
(***************************************************************************)
(* svc-ai: a call with a virtual key is routed, by the alias it names or   *)
(* to the first enabled provider, translated, sent and metered.  An admin  *)
(* edits a provider column by column, the columns a PATCH names, each by a *)
(* statement for itself.  Endpoints and credentials are numbers.           *)
(***************************************************************************)
EXTENDS Naturals, FiniteSets

CONSTANTS
    Provider,         \* in the order of their ids: 1..n
    AiCall, Editor,   \* calls and PATCHes served at a time
    Version,          \* endpoints and credentials
    MaxAiFaults,      \* bound: statements that fail, crashes
    MaxAiEdits        \* bound: changes by an admin

ASSUME AiAssumption == Provider \subseteq Nat

VARIABLES
    provider,   \* provider[p]: [url, key, on], or NoProvider
    lastId,     \* the last id given to a provider
    alias,      \* provider the alias leads to; 0: no alias
    virtualKey, \* "none", "on" or "off"
    patch,      \* patch[e]: a PATCH of a provider in progress
    aiCall,     \* aiCall[c]: where a call is
    aiFaults, aiEdits,
    meant,      \* kept for the properties: meant[p]: what the PATCHes of p, one
                \* after the other, would have made of it,
    mixed       \* and its columns that two were to set at a time, or whose
                \* statement failed, and that none has set since

aiVars == <<provider, lastId, alias, virtualKey, patch, aiCall, aiFaults, aiEdits, meant, mixed>>

Column == {"url", "key", "on"}

NoProvider == [url |-> 0, key |-> 0, on |-> FALSE]
NoPatch    == [todo |-> {}]
NoAiCall   == [at |-> "free"]

AiInit ==
    /\ provider = [p \in Provider |-> NoProvider] /\ lastId = 0 /\ alias = 0 /\ virtualKey = "none"
    /\ patch = [e \in Editor |-> NoPatch] /\ aiCall = [c \in AiCall |-> NoAiCall]
    /\ aiFaults = 0 /\ aiEdits = 0 /\ mixed = {} /\ meant = [p \in Provider |-> NoProvider]

AiFault   == aiFaults < MaxAiFaults /\ aiFaults' = aiFaults + 1
AiEdit    == aiEdits < MaxAiEdits /\ aiEdits' = aiEdits + 1
There(p)  == provider[p] # NoProvider
Patching(p) == { e \in Editor : patch[e] # NoPatch /\ patch[e].p = p }
Pending(p)  == UNION { patch[e].todo : e \in Patching(p) }

-----------------------------------------------------------------------------
\* Administration.

\* createProvider, and seedProvider for the first.
CreateProvider(p, v) ==
    /\ AiEdit /\ p = lastId + 1 /\ lastId' = p
    /\ provider' = [provider EXCEPT ![p] = [url |-> v, key |-> v, on |-> TRUE]]
    /\ meant' = [meant EXCEPT ![p] = [url |-> v, key |-> v, on |-> TRUE]]
    /\ UNCHANGED <<alias, virtualKey, patch, aiCall, aiFaults, mixed>>

\* What a PATCH gives a column.
Given(c, v, on) == IF c = "on" THEN on ELSE v

\* updateProvider: the columns the request names (an empty apiKey names none)..
Patch(e, p, named, v, on) ==
    /\ AiEdit /\ There(p) /\ patch[e] = NoPatch
    /\ patch' = [f \in Editor |->
                   IF f = e THEN [p |-> p, v |-> v, on |-> on, todo |-> named, alone |-> named \ Pending(p)]
                   ELSE IF f \in Patching(p) THEN [patch[f] EXCEPT !.alone = @ \ named] ELSE patch[f]]
    /\ meant' = [meant EXCEPT ![p] = [c \in Column |-> IF c \in named THEN Given(c, v, on) ELSE @[c]]]
    /\ mixed' = mixed \cup {p} \X (named \cap Pending(p))
    /\ UNCHANGED <<provider, lastId, alias, virtualKey, aiCall, aiFaults>>

\* ..in this order, one statement each; an error is ignored and the next one runs.
NextColumn(todo) == IF "url" \in todo THEN "url" ELSE IF "key" \in todo THEN "key" ELSE "on"

\* Mutant: the columns after the first one are skipped.
Left_None(todo, c) == {}
Left(todo, c) == todo \ {c}

PatchColumn(e, works) ==
    /\ patch[e] # NoPatch
    /\ IF works THEN UNCHANGED aiFaults ELSE AiFault
    /\ LET p == patch[e].p
           c == NextColumn(patch[e].todo)
           todo == Left(patch[e].todo, c)
       IN  /\ provider' = IF works /\ There(p)
                          THEN [provider EXCEPT ![p][c] = Given(c, patch[e].v, patch[e].on)] ELSE provider
           /\ patch' = [patch EXCEPT ![e] = IF todo = {} THEN NoPatch
                                            ELSE [patch[e] EXCEPT !.todo = todo, !.alone = @ \ {c}]]
           /\ mixed' = IF ~works THEN mixed \cup {<<p, c>>}
                       ELSE IF c \in patch[e].alone THEN mixed \ {<<p, c>>} ELSE mixed
    /\ UNCHANGED <<lastId, alias, virtualKey, aiCall, aiEdits, meant>>

\* deleteProvider cascades to its aliases.
DeleteProvider(p) ==
    /\ AiEdit /\ There(p)
    /\ provider' = [provider EXCEPT ![p] = NoProvider]
    /\ alias' = IF alias = p THEN 0 ELSE alias
    /\ UNCHANGED <<lastId, virtualKey, patch, aiCall, aiFaults, meant, mixed>>

\* alias is UNIQUE, provider_id a foreign key.
CreateAlias(p) ==
    /\ AiEdit /\ alias = 0 /\ There(p) /\ alias' = p
    /\ UNCHANGED <<provider, lastId, virtualKey, patch, aiCall, aiFaults, meant, mixed>>
DeleteAlias ==
    /\ AiEdit /\ alias # 0 /\ alias' = 0
    /\ UNCHANGED <<provider, lastId, virtualKey, patch, aiCall, aiFaults, meant, mixed>>

KeyEdit(from, to) ==
    /\ AiEdit /\ virtualKey \in from /\ virtualKey' = to
    /\ UNCHANGED <<provider, lastId, alias, patch, aiCall, aiFaults, meant, mixed>>
CreateKey == KeyEdit({"none"}, "on")
UpdateKey == KeyEdit({"off"}, "on") \/ KeyEdit({"on"}, "off")
DeleteKey == KeyEdit({"on", "off"}, "none")

AiCrash ==
    /\ AiFault
    /\ mixed' = mixed \cup UNION { {p} \X Pending(p) : p \in Provider }
    /\ patch' = [e \in Editor |-> NoPatch] /\ aiCall' = [c \in AiCall |-> NoAiCall]
    /\ UNCHANGED <<provider, lastId, alias, virtualKey, aiEdits, meant>>

-----------------------------------------------------------------------------
\* Calls.

On(p) == There(p) /\ provider[p].on
Routed(p) == [at |-> "routed", route |-> provider[p], meant |-> meant[p],
              settled |-> { c \in Column \ Pending(p) : <<p, c>> \notin mixed }]

\* proxyMessages: the key, then resolveRoute: the alias in one query..
CallIn(c, named) ==
    /\ aiCall[c] = NoAiCall /\ virtualKey = "on"
    /\ aiCall' = [aiCall EXCEPT ![c] = IF named /\ alias # 0 /\ On(alias) THEN Routed(alias) ELSE [at |-> "fallback"]]
    /\ UNCHANGED <<provider, lastId, alias, virtualKey, patch, aiFaults, aiEdits, meant, mixed>>

\* ..and the first enabled provider in another; 502 when there is none.
Fallback(c) ==
    /\ aiCall[c].at = "fallback"
    /\ LET on == { p \in Provider : On(p) }
       IN  aiCall' = [aiCall EXCEPT ![c] = IF on = {} THEN NoAiCall
                                           ELSE Routed(CHOOSE p \in on : \A q \in on : p <= q)]
    /\ UNCHANGED <<provider, lastId, alias, virtualKey, patch, aiFaults, aiEdits, meant, mixed>>

\* The provider answers, or not within 180 s: translated back and metered by
\* recordUsage, whose error is ignored.
CallOut(c) ==
    /\ aiCall[c].at = "routed"
    /\ aiCall' = [aiCall EXCEPT ![c] = NoAiCall]
    /\ UNCHANGED <<provider, lastId, alias, virtualKey, patch, aiFaults, aiEdits, meant, mixed>>

AiNext ==
    \/ \E p \in Provider :
        \/ \E v \in Version :
              \/ CreateProvider(p, v)
              \/ \E e \in Editor, named \in (SUBSET Column) \ {{}}, on \in BOOLEAN :
                    (on => "on" \in named) /\ Patch(e, p, named, v, on)
        \/ DeleteProvider(p) \/ CreateAlias(p)
    \/ \E e \in Editor, works \in BOOLEAN : PatchColumn(e, works)
    \/ DeleteAlias \/ CreateKey \/ UpdateKey \/ DeleteKey
    \/ \E c \in AiCall : Fallback(c) \/ CallOut(c) \/ \E named \in BOOLEAN : CallIn(c, named)
    \/ AiCrash

-----------------------------------------------------------------------------
\* A call goes to the endpoint, with the credential and through the switch, that
\* the PATCHes of its provider would have left one after the other, whatever
\* columns each of them names (admin.go:115-124): but for a column whose statement
\* is yet to run, or that two PATCHes were to set at a time, or whose statement
\* failed, until a PATCH sets it alone.
CredentialFits ==
    \A c \in AiCall : aiCall[c].at = "routed" =>
        \A col \in aiCall[c].settled : aiCall[c].route[col] = aiCall[c].meant[col]
=============================================================================
