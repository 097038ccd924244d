------------------------------ MODULE DataIngest ------------------------------
(***************************************************************************)
(* svc-data, one dataset: documents arrive by webhook and overwrite their  *)
(* record; what the rules of the dataset extract from a document goes into *)
(* record_index, which the query filters look at.  A delivery is known by  *)
(* its id once its result is saved.  Rules change while requests run, and  *)
(* a reindex rebuilds the index in one transaction.  READ COMMITTED: a     *)
(* DELETE waits for locked rows and does not see rows committed since.     *)
(***************************************************************************)
EXTENDS Naturals, FiniteSets, Sequences

CONSTANTS
    PK,               \* primary keys
    Delivery,         \* ids of deliveries, in the order they are first sent
    PkOf, DocOf,      \* the key and the document of a delivery
    RuleSets,         \* rule sets an admin may choose
    Filters,          \* query filters
    Absent,
    IngestSlot,       \* bound: requests served at a time
    MaxSends,         \* bound: sends of a delivery
    MaxIngestFaults,  \* bound: statements that fail, answers that are lost
    MaxAdminActs      \* bound: changes to the dataset

ASSUME DataAssumption == PkOf \in [Delivery -> PK] /\ Absent \notin Delivery

VARIABLES
    dataset,   \* "none", "off" or "on"
    rules,
    records,   \* records[pk]: the delivery whose document it holds, or Absent
    index,     \* index[pk]: rows of record_index
    saved,     \* deliveries in the table delivery
    ingest,    \* ingest[s]: the request a slot serves
    reindex,   \* the reindex in progress
    wipe,      \* how far a DELETE ?purge=true is, or a purge
    sends,     \* sends[d]: how often the sender sent d
    answered,  \* deliveries it has an answer for
    ingestFaults, adminActs,
    behind,    \* kept for the properties: keys whose rows may not be what the
               \* rules say of the record,
    taken,     \* deliveries whose item was written,
    again,     \* and was written a second time,
    doubled    \* deliveries in progress twice, or done and not (or no longer) saved

dataVars == <<dataset, rules, records, index, saved, ingest, reindex, wipe,
              sends, answered, ingestFaults, adminActs, behind, taken, again, doubled>>

dataConfig == <<dataset, rules>>
dataRows   == <<records, index>>
dataSender == <<sends, answered>>
dataBounds == <<ingestFaults, adminActs>>
dataSeen   == <<behind, taken, again, doubled>>

-----------------------------------------------------------------------------
\* Rules, documents and filters.

\* validateRules: a field belongs to one rule.
ValidRules(R) == \A r, q \in R : r.field = q.field => r = q

\* The last element of a key counts: ON CONFLICT DO UPDATE.
LastOfKeys(arr) == { i \in DOMAIN arr : \A j \in DOMAIN arr : arr[j].k = arr[i].k => j <= i }

ArrayEntries(r, arr) == { [field |-> r.field, k |-> arr[i].k, v |-> arr[i].v] : i \in LastOfKeys(arr) }

\* extractEntries: a path that leads nowhere yields no row.
Extract(R, doc) ==
    LET there == { r \in R : r.path \in DOMAIN doc }
    IN  { [field |-> r.field, k |-> "", v |-> doc[r.path]] : r \in { q \in there : q.mode = "scalar" } }
        \cup UNION { ArrayEntries(r, doc[r.path]) : r \in { q \in there : q.mode = "array" } }

\* insertIndexEntries over the rows that are there.
Over(entries, rows) ==
    entries \cup { e \in rows : \A n \in entries : <<n.field, n.k>> # <<e.field, e.k>> }

Compares(op, v, value) ==
    CASE op = "any" -> TRUE [] op = "=" -> v = value [] op = ">=" -> v >= value [] op = "<" -> v < value

\* condSQL: EXISTS a row of the field, of the key if one is given.
Answers(f) ==
    { pk \in PK : /\ records[pk] # Absent
                  /\ \E e \in index[pk] : /\ e.field = f.field
                                          /\ f.key # "" => e.k = f.key
                                          /\ Compares(f.op, e.v, f.value) }

\* What the filter asks of a document, without an index.
Satisfies(R, doc, f) ==
    \E r \in R : /\ r.field = f.field /\ r.path \in DOMAIN doc
                 /\ \/ r.mode = "scalar" /\ f.key = "" /\ Compares(f.op, doc[r.path], f.value)
                    \/ r.mode = "array" /\ \E i \in LastOfKeys(doc[r.path]) :
                         (f.key # "" => doc[r.path][i].k = f.key) /\ Compares(f.op, doc[r.path][i].v, f.value)

-----------------------------------------------------------------------------
NoRequest == [at |-> "free"]
NoReindex == [at |-> "none"]

DataInit ==
    /\ dataset = "on" /\ rules \in { R \in RuleSets : ValidRules(R) }
    /\ records = [pk \in PK |-> Absent] /\ index = [pk \in PK |-> {}]
    /\ saved = {} /\ answered = {} /\ behind = {} /\ taken = {} /\ again = {} /\ doubled = {}
    /\ ingest = [s \in IngestSlot |-> NoRequest]
    /\ reindex = NoReindex /\ wipe = "no"
    /\ sends = [d \in Delivery |-> 0] /\ ingestFaults = 0 /\ adminActs = 0

IngestFault == ingestFaults < MaxIngestFaults /\ ingestFaults' = ingestFaults + 1
AdminAct    == adminActs < MaxAdminActs /\ adminActs' = adminActs + 1
Rebuilding  == reindex.at \in {"deleted", "read"}
AtKey(s)    == PkOf[ingest[s].d]
HasKey(s, pk) == ingest[s].at \in {"open", "waiting"} /\ AtKey(s) = pk

\* Mutant: the delivery id is not looked up.
Known_Never(d) == FALSE
Known(d) == d \in saved

\* handleIngest up to findDelivery.  The sender sends deliveries in order and
\* repeats, sooner or later, one it has no answer for.
Ingest(s, d) ==
    /\ dataset = "on" /\ ingest[s] = NoRequest
    /\ \A e \in Delivery : e < d => sends[e] > 0
    /\ d \notin answered /\ sends[d] < MaxSends /\ sends' = [sends EXCEPT ![d] = @ + 1]
    /\ IF Known(d)
       THEN answered' = answered \cup {d} /\ UNCHANGED <<ingest, doubled>>
       ELSE /\ ingest' = [ingest EXCEPT ![s] = [at |-> "loaded", d |-> d, rules |-> rules, crossed |-> FALSE]]
            /\ doubled' = IF \E o \in IngestSlot \ {s} : ingest[o] # NoRequest /\ ingest[o].d = d
                          THEN doubled \cup {d} ELSE doubled
            /\ UNCHANGED answered
    /\ UNCHANGED <<dataConfig, dataRows, saved, reindex, wipe, dataBounds, behind, taken, again>>

\* upsertRecord up to DELETE FROM record_index: it waits for a reindex that has
\* deleted the rows of the key.
UpsertBegins(s) ==
    /\ ingest[s].at = "loaded"
    /\ \A o \in IngestSlot : ~HasKey(o, AtKey(s))
    /\ ingest' = [ingest EXCEPT ![s].at = IF Rebuilding /\ index[AtKey(s)] # {} THEN "waiting" ELSE "open"]
    /\ UNCHANGED <<dataConfig, dataRows, saved, reindex, wipe, dataSender, dataBounds, dataSeen>>

\* Its inserts and the commit.
UpsertCommits(s) ==
    /\ ingest[s].at = "open" \/ (ingest[s].at = "waiting" /\ ~Rebuilding)
    /\ LET pk == AtKey(s)
           entries == Extract(ingest[s].rules, DocOf[ingest[s].d])
           clean == ingest[s].rules = rules /\ ~ingest[s].crossed /\ ~Rebuilding /\ wipe = "no"
       IN  /\ records' = [records EXCEPT ![pk] = ingest[s].d]
           /\ index' = [index EXCEPT ![pk] = IF ingest[s].crossed THEN Over(entries, @) ELSE entries]
           /\ reindex' = IF Rebuilding THEN [reindex EXCEPT !.missed = @ \cup {pk}] ELSE reindex
           /\ behind' = IF clean THEN behind \ {pk} ELSE behind \cup {pk}
    /\ taken' = taken \cup {ingest[s].d}
    /\ again' = IF ingest[s].d \in taken THEN again \cup {ingest[s].d} ELSE again
    /\ ingest' = [ingest EXCEPT ![s].at = "accepted"]
    /\ UNCHANGED <<dataConfig, saved, wipe, dataSender, dataBounds, doubled>>

\* A statement fails: rolled back, and the item is rejected as db_error.
UpsertFails(s) ==
    /\ ingest[s].at \in {"loaded", "open", "waiting"}
    /\ IngestFault
    /\ ingest' = [ingest EXCEPT ![s].at = "rejected"]
    /\ UNCHANGED <<dataConfig, dataRows, saved, reindex, wipe, dataSender, adminActs, dataSeen>>

\* saveDelivery, whose error is logged, and the answer, which may be lost.
Answer(s, saves, heard) ==
    /\ ingest[s].at \in {"accepted", "rejected"}
    /\ IF saves /\ heard THEN UNCHANGED ingestFaults ELSE IngestFault
    /\ LET d == ingest[s].d
       IN  /\ saved' = IF saves THEN saved \cup {d} ELSE saved
           /\ doubled' = IF saves THEN doubled ELSE doubled \cup {d}
           /\ answered' = IF heard THEN answered \cup {d} ELSE answered
    /\ ingest' = [ingest EXCEPT ![s] = NoRequest]
    /\ UNCHANGED <<dataConfig, dataRows, reindex, wipe, sends, adminActs, behind, taken, again>>

SetDataset(R, state) ==
    /\ AdminAct /\ ValidRules(R)
    /\ dataset' = state /\ rules' = R
    /\ behind' = IF R = rules THEN behind ELSE PK
    /\ UNCHANGED <<dataRows, saved, ingest, reindex, wipe, dataSender, ingestFaults, taken, again, doubled>>

\* POST and PUT /datasets/:id leave the rows as they are.
PostDataset(R) == dataset = "none" /\ SetDataset(R, "on")
PutDataset(R, state) == dataset # "none" /\ SetDataset(R, state)

\* POST /datasets/:id/reindex: loadDataset..
ReindexLoads ==
    /\ dataset # "none" /\ reindex = NoReindex /\ AdminAct
    /\ reindex' = [at |-> "loaded", rules |-> rules]
    /\ UNCHANGED <<dataConfig, dataRows, saved, ingest, wipe, dataSender, ingestFaults, dataSeen>>

\* ..DELETE FROM record_index, behind the upserts that deleted rows before it..
ReindexDeletes ==
    /\ reindex.at = "loaded" /\ wipe = "no"
    /\ reindex' = [at |-> "deleted", rules |-> reindex.rules, missed |-> {}]
    /\ UNCHANGED <<dataConfig, dataRows, saved, ingest, wipe, dataSender, dataBounds, dataSeen>>

\* ..SELECT pk, payload..
ReindexReads ==
    /\ reindex.at = "deleted"
    /\ \A s \in IngestSlot : ingest[s].at = "open" => index[AtKey(s)] = {}
    /\ reindex' = [at |-> "read", rules |-> reindex.rules, missed |-> reindex.missed, rows |-> records]
    /\ UNCHANGED <<dataConfig, dataRows, saved, ingest, wipe, dataSender, dataBounds, dataSeen>>

\* Mutant: the rows of the old rules are not deleted.
Rebuilt_Over(pk) ==
    IF reindex.rows[pk] = Absent THEN index[pk]
    ELSE Over(Extract(reindex.rules, DocOf[reindex.rows[pk]]), index[pk])

\* The rows of pk when the reindex commits.
Rebuilt(pk) ==
    LET left == IF pk \in reindex.missed THEN index[pk] ELSE {}
    IN  IF reindex.rows[pk] = Absent THEN left
        ELSE Over(Extract(reindex.rules, DocOf[reindex.rows[pk]]), left)

\* ..and the inserts and the commit.
ReindexCommits ==
    /\ reindex.at = "read"
    /\ index' = [pk \in PK |-> Rebuilt(pk)]
    /\ LET crossed == reindex.missed \cup { pk \in PK : \E s \in IngestSlot : HasKey(s, pk) }
       IN  behind' = IF reindex.rules = rules THEN crossed ELSE PK
    /\ ingest' = [s \in IngestSlot |-> IF ingest[s].at \in {"open", "waiting"}
                                       THEN [ingest[s] EXCEPT !.crossed = TRUE] ELSE ingest[s]]
    /\ reindex' = NoReindex
    /\ UNCHANGED <<dataConfig, records, saved, wipe, dataSender, dataBounds, taken, again, doubled>>

ReindexFails ==
    /\ reindex # NoReindex /\ IngestFault
    /\ reindex' = NoReindex
    /\ UNCHANGED <<dataConfig, dataRows, saved, ingest, wipe, dataSender, adminActs, dataSeen>>

Untouched(pk) == \A s \in IngestSlot : ~HasKey(s, pk)

\* purgeExpired: records past their days, rows without a record, old deliveries.
PurgeRecords(S) ==
    /\ dataset # "none" /\ wipe = "no" /\ ~Rebuilding /\ AdminAct
    /\ \A pk \in S : Untouched(pk)
    /\ records' = [pk \in PK |-> IF pk \in S THEN Absent ELSE records[pk]]
    /\ wipe' = "expired"
    /\ UNCHANGED <<dataConfig, index, saved, ingest, reindex, dataSender, ingestFaults, dataSeen>>

PurgeRows ==
    /\ wipe = "expired"
    /\ index' = [pk \in PK |-> IF records[pk] = Absent /\ Untouched(pk) THEN {} ELSE index[pk]]
    /\ wipe' = "purged"
    /\ UNCHANGED <<dataConfig, records, saved, ingest, reindex, dataSender, dataBounds, dataSeen>>

PurgeDeliveries(D) ==
    /\ wipe = "purged"
    /\ saved' = saved \ D /\ doubled' = doubled \cup (D \cap saved)
    /\ wipe' = "no"
    /\ UNCHANGED <<dataConfig, dataRows, ingest, reindex, dataSender, dataBounds, behind, taken, again>>

\* DELETE /datasets/:id?purge=true: rows, records, dataset.
WipeRows ==
    /\ dataset # "none" /\ wipe = "no" /\ ~Rebuilding /\ AdminAct
    /\ \A pk \in PK : Untouched(pk)
    /\ index' = [pk \in PK |-> {}] /\ behind' = PK
    /\ wipe' = "rows"
    /\ UNCHANGED <<dataConfig, records, saved, ingest, reindex, dataSender, ingestFaults, taken, again, doubled>>

WipeRecords ==
    /\ wipe = "rows"
    /\ \A pk \in PK : Untouched(pk)
    /\ records' = [pk \in PK |-> Absent]
    /\ wipe' = "records"
    /\ UNCHANGED <<dataConfig, index, saved, ingest, reindex, dataSender, dataBounds, dataSeen>>

\* The last step of it, and all of a DELETE without purge.
DropDataset ==
    /\ \/ wipe = "records" /\ UNCHANGED adminActs
       \/ wipe = "no" /\ dataset # "none" /\ AdminAct
    /\ dataset' = "none" /\ wipe' = "no"
    /\ UNCHANGED <<rules, dataRows, saved, ingest, reindex, dataSender, ingestFaults, dataSeen>>

\* A statement of either fails: what is done stays done.
WipeFails ==
    /\ wipe # "no" /\ IngestFault
    /\ wipe' = "no"
    /\ UNCHANGED <<dataConfig, dataRows, saved, ingest, reindex, dataSender, adminActs, dataSeen>>

DataNext ==
    \/ \E s \in IngestSlot :
        \/ \E d \in Delivery : Ingest(s, d)
        \/ UpsertBegins(s) \/ UpsertCommits(s) \/ UpsertFails(s)
        \/ \E saves, heard \in BOOLEAN : Answer(s, saves, heard)
    \/ \E R \in RuleSets : PostDataset(R) \/ \E state \in {"off", "on"} : PutDataset(R, state)
    \/ ReindexLoads \/ ReindexDeletes \/ ReindexReads \/ ReindexCommits \/ ReindexFails
    \/ \E S \in SUBSET PK : PurgeRecords(S)
    \/ \E D \in SUBSET Delivery : PurgeDeliveries(D)
    \/ PurgeRows \/ WipeRows \/ WipeRecords \/ WipeFails \/ DropDataset

-----------------------------------------------------------------------------
\* A filter finds a record exactly when its document satisfies it, whatever was
\* ingested, edited, reindexed and purged: only a change of rules not followed
\* by a reindex, a request that read the rules before it, or an upsert that
\* crosses a reindex (db.go:182-255) leaves rows behind the record.
QueriesTrue ==
    \A pk \in PK \ behind : records[pk] # Absent =>
        \A f \in Filters : pk \in Answers(f) <=> Satisfies(rules, DocOf[records[pk]], f)

\* A delivery is written once, so that a late repetition does not undo a later
\* delivery, unless two copies of it were in progress at a time or the first
\* was not saved or was purged: findDelivery sees what is finished only
\* (ingest.go:72, 98; db.go:330).
WrittenOnce == again \subseteq doubled

IngestHolds == QueriesTrue /\ WrittenOnce
=============================================================================
