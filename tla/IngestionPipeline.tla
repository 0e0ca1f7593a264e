-------------------------- MODULE IngestionPipeline --------------------------
(***************************************************************************)
(* IngestionPipeline.run of helios_connectors/pipeline.py, one connector   *)
(* run after the other, with the loaders it calls and the session_scope of *)
(* its callers.  A run works in one database transaction that the caller   *)
(* commits; the evidence store is outside that transaction.  A run may be  *)
(* killed at any moment, and the parser may be fixed between two runs.     *)
(*                                                                         *)
(* The session is opened with autoflush=False: rows reach the database     *)
(* when something flushes, and it is there that a constraint can fail.     *)
(* A failed flush or a rollback() undoes the whole transaction, the        *)
(* ConnectorRun row included.                                              *)
(***************************************************************************)
EXTENDS Naturals, Sequences, FiniteSets

CONSTANTS Documents,    \* source-native ids
          Contents,     \* what a fetch can return: bytes and their MIME type
          Entities,     \* natural keys of parcels, permits, area totals, ...
          Signatures,   \* field signatures
          NoSignature,  \* the parser gives none, or none is recorded yet
          RecordsOf,    \* the records a content normalizes to
          RejectedBy,   \* how many of its rows normalize() rejects by itself
          SignatureOf,  \* the field signature of a content
          Discoveries,  \* what discover() can return: sequences of documents
          ParsedAtFirst,\* the contents the first version of the parser handles
          NoContent,    \* an entity that has no row
          MaxRuns       \* bound: how many runs a behaviour has

Runs == 1..MaxRuns

\* cited: parcels and permits, whose loader flushes and creates evidence;
\* plain: area totals, substations and lines, whose loader does neither;
\* invalid: refused by validate(); raising: the loader itself raises.
Kinds == {"cited", "plain", "invalid", "raising"}

Record == [entity : Entities, kind : Kinds]

ASSUME IngestionPipelineAssumption ==
    /\ MaxRuns \in Nat
    /\ NoContent \notin Contents
    /\ NoSignature \notin Signatures
    /\ ParsedAtFirst \subseteq Contents
    /\ RecordsOf \in [Contents -> Seq(Record)]
    /\ RejectedBy \in [Contents -> Nat]
    /\ SignatureOf \in [Contents -> Signatures \cup {NoSignature}]
    /\ Discoveries \subseteq Seq(Documents)

VARIABLES db,        \* the committed rows
          tx,        \* the rows as the run's transaction sees them
          store,     \* contents whose bytes the evidence store holds
          parses,    \* contents the parser of the day handles
          pc,        \* where the run is
          run,       \* the number of the current or latest run
          todo,      \* discovered documents that are still to be fetched
          item,      \* the stored document being worked on
          position,  \* how many of its records have been handled
          unflushed, \* plain entities whose new row waits for a flush
          doomed,    \* the next flush violates a constraint
          summary,   \* the RunSummary
          outcome    \* how each run ended

vars == <<db, tx, store, parses, pc, run, todo, item, position, unflushed,
          doomed, summary, outcome>>

\* The rows of the tables that ingestion writes.
Version == [document : Documents, number : Nat, content : Contents, run : Runs]

\* The run is the one that created the row; the table has no such column.
Evidence == [document : Documents, number : Nat, position : Nat, run : Runs]

Stages == {"run", "discover", "fetch", "parse", "schema_drift", "validate", "persist"}

\* A RunSummary, which is also what the ConnectorRun row ends up holding.
Summary == [status : {"none", "running", "success", "failed"}, discovered : Nat,
            fetched : Nat, parsed : Nat, normalized : Nat, unchanged : Nat,
            versions : Nat, evidence : Nat, upserted : Nat, rejected : Nat,
            drift : BOOLEAN]

Fresh == [status |-> "success", discovered |-> 0, fetched |-> 0, parsed |-> 0,
          normalized |-> 0, unchanged |-> 0, versions |-> 0, evidence |-> 0,
          upserted |-> 0, rejected |-> 0, drift |-> FALSE]

Rows == [connector : BOOLEAN,                             \* the SourceConnector row
         signature : Signatures \cup {NoSignature},       \* last_field_signature
         runs      : [Runs -> Summary],
         failures  : [Runs -> [Stages -> Nat]],           \* IngestionFailure rows
         documents : SUBSET Documents,
         versions  : SUBSET Version,
         current   : [Documents -> Nat],                  \* current_version_id
         evidence  : SUBSET Evidence,
         entities  : [Entities -> Contents \cup {NoContent}]]  \* last loaded from

Item == [document : Documents, content : Contents, number : Nat, fresh : BOOLEAN]

NoItem == [fresh |-> FALSE]

TypeOK ==
    /\ db \in Rows
    /\ tx \in Rows
    /\ store \subseteq Contents
    /\ parses \subseteq Contents
    /\ pc \in {"idle", "discover", "fetch", "parse", "load", "finish"}
    /\ run \in 0..MaxRuns
    /\ pc # "idle" => run \in Runs
    /\ todo \in Seq(Documents)
    /\ item \in Item \cup {NoItem}
    /\ pc \in {"parse", "load"} => item \in Item
    /\ position \in Nat
    /\ unflushed \subseteq Entities
    /\ doomed \in BOOLEAN
    /\ summary \in Summary
    /\ outcome \in [Runs -> {"none", "running", "committed", "raised", "killed"}]

NoRows ==
    [connector |-> FALSE,
     signature |-> NoSignature,
     runs      |-> [r \in Runs |-> [Fresh EXCEPT !.status = "none"]],
     failures  |-> [r \in Runs |-> [s \in Stages |-> 0]],
     documents |-> {},
     versions  |-> {},
     current   |-> [d \in Documents |-> 0],
     evidence  |-> {},
     entities  |-> [e \in Entities |-> NoContent]]

Init ==
    /\ db = NoRows
    /\ tx = NoRows
    /\ store = {}
    /\ parses = ParsedAtFirst
    /\ pc = "idle"
    /\ run = 0
    /\ todo = <<>>
    /\ item = NoItem
    /\ position = 0
    /\ unflushed = {}
    /\ doomed = FALSE
    /\ summary = Fresh
    /\ outcome = [r \in Runs |-> "none"]

-----------------------------------------------------------------------------
(* The session                                                             *)

\* _record_failure: a dead-letter row, flushed with whatever comes next.
RecordFailure(rows, stage) == [rows EXCEPT !.failures[run][stage] = @ + 1]

\* An exception that reaches run(): the run is failed, and a failure row says
\* so.  The rows it worked on stay in the transaction.
RaiseToRun(rows, counts) ==
    /\ summary' = [counts EXCEPT !.status = "failed"]
    /\ tx' = RecordFailure(rows, "run")
    /\ pc' = "finish"

\* A flush that violates a constraint outside the record loop: it undoes the
\* transaction, and the session stays unusable until somebody rolls it back.
FlushRaises(counts) ==
    /\ RaiseToRun(db, counts)
    /\ doomed' = TRUE
    /\ unflushed' = {}

\* Any exception in the record loop: rollback() undoes the whole transaction,
\* and the failure row recorded next refers to a ConnectorRun that is gone.
RollbackAndRecord ==
    /\ tx' = RecordFailure(db, "persist")
    /\ doomed' = TRUE
    /\ unflushed' = {}
    /\ summary' = [summary EXCEPT !.normalized = @ + 1, !.rejected = @ + 1]

-----------------------------------------------------------------------------
(* A run, up to its loop over items                                        *)

\* _require_connector_row and _start_run, flushed.
StartRun ==
    /\ pc = "idle"
    /\ run < MaxRuns
    /\ run' = run + 1
    /\ tx' = [db EXCEPT !.connector = TRUE, !.runs[run + 1] = [Fresh EXCEPT !.status = "running"]]
    /\ summary' = Fresh
    /\ outcome' = [outcome EXCEPT ![run + 1] = "running"]
    /\ pc' = "discover"
    /\ UNCHANGED <<db, store, parses, todo, item, position, unflushed, doomed>>

\* discover() returns items, and possibly an error message beside them.
Discover ==
    /\ pc = "discover"
    /\ todo' \in Discoveries
    /\ summary' = [summary EXCEPT !.discovered = Len(todo')]
    /\ tx' \in {tx, RecordFailure(tx, "discover")}
    /\ pc' = "fetch"
    /\ UNCHANGED <<db, store, parses, run, item, position, unflushed, doomed, outcome>>

DiscoverRaises ==
    /\ pc = "discover"
    /\ RaiseToRun(tx, summary)
    /\ UNCHANGED <<db, store, parses, run, todo, item, position, unflushed, doomed, outcome>>

\* fetch() returns no document: the loop goes on with the next item.
FetchFails ==
    /\ pc = "fetch" /\ todo # <<>>
    /\ tx' = RecordFailure(tx, "fetch")
    /\ todo' = Tail(todo)
    /\ UNCHANGED <<db, store, parses, pc, run, item, position, unflushed, doomed,
                   summary, outcome>>

-----------------------------------------------------------------------------
(* _store_document                                                         *)

Fetched == [summary EXCEPT !.fetched = @ + 1]

\* Mutant: compares with the latest version only.
KnownAsLatest(d, c) ==
    {v \in tx.versions : v.document = d /\ v.content = c /\ v.number = tx.current[d]}

\* The version of d that holds these bytes already, whichever version it is.
Known(d, c) == {v \in tx.versions : v.document = d /\ v.content = c}

\* The highest version number of d so far, 0 if it has no version.
Latest(d) ==
    CHOOSE n \in {0} \cup {v.number : v \in {u \in tx.versions : u.document = d}} :
        \A v \in tx.versions : v.document = d => v.number <= n

\* What a fetch leaves on the document row, new or not.
Touch(rows, d) == [rows EXCEPT !.documents = @ \cup {d}]

\* Mutant: the version row is written and the bytes are not.
ArchiveNothing(c) == UNCHANGED store

\* put() has stored the bytes by the time it returns.
Archive(c) == store' = store \cup {c}

NewVersion(d, c) == [document |-> d, number |-> Latest(d) + 1, content |-> c, run |-> run]

\* Mutant: points the document at the version whose bytes came back.
StoreUnchangedRepoints(d, c) ==
    /\ \E v \in Known(d, c) :
         /\ item' = [document |-> d, content |-> c, number |-> v.number, fresh |-> FALSE]
         /\ tx' = [Touch(tx, d) EXCEPT !.current[d] = v.number]
    /\ summary' = [Fetched EXCEPT !.unchanged = @ + 1]
    /\ pc' = "parse"
    /\ UNCHANGED <<store, unflushed, doomed>>

\* Identical bytes: the version that has them is the one the records are
\* loaded against; nothing else changes.
StoreUnchanged(d, c) ==
    /\ \E v \in Known(d, c) :
         item' = [document |-> d, content |-> c, number |-> v.number, fresh |-> FALSE]
    /\ tx' = Touch(tx, d)
    /\ summary' = [Fetched EXCEPT !.unchanged = @ + 1]
    /\ pc' = "parse"
    /\ UNCHANGED <<store, unflushed, doomed>>

\* New bytes: archived first, then a version row after the latest one, flushed.
StoreNewVersion(d, c) ==
    /\ Known(d, c) = {}
    /\ ~doomed
    /\ Archive(c)
    /\ tx' = [Touch(tx, d) EXCEPT !.versions = @ \cup {NewVersion(d, c)},
                                     !.current[d] = Latest(d) + 1]
    /\ item' = [document |-> d, content |-> c, number |-> Latest(d) + 1, fresh |-> TRUE]
    /\ summary' = [Fetched EXCEPT !.versions = @ + 1]
    /\ unflushed' = {}
    /\ pc' = "parse"
    /\ UNCHANGED doomed

\* The same when the flush fails: that of a new document row comes before the
\* bytes are archived, that of a new version row after.
StoreFlushRaises(d, c) ==
    /\ Known(d, c) = {}
    /\ doomed
    /\ IF d \in tx.documents THEN Archive(c) ELSE UNCHANGED store
    /\ FlushRaises(Fetched)
    /\ UNCHANGED item

\* put() raises: the document row, if new, has been flushed.
PutRaises(d, c) ==
    /\ Known(d, c) = {}
    /\ d \in tx.documents \/ ~doomed
    /\ RaiseToRun(Touch(tx, d), Fetched)
    /\ unflushed' = IF d \in tx.documents THEN unflushed ELSE {}
    /\ UNCHANGED <<store, item, doomed>>

FetchAndStore ==
    /\ pc = "fetch" /\ todo # <<>>
    /\ \E c \in Contents :
         LET d == Head(todo) IN
         \/ StoreUnchanged(d, c) \/ StoreNewVersion(d, c)
         \/ StoreFlushRaises(d, c) \/ PutRaises(d, c)
    /\ todo' = Tail(todo)
    /\ UNCHANGED <<db, parses, run, position, outcome>>

-----------------------------------------------------------------------------
(* parse, normalize                                                        *)

\* _check_schema_drift: compare with the signature last recorded for the
\* connector, flag the run if it differs, record the new one.
Drifts(signature) ==
    tx.connector /\ signature # NoSignature /\ tx.signature \notin {NoSignature, signature}

DriftRecorded(signature) ==
    LET flagged == IF Drifts(signature) THEN RecordFailure(tx, "schema_drift") ELSE tx
    IN  IF tx.connector /\ signature # NoSignature
        THEN [flagged EXCEPT !.signature = signature] ELSE tx

\* Mutant: the flag is that of the last document, not of the run.
DriftOverwritten(signature) ==
    [summary EXCEPT !.parsed = @ + 1, !.drift = Drifts(signature)]

DriftCounted(signature) ==
    [summary EXCEPT !.parsed = @ + 1, !.drift = @ \/ Drifts(signature)]

\* parse() and normalize() both answer; what normalize() rejects is counted and
\* leaves no failure row.
Parse ==
    /\ pc = "parse"
    /\ item.content \in parses
    /\ tx' = DriftRecorded(SignatureOf[item.content])
    /\ summary' = [DriftCounted(SignatureOf[item.content]) EXCEPT
                      !.rejected = @ + RejectedBy[item.content]]
    /\ position' = 0
    /\ pc' = "load"
    /\ UNCHANGED <<db, store, parses, run, todo, item, unflushed, doomed, outcome>>

\* The parser cannot read the content and says so.
ParseFails ==
    /\ pc = "parse"
    /\ item.content \notin parses
    /\ tx' = RecordFailure(tx, "parse")
    /\ item' = NoItem
    /\ pc' = "fetch"
    /\ UNCHANGED <<db, store, parses, run, todo, position, unflushed, doomed, summary, outcome>>

\* The parser raises instead, or it reads the content and normalize() raises.
ParseRaises ==
    /\ pc = "parse"
    /\ item.content \notin parses
    /\ \/ RaiseToRun(tx, summary)
       \/ RaiseToRun(DriftRecorded(SignatureOf[item.content]),
                     DriftCounted(SignatureOf[item.content]))
    /\ UNCHANGED <<db, store, parses, run, todo, item, position, unflushed, doomed, outcome>>

-----------------------------------------------------------------------------
(* The loop over the records of an item                                    *)

NextRecord == RecordsOf[item.content][position + 1]

Handling(kind) ==
    /\ pc = "load"
    /\ position < Len(RecordsOf[item.content])
    /\ NextRecord.kind = kind
    /\ position' = position + 1

Loaded == [summary EXCEPT !.normalized = @ + 1, !.upserted = @ + 1]

Upsert(rows, e) == [rows EXCEPT !.entities[e] = item.content]

\* Mutant: only the first version of a document is cited.
CreateEvidenceOnce(rows) ==
    IF item.fresh /\ item.number = 1
    THEN [rows EXCEPT !.evidence = @ \cup
            {[document |-> item.document, number |-> item.number,
              position |-> position + 1, run |-> run]}]
    ELSE rows

\* Evidence is created only for a version that is new in this run.
CreateEvidence(rows) ==
    IF item.fresh
    THEN [rows EXCEPT !.evidence = @ \cup
            {[document |-> item.document, number |-> item.number,
              position |-> position + 1, run |-> run]}]
    ELSE rows

\* Mutant: counts the evidence of a document that is not new.
EvidenceOffered == 1

EvidenceCreated == IF item.fresh THEN 1 ELSE 0

RejectInvalid ==
    /\ Handling("invalid")
    /\ tx' = RecordFailure(tx, "validate")
    /\ summary' = [summary EXCEPT !.rejected = @ + 1]
    /\ UNCHANGED <<db, store, parses, pc, run, todo, item, unflushed, doomed, outcome>>

\* load_parcel, load_permit: flush, then evidence that cites the version.
LoadCited ==
    /\ Handling("cited")
    /\ ~doomed
    /\ tx' = CreateEvidence(Upsert(tx, NextRecord.entity))
    /\ summary' = [Loaded EXCEPT !.evidence = @ + EvidenceCreated]
    /\ unflushed' = {}
    /\ UNCHANGED <<db, store, parses, pc, run, todo, item, doomed, outcome>>

\* load_area_total, load_substation, load_transmission_line: the row is looked
\* up in the database, where an unflushed row of the same key is not seen, so a
\* second row for it is added to the session.
LoadPlain ==
    /\ Handling("plain")
    /\ LET e == NextRecord.entity
           absent == tx.entities[e] = NoContent \/ e \in unflushed
       IN
       /\ tx' = Upsert(tx, e)
       /\ unflushed' = IF absent THEN unflushed \cup {e} ELSE unflushed
       /\ doomed' = (doomed \/ e \in unflushed)
    /\ summary' = Loaded
    /\ UNCHANGED <<db, store, parses, pc, run, todo, item, outcome>>

\* The loader raises: by itself, or because its flush does.
LoadRaises ==
    /\ Handling("raising") \/ (Handling("cited") /\ doomed)
    /\ RollbackAndRecord
    /\ UNCHANGED <<db, store, parses, pc, run, todo, item, outcome>>

NextItem ==
    /\ pc = "load"
    /\ position = Len(RecordsOf[item.content])
    /\ pc' = "fetch"
    /\ item' = NoItem
    /\ position' = 0
    /\ UNCHANGED <<db, tx, store, parses, run, todo, unflushed, doomed, summary, outcome>>

-----------------------------------------------------------------------------
(* The end of a run                                                        *)

\* The flush after the loop.
FinalFlush ==
    /\ pc = "fetch" /\ todo = <<>>
    /\ IF doomed
       THEN FlushRaises(summary)
       ELSE /\ pc' = "finish"
            /\ unflushed' = {}
            /\ UNCHANGED <<tx, doomed, summary>>
    /\ UNCHANGED <<db, store, parses, run, todo, item, position, outcome>>

\* What is left of a run in memory when it is over.
Idle ==
    /\ pc' = "idle"
    /\ todo' = <<>>
    /\ item' = NoItem
    /\ position' = 0
    /\ unflushed' = {}
    /\ doomed' = FALSE
    /\ summary' = Fresh

\* _finish_run fills in the run row and flushes; the caller commits, whether
\* the summary says success or failed.
FinishRun ==
    /\ pc = "finish"
    /\ ~doomed
    /\ tx' = [tx EXCEPT !.runs[run] = summary]
    /\ db' = tx'
    /\ outcome' = [outcome EXCEPT ![run] = "committed"]
    /\ Idle
    /\ UNCHANGED <<store, parses, run>>

\* The flush of _finish_run raises, out of run() and through session_scope,
\* which rolls back.
FinishRaises ==
    /\ pc = "finish"
    /\ doomed
    /\ tx' = db
    /\ outcome' = [outcome EXCEPT ![run] = "raised"]
    /\ Idle
    /\ UNCHANGED <<db, store, parses, run>>

\* The process dies in the middle of a run.
Kill ==
    /\ pc # "idle"
    /\ tx' = db
    /\ outcome' = [outcome EXCEPT ![run] = "killed"]
    /\ Idle
    /\ UNCHANGED <<db, store, parses, run>>

\* Between two runs somebody fixes the parser.
FixParser ==
    /\ pc = "idle"
    /\ parses # Contents
    /\ parses' = Contents
    /\ UNCHANGED <<db, tx, store, pc, run, todo, item, position, unflushed, doomed,
                   summary, outcome>>

RunStep ==
    \/ Discover \/ DiscoverRaises
    \/ FetchFails \/ FetchAndStore
    \/ Parse \/ ParseFails \/ ParseRaises
    \/ RejectInvalid \/ LoadCited \/ LoadPlain \/ LoadRaises \/ NextItem
    \/ FinalFlush \/ FinishRun \/ FinishRaises

Next == StartRun \/ RunStep \/ Kill \/ FixParser

Spec == Init /\ [][Next]_vars

-----------------------------------------------------------------------------
(* Properties                                                              *)

\* What a run commits is an addition to the ledger: histories without gaps or
\* repeated contents, evidence for the new versions only.  Re-ingesting bytes
\* that are known therefore adds no version and no evidence (ADR 0001).
Ledger == INSTANCE EvidenceLedger
    WITH versions <- db.versions, evidence <- db.evidence

ImplementsEvidenceLedger == Ledger!Spec

\* The document row points at the last version of its history.
CurrentIsLatest ==
    \A d \in Documents : Ledger!Numbers(db.versions, d) = 1..db.current[d]

\* Every committed citation leads to bytes that the evidence store holds, in
\* spite of the store being outside the transaction.
CitedBytesAreArchived ==
    \A e \in db.evidence : \E v \in db.versions : Ledger!Cites(e, v) /\ v.content \in store

\* Every parcel and permit that was last loaded from c has evidence that cites c.
LoadsAreCited(c) ==
    \A i \in DOMAIN RecordsOf[c] :
        RecordsOf[c][i].kind = "cited" /\ db.entities[RecordsOf[c][i].entity] = c =>
            \E e \in db.evidence, v \in db.versions :
                Ledger!Cites(e, v) /\ v.content = c /\ e.position = i

\* A content that could be parsed from the start is loaded with its evidence, in
\* whatever order it comes back and whatever fails before it does.
LoadedIsCited == \A c \in ParsedAtFirst : LoadsAreCited(c)

\* A committed ConnectorRun row is never left "running" and counts the versions and
\* the evidence that are really there.  In a run that reports success nothing went
\* missing unrecorded: every item discovered was fetched or is a failure row, every
\* document fetched was known or is a version, and was parsed or is a failure row,
\* every valid record was loaded or is a failure row, and no refused record escapes
\* the rejected count (which also has the rows normalize() drops by itself).
RunsAddUp ==
    \A r \in Runs :
        LET row == db.runs[r]
            failed == db.failures[r]
        IN  /\ row.status # "running"
            /\ row.versions = Cardinality({v \in db.versions : v.run = r})
            /\ row.evidence = Cardinality({e \in db.evidence : e.run = r})
            /\ row.status = "success" =>
                /\ row.discovered = row.fetched + failed["fetch"]
                /\ row.fetched = row.unchanged + row.versions
                /\ row.fetched = row.parsed + failed["parse"]
                /\ row.normalized = row.upserted + failed["persist"]
                /\ row.rejected >= failed["validate"] + failed["persist"]
                /\ row.drift <=> failed["schema_drift"] > 0
                /\ failed["run"] = 0

\* The recorded signature never moves from one value to another without a
\* committed run that is flagged for it and has a failure row.
DriftIsNeverSilent ==
    [][db.signature \notin {NoSignature, db'.signature} =>
         \E r \in Runs : /\ db.runs[r].status = "none" /\ db'.runs[r].drift
                         /\ db'.failures[r]["schema_drift"] > 0]_vars

\* Module docstring: "Every run writes a ConnectorRun row with counts", "One
\* bad row must never cost the other ten thousand": what run() counted as
\* upserted when it was left is committed.
OneBadRowCostsOnlyItself ==
    [][\A r \in Runs : outcome[r] = "running" /\ outcome'[r] \in {"committed", "raised"} =>
         db'.runs[r].upserted = summary.upserted]_vars
=============================================================================
