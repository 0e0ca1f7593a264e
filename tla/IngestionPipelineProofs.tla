----------------------- MODULE IngestionPipelineProofs -----------------------
(***************************************************************************)
(* Theorems about IngestionPipeline, for any documents, contents, records  *)
(* and number of runs.                                                     *)
(***************************************************************************)
EXTENDS IngestionPipeline, FiniteSetTheorems, TLAPS

LEMMA IntervalGrows == \A n \in Nat : 1..(n + 1) = (1..n) \cup {n + 1}
OBVIOUS

USE IngestionPipelineAssumption

-----------------------------------------------------------------------------
(* Histories                                                               *)

\* The versions of each document are numbered 1 to the number its row points
\* at, one number and one content each.
History(rows) ==
    /\ \A d \in Documents : Ledger!Numbers(rows.versions, d) = 1..rows.current[d]
    /\ \A u, v \in rows.versions :
         u.document = v.document /\ (u.number = v.number \/ u.content = v.content) => u = v

LEMMA HistoryIsHistory ==
    ASSUME NEW rows \in Rows, History(rows)
    PROVE  Ledger!IsHistory(rows.versions)
<1> SUFFICES ASSUME NEW d \in Documents
             PROVE  \E n \in {0} \cup Ledger!Numbers(rows.versions, d) :
                      Ledger!Numbers(rows.versions, d) = 1..n
  BY DEF History, Ledger!IsHistory
<1>1. rows.current[d] \in Nat
  BY DEF Rows
<1>2. rows.current[d] \in {0} \cup 1..rows.current[d]
  BY <1>1
<1> QED
  BY <1>2 DEF History

\* The highest number is the one the document row points at.
LEMMA LatestIsCurrent ==
    ASSUME tx \in Rows, History(tx), NEW d \in Documents
    PROVE  Latest(d) = tx.current[d] /\ Latest(d) \in Nat
<1> DEFINE N == {v.number : v \in {u \in tx.versions : u.document = d}}
           n == tx.current[d]
<1>1. n \in Nat /\ N = 1..n
  BY DEF Rows, History, Ledger!Numbers
<1>2. \A v \in tx.versions : v.document = d => v.number \in N
  OBVIOUS
<1>3. \A k \in N : \E v \in tx.versions : v.document = d /\ v.number = k
  OBVIOUS
<1>4. n \in {0} \cup N /\ \A v \in tx.versions : v.document = d => v.number <= n
  <2> HIDE DEF N, n
  <2>1. n \in {0} \cup N
    BY <1>1
  <2>2. \A k \in N : k <= n
    BY <1>1
  <2> QED
    BY <1>2, <2>1, <2>2
<1>5. ASSUME NEW m \in {0} \cup N, \A v \in tx.versions : v.document = d => v.number <= m
      PROVE  m = n
  <2>1. \A k \in N : k <= m
    BY <1>3, <1>5
  <2> HIDE DEF N, n
  <2>2. CASE n = 0
    BY <2>2, <1>1, <1>5
  <2>3. CASE n # 0
    <3>1. n \in N /\ m \in 0..n
      BY <2>3, <1>1, <1>5
    <3>2. n <= m
      BY <3>1, <2>1
    <3> QED
      BY <3>1, <3>2, <1>1
  <2> QED
    BY <2>2, <2>3
<1> QED
  BY <1>1, <1>4, <1>5 DEF Latest

-----------------------------------------------------------------------------
(* Type correctness                                                        *)

LEMMA RecordFailureType ==
    ASSUME NEW rows \in Rows, NEW stage \in Stages, run \in Runs
    PROVE  RecordFailure(rows, stage) \in Rows
<1>1. [rows.failures[run] EXCEPT ![stage] = @ + 1] \in [Stages -> Nat]
  BY DEF Rows
<1>2. [rows.failures EXCEPT ![run][stage] = @ + 1] \in [Runs -> [Stages -> Nat]]
  BY <1>1 DEF Rows
<1> QED
  BY <1>2 DEF RecordFailure, Rows

LEMMA RaiseType ==
    ASSUME NEW rows \in Rows, NEW counts \in Summary, run \in Runs, RaiseToRun(rows, counts)
    PROVE  tx' \in Rows /\ summary' \in Summary /\ pc' = "finish"
<1>1. tx' \in Rows
  BY RecordFailureType DEF RaiseToRun, Stages
<1>2. summary' \in Summary
  BY DEF RaiseToRun, Summary
<1> QED
  BY <1>1, <1>2 DEF RaiseToRun

LEMMA TypeInit == Init => TypeOK
<1> SUFFICES ASSUME Init
             PROVE  TypeOK
  OBVIOUS
<1>1. Fresh \in Summary /\ [Fresh EXCEPT !.status = "none"] \in Summary
  BY DEF Fresh, Summary
<1>2. NoRows \in Rows
  BY <1>1 DEF NoRows, Rows
<1>3. outcome \in [Runs -> {"none", "running", "committed", "raised", "killed"}]
  BY DEF Init
<1>4. todo \in Seq(Documents)
  BY DEF Init
<1>5. run \in 0..MaxRuns /\ position \in Nat
  BY DEF Init
<1>6. /\ pc \in {"idle", "discover", "fetch", "parse", "load", "finish"}
      /\ pc = "idle" /\ doomed \in BOOLEAN /\ unflushed \subseteq Entities
      /\ store \subseteq Contents /\ parses \subseteq Contents /\ item = NoItem
  BY DEF Init
<1> QED
  BY <1>1, <1>2, <1>3, <1>4, <1>5, <1>6 DEF Init, TypeOK

LEMMA TouchType ==
    ASSUME NEW rows \in Rows, NEW d \in Documents
    PROVE  Touch(rows, d) \in Rows
BY DEF Touch, Rows

\* A count replaced by a number is a summary.
LEMMA SetCount ==
    ASSUME NEW s \in Summary, NEW n \in Nat
    PROVE  /\ [s EXCEPT !.discovered = n] \in Summary
           /\ [s EXCEPT !.fetched = n] \in Summary
           /\ [s EXCEPT !.unchanged = n] \in Summary
           /\ [s EXCEPT !.versions = n] \in Summary
           /\ [s EXCEPT !.rejected = n] \in Summary
           /\ [s EXCEPT !.evidence = n] \in Summary
BY DEF Summary

LEMMA CountType ==
    ASSUME NEW s \in Summary
    PROVE  /\ s.discovered \in Nat /\ s.fetched \in Nat /\ s.parsed \in Nat
           /\ s.normalized \in Nat /\ s.unchanged \in Nat /\ s.versions \in Nat
           /\ s.evidence \in Nat /\ s.upserted \in Nat /\ s.rejected \in Nat
           /\ s.drift \in BOOLEAN
BY DEF Summary

LEMMA Successor == \A n \in Nat : n + 1 \in Nat
OBVIOUS

LEMMA Sum == \A m, n \in Nat : m + n \in Nat
OBVIOUS

LEMMA FetchedType == ASSUME summary \in Summary PROVE Fetched \in Summary
<1>1. summary.fetched + 1 \in Nat
  BY CountType, Successor
<1>2. [summary EXCEPT !.fetched = summary.fetched + 1] \in Summary
  BY <1>1, SetCount
<1> QED
  BY <1>2 DEF Fetched

LEMMA SetTwoCounts ==
    ASSUME NEW s \in Summary, NEW n \in Nat, NEW m \in Nat, NEW b \in BOOLEAN
    PROVE  /\ [s EXCEPT !.normalized = n, !.rejected = m] \in Summary
           /\ [s EXCEPT !.normalized = n, !.upserted = m] \in Summary
           /\ [s EXCEPT !.parsed = n, !.drift = b] \in Summary
BY DEF Summary

LEMMA LoadedType == ASSUME summary \in Summary PROVE Loaded \in Summary
<1>1. summary.normalized + 1 \in Nat /\ summary.upserted + 1 \in Nat
  BY CountType, Successor
<1>2. [summary EXCEPT !.normalized = summary.normalized + 1,
                      !.upserted = summary.upserted + 1] \in Summary
  BY <1>1, SetTwoCounts
<1> QED
  BY <1>2 DEF Loaded

LEMMA DriftType ==
    ASSUME tx \in Rows, summary \in Summary, run \in Runs,
           NEW signature \in Signatures \cup {NoSignature}
    PROVE  DriftRecorded(signature) \in Rows /\ DriftCounted(signature) \in Summary
<1>1. \A rows \in Rows : [rows EXCEPT !.signature = signature] \in Rows
  BY DEF Rows
<1>2. RecordFailure(tx, "schema_drift") \in Rows
  BY RecordFailureType DEF Stages
<1>3. DriftRecorded(signature) \in Rows
  BY <1>1, <1>2 DEF DriftRecorded
<1>4. summary.parsed + 1 \in Nat /\ (summary.drift \/ Drifts(signature)) \in BOOLEAN
  BY CountType, Successor
<1>5. [summary EXCEPT !.parsed = summary.parsed + 1,
                      !.drift = summary.drift \/ Drifts(signature)] \in Summary
  BY <1>4, SetTwoCounts
<1> QED
  BY <1>3, <1>5 DEF DriftCounted

LEMMA VersionType ==
    ASSUME NEW rows \in Rows, NEW v \in Version, NEW d \in Documents, NEW n \in Nat
    PROVE  [rows EXCEPT !.versions = @ \cup {v}, !.current[d] = n] \in Rows
<1>1. [rows.current EXCEPT ![d] = n] \in [Documents -> Nat]
  BY DEF Rows
<1>2. rows.versions \cup {v} \in SUBSET Version
  BY DEF Rows
<1> QED
  BY <1>1, <1>2 DEF Rows

LEMMA LoadType ==
    ASSUME NEW rows \in Rows, NEW e \in Entities, item \in Item, position \in Nat, run \in Runs
    PROVE  Upsert(rows, e) \in Rows /\ CreateEvidence(rows) \in Rows
<1>1. Upsert(rows, e) \in Rows
  BY DEF Upsert, Rows, Item
<1>2. [document |-> item.document, number |-> item.number,
       position |-> position + 1, run |-> run] \in Evidence
  BY DEF Item, Evidence
<1>3. CreateEvidence(rows) \in Rows
  BY <1>2 DEF CreateEvidence, Rows
<1> QED
  BY <1>1, <1>3

LEMMA RunRowType ==
    ASSUME NEW rows \in Rows, NEW r \in Runs, NEW row \in Summary
    PROVE  /\ [rows EXCEPT !.runs[r] = row] \in Rows
           /\ [rows EXCEPT !.connector = TRUE, !.runs[r] = row] \in Rows
<1>1. [rows.runs EXCEPT ![r] = row] \in [Runs -> Summary]
  BY DEF Rows
<1> QED
  BY <1>1 DEF Rows

\* The record that is handled next is one of the item's.
LEMMA HandledRecord ==
    ASSUME TypeOK, NEW kind, Handling(kind)
    PROVE  /\ NextRecord \in Record /\ run \in Runs /\ item \in Item
           /\ position \in Nat /\ position + 1 \in 1 .. Len(RecordsOf[item.content])
<1>1. item \in Item /\ run \in Runs /\ position \in Nat
  BY DEF Handling, TypeOK
<1>2. RecordsOf[item.content] \in Seq(Record)
  BY <1>1 DEF Item
<1>3. position + 1 \in 1 .. Len(RecordsOf[item.content])
  BY <1>1, <1>2 DEF Handling
<1> QED
  BY <1>1, <1>2, <1>3 DEF NextRecord

LEMMA TypeStep ==
    ASSUME TypeOK, History(tx), [Next]_vars
    PROVE  TypeOK'
<1>0. CASE UNCHANGED vars
  BY <1>0 DEF TypeOK, vars
<1>t. /\ db \in Rows /\ tx \in Rows /\ summary \in Summary /\ position \in Nat
      /\ pc # "idle" => run \in Runs
      /\ pc \in {"parse", "load"} => item \in Item
  BY DEF TypeOK
<1>1. CASE StartRun
  <2>1. [Fresh EXCEPT !.status = "running"] \in Summary /\ Fresh \in Summary
    BY DEF Fresh, Summary
  <2>4. run + 1 \in Runs
    BY <1>1 DEF StartRun, TypeOK, Runs
  <2>2. tx' \in Rows
    BY <1>1, <1>t, <2>1, <2>4, RunRowType DEF StartRun
  <2>3. outcome' \in [Runs -> {"none", "running", "committed", "raised", "killed"}]
    BY <1>1 DEF StartRun, TypeOK
  <2> QED
    BY <1>1, <2>1, <2>2, <2>3, <2>4 DEF StartRun, TypeOK, Runs
<1>2. CASE Discover
  <2>1. tx' \in Rows
    BY <1>2, <1>t, RecordFailureType DEF Discover, Stages
  <2>2. todo' \in Seq(Documents) /\ Len(todo') \in Nat
    BY <1>2 DEF Discover
  <2>3. summary' \in Summary
    BY <1>2, <1>t, <2>2, SetCount DEF Discover
  <2> QED
    BY <1>2, <2>1, <2>2, <2>3 DEF Discover, TypeOK
<1>3. CASE DiscoverRaises
  <2>1. tx' \in Rows /\ summary' \in Summary /\ pc' = "finish"
    BY <1>3, <1>t, RaiseType DEF DiscoverRaises
  <2> QED
    BY <1>3, <2>1 DEF DiscoverRaises, TypeOK
<1>4. CASE FetchFails
  <2>1. tx' \in Rows
    BY <1>4, <1>t, RecordFailureType DEF FetchFails, Stages
  <2>2. todo' \in Seq(Documents)
    BY <1>4 DEF FetchFails, TypeOK
  <2> QED
    BY <1>4, <2>1, <2>2 DEF FetchFails, TypeOK
<1>5. CASE FetchAndStore
  <2> DEFINE d == Head(todo)
  <2>1. d \in Documents /\ todo' \in Seq(Documents) /\ run \in Runs
    BY <1>5, <1>t DEF FetchAndStore, TypeOK
  <2>2. PICK c \in Contents :
          \/ StoreUnchanged(d, c) \/ StoreNewVersion(d, c)
          \/ StoreFlushRaises(d, c) \/ PutRaises(d, c)
    BY <1>5 DEF FetchAndStore
  <2>3. UNCHANGED <<db, parses, run, position, outcome>>
    BY <1>5 DEF FetchAndStore
  <2> HIDE DEF d
  <2>4. Touch(tx, d) \in Rows /\ Fetched \in Summary
    BY <1>t, <2>1, TouchType, FetchedType
  <2>5. SUFFICES /\ tx' \in Rows /\ store' \subseteq Contents
                 /\ pc' \in {"parse", "finish"}
                 /\ item' \in Item \cup {NoItem} /\ (pc' = "parse" => item' \in Item)
                 /\ unflushed' \subseteq Entities /\ doomed' \in BOOLEAN
                 /\ summary' \in Summary
    BY <2>1, <2>3, <2>5 DEF TypeOK
  <2>6. CASE StoreUnchanged(d, c)
    <3>1. \A v \in Known(d, c) : v.number \in Nat
      BY <1>t DEF Known, Rows, Version
    <3>2. item' \in Item
      BY <2>6, <2>1, <3>1 DEF StoreUnchanged, Item
    <3>3. Fetched.unchanged + 1 \in Nat
      BY <2>4, CountType, Successor
    <3>4. summary' \in Summary
      BY <2>6, <2>4, <3>3, SetCount DEF StoreUnchanged
    <3> QED
      BY <2>6, <2>4, <3>2, <3>4 DEF StoreUnchanged, TypeOK
  <2>7. CASE StoreNewVersion(d, c)
    <3>1. Latest(d) + 1 \in Nat
      BY <1>t, <2>1, LatestIsCurrent
    <3>2. NewVersion(d, c) \in Version
      BY <2>1, <3>1 DEF NewVersion, Version
    <3>3. tx' \in Rows
      BY <2>7, <2>1, <2>4, <3>1, <3>2, VersionType DEF StoreNewVersion
    <3>4. item' \in Item
      BY <2>7, <2>1, <3>1 DEF StoreNewVersion, Item
    <3>5. Fetched.versions + 1 \in Nat
      BY <2>4, CountType, Successor
    <3>6. summary' \in Summary
      BY <2>7, <2>4, <3>5, SetCount DEF StoreNewVersion
    <3> QED
      BY <2>7, <3>3, <3>4, <3>6 DEF StoreNewVersion, Archive, TypeOK
  <2>8. CASE StoreFlushRaises(d, c)
    <3>1. tx' \in Rows /\ summary' \in Summary /\ pc' = "finish"
      BY <2>8, <1>t, <2>1, <2>4, RaiseType DEF StoreFlushRaises, FlushRaises
    <3> QED
      BY <2>8, <3>1 DEF StoreFlushRaises, FlushRaises, Archive, TypeOK
  <2>9. CASE PutRaises(d, c)
    <3>1. tx' \in Rows /\ summary' \in Summary /\ pc' = "finish"
      BY <2>9, <2>1, <2>4, RaiseType DEF PutRaises
    <3> QED
      BY <2>9, <3>1 DEF PutRaises, TypeOK
  <2> QED
    BY <2>2, <2>6, <2>7, <2>8, <2>9
<1>6. CASE Parse
  <2>1. SignatureOf[item.content] \in Signatures \cup {NoSignature}
    BY <1>6, <1>t DEF Parse, Item
  <2>2. /\ DriftRecorded(SignatureOf[item.content]) \in Rows
        /\ DriftCounted(SignatureOf[item.content]) \in Summary
    BY <1>6, <1>t, <2>1, DriftType DEF Parse
  <2>3. RejectedBy[item.content] \in Nat
    BY <1>6, <1>t DEF Parse, Item
  <2>4. DriftCounted(SignatureOf[item.content]).rejected + RejectedBy[item.content] \in Nat
    BY <2>2, <2>3, CountType, Sum
  <2>5. tx' \in Rows /\ summary' \in Summary
    BY <1>6, <2>2, <2>4, SetCount DEF Parse
  <2> QED
    BY <1>6, <1>t, <2>5 DEF Parse, TypeOK
<1>7. CASE ParseFails
  <2>1. tx' \in Rows
    BY <1>7, <1>t, RecordFailureType DEF ParseFails, Stages
  <2> QED
    BY <1>7, <2>1 DEF ParseFails, TypeOK
<1>8. CASE ParseRaises
  <2>1. SignatureOf[item.content] \in Signatures \cup {NoSignature}
    BY <1>8, <1>t DEF ParseRaises, Item
  <2>2. /\ DriftRecorded(SignatureOf[item.content]) \in Rows
        /\ DriftCounted(SignatureOf[item.content]) \in Summary
    BY <1>8, <1>t, <2>1, DriftType DEF ParseRaises
  <2>3. tx' \in Rows /\ summary' \in Summary /\ pc' = "finish"
    BY <1>8, <1>t, <2>2, RaiseType DEF ParseRaises
  <2> QED
    BY <1>8, <2>3 DEF ParseRaises, TypeOK
<1>r. \A kind : Handling(kind) =>
        position' \in Nat /\ NextRecord \in Record /\ run \in Runs /\ item \in Item
  BY HandledRecord DEF Handling
<1>9. CASE RejectInvalid
  <2>1. position' \in Nat /\ run \in Runs
    BY <1>9, <1>r DEF RejectInvalid
  <2>2. tx' \in Rows
    BY <1>9, <1>t, <2>1, RecordFailureType DEF RejectInvalid, Stages
  <2>3. summary.rejected + 1 \in Nat
    BY <1>t, CountType, Successor
  <2>4. summary' \in Summary
    BY <1>9, <1>t, <2>3, SetCount DEF RejectInvalid
  <2> QED
    BY <1>9, <2>1, <2>2, <2>4 DEF RejectInvalid, TypeOK
<1>10. CASE LoadCited
  <2>1. position' \in Nat /\ run \in Runs /\ NextRecord.entity \in Entities /\ item \in Item
    BY <1>10, <1>r DEF LoadCited, Record
  <2>2. tx' \in Rows
    BY <1>10, <1>t, <2>1, LoadType DEF LoadCited
  <2>3. Loaded \in Summary
    BY <1>t, LoadedType
  <2>4. Loaded.evidence + EvidenceCreated \in Nat
    BY <2>3, CountType DEF EvidenceCreated
  <2>5. summary' \in Summary
    BY <1>10, <2>3, <2>4, SetCount DEF LoadCited
  <2> QED
    BY <1>10, <2>1, <2>2, <2>5 DEF LoadCited, TypeOK
<1>11. CASE LoadPlain
  <2>1. position' \in Nat /\ run \in Runs /\ NextRecord.entity \in Entities /\ item \in Item
    BY <1>11, <1>r DEF LoadPlain, Record
  <2>2. tx' \in Rows
    BY <1>11, <1>t, <2>1, LoadType DEF LoadPlain
  <2>3. summary' \in Summary
    BY <1>11, <1>t, LoadedType DEF LoadPlain
  <2>4. unflushed' \subseteq Entities /\ doomed' \in BOOLEAN
    BY <1>11, <2>1 DEF LoadPlain, TypeOK
  <2> QED
    BY <1>11, <2>1, <2>2, <2>3, <2>4 DEF LoadPlain, TypeOK
<1>12. CASE LoadRaises
  <2>1. position' \in Nat /\ run \in Runs
    BY <1>12, <1>r DEF LoadRaises
  <2>2. tx' \in Rows
    BY <1>12, <1>t, <2>1, RecordFailureType DEF LoadRaises, RollbackAndRecord, Stages
  <2>3. summary.normalized + 1 \in Nat /\ summary.rejected + 1 \in Nat
    BY <1>t, CountType, Successor
  <2>4. summary' \in Summary
    BY <1>12, <1>t, <2>3, SetTwoCounts DEF LoadRaises, RollbackAndRecord
  <2> QED
    BY <1>12, <2>1, <2>2, <2>4 DEF LoadRaises, RollbackAndRecord, TypeOK
<1>13. CASE NextItem
  BY <1>13 DEF NextItem, TypeOK
<1>14. CASE FinalFlush
  <2>1. CASE doomed
    <3>1. tx' \in Rows /\ summary' \in Summary /\ pc' = "finish" /\ doomed' /\ unflushed' = {}
      BY <1>14, <1>t, <2>1, RaiseType DEF FinalFlush, FlushRaises
    <3> QED
      BY <1>14, <3>1 DEF FinalFlush, TypeOK, FlushRaises
  <2>2. CASE ~doomed
    BY <1>14, <2>2 DEF FinalFlush, TypeOK
  <2> QED
    BY <2>1, <2>2
<1>i. ASSUME Idle
      PROVE  /\ pc' = "idle" /\ todo' \in Seq(Documents) /\ item' = NoItem /\ position' \in Nat
             /\ unflushed' \subseteq Entities /\ doomed' \in BOOLEAN /\ summary' \in Summary
  <2>1. Fresh \in Summary
    BY DEF Fresh, Summary
  <2>2. todo' \in Seq(Documents)
    BY <1>i DEF Idle
  <2>3. position' \in Nat /\ doomed' \in BOOLEAN
    BY <1>i DEF Idle
  <2> QED
    BY <1>i, <2>1, <2>2, <2>3 DEF Idle
<1>15. CASE FinishRun
  <2>1. tx' \in Rows /\ db' \in Rows
    BY <1>15, <1>t, RunRowType DEF FinishRun
  <2>2. outcome' \in [Runs -> {"none", "running", "committed", "raised", "killed"}]
    BY <1>15 DEF FinishRun, TypeOK
  <2> QED
    BY <1>15, <1>i, <2>1, <2>2 DEF FinishRun, TypeOK
<1>16. CASE FinishRaises
  <2>1. outcome' \in [Runs -> {"none", "running", "committed", "raised", "killed"}]
    BY <1>16 DEF FinishRaises, TypeOK
  <2> QED
    BY <1>16, <1>i, <1>t, <2>1 DEF FinishRaises, TypeOK
<1>17. CASE Kill
  <2>1. outcome' \in [Runs -> {"none", "running", "committed", "raised", "killed"}]
    BY <1>17 DEF Kill, TypeOK
  <2> QED
    BY <1>17, <1>i, <1>t, <2>1 DEF Kill, TypeOK
<1>18. CASE FixParser
  BY <1>18 DEF FixParser, TypeOK
<1> QED
  BY <1>0, <1>1, <1>2, <1>3, <1>4, <1>5, <1>6, <1>7, <1>8, <1>9, <1>10, <1>11, <1>12,
     <1>13, <1>14, <1>15, <1>16, <1>17, <1>18
  DEF Next, RunStep

-----------------------------------------------------------------------------
(* The inductive invariant                                                 *)

\* The transaction only adds: rows that are not committed yet belong to the
\* current run, and evidence among them cites versions among them.
AddsOnly ==
    /\ db.versions \subseteq tx.versions
    /\ db.evidence \subseteq tx.evidence
    /\ \A v \in tx.versions \ db.versions : v.run = run
    /\ \A e \in tx.evidence \ db.evidence :
         /\ e.run = run
         /\ \E v \in tx.versions \ db.versions : Ledger!Cites(e, v)

\* While the session is sound, the item being loaded as new is a version that
\* this very transaction has added.
FreshItemIsNew ==
    pc \in {"parse", "load"} /\ item.fresh /\ ~doomed =>
        \E v \in tx.versions \ db.versions :
            v.document = item.document /\ v.number = item.number

\* No row refers to bytes that are not archived, committed or not.
Archived ==
    /\ \A v \in tx.versions : v.content \in store
    /\ \A e \in db.evidence : \E v \in db.versions : Ledger!Cites(e, v)

PipelineInv ==
    /\ TypeOK
    /\ History(db) /\ History(tx)
    /\ pc = "idle" => tx = db
    /\ AddsOnly
    /\ FreshItemIsNew
    /\ Archived

\* What the invariant says of the rows alone.
Same(rows, other) ==
    rows.versions = other.versions /\ rows.evidence = other.evidence
        /\ rows.current = other.current

LEMMA SameHistory ==
    ASSUME NEW rows, NEW other, Same(rows, other), History(other)
    PROVE  History(rows)
BY DEF Same, History

LEMMA RecordFailureSame ==
    ASSUME NEW rows \in Rows, NEW stage
    PROVE  Same(RecordFailure(rows, stage), rows)
BY DEF RecordFailure, Rows, Same

LEMMA TouchSame ==
    ASSUME NEW rows \in Rows, NEW d
    PROVE  Same(Touch(rows, d), rows)
BY DEF Touch, Rows, Same

LEMMA DriftSame ==
    ASSUME tx \in Rows, NEW signature
    PROVE  Same(DriftRecorded(signature), tx)
<1>1. \A rows : rows \in {tx, RecordFailure(tx, "schema_drift")} => Same(rows, tx)
  BY RecordFailureSame DEF Same
<1>2. Same([tx EXCEPT !.signature = signature], tx)
  BY DEF Rows, Same
<1>3. Same([RecordFailure(tx, "schema_drift") EXCEPT !.signature = signature], tx)
  BY DEF Rows, Same, RecordFailure
<1> QED
  BY <1>1, <1>2, <1>3 DEF DriftRecorded

LEMMA UpsertSame ==
    ASSUME NEW rows \in Rows, NEW e
    PROVE  Same(Upsert(rows, e), rows)
BY DEF Upsert, Rows, Same

\* A step after which the transaction holds the same versions and evidence, or
\* those that are committed, keeps the invariant.
LEMMA QuietStep ==
    ASSUME PipelineInv, TypeOK', UNCHANGED <<db, run>>, store \subseteq store',
           \/ Same(tx', tx)
           \/ Same(tx', db) /\ (pc' \notin {"parse", "load"} \/ doomed'),
           pc' = "idle" => tx' = db,
           pc' \in {"parse", "load"} /\ item'.fresh /\ ~doomed' =>
             pc \in {"parse", "load"} /\ UNCHANGED item /\ ~doomed
    PROVE  PipelineInv'
<1>1. History(db)' /\ History(tx)'
  BY SameHistory DEF PipelineInv, History
<1>2. AddsOnly'
  BY DEF PipelineInv, AddsOnly, Same, Ledger!Cites
<1>3. FreshItemIsNew'
  BY DEF PipelineInv, FreshItemIsNew, Same
<1>4. Archived'
  BY DEF PipelineInv, Archived, AddsOnly, Same, Ledger!Cites
<1> QED
  BY <1>1, <1>2, <1>3, <1>4 DEF PipelineInv

\* A version added after the latest one continues its document's history.
LEMMA HistoryGrows ==
    ASSUME tx \in Rows, History(tx), NEW d \in Documents, NEW c \in Contents,
           run \in Runs, Known(d, c) = {}, NEW rows,
           rows.versions = tx.versions \cup {NewVersion(d, c)},
           rows.current = [tx.current EXCEPT ![d] = Latest(d) + 1]
    PROVE  History(rows)
<1> DEFINE new == NewVersion(d, c)
           n == tx.current[d]
<1>1. n \in Nat /\ Latest(d) = n
  BY LatestIsCurrent DEF Rows
<1>2. new.document = d /\ new.number = n + 1 /\ new.content = c
  BY <1>1 DEF NewVersion
<1>3. \A e \in Documents : e # d =>
        Ledger!Numbers(rows.versions, e) = Ledger!Numbers(tx.versions, e)
  BY <1>2 DEF Ledger!Numbers
<1>4. Ledger!Numbers(rows.versions, d) = Ledger!Numbers(tx.versions, d) \cup {n + 1}
  BY <1>2 DEF Ledger!Numbers
<1>5. rows.current[d] = n + 1 /\ \A e \in Documents : e # d => rows.current[e] = tx.current[e]
  BY <1>1 DEF Rows
<1>6. 1..(n + 1) = (1..n) \cup {n + 1}
  BY <1>1, IntervalGrows
<1>7. \A e \in Documents : Ledger!Numbers(rows.versions, e) = 1..rows.current[e]
  BY <1>3, <1>4, <1>5, <1>6 DEF History
<1>8. ASSUME NEW v \in tx.versions, v.document = d
      PROVE  v.number # n + 1 /\ v.content # c
  <2>1. v.number \in Ledger!Numbers(tx.versions, d)
    BY <1>8 DEF Ledger!Numbers
  <2>2. v.number \in 1..n
    BY <2>1 DEF History
  <2> QED
    BY <1>1, <1>8, <2>2 DEF Known
<1>9. \A u, v \in rows.versions :
        u.document = v.document /\ (u.number = v.number \/ u.content = v.content) => u = v
  <2> HIDE DEF new, n
  <2> SUFFICES ASSUME NEW u \in rows.versions, NEW v \in rows.versions,
                      u.document = v.document, u.number = v.number \/ u.content = v.content
               PROVE  u = v
    OBVIOUS
  <2>0. rows.versions = tx.versions \cup {new}
    BY DEF new
  <2>1. CASE u \in tx.versions /\ v \in tx.versions
    BY <2>1 DEF History
  <2>2. CASE u = new /\ v = new
    BY <2>2
  <2>3. CASE u = new /\ v \in tx.versions
    BY <2>3, <1>2, <1>8
  <2>4. CASE u \in tx.versions /\ v = new
    BY <2>4, <1>2, <1>8
  <2> QED
    BY <2>0, <2>1, <2>2, <2>3, <2>4
<1> QED
  BY <1>7, <1>9 DEF History

LEMMA PipelineStep == PipelineInv /\ [Next]_vars => PipelineInv'
<1> SUFFICES ASSUME PipelineInv, [Next]_vars
             PROVE  PipelineInv'
  OBVIOUS
<1>t. /\ TypeOK' /\ TypeOK
      /\ db \in Rows /\ tx \in Rows /\ db' \in Rows /\ tx' \in Rows
      /\ pc # "idle" => run \in Runs
      /\ pc \in {"parse", "load"} => item \in Item
  BY TypeStep DEF PipelineInv, TypeOK
<1>s. Same(tx, tx) /\ Same(db, db)
  BY DEF Same
<1>r. ASSUME NEW rows \in Rows, NEW counts, RaiseToRun(rows, counts)
      PROVE  Same(tx', rows) /\ pc' = "finish"
  BY <1>r, RecordFailureSame DEF RaiseToRun
<1>0. CASE UNCHANGED vars
  BY <1>0, <1>t, <1>s, QuietStep DEF vars, PipelineInv
<1>1. CASE StartRun
  <2>1. tx = db
    BY <1>1 DEF StartRun, PipelineInv
  <2>2. Same(tx', db) /\ UNCHANGED <<db, store>> /\ pc' = "discover"
    BY <1>1, <1>t DEF StartRun, Rows, Same
  <2>3. History(db)' /\ History(tx)'
    BY <2>2, SameHistory DEF PipelineInv, History
  <2>4. AddsOnly'
    BY <2>2 DEF AddsOnly, Same
  <2>5. Archived'
    BY <2>1, <2>2 DEF PipelineInv, Archived, Same, Ledger!Cites
  <2> QED
    BY <1>t, <2>2, <2>3, <2>4, <2>5 DEF PipelineInv, FreshItemIsNew
<1>2. CASE Discover
  BY <1>2, <1>t, <1>s, QuietStep, RecordFailureSame DEF Discover
<1>3. CASE DiscoverRaises
  BY <1>3, <1>t, <1>r, QuietStep DEF DiscoverRaises
<1>4. CASE FetchFails
  BY <1>4, <1>t, QuietStep, RecordFailureSame DEF FetchFails
<1>5. CASE FetchAndStore
  <2> DEFINE d == Head(todo)
  <2>1. d \in Documents /\ run \in Runs /\ UNCHANGED <<db, run>>
    BY <1>5, <1>t DEF FetchAndStore, TypeOK
  <2>2. PICK c \in Contents :
          \/ StoreUnchanged(d, c) \/ StoreNewVersion(d, c)
          \/ StoreFlushRaises(d, c) \/ PutRaises(d, c)
    BY <1>5 DEF FetchAndStore
  <2> HIDE DEF d
  <2>3. Touch(tx, d) \in Rows /\ Same(Touch(tx, d), tx)
    BY <1>t, <2>1, TouchType, TouchSame
  <2>4. CASE StoreUnchanged(d, c)
    <3>1. Same(tx', tx) /\ ~item'.fresh /\ pc' = "parse" /\ UNCHANGED store
      BY <2>3, <2>4 DEF StoreUnchanged
    <3> QED
      BY <1>t, <2>1, <3>1, QuietStep
  <2>5. CASE StoreNewVersion(d, c)
    <3> DEFINE new == NewVersion(d, c)
    <3>1. /\ tx'.versions = tx.versions \cup {new}
          /\ tx'.current = [tx.current EXCEPT ![d] = Latest(d) + 1]
          /\ tx'.evidence = tx.evidence
      BY <2>3, <2>5 DEF StoreNewVersion, Same, Rows
    <3>2. /\ pc' = "parse" /\ store' = store \cup {c} /\ Known(d, c) = {}
          /\ item' = [document |-> d, content |-> c, number |-> Latest(d) + 1, fresh |-> TRUE]
      BY <2>5 DEF StoreNewVersion, Archive
    <3>3. History(tx')
      BY <1>t, <2>1, <3>1, <3>2, HistoryGrows DEF PipelineInv
    <3>4. History(tx)' /\ History(db)'
      BY <2>1, <3>3 DEF PipelineInv, History
    <3>5. new.document = d /\ new.content = c /\ new.number = Latest(d) + 1 /\ new.run = run
      BY DEF NewVersion
    <3>6. new \notin db.versions
      BY <3>2, <3>5 DEF PipelineInv, AddsOnly, Known
    <3> HIDE DEF new
    <3>7. AddsOnly'
      BY <2>1, <3>1, <3>5, <3>6 DEF PipelineInv, AddsOnly, Ledger!Cites
    <3>8. FreshItemIsNew'
      BY <2>1, <3>1, <3>2, <3>5, <3>6 DEF FreshItemIsNew
    <3>9. Archived'
      BY <2>1, <3>1, <3>2, <3>5 DEF PipelineInv, Archived, Ledger!Cites
    <3> QED
      BY <1>t, <3>2, <3>4, <3>7, <3>8, <3>9 DEF PipelineInv
  <2>6. CASE StoreFlushRaises(d, c)
    <3>1. Same(tx', db) /\ pc' = "finish" /\ store \subseteq store'
      BY <1>r, <1>t, <2>6 DEF StoreFlushRaises, FlushRaises, Archive
    <3> QED
      BY <1>t, <2>1, <3>1, QuietStep
  <2>7. CASE PutRaises(d, c)
    <3>1. Same(tx', tx) /\ pc' = "finish" /\ UNCHANGED store
      BY <1>r, <2>3, <2>7 DEF PutRaises, Same
    <3> QED
      BY <1>t, <2>1, <3>1, QuietStep
  <2> QED
    BY <2>2, <2>4, <2>5, <2>6, <2>7
<1>6. CASE Parse
  BY <1>6, <1>t, DriftSame, QuietStep DEF Parse
<1>7. CASE ParseFails
  BY <1>7, <1>t, RecordFailureSame, QuietStep DEF ParseFails
<1>8. CASE ParseRaises
  <2>1. SignatureOf[item.content] \in Signatures \cup {NoSignature} /\ run \in Runs
    BY <1>8, <1>t DEF ParseRaises, Item
  <2>2. /\ DriftRecorded(SignatureOf[item.content]) \in Rows
        /\ Same(DriftRecorded(SignatureOf[item.content]), tx)
    BY <1>t, <2>1, DriftType, DriftSame DEF TypeOK
  <2>3. Same(tx', tx) /\ pc' = "finish"
    BY <1>8, <1>r, <1>t, <2>2 DEF ParseRaises, Same
  <2> QED
    BY <1>8, <1>t, <2>3, QuietStep DEF ParseRaises
<1>9. CASE RejectInvalid
  BY <1>9, <1>t, RecordFailureSame, QuietStep DEF RejectInvalid, Handling
<1>10. CASE LoadCited
  <2>1. pc = "load" /\ run \in Runs /\ item \in Item
    BY <1>10, <1>t DEF LoadCited, Handling
  <2>2. UNCHANGED <<db, store, pc, run, item, doomed>> /\ ~doomed
    BY <1>10 DEF LoadCited
  <2>3. PICK upserted : /\ tx' = CreateEvidence(upserted)
                        /\ upserted = Upsert(tx, NextRecord.entity)
    BY <1>10 DEF LoadCited
  <2>4. Same(upserted, tx)
    BY <2>3, <1>t, UpsertSame
  <2>5. CASE ~item.fresh
    BY <2>1, <2>2, <2>3, <2>4, <2>5, <1>t, QuietStep DEF CreateEvidence
  <2>6. CASE item.fresh
    <3> DEFINE new == [document |-> item.document, number |-> item.number,
                       position |-> position + 1, run |-> run]
    <3>1. tx'.versions = tx.versions /\ tx'.current = tx.current
          /\ tx'.evidence = tx.evidence \cup {new}
      BY <2>3, <2>4, <2>6, <1>t DEF CreateEvidence, Same, Upsert, Rows
    <3>2. new.document = item.document /\ new.number = item.number /\ new.run = run
      OBVIOUS
    <3>3. PICK v \in tx.versions \ db.versions : Ledger!Cites(new, v)
      BY <2>1, <2>2, <2>6, <3>2 DEF PipelineInv, FreshItemIsNew, Ledger!Cites
    <3> HIDE DEF new
    <3>4. AddsOnly'
      BY <2>2, <3>1, <3>2, <3>3 DEF PipelineInv, AddsOnly, Ledger!Cites
    <3>5. History(tx)' /\ History(db)'
      BY <2>2, <3>1 DEF PipelineInv, History
    <3>6. FreshItemIsNew'
      BY <2>2, <3>1 DEF PipelineInv, FreshItemIsNew
    <3>7. Archived'
      BY <2>2, <3>1 DEF PipelineInv, Archived, Ledger!Cites
    <3> QED
      BY <1>t, <2>1, <2>2, <3>4, <3>5, <3>6, <3>7 DEF PipelineInv
  <2> QED
    BY <2>5, <2>6
<1>11. CASE LoadPlain
  <2>1. pc = "load" /\ UNCHANGED <<db, store, pc, run, item>> /\ (doomed => doomed')
    BY <1>11 DEF LoadPlain, Handling
  <2>2. Same(tx', tx)
    BY <1>11, <1>t, UpsertSame DEF LoadPlain
  <2> QED
    BY <1>t, <2>1, <2>2, QuietStep
<1>12. CASE LoadRaises
  <2>1. pc = "load" /\ UNCHANGED <<db, store, pc, run, item>> /\ doomed'
    BY <1>12 DEF LoadRaises, Handling, RollbackAndRecord
  <2>2. Same(tx', db)
    BY <1>12, <1>t, RecordFailureSame DEF LoadRaises, RollbackAndRecord
  <2> QED
    BY <1>t, <2>1, <2>2, QuietStep
<1>13. CASE NextItem
  BY <1>13, <1>t, <1>s, QuietStep DEF NextItem
<1>14. CASE FinalFlush
  <2>1. CASE doomed
    BY <1>14, <1>r, <1>t, <2>1, QuietStep DEF FinalFlush, FlushRaises
  <2>2. CASE ~doomed
    BY <1>14, <1>s, <1>t, <2>2, QuietStep DEF FinalFlush
  <2> QED
    BY <2>1, <2>2
<1>15. CASE FinishRun
  <2>1. Same(tx', tx) /\ db' = tx' /\ pc' = "idle" /\ UNCHANGED store
    BY <1>15, <1>t DEF FinishRun, Idle, Rows, Same
  <2>2. History(tx)' /\ History(db)'
    BY <2>1, SameHistory DEF PipelineInv, History
  <2>3. AddsOnly'
    BY <2>1 DEF AddsOnly
  <2>4. Archived'
    <3>1. \A e \in tx.evidence : \E v \in tx.versions : Ledger!Cites(e, v)
      BY DEF PipelineInv, AddsOnly, Archived
    <3> QED
      BY <2>1, <3>1 DEF PipelineInv, Archived, Same, Ledger!Cites
  <2> QED
    BY <1>t, <2>1, <2>2, <2>3, <2>4 DEF PipelineInv, FreshItemIsNew
<1>16. CASE FinishRaises \/ Kill
  <2>1. Same(tx', db) /\ tx' = db' /\ pc' = "idle" /\ UNCHANGED <<db, store, run>>
    BY <1>16, <1>s DEF FinishRaises, Kill, Idle
  <2> QED
    BY <1>t, <2>1, QuietStep
<1>17. CASE FixParser
  <2>1. UNCHANGED <<db, tx, store, pc, run, item, doomed>>
    BY <1>17 DEF FixParser
  <2> QED
    BY <1>s, <1>t, <2>1, QuietStep DEF PipelineInv
<1> QED
  BY <1>0, <1>1, <1>2, <1>3, <1>4, <1>5, <1>6, <1>7, <1>8, <1>9, <1>10, <1>11, <1>12,
     <1>13, <1>14, <1>15, <1>16, <1>17
  DEF Next, RunStep

LEMMA PipelineInit == Init => PipelineInv
<1> SUFFICES ASSUME Init
             PROVE  PipelineInv
  OBVIOUS
<1>1. db.versions = {} /\ db.evidence = {} /\ tx = db /\ \A d \in Documents : db.current[d] = 0
  BY DEF Init, NoRows
<1>2. History(db) /\ History(tx)
  BY <1>1 DEF History, Ledger!Numbers
<1> QED
  BY <1>1, <1>2, TypeInit DEF Init, PipelineInv, AddsOnly, FreshItemIsNew, Archived

-----------------------------------------------------------------------------
(* The theorems                                                            *)

\* The inductive invariant, of which the theorems below are consequences.
THEOREM PipelineInvariant == Spec => []PipelineInv
BY PipelineInit, PipelineStep, PTL DEF Spec

\* Every variable keeps its type.
THEOREM TypeCorrect == Spec => []TypeOK
<1>1. PipelineInv => TypeOK
  BY DEF PipelineInv
<1> QED
  BY <1>1, PipelineInvariant, PTL

\* A document row points at the last version of a history without gaps.
THEOREM CurrentLatest == Spec => []CurrentIsLatest
<1>1. PipelineInv => CurrentIsLatest
  BY DEF PipelineInv, History, CurrentIsLatest
<1> QED
  BY <1>1, PipelineInvariant, PTL

\* Whatever fails and wherever a run is killed, committed evidence cites bytes
\* that the evidence store, which takes no part in the transaction, holds.
THEOREM CitedArchived == Spec => []CitedBytesAreArchived
<1>1. PipelineInv => CitedBytesAreArchived
  BY DEF PipelineInv, Archived, AddsOnly, CitedBytesAreArchived
<1> QED
  BY <1>1, PipelineInvariant, PTL

\* Committing is the only step readers of the database see.
LEMMA OnlyFinishCommits ==
    ASSUME [Next]_vars, ~FinishRun
    PROVE  UNCHANGED db
BY DEF Next, RunStep, vars, StartRun, Discover, DiscoverRaises, FetchFails, FetchAndStore,
       Parse, ParseFails, ParseRaises, RejectInvalid, LoadCited, LoadPlain, LoadRaises,
       NextItem, FinalFlush, FinishRaises, Kill, FixParser

\* It appends.
LEMMA LedgerStep ==
    ASSUME PipelineInv, PipelineInv', [Next]_vars
    PROVE  [Ledger!Append]_<<db.versions, db.evidence>>
<1>1. CASE FinishRun
  <2>1. /\ db'.versions = tx.versions /\ db'.evidence = tx.evidence /\ db' \in Rows
        /\ History(db')
    <3>1. tx \in Rows /\ db' \in Rows /\ History(db)'
      BY DEF PipelineInv, TypeOK
    <3>2. db'.versions = tx.versions /\ db'.evidence = tx.evidence
      BY <1>1, <3>1 DEF FinishRun, Rows
    <3> QED
      BY <3>1, <3>2 DEF History
  <2>2. Ledger!IsHistory(db'.versions)
    BY <2>1, HistoryIsHistory
  <2>3. Ledger!IsHistory(db.versions)'
    BY <2>2 DEF Ledger!IsHistory, Ledger!Numbers
  <2> QED
    BY <2>1, <2>3 DEF PipelineInv, AddsOnly, Ledger!Append
<1>2. CASE ~FinishRun
  BY <1>2, OnlyFinishCommits
<1> QED
  BY <1>1, <1>2

\* Ingestion implements the evidence ledger: through crashes, rollbacks, failed
\* runs and re-ingestion, what is committed are histories that only grow, and
\* evidence that is created once, with the version it cites.
THEOREM LedgerRefinement == Spec => ImplementsEvidenceLedger
<1>1. Init => Ledger!Init
  BY DEF Init, NoRows, Ledger!Init
<1>2. PipelineInv /\ PipelineInv' /\ [Next]_vars => [Ledger!Append]_<<db.versions, db.evidence>>
  BY LedgerStep
<1> QED
  BY <1>1, <1>2, PipelineInvariant, PTL DEF Spec, ImplementsEvidenceLedger, Ledger!Spec

-----------------------------------------------------------------------------
(* The run rows.  Nothing is committed for a run before it finishes, and   *)
(* its transaction leaves what earlier runs recorded as it is.             *)

Of(rows, r) == {x \in rows : x.run = r}

Blank(rows, r) ==
    /\ rows.runs[r].status = "none" /\ rows.runs[r].versions = 0 /\ rows.runs[r].evidence = 0
    /\ \A s \in Stages : rows.failures[r][s] = 0
    /\ Of(rows.versions, r) = {} /\ Of(rows.evidence, r) = {}

\* Row by row, what other runs than the current one recorded.
Kept(rows, other) ==
    \A r \in Runs \ {run} :
        rows.runs[r] = other.runs[r] /\ rows.failures[r] = other.failures[r]

RowsInv ==
    /\ \A r \in Runs : r > run \/ (r = run /\ pc # "idle") => Blank(db, r)
    /\ Kept(tx, db)

\* One more failure of the current run, and nothing else.
LEMMA FailureRows ==
    ASSUME NEW rows \in Rows, NEW stage \in Stages, run \in Runs
    PROVE  /\ RecordFailure(rows, stage) \in Rows
           /\ RecordFailure(rows, stage).versions = rows.versions
           /\ RecordFailure(rows, stage).evidence = rows.evidence
           /\ RecordFailure(rows, stage).entities = rows.entities
           /\ RecordFailure(rows, stage).signature = rows.signature
           /\ RecordFailure(rows, stage).runs = rows.runs
           /\ RecordFailure(rows, stage).failures[run] =
                 [rows.failures[run] EXCEPT ![stage] = @ + 1]
           /\ \A r \in Runs \ {run} : RecordFailure(rows, stage).failures[r] = rows.failures[r]
<1> DEFINE more == RecordFailure(rows, stage)
<1>1. /\ more.versions = rows.versions /\ more.evidence = rows.evidence
      /\ more.entities = rows.entities /\ more.signature = rows.signature
      /\ more.runs = rows.runs
      /\ more.failures = [rows.failures EXCEPT ![run][stage] = @ + 1]
  BY DEF RecordFailure, Rows
<1>2. rows.failures \in [Runs -> [Stages -> Nat]]
  BY DEF Rows
<1>3. more \in Rows
  BY RecordFailureType
<1>4. /\ more.failures[run] = [rows.failures[run] EXCEPT ![stage] = @ + 1]
      /\ \A r \in Runs \ {run} : more.failures[r] = rows.failures[r]
  <2> DEFINE old == rows.failures
             new == more.failures
  <2>1. old \in [Runs -> [Stages -> Nat]] /\ new = [old EXCEPT ![run][stage] = @ + 1]
    BY <1>1, <1>2
  <2> HIDE DEF old, new
  <2>2. /\ new[run] = [old[run] EXCEPT ![stage] = @ + 1]
        /\ \A r \in Runs \ {run} : new[r] = old[r]
    BY <2>1
  <2> QED
    BY <2>2 DEF old, new
<1> QED
  BY <1>1, <1>3, <1>4

LEMMA KeptFailure ==
    ASSUME NEW rows \in Rows, NEW stage \in Stages, run \in Runs, Kept(rows, db)
    PROVE  Kept(RecordFailure(rows, stage), db)
<1>1. /\ RecordFailure(rows, stage).runs = rows.runs
      /\ \A r \in Runs \ {run} : RecordFailure(rows, stage).failures[r] = rows.failures[r]
  BY FailureRows
<1> QED
  BY <1>1 DEF Kept

LEMMA DriftRows ==
    ASSUME tx \in Rows, run \in Runs, NEW signature \in Signatures \cup {NoSignature}
    PROVE  /\ DriftRecorded(signature).versions = tx.versions
           /\ DriftRecorded(signature).evidence = tx.evidence
           /\ DriftRecorded(signature).entities = tx.entities
           /\ DriftRecorded(signature).runs = tx.runs
           /\ DriftRecorded(signature).signature # tx.signature =>
                 tx.signature = NoSignature \/ Drifts(signature)
           /\ DriftRecorded(signature).failures[run] =
                 IF Drifts(signature)
                 THEN [tx.failures[run] EXCEPT !["schema_drift"] = @ + 1]
                 ELSE tx.failures[run]
           /\ \A r \in Runs \ {run} : DriftRecorded(signature).failures[r] = tx.failures[r]
<1> DEFINE rows == DriftRecorded(signature)
<1> DEFINE flagged == IF Drifts(signature) THEN RecordFailure(tx, "schema_drift") ELSE tx
<1>1. "schema_drift" \in Stages
  BY DEF Stages
<1>2. /\ flagged \in Rows
      /\ flagged.versions = tx.versions /\ flagged.evidence = tx.evidence
      /\ flagged.entities = tx.entities /\ flagged.signature = tx.signature
      /\ flagged.runs = tx.runs
      /\ flagged.failures[run] = IF Drifts(signature)
                                 THEN [tx.failures[run] EXCEPT !["schema_drift"] = @ + 1]
                                 ELSE tx.failures[run]
      /\ \A r \in Runs \ {run} : flagged.failures[r] = tx.failures[r]
  <2>1. CASE Drifts(signature)
    BY <1>1, <2>1, FailureRows
  <2>2. CASE ~Drifts(signature)
    BY <2>2
  <2> QED
    BY <2>1, <2>2
<1>3. rows = IF tx.connector /\ signature # NoSignature
             THEN [flagged EXCEPT !.signature = signature] ELSE flagged
  BY DEF DriftRecorded, Drifts
<1> HIDE DEF flagged
<1>4. /\ rows.versions = flagged.versions /\ rows.evidence = flagged.evidence
      /\ rows.entities = flagged.entities /\ rows.runs = flagged.runs
      /\ rows.failures = flagged.failures
      /\ rows.signature = IF tx.connector /\ signature # NoSignature
                          THEN signature ELSE tx.signature
  BY <1>2, <1>3 DEF Rows
<1> QED
  BY <1>2, <1>4 DEF Drifts

\* A step inside a run, as far as the rows of other runs go.
LEMMA KeptStep ==
    ASSUME PipelineInv, RowsInv, RunStep, pc' # "idle"
    PROVE  Kept(tx', db) /\ UNCHANGED <<db, run>> /\ pc # "idle"
<1>t. /\ db \in Rows /\ tx \in Rows
      /\ pc # "idle" => run \in Runs
      /\ pc \in {"parse", "load"} => item \in Item
      /\ Kept(tx, db) /\ Kept(db, db)
  BY DEF PipelineInv, TypeOK, RowsInv, Kept
<1>r. ASSUME NEW rows \in Rows, NEW counts, RaiseToRun(rows, counts), Kept(rows, db), run \in Runs
      PROVE  Kept(tx', db)
  <2>1. tx' = RecordFailure(rows, "run") /\ "run" \in Stages
    BY <1>r DEF RaiseToRun, Stages
  <2> QED
    BY <1>r, <2>1, KeptFailure
<1>f. \A stage \in Stages : run \in Runs => /\ Kept(RecordFailure(tx, stage), db)
                                           /\ Kept(RecordFailure(db, stage), db)
  BY <1>t, KeptFailure
<1>d. ASSUME item \in Item, run \in Runs
      PROVE  /\ DriftRecorded(SignatureOf[item.content]) \in Rows
             /\ Kept(DriftRecorded(SignatureOf[item.content]), db)
  <2>1. SignatureOf[item.content] \in Signatures \cup {NoSignature}
    BY <1>d DEF Item
  <2> DEFINE s == SignatureOf[item.content]
  <2> HIDE DEF s
  <2>2. /\ DriftRecorded(s).runs = tx.runs
        /\ \A r \in Runs \ {run} : DriftRecorded(s).failures[r] = tx.failures[r]
    BY <1>t, <1>d, <2>1, DriftRows DEF s
  <2>3. DriftRecorded(s) \in Rows
    BY <1>t, <1>d, <2>1, DriftType DEF s, PipelineInv, TypeOK
  <2> QED
    BY <1>t, <2>2, <2>3 DEF Kept, s
<1>1. CASE Discover
  BY <1>1, <1>t, KeptFailure DEF Discover, Stages
<1>2. CASE DiscoverRaises
  BY <1>2, <1>t, <1>r DEF DiscoverRaises
<1>3. CASE FetchFails
  BY <1>3, <1>t, KeptFailure DEF FetchFails, Stages
<1>4. CASE FetchAndStore
  <2>1. UNCHANGED <<db, run>> /\ pc = "fetch" /\ Head(todo) \in Documents
    BY <1>4 DEF FetchAndStore, PipelineInv, TypeOK
  <2> DEFINE d == Head(todo)
  <2>2. PICK c \in Contents :
          \/ StoreUnchanged(d, c) \/ StoreNewVersion(d, c)
          \/ StoreFlushRaises(d, c) \/ PutRaises(d, c)
    BY <1>4 DEF FetchAndStore
  <2> HIDE DEF d
  <2>3. /\ Touch(tx, d) \in Rows /\ Touch(tx, d).runs = tx.runs
        /\ Touch(tx, d).failures = tx.failures
    <3>1. d \in Documents
      BY <2>1 DEF d
    <3> QED
      BY <1>t, <3>1, TouchType DEF Touch, Rows
  <2>4. Kept(Touch(tx, d), db)
    BY <1>t, <2>3 DEF Kept
  <2>5. CASE StoreUnchanged(d, c)
    BY <2>1, <2>4, <2>5 DEF StoreUnchanged
  <2>6. CASE StoreNewVersion(d, c)
    <3>1. tx'.runs = tx.runs /\ tx'.failures = tx.failures
      BY <2>3, <2>6 DEF StoreNewVersion, Rows
    <3> QED
      BY <1>t, <2>1, <3>1 DEF Kept
  <2>7. CASE StoreFlushRaises(d, c)
    <3>1. RaiseToRun(db, Fetched)
      BY <2>7 DEF StoreFlushRaises, FlushRaises
    <3> QED
      BY <1>t, <1>r, <2>1, <3>1
  <2>8. CASE PutRaises(d, c)
    <3>1. RaiseToRun(Touch(tx, d), Fetched)
      BY <2>8 DEF PutRaises
    <3> QED
      BY <1>t, <1>r, <2>1, <2>3, <2>4, <3>1
  <2> QED
    BY <2>2, <2>5, <2>6, <2>7, <2>8
<1>5. CASE Parse \/ ParseFails
  <2>1. pc = "parse" /\ run \in Runs /\ item \in Item /\ UNCHANGED <<db, run>>
    BY <1>5, <1>t DEF Parse, ParseFails
  <2>2. tx' \in {DriftRecorded(SignatureOf[item.content]), RecordFailure(tx, "parse")}
    BY <1>5 DEF Parse, ParseFails
  <2> QED
    BY <1>d, <1>f, <2>1, <2>2 DEF Stages
<1>6. CASE ParseRaises
  <2>1. pc = "parse" /\ run \in Runs /\ item \in Item /\ UNCHANGED <<db, run>>
    BY <1>6, <1>t DEF ParseRaises
  <2>2. PICK rows \in {tx, DriftRecorded(SignatureOf[item.content])} :
          \E counts : RaiseToRun(rows, counts)
    BY <1>6 DEF ParseRaises
  <2> QED
    BY <1>t, <1>d, <1>r, <2>1, <2>2
<1>7. CASE RejectInvalid \/ LoadRaises
  <2>1. pc = "load" /\ run \in Runs /\ UNCHANGED <<db, run>>
    BY <1>7, <1>t DEF RejectInvalid, LoadRaises, Handling
  <2>2. tx' \in {RecordFailure(tx, "validate"), RecordFailure(db, "persist")}
    BY <1>7 DEF RejectInvalid, LoadRaises, RollbackAndRecord
  <2> QED
    BY <1>f, <2>1, <2>2 DEF Stages
<1>8. CASE LoadCited \/ LoadPlain
  <2>1. tx'.runs = tx.runs /\ tx'.failures = tx.failures
    <3>1. Upsert(tx, NextRecord.entity).runs = tx.runs
            /\ Upsert(tx, NextRecord.entity).failures = tx.failures
      BY <1>t DEF Upsert, Rows
    <3>2. CreateEvidence(Upsert(tx, NextRecord.entity)).runs = tx.runs
            /\ CreateEvidence(Upsert(tx, NextRecord.entity)).failures = tx.failures
      BY <1>t DEF CreateEvidence, Upsert, Rows
    <3> QED
      BY <1>8, <3>1, <3>2 DEF LoadCited, LoadPlain
  <2> QED
    BY <1>8, <1>t, <2>1 DEF LoadCited, LoadPlain, Handling, Kept
<1>9. CASE NextItem
  BY <1>9, <1>t DEF NextItem
<1>10. CASE FinalFlush
  <2>1. pc = "fetch" /\ run \in Runs /\ UNCHANGED <<db, run>>
    BY <1>10, <1>t DEF FinalFlush
  <2>2. tx' = tx \/ RaiseToRun(db, summary)
    BY <1>10 DEF FinalFlush, FlushRaises
  <2> QED
    BY <1>t, <1>r, <2>1, <2>2
<1>11. CASE FinishRun \/ FinishRaises
  BY <1>11 DEF FinishRun, FinishRaises, Idle
<1> QED
  BY <1>1, <1>2, <1>3, <1>4, <1>5, <1>6, <1>7, <1>8, <1>9, <1>10, <1>11 DEF RunStep

\* What a run commits leaves the rows of the others alone.
LEMMA FinishRows ==
    ASSUME PipelineInv, RowsInv, FinishRun, NEW r \in Runs \ {run}
    PROVE  /\ db'.runs[r] = db.runs[r] /\ db'.failures[r] = db.failures[r]
           /\ Of(db'.versions, r) = Of(db.versions, r)
           /\ Of(db'.evidence, r) = Of(db.evidence, r)
<1>1. /\ tx \in Rows /\ db' = [tx EXCEPT !.runs[run] = summary] /\ run \in Runs
  BY DEF FinishRun, PipelineInv, TypeOK
<1>2. /\ db'.runs[r] = tx.runs[r] /\ db'.failures = tx.failures
      /\ db'.versions = tx.versions /\ db'.evidence = tx.evidence
  BY <1>1 DEF Rows
<1>3. /\ db.versions \subseteq tx.versions /\ db.evidence \subseteq tx.evidence
      /\ \A v \in tx.versions \ db.versions : v.run = run
      /\ \A e \in tx.evidence \ db.evidence : e.run = run
  BY DEF PipelineInv, AddsOnly
<1>4. tx.runs[r] = db.runs[r] /\ tx.failures[r] = db.failures[r]
  BY DEF RowsInv, Kept
<1> QED
  BY <1>2, <1>3, <1>4 DEF Of

LEMMA RowsStep ==
    ASSUME PipelineInv, PipelineInv', RowsInv, [Next]_vars
    PROVE  RowsInv'
<1>t. run \in 0 .. MaxRuns /\ Runs = 1 .. MaxRuns /\ (pc # "idle" => run \in Runs)
  BY DEF PipelineInv, TypeOK, Runs
<1>s. ASSUME UNCHANGED <<db, run>>, Kept(tx, db)', pc' # "idle" => pc # "idle"
      PROVE  RowsInv'
  <2>1. \A r \in Runs : Blank(db, r) => Blank(db', r)
    BY <1>s
  <2> QED
    BY <1>s, <2>1 DEF RowsInv, Blank
<1>1. CASE UNCHANGED vars \/ FixParser
  <2>1. UNCHANGED <<db, tx, run, pc>>
    BY <1>1 DEF vars, FixParser
  <2> QED
    BY <1>s, <2>1 DEF RowsInv, Kept
<1>2. CASE StartRun
  <2>1. /\ run' = run + 1 /\ UNCHANGED db /\ tx = db /\ db \in Rows
        /\ tx' = [db EXCEPT !.connector = TRUE,
                           !.runs[run + 1] = [Fresh EXCEPT !.status = "running"]]
    BY <1>2 DEF StartRun, PipelineInv, TypeOK
  <2>2. \A r \in Runs \ {run'} : tx'.runs[r] = db.runs[r] /\ tx'.failures[r] = db.failures[r]
    BY <2>1 DEF Rows
  <2>3. \A r \in Runs : r > run' \/ r = run' => r > run
    BY <1>t, <2>1
  <2> QED
    BY <2>1, <2>2, <2>3 DEF RowsInv, Kept, Blank
<1>3. CASE FinishRun
  <2>1. /\ UNCHANGED run /\ pc' = "idle" /\ tx' = db'
    BY <1>3 DEF FinishRun, Idle
  <2>2. ASSUME NEW r \in Runs, r > run
        PROVE  Blank(db', r)
    <3>1. r \in Runs \ {run}
      BY <1>t, <2>2
    <3>2. /\ db'.runs[r] = db.runs[r] /\ db'.failures[r] = db.failures[r]
          /\ Of(db'.versions, r) = Of(db.versions, r)
          /\ Of(db'.evidence, r) = Of(db.evidence, r)
      BY <1>3, <3>1, FinishRows
    <3>3. Blank(db, r)
      BY <2>2 DEF RowsInv
    <3> QED
      BY <3>2, <3>3 DEF Blank
  <2> QED
    BY <2>1, <2>2 DEF RowsInv, Kept, Blank
<1>4. CASE FinishRaises \/ Kill
  <2>1. UNCHANGED <<db, run>> /\ tx' = db' /\ pc' = "idle"
    BY <1>4 DEF FinishRaises, Kill, Idle
  <2> QED
    BY <1>s, <2>1 DEF Kept
<1>5. CASE RunStep /\ pc' # "idle"
  <2>1. Kept(tx', db) /\ UNCHANGED <<db, run>> /\ pc # "idle"
    BY <1>5, KeptStep
  <2> QED
    BY <1>s, <2>1 DEF Kept
<1>6. CASE RunStep /\ pc' = "idle"
  BY <1>3, <1>4, <1>6
  DEF RunStep, Discover, DiscoverRaises, RaiseToRun, FetchFails, FetchAndStore, StoreUnchanged,
      StoreNewVersion, StoreFlushRaises, FlushRaises, PutRaises, Parse, ParseFails, ParseRaises,
      RejectInvalid, LoadCited, LoadPlain, LoadRaises, Handling, NextItem, FinalFlush
<1> QED
  BY <1>1, <1>2, <1>4, <1>5, <1>6 DEF Next

-----------------------------------------------------------------------------
(* The accounts of the run under way: what its summary counts is what its  *)
(* transaction holds, and in a run that has not failed every item, document *)
(* and record is accounted for, those still to come included.  A session   *)
(* whose next flush fails is never committed and owes nothing.             *)

Course ==
    /\ pc \in {"idle", "discover"} => todo = <<>>
    /\ pc = "discover" => summary.discovered = 0
    /\ summary.status \in {"success", "failed"}
    /\ pc # "finish" => summary.status = "success"
    /\ pc = "finish" /\ summary.status = "success" => todo = <<>>

\* No evidence cites a new version before its records are loaded, and then only
\* the records that have been handled.
Positions ==
    pc \in {"parse", "load"} /\ item.fresh /\ ~doomed =>
        \A e \in tx.evidence : e.document = item.document /\ e.number = item.number =>
            pc = "load" /\ e.position <= position

Tally(rows, counts) ==
    /\ IsFiniteSet(Of(rows.versions, run)) /\ IsFiniteSet(Of(rows.evidence, run))
    /\ counts.versions = Cardinality(Of(rows.versions, run))
    /\ counts.evidence = Cardinality(Of(rows.evidence, run))

Balanced(counts, failed, pending, underway) ==
    /\ counts.discovered = counts.fetched + failed["fetch"] + pending
    /\ counts.fetched = counts.unchanged + counts.versions
    /\ counts.fetched = counts.parsed + failed["parse"] + underway
    /\ counts.normalized = counts.upserted + failed["persist"]
    /\ counts.rejected >= failed["validate"] + failed["persist"]
    /\ counts.drift <=> failed["schema_drift"] > 0
    /\ failed["run"] = 0

Flagged(rows, counts) == counts.drift /\ rows.failures[run]["schema_drift"] > 0

Accounts ==
    pc # "idle" /\ ~doomed =>
        /\ Tally(tx, summary)
        /\ summary.status = "success" =>
              Balanced(summary, tx.failures[run], Len(todo), IF pc = "parse" THEN 1 ELSE 0)
        /\ db.signature \notin {NoSignature, tx.signature} => Flagged(tx, summary)

AccountsInv == RowsInv /\ Course /\ Positions /\ Accounts

LEMMA FetchedFields ==
    ASSUME summary \in Summary
    PROVE  /\ Fetched \in Summary /\ Fetched.fetched = summary.fetched + 1
           /\ Fetched.status = summary.status /\ Fetched.discovered = summary.discovered
           /\ Fetched.parsed = summary.parsed /\ Fetched.normalized = summary.normalized
           /\ Fetched.unchanged = summary.unchanged /\ Fetched.versions = summary.versions
           /\ Fetched.evidence = summary.evidence /\ Fetched.upserted = summary.upserted
           /\ Fetched.rejected = summary.rejected /\ Fetched.drift = summary.drift
BY FetchedType DEF Fetched, Summary

LEMMA LoadedFields ==
    ASSUME summary \in Summary
    PROVE  /\ Loaded \in Summary
           /\ Loaded.normalized = summary.normalized + 1
           /\ Loaded.upserted = summary.upserted + 1
           /\ Loaded.status = summary.status /\ Loaded.discovered = summary.discovered
           /\ Loaded.fetched = summary.fetched /\ Loaded.parsed = summary.parsed
           /\ Loaded.unchanged = summary.unchanged /\ Loaded.versions = summary.versions
           /\ Loaded.evidence = summary.evidence /\ Loaded.rejected = summary.rejected
           /\ Loaded.drift = summary.drift
BY LoadedType DEF Loaded, Summary

LEMMA DriftFields ==
    ASSUME summary \in Summary, NEW signature
    PROVE  /\ DriftCounted(signature).parsed = summary.parsed + 1
           /\ DriftCounted(signature).drift <=> (summary.drift \/ Drifts(signature))
           /\ DriftCounted(signature).status = summary.status
           /\ DriftCounted(signature).discovered = summary.discovered
           /\ DriftCounted(signature).fetched = summary.fetched
           /\ DriftCounted(signature).normalized = summary.normalized
           /\ DriftCounted(signature).unchanged = summary.unchanged
           /\ DriftCounted(signature).versions = summary.versions
           /\ DriftCounted(signature).evidence = summary.evidence
           /\ DriftCounted(signature).upserted = summary.upserted
           /\ DriftCounted(signature).rejected = summary.rejected
           /\ DOMAIN DriftCounted(signature) = DOMAIN summary
BY DEF DriftCounted, Summary

\* The course of a run and its status.
LEMMA CourseStep ==
    ASSUME PipelineInv, Course, [Next]_vars
    PROVE  Course'
<1>t. summary \in Summary
  BY DEF PipelineInv, TypeOK
<1>r. ASSUME NEW rows, NEW counts \in Summary, RaiseToRun(rows, counts)
      PROVE  summary'.status = "failed" /\ pc' = "finish"
  BY <1>r DEF RaiseToRun, Summary
<1>i. ASSUME Idle PROVE Course'
  BY <1>i DEF Idle, Fresh, Course
<1>s. ASSUME pc' \notin {"idle", "discover", "finish"}, pc # "finish",
             summary'.status = summary.status
      PROVE  Course'
  BY <1>s DEF Course
<1>f. ASSUME summary'.status = "failed", pc' = "finish" PROVE Course'
  BY <1>f DEF Course
<1>1. CASE UNCHANGED vars \/ FixParser
  BY <1>1 DEF vars, FixParser, Course
<1>2. CASE StartRun
  BY <1>2 DEF StartRun, Fresh, Course
<1>3. CASE Discover \/ FetchFails
  BY <1>3, <1>s, <1>t DEF Discover, FetchFails, Summary
<1>4. CASE DiscoverRaises
  BY <1>4, <1>f, <1>r, <1>t DEF DiscoverRaises
<1>5. CASE FetchAndStore
  <2>1. pc = "fetch" /\ Fetched \in Summary /\ Fetched.status = summary.status
    BY <1>5, <1>t, FetchedFields DEF FetchAndStore
  <2>2. PICK d, c : \/ StoreUnchanged(d, c) \/ StoreNewVersion(d, c)
                    \/ StoreFlushRaises(d, c) \/ PutRaises(d, c)
    BY <1>5 DEF FetchAndStore
  <2>3. CASE StoreUnchanged(d, c) \/ StoreNewVersion(d, c)
    BY <1>s, <2>1, <2>3 DEF StoreUnchanged, StoreNewVersion, Summary
  <2>4. CASE StoreFlushRaises(d, c) \/ PutRaises(d, c)
    BY <1>f, <1>r, <2>1, <2>4 DEF StoreFlushRaises, FlushRaises, PutRaises
  <2> QED
    BY <2>2, <2>3, <2>4
<1>6. CASE Parse
  BY <1>6, <1>s, <1>t, DriftFields DEF Parse
<1>7. CASE ParseFails
  BY <1>7, <1>s DEF ParseFails
<1>8. CASE ParseRaises
  <2>1. SignatureOf[item.content] \in Signatures \cup {NoSignature}
    BY <1>8 DEF ParseRaises, PipelineInv, TypeOK, Item
  <2>2. DriftCounted(SignatureOf[item.content]) \in Summary
    BY <1>8, <2>1, DriftType DEF ParseRaises, PipelineInv, TypeOK
  <2> QED
    BY <1>8, <1>f, <1>r, <1>t, <2>2 DEF ParseRaises
<1>9. CASE RejectInvalid \/ LoadRaises
  BY <1>9, <1>s, <1>t DEF RejectInvalid, LoadRaises, RollbackAndRecord, Handling, Summary
<1>10. CASE LoadCited \/ LoadPlain
  <2>1. Loaded \in Summary /\ Loaded.status = summary.status
    BY <1>t, LoadedFields
  <2> QED
    BY <1>10, <1>s, <2>1 DEF LoadCited, LoadPlain, Handling, Summary
<1>11. CASE NextItem
  BY <1>11, <1>s DEF NextItem
<1>12. CASE FinalFlush
  <2>1. CASE doomed
    BY <1>12, <1>f, <1>r, <1>t, <2>1 DEF FinalFlush, FlushRaises
  <2>2. CASE ~doomed
    BY <1>12, <2>2 DEF FinalFlush, Course
  <2> QED
    BY <2>1, <2>2
<1>13. CASE FinishRun \/ FinishRaises \/ Kill
  BY <1>13, <1>i DEF FinishRun, FinishRaises, Kill
<1> QED
  BY <1>1, <1>2, <1>3, <1>4, <1>5, <1>6, <1>7, <1>8, <1>9, <1>10, <1>11, <1>12, <1>13
  DEF Next, RunStep

LEMMA EvidenceHasVersion ==
    ASSUME PipelineInv, NEW e \in tx.evidence
    PROVE  \E v \in tx.versions : Ledger!Cites(e, v)
BY DEF PipelineInv, AddsOnly, Archived

\* Nothing cites the number that the next version of a document gets.
LEMMA NextNumberIsUncited ==
    ASSUME PipelineInv, NEW d \in Documents, NEW e \in tx.evidence, e.document = d
    PROVE  e.number # Latest(d) + 1
<1>1. PICK v \in tx.versions : v.document = d /\ v.number = e.number
  BY EvidenceHasVersion DEF Ledger!Cites
<1>2. Latest(d) = tx.current[d] /\ Latest(d) \in Nat
  BY LatestIsCurrent DEF PipelineInv, TypeOK
<1>3. v.number \in Ledger!Numbers(tx.versions, d)
  BY <1>1 DEF Ledger!Numbers
<1>4. v.number \in 1 .. Latest(d)
  BY <1>2, <1>3 DEF PipelineInv, History
<1> QED
  BY <1>1, <1>2, <1>4

LEMMA PositionsStep ==
    ASSUME PipelineInv, Positions, [Next]_vars
    PROVE  Positions'
<1>t. /\ db \in Rows /\ tx \in Rows /\ position \in Nat
      /\ pc # "idle" => run \in Runs
      /\ pc \in {"parse", "load"} => item \in Item
      /\ \A e \in tx.evidence : e.position \in Nat
  BY DEF PipelineInv, TypeOK, Rows, Evidence
<1>o. ASSUME pc' \notin {"parse", "load"} \/ doomed'
      PROVE  Positions'
  BY <1>o DEF Positions
<1>s. ASSUME pc = "load", UNCHANGED <<pc, item>>, doomed => doomed',
             tx'.evidence = tx.evidence, position' = position + 1
      PROVE  Positions'
  BY <1>s, <1>t DEF Positions
<1>1. CASE UNCHANGED vars
  BY <1>1 DEF vars, Positions
<1>2. CASE StartRun \/ Discover \/ DiscoverRaises \/ FetchFails
  BY <1>2, <1>o DEF StartRun, Discover, DiscoverRaises, RaiseToRun, FetchFails
<1>3. CASE FetchAndStore
  <2>1. Head(todo) \in Documents
    BY <1>3 DEF FetchAndStore, PipelineInv, TypeOK
  <2>2. PICK d \in Documents : \E c :
          \/ StoreUnchanged(d, c) \/ StoreNewVersion(d, c)
          \/ StoreFlushRaises(d, c) \/ PutRaises(d, c)
    BY <1>3, <2>1 DEF FetchAndStore
  <2>3. ASSUME NEW c, StoreUnchanged(d, c) PROVE Positions'
    <3>1. ~item'.fresh
      BY <2>3 DEF StoreUnchanged
    <3> QED
      BY <3>1 DEF Positions
  <2>4. ASSUME NEW c, StoreNewVersion(d, c) PROVE Positions'
    <3>1. tx'.evidence = tx.evidence
      BY <1>t, <2>4, TouchType DEF StoreNewVersion, Touch, Rows
    <3>2. item'.document = d /\ item'.number = Latest(d) + 1
      BY <2>4 DEF StoreNewVersion
    <3> QED
      BY <3>1, <3>2, NextNumberIsUncited DEF Positions
  <2>5. ASSUME NEW c, StoreFlushRaises(d, c) \/ PutRaises(d, c) PROVE Positions'
    BY <1>o, <2>5 DEF StoreFlushRaises, FlushRaises, PutRaises, RaiseToRun
  <2> QED
    BY <2>2, <2>3, <2>4, <2>5
<1>4. CASE Parse
  <2>1. run \in Runs /\ SignatureOf[item.content] \in Signatures \cup {NoSignature}
    BY <1>4, <1>t DEF Parse, Item
  <2>2. tx'.evidence = tx.evidence
    BY <1>4, <1>t, <2>1, DriftRows DEF Parse
  <2> QED
    BY <1>4, <2>2 DEF Parse, Positions
<1>5. CASE ParseFails \/ ParseRaises
  BY <1>5, <1>o DEF ParseFails, ParseRaises, RaiseToRun
<1>6. CASE RejectInvalid
  <2>1. tx'.evidence = tx.evidence /\ pc = "load" /\ position' = position + 1
    BY <1>6, <1>t, FailureRows DEF RejectInvalid, Handling, Stages
  <2> QED
    BY <1>6, <1>s, <2>1 DEF RejectInvalid
<1>7. CASE LoadCited
  <2>1. pc = "load" /\ position' = position + 1 /\ UNCHANGED <<pc, item, doomed>>
    BY <1>7 DEF LoadCited, Handling
  <2>2. Upsert(tx, NextRecord.entity) \in Rows
          /\ Upsert(tx, NextRecord.entity).evidence = tx.evidence
    <3>1. Same(Upsert(tx, NextRecord.entity), tx)
      BY <1>t, UpsertSame
    <3>2. NextRecord.entity \in Entities
      BY <1>7, HandledRecord DEF LoadCited, PipelineInv, Record
    <3> QED
      BY <1>t, <2>1, <3>1, <3>2, LoadType DEF Same
  <2>3. \A e \in tx'.evidence : e \in tx.evidence \/ e.position = position + 1
    BY <1>7, <2>2 DEF LoadCited, CreateEvidence, Rows
  <2> QED
    BY <1>t, <2>1, <2>3 DEF Positions
<1>8. CASE LoadPlain
  <2>1. tx'.evidence = tx.evidence
    BY <1>8, <1>t, UpsertSame DEF LoadPlain, Same
  <2> QED
    BY <1>8, <1>s, <2>1 DEF LoadPlain, Handling
<1>9. CASE LoadRaises \/ NextItem \/ FinalFlush
  BY <1>9, <1>o DEF LoadRaises, RollbackAndRecord, NextItem, FinalFlush, FlushRaises, RaiseToRun
<1>10. CASE FinishRun \/ FinishRaises \/ Kill \/ FixParser
  BY <1>10, <1>o DEF FinishRun, FinishRaises, Kill, Idle, FixParser
<1> QED
  BY <1>1, <1>2, <1>3, <1>4, <1>5, <1>6, <1>7, <1>8, <1>9, <1>10 DEF Next, RunStep

LEMMA FailureCounts ==
    ASSUME NEW rows \in Rows, NEW stage \in Stages, run \in Runs
    PROVE  /\ \A x \in Stages : rows.failures[run][x] \in Nat
           /\ \A x \in Stages : RecordFailure(rows, stage).failures[run][x] =
                 IF x = stage THEN rows.failures[run][x] + 1 ELSE rows.failures[run][x]
<1>1. rows.failures[run] \in [Stages -> Nat]
  BY DEF Rows
<1>2. RecordFailure(rows, stage).failures[run] = [rows.failures[run] EXCEPT ![stage] = @ + 1]
  BY FailureRows
<1> QED
  BY <1>1, <1>2

LEMMA OneMore ==
    ASSUME NEW rows, NEW more, NEW x, more = rows \cup {x}, x \notin rows, x.run = run,
           IsFiniteSet(Of(rows, run))
    PROVE  /\ IsFiniteSet(Of(more, run))
           /\ Cardinality(Of(more, run)) = Cardinality(Of(rows, run)) + 1
<1>1. Of(more, run) = Of(rows, run) \cup {x} /\ x \notin Of(rows, run)
  BY DEF Of
<1> DEFINE S == Of(rows, run)
<1> HIDE DEF S
<1>2. IsFiniteSet(S) /\ x \notin S
  BY <1>1 DEF S
<1>3. IsFiniteSet(S \cup {x}) /\ Cardinality(S \cup {x}) = Cardinality(S) + 1
  BY <1>2, FS_AddElement
<1> QED
  BY <1>1, <1>3 DEF S

\* What a step owes in a run that goes on and in one that has just failed.
LEMMA StillTallied ==
    ASSUME Tally(tx, summary), UNCHANGED run,
           tx'.versions = tx.versions, tx'.evidence = tx.evidence,
           summary'.versions = summary.versions, summary'.evidence = summary.evidence
    PROVE  Tally(tx, summary)'
BY DEF Tally, Of

StillFlagged ==
    db.signature \notin {NoSignature, tx'.signature} => Flagged(tx, summary)'

LEMMA FlagStays ==
    ASSUME db.signature \notin {NoSignature, tx.signature} => Flagged(tx, summary),
           UNCHANGED <<db, run>>, tx'.signature = tx.signature,
           summary.drift => summary'.drift,
           tx'.failures[run]["schema_drift"] = tx.failures[run]["schema_drift"]
    PROVE  StillFlagged
BY DEF StillFlagged, Flagged

LEMMA StartAccounts ==
    ASSUME PipelineInv, AccountsInv, StartRun
    PROVE  Accounts'
<1>1. /\ tx = db /\ db \in Rows /\ run' \in Runs /\ run' > run /\ UNCHANGED db
      /\ tx' = [db EXCEPT !.connector = TRUE,
                         !.runs[run'] = [Fresh EXCEPT !.status = "running"]]
      /\ summary' = Fresh /\ pc' = "discover" /\ todo' = todo
  BY DEF StartRun, PipelineInv, TypeOK, Runs
<1>2. /\ tx'.versions = db.versions /\ tx'.evidence = db.evidence
      /\ tx'.failures = db.failures /\ tx'.signature = db.signature
  BY <1>1 DEF Rows
<1>3. Blank(db, run') /\ todo = <<>>
  BY <1>1 DEF AccountsInv, RowsInv, Course, StartRun
<1>4. Tally(tx, summary)'
  BY <1>1, <1>2, <1>3, FS_EmptySet DEF Blank, Tally, Of, Fresh
<1>5. Balanced(summary', tx'.failures[run'], 0, 0)
  BY <1>1, <1>2, <1>3 DEF Blank, Balanced, Fresh, Stages
<1>6. Len(todo') = 0
  BY <1>1, <1>3
<1> QED
  BY <1>1, <1>2, <1>4, <1>5, <1>6 DEF Accounts

\* Up to the archive: discovery and the fetches that fail.
LEMMA DiscoverAccounts ==
    ASSUME PipelineInv, AccountsInv, Discover \/ DiscoverRaises \/ FetchFails, ~doomed
    PROVE  Accounts'
<1> DEFINE f == tx.failures[run]
           g == tx'.failures[run]
<1>t. /\ tx \in Rows /\ run \in Runs /\ summary \in Summary /\ todo \in Seq(Documents)
      /\ UNCHANGED <<db, run>> /\ pc \in {"discover", "fetch"}
  BY DEF PipelineInv, TypeOK, Discover, DiscoverRaises, FetchFails
<1>a. /\ Tally(tx, summary) /\ summary.status = "success"
      /\ Balanced(summary, f, Len(todo), 0)
      /\ db.signature \notin {NoSignature, tx.signature} => Flagged(tx, summary)
  BY <1>t DEF AccountsInv, Accounts, Course
<1>n. \A x \in Stages : f[x] \in Nat
  BY <1>t DEF Rows
<1>1. PICK stage \in {"discover", "run", "fetch"} : tx' \in {tx, RecordFailure(tx, stage)}
  BY DEF Discover, DiscoverRaises, RaiseToRun, FetchFails
<1>2. /\ tx'.versions = tx.versions /\ tx'.evidence = tx.evidence
      /\ tx'.signature = tx.signature /\ g["schema_drift"] = f["schema_drift"]
  <2>1. stage \in Stages /\ stage # "schema_drift" /\ "schema_drift" \in Stages
    BY DEF Stages
  <2>2. CASE tx' = RecordFailure(tx, stage)
    <3>1. /\ tx'.versions = tx.versions /\ tx'.evidence = tx.evidence
          /\ tx'.signature = tx.signature
      BY <1>t, <2>1, <2>2, FailureRows
    <3>2. g["schema_drift"] = f["schema_drift"]
      BY <1>t, <2>1, <2>2, FailureCounts
    <3> QED
      BY <3>1, <3>2
  <2>3. CASE tx' = tx
    BY <2>3, <1>t
  <2> QED
    BY <1>1, <2>2, <2>3
<1>3. /\ summary'.versions = summary.versions /\ summary'.evidence = summary.evidence
      /\ summary'.drift = summary.drift
  BY <1>t DEF Discover, DiscoverRaises, RaiseToRun, FetchFails, Summary
<1>4. Tally(tx, summary)' /\ StillFlagged
  BY <1>t, <1>a, <1>2, <1>3, StillTallied, FlagStays
<1>5. CASE Discover
  <2>1. /\ todo' \in Seq(Documents) /\ Len(todo') \in Nat /\ todo = <<>>
        /\ summary.discovered = 0 /\ pc' = "fetch"
    BY <1>5 DEF Discover, AccountsInv, Course
  <2>2. \A x \in Stages \ {"discover"} : g[x] = f[x]
    <3>1. tx' = tx \/ tx' = RecordFailure(tx, "discover")
      BY <1>5 DEF Discover
    <3>2. "discover" \in Stages
      BY DEF Stages
    <3> QED
      BY <1>t, <3>1, <3>2, FailureCounts
  <2>3. summary.fetched \in Nat /\ f["fetch"] \in Nat
    BY <1>t, <1>n, CountType DEF Stages
  <2>4. Len(todo) = 0
    BY <2>1
  <2>5. summary.fetched = 0 /\ f["fetch"] = 0
    BY <1>a, <2>1, <2>3, <2>4 DEF Balanced
  <2>6. summary' = [summary EXCEPT !.discovered = Len(todo')]
    BY <1>5 DEF Discover
  <2>7. /\ summary'.discovered = Len(todo') /\ summary'.fetched = summary.fetched
        /\ summary'.unchanged = summary.unchanged /\ summary'.parsed = summary.parsed
        /\ summary'.normalized = summary.normalized /\ summary'.upserted = summary.upserted
        /\ summary'.rejected = summary.rejected
    BY <1>t, <2>6 DEF Summary
  <2>8. Balanced(summary', g, Len(todo'), 0)
    BY <1>a, <1>3, <2>1, <2>2, <2>5, <2>7 DEF Balanced, Stages
  <2> QED
    BY <1>t, <1>4, <2>1, <2>8 DEF Accounts, StillFlagged
<1>6. CASE DiscoverRaises
  <2>1. summary'.status = "failed"
    BY <1>6, <1>t DEF DiscoverRaises, RaiseToRun, Summary
  <2> QED
    BY <1>t, <1>4, <2>1 DEF Accounts, StillFlagged
<1>7. CASE FetchFails
  <2>1. /\ Len(todo) \in Nat /\ Len(todo') = Len(todo) - 1 /\ summary' = summary
        /\ pc' = "fetch"
    BY <1>7, <1>t DEF FetchFails
  <2>2. g["fetch"] = f["fetch"] + 1 /\ \A x \in Stages \ {"fetch"} : g[x] = f[x]
    BY <1>7, <1>t, FailureCounts DEF FetchFails, Stages
  <2>3. Balanced(summary', g, Len(todo'), 0)
    <3>1. f["fetch"] \in Nat /\ summary.fetched \in Nat
      BY <1>t, <1>n, CountType DEF Stages
    <3>2. /\ g["parse"] = f["parse"] /\ g["persist"] = f["persist"] /\ g["run"] = f["run"]
          /\ g["validate"] = f["validate"] /\ g["schema_drift"] = f["schema_drift"]
      BY <2>2 DEF Stages
    <3> HIDE DEF f, g
    <3>3. summary.fetched + g["fetch"] + Len(todo') = summary.fetched + f["fetch"] + Len(todo)
      BY <2>1, <2>2, <3>1
    <3> QED
      BY <1>a, <2>1, <3>2, <3>3 DEF Balanced
  <2> QED
    BY <1>t, <1>4, <2>1, <2>3 DEF Accounts, StillFlagged
<1> QED
  BY <1>5, <1>6, <1>7

LEMMA OneFetched == \A k, m, n \in Nat : k + m + n = (k + 1) + m + (n - 1)
OBVIOUS

\* A document fetched is known, or one more version, and is to be parsed.
LEMMA StoreAccounts ==
    ASSUME PipelineInv, AccountsInv, FetchAndStore, ~doomed
    PROVE  Accounts'
<1> DEFINE f == tx.failures[run]
           s == summary
<1>t. /\ tx \in Rows /\ run \in Runs /\ s \in Summary /\ todo \in Seq(Documents)
      /\ UNCHANGED <<db, run>> /\ pc = "fetch" /\ Head(todo) \in Documents
      /\ Len(todo) \in Nat /\ Len(todo') = Len(todo) - 1
  BY DEF PipelineInv, TypeOK, FetchAndStore
<1>a. /\ Tally(tx, s) /\ s.status = "success"
      /\ Balanced(s, f, Len(todo), 0)
      /\ db.signature \notin {NoSignature, tx.signature} => Flagged(tx, s)
  BY <1>t DEF AccountsInv, Accounts, Course
<1>n. /\ f["fetch"] \in Nat /\ f["parse"] \in Nat /\ s.fetched \in Nat
      /\ s.unchanged \in Nat /\ s.versions \in Nat /\ s.parsed \in Nat
  BY <1>t, CountType DEF Rows, Stages
<1>1. PICK d \in Documents, c \in Contents :
          \/ StoreUnchanged(d, c) \/ StoreNewVersion(d, c)
          \/ StoreFlushRaises(d, c) \/ PutRaises(d, c)
  BY <1>t DEF FetchAndStore
<1> DEFINE touched == Touch(tx, d)
<1>2. /\ touched \in Rows /\ touched.versions = tx.versions /\ touched.evidence = tx.evidence
      /\ touched.failures = tx.failures /\ touched.signature = tx.signature
  BY <1>t, TouchType DEF Touch, Rows
<1> HIDE DEF touched
<1>3. CASE StoreUnchanged(d, c)
  <2>1. tx' = touched /\ summary' = [Fetched EXCEPT !.unchanged = @ + 1] /\ pc' = "parse"
    BY <1>3 DEF StoreUnchanged, touched
  <2>2. /\ summary'.discovered = s.discovered /\ summary'.fetched = s.fetched + 1
        /\ summary'.unchanged = s.unchanged + 1 /\ summary'.parsed = s.parsed
        /\ summary'.normalized = s.normalized /\ summary'.upserted = s.upserted
        /\ summary'.rejected = s.rejected /\ summary'.drift = s.drift
        /\ summary'.versions = s.versions /\ summary'.evidence = s.evidence
    BY <1>t, <2>1, FetchedFields DEF Summary
  <2>3. Balanced(summary', f, Len(todo'), 1)
    <3> HIDE DEF f, s
    <3>1. Len(todo) \in Nat /\ Len(todo') = Len(todo) - 1
      BY <1>t
    <3>2. summary'.discovered = summary'.fetched + f["fetch"] + Len(todo')
      <4>1. s.discovered = s.fetched + f["fetch"] + Len(todo)
        BY <1>a DEF Balanced
      <4>2. s.fetched + f["fetch"] + Len(todo) = (s.fetched + 1) + f["fetch"] + (Len(todo) - 1)
        <5>1. s.fetched \in Nat /\ f["fetch"] \in Nat
          BY <1>n
        <5> QED
          BY ONLY <3>1, <5>1, OneFetched, Zenon
      <4>3. /\ summary'.discovered = s.discovered /\ summary'.fetched = s.fetched + 1
            /\ Len(todo') = Len(todo) - 1
        BY <2>2, <3>1
      <4> QED
        BY ONLY <4>1, <4>2, <4>3, Zenon
    <3>3. summary'.fetched = summary'.unchanged + summary'.versions
      BY <1>a, <1>n, <2>2 DEF Balanced
    <3>4. summary'.fetched = summary'.parsed + f["parse"] + 1
      <4>1. s.fetched = s.parsed + f["parse"] + 0
        BY <1>a DEF Balanced
      <4>2. summary'.fetched = s.fetched + 1 /\ summary'.parsed = s.parsed
        BY <2>2
      <4>3. s.fetched \in Nat /\ s.parsed \in Nat /\ f["parse"] \in Nat
        BY <1>n
      <4>4. s.fetched + 1 = s.parsed + f["parse"] + 1
        BY ONLY <4>1, <4>3
      <4> QED
        BY ONLY <4>2, <4>4, Zenon
    <3> QED
      BY <1>a, <2>2, <3>2, <3>3, <3>4 DEF Balanced
  <2>4. Tally(tx, summary)' /\ StillFlagged
    BY <1>t, <1>a, <1>2, <2>1, <2>2, StillTallied, FlagStays
  <2> QED
    BY <1>t, <1>2, <2>1, <2>3, <2>4 DEF Accounts, StillFlagged
<1>4. CASE StoreNewVersion(d, c)
  <2> DEFINE new == NewVersion(d, c)
  <2>1. /\ tx' = [touched EXCEPT !.versions = @ \cup {new}, !.current[d] = Latest(d) + 1]
        /\ summary' = [Fetched EXCEPT !.versions = @ + 1] /\ pc' = "parse"
        /\ Known(d, c) = {}
    BY <1>4 DEF StoreNewVersion, touched
  <2>2. /\ summary'.discovered = s.discovered /\ summary'.fetched = s.fetched + 1
        /\ summary'.unchanged = s.unchanged /\ summary'.parsed = s.parsed
        /\ summary'.normalized = s.normalized /\ summary'.upserted = s.upserted
        /\ summary'.rejected = s.rejected /\ summary'.drift = s.drift
        /\ summary'.versions = s.versions + 1 /\ summary'.evidence = s.evidence
    BY <1>t, <2>1, FetchedFields DEF Summary
  <2>3. new \notin tx.versions /\ new.run = run
    <3>1. new.document = d /\ new.content = c /\ new.run = run
      BY DEF NewVersion
    <3> HIDE DEF new
    <3>2. new \in tx.versions => new \in Known(d, c)
      BY <3>1 DEF Known
    <3>3. Known(d, c) = {}
      BY <2>1
    <3>4. new \notin tx.versions
      BY ONLY <3>2, <3>3
    <3> QED
      BY <3>1, <3>4
  <2> HIDE DEF new
  <2>4. /\ tx'.versions = tx.versions \cup {new} /\ tx'.evidence = tx.evidence
        /\ tx'.failures = tx.failures /\ tx'.signature = tx.signature
    BY <1>2, <2>1 DEF Rows
  <2>5. Balanced(summary', f, Len(todo'), 1)
    <3> HIDE DEF f, s
    <3>1. Len(todo) \in Nat /\ Len(todo') = Len(todo) - 1
      BY <1>t
    <3>2. summary'.discovered = summary'.fetched + f["fetch"] + Len(todo')
      <4>1. s.discovered = s.fetched + f["fetch"] + Len(todo)
        BY <1>a DEF Balanced
      <4>2. s.fetched + f["fetch"] + Len(todo) = (s.fetched + 1) + f["fetch"] + (Len(todo) - 1)
        <5>1. s.fetched \in Nat /\ f["fetch"] \in Nat
          BY <1>n
        <5> QED
          BY ONLY <3>1, <5>1, OneFetched, Zenon
      <4>3. /\ summary'.discovered = s.discovered /\ summary'.fetched = s.fetched + 1
            /\ Len(todo') = Len(todo) - 1
        BY <2>2, <3>1
      <4> QED
        BY ONLY <4>1, <4>2, <4>3, Zenon
    <3>3. summary'.fetched = summary'.unchanged + summary'.versions
      BY <1>a, <1>n, <2>2 DEF Balanced
    <3>4. summary'.fetched = summary'.parsed + f["parse"] + 1
      <4>1. s.fetched = s.parsed + f["parse"] + 0
        BY <1>a DEF Balanced
      <4>2. summary'.fetched = s.fetched + 1 /\ summary'.parsed = s.parsed
        BY <2>2
      <4>3. s.fetched \in Nat /\ s.parsed \in Nat /\ f["parse"] \in Nat
        BY <1>n
      <4>4. s.fetched + 1 = s.parsed + f["parse"] + 1
        BY ONLY <4>1, <4>3
      <4> QED
        BY ONLY <4>2, <4>4, Zenon
    <3> QED
      BY <1>a, <2>2, <3>2, <3>3, <3>4 DEF Balanced
  <2>6. Tally(tx, summary)'
    <3>1. /\ IsFiniteSet(Of(tx'.versions, run))
          /\ Cardinality(Of(tx'.versions, run)) = Cardinality(Of(tx.versions, run)) + 1
      BY <1>a, <2>3, <2>4, OneMore DEF Tally
    <3> QED
      BY <1>a, <1>t, <2>2, <2>4, <3>1 DEF Tally, Of
  <2>7. StillFlagged
    BY <1>t, <1>a, <2>2, <2>4, FlagStays
  <2> QED
    BY <1>t, <2>1, <2>4, <2>5, <2>6, <2>7 DEF Accounts, StillFlagged
<1>5. CASE StoreFlushRaises(d, c)
  BY <1>5 DEF StoreFlushRaises, FlushRaises, Accounts
<1>6. CASE PutRaises(d, c)
  <2>1. tx' = RecordFailure(touched, "run") /\ summary' = [Fetched EXCEPT !.status = "failed"]
    BY <1>6 DEF PutRaises, RaiseToRun, touched
  <2>2. /\ summary'.status = "failed" /\ summary'.drift = s.drift
        /\ summary'.versions = s.versions /\ summary'.evidence = s.evidence
    BY <1>t, <2>1, FetchedFields DEF Summary
  <2>3. "run" \in Stages /\ "schema_drift" \in Stages
    BY DEF Stages
  <2>4. /\ tx'.versions = tx.versions /\ tx'.evidence = tx.evidence
        /\ tx'.signature = tx.signature
    BY <1>t, <1>2, <2>1, <2>3, FailureRows
  <2>5. tx'.failures[run]["schema_drift"] = f["schema_drift"]
    BY <1>t, <1>2, <2>1, <2>3, FailureCounts
  <2>6. Tally(tx, summary)' /\ StillFlagged
    BY <1>t, <1>a, <2>2, <2>4, <2>5, StillTallied, FlagStays
  <2> QED
    BY <1>t, <2>2, <2>6 DEF Accounts, StillFlagged
<1> QED
  BY <1>1, <1>3, <1>4, <1>5, <1>6

\* A document parsed may drift, which is flagged and recorded in one step.
LEMMA ParseAccounts ==
    ASSUME PipelineInv, AccountsInv, Parse \/ ParseFails \/ ParseRaises, ~doomed
    PROVE  Accounts'
<1> DEFINE f == tx.failures[run]
           g == tx'.failures[run]
           s == summary
           signature == SignatureOf[item.content]
           rows == DriftRecorded(signature)
           counts == DriftCounted(signature)
<1>t. /\ tx \in Rows /\ run \in Runs /\ s \in Summary /\ todo \in Seq(Documents)
      /\ UNCHANGED <<db, run, todo>> /\ pc = "parse" /\ item \in Item
      /\ signature \in Signatures \cup {NoSignature} /\ RejectedBy[item.content] \in Nat
  BY DEF PipelineInv, TypeOK, Parse, ParseFails, ParseRaises, Item
<1>a. /\ Tally(tx, s) /\ s.status = "success"
      /\ Balanced(s, f, Len(todo), 1)
      /\ db.signature \notin {NoSignature, tx.signature} => Flagged(tx, s)
  BY <1>t DEF AccountsInv, Accounts, Course
<1>n. /\ \A x \in Stages : f[x] \in Nat
      /\ s.fetched \in Nat /\ s.parsed \in Nat /\ s.rejected \in Nat /\ s.drift \in BOOLEAN
  BY <1>t, CountType DEF Rows
<1>d. /\ rows \in Rows /\ counts \in Summary
      /\ rows.versions = tx.versions /\ rows.evidence = tx.evidence
      /\ rows.signature # tx.signature => tx.signature = NoSignature \/ Drifts(signature)
      /\ \A x \in Stages \ {"schema_drift"} : rows.failures[run][x] = f[x]
      /\ rows.failures[run]["schema_drift"] =
            IF Drifts(signature) THEN f["schema_drift"] + 1 ELSE f["schema_drift"]
  <2>1. "schema_drift" \in Stages /\ f \in [Stages -> Nat]
    BY <1>t DEF Stages, Rows
  <2>2. rows \in Rows /\ counts \in Summary
    BY <1>t, DriftType
  <2> HIDE DEF signature
  <2> QED
    BY <1>t, <2>1, <2>2, DriftRows
<1>e. /\ counts.parsed = s.parsed + 1
      /\ counts.drift <=> (s.drift \/ Drifts(signature))
      /\ counts.status = s.status /\ counts.discovered = s.discovered
      /\ counts.fetched = s.fetched /\ counts.normalized = s.normalized
      /\ counts.unchanged = s.unchanged /\ counts.versions = s.versions
      /\ counts.evidence = s.evidence /\ counts.upserted = s.upserted
      /\ counts.rejected = s.rejected
  BY <1>t, DriftFields
<1> HIDE DEF rows, counts, signature
\* The flag and the failure row come with the new signature.
<1>f. db.signature \notin {NoSignature, rows.signature} =>
        counts.drift /\ rows.failures[run]["schema_drift"] > 0
  <2> SUFFICES ASSUME db.signature \notin {NoSignature, rows.signature}
               PROVE  counts.drift /\ rows.failures[run]["schema_drift"] > 0
    OBVIOUS
  <2>1. f["schema_drift"] \in Nat
    BY <1>n DEF Stages
  <2>2. CASE Drifts(signature)
    BY <1>d, <1>e, <2>1, <2>2
  <2>3. CASE ~Drifts(signature)
    <3>1. db.signature \notin {NoSignature, tx.signature}
      BY <1>d, <2>3
    <3> QED
      BY <1>a, <1>d, <1>e, <2>1, <2>3, <3>1 DEF Flagged
  <2> QED
    BY <2>2, <2>3
<1>1. CASE Parse
  <2>1. /\ tx' = rows /\ pc' = "load"
        /\ summary' = [counts EXCEPT !.rejected = @ + RejectedBy[item.content]]
    BY <1>1 DEF Parse, rows, counts, signature
  <2>2. /\ summary'.discovered = s.discovered /\ summary'.fetched = s.fetched
        /\ summary'.unchanged = s.unchanged /\ summary'.parsed = s.parsed + 1
        /\ summary'.normalized = s.normalized /\ summary'.upserted = s.upserted
        /\ summary'.rejected = s.rejected + RejectedBy[item.content]
        /\ summary'.drift = counts.drift
        /\ summary'.versions = s.versions /\ summary'.evidence = s.evidence
    BY <1>d, <1>e, <2>1 DEF Summary
  <2>3. Tally(tx, summary)'
    BY <1>t, <1>a, <1>d, <2>1, <2>2, StillTallied
  <2>4. summary'.drift <=> g["schema_drift"] > 0
    <3>1. f["schema_drift"] \in Nat /\ (s.drift <=> f["schema_drift"] > 0)
      BY <1>a, <1>n DEF Balanced, Stages
    <3> QED
      BY <1>d, <1>e, <1>n, <2>1, <2>2, <3>1
  <2>5. /\ g["fetch"] = f["fetch"] /\ g["parse"] = f["parse"] /\ g["persist"] = f["persist"]
        /\ g["validate"] = f["validate"] /\ g["run"] = f["run"]
    BY <1>d, <2>1 DEF Stages
  <2>6. /\ f["persist"] \in Nat /\ f["validate"] \in Nat /\ f["parse"] \in Nat
    BY <1>n DEF Stages
  <2>7. Balanced(summary', g, Len(todo'), 0)
    <3> HIDE DEF f, g, s
    <3>1. summary'.discovered = summary'.fetched + g["fetch"] + Len(todo')
      BY <1>a, <1>t, <2>2, <2>5 DEF Balanced
    <3>2. summary'.fetched = summary'.parsed + g["parse"] + 0
      BY <1>a, <1>n, <2>2, <2>5, <2>6 DEF Balanced
    <3>3. summary'.rejected >= g["validate"] + g["persist"]
      <4>1. s.rejected >= f["validate"] + f["persist"] /\ RejectedBy[item.content] \in Nat
        BY <1>a, <1>t DEF Balanced
      <4> QED
        BY <1>n, <2>2, <2>5, <2>6, <4>1
    <3> QED
      BY <1>a, <2>2, <2>4, <2>5, <3>1, <3>2, <3>3 DEF Balanced
  <2>8. db.signature \notin {NoSignature, tx'.signature} => Flagged(tx, summary)'
    BY <1>f, <1>t, <2>1, <2>2 DEF Flagged
  <2> QED
    BY <1>t, <2>1, <2>3, <2>7, <2>8 DEF Accounts
<1>2. CASE ParseFails
  <2>1. tx' = RecordFailure(tx, "parse") /\ summary' = s /\ pc' = "fetch"
    BY <1>2 DEF ParseFails
  <2>2. "parse" \in Stages /\ "schema_drift" \in Stages
    BY DEF Stages
  <2>3. /\ tx'.versions = tx.versions /\ tx'.evidence = tx.evidence
        /\ tx'.signature = tx.signature
    BY <1>t, <2>1, <2>2, FailureRows
  <2>4. /\ g["fetch"] = f["fetch"] /\ g["parse"] = f["parse"] + 1 /\ g["persist"] = f["persist"]
        /\ g["validate"] = f["validate"] /\ g["run"] = f["run"]
        /\ g["schema_drift"] = f["schema_drift"]
    BY <1>t, <2>1, FailureCounts DEF Stages
  <2>5. Tally(tx, summary)' /\ StillFlagged
    BY <1>t, <1>a, <2>1, <2>3, <2>4, StillTallied, FlagStays
  <2>6. Balanced(summary', g, Len(todo'), 0)
    <3>1. f["parse"] \in Nat
      BY <1>n DEF Stages
    <3> HIDE DEF f, g, s
    <3> QED
      BY <1>a, <1>n, <1>t, <2>1, <2>4, <3>1 DEF Balanced
  <2> QED
    BY <1>t, <2>1, <2>5, <2>6 DEF Accounts, StillFlagged
<1>3. CASE ParseRaises
  <2>1. \/ RaiseToRun(tx, s) \/ RaiseToRun(rows, counts)
    BY <1>3 DEF ParseRaises, rows, counts, signature
  <2>2. "run" \in Stages /\ "schema_drift" \in Stages /\ "run" # "schema_drift"
    BY DEF Stages
  <2>3. ASSUME NEW old \in Rows, NEW count \in Summary, RaiseToRun(old, count),
               old.versions = tx.versions, old.evidence = tx.evidence,
               count.versions = s.versions, count.evidence = s.evidence,
               db.signature \notin {NoSignature, old.signature} =>
                   count.drift /\ old.failures[run]["schema_drift"] > 0
        PROVE  Accounts'
    <3>1. tx' = RecordFailure(old, "run") /\ summary' = [count EXCEPT !.status = "failed"]
      BY <2>3 DEF RaiseToRun
    <3>2. /\ summary'.status = "failed" /\ summary'.drift = count.drift
          /\ summary'.versions = s.versions /\ summary'.evidence = s.evidence
      BY <2>3, <3>1 DEF Summary
    <3>3. /\ tx'.versions = tx.versions /\ tx'.evidence = tx.evidence
          /\ tx'.signature = old.signature
      BY <1>t, <2>2, <2>3, <3>1, FailureRows
    <3>4. g["schema_drift"] = old.failures[run]["schema_drift"]
      BY <1>t, <2>2, <3>1, FailureCounts
    <3>5. Tally(tx, summary)'
      BY <1>t, <1>a, <3>2, <3>3, StillTallied
    <3>6. db.signature \notin {NoSignature, tx'.signature} => Flagged(tx, summary)'
      BY <1>t, <2>3, <3>2, <3>3, <3>4 DEF Flagged
    <3> QED
      BY <1>t, <3>2, <3>5, <3>6 DEF Accounts
  <2>4. CASE RaiseToRun(tx, s)
    BY <1>t, <1>a, <2>3, <2>4 DEF Flagged
  <2>5. CASE RaiseToRun(rows, counts)
    BY <1>d, <1>e, <1>f, <2>3, <2>5
  <2> QED
    BY <2>1, <2>4, <2>5
<1> QED
  BY <1>1, <1>2, <1>3

\* The records: each is counted as loaded, or is a failure row, or both counts
\* and rows are gone with the session.
LEMMA LoadAccounts ==
    ASSUME PipelineInv, AccountsInv, ~doomed,
           RejectInvalid \/ LoadCited \/ LoadPlain \/ LoadRaises \/ NextItem
    PROVE  Accounts'
<1> DEFINE f == tx.failures[run]
           g == tx'.failures[run]
           s == summary
<1>t. /\ tx \in Rows /\ run \in Runs /\ s \in Summary /\ todo \in Seq(Documents)
      /\ UNCHANGED <<db, run, todo>> /\ pc = "load" /\ item \in Item /\ position \in Nat
      /\ pc' \in {"load", "fetch"}
  BY DEF PipelineInv, TypeOK, RejectInvalid, LoadCited, LoadPlain, LoadRaises, NextItem, Handling
<1>a. /\ Tally(tx, s) /\ s.status = "success"
      /\ Balanced(s, f, Len(todo), 0)
      /\ db.signature \notin {NoSignature, tx.signature} => Flagged(tx, s)
  BY <1>t DEF AccountsInv, Accounts, Course
<1>n. /\ s.normalized \in Nat /\ s.upserted \in Nat /\ s.rejected \in Nat
      /\ f["persist"] \in Nat /\ f["validate"] \in Nat
  BY <1>t, CountType DEF Rows, Stages
<1>q. ASSUME Tally(tx, summary)', StillFlagged, Balanced(summary', g, Len(todo'), 0)
      PROVE  Accounts'
  BY <1>q, <1>t DEF Accounts, StillFlagged
<1>1. CASE RejectInvalid
  <2>1. tx' = RecordFailure(tx, "validate") /\ summary' = [s EXCEPT !.rejected = @ + 1]
    BY <1>1 DEF RejectInvalid
  <2>2. "validate" \in Stages /\ "schema_drift" \in Stages
    BY DEF Stages
  <2>3. /\ tx'.versions = tx.versions /\ tx'.evidence = tx.evidence
        /\ tx'.signature = tx.signature
    BY <1>t, <2>1, <2>2, FailureRows
  <2>4. /\ g["fetch"] = f["fetch"] /\ g["parse"] = f["parse"] /\ g["persist"] = f["persist"]
        /\ g["validate"] = f["validate"] + 1 /\ g["run"] = f["run"]
        /\ g["schema_drift"] = f["schema_drift"]
    BY <1>t, <2>1, FailureCounts DEF Stages
  <2>5. /\ summary'.discovered = s.discovered /\ summary'.fetched = s.fetched
        /\ summary'.unchanged = s.unchanged /\ summary'.parsed = s.parsed
        /\ summary'.normalized = s.normalized /\ summary'.upserted = s.upserted
        /\ summary'.rejected = s.rejected + 1 /\ summary'.drift = s.drift
        /\ summary'.versions = s.versions /\ summary'.evidence = s.evidence
    BY <1>t, <2>1 DEF Summary
  <2>6. Tally(tx, summary)' /\ StillFlagged
    BY <1>t, <1>a, <2>3, <2>4, <2>5, StillTallied, FlagStays
  <2>7. summary'.rejected >= g["validate"] + g["persist"]
    <3>1. s.rejected >= f["validate"] + f["persist"]
      BY <1>a DEF Balanced
    <3> HIDE DEF f, g, s
    <3> QED
      BY <1>n, <2>4, <2>5, <3>1
  <2>8. Balanced(summary', g, Len(todo'), 0)
    <3> HIDE DEF f, g, s
    <3> QED
      BY <1>a, <1>t, <2>4, <2>5, <2>7 DEF Balanced
  <2> QED
    BY <1>q, <2>6, <2>8
<1>2. CASE LoadCited
  <2> DEFINE rows == Upsert(tx, NextRecord.entity)
             cite == [document |-> item.document, number |-> item.number,
                      position |-> position + 1, run |-> run]
  <2>1. tx' = CreateEvidence(rows) /\ summary' = [Loaded EXCEPT !.evidence = @ + EvidenceCreated]
    BY <1>2 DEF LoadCited
  <2>2. /\ rows \in Rows /\ rows.versions = tx.versions /\ rows.evidence = tx.evidence
        /\ rows.failures = tx.failures /\ rows.signature = tx.signature
    <3>1. NextRecord.entity \in Entities
      BY <1>2, HandledRecord DEF LoadCited, PipelineInv, Record
    <3>2. rows \in Rows
      BY <1>t, <3>1, LoadType
    <3> QED
      BY <1>t, <3>2 DEF Upsert, Rows
  <2>3. /\ summary'.discovered = s.discovered /\ summary'.fetched = s.fetched
        /\ summary'.unchanged = s.unchanged /\ summary'.parsed = s.parsed
        /\ summary'.normalized = s.normalized + 1 /\ summary'.upserted = s.upserted + 1
        /\ summary'.rejected = s.rejected /\ summary'.drift = s.drift
        /\ summary'.versions = s.versions
        /\ summary'.evidence = s.evidence + EvidenceCreated
    BY <1>t, <2>1, LoadedFields DEF Summary
  <2> HIDE DEF rows
  <2>4. /\ tx'.versions = tx.versions /\ tx'.failures = tx.failures
        /\ tx'.signature = tx.signature
        /\ tx'.evidence = IF item.fresh THEN tx.evidence \cup {cite} ELSE tx.evidence
    BY <2>1, <2>2 DEF CreateEvidence, Rows
  <2>5. cite \notin tx.evidence \/ ~item.fresh
    <3>1. \A e \in tx.evidence : e.document = item.document /\ e.number = item.number /\ item.fresh
                                   => e.position <= position
      BY <1>t DEF AccountsInv, Positions
    <3>2. cite.document = item.document /\ cite.number = item.number
            /\ cite.position = position + 1
      OBVIOUS
    <3> HIDE DEF cite
    <3> QED
      BY <1>t, <3>1, <3>2
  <2>6. cite.run = run
    OBVIOUS
  <2> HIDE DEF cite
  <2>7. Tally(tx, summary)'
    <3>1. s.evidence \in Nat
      BY <1>t, CountType
    <3>2. CASE item.fresh
      <4>1. /\ IsFiniteSet(Of(tx'.evidence, run))
            /\ Cardinality(Of(tx'.evidence, run)) = Cardinality(Of(tx.evidence, run)) + 1
        BY <1>a, <2>4, <2>5, <2>6, <3>2, OneMore DEF Tally
      <4>2. summary'.evidence = s.evidence + 1
        BY <2>3, <3>2 DEF EvidenceCreated
      <4> QED
        BY <1>a, <1>t, <2>3, <2>4, <4>1, <4>2 DEF Tally
    <3>3. CASE ~item.fresh
      <4>1. summary'.evidence = s.evidence
        BY <2>3, <3>1, <3>3 DEF EvidenceCreated
      <4> QED
        BY <1>a, <1>t, <2>3, <2>4, <3>3, <4>1 DEF Tally
    <3> QED
      BY <3>2, <3>3
  <2>8. StillFlagged
    BY <1>t, <1>a, <2>3, <2>4, FlagStays
  <2>9. Balanced(summary', g, Len(todo'), 0)
    <3>1. g = f
      BY <2>4
    <3>2. summary'.normalized = summary'.upserted + f["persist"]
      <4>1. s.normalized = s.upserted + f["persist"]
        BY <1>a DEF Balanced
      <4> HIDE DEF f, g, s
      <4> QED
        BY <1>n, <2>3, <4>1
    <3> HIDE DEF f, g, s
    <3> QED
      BY <1>a, <1>t, <2>3, <3>1, <3>2 DEF Balanced
  <2> QED
    BY <1>q, <2>7, <2>8, <2>9
<1>3. CASE LoadPlain
  <2>1. tx' = Upsert(tx, NextRecord.entity) /\ summary' = Loaded
    BY <1>3 DEF LoadPlain
  <2>2. /\ tx'.versions = tx.versions /\ tx'.evidence = tx.evidence
        /\ tx'.failures = tx.failures /\ tx'.signature = tx.signature
    BY <1>t, <2>1 DEF Upsert, Rows
  <2>3. /\ summary'.discovered = s.discovered /\ summary'.fetched = s.fetched
        /\ summary'.unchanged = s.unchanged /\ summary'.parsed = s.parsed
        /\ summary'.normalized = s.normalized + 1 /\ summary'.upserted = s.upserted + 1
        /\ summary'.rejected = s.rejected /\ summary'.drift = s.drift
        /\ summary'.versions = s.versions /\ summary'.evidence = s.evidence
    BY <1>t, <2>1, LoadedFields
  <2>4. Tally(tx, summary)' /\ StillFlagged
    BY <1>t, <1>a, <2>2, <2>3, StillTallied, FlagStays
  <2>5. Balanced(summary', g, Len(todo'), 0)
    <3>1. g = f
      BY <2>2
    <3>2. summary'.normalized = summary'.upserted + f["persist"]
      <4>1. s.normalized = s.upserted + f["persist"]
        BY <1>a DEF Balanced
      <4> HIDE DEF f, g, s
      <4> QED
        BY <1>n, <2>3, <4>1
    <3> HIDE DEF f, g, s
    <3> QED
      BY <1>a, <1>t, <2>3, <3>1, <3>2 DEF Balanced
  <2> QED
    BY <1>q, <2>4, <2>5
<1>4. CASE LoadRaises
  BY <1>4 DEF LoadRaises, RollbackAndRecord, Accounts
<1>5. CASE NextItem
  <2>1. UNCHANGED <<db, tx, run, todo, summary>> /\ pc' # "parse"
    BY <1>5 DEF NextItem
  <2> QED
    BY <1>t, <1>a, <1>q, <2>1 DEF Tally, StillFlagged, Flagged
<1> QED
  BY <1>1, <1>2, <1>3, <1>4, <1>5

\* A session that a flush has broken stays so until the run is over.
LEMMA DoomedStays ==
    ASSUME doomed, [Next]_vars
    PROVE  doomed' \/ pc' = "idle"
BY DEF Next, RunStep, vars, StartRun, Discover, DiscoverRaises, FetchFails, FetchAndStore,
       StoreUnchanged, StoreNewVersion, StoreFlushRaises, FlushRaises, PutRaises,
       Parse, ParseFails, ParseRaises, RejectInvalid, LoadCited, LoadPlain, LoadRaises,
       RollbackAndRecord, NextItem, FinalFlush, FinishRun, FinishRaises, Kill, Idle, FixParser

LEMMA AccountsStep ==
    ASSUME PipelineInv, AccountsInv, [Next]_vars
    PROVE  Accounts'
<1>1. CASE doomed
  BY <1>1, DoomedStays DEF Accounts
<1> SUFFICES ASSUME ~doomed PROVE Accounts'
  BY <1>1
<1>2. CASE UNCHANGED vars
  BY <1>2 DEF vars, AccountsInv, Accounts, Tally, Flagged
<1>3. CASE StartRun
  BY <1>3, StartAccounts
<1>4. CASE Discover \/ DiscoverRaises \/ FetchFails
  BY <1>4, DiscoverAccounts
<1>5. CASE FetchAndStore
  BY <1>5, StoreAccounts
<1>6. CASE Parse \/ ParseFails \/ ParseRaises
  BY <1>6, ParseAccounts
<1>7. CASE RejectInvalid \/ LoadCited \/ LoadPlain \/ LoadRaises \/ NextItem
  BY <1>7, LoadAccounts
<1>8. CASE FinalFlush
  <2>1. UNCHANGED <<db, tx, run, todo, summary>> /\ pc = "fetch" /\ pc' = "finish"
    BY <1>8 DEF FinalFlush
  <2> QED
    BY <2>1 DEF AccountsInv, Accounts, Tally, Flagged
<1>9. CASE FinishRun \/ FinishRaises \/ Kill \/ FixParser
  BY <1>9 DEF FinishRun, FinishRaises, Kill, Idle, FixParser, Accounts
<1> QED
  BY <1>2, <1>3, <1>4, <1>5, <1>6, <1>7, <1>8, <1>9 DEF Next, RunStep

LEMMA AccountsInit == Init => AccountsInv
<1> SUFFICES ASSUME Init PROVE AccountsInv
  OBVIOUS
<1>1. RowsInv
  BY DEF Init, NoRows, Fresh, RowsInv, Blank, Kept, Of
<1>2. Course /\ Positions /\ Accounts
  BY DEF Init, Fresh, Course, Positions, Accounts
<1> QED
  BY <1>1, <1>2 DEF AccountsInv

\* What the accounts rest on: rows of other runs are left alone, nothing cites a
\* version that is still to be loaded, and the summary of a sound session agrees
\* with its transaction, step by step.
LEMMA AccountsInvariant == Spec => []AccountsInv
<1>1. PipelineInv /\ PipelineInv' /\ AccountsInv /\ [Next]_vars => AccountsInv'
  <2> SUFFICES ASSUME PipelineInv, PipelineInv', AccountsInv, [Next]_vars
               PROVE  AccountsInv'
    OBVIOUS
  <2>1. RowsInv' /\ Course' /\ Positions'
    BY RowsStep, CourseStep, PositionsStep DEF AccountsInv
  <2>2. Accounts'
    BY AccountsStep
  <2> QED
    BY <2>1, <2>2 DEF AccountsInv
<1> QED
  BY <1>1, AccountsInit, PipelineInvariant, PTL DEF Spec

LEMMA RunsAddUpInit == Init => RunsAddUp
<1> SUFFICES ASSUME Init, NEW r \in Runs
             PROVE  LET row == db.runs[r]
                    IN  /\ row.status = "none" /\ row.versions = 0 /\ row.evidence = 0
                        /\ {v \in db.versions : v.run = r} = {}
                        /\ {e \in db.evidence : e.run = r} = {}
  BY FS_EmptySet DEF RunsAddUp
<1> QED
  BY DEF Init, NoRows, Fresh

LEMMA RunsAddUpStep ==
    ASSUME PipelineInv, AccountsInv, RunsAddUp, [Next]_vars
    PROVE  RunsAddUp'
<1>1. CASE ~FinishRun
  <2>1. UNCHANGED db
    BY <1>1, OnlyFinishCommits
  <2> QED
    BY <2>1 DEF RunsAddUp
<1>2. CASE FinishRun
  <2> DEFINE Good(rows, r) ==
               LET row == rows.runs[r]
                   failed == rows.failures[r]
               IN  /\ row.status # "running"
                   /\ row.versions = Cardinality(Of(rows.versions, r))
                   /\ row.evidence = Cardinality(Of(rows.evidence, r))
                   /\ row.status = "success" => Balanced(row, failed, 0, 0)
  <2>1. /\ tx \in Rows /\ db' = [tx EXCEPT !.runs[run] = summary] /\ run \in Runs
        /\ summary \in Summary /\ pc = "finish" /\ ~doomed
    BY <1>2 DEF FinishRun, PipelineInv, TypeOK
  <2>2. /\ db'.runs[run] = summary /\ db'.failures = tx.failures
        /\ db'.versions = tx.versions /\ db'.evidence = tx.evidence
    BY <2>1 DEF Rows
  <2>3. Good(db', run)
    <3>1. /\ Tally(tx, summary)
          /\ summary.status = "success" => Balanced(summary, tx.failures[run], Len(todo), 0)
          /\ summary.status = "success" => todo = <<>>
          /\ summary.status \in {"success", "failed"}
      BY <2>1 DEF AccountsInv, Accounts, Course
    <3>2. todo = <<>> => Len(todo) = 0
      OBVIOUS
    <3> QED
      BY <2>2, <3>1, <3>2 DEF Tally
  <2>4. ASSUME NEW r \in Runs \ {run}
        PROVE  Good(db', r)
    <3>1. Good(db, r)
      <4> DEFINE row == db.runs[r]
                 failed == db.failures[r]
      <4>1. db \in Rows
        BY DEF PipelineInv, TypeOK
      <4>2. /\ row.fetched \in Nat /\ row.parsed \in Nat
            /\ failed["fetch"] \in Nat /\ failed["parse"] \in Nat
        BY <4>1, CountType DEF Rows, Stages
      <4>3. /\ row.status # "running"
            /\ row.versions = Cardinality(Of(db.versions, r))
            /\ row.evidence = Cardinality(Of(db.evidence, r))
            /\ row.status = "success" =>
                /\ row.discovered = row.fetched + failed["fetch"]
                /\ row.fetched = row.unchanged + row.versions
                /\ row.fetched = row.parsed + failed["parse"]
                /\ row.normalized = row.upserted + failed["persist"]
                /\ row.rejected >= failed["validate"] + failed["persist"]
                /\ row.drift <=> failed["schema_drift"] > 0
                /\ failed["run"] = 0
        BY DEF RunsAddUp, Of
      <4> HIDE DEF row, failed
      <4>4. row.status = "success" => Balanced(row, failed, 0, 0)
        BY <4>2, <4>3 DEF Balanced
      <4> QED
        BY <4>3, <4>4 DEF row, failed
    <3>2. /\ db'.runs[r] = db.runs[r] /\ db'.failures[r] = db.failures[r]
          /\ Of(db'.versions, r) = Of(db.versions, r)
          /\ Of(db'.evidence, r) = Of(db.evidence, r)
      BY <1>2, FinishRows DEF AccountsInv
    <3> QED
      BY <3>1, <3>2
  <2>5. ASSUME NEW r \in Runs
        PROVE  /\ db'.runs[r].fetched \in Nat /\ db'.runs[r].parsed \in Nat
               /\ db'.failures[r]["fetch"] \in Nat /\ db'.failures[r]["parse"] \in Nat
    <3>1. db' \in Rows
      BY <2>1, RunRowType
    <3> QED
      BY <3>1, CountType DEF Rows, Stages
  <2>6. \A r \in Runs : Good(db', r)
    BY <2>3, <2>4
  <2> QED
    BY <2>5, <2>6 DEF RunsAddUp, Of, Balanced
<1> QED
  BY <1>1, <1>2

\* Every ConnectorRun row that run() commits adds up with the versions, evidence
\* and failure rows of that run, whatever failed on the way, and none is left
\* "running": a run that loses its session commits nothing at all.
THEOREM RunsAccounted == Spec => []RunsAddUp
<1>1. PipelineInv /\ AccountsInv /\ RunsAddUp /\ [Next]_vars => RunsAddUp'
  BY RunsAddUpStep
<1> QED
  BY <1>1, RunsAddUpInit, PipelineInvariant, AccountsInvariant, PTL DEF Spec

\* _check_schema_drift: the signature recorded for a connector is not replaced by
\* another but in the commit of a run that is flagged for it and has the failure
\* row, even when the document that drifted is not the last of its run.
THEOREM DriftNeverSilent == Spec => DriftIsNeverSilent
<1>1. ASSUME PipelineInv, AccountsInv, [Next]_vars
      PROVE  [db.signature \notin {NoSignature, db'.signature} =>
                \E r \in Runs : /\ db.runs[r].status = "none" /\ db'.runs[r].drift
                                /\ db'.failures[r]["schema_drift"] > 0]_vars
  <2>1. CASE ~FinishRun
    BY <1>1, <2>1, OnlyFinishCommits
  <2>2. CASE FinishRun
    <3>1. /\ tx \in Rows /\ db' = [tx EXCEPT !.runs[run] = summary] /\ run \in Runs
          /\ pc = "finish" /\ ~doomed
      BY <1>1, <2>2 DEF FinishRun, PipelineInv, TypeOK
    <3>2. /\ db'.runs[run] = summary /\ db'.failures = tx.failures
          /\ db'.signature = tx.signature
      BY <3>1 DEF Rows
    <3>3. db.runs[run].status = "none"
      BY <1>1, <3>1 DEF AccountsInv, RowsInv, Blank
    <3>4. db.signature \notin {NoSignature, tx.signature} => Flagged(tx, summary)
      BY <1>1, <3>1 DEF AccountsInv, Accounts
    <3> QED
      BY <3>1, <3>2, <3>3, <3>4 DEF Flagged
  <2> QED
    BY <2>1, <2>2
<1> QED
  BY <1>1, PipelineInvariant, AccountsInvariant, PTL DEF Spec, DriftIsNeverSilent

-----------------------------------------------------------------------------
(* The citations of what is loaded.  Evidence is made once, for a version   *)
(* that is new in its run, so a new version must not be left before all its *)
(* records are handled, unless the whole transaction goes with it.          *)

CitedRecords(c) == {i \in DOMAIN RecordsOf[c] : RecordsOf[c][i].kind = "cited"}

CitedAt(rows, v, i) == \E e \in rows.evidence : Ledger!Cites(e, v) /\ e.position = i

AllCited(rows) ==
    \A v \in rows.versions : v.content \in ParsedAtFirst =>
        \A i \in CitedRecords(v.content) : CitedAt(rows, v, i)

\* What a row was last loaded from is the content of a version.
Sourced(rows) ==
    \A e \in Entities : rows.entities[e] # NoContent =>
        \E v \in rows.versions : v.content = rows.entities[e]

ItemIs(v) == v.document = item.document /\ v.number = item.number

InHand(v) == pc \in {"parse", "load"} /\ item.fresh /\ ItemIs(v)

\* A record that is not cited yet is one of the new version in hand, further on.
Owed ==
    \A v \in tx.versions : v.content \in ParsedAtFirst =>
        \A i \in CitedRecords(v.content) :
            CitedAt(tx, v, i) \/ (InHand(v) /\ (pc = "load" => i > position))

ItemStored ==
    pc \in {"parse", "load"} => \E v \in tx.versions : ItemIs(v) /\ v.content = item.content

LoadInv ==
    /\ ParsedAtFirst \subseteq parses
    /\ AllCited(db) /\ Sourced(db)
    /\ ~doomed => Sourced(tx) /\ Owed /\ ItemStored

\* The version in hand holds the bytes in hand: a number names one version.
LEMMA InHandContent ==
    ASSUME PipelineInv, ItemStored, pc \in {"parse", "load"}, NEW v \in tx.versions, ItemIs(v)
    PROVE  v.content = item.content
<1>1. PICK u \in tx.versions : ItemIs(u) /\ u.content = item.content
  BY DEF ItemStored
<1>2. u.document = v.document /\ u.number = v.number
  BY <1>1 DEF ItemIs
<1>3. u = v
  BY <1>2 DEF PipelineInv, History
<1> QED
  BY <1>1, <1>3

\* With nothing in hand everything is cited.
LEMMA NothingOwed ==
    ASSUME Owed, pc \notin {"parse", "load"}
    PROVE  AllCited(tx)
BY DEF Owed, AllCited, InHand

LEMMA AllCitedOwes ==
    ASSUME NEW rows, AllCited(rows), tx'.versions = rows.versions, tx'.evidence = rows.evidence
    PROVE  Owed'
BY DEF AllCited, Owed, CitedAt

\* A step within a run that leaves nothing in hand.
LEMMA EmptyHanded ==
    ASSUME LoadInv, UNCHANGED <<db, parses>>, pc' \notin {"parse", "load"},
           ~doomed' => /\ ~doomed /\ AllCited(tx)
                       /\ tx'.versions = tx.versions /\ tx'.evidence = tx.evidence
                       /\ tx'.entities = tx.entities
    PROVE  LoadInv'
<1>1. ~doomed' => Sourced(tx)' /\ Owed' /\ ItemStored'
  BY AllCitedOwes DEF LoadInv, Sourced, ItemStored
<1> QED
  BY <1>1 DEF LoadInv, AllCited, CitedAt, Sourced

LEMMA StoreCites ==
    ASSUME PipelineInv, LoadInv, FetchAndStore
    PROVE  LoadInv'
<1>1. pc = "fetch" /\ tx \in Rows /\ UNCHANGED <<db, parses, run>> /\ Head(todo) \in Documents
  BY DEF FetchAndStore, PipelineInv, TypeOK
<1>2. PICK d \in Documents, c \in Contents :
          \/ StoreUnchanged(d, c) \/ StoreNewVersion(d, c)
          \/ StoreFlushRaises(d, c) \/ PutRaises(d, c)
  BY <1>1 DEF FetchAndStore
<1> DEFINE touched == Touch(tx, d)
<1>3. /\ touched \in Rows /\ touched.versions = tx.versions /\ touched.evidence = tx.evidence
      /\ touched.entities = tx.entities
  BY <1>1, TouchType DEF Touch, Rows
<1>4. ~doomed => AllCited(tx)
  BY <1>1, NothingOwed DEF LoadInv
<1> HIDE DEF touched
<1>5. CASE StoreUnchanged(d, c)
  <2>1. tx' = touched /\ pc' = "parse" /\ doomed' = doomed
    BY <1>5 DEF StoreUnchanged, touched
  <2>2. PICK v \in Known(d, c) :
           item' = [document |-> d, content |-> c, number |-> v.number, fresh |-> FALSE]
    BY <1>5 DEF StoreUnchanged
  <2>3. ItemStored'
    BY <1>3, <2>1, <2>2 DEF ItemStored, ItemIs, Known
  <2>4. ~doomed => Owed'
    BY <1>3, <1>4, <2>1, AllCitedOwes
  <2> QED
    BY <1>1, <1>3, <2>1, <2>3, <2>4 DEF LoadInv, AllCited, CitedAt, Sourced
<1>6. CASE StoreNewVersion(d, c)
  <2>0. PICK new : new = NewVersion(d, c)
    OBVIOUS
  <2>1. /\ tx' = [touched EXCEPT !.versions = @ \cup {new}, !.current[d] = Latest(d) + 1]
        /\ item' = [document |-> d, content |-> c, number |-> Latest(d) + 1, fresh |-> TRUE]
        /\ pc' = "parse" /\ ~doomed /\ ~doomed'
    BY <1>6, <2>0 DEF StoreNewVersion, touched
  <2>2. new.document = d /\ new.number = Latest(d) + 1 /\ new.content = c
    BY <2>0 DEF NewVersion
  <2>3. /\ tx'.versions = tx.versions \cup {new} /\ tx'.evidence = tx.evidence
        /\ tx'.entities = tx.entities
    BY <1>3, <2>1 DEF Rows
  <2>4. ItemIs(new)' /\ item'.content = c /\ item'.fresh
    BY <2>1, <2>2 DEF ItemIs
  <2>5. ItemStored'
    BY <2>2, <2>3, <2>4 DEF ItemStored, ItemIs
  <2>6. Owed'
    <3> SUFFICES ASSUME NEW v \in tx'.versions, v.content \in ParsedAtFirst,
                        NEW i \in CitedRecords(v.content)
                 PROVE  CitedAt(tx', v, i) \/ InHand(v)'
      BY <2>1 DEF Owed
    <3>1. CASE v = new
      BY <2>1, <2>4, <3>1 DEF InHand, ItemIs
    <3>2. CASE v \in tx.versions
      BY <1>4, <2>1, <2>3, <3>2 DEF AllCited, CitedAt
    <3> QED
      BY <2>3, <3>1, <3>2
  <2>7. Sourced(tx)'
    BY <2>1, <2>3 DEF LoadInv, Sourced
  <2> QED
    BY <1>1, <2>5, <2>6, <2>7 DEF LoadInv, AllCited, CitedAt, Sourced
<1>7. CASE StoreFlushRaises(d, c)
  <2>1. doomed' /\ pc' = "finish"
    BY <1>7 DEF StoreFlushRaises, FlushRaises, RaiseToRun
  <2> QED
    BY <1>1, <2>1, EmptyHanded
<1>8. CASE PutRaises(d, c)
  <2>1. tx' = RecordFailure(touched, "run") /\ pc' = "finish" /\ doomed' = doomed
    BY <1>8 DEF PutRaises, RaiseToRun, touched
  <2>2. /\ tx'.versions = tx.versions /\ tx'.evidence = tx.evidence
        /\ tx'.entities = tx.entities
    BY <1>3, <2>1 DEF RecordFailure, Rows
  <2> QED
    BY <1>1, <1>4, <2>1, <2>2, EmptyHanded
<1> QED
  BY <1>2, <1>5, <1>6, <1>7, <1>8

LEMMA ParseCites ==
    ASSUME PipelineInv, LoadInv, Parse \/ ParseFails \/ ParseRaises
    PROVE  LoadInv'
<1>1. /\ pc = "parse" /\ tx \in Rows /\ UNCHANGED <<db, parses, doomed>> /\ item \in Item
      /\ run \in Runs
  BY DEF Parse, ParseFails, ParseRaises, PipelineInv, TypeOK
<1>2. "run" \in Stages /\ "parse" \in Stages
  BY DEF Stages
<1>3. SignatureOf[item.content] \in Signatures \cup {NoSignature}
  BY <1>1 DEF Item
<1> DEFINE rows == DriftRecorded(SignatureOf[item.content])
<1>4. /\ rows \in Rows /\ rows.versions = tx.versions /\ rows.evidence = tx.evidence
      /\ rows.entities = tx.entities
  <2>1. rows \in Rows
    BY <1>1, <1>3, DriftType DEF PipelineInv, TypeOK
  <2> QED
    BY <1>1, <1>3, <2>1, DriftRows
<1> HIDE DEF rows
<1>5. CASE Parse
  <2>1. tx' = rows /\ position' = 0 /\ UNCHANGED item /\ pc' = "load"
    BY <1>5 DEF Parse, rows
  <2>2. ~doomed => Owed'
    <3> SUFFICES ASSUME ~doomed, NEW v \in tx.versions, v.content \in ParsedAtFirst,
                        NEW i \in CitedRecords(v.content)
                 PROVE  CitedAt(tx, v, i)' \/ (InHand(v)' /\ i > position')
      BY <1>4, <2>1 DEF Owed
    <3>1. CitedAt(tx, v, i) \/ InHand(v)
      BY DEF LoadInv, Owed
    <3>2. i \in Nat \ {0}
      BY DEF CitedRecords
    <3> QED
      BY <1>4, <2>1, <3>1, <3>2 DEF CitedAt, InHand, ItemIs
  <2> QED
    BY <1>1, <1>4, <2>1, <2>2 DEF LoadInv, AllCited, CitedAt, Sourced, ItemStored, ItemIs
<1>6. CASE ParseFails \/ ParseRaises
  <2>1. item.content \notin ParsedAtFirst /\ pc' \notin {"parse", "load"}
    BY <1>6 DEF ParseFails, ParseRaises, RaiseToRun, LoadInv
  <2>2. ~doomed => AllCited(tx)
    <3> SUFFICES ASSUME ~doomed, NEW v \in tx.versions, v.content \in ParsedAtFirst,
                        NEW i \in CitedRecords(v.content)
                 PROVE  CitedAt(tx, v, i)
      BY DEF AllCited
    <3>1. Owed /\ ItemStored
      BY DEF LoadInv
    <3>2. ~ItemIs(v)
      BY <1>1, <2>1, <3>1, InHandContent
    <3> QED
      BY <3>1, <3>2 DEF Owed, InHand
  <2>3. \A old \in Rows, stage \in Stages :
           /\ RecordFailure(old, stage).versions = old.versions
           /\ RecordFailure(old, stage).evidence = old.evidence
           /\ RecordFailure(old, stage).entities = old.entities
    BY <1>1, FailureRows
  <2>4. tx' \in {RecordFailure(tx, "parse"), RecordFailure(tx, "run"), RecordFailure(rows, "run")}
    BY <1>6 DEF ParseFails, ParseRaises, RaiseToRun, rows
  <2>5. /\ tx'.versions = tx.versions /\ tx'.evidence = tx.evidence
        /\ tx'.entities = tx.entities
    BY <1>1, <1>2, <1>4, <2>3, <2>4
  <2> QED
    BY <1>1, <2>1, <2>2, <2>5, EmptyHanded
<1> QED
  BY <1>5, <1>6

LEMMA RecordsCite ==
    ASSUME PipelineInv, LoadInv,
           RejectInvalid \/ LoadCited \/ LoadPlain \/ LoadRaises \/ NextItem
    PROVE  LoadInv'
<1>1. /\ pc = "load" /\ tx \in Rows /\ UNCHANGED <<db, parses>> /\ item \in Item
      /\ run \in Runs /\ position \in Nat
  BY DEF RejectInvalid, LoadCited, LoadPlain, LoadRaises, NextItem, Handling, PipelineInv, TypeOK
<1>2. RecordsOf[item.content] \in Seq(Record)
  BY <1>1 DEF Item
\* The loop goes on: what was owed is still ahead, or has just been cited.
<1>4. ASSUME UNCHANGED <<pc, item>>, doomed => doomed', position' = position + 1,
             tx'.versions = tx.versions, tx.evidence \subseteq tx'.evidence,
             ~doomed => Sourced(tx)',
             \A v \in tx.versions : InHand(v) /\ position + 1 \in CitedRecords(item.content)
                                     => CitedAt(tx', v, position + 1)
      PROVE  LoadInv'
  <2>1. ASSUME ~doomed' PROVE Owed'
    <3> SUFFICES ASSUME NEW v \in tx.versions, v.content \in ParsedAtFirst,
                        NEW i \in CitedRecords(v.content), ~CitedAt(tx', v, i)
                 PROVE  InHand(v)' /\ i > position'
      BY <1>4 DEF Owed
    <3>1. Owed /\ ItemStored
      BY <1>4, <2>1 DEF LoadInv
    <3>2. ~CitedAt(tx, v, i)
      BY <1>4 DEF CitedAt
    <3>3. InHand(v) /\ i > position
      BY <1>1, <3>1, <3>2 DEF Owed
    <3>4. v.content = item.content
      BY <1>1, <3>1, <3>3, InHandContent DEF InHand
    <3>5. i # position + 1
      BY <1>4, <3>3, <3>4
    <3>6. i \in Nat
      BY DEF CitedRecords
    <3>7. i > position + 1
      BY <1>1, <3>3, <3>5, <3>6
    <3> QED
      BY <1>4, <3>3, <3>7 DEF InHand, ItemIs
  <2> QED
    BY <1>1, <1>4, <2>1 DEF LoadInv, AllCited, CitedAt, Sourced, ItemStored, ItemIs
<1>5. CASE RejectInvalid
  <2>1. tx' = RecordFailure(tx, "validate") /\ "validate" \in Stages
    BY <1>5 DEF RejectInvalid, Stages
  <2>2. /\ tx'.versions = tx.versions /\ tx'.evidence = tx.evidence
        /\ tx'.entities = tx.entities
    BY <1>1, <2>1, FailureRows
  <2>3. /\ UNCHANGED <<pc, item, doomed>> /\ position' = position + 1
        /\ position + 1 \notin CitedRecords(item.content)
    BY <1>5 DEF RejectInvalid, Handling, NextRecord, CitedRecords
  <2>4. ~doomed => Sourced(tx)'
    BY <2>2 DEF LoadInv, Sourced
  <2> QED
    BY <1>4, <2>2, <2>3, <2>4
<1>6. CASE LoadCited
  <2> DEFINE rows == Upsert(tx, NextRecord.entity)
  <2>1. /\ NextRecord.entity \in Entities /\ tx' = CreateEvidence(rows)
        /\ UNCHANGED <<pc, item, doomed>> /\ position' = position + 1 /\ ~doomed
    BY <1>6, HandledRecord DEF LoadCited, Handling, PipelineInv, Record
  <2>2. /\ rows \in Rows /\ rows.versions = tx.versions /\ rows.evidence = tx.evidence
        /\ rows.entities = [tx.entities EXCEPT ![NextRecord.entity] = item.content]
    <3>1. rows \in Rows
      BY <1>1, <2>1, LoadType
    <3> QED
      BY <1>1, <3>1 DEF Upsert, Rows
  <2> HIDE DEF rows
  <2>3. /\ tx'.versions = tx.versions /\ tx'.entities = rows.entities
        /\ tx'.evidence = IF item.fresh
                          THEN tx.evidence \cup {[document |-> item.document,
                                 number |-> item.number, position |-> position + 1, run |-> run]}
                          ELSE tx.evidence
    BY <2>1, <2>2 DEF CreateEvidence, Rows
  <2>4. Sourced(tx)'
    <3>1. \E v \in tx.versions : v.content = item.content
      BY <1>1, <2>1 DEF LoadInv, ItemStored
    <3>2. tx.entities \in [Entities -> Contents \cup {NoContent}]
      BY <1>1 DEF Rows
    <3> QED
      BY <2>1, <2>2, <2>3, <3>1, <3>2 DEF LoadInv, Sourced
  <2>5. ASSUME NEW v \in tx.versions, InHand(v)
        PROVE  CitedAt(tx', v, position + 1)
    <3> DEFINE cite == [document |-> item.document, number |-> item.number,
                        position |-> position + 1, run |-> run]
    <3>1. cite \in tx'.evidence
      BY <2>3, <2>5 DEF InHand
    <3>2. cite.document = v.document /\ cite.number = v.number /\ cite.position = position + 1
      BY <2>5 DEF InHand, ItemIs
    <3> HIDE DEF cite
    <3>3. PICK e \in tx'.evidence : e.document = v.document /\ e.number = v.number
                                      /\ e.position = position + 1
      BY <3>1, <3>2
    <3> QED
      BY <3>3 DEF CitedAt, Ledger!Cites
  <2> QED
    BY <1>4, <2>1, <2>3, <2>4, <2>5
<1>7. CASE LoadPlain
  <2>1. /\ NextRecord.entity \in Entities /\ tx' = Upsert(tx, NextRecord.entity)
        /\ UNCHANGED <<pc, item>> /\ position' = position + 1
        /\ doomed => doomed'
        /\ position + 1 \notin CitedRecords(item.content)
    BY <1>7, HandledRecord
    DEF LoadPlain, Handling, PipelineInv, Record, NextRecord, CitedRecords
  <2>2. /\ tx'.versions = tx.versions /\ tx'.evidence = tx.evidence
        /\ tx'.entities = [tx.entities EXCEPT ![NextRecord.entity] = item.content]
    BY <1>1, <2>1 DEF Upsert, Rows
  <2>3. ~doomed => Sourced(tx)'
    <3>1. ~doomed => \E v \in tx.versions : v.content = item.content
      BY <1>1 DEF LoadInv, ItemStored
    <3>2. tx.entities \in [Entities -> Contents \cup {NoContent}]
      BY <1>1 DEF Rows
    <3> QED
      BY <2>1, <2>2, <3>1, <3>2 DEF LoadInv, Sourced
  <2> QED
    BY <1>4, <2>1, <2>2, <2>3
<1>8. CASE LoadRaises
  <2>1. doomed'
    BY <1>8 DEF LoadRaises, RollbackAndRecord
  <2> QED
    BY <1>1, <2>1 DEF LoadInv, AllCited, CitedAt, Sourced
<1>9. CASE NextItem
  <2>1. /\ UNCHANGED <<tx, doomed>> /\ pc' = "fetch"
        /\ position = Len(RecordsOf[item.content])
    BY <1>9 DEF NextItem
  <2>2. ~doomed => AllCited(tx)
    <3> SUFFICES ASSUME ~doomed, NEW v \in tx.versions, v.content \in ParsedAtFirst,
                        NEW i \in CitedRecords(v.content)
                 PROVE  CitedAt(tx, v, i)
      BY DEF AllCited
    <3>1. Owed /\ ItemStored
      BY DEF LoadInv
    <3>2. CASE ItemIs(v)
      <4>1. v.content = item.content
        BY <1>1, <3>1, <3>2, InHandContent
      <4>2. i \in 1 .. position
        BY <1>2, <2>1, <4>1 DEF CitedRecords
      <4> QED
        BY <1>1, <3>1, <4>2 DEF Owed
    <3>3. CASE ~ItemIs(v)
      BY <3>1, <3>3 DEF Owed, InHand
    <3> QED
      BY <3>2, <3>3
  <2> QED
    BY <1>1, <2>1, <2>2, EmptyHanded
<1> QED
  BY <1>5, <1>6, <1>7, <1>8, <1>9

LEMMA LoadInvStep ==
    ASSUME PipelineInv, LoadInv, [Next]_vars
    PROVE  LoadInv'
<1>t. db \in Rows /\ tx \in Rows /\ (pc # "idle" => run \in Runs)
  BY DEF PipelineInv, TypeOK
<1>1. CASE UNCHANGED vars
  <2>1. Owed <=> Owed'
    BY <1>1 DEF vars, Owed, CitedAt, InHand, ItemIs
  <2>2. ItemStored <=> ItemStored'
    BY <1>1 DEF vars, ItemStored, ItemIs
  <2>3. UNCHANGED <<db, tx, parses, doomed>>
    BY <1>1 DEF vars
  <2> QED
    BY <2>1, <2>2, <2>3 DEF LoadInv, AllCited, CitedAt, Sourced
<1>2. CASE StartRun
  <2>1. /\ tx'.versions = tx.versions /\ tx'.evidence = tx.evidence
        /\ tx'.entities = tx.entities
    BY <1>2, <1>t DEF StartRun, PipelineInv, Rows
  <2> QED
    BY <1>2, <2>1, EmptyHanded, NothingOwed DEF StartRun, LoadInv
<1>3. CASE Discover \/ DiscoverRaises \/ FetchFails
  <2>1. PICK stage \in Stages : tx' \in {tx, RecordFailure(tx, stage)}
    BY <1>3 DEF Discover, DiscoverRaises, RaiseToRun, FetchFails, Stages
  <2>2. /\ UNCHANGED <<db, parses, doomed>> /\ {pc, pc'} \subseteq {"discover", "fetch", "finish"}
    BY <1>3 DEF Discover, DiscoverRaises, RaiseToRun, FetchFails
  <2>3. /\ tx'.versions = tx.versions /\ tx'.evidence = tx.evidence
        /\ tx'.entities = tx.entities
    <3>1. run \in Runs
      BY <1>t, <2>2
    <3>2. CASE tx' = RecordFailure(tx, stage)
      BY <1>t, <3>1, <3>2, FailureRows
    <3>3. CASE tx' = tx
      BY <3>3
    <3> QED
      BY <2>1, <3>2, <3>3
  <2> QED
    BY <2>2, <2>3, EmptyHanded, NothingOwed DEF LoadInv
<1>4. CASE FetchAndStore
  BY <1>4, StoreCites
<1>5. CASE Parse \/ ParseFails \/ ParseRaises
  BY <1>5, ParseCites
<1>6. CASE RejectInvalid \/ LoadCited \/ LoadPlain \/ LoadRaises \/ NextItem
  BY <1>6, RecordsCite
<1>7. CASE FinalFlush
  <2>1. /\ UNCHANGED <<db, parses>> /\ pc = "fetch" /\ pc' = "finish"
        /\ ~doomed' => ~doomed /\ UNCHANGED tx
    BY <1>7 DEF FinalFlush, FlushRaises, RaiseToRun
  <2> QED
    BY <2>1, EmptyHanded, NothingOwed DEF LoadInv
<1>8. CASE FinishRun
  <2>1. /\ db' = [tx EXCEPT !.runs[run] = summary] /\ tx' = db' /\ pc = "finish" /\ pc' = "idle"
        /\ UNCHANGED parses /\ ~doomed
    BY <1>8 DEF FinishRun, Idle
  <2>2. /\ db'.versions = tx.versions /\ db'.evidence = tx.evidence
        /\ db'.entities = tx.entities
    BY <1>t, <2>1 DEF Rows
  <2>3. AllCited(tx) /\ Sourced(tx)
    BY <2>1, NothingOwed DEF LoadInv
  <2>4. AllCited(db)' /\ Sourced(db)'
    BY <2>2, <2>3 DEF AllCited, CitedAt, Sourced
  <2> QED
    BY <2>1, <2>4, AllCitedOwes DEF LoadInv, ItemStored
<1>9. CASE FinishRaises \/ Kill
  <2>1. UNCHANGED <<db, parses>> /\ tx' = db /\ pc' = "idle"
    BY <1>9 DEF FinishRaises, Kill, Idle
  <2>2. Owed'
    BY <2>1, AllCitedOwes DEF LoadInv
  <2> QED
    BY <2>1, <2>2 DEF LoadInv, AllCited, CitedAt, Sourced, ItemStored
<1>10. CASE FixParser
  <2>1. UNCHANGED <<db, tx, doomed>> /\ parses' = Contents /\ pc = "idle" /\ pc' = "idle"
    BY <1>10 DEF FixParser
  <2> QED
    BY <2>1 DEF LoadInv, AllCited, CitedAt, Sourced, Owed, InHand, ItemStored
<1> QED
  BY <1>1, <1>2, <1>3, <1>4, <1>5, <1>6, <1>7, <1>8, <1>9, <1>10 DEF Next, RunStep

LEMMA LoadInvInit == Init => LoadInv
BY DEF Init, NoRows, LoadInv, AllCited, CitedAt, Sourced, Owed, ItemStored

\* Parcels and permits that were last loaded from a content the first parser
\* handled have evidence that cites that content: neither a failure before, nor
\* one after, nor a kill between two records leaves one committed without it.
THEOREM LoadedCited == Spec => []LoadedIsCited
<1>1. PipelineInv /\ LoadInv /\ [Next]_vars => LoadInv'
  BY LoadInvStep
<1>2. PipelineInv /\ LoadInv => LoadedIsCited
  <2> SUFFICES ASSUME PipelineInv, LoadInv, NEW c \in ParsedAtFirst, NEW i \in CitedRecords(c),
                      db.entities[RecordsOf[c][i].entity] = c
               PROVE  \E e \in db.evidence, v \in db.versions :
                          Ledger!Cites(e, v) /\ v.content = c /\ e.position = i
    BY DEF LoadedIsCited, LoadsAreCited, CitedRecords
  <2>1. c \in Contents /\ c # NoContent /\ RecordsOf[c] \in Seq(Record)
    OBVIOUS
  <2>2. RecordsOf[c][i].entity \in Entities
    <3>1. i \in 1 .. Len(RecordsOf[c])
      BY <2>1 DEF CitedRecords
    <3>2. RecordsOf[c][i] \in Record
      BY <2>1, <3>1
    <3> QED
      BY <3>2 DEF Record
  <2>3. PICK v \in db.versions : v.content = c
    <3>1. Sourced(db)
      BY DEF LoadInv
    <3> QED
      BY <2>1, <2>2, <3>1 DEF Sourced
  <2> QED
    BY <2>3 DEF LoadInv, AllCited, CitedAt
<1> QED
  BY <1>1, <1>2, LoadInvInit, PipelineInvariant, PTL DEF Spec
=============================================================================
