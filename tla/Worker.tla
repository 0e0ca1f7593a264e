------------------------------- MODULE Worker -------------------------------
(***************************************************************************)
(* Programs that share the database: the bootstrap command, single worker  *)
(* commands and admin requests.  Each command is one transaction of its    *)
(* own session (session_scope, get_session) at PostgreSQL's READ COMMITTED *)
(* level: a SELECT sees what is committed when it runs, and what its own   *)
(* transaction has written.  A flush that touches a row or a unique key    *)
(* another transaction has written waits for that transaction to end.      *)
(*                                                                         *)
(* Here a run, a pass and a scoring are what they do to rows that others   *)
(* touch too; IngestionPipeline, SiteBuilder and SiteScoring have the rest *)
(* of them.                                                                *)
(***************************************************************************)
EXTENDS Naturals, Sequences, SequencesExt, FiniteSets, Relation

CONSTANTS Programs,    \* the processes
          Plans,       \* the commands each of them runs, one after the other
          Slugs,       \* connectors, each with a source
          Registered,  \* those that the registry names; a run creates the others
          DocumentIds, \* source-native ids
          Digests,     \* what a document may hold
          ParcelIds, Names,
          Discovered,  \* what a connector may discover and fetch: sequences of items
          Mortal       \* bound: the programs that may be killed

\* tolerates: what the caller of a command survives.  The bootstrap survives a
\* typer.Exit of the flaky connectors; admin requests, and commands typed one
\* by one, do not depend on each other.
Command == [kind : {"sync", "ingest", "build", "score"}, slug : Slugs,
            tolerates : {"nothing", "exit", "anything"}]

\* One document with one record: a parcel, its owner's normalized name, and whether
\* find_candidate_parcels takes a parcel of this class, size, owner and city.
Item == [document : DocumentIds, digest : Digests, parcel : ParcelIds, owner : Names,
         candidate : BOOLEAN]

ASSUME WorkerAssumption ==
    /\ Plans \subseteq [Programs -> Seq(Command)]
    /\ Discovered \in [Slugs -> SUBSET Seq(Item)]
    /\ Registered \subseteq Slugs
    /\ Mortal \subseteq Programs
    /\ IsFiniteSet(Slugs) /\ IsFiniteSet(ParcelIds)

\* The program that tolerates no exception is the bootstrap: whatever it ingests
\* comes before it builds the sites, and it scores them last.
ASSUME BootstrapIsOrdered ==
    \A commands \in UNION {{plans[p] : p \in Programs} : plans \in Plans} :
        (\A i \in DOMAIN commands : commands[i].tolerates # "anything") =>
            \A i \in DOMAIN commands : commands[i].kind = "ingest" =>
                \E j, k \in DOMAIN commands :
                    i < j /\ j < k /\ commands[j].kind = "build" /\ commands[k].kind = "score"

VARIABLES plan,     \* one of Plans
          db,       \* the committed rows
          current,  \* version number of each document's current_version_id
          class,    \* whether each parcel's committed row is a candidate, and
                    \* (history) who has loaded it as one, or not, since it became so
          commits,  \* how many transactions have been committed
          pc,       \* where each program is
          command,  \* the position of its command
          failed,   \* the run's summary.status is "failed"
          todo,     \* items, parcels or sites it has still to go through
          dirty,    \* rows whose update waits for a flush
          writes,   \* what the flush has still to write
          tx,       \* what its transaction has written
          loading,  \* what its transaction makes of each parcel's class
          began     \* how many transactions were committed when it began

vars == <<plan, db, current, class, commits, pc, command, failed, todo, dirty, writes, tx,
          loading, began>>

-----------------------------------------------------------------------------
(* Rows                                                                    *)

Table(rows, t) == {r \in rows : r.table = t}

Source(s)    == [table |-> "sources", key |-> s]
Connector(s) == [table |-> "connectors", key |-> s]
Document(d)  == [table |-> "documents", key |-> d]
Parcel(x, p) == [table |-> "parcels", key |-> x, by |-> p]

\* from and to are history: how many transactions were committed when the
\* row's own one began, and which it was itself (0 until then).
Organization(n, p) == [table |-> "organizations", key |-> n, by |-> p,
                       from |-> began[p], to |-> 0]

\* A site with its first parcel link; key is the number of its project code.
Site(n, x, p) == [table |-> "sites", key |-> n, parcel |-> x, by |-> p,
                  from |-> began[p], to |-> 0]
Version(i, n) == [table |-> "versions", document |-> i.document, number |-> n,
                  digest |-> i.digest]
Run(s, status, p) == [table |-> "runs", slug |-> s, status |-> status, by |-> p]
Prediction(n, p)  == [table |-> "predictions", site |-> n, by |-> p]

\* Mutant: versions are unique by content alone.
KeysByContent(r) ==
    CASE r.table = "versions" -> {<<"digest", r.document, r.digest>>}
      [] r.table \in {"organizations", "runs", "predictions"} -> {}
      [] OTHER -> {<<r.table, r.key>>}

\* The unique keys of a row: an organization's normalized name is not one.
Keys(r) ==
    CASE r.table = "versions" -> {<<"number", r.document, r.number>>,
                                  <<"digest", r.document, r.digest>>}
      [] r.table \in {"organizations", "runs", "predictions"} -> {}
      [] OTHER -> {<<r.table, r.key>>}

Insert(r) == [row |-> r, new |-> TRUE]
Update(r) == [row |-> r, new |-> FALSE]

\* What a session that has loaded no parcel makes of one.
NotLoaded == [loaded |-> FALSE, candidate |-> FALSE, changed |-> FALSE]

\* What a SELECT of p returns.
Visible(p) == db \cup {w.row : w \in {v \in tx[p] : v.new}}

Found(p, t) == Table(Visible(p), t)

Highest(numbers) == CHOOSE n \in {0} \cup numbers : \A m \in numbers : m <= n

Init ==
    /\ plan \in Plans
    /\ db = {}
    /\ current = [d \in DocumentIds |-> 0]
    /\ class = [x \in ParcelIds |-> [candidate |-> FALSE, by |-> {}]]
    /\ commits = 0
    /\ pc = [p \in Programs |-> "ready"]
    /\ command = [p \in Programs |-> 1]
    /\ failed = [p \in Programs |-> FALSE]
    /\ todo = [p \in Programs |-> <<>>]
    /\ dirty = [p \in Programs |-> {}]
    /\ writes = [p \in Programs |-> <<>>]
    /\ tx = [p \in Programs |-> {}]
    /\ loading = [p \in Programs |-> [x \in ParcelIds |-> NotLoaded]]
    /\ began = [p \in Programs |-> 0]

-----------------------------------------------------------------------------
(* The session                                                             *)

Over == {"done", "exited", "raised", "killed"}

Now(p) == plan[p][command[p]]

\* p has a command to go on with and its last flush is through.
Running(p, step) == pc[p] = step /\ writes[p] = <<>>

\* The next command of p is of this kind.
Due(p, kind) ==
    pc[p] = "ready" /\ command[p] <= Len(plan[p]) /\ Now(p).kind = kind

Begins(p, kind) == Due(p, kind) /\ began' = [began EXCEPT ![p] = commits]

Goto(p, step) == pc' = [pc EXCEPT ![p] = step]

\* A flush writes the rows that have changed, then what it is given.
Flush(p, rows) ==
    /\ writes' = [writes EXCEPT ![p] =
                     SetToSeq({Update(r) : r \in dirty[p]}) \o rows]
    /\ dirty' = [dirty EXCEPT ![p] = {}]

NoFlush == UNCHANGED <<writes, dirty>>

Written(q) == UNION {Keys(w.row) : w \in tx[q]}

\* A row or key that w touches has been touched by q, which has not ended.
Awaits(w, q) == Keys(w.row) \cap Written(q) # {}

Free(p, w) == \A q \in Programs \ {p} : ~ Awaits(w, q)

\* The key of a new row has been committed since its session looked for it.
Violates(w) == w.new /\ Keys(w.row) \cap UNION {Keys(r) : r \in db} # {}

\* Mutant: the session of a failed command is left open.
LeftOpen(p) == UNCHANGED <<tx, loading>>

\* rollback() and close().
RolledBack(p) ==
    /\ tx' = [tx EXCEPT ![p] = {}]
    /\ loading' = [loading EXCEPT ![p] = [x \in ParcelIds |-> NotLoaded]]

\* The program's command is over, its transaction rolled back or committed.
Leave(p, next, step) ==
    /\ Goto(p, step)
    /\ command' = [command EXCEPT ![p] = next]
    /\ failed' = [failed EXCEPT ![p] = FALSE]
    /\ todo' = [todo EXCEPT ![p] = <<>>]
    /\ dirty' = [dirty EXCEPT ![p] = {}]
    /\ writes' = [writes EXCEPT ![p] = <<>>]
    /\ began' = [began EXCEPT ![p] = 0]

\* An exception leaves the command: only what does not depend on it goes on.
Raise(p) ==
    /\ RolledBack(p)
    /\ IF Now(p).tolerates = "anything"
       THEN Leave(p, command[p] + 1, "ready")
       ELSE Leave(p, command[p], "raised")
    /\ UNCHANGED <<plan, db, current, class, commits>>

\* The flush gets on with its next row, which nobody else has touched.
Write(p) ==
    /\ writes[p] # <<>>
    /\ Free(p, Head(writes[p]))
    /\ ~ Violates(Head(writes[p]))
    /\ tx' = [tx EXCEPT ![p] = @ \cup {Head(writes[p])}]
    /\ writes' = [writes EXCEPT ![p] = Tail(@)]
    /\ UNCHANGED <<plan, db, current, class, commits, pc, command, failed, todo, dirty,
                   loading, began>>

\* IntegrityError.  What handles it inside a run flushes too, on a session that
\* the failed flush has made unusable, so it leaves run() as another exception.
WriteFails(p) ==
    /\ writes[p] # <<>>
    /\ Free(p, Head(writes[p]))
    /\ Violates(Head(writes[p]))
    /\ Raise(p)

WaitsFor(p, q) == p # q /\ writes[p] # <<>> /\ Awaits(Head(writes[p]), q)

WaitsForItself(p) ==
    TransitiveClosure([q, r \in Programs |-> WaitsFor(q, r)], Programs)[p, p]

\* PostgreSQL ends one transaction of a circle, with an error.
DeadlockDetected(p) ==
    /\ writes[p] # <<>>
    /\ ~ Free(p, Head(writes[p]))
    /\ WaitsForItself(p)
    /\ Raise(p)

\* The process is killed: its connection closes, its transaction is undone.
Kill(p) ==
    /\ pc[p] \notin Over
    /\ pc[p] # "ready"
    /\ RolledBack(p)
    /\ Leave(p, command[p], "killed")
    /\ UNCHANGED <<plan, db, current, class, commits>>

\* Mutant: the bootstrap goes on after any connector that failed.
GoesOnRegardless(p) == TRUE

\* A failed run stops what depends on it.
GoesOn(p) == failed[p] => Now(p).tolerates # "nothing"

\* commit().  A failed run is committed as well, and answered by typer.Exit.
Commit(p) ==
    LET stamped == {IF r.table \in {"organizations", "sites"}
                    THEN [r EXCEPT !.to = commits + 1] ELSE r :
                       r \in {w.row : w \in {v \in tx[p] : v.new}}}
        numbers(d) == {v.number : v \in {r \in stamped : r.table = "versions" /\ r.document = d}}
        classed(x) == LET made == loading[p][x] IN
                      IF made.changed THEN made.candidate ELSE class[x].candidate
        loaders(x) == {q \in {p} : loading[p][x].loaded /\ loading[p][x].candidate = classed(x)}
    IN
    /\ writes[p] = <<>>
    /\ pc[p] \in {"commit", "build", "score"} /\ todo[p] = <<>>
    /\ db' = db \cup stamped
    /\ current' = [d \in DocumentIds |->
                      IF numbers(d) = {} THEN current[d] ELSE Highest(numbers(d))]
    /\ class' = [x \in ParcelIds |->
                    [candidate |-> classed(x),
                     by |-> loaders(x) \cup
                            IF classed(x) = class[x].candidate THEN class[x].by ELSE {}]]
    /\ commits' = commits + 1
    /\ RolledBack(p)
    /\ IF GoesOn(p) THEN Leave(p, command[p] + 1, "ready") ELSE Leave(p, command[p], "exited")
    /\ UNCHANGED plan

\* The bootstrap says Done; a client has no more requests.
Done(p) ==
    /\ pc[p] = "ready"
    /\ command[p] > Len(plan[p])
    /\ Goto(p, "done")
    /\ UNCHANGED <<plan, db, current, class, commits, command, failed, todo, dirty,
                   writes, tx, loading, began>>

-----------------------------------------------------------------------------
(* sync_registry                                                           *)

Upsert(p, r) == IF r \in Visible(p) THEN Update(r) ELSE Insert(r)

\* Every source and connector that is not found is added, those that are found are
\* updated if the registry has been revised, and all is flushed at the end.
SyncRegistry(p) ==
    /\ Begins(p, "sync")
    /\ \E revised \in BOOLEAN :
          LET due(rows) == {Upsert(p, r) : r \in {x \in rows : revised \/ x \notin Visible(p)}}
          IN  Flush(p, SetToSeq(due({Source(s) : s \in Slugs}))
                       \o SetToSeq(due({Connector(s) : s \in Registered})))
    /\ Goto(p, "commit")
    /\ UNCHANGED <<plan, db, current, class, commits, command, failed, todo, tx, loading>>

-----------------------------------------------------------------------------
(* IngestionPipeline.run                                                   *)

\* _require_source: LookupError.
SourceIsMissing(p) ==
    /\ Due(p, "ingest")
    /\ Source(Now(p).slug) \notin Visible(p)
    /\ Raise(p)

\* _require_source, _require_connector_row, _start_run and discover().
StartRun(p) ==
    LET connector == Connector(Now(p).slug) IN
    /\ Begins(p, "ingest")
    /\ Source(Now(p).slug) \in Visible(p)
    /\ Flush(p, IF connector \in Visible(p) THEN <<>> ELSE <<Insert(connector)>>)
    /\ \E items \in Discovered[Now(p).slug] : todo' = [todo EXCEPT ![p] = items]
    /\ Goto(p, "items")
    /\ UNCHANGED <<plan, db, current, class, commits, command, failed, tx, loading>>

Thing(p) == Head(todo[p])

DropThing(p) == todo' = [todo EXCEPT ![p] = Tail(@)]

\* run() catches the exception: the summary says failed, the items that are left are
\* left, and the run is finished.
FailRun(p) ==
    /\ failed' = [failed EXCEPT ![p] = TRUE]
    /\ todo' = [todo EXCEPT ![p] = <<>>]
    /\ Goto(p, "items")

\* _get_or_create_document.
FindDocument(p) ==
    /\ Running(p, "items") /\ todo[p] # <<>>
    /\ LET document == Document(Thing(p).document)
       IN  IF document \in Visible(p) THEN NoFlush ELSE Flush(p, <<Insert(document)>>)
    /\ Goto(p, "stored")
    /\ UNCHANGED <<plan, db, current, class, commits, command, failed, todo, tx, loading,
                   began>>

VersionsOf(p, d) == {v \in Found(p, "versions") : v.document = d}

\* _store_document with bytes that are there already: the document changes.
KeepVersion(p) ==
    /\ Running(p, "stored")
    /\ \E v \in VersionsOf(p, Thing(p).document) : v.digest = Thing(p).digest
    /\ dirty' = [dirty EXCEPT ![p] = @ \cup {Document(Thing(p).document)}]
    /\ Goto(p, "load")
    /\ UNCHANGED <<plan, db, current, class, commits, command, failed, todo, writes, tx,
                   loading, began>>

\* With new bytes: the next number is the highest one plus one, read before it
\* is written, after the document.
AddVersion(p) ==
    LET document == Thing(p).document
        highest == Highest({v.number : v \in VersionsOf(p, document)})
    IN
    /\ Running(p, "stored")
    /\ \A v \in VersionsOf(p, document) : v.digest # Thing(p).digest
    /\ Flush(p, <<Update(Document(document)), Insert(Version(Thing(p), highest + 1))>>)
    /\ Goto(p, "load")
    /\ UNCHANGED <<plan, db, current, class, commits, command, failed, todo, tx, loading,
                   began>>

\* put() raises on new bytes: the run is failed, and its document has no version of them.
PutRaises(p) ==
    LET document == Thing(p).document IN
    /\ Running(p, "stored")
    /\ \A v \in VersionsOf(p, document) : v.digest # Thing(p).digest
    /\ dirty' = [dirty EXCEPT ![p] = @ \cup {Document(document)}]
    /\ FailRun(p)
    /\ UNCHANGED <<plan, db, current, class, commits, command, writes, tx, loading, began>>

\* _check_schema_drift: a signature that has changed is noted in the connector's row.
SignatureChanges(p) ==
    /\ Running(p, "load")
    /\ dirty' = [dirty EXCEPT ![p] = @ \cup {Connector(Now(p).slug)}]
    /\ UNCHANGED <<plan, db, current, class, commits, pc, command, failed, todo, writes, tx,
                   loading, began>>

\* Mutant: the owner is looked up among those the run itself has created.
OwnersFound(p, name) ==
    {o \in {w.row : w \in {v \in tx[p] : v.new}} : o.table = "organizations" /\ o.key = name}

\* get_or_create_organization: found by its normalized name.
OrganizationsFound(p, name) == {o \in Found(p, "organizations") : o.key = name}

\* What p's transaction takes a parcel for.
Candidate(p, x) == IF loading[p][x].loaded THEN loading[p][x].candidate ELSE class[x].candidate

\* load_parcel: the parcel and its owner, created or updated.  An UPDATE names only the
\* columns that differ from what the session has read.
LoadParcel(p) ==
    LET parcel == Parcel(Thing(p).parcel, p)
        known == \E r \in Found(p, "parcels") : r.key = parcel.key
        owner == Organization(Thing(p).owner, p)
    IN
    /\ Running(p, "load")
    /\ Flush(p, (IF OrganizationsFound(p, owner.key) = {} THEN <<Insert(owner)>> ELSE <<>>)
                \o <<IF known THEN Update(parcel) ELSE Insert(parcel)>>)
    /\ loading' = [loading EXCEPT ![p][parcel.key] =
          [loaded |-> TRUE, candidate |-> Thing(p).candidate,
           changed |-> @.changed \/ Candidate(p, parcel.key) # Thing(p).candidate]]
    /\ DropThing(p)
    /\ Goto(p, "items")
    /\ UNCHANGED <<plan, db, current, class, commits, command, failed, tx, began>>

\* The loader raises: the run's own row is rolled back with the others, and the
\* failure that is recorded next cannot be written without it.
LoadRaises(p) == Running(p, "load") /\ Raise(p)

\* discover(), parse() or normalize() raises.
ExecuteRaises(p) ==
    /\ pc[p] \in {"items", "load"} /\ writes[p] = <<>>
    /\ FailRun(p)
    /\ NoFlush
    /\ UNCHANGED <<plan, db, current, class, commits, command, tx, loading, began>>

\* _finish_run: the run's row and the health of its connector.
FinishRun(p) ==
    /\ Running(p, "items") /\ todo[p] = <<>>
    /\ Flush(p, <<Update(Connector(Now(p).slug)),
                  Insert(Run(Now(p).slug, IF failed[p] THEN "failed" ELSE "success", p))>>)
    /\ Goto(p, "commit")
    /\ UNCHANGED <<plan, db, current, class, commits, command, failed, todo, tx, loading,
                   began>>

-----------------------------------------------------------------------------
(* build_sites, and the scoring of all sites                               *)

\* find_candidate_parcels, read once; their sizes are left out, so the order is any.
StartPass(p) ==
    /\ Begins(p, "build")
    /\ \E order \in SetToSeqs({x \in ParcelIds : class[x].candidate}) :
          todo' = [todo EXCEPT ![p] = order]
    /\ Goto(p, "build")
    /\ NoFlush
    /\ UNCHANGED <<plan, db, current, class, commits, command, failed, tx, loading>>

SitesOf(p, x) == {s \in Found(p, "sites") : s.parcel = x}

\* _upsert_site_for_cluster finds a site, whose boundary is then refreshed.
FindSite(p) ==
    /\ Running(p, "build") /\ todo[p] # <<>>
    /\ \E s \in SitesOf(p, Thing(p)) : Flush(p, <<Update(s)>>)
    /\ DropThing(p)
    /\ UNCHANGED <<plan, db, current, class, commits, pc, command, failed, tx, loading,
                   began>>

\* It finds none: a new one is to be made.
NeedSite(p) ==
    /\ Running(p, "build") /\ todo[p] # <<>>
    /\ SitesOf(p, Thing(p)) = {}
    /\ Goto(p, "code")
    /\ NoFlush
    /\ UNCHANGED <<plan, db, current, class, commits, command, failed, todo, tx, loading,
                   began>>

\* generate_project_code: the highest number plus one, read before it is written.
MintSite(p) ==
    LET highest == Highest({s.key : s \in Found(p, "sites")}) IN
    /\ Running(p, "code")
    /\ Flush(p, <<Insert(Site(highest + 1, Thing(p), p))>>)
    /\ DropThing(p)
    /\ Goto(p, "build")
    /\ UNCHANGED <<plan, db, current, class, commits, command, failed, tx, loading, began>>

\* score: all sites, read once, in no particular order.
StartScoring(p) ==
    /\ Begins(p, "score")
    /\ \E order \in SetToSeqs(Found(p, "sites")) : todo' = [todo EXCEPT ![p] = order]
    /\ Goto(p, "score")
    /\ NoFlush
    /\ UNCHANGED <<plan, db, current, class, commits, command, failed, tx, loading>>

\* recalculate_site: a prediction, and the site's stage and time of scoring.
ScoreSite(p) ==
    /\ Running(p, "score") /\ todo[p] # <<>>
    /\ Flush(p, <<Update(Thing(p)), Insert(Prediction(Thing(p).key, p))>>)
    /\ DropThing(p)
    /\ UNCHANGED <<plan, db, current, class, commits, pc, command, failed, tx, loading,
                   began>>

-----------------------------------------------------------------------------
Step(p) ==
    \/ Write(p) \/ WriteFails(p) \/ DeadlockDetected(p) \/ Commit(p) \/ Done(p)
    \/ SyncRegistry(p)
    \/ SourceIsMissing(p) \/ StartRun(p) \/ FindDocument(p) \/ KeepVersion(p) \/ AddVersion(p)
    \/ PutRaises(p) \/ SignatureChanges(p)
    \/ LoadParcel(p) \/ LoadRaises(p) \/ ExecuteRaises(p) \/ FinishRun(p)
    \/ StartPass(p) \/ FindSite(p) \/ NeedSite(p) \/ MintSite(p)
    \/ StartScoring(p) \/ ScoreSite(p)

Next == (\E p \in Programs : Step(p)) \/ (\E p \in Mortal : Kill(p))

\* A program that can go on does; nobody has to be killed.
Fairness == \A p \in Programs : WF_vars(Step(p))

Spec == Init /\ [][Next]_vars /\ Fairness

-----------------------------------------------------------------------------
(* Properties                                                              *)

\* Several runs may store versions of one document: its versions are numbered
\* from 1 on without a gap or a double, and the current one is the last
\* (_store_document, document_version_number_unique).
VersionsAreCounted ==
    \A d \in DocumentIds :
        LET versions == {v \in Table(db, "versions") : v.document = d}
        IN  /\ {v.number : v \in versions} = 1 .. Cardinality(versions)
            /\ current[d] = Cardinality(versions)

\* Two organizations of one normalized name, and two sites of one parcel, were
\* created by transactions that overlapped: whoever begins after the first was
\* committed finds it (get_or_create_organization, _upsert_site_for_cluster).
DoublesOverlapped ==
    \A a, b \in Table(db, "organizations") \cup Table(db, "sites") :
        /\ a # b
        /\ \/ a.table = "organizations" /\ b.table = "organizations" /\ a.key = b.key
           \/ a.table = "sites" /\ b.table = "sites" /\ a.parcel = b.parcel
        => a.from < b.to /\ b.from < a.to

\* When the bootstrap says Done, the connectors it depends on have succeeded, and
\* every parcel it has loaded as a candidate has a site that it has scored, unless
\* another program has classified the parcel otherwise since: whatever failed and
\* whoever worked beside it (bootstrap, _ingest_live, find_candidate_parcels).
DoneIsWhole ==
    \A p \in Programs : pc[p] = "done" =>
        /\ \A i \in DOMAIN plan[p] :
              LET c == plan[p][i]
              IN  c.kind = "ingest" /\ c.tolerates = "nothing" => Run(c.slug, "success", p) \in db
        /\ (\A i \in DOMAIN plan[p] : plan[p][i].tolerates # "anything") =>
              \A x \in ParcelIds : class[x].candidate /\ p \in class[x].by =>
                 \E s \in Table(db, "sites") : s.parcel = x /\ Prediction(s.key, p) \in db

\* Every program comes to an end, though sessions wait for each other's rows
\* and keys, in circles too (session_scope, get_session).
EveryProgramEnds == \A p \in Programs : <>(pc[p] \in Over)
=============================================================================
