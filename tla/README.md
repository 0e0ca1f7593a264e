# Helios, specified in TLA+

Helios (US Data Center Observatory) collects public records about data centers,
archives every document it has fetched, turns the records into evidence, groups
parcels into sites and scores the sites. This directory specifies the parts of
it where order, failure and concurrency decide what is stored, checks them with
TLC on small instances and proves the central facts with TLAPS for every
instance. `PROJECT.json` lists components, runs, mutants, hazards and the lines
each definition was translated from.

## The system

| component | code | state it keeps | operations |
|---|---|---|---|
| evidence store | `helios_common/evidence_store.py` | content-addressed files with a sidecar, or S3 objects | `put`, `get`, `exists`, `verify` |
| HTTP client | `helios_connectors/http.py` | next slot per host, statistics | `acquire`, `request` with retries |
| connectors | `helios_connectors/*.py` | none | `discover`, `fetch`, `parse`, `normalize`, `validate` |
| ingestion pipeline | `helios_connectors/pipeline.py` | one database transaction a run | `run`: documents, versions, failures, drift, run rows |
| loaders | `helios_connectors/loaders.py` | parcels, permits, organizations, evidence | upsert by natural key |
| site builder | `helios_geospatial/site_builder.py` | sites, links, rollups | cluster, upsert, link, refresh |
| scoring | `helios_scoring/*.py` | stage, history, predictions, estimates, model row | `recalculate_site`, `run_backtest` |
| API, CLI | `apps/api`, `apps/worker` | sessions and their commits | routes and commands that call the above |
| registry sync | `helios_connectors/sync.py` | source and connector rows | `sync_registry` |
| observatory | `scripts/observatory/*.py` | CSV and JSON files, a response cache, a poll log | fetch, merge, build series, allocate |
| web application | `apps/web` | none | shows exported files |

The CLI and the thread pool of the API call the same services, each call in a
session of its own; they meet in the PostgreSQL database (READ COMMITTED) and in
the evidence archive, which no database transaction covers. The observatory's
scripts are a pipeline of processes that talk through files.

Who calls whom: `Worker`'s programs are the callers whose runs, passes and scorings
`IngestionPipeline`, `SiteBuilder` and `SiteScoring` look into, one at a time or, for
scoring, several at once; a run drives a connector (`SourceReading`), which drives the
client (`HttpClient`), and archives through `put` (`EvidenceStore`). The observatory
shares nothing with them.

What is hard about each part, and what makes it correct:

* **Evidence store.** Several writers of one content, a kill between any two
  file-system calls, requests that fail after they have acted. What was once
  readable stays readable and unchanged; nothing truncated is ever published;
  what `put` returned can be read.
* **Ingestion.** A run is one long transaction with failures of many kinds in the
  middle, in a session that flushes late; the archive is written inside it but
  survives it. Versions and evidence form an append-only ledger; every citation
  leads to archived bytes; counters, failure rows and rows agree; drift of a
  source's format is never silent.
* **Scoring.** Recalculations overlap, see evidence that arrives and moves, and
  wait for each other's rows. The history of a site can be replayed and ends in
  its current stage; predictions, estimates and stage agree; a backtest touches
  nothing that is live; a stage falls only when evidence is gone; nobody waits for
  ever.
* **Sites.** Repeated passes over a changing parcel set, while ingestion goes on, in
  which clusters merge and split and sites do not. Clusters are connected components
  whatever the order of the pairs; no parcel founds two sites; a repeated pass
  creates nothing; evidence goes where its parcel is, to a site that is still built;
  what a site says of its evidence is what it has.
* **HTTP client.** Slots that are reserved before the sleep, sleeps that end late,
  retries and backoffs in slots of their own, redirects in none. The slots keep the
  declared rate, a slot carries one request and its redirects, and every request comes
  to an end.
* **Connectors.** A reading takes many requests while the source moves: pages shift,
  orders have ties, counts are missing, walks stop at a ceiling. A row that was there
  all the time is read once or its absence is explained; names that are withheld are
  withheld everywhere; an area has one figure.
* **Worker.** Commands and admin requests are transactions at READ COMMITTED that
  look something up, wait, and write what they found missing. Version numbers stay
  gapless; doubles come from overlap only; what the bootstrap reports as done is
  whole, though others classify its parcels anew meanwhile; everybody comes to an end.
* **Observatory.** Interrupted, budgeted fetches merged into an event log over a map
  that moves; stages that fail or die while the ones after them run on older files;
  caches and a marker that do not survive a checkout. The history has no gaps and
  keeps what it recorded, the published figures agree with each other, a rebuild
  changes nothing, the backfill completes once the extract stands still.

The hazards are listed in `PROJECT.json`, each at its line.

## Modules

| module | what it is |
|---|---|
| `ImmutableStore` | what an evidence store promises: a key that holds bytes holds those bytes for ever |
| `EvidenceStore` | `FilesystemEvidenceStore.put` at the grain of its system calls |
| `S3EvidenceStore` | `S3EvidenceStore.put` as its head and put requests |
| `EvidenceLedger` | what ingestion promises: versions without gaps or repetitions, evidence for new versions only, nothing taken back |
| `IngestionPipeline` | `IngestionPipeline.run`, the loaders' effect on the transaction, the callers' `session_scope` |
| `SiteScoring` | `recalculate_site` and `run_backtest` with the transactions of their callers |
| `SiteBuilder` | `build_sites`, pass after pass, between and during which ingestion loads parcels and permits |
| `HttpClient` | `RateLimiter.acquire` and `PoliteHttpClient.request` on one host |
| `SourceRows` | what each connector's `normalize` makes of one row, and the policy on owner names |
| `SourceReading` | `discover`, `fetch`, `parse`, `normalize` of every connector over `HttpClient`, on a source that moves |
| `Worker` | bootstrap and admin requests as overlapping transactions of one database |
| `RegionTables` | the tables the observatory derives: classes, regions, allocation, series, grid totals |
| `Observatory` | the stages of a poll, its caches and files, over an OpenStreetMap that is edited |
| `MC...` | constants of the instances TLC runs |
| `...Proofs` | theorems about the module of that name |

### EvidenceStore

A name (`path`, `partial`) is bound to an inode and an open file keeps its inode
when the name moves; this decides which bytes a rename publishes. `PutAbsent` and
`PutExisting` are the look at the key, `OpenPartial`, `WritePartial`, `Publish` (or
`PublishMissing`, the rename that finds no sibling) and `WriteSidecar` the calls
after it, `Crash` a kill between any two. A payload stands for its digest: SHA-256
is taken to be free of collisions. A file opened for writing is `Truncated` until
it is written; a partial write is not told apart from none.

### S3EvidenceStore

`HeadFinds`/`HeadRaises` and `PutObject`/`PutObjectRaises`. A head request may raise
for an object that exists, a put request may raise after it has acted.

### IngestionPipeline

`db` holds the committed rows, `tx` the rows as the run's transaction sees them and
`store` the archive. One action is one step of `_execute`: `Discover`, `FetchFails`,
`FetchAndStore` (fetch, `put`, document and version rows), `Parse`, then one action a
record (`LoadCited` for parcels and permits, `LoadPlain` for the loaders that neither
flush nor create evidence, `RejectInvalid`, `LoadRaises`), `FinalFlush`, `FinishRun`.
The session has `autoflush=False`, so a plain row that repeats a key is not noticed
until something flushes: `doomed` says that the next flush violates a constraint.
`LoadRaises` calls `rollback()`, which throws away everything since the session was
opened. `Kill` ends the process anywhere, `FixParser` deploys a better parser
between two runs. The contents a fetch may return, their records and signatures are
constants; a source may return any of them at any time. `ParsedAtFirst` are the contents
that need no such fix.

### SiteScoring

`scorer[p]` is what a process's session holds: the sites it is to score, the stage it
loaded for each (`seen`), results, rows it has deleted. The actions follow
`recalculate_site`: `get_or_create_model_version`, `InsertModel`, `Score` (load the
evidence by cutoff, which contributions count, the stage they imply),
`DeleteEstimates` and `EstimatesDeleted` (a DELETE takes a snapshot and then waits for
row locks), `Flush` (the Site row's lock), `Commit`. `DeadlockDetected` is the
database choosing a victim, `Fail` a lost process. `Attach` is the site builder that
gives a record to a site, `Midnight` the date. Abstractions: confidences
are stored but no other row depends on them, and are left out, records have a positive
confidence; the rule sets of all releases imply the same stages; the acreage of a
site does not change; a backtest has one case a site; of one kind only the newest
records count (`MaxOccurrences`), those of one day together. `overlapped` is a
history variable, no part of the code: it remembers whether two sessions were ever
open at once.

### SiteBuilder

`db` holds what passes have committed, `tx` the same as the running pass sees it
(`Analysis`: sites, links, the `site_id` of evidence and of permits, dependencies);
`parcels`, `permits` and `evidence` are what ingestion commits, which a pass sees at
once. `BeginPass` reads the candidates (`rows`), each `UniteRow` takes one pair of
the adjacency query in any order, `Cluster` reads the components off the forest.
Then, one cluster at a time in the order of the candidates, `UpdateSite` or
`CreateSite` (site and links), `AttachEvidence`, `link_infrastructure`; `Rollup` and
`Commit` end the pass, `Abort` loses it. `Root` and `Halved` are what `find` returns
and what it does to the forest. `LIMIT 1` without an order takes any site.
Abstractions: project codes, kinds, acreage and dates of a site are left out; the
steps that attach evidence and permits of one cluster are one action; the
geometry is constant, so `Adjacent`, `Nearby` and `Distance` are constants, every
parcel has a polygon, and a permit that takes its parcel's centroid for want of a
point is left out; substations have a document to cite; an item is an evidence
record that may be created once. `quiet`, `settled`, `repeated` and `together` are
history variables, and `built` is the pass's local list kept beyond its end.

### HttpClient

Time is counted in ticks relative to now: `due` is the reserved next slot, `sleep`
what is left of `time.sleep`, `late` how long a slot has been there unused. `Request`,
`Retry` reserve (`Acquire`), `Send` uses the slot, `Redirect` follows a redirect to the
same host (`follow_redirects=True`: another request, at once, up to httpx's
`max_redirects`), `BackOff` waits for a delay or a `Retry-After` value, `Raise` and
`Succeed` return; a `Retry-After` that `time.sleep` refuses, less than 0 or NaN, is a
`Raise`. `credit` is a history variable: a token bucket that gains `PerSlot` a tick and
pays `Interval` a request, so that `credit >= 0` says that no window of any length holds
more requests than `PerSlot` of a slot. With redirects that is true of `PerSlot = 1 +
MaxRedirects` and not of 1. A redirect to another host is no request to this one.
`MaxOver` bounds how late a slot is used. The code keeps a limiter per client
and a client per connector, so one host and one request at a time is what there is.

### SourceRows and SourceReading

A row is what decides its fate: which cells it has, on which days; a name is the set
of markers found in it. `outcome` is what the last row became, with the names it
spells out. `SourceReading` gives each connector its own paging: the assessor's pages
are discovered by walking offsets and fetched again (`DiscoverPage`, `FetchPage`),
Mesa pages in an order with ties (`FetchPermits`), ECHO announces a count and a query
id and pages by number (`StartQuery`, `FetchFacilities`), workbooks, fixtures and the
rest are one request or none. `Appear` and `Vanish` change the source between any two
requests. `errors` is what a run's summary gets to know, `warnings` what stays in the
document. `always` and `moved` are history variables. Abstractions: ECHO's city mode
is its query once per city; a live fetch that the settings refuse is left out; columns
that decide nothing are left out. `RowData` holds combinations of cells a source can
deliver; `normalize` is applied to any of them.

### Worker

A row is a record with its table; `Keys` are what the database keeps unique or locks.
A command is a sequence of steps that read `Visible` rows and hand rows to `Flush`;
`Write` then takes them one at a time, waits while another transaction has touched the
same key (`Free`), raises when a key has been committed meanwhile (`WriteFails`), and
`DeadlockDetected` ends a circle. `Commit` makes the rows visible and decides whether
the program goes on (`GoesOn`, after `typer.Exit`), `Raise` is any other exception,
`Kill` a killed process. `from` and `to` of organizations and sites, and `by` of a row, are
history. A run handles one record a document, a site has one parcel, adjacency is left out:
the modules above have the rest.

What `find_candidate_parcels` looks at (land use, acreage, an owner that is an
organization, the city) is one boolean of a parcel: `class` has it as committed, with who
has loaded it as such (history), `loading` as a transaction makes it. A run may set it
either way. An UPDATE names only the columns that differ from what its session read, so a
run that found a parcel as it wants it changes nothing, whatever has been committed in
between (`LoadParcel`, `Commit`). `StartPass` takes the candidates in any order instead of
the largest first. `DoneIsWhole` therefore speaks of the parcels the bootstrap has loaded
as candidates and that are candidates still. `SyncRegistry` updates the rows that exist
only where the registry was revised, `PutRaises` leaves a document without the version,
`SignatureChanges` makes the connector's row part of the next flush.

### RegionTables and Observatory

`edits` is the edit history upstream, of which an extract shows an edit at most
`Lateness` days late. One action is one stage of `poll.py`: `FetchSnapshot`,
`FetchGrid`, `FetchHistory`, `AssignRegions`, `AssignGridRegions`, `BuildSeriesStage`,
`AllocatePower`, `BuildSiteData`, then `FinishPoll` (the log row and `ExitStatus`).
`FetchHistory` takes any set of tiles the budget lets it read, keeps the whole window or the
tail by `marker`, and merges by `EventKey`. A new extract (`NewDay`, on the same day or the
next) makes every cached tile useless, because its end is in the key
(`fetch_osm_history.py:205`); the days are bounded, the extracts are not.

`StageDies` is a death before, between or inside a stage's writes: `HistoryCutShort` (a
prefix of `events.csv` in the order it is written, or all of it, with or without the
marker, with tiles missing too), `AssignmentCutShort` (`facilities` new, `events` a
prefix), `GridCutShort` (`grid.csv` new, `grid_regions.csv` old), `SiteCutShort` (some of
the site's files new; the series files count as one). The poll takes it for a failure of
the stage, or dies as well. A death after the last write differs from success only in
what is reported: an exit status, and of the history the NOTE that names the tiles it was
written without (line 472). `skipped` is a history variable: these tiles, told or not, so
`HistoryHasNoGaps` says nothing of them. `FreshCheckout` empties the caches and the marker.

`SiteOf` is what is published: grid totals only for regions that have a facility
(`build_site_data.py:264-271`), the newest `MaxChanges` additions and removals (500,
326-330), series files of regions that have a series, with files of other regions left as
they were. Assumptions: the budget always allows one tile; CSV files other than
`events.csv`, and each published file, are written whole; a stage reads upstream at one
moment; contributions of no usable kind, which up to a quarter are skipped
(`fetch_osm_history.py:241-269`, 316-329), are left out; polygons and the point-in-county
test are the constant `CountyOf`.

## What TLC checks

| run | shows |
|---|---|
| `store_solo` | one writer at a time, killed up to three times anywhere, two payloads, three MIME types of two extensions: the archive implements `ImmutableStore` |
| `store_shared` | three writers of one content, nobody killed: an unverifiable file is one somebody is about to write, a rename that fails has been done by another, every published file is readable in the end |
| `store_crash_race` | violation: two writers and one kill publish a truncated file for good |
| `s3_store` | two writers, failing requests: what `put` returned is readable, readers see an immutable store |
| `ingest` | two runs, two documents with three contents in any order (A, B, A inside and across runs), raising, refused and repeated records, failing fetches, kills, a parser fix: counters, rows and failures add up, versions and citations form the ledger, drift is never silent |
| `ingest_bad_row` | violation: one record whose loader raises costs the whole run and its run row |
| `scoring_overlap` | two processes, two sites, a deal and a later permit that move between them, live scores and backtests |
| `scoring_ends` | two releases, circular waits: every recalculation ends |
| `site_passes` | three passes, each of which may be lost, four parcels and two owners, one record loaded between or during passes: clusters, sites, claimed evidence, permits, infrastructure, rollups |
| `reading` | ten connectors, up to three or four rows, two moves of the source during a reading, retries and late wake-ups: rows, names, area totals, two requests of a slot (one redirect), and that a reading ends |
| `worker` | a bootstrap beside an admin client (sync and run, which may classify a parcel anew, pass, or scoring), and two clients that run one connector: versions, doubles, what Done means, and that everybody ends |
| `observatory` | polls over three days, four elements in two tiles, four edits, one mishap, and an extract that may change between any two polls: published figures, history, rebuilds, and that the backfill completes once extracts stand still |

**Bounds.** The races need two actors; `store_shared` has three writers because the
third can open the sibling between the other two's open and rename. Two ingestion runs
with a discovery that lists a document twice give A, B, A. Two recalculations, one a
process, are enough for a stage to rise and fall, for estimates to be replaced and for
rules to change. Days, runs, jobs and crashes are bounded by constants in the guards
(`MaxDay`, `MaxRuns`, `MaxJobs`, `MaxCrashes`, `MaxPasses`, `MaxLoads`, `MaxMoves`,
`MaxEdits`, `MaxMishaps`); `Plans` and `Mortal` bound `Worker`. Four parcels in a star
let a cluster of three fall apart into two that belong to one site, and two clusters
grow together; three passes are one that builds, one that meets the change and one that
repeats it. A page of one row and a source of three make every boundary between two
pages a place where a row can come or go, and the fourth row is beyond both ceilings;
the two rows Mesa does not tell apart and the two of one ECHO registry are among them.
Three contents of one document let two programs each store a version the other has not
seen. Three days are the window's first day, a day on which the tail may miss a late
edit, and one on which it must not; a mishap is one death, failed fetch or fresh
checkout. Where a run says `CHECK_DEADLOCK FALSE` the model stops because these are used
up.

**Fairness.** `store_shared`: a writer inside `put` keeps being executed (nobody is
killed there). `scoring_ends`: the steps of each session, the database's deadlock
detection among them. `reading`: the process runs, time passes and a request is answered
or times out (the client sets a timeout). `worker`: each program goes on when it can,
deadlock detection included; an unhandled exception closes its session. `observatory`: a
stage that runs comes to an end, a poll that runs goes on, and the scheduled command is
run again and again with its history stage (strong, since a poll can only start when
none runs). Starting work otherwise, midnight, new evidence, edits, kills and
deployments are never assumed. `BackfillCompletes` assumes that from some time on no
newer extract comes out and nothing fails, and that the snapshot shows what is mapped
and upstream has an edit every extract shows, because a backfill asks for the tiles that
hold something and writes nothing without events. Without the first of these the code
does not keep the promise (see below).

Type invariants that are proved are not run again by TLC; those of `SiteBuilder`,
`Observatory` and `SourceReading` stand in their modules as the description of the
state.

**Disagreements with comments and docstrings.** Two are findings with a run of their
own. Others that were met while modelling and follow from the same models; the first five
are the ones a property had to make room for:

* Redirects are followed by httpx (`http.py:176`), so a hop is a request that no `acquire()`
  has waited for: the "per-host token-bucket rate limit" (`http.py:10`) is one of attempts.
  With one redirect, `RateIsKept` fails for `PerSlot = 1` in the instance of `reading`.
* A backfill resumes only on the extract it was begun on: the extract's end is in the cache
  key (`fetch_osm_history.py:205`), although the stage "caches per tile and resumes"
  (`poll.py:24-25`, `fetch_osm_history.py:415-416`). If every budgeted run meets a newer
  extract it never completes, although nothing fails; hence the condition of
  `BackfillCompletes`.
* `assign_grid_regions.py` writes `grid.csv` (175) before it builds `grid_regions.csv`
  (180). A death in between leaves the totals of one layer beside the assets of another,
  and since the stage is tolerated the poll publishes both and exits 0, where
  `poll.py:50-51` says that the grid stages "leave the previous layer in place".
  `RebuildChangesNothing` and `PublishedAgrees` except a poll in which this stage
  failed.
* A count can fall below zero (`build_series.py:100`): the elements created in the window
  are a set that does not know when, so a removal before the first creation is subtracted
  too, although "a removal only counts when the matching creation was also observed"
  (95-99). A facility mapped before the window, removed inside it and mapped again counts
  -1 in between. The counts of county, state and nation add up all the same.
* The version row is committed although the parse fails, so a replay after a parser fix
  finds identical bytes and loads every record with `create_evidence=False`
  (`pipeline.py:240`); `models.py:244-245` keeps failures so that they "can be replayed
  after a fix". `LoadedIsCited` states the rule the code follows.

* A transition is dated by the earliest positive contribution, that of an earlier stage
  included (`service.py:360`, docstring 357-358).
* Links are never removed: when a parcel is sold between two passes, the new owner's
  parcels join the site that keeps the old owner's (`site_builder.py:308`, docstring
  18-19, `docs/methodology.md:50`). `ClustersAreComponents` is about one pass.

* A kill between the rename and the sidecar leaves a document no later `put`
  describes (`evidence_store.py:232`, docstring 159-161); `PublishedHasSidecar` holds
  only while nobody is killed.
* The S3 backend does issue a put for an existing key, after a race or a head
  request that raised for any reason (404, docstring 306-308). It also passes
  `ChecksumSHA256=None` (367).
* A document that returns to an earlier content keeps pointing at the version in
  between (`pipeline.py:290`, docstring 266-267).
* Overlapping recalculations record transitions that start from a stage the site
  had left, and leave its estimates twice (`service.py:268`, 287); the properties
  that forbid it hold only `~ overlapped`. `analytics.py:525` sums such rows.
* `calibration_notes` is replaced, not extended: after a second change of the rules
  under one version nothing tells which rules earlier predictions used (109).
* Evidence a reviewer has rejected keeps counting, and contradicting evidence never
  lowers a stage, although `docs/methodology.md` says stages can be downgraded when
  evidence is contradicted: `DowngradeHasLostEvidence` states what the code does.
* A site that a pass does not build, or that has lost all its evidence, keeps the
  counter and dates of evidence it no longer has (`site_builder.py:457`), where
  `test_evidence_count_matches_attached_evidence_for_every_site` asks for equality
  for every site; `StaleRollupIsExplained` says when it may differ.
* Of several sites in range, the one built last, not the nearest, gets a permit
  (comment at `site_builder.py:296-298`): the order is that of the parcels' size. A
  permit at the address of one site's parcel may take its evidence away from that
  site, and `permit.site_id` and its evidence may name two different sites.
* `MAX_DEPENDENCIES_PER_KIND` caps a search, not a site: rows of earlier passes stay
  while the boundary grows. A row keeps the distance and the blocking flag of its
  first day, and a substation that becomes the nearest later earns no evidence.
* Two sites can both hold parcels of one cluster after a merge; which of them is
  taken is not determined, so a repeated pass may link more parcels.
* A permit that is loaded again loses the address match of the earlier load
  (`loaders.py:438`).
* Worker: a fetch or discovery error leaves the run's status "success", so ECHO's 429,
  the failure the bootstrap tolerates, never becomes the `typer.Exit` it waits for, and
  a failed assessor fetch does not stop it. A loader's exception or an
  `IntegrityError` leaves `run()` as another exception and ends the bootstrap even at a
  tolerated connector.
* Worker: two passes that overlap can found two sites on one parcel, when their codes
  differ; two runs can create one organization twice (`loaders.py:97`), after which
  adjacent parcels of one owner count as unrelated.
* Observatory: `poll.py` publishes the site before it writes the log row, so a
  published `last_polled` is that of the poll before (compare `ci.yml:185-224`,
  `README.md:115-118`); the row is also written when the fetch failed or was skipped.
* Observatory: a Canadian facility stays on the map after a poll that died between two of
  `assign_regions`' files. A run that dies after it has written the history and before
  line 472 never names the tiles it left out. The file of a region that has no series any
  more stays on the site.
* Observatory: the snapshot's cache key has no date, and an empty or throttled answer
  is cached like any other.
* Reading: ECHO's note on a short read goes to the document's warnings, which the
  pipeline does not read, although
  `tests/contract/test_epa_echo_connector.py:217-218` asks for it in the run's summary.
  Without a count or a query id it stops early in silence.
* Reading: the assessor's pages shift when rows come or go; Mesa's order has ties and
  its row limit is silent; a fixture that cannot be read is only logged; an agenda is
  dated by the day of the reading; the newest year replaces a requested year that is
  absent. `MayMissInSilence` lists these cases.
* Reading: `configure_host` is never called, so every source is read at the default
  rate; limiters are per client, so the rate holds per connector; raw payloads keep the
  names that records withhold.

## What TLAPS proves

All theorems hold for every value of the constants that satisfies the named
assumption of the module; the proofs use nothing else.

* **EvidenceStoreProofs.** `FilesInv` is the inductive invariant: an open file is
  the sibling it was opened as or a published key, no inode has two names, and a
  file holds the bytes of its own key. From it: types; that a published file that
  does not verify is still open in a writer about to write it (`UnverifiedBeingWritten`,
  assuming `MaxCrashes = 0`); that a failed rename has been done by somebody
  (`FailedRenamePublished`); and, assuming at most one writer, that what is published
  verifies through any number of kills and that the store implements
  `ImmutableStore` (`SoloRefinement`).
* **S3EvidenceStoreProofs.** What `put` returned is readable, and the store implements
  `ImmutableStore`, for any writers and failures: the key decides the bytes, so a
  repeated put writes what is there.
* **IngestionPipelineProofs.** `PipelineInv` says of both `db` and `tx` that document
  rows point at the end of a gapless history and that citations lead to archived
  bytes, and that `tx` extends `db`; the last part is needed because a commit
  publishes `tx`. From it: types, `CurrentIsLatest`, `CitedBytesAreArchived`, and that
  ingestion implements `EvidenceLedger`. `AccountsInv` adds, while a run is under way,
  that its transaction touches the rows of no other run and that what it has counted
  balances with what is stored, failed and still to do, wherever it is; the accounts of
  a run (`RunsAccounted`) and drift (`DriftNeverSilent`) follow. `LoadInv` says of the
  item in hand which citations are still owed; hence `LoadedCited`.
* **SiteScoringProofs.** `TypeInv` strengthens the types with what a session's step
  says of it. A site's stage is the end of its history however sessions overlap
  (`LastTransition`). `SerialInv` adds that at most one session is open and that what
  it loaded is still what the database holds, as long as none ever overlapped; this
  makes the history a chain (`SerialHistory`). `JustifiedInv` says that every stage a
  session has seen or a row names was reached by a recorded transition whose evidence
  explains it (`DowngradesLoseEvidence`); `DeletedInv` that a session only deletes the
  estimates of sites whose new ones it commits with the deletion (`LatestEstimated`);
  `AgreeInv` what an undisturbed session leaves (`SerialScores`). `LiveScoresMove` is
  an action property, proved from `TypeInv`.
* **SiteBuilderProofs.** `IInv` says of both `db` and `tx` that every site is linked
  to its own anchor and no other site has it, and that a parcel's evidence is
  attached to a linked site; of the pass, that the cluster it builds is linked before
  evidence is attached (`Linked`) and that ingestion cites a parcel's own row
  (`Subjects`). A site is created only for a cluster that no link reaches, and links
  only grow, hence `OneSitePerAnchor` and `ParcelEvidenceStaysWithItsParcel`.
  `PassInv` follows an undisturbed pass: which parcels have a site by now, whose
  evidence is claimed, which sites are served, with the site in hand excepted until its
  turn (`Claiming`, `Serving`, `Unclaimed`); at the commit nothing is excepted, so what
  is committed is `Complete` and stays so until something is loaded. From it:
  `RepeatedPassIsIdle`, `RollupsAreExplained`, `SitesAreLinked`. `FoundInv` is about
  union-find: the forest has a rank that falls towards the roots (so `Root`, a recursive
  function, has a value), rows that were looked at are united, and no tree crosses a
  set that is closed under the relation; hence `ClusteringIsExact`. Induction over the
  rank goes through the least natural number of a set (`RankInduction`), because the
  library's induction theorems cannot be instantiated.
* **SourceReadingProofs.** `RateInv` relates the bucket to the reservation: while a slot
  is reserved and unused, credit and wait together pay for two slots of `PerSlot` requests,
  otherwise for one, and while an attempt is under way the requests it has sent are taken
  off. Hence `RateKept`: whenever `PerSlot` exceeds `MaxRedirects`, for every interval,
  lateness, retry limit and set of delays. The declared rate, `PerSlot = 1`, is kept where
  nothing is redirected. Every
  step of a reading is a step of its client or leaves it alone (`ReadingIsClient`), so
  the rate holds of a whole reading (`ReadingKeepsRate`). With redaction on, no record
  spells out a personal name (`NamesStayOut`): the shell indicators, which do quote a
  name, are only looked for in the branch of corporate forms, and everything else passes
  `StorableName`. `ReadInv` is about the rows. It speaks of the place of a row among
  those its source holds (`Place`), because a page is a range of places and a row that
  comes or goes shifts the places behind it: the assessor's items are offsets a page
  apart that cover the places up to the last, and what has been read lies before the
  first of them; what Mesa has merged are the places up to its offset, for the rows
  whose day no other row shares; what ECHO delivers comes from the kept result, so that
  as many different registries as the result has rows are all of it (`CoveredResult`).
  Each of these holds only as long as nothing has come, or nothing has gone, and
  `ReadInv` says which; hence `NothingLostUnsaid`. `StatesCountedOnce` adds that the
  rows kept of a table are roll-ups of one year. The proofs need that a source holds
  finitely many rows, and `RollUpsAreUnique`: that a published table has one roll-up
  of a state and a year, which the parsers take for granted.
* **WorkerProofs.** Every action is one of four kinds of step: a flush hands rows over,
  a row is written, a transaction is undone, a transaction is committed
  (`StepsOfPrograms`, under `SessionInv`: a program between two commands has no
  transaction). `OverlapInv` says of each open transaction that none of its owners and
  sites doubles another of its own, and that a committed row it doubles was committed
  after it began; hence `DoublesNeedOverlap`. `CountInv` says that no two open
  transactions hold a key in common, that the versions a transaction has made of a
  document follow the committed ones without a gap, that it then holds the document's
  row, and that a version it is about to write follows what it saw. The last is not
  enough by itself: the number may be taken by then, and it is the unique key
  (`Violates`) that keeps it out; hence `VersionsStayCounted`. `WholeInv` follows the
  bootstrap through its plan. It speaks of the parcels it has loaded as candidates and
  that are candidates still: such a parcel came from an earlier ingestion; once a build
  came after that one the parcel has a site, while a pass runs it is on the list or has
  one in sight, while a scoring runs one of its sites is on the list or has its
  prediction, and once a scoring came after a build it has one that is scored; a run's
  row says whether it failed, and the program went on only as its command tolerates.
  Hence `BootstrapIsWhole`. All three hold for any number of programs and any kills;
  `WorkerAssumption` asks for finitely many sources, because a sync writes them one
  after the other, and `BootstrapIsOrdered` for what `bootstrap` does: build after the
  last ingestion, then score.
* **ObservatoryProofs.** `HistoryInv` says of the recorded events that each one is an
  edit, recorded once; of a cached payload, that it misses no edit of its tile but the
  very latest; and that, once a backfill is complete, every edit that is old enough is
  recorded, unless some run wrote the history without its tile (`skipped`). A death while
  `events.csv` is written keeps this: what is left is a prefix by day (`Prefixes`), so the
  last recorded day falls with it, and the prefix that is the whole file is a run that
  succeeded. The day from which an update refetches is computed from the
  last recorded day, so the proof needs `LatenessIsCovered` (edits become visible no
  later than the overlap re-reads; the code's overlap exists for this) and
  `UpstreamIsTiled` (an element lies in one tile, and the first edits are of the first
  day). From it: `HistoryGapless` and the action property `RecordedKept`. `PollInv` says
  which tables are up to date given the stages a poll still has to run, and excepts those
  of a tolerated stage that failed; when none is left, a rebuild would write what is there
  but for these (`RebuildIsIdle`). The module begins with
  sums: the library's fold adds in an order nobody chose, so `SumSplits` shows, from the
  existence and uniqueness of the running totals, that any element may be taken out
  first, and `SumOfParts` that the parts of a partition add up to the whole. Each fold
  of the tables is such a sum, the placed rows are partitioned by county and by state
  (`RegionsAddUp`), and a region's count carried forward is the sum of its events until
  then, the quiet months included (`CountIsSum`). `FilesInv` adds that the files hold
  finitely many rows, one for each element or asset, so that the page and the series are
  made of files of one assignment; hence `PublishedInAgreement`, where the totals of a
  region's grid are claimed only if the grid was assigned in that poll, and an earliest
  date may be missing from the changes only if the list is full of newer ones. It needs
  `TheMapIsFinite`: finitely many elements and counties, areas that are numbers, and keys
  of counties, states and the nation that are told apart (in the code, by a prefix).

Every invariant and every action property that a passing run checks is stated by a
theorem. Only model-checked: the liveness properties, which need fairness and ENABLED.

## Not modelled

`PROJECT.json` gives the reason for each component. In short: read-only queries,
exports, layout and the web application; constant data (registry, ontology, region
catalogue, coefficients); pure text matching (addresses, units, the tokenizing of
names); the statistics of a backtest and the confidences of a score, which are
arithmetic over weights, stored but decisive for no other row; the workbook,
the basemap and the county boundaries of the observatory, which are prepared or laid
out once. `FetchBlocked`, `clear()` of the stores and a poll's `--refresh`, `--full` and
`--since` are not used by what is modelled.

Left to do, in this order:

1. The weights, decay, staleness and caps of `score_site`, backtest cases and impact
   estimates as operators over bounded inputs.
