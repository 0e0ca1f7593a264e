----------------------------- MODULE Observatory -----------------------------
(***************************************************************************)
(* The poll that refreshes the observatory: the files under                *)
(* data/observatory, the stages that fetch, place, derive and publish      *)
(* them, and the command that runs the stages in order and reports what    *)
(* moved (scripts/observatory/).  OpenStreetMap changes on its own; a      *)
(* fetch may fail, run out of its time budget or be served from the tile   *)
(* cache, and a stage, or the whole poll, may die while it writes a file.  *)
(*                                                                         *)
(* A stage reads upstream at one moment.  An element is edited at most     *)
(* once a day; an edit may become visible up to Lateness days late, as in  *)
(* the newest days of ohsome's extract.  A contribution carries a kind and *)
(* an identifier the fetch can read.                                       *)
(***************************************************************************)
EXTENDS RegionTables, Sequences

CONSTANTS
    Elements, Editable,   \* the elements tagged as a data centre, those that are edited
    Tiles, TileOf,        \* the history tiles and the one an element is in
    SnapshotTiles, SnapshotTileOf, \* the larger tiles of the snapshot
    EditKinds,            \* of "creation", "deletion" and "tag_change", those that are made
    OsmId,                \* element -> its identifier
    CountyOf,             \* element or asset -> the county its position is in
    InitiallyMapped,      \* mapped before the history window opens
    InitialEdits,         \* the edits of its first day
    Lateness, OverlapDays,
    NotCached, NoRow, NoPoll,
    MaxChanges,           \* how many changes the site lists, 500 in the code
    PollOptions,          \* the command lines of a poll, out of Options
    MaxDay, MaxEdits, MaxMishaps

ASSUME LatenessIsCovered == Lateness \in Nat /\ OverlapDays \in Nat /\ Lateness <= OverlapDays

\* --skip-fetch, --skip-grid, --skip-history and --history-budget.
Options ==
    {o \in [fetch : BOOLEAN, grid : BOOLEAN, history : BOOLEAN, budget : BOOLEAN] :
        (~o.fetch => ~o.grid /\ ~o.history) /\ (~o.history => ~o.budget)}

ASSUME PollsAreOptions == PollOptions \subseteq Options

HISTORY_START == 1

\* No file of the site is there yet.
NoSite ==
    [facilities |-> {}, weights |-> <<>>, grid |-> {}, regions |-> <<>>, grid_totals |-> <<>>,
     series |-> <<>>, changes |-> {}, history_end |-> 0, last_polled |-> 0]

\* The history tiles cover the country; what is mapped by then was edited on the first day.
ASSUME UpstreamIsTiled ==
    /\ TileOf \in [Elements -> Tiles]
    /\ Editable \subseteq Elements /\ EditKinds \subseteq {"creation", "deletion", "tag_change"}
    /\ InitialEdits \subseteq [id : Elements, day : {HISTORY_START},
                               kind : {"creation", "deletion", "tag_change"}]

\* There are finitely many elements, first edits, assets and counties; an outline's area is
\* a number, a position is in a county or in none, and the keys of the counties, the states
\* and the nation are told apart by their prefix.
ASSUME TheMapIsFinite ==
    /\ IsFiniteSet(Elements) /\ IsFiniteSet(InitialEdits)
    /\ IsFiniteSet(DOMAIN Assets) /\ IsFiniteSet(Counties)
    /\ Area \in [Elements -> Nat] /\ OsmId \in [Elements -> Nat] /\ MaxChanges \in Nat
    /\ \A e \in Elements \cup DOMAIN Assets : CountyOf[e] \in Counties \cup {NoCounty}
    /\ Counties \cap {StateOf[c] : c \in Counties} = {}
    /\ Nation \notin Counties \cup {StateOf[c] : c \in Counties} /\ NoCounty \notin Counties
    /\ DaysPerMonth \in Nat \ {0}

VARIABLES
    today,          \* the date, which is also the end of ohsome's extract
    edits,          \* upstream's edit history: [id, day, kind]
    snapshot_cache, \* tile -> the elements a fetch saw, or NotCached
    history_cache,  \* the cached payloads [tile, start, edits] that end today
    marker,         \* BACKFILL_COMPLETE exists
    facilities, events, regions, series,     \* the CSV files
    grid, grid_regions, poll_log,            \* poll_log: its last row, or NoRow
    site,           \* the published JSON
    poll,           \* the running command, or NoPoll
    skipped,        \* the tiles some run wrote a history without, whole or torn
    mishaps         \* failed fetches, deaths and fresh checkouts so far

upstream == <<today, edits>>
caches == <<snapshot_cache, history_cache, marker>>
placed == <<facilities, events, regions>>
layers == <<series, grid, grid_regions>>
published == <<poll_log, site>>
vars == <<upstream, caches, placed, layers, published, poll, skipped, mishaps>>

-----------------------------------------------------------------------------
(* OpenStreetMap.                                                          *)

Running(stage) == poll # NoPoll /\ poll.stages # <<>> /\ Head(poll.stages) = stage

EditsOf(e) == {x \in edits : x.id = e}
LastEdit(e) == Max({0} \cup {x.day : x \in EditsOf(e)})

Present(e) ==
    IF EditsOf(e) = {} THEN e \in InitiallyMapped
    ELSE (CHOOSE x \in EditsOf(e) : x.day = LastEdit(e)).kind # "deletion"

Mishap == mishaps < MaxMishaps /\ mishaps' = mishaps + 1

\* Only the fetches read upstream: it moves between polls and between two fetches.
UpstreamMoves == poll = NoPoll \/ Running("fetch_osm_history")

\* A contributor maps, edits or removes an element; the edit is visible at once or late.
Edit(e, kind, day) ==
    /\ UpstreamMoves
    /\ Cardinality(edits) < MaxEdits
    /\ day > LastEdit(e)
    /\ Present(e) <=> kind # "creation"
    /\ edits' = edits \cup {[id |-> e, day |-> day, kind |-> kind]}
    /\ UNCHANGED <<today, caches, placed, layers, published, poll, skipped, mishaps>>

\* A new extract, on the same day or the next: every cached history payload ends before
\* it and is never read again.  The days are bounded by MaxDay, the extracts are not.
NewDay ==
    /\ poll = NoPoll
    /\ today' \in {today, today + 1} /\ today' <= MaxDay
    /\ history_cache' = {}
    /\ UNCHANGED <<edits, snapshot_cache, marker, placed, layers, published, poll, skipped, mishaps>>

-----------------------------------------------------------------------------
(* poll.py: the stages in order.                                           *)

\* Mutant: the publishing stage is tolerated as well.
TolerateTheSite ==
    {"build_series", "fetch_osm_history", "fetch_grid", "assign_grid_regions", "build_site_data"}

TOLERATED_FAILURES ==
    {"build_series", "fetch_osm_history", "fetch_grid", "assign_grid_regions"}

FetchStages(options) ==
    <<"fetch_osm_snapshot">>
    \o (IF options.grid THEN <<"fetch_grid">> ELSE <<>>)
    \o (IF options.history THEN <<"fetch_osm_history">> ELSE <<>>)

OfflineStages ==
    <<"assign_regions", "assign_grid_regions", "build_series", "allocate_power", "build_site_data">>

StartPoll(options) ==
    /\ poll = NoPoll
    /\ poll' = [stages |-> (IF options.fetch THEN FetchStages(options) ELSE <<>>) \o OfflineStages,
                fetch |-> options.fetch, budget |-> options.budget,
                before |-> facilities # {}, failed |-> {}]
    /\ UNCHANGED <<upstream, caches, placed, layers, published, skipped, mishaps>>

StageSucceeds == poll' = [poll EXCEPT !.stages = Tail(@)]

\* A failure that is not tolerated abandons the stages that are left and fails the poll.
StageFails ==
    LET stage == Head(poll.stages)
    IN  poll' = [poll EXCEPT !.failed = @ \cup {stage},
                             !.stages = IF stage \in TOLERATED_FAILURES THEN Tail(@) ELSE <<>>]

ExitStatus == IF poll.failed \subseteq TOLERATED_FAILURES THEN 0 ELSE 1

\* Everything ran or the poll was abandoned: the diff is logged when there was
\* a fetch stage and a data set to compare with, whatever became of the fetch.
FinishPoll ==
    /\ poll # NoPoll /\ poll.stages = <<>>
    /\ poll_log' = IF poll.before /\ poll.fetch THEN [polled_at |-> today] ELSE poll_log
    /\ poll' = NoPoll
    /\ UNCHANGED <<upstream, caches, placed, layers, site, skipped, mishaps>>

-----------------------------------------------------------------------------
(* fetch_osm_snapshot.py and fetch_grid.py.                                *)

UncachedTiles == {t \in SnapshotTiles : snapshot_cache[t] = NotCached}

\* The payload of a tile holds what upstream has now, or what it had when it was cached.
SnapshotCaching(got) ==
    [t \in SnapshotTiles |->
        IF t \in got THEN {e \in Elements : SnapshotTileOf[e] = t /\ Present(e)}
        ELSE snapshot_cache[t]]

Snapshot(payloads) == UNION {payloads[t] : t \in SnapshotTiles}

\* Refetched rows keep the region and date columns they had.
FacilityRows(ids) ==
    {IF \E f \in facilities : f.id = e THEN CHOOSE f \in facilities : f.id = e
     ELSE [id |-> e, county |-> NoCounty, seen |-> 0] : e \in ids}

FetchSnapshot ==
    /\ Running("fetch_osm_snapshot")
    /\ snapshot_cache' = SnapshotCaching(UncachedTiles)
    /\ IF Snapshot(snapshot_cache') = {}
       THEN StageFails /\ UNCHANGED facilities
       ELSE StageSucceeds /\ facilities' = FacilityRows(Snapshot(snapshot_cache'))
    /\ UNCHANGED <<upstream, history_cache, marker, events, regions, layers, published, skipped, mishaps>>

\* Every mirror failed on every pass for some tile, or the poll died there; the tiles
\* before it are cached.
FetchSnapshotFails ==
    /\ Mishap
    /\ Running("fetch_osm_snapshot")
    /\ \E got \in (SUBSET UncachedTiles) \ {UncachedTiles} : snapshot_cache' = SnapshotCaching(got)
    /\ StageFails \/ poll' = NoPoll
    /\ UNCHANGED <<upstream, history_cache, marker, placed, layers, published, skipped>>

\* Every row is written anew with its county column blank.
FetchGrid ==
    /\ Running("fetch_grid")
    /\ LET rows == {[id |-> a, county |-> NoCounty] : a \in {b \in DOMAIN Assets : IsGridAsset(b)}}
       IN  IF rows = {} THEN StageFails /\ UNCHANGED grid
           ELSE StageSucceeds /\ grid' = rows
    /\ UNCHANGED <<upstream, caches, placed, series, grid_regions, published, skipped, mishaps>>

FetchGridFails ==
    /\ Mishap
    /\ Running("fetch_grid")
    /\ StageFails
    /\ UNCHANGED <<upstream, caches, placed, layers, published, skipped>>

-----------------------------------------------------------------------------
(* fetch_osm_history.py.                                                   *)

LastDay(rows) == Max({r.day : r \in rows})

\* A full backfill until one has completed; from then on the tail, with an overlap.
HistoryFrom ==
    IF events = {} \/ ~marker THEN HISTORY_START ELSE LastDay(events) - OverlapDays

OccupiedTiles == {TileOf[f.id] : f \in facilities}

CachedTiles(start) == {c.tile : c \in {d \in history_cache : d.start = start}}

\* Mutant: payloads are kept once all of them are there.
CachingWhenComplete(got, start) ==
    IF CachedTiles(start) \cup got = Tiles
    THEN {[tile |-> t, start |-> start,
           edits |-> {x \in edits : TileOf[x.id] = t /\ x.day >= start}] : t \in Tiles}
    ELSE history_cache

HistoryCaching(got, start) ==
    history_cache \cup
    {[tile |-> t, start |-> start,
      edits |-> {x \in edits : TileOf[x.id] = t /\ x.day >= start}] : t \in got}

\* The tiles a run adds to the cache: all it lacks, or with a budget some of them,
\* at least one, an empty tile only after every occupied one.
Fetchable(missing) ==
    IF ~poll.budget \/ missing = {} THEN {missing}
    ELSE {got \in SUBSET missing :
            got # {} /\ (got \subseteq OccupiedTiles \/ missing \cap OccupiedTiles \subseteq got)}

\* A removal carries no position: it has one only when these payloads hold another
\* edit of its element.
EventRows(contributions) ==
    {[id |-> x.id, day |-> x.day, kind |-> x.kind, county |-> NoCounty,
      placed |-> \E y \in contributions : y.id = x.id /\ y.kind # "deletion"] : x \in contributions}

\* New rows replace recorded ones of the same key and take over their county.
Merged(existing, rows) ==
    {r \in existing : EventKey(r) \notin {EventKey(n) : n \in rows}} \cup
    {IF \E r \in existing : EventKey(r) = EventKey(n)
     THEN [n EXCEPT !.county = (CHOOSE r \in existing : EventKey(r) = EventKey(n)).county]
     ELSE n : n \in rows}

Contributions(start) ==
    UNION {c.edits : c \in {d \in history_cache' : d.start = start}}

\* Nothing is written while an occupied tile is missing, and the run still succeeds.
FetchHistory ==
    /\ Running("fetch_osm_history")
    /\ LET start == HistoryFrom
           missing == Tiles \ CachedTiles(start)
       IN  \E got \in Fetchable(missing) :
             LET left == missing \ got
             IN  /\ history_cache' = HistoryCaching(got, start)
                 /\ LET rows == EventRows(Contributions(start))
                    IN  IF left \cap OccupiedTiles # {}
                        THEN StageSucceeds /\ UNCHANGED <<events, marker, skipped>>
                        ELSE IF rows = {} /\ events = {}
                        THEN StageFails /\ UNCHANGED <<events, marker, skipped>>
                        ELSE /\ events' = Merged(events, rows)
                             /\ marker' = (marker \/ start = HISTORY_START)
                             /\ skipped' = skipped \cup left
                             /\ StageSucceeds
    /\ UNCHANGED <<upstream, snapshot_cache, facilities, regions, layers, published, mishaps>>

\* ohsome does not answer for some tile, or sends contributions of no usable kind, or
\* the poll dies while it fetches.
FetchHistoryFails ==
    /\ Mishap
    /\ Running("fetch_osm_history")
    /\ LET start == HistoryFrom
       IN  \E got \in SUBSET (Tiles \ CachedTiles(start)) :
             history_cache' = HistoryCaching(got, start)
    /\ StageFails \/ poll' = NoPoll
    /\ UNCHANGED <<upstream, snapshot_cache, marker, placed, layers, published, skipped>>

-----------------------------------------------------------------------------
(* assign_regions.py and assign_grid_regions.py.                           *)

\* Mutant: a row with no position is in no county.
AssignedByPosition ==
    {[r EXCEPT !.county = IF r.placed THEN CountyOf[r.id] ELSE NoCounty] : r \in events}

\* A row with no position keeps the columns it has.
AssignedEvents ==
    {IF r.placed THEN [r EXCEPT !.county = CountyOf[r.id]] ELSE r : r \in events}

KeptEvents == PlacedRows(AssignedEvents)

\* Mutant: a facility in no county stays.
EveryFacility ==
    {[f EXCEPT !.county = CountyOf[f.id], !.seen = FirstSeen(f.id, KeptEvents)] : f \in facilities}

\* The facilities of some county, dated from the events that are kept.
AssignedFacilities ==
    PlacedRows({[f EXCEPT !.county = CountyOf[f.id], !.seen = FirstSeen(f.id, KeptEvents)] :
                    f \in facilities})

AssignRegions ==
    /\ Running("assign_regions")
    /\ IF facilities = {}
       THEN StageFails /\ UNCHANGED placed
       ELSE /\ facilities' = AssignedFacilities
            /\ events' = IF KeptEvents = {} THEN events ELSE KeptEvents
            /\ regions' = BuildRegions(facilities')
            /\ StageSucceeds
    /\ UNCHANGED <<upstream, caches, layers, published, skipped, mishaps>>

AssignedGrid == {[r EXCEPT !.county = CountyOf[r.id]] : r \in grid}

AssignGridRegions ==
    /\ Running("assign_grid_regions")
    /\ IF grid = {}
       THEN StageFails /\ UNCHANGED <<grid, grid_regions>>
       ELSE /\ grid' = AssignedGrid
            /\ grid_regions' = BuildGridRegions(grid')
            /\ StageSucceeds
    /\ UNCHANGED <<upstream, caches, placed, series, published, skipped, mishaps>>

-----------------------------------------------------------------------------
(* build_series.py, allocate_power.py and build_site_data.py.              *)

BuildSeriesStage ==
    /\ Running("build_series")
    /\ IF PlacedRows(events) = {}
       THEN StageFails /\ UNCHANGED series
       ELSE StageSucceeds /\ series' = BuildSeries(events, facilities)
    /\ UNCHANGED <<upstream, caches, placed, grid, grid_regions, published, skipped, mishaps>>

AllocatePower ==
    /\ Running("allocate_power")
    /\ IF facilities = {} \/ DOMAIN regions = {} \/ AreaOfClass(facilities, "building") = 0
       THEN StageFails /\ UNCHANGED regions
       ELSE StageSucceeds /\ regions' = Allocated(regions, facilities)
    /\ UNCHANGED <<upstream, caches, facilities, events, layers, published, skipped, mishaps>>

\* The changes file holds the newest MaxChanges; those of one day are in the file's order.
Changes(rows) == {r \in rows : r.kind \in {"creation", "deletion"}}

Newer(r, s) == r.day > s.day \/ (r.day = s.day /\ OsmId[r.id] < OsmId[s.id])

RecentChanges(rows) ==
    {r \in Changes(rows) : Cardinality({s \in Changes(rows) : Newer(s, r)}) < MaxChanges}

\* Only the regions that have a facility carry grid totals.
GridTotalsOf(listed) == [r \in listed \cap DOMAIN grid_regions |-> grid_regions[r]]

\* The files of the regions that have a series are written, the others stay as they are.
SeriesFiles ==
    [r \in DOMAIN series \cup DOMAIN site.series |->
        IF r \in DOMAIN series THEN series[r] ELSE site.series[r]]

\* What build_site_data publishes.
SiteOf ==
    [facilities |-> facilities, weights |-> MapWeights(facilities),
     grid |-> PlacedRows(grid),
     regions |-> regions, grid_totals |-> GridTotalsOf(DOMAIN regions),
     series |-> SeriesFiles,
     changes |-> {EventKey(e) : e \in RecentChanges(events)},
     history_end |-> Max({0} \cup {e.day : e \in events}),
     last_polled |-> IF poll_log = NoRow THEN 0 ELSE poll_log.polled_at]

\* The files of the site in the order they are written, and what each of them holds.
SiteFiles ==
    <<{"facilities", "weights"}, {"grid"}, {"regions", "grid_totals"}, {"series"},
      {"changes"}, {"history_end", "last_polled"}>>

WrittenUpTo(n) ==
    [f \in DOMAIN SiteOf |-> IF f \in UNION {SiteFiles[i] : i \in 1..n} THEN SiteOf[f] ELSE site[f]]

Publishable == facilities # {} /\ DOMAIN regions # {} /\ ~GridIsUnassigned(grid)

BuildSiteData ==
    /\ Running("build_site_data")
    /\ IF Publishable
       THEN StageSucceeds /\ site' = SiteOf
       ELSE StageFails /\ UNCHANGED site
    /\ UNCHANGED <<upstream, caches, placed, layers, poll_log, skipped, mishaps>>

-----------------------------------------------------------------------------
(* Mishaps.  write_csv writes in place and in the order it is given: what  *)
(* is left of events.csv is a prefix.  The other files are taken to be     *)
(* written whole, each one at a time.                                      *)

\* Mutant: in the order of their identifiers, as facilities.csv.
PrecedesById(r, s) == OsmId[r.id] < OsmId[s.id]

\* The order events.csv is written in.
Precedes(r, s) == r.day < s.day \/ (r.day = s.day /\ OsmId[r.id] < OsmId[s.id])

\* What a write leaves that is cut short, or that was the last thing the stage did.
Prefixes(rows) == {{r \in rows : Precedes(r, s)} : s \in rows} \cup {rows}

\* In the middle of events.csv or after it, before or after the marker is set; the NOTE
\* that names the tiles the file was written without is then never printed.
HistoryCutShort ==
    /\ Running("fetch_osm_history")
    /\ LET start == HistoryFrom
           missing == Tiles \ CachedTiles(start)
       IN  \E got \in Fetchable(missing) :
             /\ (missing \ got) \cap OccupiedTiles = {}
             /\ history_cache' = HistoryCaching(got, start)
             /\ LET written == Merged(events, EventRows(Contributions(start)))
                IN  /\ written # {} /\ events' \in Prefixes(written)
                    /\ marker' \in {marker, marker \/ (events' = written /\ start = HISTORY_START)}
             /\ skipped' = skipped \cup (missing \ got)
    /\ UNCHANGED <<facilities, grid, site>>

\* After facilities.csv, in the middle of events.csv or after it.
AssignmentCutShort ==
    /\ Running("assign_regions") /\ facilities # {}
    /\ facilities' = AssignedFacilities
    /\ \/ UNCHANGED events
       \/ KeptEvents # {} /\ events' \in Prefixes(KeptEvents)
    /\ UNCHANGED <<history_cache, marker, skipped, grid, site>>

\* After grid.csv, with the totals of the layer before it still in grid_regions.csv.
GridCutShort ==
    /\ Running("assign_grid_regions") /\ grid # {}
    /\ grid' = AssignedGrid
    /\ UNCHANGED <<history_cache, marker, facilities, events, skipped, site>>

\* After some of the site's files.
SiteCutShort ==
    /\ Running("build_site_data") /\ Publishable
    /\ \E n \in 1..Len(SiteFiles) : site' = WrittenUpTo(n)
    /\ UNCHANGED <<history_cache, marker, facilities, events, skipped, grid>>

\* A stage dies before it writes or while it does; the poll takes it for a failure of the
\* stage, or dies as well.
StageDies ==
    /\ Mishap
    /\ poll # NoPoll /\ poll.stages # <<>>
    /\ \/ UNCHANGED <<history_cache, marker, facilities, events, skipped, grid, site>>
       \/ HistoryCutShort \/ AssignmentCutShort \/ GridCutShort \/ SiteCutShort
    /\ StageFails \/ poll' = NoPoll
    /\ UNCHANGED <<upstream, snapshot_cache, regions, series, grid_regions, poll_log>>

\* The caches and the marker are not committed.
FreshCheckout ==
    /\ Mishap
    /\ poll = NoPoll
    /\ snapshot_cache' = [t \in SnapshotTiles |-> NotCached]
    /\ history_cache' = {}
    /\ marker' = FALSE
    /\ UNCHANGED <<upstream, placed, layers, published, poll, skipped>>

-----------------------------------------------------------------------------
\* A checkout with no data yet.
Init ==
    /\ today = HISTORY_START /\ edits = InitialEdits
    /\ snapshot_cache = [t \in SnapshotTiles |-> NotCached] /\ history_cache = {} /\ marker = FALSE
    /\ facilities = {} /\ events = {} /\ regions = <<>> /\ series = <<>>
    /\ grid = {} /\ grid_regions = <<>> /\ poll_log = NoRow
    /\ site = NoSite /\ poll = NoPoll
    /\ skipped = {} /\ mishaps = 0

StartAnyPoll == \E o \in PollOptions : StartPoll(o)

EditUpstream ==
    \E e \in Editable, kind \in EditKinds :
        \E day \in HISTORY_START..today : day + Lateness >= today /\ Edit(e, kind, day)

OfflineStage ==
    \/ AssignRegions \/ AssignGridRegions \/ BuildSeriesStage \/ AllocatePower \/ BuildSiteData

Next ==
    \/ EditUpstream \/ NewDay
    \/ StartAnyPoll \/ FinishPoll
    \/ FetchSnapshot \/ FetchSnapshotFails \/ FetchGrid \/ FetchGridFails
    \/ FetchHistory \/ FetchHistoryFails
    \/ OfflineStage
    \/ StageDies \/ FreshCheckout

\* A stage that runs comes to an end, well or not, and so does the poll.
PollGoesOn ==
    /\ poll # NoPoll
    /\ poll' = NoPoll \/ (poll.stages # <<>> /\ (StageSucceeds \/ StageFails))

\* A poll that runs goes on, and the command is run again and again with its history stage.
Fairness == WF_poll(PollGoesOn) /\ SF_vars(\E o \in PollOptions : o.history /\ StartPoll(o))

Spec == Init /\ [][Next]_vars /\ Fairness

-----------------------------------------------------------------------------
FacilityRow == [id : Elements, county : Counties \cup {NoCounty}, seen : 0..MaxDay]
EditRecord == [id : Elements, day : HISTORY_START..MaxDay, kind : {"creation", "deletion", "tag_change"}]

\* The files, the caches and the poll hold what the stages write.
TypeOK ==
    /\ today \in HISTORY_START..MaxDay /\ edits \subseteq EditRecord
    /\ \A t \in SnapshotTiles : snapshot_cache[t] = NotCached \/ snapshot_cache[t] \subseteq Elements
    /\ \A c \in history_cache : c.tile \in Tiles /\ c.edits \subseteq edits
    /\ facilities \subseteq FacilityRow
    /\ \A r \in events : r.id \in Elements /\ r.county \in Counties \cup {NoCounty}
    /\ \A r, s \in events : EventKey(r) = EventKey(s) => r = s
    /\ \A r \in grid : r.id \in DOMAIN Assets
    /\ poll = NoPoll \/ poll.failed \subseteq {FetchStages([grid |-> TRUE, history |-> TRUE])[i] : i \in 1..3}
                                        \cup {OfflineStages[i] : i \in 1..5}
    /\ skipped \subseteq Tiles

States == {StateOf[c] : c \in Counties}

CountIn(table, kind) ==
    MapThenSumSet(LAMBDA r : table[r].facility_count, kind \cap DOMAIN table)

GridCount(totals, r) ==
    IF r \in DOMAIN totals THEN totals[r].substation_count + totals[r].plant_count ELSE 0

PowerIn(table, kind) == MapThenSumSet(LAMBDA r : table[r].share[1], kind \cap DOMAIN table)

\* What a poll that succeeds leaves on the site comes from one assignment: its counties
\* and its states partition the facilities on the map, and the power of the map and of
\* each family of regions is the whole national total; a region's grid totals count the
\* published assets in it, if the grid was assigned; and a facility's date is its first
\* creation in the changes, which leave it out only to list as many newer ones as they
\* can hold.  In every month the nation's count is the sum of its states' and of its
\* counties'.
PublishedAgrees ==
    /\ poll # NoPoll /\ poll.stages = <<>> /\ ExitStatus = 0 =>
        LET whole == AreaOfClass(site.facilities, "building")
        IN  /\ \A kind \in {Counties, States} :
                /\ CountIn(site.regions, kind) = Cardinality(site.facilities)
                /\ PowerIn(site.regions, kind) = whole
            /\ \A r \in DOMAIN site.regions : site.regions[r].share[2] = whole
            /\ MapThenSumSet(LAMBDA e : site.weights[e][1], DOMAIN site.weights) = whole
            /\ "assign_grid_regions" \notin poll.failed =>
                \A r \in DOMAIN site.regions :
                    GridCount(site.grid_totals, r) = Cardinality(RowsIn(site.grid, r))
            /\ \A f \in site.facilities :
                /\ \A c \in site.changes :
                    c[1] = f.id /\ c[3] = "creation" => f.seen # 0 /\ f.seen <= c[2]
                /\ f.seen # 0 /\ <<f.id, f.seen, "creation">> \notin site.changes =>
                    /\ Cardinality(site.changes) >= MaxChanges
                    /\ \A c \in site.changes : c[2] >= f.seen
    /\ Nation \in DOMAIN series =>
        \A m \in DOMAIN series[Nation], kind \in {Counties, States} :
            series[Nation][m].count =
                MapThenSumSet(LAMBDA r : CountAt(series, r, m), kind \cap DOMAIN series)

\* Once a backfill has completed, an edit of a placed element that is older than the
\* last one recorded by more than an extract's lateness is recorded, unless some run,
\* which may have died before it could name the tile, wrote the history without its
\* tile: whatever was cached at different moments, cut short by a budget or torn by a
\* death.
HistoryHasNoGaps ==
    marker /\ events # {} =>
        \A x \in edits :
            (/\ x.kind # "deletion" /\ CountyOf[x.id] # NoCounty
             /\ TileOf[x.id] \notin skipped /\ x.day + Lateness < LastDay(events))
            => EventKey(x) \in {EventKey(r) : r \in events}

\* No stage that completes drops an event it had placed, even when a refetch sends
\* its removal again with no position.
RecordedIsKept ==
    [][mishaps' = mishaps =>
        {EventKey(r) : r \in PlacedRows(events)} \subseteq {EventKey(r) : r \in PlacedRows(events')}]_vars

PollSucceeds == poll # NoPoll /\ poll.stages = <<>> /\ poll' = NoPoll /\ ExitStatus = 0

\* After a poll that succeeds, an offline rebuild finds nothing to change but the date of
\* the last poll and what a stage failed to build whose failure was tolerated, the series
\* or the grid's totals: the placed files are fixed points of assign_regions, and the
\* derived and published ones follow from them.
RebuildChangesNothing ==
    [][PollSucceeds =>
        /\ facilities = AssignedFacilities
        /\ KeptEvents \in {events, {}}
        /\ regions = Allocated(BuildRegions(facilities), facilities)
        /\ "build_series" \in poll.failed \/ series = BuildSeries(events, facilities)
        /\ "assign_grid_regions" \in poll.failed \/ grid_regions = BuildGridRegions(grid)
        /\ site = [SiteOf EXCEPT !.last_polled = site.last_polled]]_vars

\* OpenStreetMap has data centres, and an edit of one that every extract from now on shows.
UpstreamIsKnown ==
    /\ \E x \in edits : x.day + Lateness < today
    /\ \E t \in SnapshotTiles : IF snapshot_cache[t] = NotCached
                                THEN \E e \in Elements : SnapshotTileOf[e] = t /\ Present(e)
                                ELSE snapshot_cache[t] # {}

\* Once no newer extract comes out and nothing fails any more, the history is fetched in
\* full in the end, however small the budget of each run and whatever was lost before.
BackfillCompletes ==
    <>[][~NewDay /\ mishaps' = mishaps]_vars => (<>[]UpstreamIsKnown => <>[]marker)
=============================================================================
