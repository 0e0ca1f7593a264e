---------------------------- MODULE RegionTables ----------------------------
(***************************************************************************)
(* The tables the observatory derives from its facilities, its edit        *)
(* history and its grid layer: which class an element's area belongs to,   *)
(* the totals of each county and state, the share of the national power    *)
(* each region and each building is given, the growth series, and the grid *)
(* totals.  A region is a county, a state or the nation.                   *)
(***************************************************************************)
EXTENDS Integers, FiniteSets, FiniteSetsExt

CONSTANTS
    Counties, StateOf,  \* the counties and the state each is in
    NoCounty,           \* the blank county_fips of a row that is in none
    Nation,             \* national:US
    Tags,               \* element -> [type, building, landuse], what is mapped
    Area,               \* element -> the area of its outline
    Assets,             \* asset -> [kind, kv, mw], substations and plants; 0: no number
    MinVoltage, BulkKv, \* what counts as a substation, as bulk transmission
    DaysPerMonth

Month(day) == day \div DaysPerMonth

PlacedRows(rows) == {r \in rows : r.county # NoCounty}

\* Every region a row contributes to.
RegionsOf(row) ==
    {Nation} \cup (IF row.county = NoCounty THEN {} ELSE {row.county, StateOf[row.county]})

CountiesOf(rows) == {r.county : r \in PlacedRows(rows)}
StatesOf(rows) == {StateOf[c] : c \in CountiesOf(rows)}

RowsIn(rows, region) == {r \in rows : region \in RegionsOf(r)}

-----------------------------------------------------------------------------
(* Facilities: a row is [id, county, seen].                                *)

\* What an element's area measures: construction first, then a node, then a
\* structure; building=no is an area of land.
SiteClass(e) ==
    CASE Tags[e].landuse = "construction" \/ Tags[e].building = "construction" -> "construction"
      [] Tags[e].type = "node" -> "point"
      [] Tags[e].building \notin {"", "no"} -> "building"
      [] OTHER -> "site"

OfClass(rows, class) == {r \in rows : SiteClass(r.id) = class}

AreaOfClass(rows, class) == MapThenSumSet(LAMBDA r : Area[r.id], OfClass(rows, class))

Totals(rows) ==
    [facility_count |-> Cardinality(rows),
     building_count |-> Cardinality(OfClass(rows, "building")),
     site_count |-> Cardinality(OfClass(rows, "site")),
     construction_count |-> Cardinality(OfClass(rows, "construction")),
     footprint |-> AreaOfClass(rows, "building"),
     site_area |-> AreaOfClass(rows, "site"),
     construction_area |-> AreaOfClass(rows, "construction"),
     share |-> <<>>]

\* regions.csv as assign_regions writes it, with no power columns.
BuildRegions(rows) == [r \in CountiesOf(rows) \cup StatesOf(rows) |-> Totals(RowsIn(rows, r))]

\* A share is <<part, whole>>; est_mw and est_gal_per_day are multiples of it.
Allocated(regions, rows) ==
    [r \in DOMAIN regions |->
        [regions[r] EXCEPT !.share = <<regions[r].footprint, AreaOfClass(rows, "building")>>]]

\* The weight of each facility on the map: only a building carries one.
MapWeights(rows) ==
    [id \in {r.id : r \in OfClass(rows, "building")} |-> <<Area[id], AreaOfClass(rows, "building")>>]

-----------------------------------------------------------------------------
(* Growth: an event is [id, day, kind, placed, county].                    *)

EventKey(e) == <<e.id, e.day, e.kind>>

Creations(events) == {e \in events : e.kind = "creation"}

\* The events that move a count: a removal only counts when its element has a creation.
Counted(events) ==
    Creations(events) \cup
    {e \in events : e.kind = "deletion" /\ \E c \in Creations(events) : c.id = e.id}

\* The day the history first records an element, and 0 when it does not.
FirstSeen(id, events) ==
    LET days == {c.day : c \in {e \in Creations(events) : e.id = id}}
    IN  IF days = {} THEN 0 ELSE Min(days)

Direction(e) == IF e.kind = "creation" THEN 1 ELSE -1

\* A row per region and month, the quiet months included, from the region's
\* first event to its last; an element that is gone has no footprint.
BuildSeries(events, rows) ==
    LET footprint(id) == IF \E r \in rows : r.id = id THEN Area[id] ELSE 0
        Points(region) ==
            LET own == RowsIn(Counted(events), region)
                months == {Month(e.day) : e \in own}
                upto(m) == {e \in own : Month(e.day) <= m}
            IN  [m \in Min(months)..Max(months) |->
                    [count |-> MapThenSumSet(Direction, upto(m)),
                     change |-> MapThenSumSet(Direction, {e \in own : Month(e.day) = m}),
                     footprint |->
                        Max({0, MapThenSumSet(LAMBDA e : Direction(e) * footprint(e.id), upto(m))})]]
    IN  [region \in UNION {RegionsOf(e) : e \in Counted(events)} |-> Points(region)]

\* A region's count at the end of a month, its last one carried forward.
CountAt(series, region, month) ==
    LET reached == {m \in DOMAIN series[region] : m <= month}
    IN  IF reached = {} THEN 0 ELSE series[region][Max(reached)].count

-----------------------------------------------------------------------------
(* The grid: a row is [id, county].                                        *)

\* Any plant; a substation whose highest voltage is known and reaches the threshold.
IsGridAsset(a) == Assets[a].kind = "plant" \/ Assets[a].kv >= MinVoltage

GridTotals(rows) ==
    LET substations == {r \in rows : Assets[r.id].kind = "substation"}
        plants == rows \ substations
    IN  [substation_count |-> Cardinality(substations),
         bulk_substation_count |-> Cardinality({r \in substations : Assets[r.id].kv >= BulkKv}),
         max_voltage |-> Max({0} \cup {Assets[r.id].kv : r \in substations}),
         plant_count |-> Cardinality(plants),
         plant_capacity |-> MapThenSumSet(LAMBDA r : Assets[r.id].mw, plants),
         plants_without_capacity |-> Cardinality({r \in plants : Assets[r.id].mw = 0})]

BuildGridRegions(rows) ==
    [r \in CountiesOf(rows) \cup StatesOf(rows) |-> GridTotals(RowsIn(rows, r))]

\* Rows, and not one of them was ever placed.
GridIsUnassigned(rows) == rows # {} /\ PlacedRows(rows) = {}
=============================================================================
