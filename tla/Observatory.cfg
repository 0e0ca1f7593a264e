\* Polls of four elements in two tiles over a few days, with fetches that fail, budgets
\* that run out, deaths while a file is written, and fresh checkouts.
SPECIFICATION Spec
CONSTANTS
    hall = hall
    annex = annex
    campus = campus
    toronto = toronto
    loudoun = loudoun
    fairfax = fairfax
    maricopa = maricopa
    va = va
    az = az
    east = east
    west = west
    usa = usa
    station = station
    feeder = feeder
    plant = plant
    ontario = ontario
    NoCounty = NoCounty
    Nation = Nation
    NotCached = NotCached
    NoRow = NoRow
    NoPoll = NoPoll
    Counties = {loudoun, fairfax, maricopa}
    StateOf <- MCStateOf
    Tags <- MCTags
    Area <- MCArea
    Assets <- MCAssets
    MinVoltage = 69
    BulkKv = 230
    DaysPerMonth = 2
    Elements = {hall, annex, campus, toronto}
    Editable = {campus}
    Tiles = {east, west}
    SnapshotTiles = {usa}
    SnapshotTileOf <- MCSnapshotTileOf
    TileOf <- MCTileOf
    CountyOf <- MCCountyOf
    InitiallyMapped = {hall}
    InitialEdits <- MCInitialEdits
    OsmId <- MCOsmId
    EditKinds = {"creation", "deletion"}
    Lateness = 1
    PollOptions <- MCPollOptions
    OverlapDays = 1
    MaxChanges = 2
    MaxDay = 3
    MaxEdits = 4
    MaxMishaps = 1
INVARIANTS
    PublishedAgrees
    HistoryHasNoGaps
PROPERTIES
    RecordedIsKept
    RebuildChangesNothing
    BackfillCompletes
