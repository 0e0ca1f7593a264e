\* Three passes over four parcels while ingestion goes on.
\* The bounded passes and loads are used up in the end: the model stops there.
SPECIFICATION Spec
CONSTANTS
    west = west
    middle = middle
    east = east
    air = air
    notice = notice
    filing = filing
    north = north
    west_substation = west_substation
    east_substation = east_substation
    line = line
    x = x
    y = y
    NoOwner = NoOwner
    NoRow = NoRow
    NoParcel = NoParcel
    Parcels = {west, middle, east, north}
    Permits = {air}
    Items = {notice, filing}
    Substations = {west_substation, east_substation}
    Lines = {line}
    Owners = {x, y}
    ParcelRows <- MCParcelRows
    InitialParcels <- MCInitialParcels
    Adjacent <- MCAdjacent
    Nearby <- MCNearby
    AddressOf <- MCAddressOf
    SubjectOf <- MCSubjectOf
    Distance <- MCDistance
    CandidateAcres = 20
    Radius = 3000
    BlockingDistance = 1500
    MaxDependencies = 1
    MaxPasses = 3
    MaxLoads = 1
INVARIANTS
    ClustersAreComponents
    OneSitePerAnchor
    ParcelEvidenceStaysWithItsParcel
    RepeatedPassCreatesNothing
    BuiltSitesAreLinked
    StaleRollupIsExplained
CHECK_DEADLOCK FALSE
