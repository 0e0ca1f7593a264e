SPECIFICATION Spec
CONSTANTS
    bootstrap = bootstrap
    client = client
    assessor = assessor
    echo = echo
    mesa = mesa
    lots = lots
    yards = yards
    old = old
    new = new
    newer = newer
    lot = lot
    yard = yard
    llc = llc
    Programs <- MCPrograms
    Plans <- MCPlans
    Slugs <- MCSlugs
    Registered <- MCRegistered
    DocumentIds <- MCDocumentIds
    Digests <- MCDigests
    ParcelIds <- MCParcelIds
    Names <- MCNames
    Discovered <- MCDiscovered
    Mortal <- MCMortal
INVARIANTS
    VersionsAreCounted
    DoublesOverlapped
    DoneIsWhole
PROPERTIES
    EveryProgramEnds
CHECK_DEADLOCK FALSE
