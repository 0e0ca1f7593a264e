\* Readings of every connector over a source of up to three rows that changes up to two
\* times, with pages of one row, one retry, and a wake-up that can be a tick late.
SPECIFICATION Spec
CONSTANTS
    Interval = 2
    MaxOver = 1
    MaxRetries = 1
    Delays = {1}
    MaxRedirects = 1
    PerSlot = 2
    NoName = NoName
    LargeAcres = 20
    MinVoltageKv = 69
    PermitTypes = {"COM"}
    Sources = {"assessor", "mesa", "echo", "osm", "decision", "fixture", "agendas",
               "capacity", "sales", "water"}
    Rows = {1, 2, 3, 4}
    Same <- MCSame
    RegistryOf <- MCRegistryOf
    TableRow <- MCTableRow
    RowData <- MCRowData
    InitialRows = {{2, 3}, {1, 2, 4}, {1, 2, 3, 4}}
    Unreadable = {2}
    PageSize = 1
    MaxPages = 3
    MaxRows = 3
    RequestedYear = 2023
    Areas = {"AZ", "US"}
    Unknown = Unknown
    NoOutcome = NoOutcome
    Redaction = TRUE
    Today = 5
    MaxMoves = 2
INVARIANTS
    ReadingIsExplained
    SuppressedNamesStayOut
    AreaTotalsAreSingle
    RateIsKept
PROPERTY
    EveryReadingEnds
