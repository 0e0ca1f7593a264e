\* Two processes, two sites, records that move between sites.
\* The bounded days and recalculations are used up in the end: the model stops.
SPECIFICATION Spec
CONSTANTS
    Scorers = {p1, p2}
    Sites = {s1, s2}
    Records = {"deal", "works"}
    Kinds <- MCKinds
    Releases = {r1}
    KindOf <- TwoKindOf
    ObservedAt <- TwoObservedAt
    StageWeight <- MCStageWeight
    ImpliesStage <- MCImpliesStage
    MaxOccurrences = 3
    Measured = {s1}
    NoSite = NoSite
    NoRelease = NoRelease
    MaxDay = 1
    MaxJobs = 1
    MayMove = TRUE
SYMMETRY Symmetry
CHECK_DEADLOCK FALSE
INVARIANTS
    StageIsLastTransition
    SerialHistoryIsChain
    SerialScoresAgree
    LatestIsEstimated
    DowngradeHasLostEvidence
PROPERTY OnlyLiveScoresMoveSites
