\* Two processes of two releases that score the same two sites in either order.
\* The bounded days and recalculations are used up in the end: the model stops.
SPECIFICATION FairSpec
CONSTANTS
    Scorers = {p1, p2}
    Sites = {s1, s2}
    Records = {"deal"}
    Kinds <- MCKinds
    Releases = {r1, r2}
    KindOf <- OneKindOf
    ObservedAt <- OneObservedAt
    StageWeight <- MCStageWeight
    ImpliesStage <- MCImpliesStage
    MaxOccurrences = 3
    Measured = {s1, s2}
    NoSite = NoSite
    NoRelease = NoRelease
    MaxDay = 0
    MaxJobs = 1
    MayMove = FALSE
CHECK_DEADLOCK FALSE
PROPERTY EveryScoringEnds
