--------------------------- MODULE MCObservatory ---------------------------
(* Instances of Observatory for TLC. *)
EXTENDS Observatory, TLC

CONSTANTS hall, annex, campus, toronto,   \* elements
          loudoun, fairfax, maricopa,     \* counties
          va, az,                         \* states
          east, west, usa,                \* tiles, the last of the snapshot
          station, feeder, plant, ontario \* grid assets

MCStateOf == loudoun :> va @@ fairfax :> va @@ maricopa :> az

MCCountyOf ==
    hall :> loudoun @@ annex :> fairfax @@ campus :> maricopa @@ toronto :> NoCounty @@
    station :> loudoun @@ feeder :> loudoun @@ plant :> maricopa @@ ontario :> NoCounty

Outline(building, landuse) == [type |-> "way", building |-> building, landuse |-> landuse]

MCTags ==
    hall :> Outline("data_center", "") @@ annex :> Outline("data_center", "") @@
    campus :> Outline("no", "industrial") @@ toronto :> Outline("data_center", "")

MCArea == hall :> 3 @@ annex :> 1 @@ campus :> 9 @@ toronto :> 2

MCTileOf == hall :> east @@ annex :> east @@ campus :> west @@ toronto :> east

\* On the first day the annex is mapped, and a hall in Toronto.
MCInitialEdits ==
    {[id |-> annex, day |-> HISTORY_START, kind |-> "creation"],
     [id |-> toronto, day |-> HISTORY_START, kind |-> "creation"]}

MCSnapshotTileOf == [e \in {hall, annex, campus, toronto} |-> usa]

MCAssets ==
    station :> [kind |-> "substation", kv |-> 500, mw |-> 0] @@
    feeder :> [kind |-> "substation", kv |-> 12, mw |-> 0] @@
    plant :> [kind |-> "plant", kv |-> 0, mw |-> 0] @@
    ontario :> [kind |-> "substation", kv |-> 230, mw |-> 0]

\* A poll with a budget, which may also suffice, and an offline rebuild.
MCPollOptions ==
    {[fetch |-> TRUE, grid |-> TRUE, history |-> TRUE, budget |-> TRUE],
     [fetch |-> FALSE, grid |-> FALSE, history |-> FALSE, budget |-> FALSE]}

MCOsmId == campus :> 1 @@ hall :> 2 @@ annex :> 3 @@ toronto :> 4
=============================================================================
