--------------------------- MODULE MCSourceReading ---------------------------
(* Instances of SourceReading for TLC. *)
EXTENDS SourceReading, TLC

\* Rows 2 and 3 have the same day.
MCSame == {<<2, 3>>}

MCRegistryOf == 1 :> "r1" @@ 2 :> "r2" @@ 3 :> "r1" @@ 4 :> "r4"

\* Two states: one has its total, and a part of it in the same year.
MCTableRow ==
    1 :> [year |-> 2023, area |-> "AZ", producer |-> "all", fuel |-> "all", value |-> 7] @@
    2 :> [year |-> 2023, area |-> "AZ", producer |-> "all", fuel |-> "solar", value |-> 3] @@
    3 :> [year |-> 2024, area |-> "AZ", producer |-> "all", fuel |-> "all", value |-> 8] @@
    4 :> [year |-> 2023, area |-> "US", producer |-> "all", fuel |-> "all", value |-> 90]

MCOwners ==
    {{}, {"words"}, {"words", "corporate"}, {"words", "passthrough"},
     {"government", "holding"}, {"trust", "code"}, {"trust", "institutional"},
     {"separator"}, {"utility", "corporate"}}

MCParcels ==
    [apn : {"", "30433005S"}, owner : MCOwners, use : {"data center", "industrial"},
     deed : {NoDay}, sale : {NoDay, 3}, acres : {NoFigure}, squareFeet : {NoFigure, 30},
     malformed : {FALSE}]

MCFacilities ==
    [sourceId : {""}, registryId : {"", "r1"}, naics : {"hosting", "other"},
     name : {"hosting", "other"}, malformed : BOOLEAN]

MCPermits ==
    [type : {"COM", "RES"}, number : {"", "P1"}, address : BOOLEAN,
     issued : {NoDay, 2}, status : {NoDay, 3}, opened : {NoDay, 1}]

MCElements ==
    [power : {"substation", "line", "plant", ""}, id : {"way/1"}, located : BOOLEAN,
     kv : {NoFigure, 12, 230}]

MCFilings == [id : {"F1"}, knownCategory : BOOLEAN, filed : {NoDay, 2}, opened : {NoDay, 1}]

MCRowData ==
    "assessor" :> MCParcels @@ "echo" :> MCFacilities @@ "mesa" :> MCPermits @@
    "osm" :> MCElements @@ "fixture" :> MCFilings @@
    "agendas" :> [id : {"agenda-1"}, snippets : {0, 2}] @@
    "decision" :> [id : {"U-21990"}, decided : {2}] @@
    "capacity" :> {MCTableRow[1]} @@ "sales" :> {MCTableRow[1]} @@ "water" :> {MCTableRow[1]}
=============================================================================
