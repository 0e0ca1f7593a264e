----------------------------- MODULE SourceRows -----------------------------
(***************************************************************************)
(* What the connectors of helios_connectors make of one row they have      *)
(* read: the normalize() of each, the owner-name analysis and the policy   *)
(* on personal names of helios_entity_resolution/names.py.  A row is       *)
(* reduced to what decides its fate: which values it has, and on which     *)
(* days.                                                                   *)
(***************************************************************************)
EXTENDS Integers, Sequences, FiniteSets

CONSTANTS NoName,       \* no name is stored
          LargeAcres,   \* LARGE_PARCEL_ACRE_THRESHOLD
          MinVoltageKv, \* min_voltage_kv of the OSM connector
          PermitTypes   \* the permit types the Mesa connector asks for

NoDay == 0      \* no date; days are numbered from 1
NoFigure == -1  \* no number in the cell

-----------------------------------------------------------------------------
(* Owner names.  A name is the set of the markers found in it; an empty    *)
(* set is a blank name, and "words" are what any other name has.           *)

Markers == {"words", "government", "corporate", "passthrough", "holding", "code",
            "utility", "trust", "institutional", "separator"}

\* LLC, LP and the like, and HOLDINGS, are among the corporate suffixes.
HasCorporateForm(name) == {"corporate", "passthrough", "holding"} \cap name # {}

\* The first test that fires decides, and a name no test recognises is a person's.
Classification(name) ==
    CASE name = {}             -> "unknown"
      [] "government" \in name -> "government"
      [] OTHER ->
         IF HasCorporateForm(name)
           THEN IF "utility" \in name THEN "utility" ELSE "organization"
           ELSE IF "trust" \in name
             THEN IF "institutional" \in name THEN "organization" ELSE "person_linked_trust"
             ELSE "natural_person"

IsPersonal(name) == Classification(name) \in {"natural_person", "person_linked_trust"}

ShellIndicators(name) == {"passthrough", "holding", "code"} \cap name

\* Mutant: indicators are looked for in every name, before it is classified.
ShellBeforeClass(name) == ShellIndicators(name) # {}

\* Only the branch of the corporate forms looks for indicators.
IsSuspectedShell(name) ==
    /\ Classification(name) \in {"organization", "utility"}
    /\ HasCorporateForm(name)
    /\ ShellIndicators(name) # {}

\* apply_pii_policy: the name that may be stored.
StorableName(name, redaction) == IF redaction /\ IsPersonal(name) THEN NoName ELSE name

-----------------------------------------------------------------------------
(* Records.                                                                *)

Filtered == [result |-> "filtered"]
Rejected == [result |-> "rejected"]
Skipped  == [result |-> "skipped"]

\* names: every owner name that the payload, the fields or the evidence spell out.
Record(entity, id, evidence, names) ==
    [result |-> "record", entity |-> entity, id |-> id, evidence |-> evidence, names |-> names]

\* An event has the day it happened, a standing condition the day it was looked at.
Event(kind, day) == [kind |-> kind, observed |-> day, standing |-> FALSE]
Standing(kind, day) == [kind |-> kind, observed |-> day, standing |-> TRUE]

FirstDay(first, second) == IF first # NoDay THEN first ELSE second

-----------------------------------------------------------------------------
(* Assessor parcels.                                                       *)

\* A missing acreage is derived from the square feet; 0 counts as missing here.
Acreage(row) == IF row.acres # NoFigure THEN row.acres ELSE row.squareFeet

TransferDay(row) == FirstDay(row.deed, row.sale)

DataCenterClassification(row, today) ==
    IF row.use = "data center"
      THEN {Standing("assessor_data_center_classification", today)} ELSE {}

LargeAcquisition(row) ==
    IF /\ TransferDay(row) # NoDay
       /\ Acreage(row) >= LargeAcres
       /\ row.use = "industrial"
       /\ ~IsPersonal(row.owner)
      THEN {Event("large_industrial_parcel_acquisition", TransferDay(row))} ELSE {}

\* Its summary and its snippet quote the name as the assessor wrote it.
ShellOwnership(row) ==
    IF IsSuspectedShell(row.owner) /\ TransferDay(row) # NoDay
      THEN {Event("shell_entity_ownership", TransferDay(row))} ELSE {}

NamesInEvidence(row) == IF ShellOwnership(row) # {} THEN {row.owner} ELSE {}

\* The owner of the payload and the field owner_name; normalized_name goes with them.
NamesInFields(row, redaction) == {StorableName(row.owner, redaction)} \ {NoName}

NormalizeParcel(row, redaction, today) ==
    IF row.apn = "" THEN Skipped
    ELSE IF row.malformed THEN Rejected
    ELSE Record("parcel", row.apn,
                DataCenterClassification(row, today) \cup LargeAcquisition(row)
                    \cup ShellOwnership(row),
                NamesInFields(row, redaction) \cup NamesInEvidence(row))

-----------------------------------------------------------------------------
(* EPA ECHO facilities, Mesa permits, OSM elements.                        *)

\* _classify_facility: hosting by NAICS, whichever column has it, or by name.
IsHosting(row) == row.naics = "hosting" \/ row.name = "hosting"

FacilityId(row) ==
    IF row.sourceId # "" THEN row.sourceId
    ELSE IF row.registryId # "" THEN row.registryId ELSE "row-index"

NormalizeFacility(row, today) ==
    IF ~IsHosting(row) THEN Filtered
    ELSE IF row.malformed THEN Rejected
    ELSE Record("permit", FacilityId(row),
                {Standing("backup_generator_air_permit", today)}, {})

PermitDay(row) == FirstDay(row.issued, FirstDay(row.status, row.opened))

IsUsablePermit(row) == row.number # "" /\ row.address /\ PermitDay(row) # NoDay

NormalizePermit(row) ==
    IF row.type \notin PermitTypes THEN Filtered
    ELSE IF ~IsUsablePermit(row) THEN Rejected
    ELSE Record("permit", row.number,
                {Event("grading_or_construction_permit", PermitDay(row))}, {})

\* A substation without a place, and a line below the voltage, are out of scope.
NormalizeSubstation(row) ==
    IF row.located THEN Record("substation", row.id, {}, {}) ELSE Filtered

NormalizeLine(row) ==
    IF row.kv # NoFigure /\ row.kv >= MinVoltageKv
      THEN Record("transmission_line", row.id, {}, {}) ELSE Filtered

NormalizeElement(row) ==
    CASE row.power = "substation" -> NormalizeSubstation(row)
      [] row.power = "line"       -> NormalizeLine(row)
      [] row.power = ""           -> Skipped
      [] OTHER                    -> Filtered

-----------------------------------------------------------------------------
(* Commission dockets, council agendas, the large-load order.              *)

FilingDay(row) == FirstDay(row.filed, row.opened)

NormalizeFiling(row) ==
    IF ~row.knownCategory \/ FilingDay(row) = NoDay THEN Rejected
    ELSE Record("permit", row.id, {Event("docket_filing", FilingDay(row))}, {})

\* An agenda is dated with the day it is read.
NormalizeAgenda(row, today) ==
    IF row.snippets = 0 THEN Filtered
    ELSE Record("planning_agenda", row.id,
                {Event("planning_application_data_center", today)}, {})

\* The decision has one date, a constant of the connector.
NormalizeDecision(row) ==
    Record("permit", row.id, {Event("large_load_service_contract", row.decided)}, {})

-----------------------------------------------------------------------------
(* Area totals: one table of rows by year, area, producer and fuel; the    *)
(* county file has one year and neither producers nor fuels.               *)

HasFigure(row) == row.value # NoFigure

\* The row of the nation is skipped, and so is an area nobody asked for.
InScope(row, areas) == row.area \in areas \ {"US", ""}

CountyRows(table, areas) == {row \in table : InScope(row, areas) /\ HasFigure(row)}

YearsOf(table) == {row.year : row \in {r \in table : r.year # NoFigure}}

NewestYear(table) == CHOOSE y \in YearsOf(table) : \A z \in YearsOf(table) : z <= y

\* The year that was asked for when the file has it, else the newest.
ResolvedYear(table, requested) ==
    IF requested \in YearsOf(table) THEN requested ELSE NewestYear(table)

\* Mutant: the fuels are kept beside their total.
IsAllProducers(row) == row.producer = "all"

\* The roll-up of all producers and all fuels; the other rows are parts of it.
IsRollUp(row) == row.producer = "all" /\ row.fuel = "all"

\* Capacity: the year is looked for among all the rows of the file.
CapacityRows(table, requested, areas) ==
    {row \in table : /\ row.year = ResolvedYear(table, requested)
                     /\ IsRollUp(row)
                     /\ InScope(row, areas)
                     /\ HasFigure(row)}

\* Sales: the year is looked for among the roll-ups of all providers.
SalesRows(table, requested, areas) ==
    LET totals == {row \in table : IsRollUp(row)}
    IN  {row \in totals : /\ row.year = ResolvedYear(totals, requested)
                          /\ InScope(row, areas)
                          /\ HasFigure(row)}

NormalizeAreaRow(row) == Record("area_total", row.area, {}, {})
=============================================================================
