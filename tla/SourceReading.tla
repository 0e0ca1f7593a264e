---------------------------- MODULE SourceReading ----------------------------
(***************************************************************************)
(* One reading of one public source: discover(), fetch(), parse() and      *)
(* normalize() of the connectors in helios_connectors, in the order in     *)
(* which IngestionPipeline.run calls them, over the HTTP client.  The      *)
(* source goes on changing between two requests: rows come and go, and it  *)
(* may answer with an error, cut an answer short, or order rows it does    *)
(* not tell apart in another way each time.                                *)
(***************************************************************************)
EXTENDS HttpClient, SourceRows, SequencesExt

CONSTANTS Sources,      \* the connectors to run
          Rows,         \* row identifiers, in the order the source sorts them
          Same,         \* pairs of rows the sort of the Mesa query does not tell apart
          RegistryOf,   \* the RegistryID of an ECHO row
          TableRow,     \* a row of a workbook or of a county file
          RowData,      \* for each connector, the contents a row can have
          InitialRows,  \* the rows a source may hold when the reading starts
          Unreadable,   \* recorded payloads that discover() cannot read
          PageSize, MaxPages, MaxRows,
          RequestedYear, Areas,
          Unknown,      \* no count, or one that is not a number
          NoOutcome,    \* nothing normalized yet
          Redaction,    \* redact_natural_person_names
          Today,        \* the day of the reading
          MaxMoves      \* bound: changes of the source during the reading

Connectors == {"assessor", "mesa", "echo", "osm", "decision", "fixture", "agendas",
               "capacity", "sales", "water"}

Tables == {"capacity", "sales", "water"}

ASSUME SourceReadingAssumption ==
    /\ Sources \subseteq Connectors
    /\ Rows \subseteq Nat
    /\ Same \subseteq Rows \X Rows
    /\ InitialRows \subseteq {S \in SUBSET Rows : IsFiniteSet(S)}
    /\ PageSize \in Nat \ {0} /\ MaxPages \in Nat \ {0} /\ MaxRows \in Nat
    /\ Redaction \in BOOLEAN
    /\ Today \in Nat \ {NoDay}
    /\ MaxMoves \in Nat

\* A published table has one total of a state and a year.
ASSUME RollUpsAreUnique ==
    \A q, r \in {n \in Rows : TableRow[n].producer = "all" /\ TableRow[n].fuel = "all"} :
        /\ TableRow[q].year = TableRow[r].year
        /\ TableRow[q].area = TableRow[r].area
        => q = r

VARIABLES source,   \* the connector that runs
          up,       \* the rows its source holds
          always,   \* those it has held since the reading began: history only
          moved,    \* how many rows have come and gone since: history only
          phase,    \* "discover", "fetch", "normalize", "done"
          items,    \* discovered items that are still to be fetched
          offset,   \* where the next page begins, or which page is next
          rows,     \* the rows of the item being fetched
          read,     \* the rows of all parsed documents
          query,    \* what ECHO keeps under the QueryID
          pending,  \* parsed rows that are still to be normalized
          outcome,  \* what the last one became
          warnings, \* what the connector notes in the document's warnings
          errors    \* what the run summary gets to know

readingVars == <<source, up, always, moved, phase, items, offset, rows, read, query,
                 pending, outcome, warnings, errors>>

vars == <<readingVars, httpVars>>

NoQuery == [result |-> <<>>, expected |-> Unknown]

Init ==
    /\ source \in Sources
    /\ up \in InitialRows
    /\ always = up
    /\ moved = [gone |-> 0, come |-> 0]
    /\ phase = "discover"
    /\ items = <<>>
    /\ offset = 0
    /\ rows = <<>>
    /\ read = <<>>
    /\ query = NoQuery
    /\ pending = <<>>
    /\ outcome = NoOutcome
    /\ warnings = {}
    /\ errors = {}
    /\ HttpInit

-----------------------------------------------------------------------------
(* The source.                                                             *)

Sorted(S) == CHOOSE q \in SetToSeqs(S) : \A i, j \in 1..Len(q) : i < j => q[i] < q[j]

\* The orders in which Socrata may answer: it sorts by day alone.
Orders(S) ==
    {q \in SetToSeqs(S) :
        \A i, j \in 1..Len(q) : i < j /\ q[j] < q[i] => <<q[j], q[i]>> \in Same}

Slice(q, from, size) == SubSeq(q, from + 1, IF from + size < Len(q) THEN from + size ELSE Len(q))

Appear ==
    /\ \E r \in Rows \ up : up' = up \cup {r}
    /\ UNCHANGED always
    /\ moved' = [moved EXCEPT !.come = @ + 1]

Vanish ==
    /\ \E r \in up :
         /\ up' = up \ {r}
         /\ always' = always \ {r}
    /\ moved' = [moved EXCEPT !.gone = @ + 1]

SourceMoves ==
    /\ phase # "done"
    /\ moved.gone + moved.come < MaxMoves
    /\ Appear \/ Vanish
    /\ UNCHANGED <<source, phase, items, offset, rows, read, query, pending, outcome,
                   warnings, errors, httpVars>>

-----------------------------------------------------------------------------
(* The pipeline around the connector.                                      *)

\* The item is parsed, and its rows are normalized before the next item is fetched.
\* A document has the warnings of its fetch and of its parse; no one reads them.
ParseItem(parsed) ==
    /\ read' = read \o parsed
    /\ pending' = parsed
    /\ rows' = <<>>
    /\ items' = Tail(items)
    /\ phase' = "normalize"

\* An error of fetch() or parse() is counted, and the run goes on with the next item.
LoseItem(error) ==
    /\ errors' = errors \cup {error}
    /\ rows' = <<>>
    /\ items' = Tail(items)
    /\ phase' = "normalize"
    /\ UNCHANGED <<read, pending, warnings, query>>

\* A run that discovers nothing is over.
StartFetching(found) ==
    /\ items' = found
    /\ offset' = 0
    /\ phase' = IF found = <<>> THEN "done" ELSE "fetch"

Normalized(data) ==
    CASE source = "assessor" -> NormalizeParcel(data, Redaction, Today)
      [] source = "echo"     -> NormalizeFacility(data, Today)
      [] source = "mesa"     -> NormalizePermit(data)
      [] source = "osm"      -> NormalizeElement(data)
      [] source = "fixture"  -> NormalizeFiling(data)
      [] source = "agendas"  -> NormalizeAgenda(data, Today)
      [] source = "decision" -> NormalizeDecision(data)
      [] source \in Tables    -> NormalizeAreaRow(data)

NormalizeRow ==
    /\ phase = "normalize" /\ pending # <<>>
    /\ pending' = Tail(pending)
    /\ \E data \in RowData[source] : outcome' = Normalized(data)
    /\ UNCHANGED <<source, up, always, moved, phase, items, offset, rows, read, query,
                   warnings, errors, httpVars>>

NextItem ==
    /\ phase = "normalize" /\ pending = <<>>
    /\ phase' = IF items = <<>> THEN "done" ELSE "fetch"
    /\ outcome' = NoOutcome
    /\ UNCHANGED <<source, up, always, moved, items, offset, rows, read, query, pending,
                   warnings, errors, httpVars>>

-----------------------------------------------------------------------------
(* Requests.  A handler runs when the answer of its request is there.      *)

Requests == {"assessor", "mesa", "echo", "osm", "decision"} \cup Tables

\* Only the assessor's discover() makes requests.
NeedsAnswer ==
    /\ source \in Requests
    /\ \/ phase = "discover" /\ source = "assessor"
       \/ phase = "fetch" /\ items # <<>>

StartRequest == NeedsAnswer /\ Request /\ UNCHANGED readingVars

ClientStep == (Send \/ Redirect \/ BackOff \/ Retry) /\ UNCHANGED readingVars

TimePasses == Tick /\ UNCHANGED readingVars

\* What every answer leaves alone.
Unmoved == UNCHANGED <<source, up, always, moved, outcome>>

-----------------------------------------------------------------------------
(* The assessor: pages found by walking offsets, each fetched again later. *)

PageAt(from) == Slice(Sorted(up), from, PageSize)

ExceedsLimit(from) == from + PageSize < Cardinality(up)

\* Mutant: the page ceiling is silent.
SilentCeiling == {}

\* discover() gives up after MaxPages, and says so.
TooManyPages == {"too many pages"}

DiscoverPage ==
    /\ source = "assessor" /\ phase = "discover" /\ Succeed
    /\ LET found == IF PageAt(offset) = <<>> THEN items ELSE Append(items, offset)
           more  == PageAt(offset) # <<>> /\ ExceedsLimit(offset)
       IN  IF more /\ Len(found) < MaxPages
             THEN /\ items' = found
                  /\ offset' = offset + PageSize
                  /\ UNCHANGED <<phase, errors>>
             ELSE /\ StartFetching(found)
                  /\ errors' = errors \cup (IF more THEN TooManyPages ELSE {})
    /\ UNCHANGED <<rows, read, query, pending, warnings>>
    /\ Unmoved

\* A failed request, no JSON, or a service error with status 200: the walk stops.
DiscoverFails ==
    /\ source = "assessor" /\ phase = "discover" /\ (Raise \/ Succeed)
    /\ StartFetching(items)
    /\ errors' = errors \cup {"discovery failed"}
    /\ UNCHANGED <<rows, read, query, pending, warnings>>
    /\ Unmoved

FetchPage ==
    /\ source = "assessor" /\ phase = "fetch" /\ Succeed
    /\ ParseItem(PageAt(Head(items)))
    /\ UNCHANGED <<offset, query, warnings, errors>>
    /\ Unmoved

-----------------------------------------------------------------------------
(* One item per query, or per recorded payload.                            *)

DiscoverQuery ==
    /\ source \in Requests \ {"assessor"} /\ phase = "discover"
    /\ StartFetching(<<source>>)
    /\ UNCHANGED <<rows, read, query, pending, warnings, errors, httpVars>>
    /\ Unmoved

\* An unreadable payload is logged and left out; a missing directory is an error.
DiscoverFixtures ==
    /\ source \in {"fixture", "agendas"} /\ phase = "discover"
    /\ StartFetching(Sorted(IF source = "fixture" THEN up \ Unreadable ELSE up))
    /\ UNCHANGED <<rows, read, query, pending, warnings, errors, httpVars>>
    /\ Unmoved

FetchFixture ==
    /\ source \in {"fixture", "agendas"} /\ phase = "fetch"
    /\ IF Head(items) \in up
         THEN ParseItem(<<Head(items)>>) /\ UNCHANGED <<query, warnings, errors>>
         ELSE LoseItem("fixture not found")
    /\ UNCHANGED <<offset, httpVars>>
    /\ Unmoved

\* A request that failed for good, or an answer that cannot be read, loses the item.
FetchFails ==
    /\ phase = "fetch" /\ (Raise \/ Succeed)
    /\ LoseItem("fetch failed")
    /\ UNCHANGED offset
    /\ Unmoved

-----------------------------------------------------------------------------
(* Mesa: Socrata pages merged into one document.                           *)

Smaller(a, b) == IF a < b THEN a ELSE b

PermitPage(order) == Slice(order, offset, Smaller(PageSize, MaxRows - offset))

\* A page shorter than PageSize is the last one, and MaxRows ends the walk in silence.
IsLastPage(page) == Len(page) < PageSize \/ offset + Len(page) >= MaxRows

FetchPermits ==
    /\ source = "mesa" /\ phase = "fetch" /\ Succeed
    /\ \E order \in Orders(up) :
         LET page == PermitPage(order) IN
         IF IsLastPage(page)
           THEN ParseItem(rows \o page) /\ UNCHANGED offset
           ELSE /\ rows' = rows \o page
                /\ offset' = offset + Len(page)
                /\ UNCHANGED <<read, pending, items, phase>>
    /\ UNCHANGED <<query, warnings, errors>>
    /\ Unmoved

-----------------------------------------------------------------------------
(* ECHO: a query whose result stays, then its pages.  offset is the number *)
(* of the next page, 0 for the query itself.                               *)

Deduplicated(q) ==
    LET First(i) == \A j \in 1..(i - 1) : RegistryOf[q[j]] # RegistryOf[q[i]]
        kept == Sorted({i \in 1..Len(q) : First(i)})
    IN  [n \in 1..Len(kept) |-> q[kept[n]]]

ShortRead(delivered) ==
    IF query.expected # Unknown /\ delivered < query.expected THEN {"short"} ELSE {}

Merged(q) == IF Len(Deduplicated(q)) < Len(q) THEN {"duplicates"} ELSE {}

\* No rows and a warning make an error; rows keep the warning to themselves.
FinishQuery(facilities, notes) ==
    IF facilities = <<>> /\ notes # {}
      THEN LoseItem("no facilities")
      ELSE /\ ParseItem(facilities)
           /\ warnings' = warnings \cup notes
           /\ UNCHANGED <<errors, query>>

FinishPages(facilities, notes) ==
    FinishQuery(Deduplicated(facilities),
                notes \cup ShortRead(Len(facilities)) \cup Merged(facilities))

\* The count may be missing, and so may the rows that are embedded in the answer.
StartQuery ==
    /\ source = "echo" /\ phase = "fetch" /\ offset = 0 /\ Succeed
    /\ \E count \in {Cardinality(up), Unknown}, embedded \in {<<>>, Slice(Sorted(up), 0, PageSize)} :
         IF embedded # <<>> /\ (count = Unknown \/ Len(embedded) >= count)
           THEN FinishQuery(embedded, {}) /\ UNCHANGED offset
           ELSE /\ query' = [result |-> Sorted(up), expected |-> count]
                /\ rows' = embedded
                /\ offset' = 1
                /\ UNCHANGED <<read, pending, items, phase, warnings, errors>>
    /\ Unmoved

\* Throttled, or answered without a QueryID.
QueryIsRefused ==
    /\ source = "echo" /\ phase = "fetch" /\ offset = 0 /\ Succeed
    /\ FinishQuery(<<>>, {"refused"})
    /\ UNCHANGED offset
    /\ Unmoved

\* Rows that came with the query but have no QueryID are all there is.
QueryHasNoId ==
    /\ source = "echo" /\ phase = "fetch" /\ offset = 0 /\ Succeed
    /\ up # {}
    /\ FinishQuery(Slice(Sorted(up), 0, PageSize), {})
    /\ UNCHANGED offset
    /\ Unmoved

IsDelivered(facilities) == query.expected # Unknown /\ Len(facilities) >= query.expected

\* Past the last page an answer is empty; it may be empty before.
FetchFacilities ==
    /\ source = "echo" /\ phase = "fetch" /\ offset > 0 /\ Succeed
    /\ \E page \in {<<>>, Slice(query.result, (offset - 1) * PageSize, PageSize)} :
         LET all == rows \o page IN
         IF page = <<>> \/ IsDelivered(all)
           THEN FinishPages(all, {}) /\ UNCHANGED offset
           ELSE IF offset = MaxPages
             THEN FinishPages(all, {"ceiling"}) /\ UNCHANGED offset
             ELSE /\ rows' = all
                  /\ offset' = offset + 1
                  /\ UNCHANGED <<read, pending, items, phase, warnings, errors, query>>
    /\ Unmoved

-----------------------------------------------------------------------------
(* Sources that answer one request with everything.                        *)

\* Overpass notes a timeout in the remark of an answer that lacks rows.
FetchElements ==
    /\ source = "osm" /\ phase = "fetch" /\ Succeed
    /\ \/ ParseItem(Sorted(up)) /\ UNCHANGED warnings
       \/ \E n \in 0..Cardinality(up) :
            ParseItem(Slice(Sorted(up), 0, n)) /\ warnings' = warnings \cup {"remark"}
    /\ UNCHANGED <<offset, query, errors>>
    /\ Unmoved

FetchDecision ==
    /\ source = "decision" /\ phase = "fetch" /\ Succeed
    /\ ParseItem(Sorted(up))
    /\ UNCHANGED <<offset, query, warnings, errors>>
    /\ Unmoved

\* The rows of a table that become area totals; none when the file has no year.
TotalRows(S) ==
    LET table == {TableRow[r] : r \in S}
        kept  == CASE source = "water"    -> CountyRows(table, Areas)
                   [] source = "capacity" -> CapacityRows(table, RequestedYear, Areas)
                   [] source = "sales"    -> SalesRows(table, RequestedYear, Areas)
    IN  {r \in S : YearsOf(table) # {} /\ TableRow[r] \in kept}

\* A file without usable rows is a parse error.
FetchTable ==
    /\ source \in Tables /\ phase = "fetch" /\ Succeed
    /\ IF TotalRows(up) = {}
         THEN LoseItem("no area rows")
         ELSE ParseItem(Sorted(TotalRows(up))) /\ UNCHANGED <<query, warnings, errors>>
    /\ UNCHANGED offset
    /\ Unmoved

-----------------------------------------------------------------------------
Handle ==
    \/ DiscoverPage \/ DiscoverFails \/ FetchPage \/ FetchFails
    \/ FetchPermits
    \/ StartQuery \/ QueryIsRefused \/ QueryHasNoId \/ FetchFacilities
    \/ FetchElements \/ FetchDecision \/ FetchTable

Local == DiscoverQuery \/ DiscoverFixtures \/ FetchFixture \/ NormalizeRow \/ NextItem

Next == StartRequest \/ ClientStep \/ TimePasses \/ Handle \/ Local \/ SourceMoves

\* The process runs, time passes, and a request is answered or times out.
Fairness ==
    /\ WF_vars(StartRequest)
    /\ WF_vars(ClientStep)
    /\ WF_vars(TimePasses)
    /\ WF_vars(Handle)
    /\ WF_vars(Local)

Spec == Init /\ [][Next]_vars /\ Fairness

-----------------------------------------------------------------------------
TypeOK ==
    /\ HttpTypeOK
    /\ source \in Sources
    /\ always \subseteq up /\ up \subseteq Rows
    /\ moved \in [gone : Nat, come : Nat]
    /\ phase \in {"discover", "fetch", "normalize", "done"}
    /\ offset \in Nat
    /\ \A q \in {rows, read, query.result, pending} : q \in Seq(Rows)

\* Rows that the source held from the first request to the last.  Of an ECHO registry
\* one row is enough, and of a table the rows of other years are not wanted.
Wanted == IF source \in Tables THEN {} ELSE always

IsRead(r) ==
    \E i \in 1..Len(read) :
        IF source = "echo" THEN RegistryOf[read[i]] = RegistryOf[r] ELSE read[i] = r

IsTied(r) == \E q \in Rows : <<q, r>> \in Same \/ <<r, q>> \in Same

\* What can make a reading miss a row and say nothing: a row before it has gone between
\* two pages, or changed places with its equal; a row that came has pushed it past the
\* pages the assessor's discover() found; the row limit; an ECHO answer without a count;
\* a recorded payload that cannot be read.
MayMissInSilence(r) ==
    \/ source = "assessor" /\ moved.gone + moved.come > 0
    \/ source = "mesa" /\ moved.gone > 0
    \/ source = "mesa" /\ (Len(read) >= MaxRows \/ IsTied(r))
    \/ source = "echo" /\ query.expected = Unknown
    \/ source = "fixture" /\ r \in Unreadable

MayRepeat(r) == source \in {"assessor", "mesa"} /\ (moved.come > 0 \/ IsTied(r))

\* A row that was there all the time has been read once when the reading is over, or
\* the reading reports an error or a warning, or it is one of the cases above (the
\* paging of maricopa_assessor.py:247-313, mesa_permits.py:164-208, epa_echo.py:345-438).
ReadingIsExplained ==
    phase = "done" =>
        /\ \A r \in Wanted :
             IsRead(r) \/ errors # {} \/ warnings # {} \/ MayMissInSilence(r)
        /\ \A i, j \in 1..Len(read) : i # j /\ read[i] = read[j] => MayRepeat(read[i])

\* With the policy on, no record spells out the name of a private person or of a
\* family trust: not in its payload, its fields, or the evidence drawn from it.
SuppressedNamesStayOut ==
    outcome # NoOutcome /\ outcome.result = "record" /\ Redaction =>
        \A name \in outcome.names : ~IsPersonal(name)

\* No state is counted twice, by its total and by a part of it, or for two years
\* (area_totals.py:525: "the other provider categories are subsets of it and would
\* double count").
AreaTotalsAreSingle ==
    source \in {"capacity", "sales"} =>
        \A i, j \in 1..Len(read) :
            TableRow[read[i]].area = TableRow[read[j]].area => i = j

\* Every reading ends, however often the source fails or changes.
EveryReadingEnds == <>(phase = "done")

=============================================================================
