------------------------ MODULE SourceReadingProofs ------------------------
(* What holds of a reading whatever the source holds, answers and changes:  *)
(* the client's rate, the policy on personal names, and what is read of it. *)
EXTENDS SourceReading, FiniteSetTheorems, SequenceTheorems, TLAPS

-----------------------------------------------------------------------------
(* The rate limit, for every rate, lateness, retry limit and backoff.      *)

\* While a slot is reserved and unused, the ticks of two slots are still to come or already
\* in the bucket; after it those of one slot and of the redirects it may still follow.  The
\* reservation is never further away than the wait and the interval, less what it is late by.
RateInv ==
    /\ HttpTypeOK
    /\ PerSlot > MaxRedirects
    /\ credit <= Capacity
    /\ step = "waiting" =>
         /\ sleep > 0 => late = 0 /\ due = sleep + Interval
         /\ sleep = 0 => due + late >= Interval /\ due <= Interval
         /\ credit + PerSlot * due >= 2 * (PerSlot * Interval)
         /\ hops = 0
    /\ step = "sent" =>
         /\ due <= Interval
         /\ credit + PerSlot * due >= 2 * (PerSlot * Interval) - (hops + 1) * Interval
    /\ step \notin {"waiting", "sent"} => credit + PerSlot * due >= PerSlot * Interval
    /\ step = "backoff" => attempt < MaxRetries
    /\ credit >= 0

LEMMA InitialRate == PerSlot > MaxRedirects /\ HttpInit => RateInv
<1> SUFFICES ASSUME PerSlot > MaxRedirects, HttpInit PROVE RateInv
  OBVIOUS
<1> USE HttpClientAssumption
<1>1. PerSlot * (Interval + MaxOver) = PerSlot * Interval + PerSlot * MaxOver
  OBVIOUS
<1>2. PerSlot * MaxOver >= 0 /\ PerSlot * Interval >= 0 /\ (PerSlot - 1) * Interval >= 0
  OBVIOUS
<1>3. PerSlot * Interval \in Int /\ PerSlot * MaxOver \in Int /\ (PerSlot - 1) * Interval \in Int
  OBVIOUS
<1>4. Capacity \in Int /\ Capacity >= PerSlot * Interval
  BY <1>1, <1>2, <1>3 DEF Capacity
<1>5. PerSlot * 0 = 0
  OBVIOUS
<1> QED
  BY <1>2, <1>3, <1>4, <1>5 DEF HttpInit, RateInv, HttpTypeOK

\* One step of the client keeps the invariant.
LEMMA RateStep == RateInv /\ [HttpNext]_httpVars => RateInv'
<1> SUFFICES ASSUME RateInv, [HttpNext]_httpVars PROVE RateInv'
  OBVIOUS
<1> DEFINE slot == PerSlot * Interval
           over == PerSlot * MaxOver
           spare == (PerSlot - 1) * Interval
           coming == PerSlot * due
           used == (hops + 1) * Interval
<1>1. /\ Interval \in Nat \ {0} /\ MaxOver \in Nat /\ MaxRetries \in Nat /\ Delays \subseteq Nat
      /\ MaxRedirects \in Nat /\ PerSlot \in Nat \ {0} /\ PerSlot > MaxRedirects
      /\ HttpTypeOK
  BY HttpClientAssumption DEF RateInv
<1>2. /\ slot \in Nat /\ over \in Nat /\ spare \in Nat /\ coming \in Nat /\ used \in Nat
      /\ slot = spare + Interval
  BY <1>1 DEF HttpTypeOK
<1>3. Capacity = slot + over + spare
  BY <1>1 DEF Capacity
<1>4. PerSlot * (due + Interval) = coming + slot
  BY <1>1 DEF HttpTypeOK
<1>5. due > 0 => PerSlot * (due - 1) = coming - PerSlot
  BY <1>1 DEF HttpTypeOK
<1>6. due <= Interval => coming <= slot
  BY <1>1 DEF HttpTypeOK
<1>7. hops < PerSlot => used <= slot
  BY <1>1 DEF HttpTypeOK
<1>8. /\ (hops + 1 + 1) * Interval = used + Interval
      /\ hops < MaxRedirects => used + Interval <= slot
  <2>1. (hops + 1 + 1) * Interval = used + Interval
    BY <1>1 DEF HttpTypeOK
  <2>2. hops < MaxRedirects => hops + 1 + 1 <= PerSlot
    BY <1>1 DEF HttpTypeOK
  <2>3. hops + 1 + 1 <= PerSlot => (hops + 1 + 1) * Interval <= slot
    BY <1>1 DEF HttpTypeOK
  <2> QED
    BY <2>1, <2>2, <2>3
<1>9. hops < PerSlot
  BY <1>1 DEF HttpTypeOK
<1>10. due + MaxOver >= Interval => coming + over >= slot
  <2>1. PerSlot * (due + MaxOver) = coming + over
    BY <1>1 DEF HttpTypeOK
  <2>2. due + MaxOver >= Interval => PerSlot * (due + MaxOver) >= slot
    BY <1>1 DEF HttpTypeOK
  <2> QED
    BY <2>1, <2>2
<1> HIDE DEF slot, over, spare, coming, used
<1>11. /\ credit \in Int /\ credit >= 0 /\ credit <= slot + over + spare
       /\ step = "waiting" =>
            /\ sleep > 0 => late = 0 /\ due = sleep + Interval
            /\ sleep = 0 => due + late >= Interval /\ due <= Interval
            /\ credit + coming >= 2 * slot
            /\ hops = 0
       /\ step = "sent" => due <= Interval /\ credit + coming >= 2 * slot - used
       /\ step \notin {"waiting", "sent"} => credit + coming >= slot
       /\ step = "backoff" => attempt < MaxRetries
       /\ step \in {"idle", "waiting", "sent", "backoff"} /\ attempt \in 0..MaxRetries
       /\ sleep \in Nat /\ late \in 0..MaxOver /\ due \in Nat /\ hops \in 0..MaxRedirects
  BY <1>1, <1>3 DEF RateInv, HttpTypeOK, slot, coming, used
\* Whatever the step, the sum of what is there and what is still to come covers a slot.
<1>12. credit + coming >= slot
  BY <1>2, <1>7, <1>9, <1>11
\* What has to be shown of the next state, in these terms.
<1>13. ASSUME HttpTypeOK', credit' <= slot + over + spare, credit' >= 0,
              step' = "waiting" =>
                /\ sleep' > 0 => late' = 0 /\ due' = sleep' + Interval
                /\ sleep' = 0 => due' + late' >= Interval /\ due' <= Interval
                /\ credit' + PerSlot * due' >= 2 * slot
                /\ hops' = 0,
              step' = "sent" =>
                due' <= Interval /\ credit' + PerSlot * due' >= 2 * slot - (hops' + 1) * Interval,
              step' \notin {"waiting", "sent"} => credit' + PerSlot * due' >= slot,
              step' = "backoff" => attempt' < MaxRetries
       PROVE  RateInv'
  BY <1>1, <1>3, <1>13 DEF RateInv, slot, Capacity
<1>14. ASSUME Acquire, attempt' \in 0..MaxRetries PROVE RateInv'
  <2>1. /\ step' = "waiting" /\ sleep' = due /\ late' = 0 /\ due' = due + Interval
        /\ hops' = 0 /\ credit' = credit
    BY <1>14 DEF Acquire, Reserved
  <2>2. PerSlot * due' = coming + slot
    BY <1>4, <2>1
  <2>3. HttpTypeOK'
    BY <1>1, <1>11, <1>14, <2>1 DEF HttpTypeOK
  <2>4. credit' + PerSlot * due' >= 2 * slot
    BY <1>2, <1>11, <1>12, <2>1, <2>2
  <2> QED
    BY <1>1, <1>11, <1>13, <2>1, <2>3, <2>4
<1>15. CASE Request
  BY <1>1, <1>14, <1>15 DEF Request
<1>16. CASE Retry
  <2>1. attempt' = attempt + 1 /\ step = "backoff" /\ Acquire
    BY <1>16 DEF Retry, NextAttempt
  <2>2. attempt' \in 0..MaxRetries
    BY <1>1, <1>11, <2>1
  <2> QED
    BY <1>14, <2>1, <2>2
<1>17. CASE Send
  <2>1. /\ step = "waiting" /\ sleep = 0 /\ step' = "sent" /\ late' = 0
        /\ credit' = credit - Interval /\ UNCHANGED <<attempt, sleep, due, hops>> /\ hops' = 0
    BY <1>11, <1>17 DEF Send
  <2>2. HttpTypeOK'
    BY <1>1, <1>11, <2>1 DEF HttpTypeOK
  <2>3. PerSlot * due' = coming /\ (hops' + 1) * Interval = Interval
    BY <1>1, <2>1 DEF coming
  <2>4. credit >= slot
    BY <1>2, <1>6, <1>11, <2>1
  <2>5. credit' >= 0 /\ credit' <= slot + over + spare
    BY <1>1, <1>2, <1>11, <2>1, <2>4
  <2>6. credit' + PerSlot * due' >= 2 * slot - (hops' + 1) * Interval
    BY <1>1, <1>2, <1>11, <2>1, <2>3
  <2> QED
    BY <1>11, <1>13, <2>1, <2>2, <2>5, <2>6
<1>18. CASE Redirect
  <2>1. /\ step = "sent" /\ hops < MaxRedirects /\ hops' = hops + 1
        /\ credit' = credit - Interval /\ UNCHANGED <<step, attempt, sleep, late, due>>
    BY <1>18 DEF Redirect
  <2>2. HttpTypeOK'
    BY <1>1, <1>11, <2>1 DEF HttpTypeOK
  <2>3. PerSlot * due' = coming /\ (hops' + 1) * Interval = used + Interval
    BY <1>8, <2>1 DEF coming
  <2>4. credit >= 2 * slot - used - slot
    BY <1>2, <1>6, <1>11, <2>1
  <2>5. credit' >= 0 /\ credit' <= slot + over + spare
    BY <1>1, <1>2, <1>8, <1>11, <2>1, <2>4
  <2>6. credit' + PerSlot * due' >= 2 * slot - (hops' + 1) * Interval
    BY <1>1, <1>2, <1>11, <2>1, <2>3
  <2> QED
    BY <1>11, <1>13, <2>1, <2>2, <2>5, <2>6
<1>19. CASE BackOff
  <2>1. /\ step' = "backoff" /\ attempt < MaxRetries /\ sleep' \in Delays
        /\ UNCHANGED <<attempt, late, due, hops, credit>>
    BY <1>19 DEF BackOff, Retryable
  <2>2. HttpTypeOK'
    BY <1>1, <1>11, <2>1 DEF HttpTypeOK
  <2>3. credit' + PerSlot * due' >= slot
    BY <1>12, <2>1 DEF coming
  <2> QED
    BY <1>11, <1>13, <2>1, <2>2, <2>3
<1>20. CASE Raise \/ Succeed
  <2>1. /\ step' = "idle" /\ attempt' = 0 /\ hops' = 0
        /\ UNCHANGED <<sleep, late, due, credit>>
    BY <1>20 DEF Raise, Succeed, Return
  <2>2. HttpTypeOK'
    BY <1>1, <1>11, <2>1 DEF HttpTypeOK
  <2>3. credit' + PerSlot * due' >= slot
    BY <1>12, <2>1 DEF coming
  <2> QED
    BY <1>11, <1>13, <2>1, <2>2, <2>3
<1>21. CASE Tick
  <2>1. /\ step = "waiting" /\ sleep = 0 => late < MaxOver
        /\ sleep' = IF sleep > 0 THEN sleep - 1 ELSE 0
        /\ late' = IF step = "waiting" /\ sleep = 0 THEN late + 1 ELSE late
        /\ due' = IF due > 0 THEN due - 1 ELSE 0
        /\ UNCHANGED <<step, attempt, hops>>
    BY <1>21 DEF Tick
  <2>2. credit' = IF credit + PerSlot < slot + over + spare THEN credit + PerSlot
                  ELSE slot + over + spare
    BY <1>3, <1>21 DEF Tick
  <2>3. HttpTypeOK'
    BY <1>1, <1>2, <1>11, <2>1, <2>2 DEF HttpTypeOK
  <2>4. credit' >= 0 /\ credit' <= slot + over + spare
    BY <1>1, <1>2, <1>11, <2>2
  <2>5. /\ PerSlot * due' = IF due > 0 THEN coming - PerSlot ELSE 0
        /\ due = 0 => coming = 0
        /\ PerSlot * due' \in Nat
    BY <1>1, <1>5, <1>11, <2>1 DEF coming
  <2>6. PICK filled, ahead, next : filled = credit' /\ ahead = due' /\ next = PerSlot * ahead
    OBVIOUS
  <2>7. /\ next = IF due > 0 THEN coming - PerSlot ELSE 0
        /\ due = 0 => coming = 0
        /\ next \in Nat /\ filled \in Int /\ ahead \in Nat
        /\ credit \in Int /\ coming \in Nat /\ slot \in Nat /\ over \in Nat /\ spare \in Nat
        /\ used \in Nat
    BY <1>2, <1>11, <2>3, <2>5, <2>6 DEF HttpTypeOK
  \* Either the bucket has gained what the reservation has come nearer, or it is full.
  <2>8. filled + next >= credit + coming \/ filled = slot + over + spare
    <3>1. CASE credit + PerSlot < slot + over + spare
      <4>1. filled = credit + PerSlot
        BY <2>2, <2>6, <3>1
      <4>2. PerSlot \in Nat /\ due \in Nat
        BY <1>1, <1>11
      <4>3. next >= coming - PerSlot
        BY <2>7, <4>2
      <4> QED
        BY <2>7, <4>1, <4>2, <4>3
    <3>2. CASE ~(credit + PerSlot < slot + over + spare)
      BY <2>2, <2>6, <3>2
    <3> QED
      BY <3>1, <3>2
  <2>9. step' = "waiting" =>
          /\ sleep' > 0 => late' = 0 /\ due' = sleep' + Interval
          /\ sleep' = 0 => due' + late' >= Interval /\ due' <= Interval
          /\ hops' = 0
    BY <1>1, <1>11, <2>1
  <2>10. ASSUME step = "waiting" PROVE filled + next >= 2 * slot
    <3>1. CASE filled + next >= credit + coming
      <4>1. credit + coming >= 2 * slot
        BY <1>11, <2>10
      <4> QED
        BY <2>7, <3>1, <4>1
    <3>2. CASE filled = slot + over + spare
      <4>1. ahead + MaxOver >= Interval
        BY <1>1, <1>11, <2>1, <2>6, <2>10
      <4>2. PerSlot * (ahead + MaxOver) = next + over
        BY <1>1, <2>6, <2>7 DEF over
      <4>3. PerSlot * (ahead + MaxOver) >= slot
        BY <1>1, <2>7, <4>1 DEF slot
      <4> QED
        BY <2>7, <3>2, <4>2, <4>3
    <3> QED
      BY <2>8, <3>1, <3>2
  <2>11. ASSUME step = "sent"
         PROVE  ahead <= Interval /\ filled + next >= 2 * slot - used
    <3>1. ahead <= Interval
      BY <1>1, <1>11, <2>1, <2>6, <2>11
    <3>2. used >= Interval
      BY <1>1, <1>11 DEF used
    <3>3. CASE filled + next >= credit + coming
      <4>1. credit + coming >= 2 * slot - used
        BY <1>11, <2>11
      <4> QED
        BY <2>7, <3>1, <3>3, <4>1
    <3>4. CASE filled = slot + over + spare
      <4>1. slot = spare + Interval /\ Interval \in Nat
        BY <1>1, <1>2
      <4> QED
        BY <2>7, <3>1, <3>2, <3>4, <4>1
    <3> QED
      BY <2>8, <3>3, <3>4
  <2>12. filled + next >= slot
    BY <1>12, <2>7, <2>8
  <2>13. (hops' + 1) * Interval = used
    BY <2>1 DEF used
  <2> QED
    BY <1>11, <1>13, <2>1, <2>3, <2>4, <2>6, <2>9, <2>10, <2>11, <2>12, <2>13
<1>22. CASE UNCHANGED httpVars
  BY <1>22 DEF httpVars, RateInv, HttpTypeOK, Capacity
<1> QED
  BY <1>15, <1>16, <1>17, <1>18, <1>19, <1>20, <1>21, <1>22 DEF HttpNext

\* Over any T ticks the client sends at most (2 * PerSlot - 1) + PerSlot * (T + MaxOver) /
\* Interval requests, first attempts, retries and redirects together, when PerSlot allows
\* for an attempt and all its redirects; without redirects that is the declared rate.
THEOREM RateKept == PerSlot > MaxRedirects /\ HttpSpec => []RateIsKept
<1>1. PerSlot > MaxRedirects /\ HttpSpec => []RateInv
  BY InitialRate, RateStep, PTL DEF HttpSpec
<1>2. RateInv => RateIsKept
  BY DEF RateInv, RateIsKept
<1> QED
  BY <1>1, <1>2, PTL

-----------------------------------------------------------------------------
(* A reading.                                                              *)

\* Every step of a reading is a step of its HTTP client, or leaves the client alone.
LEMMA ReadingIsClient == [Next]_vars => [HttpNext]_httpVars
<1> SUFFICES ASSUME [Next]_vars PROVE [HttpNext]_httpVars
  OBVIOUS
<1>1. CASE StartRequest
  BY <1>1 DEF StartRequest, HttpNext
<1>2. CASE ClientStep
  BY <1>2 DEF ClientStep, HttpNext
<1>3. CASE TimePasses
  BY <1>3 DEF TimePasses, HttpNext
<1>4. CASE Handle
  BY <1>4 DEF Handle, HttpNext, DiscoverPage, DiscoverFails, FetchPage, FetchFails,
       FetchPermits, StartQuery, QueryIsRefused, QueryHasNoId, FetchFacilities,
       FetchElements, FetchDecision, FetchTable
<1>5. CASE Local
  BY <1>5 DEF Local, DiscoverQuery, DiscoverFixtures, FetchFixture, NormalizeRow, NextItem
<1>6. CASE SourceMoves
  BY <1>6 DEF SourceMoves
<1>7. CASE UNCHANGED vars
  BY <1>7 DEF vars
<1> QED
  BY <1>1, <1>2, <1>3, <1>4, <1>5, <1>6, <1>7 DEF Next

\* A reading never asks its host for more than that, through all its pages, retries,
\* redirects and late wake-ups.
THEOREM ReadingKeepsRate == PerSlot > MaxRedirects /\ Spec => []RateIsKept
<1>1. PerSlot > MaxRedirects /\ Init => RateInv
  BY InitialRate DEF Init
<1>2. RateInv /\ [Next]_vars => RateInv'
  BY ReadingIsClient, RateStep
<1>3. RateInv => RateIsKept
  BY DEF RateInv, RateIsKept
<1> QED
  BY <1>1, <1>2, <1>3, PTL DEF Spec

-----------------------------------------------------------------------------
\* Only an organization or a utility is suspected to be a shell.
LEMMA ShellsAreNotPersonal ==
  ASSUME NEW name, IsSuspectedShell(name) PROVE ~IsPersonal(name)
  BY DEF IsSuspectedShell, IsPersonal

\* What the policy lets be stored is not a private person's name.
LEMMA StoredIsNotPersonal ==
  ASSUME NEW name, StorableName(name, TRUE) # NoName
  PROVE  StorableName(name, TRUE) = name /\ ~IsPersonal(name)
  BY DEF StorableName

\* Neither the fields nor the evidence of a parcel spell out a private person's name.
LEMMA ParcelNames ==
  ASSUME NEW row, NEW today,
         NEW name \in NamesInFields(row, TRUE) \cup NamesInEvidence(row)
  PROVE  ~IsPersonal(name)
<1>1. CASE name \in NamesInFields(row, TRUE)
  BY <1>1, StoredIsNotPersonal DEF NamesInFields
<1>2. CASE name \in NamesInEvidence(row)
  <2>1. name = row.owner /\ ShellOwnership(row) # {}
    BY <1>2 DEF NamesInEvidence
  <2>2. IsSuspectedShell(row.owner)
    BY <2>1 DEF ShellOwnership
  <2> QED
    BY <2>1, <2>2, ShellsAreNotPersonal
<1> QED
  BY <1>1, <1>2

\* No connector makes a record that spells out a private person's name.
LEMMA NormalizedNames ==
  ASSUME NEW data, Redaction, Redaction \in BOOLEAN,
         source \in Connectors,
         Normalized(data).result = "record",
         NEW name \in Normalized(data).names
  PROVE  ~IsPersonal(name)
<1>1. CASE source = "assessor"
  <2>1. Normalized(data) = NormalizeParcel(data, TRUE, Today)
    BY <1>1 DEF Normalized, Tables
  <2>2. data.apn # "" /\ ~data.malformed
    <3>1. Skipped.result # "record" /\ Rejected.result # "record"
      BY DEF Skipped, Rejected
    <3>2. NormalizeParcel(data, TRUE, Today).result = "record"
      BY <2>1
    <3> QED
      BY <3>1, <3>2 DEF NormalizeParcel
  <2>3. Normalized(data) =
          Record("parcel", data.apn,
                 DataCenterClassification(data, Today) \cup LargeAcquisition(data)
                     \cup ShellOwnership(data),
                 NamesInFields(data, TRUE) \cup NamesInEvidence(data))
    BY <2>1, <2>2 DEF NormalizeParcel
  <2>4. Normalized(data).names = NamesInFields(data, TRUE) \cup NamesInEvidence(data)
    BY <2>3 DEF Record
  <2> QED
    BY <2>4, ParcelNames
<1>2. CASE source = "echo"
  BY <1>2 DEF Normalized, Tables, NormalizeFacility, Record, Filtered, Rejected
<1>3. CASE source = "mesa"
  BY <1>3 DEF Normalized, Tables, NormalizePermit, Record, Filtered, Rejected
<1>4. CASE source = "osm"
  BY <1>4 DEF Normalized, Tables, NormalizeElement, NormalizeSubstation, NormalizeLine, Record,
       Filtered, Skipped
<1>5. CASE source = "fixture"
  BY <1>5 DEF Normalized, Tables, NormalizeFiling, Record, Rejected
<1>6. CASE source = "agendas"
  BY <1>6 DEF Normalized, Tables, NormalizeAgenda, Record, Filtered
<1>7. CASE source = "decision"
  BY <1>7 DEF Normalized, Tables, NormalizeDecision, Record
<1>8. CASE source \in Tables
  BY <1>8 DEF Normalized, Tables, NormalizeAreaRow, Record
<1> QED
  BY <1>1, <1>2, <1>3, <1>4, <1>5, <1>6, <1>7, <1>8 DEF Connectors, Tables

KnownSource == source \in Connectors

\* The name of a private person or of a family trust is in no record of any reading: not
\* in the fields the policy governs, and not in the evidence that quotes the raw name.
THEOREM NamesStayOut == Spec => []SuppressedNamesStayOut
<1> USE SourceReadingAssumption
<1>1. Init => KnownSource /\ SuppressedNamesStayOut
  BY DEF Init, KnownSource, SuppressedNamesStayOut
<1>2. KnownSource /\ SuppressedNamesStayOut /\ [Next]_vars
        => KnownSource' /\ SuppressedNamesStayOut'
  <2> SUFFICES ASSUME KnownSource, SuppressedNamesStayOut, [Next]_vars
               PROVE  KnownSource' /\ SuppressedNamesStayOut'
    OBVIOUS
  <2>1. CASE NormalizeRow
    <3>1. PICK data \in RowData[source] : outcome' = Normalized(data)
      BY <2>1 DEF NormalizeRow
    <3>2. KnownSource'
      BY <2>1 DEF NormalizeRow, KnownSource
    <3>3. SuppressedNamesStayOut'
      BY <3>1, NormalizedNames DEF SuppressedNamesStayOut, KnownSource
    <3> QED
      BY <3>2, <3>3
  <2>2. CASE NextItem
    BY <2>2 DEF NextItem, KnownSource, SuppressedNamesStayOut
  <2>3. CASE UNCHANGED <<source, outcome>>
    BY <2>3 DEF KnownSource, SuppressedNamesStayOut
  <2>4. NormalizeRow \/ NextItem \/ UNCHANGED <<source, outcome>>
    BY DEF Next, vars, readingVars, Unmoved, StartRequest, ClientStep, TimePasses, Handle,
         Local, SourceMoves, DiscoverPage, DiscoverFails, FetchPage, FetchFails,
         FetchPermits, StartQuery, QueryIsRefused, QueryHasNoId, FetchFacilities,
         FetchElements, FetchDecision, FetchTable, DiscoverQuery, DiscoverFixtures,
         FetchFixture
  <2> QED
    BY <2>1, <2>2, <2>3, <2>4
<1> QED
  BY <1>1, <1>2, PTL DEF Spec

-----------------------------------------------------------------------------
(* Rows in order                                                           *)

Elements(q) == {q[i] : i \in DOMAIN q}

\* The place of x among the rows S when they are sorted.
Place(S, x) == Cardinality({y \in S : y <= x})

Injective(q) == \A i, j \in DOMAIN q : q[i] = q[j] => i = j

Increasing(q) == \A i, j \in DOMAIN q : i < j => q[i] < q[j]

LEMMA FirstNumbers ==
    ASSUME NEW n \in Nat PROVE IsFiniteSet(1..n) /\ Cardinality(1..n) = n
<1>1. IsFiniteSet(1..n) /\ Cardinality(1..n) = IF 1 > n THEN 0 ELSE n - 1 + 1
  BY FS_Interval
<1> QED
  BY <1>1

\* A place is a number from 1 on, and at most that of the last row.
LEMMA PlaceInRange ==
    ASSUME NEW S, IsFiniteSet(S), S \subseteq Nat, NEW x \in Nat
    PROVE  /\ Place(S, x) \in Nat /\ Cardinality(S) \in Nat /\ Place(S, x) <= Cardinality(S)
           /\ x \in S => Place(S, x) >= 1
<1> DEFINE T == {y \in S : y <= x}
<1>1. IsFiniteSet(T) /\ Cardinality(T) <= Cardinality(S)
  BY FS_Subset
<1>2. Cardinality(T) \in Nat /\ Cardinality(S) \in Nat
  BY <1>1, FS_CardinalityType
<1>3. ASSUME x \in S PROVE Cardinality(T) >= 1
  <2>1. x \in T
    BY <1>3
  <2>2. Cardinality(T) # 0
    BY <1>1, <2>1, FS_EmptySet
  <2> QED
    BY <1>2, <2>2
<1> QED
  BY <1>1, <1>2, <1>3 DEF Place

\* Fewer rows, no later place.
LEMMA PlaceInFewer ==
    ASSUME NEW S, NEW T, IsFiniteSet(T), T \subseteq Nat, S \subseteq T, NEW x \in Nat
    PROVE  /\ Place(S, x) \in Nat /\ Place(T, x) \in Nat /\ Place(S, x) <= Place(T, x)
           /\ IsFiniteSet(S)
<1> DEFINE V == {y \in T : y <= x}
           W == {y \in S : y <= x}
<1>1. IsFiniteSet(V) /\ IsFiniteSet(S)
  BY FS_Subset
<1>2. IsFiniteSet(W) /\ Cardinality(W) <= Cardinality(V)
  BY <1>1, FS_Subset
<1>3. Cardinality(W) \in Nat /\ Cardinality(V) \in Nat
  BY <1>1, <1>2, FS_CardinalityType
<1> QED
  BY <1>1, <1>2, <1>3 DEF Place

\* A later row has a later place.
LEMMA PlaceGrows ==
    ASSUME NEW S, IsFiniteSet(S), S \subseteq Nat, NEW x \in Nat, NEW y \in S, x < y
    PROVE  Place(S, x) < Place(S, y)
<1> DEFINE V == {z \in S : z <= y}
           W == {z \in S : z <= x}
<1>1. IsFiniteSet(V)
  BY FS_Subset
<1>2. \A z \in W : z \in V
  BY SMT
<1>3. y \in V /\ y \notin W
  BY SMT
<1>4. V # W
  BY <1>3
<1> HIDE DEF V, W
<1>5. IsFiniteSet(W) /\ Cardinality(W) <= Cardinality(V) /\ Cardinality(W) # Cardinality(V)
  <2>1. W \in SUBSET V
    BY <1>2
  <2> QED
    BY <1>1, <1>4, <2>1, FS_Subset
<1>6. Cardinality(W) \in Nat /\ Cardinality(V) \in Nat
  BY <1>1, <1>5, FS_CardinalityType
<1> QED
  BY <1>5, <1>6 DEF Place, V, W

\* An order of a finite set has each of its rows once.
LEMMA OrderHasAll ==
    ASSUME NEW S, IsFiniteSet(S), NEW q \in SetToSeqs(S)
    PROVE  /\ q \in Seq(S) /\ Len(q) = Cardinality(S) /\ Len(q) \in Nat /\ DOMAIN q = 1..Len(q)
           /\ Injective(q) /\ Elements(q) = S
<1> DEFINE n == Cardinality(S)
           D == 1..n
<1>1. n \in Nat
  BY FS_CardinalityType
<1>2. q \in [D -> S] /\ \A i, j \in D : i # j => q[i] # q[j]
  BY DEF SetToSeqs
<1>3. IsFiniteSet(D) /\ Cardinality(D) = n
  BY <1>1, FirstNumbers
<1>4. q \in Seq(S) /\ Len(q) = n
  BY <1>1, <1>2
<1> HIDE DEF D
<1>5. q \in Injection(D, S)
  BY <1>2 DEF Injection, IsInjective
<1>6. q \in Surjection(D, S)
  BY <1>3, <1>5, FS_Injection
<1>7. Elements(q) = S
  BY <1>2, <1>6 DEF Surjection, Elements
<1>8. Injective(q)
  BY <1>2 DEF Injective
<1>9. DOMAIN q = D
  BY <1>2
<1> QED
  BY <1>1, <1>4, <1>7, <1>8, <1>9 DEF D

\* A row that has only smaller ones before it and only larger ones after it is at its place.
LEMMA AtItsPlace ==
    ASSUME NEW S, IsFiniteSet(S), S \subseteq Nat, NEW q \in SetToSeqs(S), NEW p \in DOMAIN q,
           \A i \in DOMAIN q : (i < p => q[i] < q[p]) /\ (p < i => q[p] < q[i])
    PROVE  Place(S, q[p]) = p
<1> DEFINE D == 1..p
           T == {y \in S : y <= q[p]}
           f == [i \in D |-> q[i]]
<1>1. /\ Len(q) \in Nat /\ DOMAIN q = 1..Len(q) /\ Injective(q) /\ Elements(q) = S
  BY OrderHasAll
<1>2. p \in Nat /\ p >= 1 /\ D \subseteq DOMAIN q
  BY <1>1
<1>3. \A i \in DOMAIN q : i \in Nat /\ q[i] \in S /\ q[i] \in Nat
  <2>1. \A i \in DOMAIN q : q[i] \in S
    BY <1>1 DEF Elements
  <2>2. \A i \in DOMAIN q : i \in Nat
    BY <1>1
  <2> QED
    BY <2>1, <2>2
<1>4. \A i \in D : q[i] \in T
  <2> SUFFICES ASSUME NEW i \in D PROVE q[i] <= q[p]
    BY <1>2, <1>3
  <2>1. i = p \/ i < p
    BY <1>2
  <2> QED
    BY <1>2, <1>3, <2>1
<1>5. \A y \in T : \E i \in D : q[i] = y
  <2> SUFFICES ASSUME NEW i \in DOMAIN q, q[i] <= q[p] PROVE i \in D
    BY <1>1 DEF Elements
  <2>1. ~ (p < i)
    BY <1>3
  <2> QED
    BY <1>1, <1>2, <2>1
<1>6. IsFiniteSet(D) /\ Cardinality(D) = p
  BY <1>2, FirstNumbers
<1> HIDE DEF D, T
<1>7. f \in Surjection(D, T)
  BY <1>4, <1>5 DEF Surjection
<1>8. f \in Injection(D, T)
  BY <1>1, <1>2, <1>4 DEF Injection, IsInjective, Injective
<1>9. Cardinality(T) = Cardinality(D)
  BY <1>6, <1>7, <1>8, FS_Surjection
<1> QED
  BY <1>6, <1>9 DEF Place, T

\* A finite set of rows can be sorted: the row at n is the one whose place is n.
LEMMA SortedExists ==
    ASSUME NEW S, IsFiniteSet(S), S \subseteq Nat
    PROVE  \E q \in SetToSeqs(S) : Increasing(q)
<1> DEFINE n == Cardinality(S)
           D == 1..n
           f == [x \in S |-> Place(S, x)]
           q == [i \in D |-> CHOOSE x \in S : Place(S, x) = i]
<1>1. n \in Nat /\ IsFiniteSet(D) /\ Cardinality(D) = n
  <2>1. n \in Nat
    BY FS_CardinalityType
  <2>2. IsFiniteSet(1..n) /\ Cardinality(1..n) = n
    BY <2>1, FirstNumbers
  <2> QED
    BY <2>1, <2>2
<1>2. \A x \in S : Place(S, x) \in D
  <2> SUFFICES ASSUME NEW x \in S PROVE Place(S, x) \in D
    OBVIOUS
  <2>1. x \in Nat
    OBVIOUS
  <2>2. Place(S, x) \in Nat /\ Place(S, x) <= n /\ Place(S, x) >= 1
    BY <2>1, PlaceInRange
  <2> QED
    BY <1>1, <2>2
<1>3. ASSUME NEW x \in S, NEW y \in S, Place(S, x) = Place(S, y) PROVE x = y
  <2>1. x \in Nat /\ y \in Nat /\ Place(S, x) \in Nat
    BY PlaceInRange
  <2>2. ASSUME x < y PROVE FALSE
    <3>1. Place(S, x) < Place(S, y)
      BY <2>1, <2>2, PlaceGrows
    <3> QED
      BY <1>3, <2>1, <3>1
  <2>3. ASSUME y < x PROVE FALSE
    <3>1. Place(S, y) < Place(S, x)
      BY <2>1, <2>3, PlaceGrows
    <3> QED
      BY <1>3, <2>1, <3>1
  <2> QED
    BY <2>1, <2>2, <2>3
<1>4. f \in Injection(S, D)
  BY <1>2, <1>3 DEF Injection, IsInjective
<1> HIDE DEF D
<1>5. f \in Surjection(S, D)
  BY <1>1, <1>4, FS_Injection
<1>6. \A i \in D : \E x \in S : Place(S, x) = i
  BY <1>5 DEF Surjection
<1>7. \A i \in D : q[i] \in S /\ Place(S, q[i]) = i
  BY <1>6
<1>8. q \in [D -> S] /\ \A i, j \in D : i # j => q[i] # q[j]
  BY <1>7
<1> HIDE DEF q
<1>9. q \in SetToSeqs(S)
  BY <1>8 DEF SetToSeqs, D
<1>10. Increasing(q)
  <2> SUFFICES ASSUME NEW i \in D, NEW j \in D, i < j PROVE q[i] < q[j]
    BY <1>8 DEF Increasing
  <2>1. i \in Nat /\ j \in Nat
    BY <1>1 DEF D
  <2>2. q[i] \in Nat /\ q[j] \in Nat /\ q[i] \in S
    BY <1>7
  <2>3. ~ (q[j] < q[i])
    <3> SUFFICES ASSUME q[j] < q[i] PROVE FALSE
      OBVIOUS
    <3>1. Place(S, q[j]) < Place(S, q[i])
      BY <2>2, PlaceGrows
    <3> QED
      BY <1>7, <2>1, <3>1
  <2>4. q[i] # q[j]
    <3>1. i # j
      BY <2>1
    <3> QED
      BY <1>8, <3>1
  <2> QED
    BY <2>2, <2>3, <2>4
<1> QED
  BY <1>9, <1>10

\* Sorted rows: each at its place.
LEMMA SortedRows ==
    ASSUME NEW S, IsFiniteSet(S), S \subseteq Nat
    PROVE  /\ Sorted(S) \in SetToSeqs(S) /\ Sorted(S) \in Seq(S) /\ Elements(Sorted(S)) = S
           /\ Len(Sorted(S)) = Cardinality(S) /\ Cardinality(S) \in Nat
           /\ DOMAIN Sorted(S) = 1..Cardinality(S)
           /\ Injective(Sorted(S)) /\ Increasing(Sorted(S))
           /\ \A p \in DOMAIN Sorted(S) : Place(S, Sorted(S)[p]) = p
<1> DEFINE q == Sorted(S)
           InOrder(s) == \A i, j \in 1..Len(s) : i < j => s[i] < s[j]
<1>1. PICK s \in SetToSeqs(S) : Increasing(s)
  BY SortedExists
<1>2. InOrder(s)
  <2>1. DOMAIN s = 1..Len(s)
    BY OrderHasAll
  <2> QED
    BY <1>1, <2>1 DEF Increasing
<1>3. q \in SetToSeqs(S) /\ InOrder(q)
  BY <1>2 DEF Sorted
<1> HIDE DEF q
<1>4. /\ q \in Seq(S) /\ Len(q) = Cardinality(S) /\ Len(q) \in Nat /\ DOMAIN q = 1..Len(q)
      /\ Injective(q) /\ Elements(q) = S
  BY <1>3, OrderHasAll
<1>5. Increasing(q)
  BY <1>3, <1>4 DEF Increasing
<1>6. ASSUME NEW p \in DOMAIN q PROVE Place(S, q[p]) = p
  BY <1>3, <1>5, <1>6, AtItsPlace DEF Increasing
<1> QED
  BY <1>3, <1>4, <1>5, <1>6 DEF q

\* A slice has the rows after from, as many as size.
LEMMA SliceRows ==
    ASSUME NEW R, NEW q \in Seq(R), NEW from \in Nat, NEW size \in Nat
    PROVE  LET s == Slice(q, from, size) IN
           /\ s \in Seq(R) /\ Len(s) \in Nat /\ Len(s) <= size /\ DOMAIN s = 1..Len(s)
           /\ Len(s) = size \/ from + Len(s) >= Len(q)
           /\ \A i \in DOMAIN s : s[i] = q[from + i] /\ from + i \in DOMAIN q
<1> DEFINE end == IF from + size < Len(q) THEN from + size ELSE Len(q)
           s == SubSeq(q, from + 1, end)
<1>1. Len(q) \in Nat /\ DOMAIN q = 1..Len(q) /\ \A i \in 1..Len(q) : q[i] \in R
  BY LenProperties
<1>2. end \in Nat /\ end <= Len(q) /\ end <= from + size
  BY <1>1
<1>3. \A i \in (from + 1)..end : q[i] \in R
  BY <1>1, <1>2
<1>4. /\ s \in Seq(R) /\ Len(s) = IF from + 1 <= end THEN end - (from + 1) + 1 ELSE 0
      /\ \A i \in 1..(end - (from + 1) + 1) : s[i] = q[(from + 1) + i - 1]
  <2>1. from + 1 \in Int /\ end \in Int
    BY <1>2
  <2> HIDE DEF end
  <2> QED
    BY <1>3, <2>1, SubSeqProperties
<1>5. Len(s) \in Nat /\ DOMAIN s = 1..Len(s)
  BY <1>4, LenProperties
<1> HIDE DEF s
<1>6. \A i \in DOMAIN s : s[i] = q[from + i] /\ from + i \in DOMAIN q
  <2> SUFFICES ASSUME NEW i \in 1..Len(s) PROVE s[i] = q[from + i] /\ from + i \in 1..Len(q)
    BY <1>1, <1>5
  <2>1. from + 1 <= end /\ i \in 1..(end - (from + 1) + 1)
    BY <1>2, <1>4
  <2>2. (from + 1) + i - 1 = from + i /\ from + i \in 1..Len(q)
    BY <1>1, <1>2, <2>1
  <2> HIDE DEF end
  <2> QED
    BY <1>4, <2>1, <2>2
<1>7. Len(s) <= size /\ (Len(s) = size \/ from + Len(s) >= Len(q))
  <2>1. Len(s) = IF from + 1 <= end THEN end - (from + 1) + 1 ELSE 0
    BY <1>4
  <2>2. CASE from + size < Len(q)
    BY <1>1, <2>1, <2>2
  <2>3. CASE ~ (from + size < Len(q))
    <3>1. end = Len(q) /\ Len(q) \in Nat /\ Len(q) <= from + size
      BY <1>1, <2>3
    <3> HIDE DEF end
    <3>2. Len(s) = IF from + 1 <= Len(q) THEN Len(q) - (from + 1) + 1 ELSE 0
      BY <2>1, <3>1
    <3> QED
      BY <3>1, <3>2
  <2> QED
    BY <2>2, <2>3
<1> QED
  BY <1>4, <1>5, <1>6, <1>7 DEF s, Slice

\* Which rows a page of an order has, when they are at their places.
LEMMA PageRows ==
    ASSUME NEW S, IsFiniteSet(S), S \subseteq Nat, NEW q \in SetToSeqs(S),
           NEW from \in Nat, NEW size \in Nat
    PROVE  LET page == Slice(q, from, size) IN
           /\ page \in Seq(S) /\ Injective(page) /\ Elements(page) \subseteq S
           /\ \A x \in S : (\A p \in DOMAIN q : q[p] = x => Place(S, x) = p) =>
                (x \in Elements(page) <=> from < Place(S, x) /\ Place(S, x) <= from + Len(page))
<1> DEFINE page == Slice(q, from, size)
<1>1. /\ q \in Seq(S) /\ Len(q) = Cardinality(S) /\ Len(q) \in Nat /\ DOMAIN q = 1..Len(q)
      /\ Injective(q) /\ Elements(q) = S
  BY OrderHasAll
<1>2. /\ page \in Seq(S) /\ Len(page) \in Nat /\ DOMAIN page = 1..Len(page)
      /\ \A i \in DOMAIN page : page[i] = q[from + i] /\ from + i \in DOMAIN q
  BY <1>1, SliceRows
<1> HIDE DEF page
<1>3. Injective(page)
  <2> SUFFICES ASSUME NEW i \in DOMAIN page, NEW j \in DOMAIN page, page[i] = page[j]
               PROVE  i = j
    BY DEF Injective
  <2>1. i \in Nat /\ j \in Nat
    BY <1>2
  <2>2. from + i = from + j
    BY <1>1, <1>2 DEF Injective
  <2> QED
    BY <2>1, <2>2
<1>4. Elements(page) \subseteq S
  BY <1>1, <1>2 DEF Elements
<1>5. ASSUME NEW x \in S, \A p \in DOMAIN q : q[p] = x => Place(S, x) = p
      PROVE  x \in Elements(page) <=> from < Place(S, x) /\ Place(S, x) <= from + Len(page)
  <2>1. PICK p \in DOMAIN q : q[p] = x
    BY <1>1 DEF Elements
  <2>2. Place(S, x) = p /\ p \in Nat
    BY <1>1, <1>5, <2>1
  <2>3. ASSUME x \in Elements(page) PROVE from < p /\ p <= from + Len(page)
    <3>1. PICK i \in DOMAIN page : page[i] = x
      BY <2>3 DEF Elements
    <3>2. p = from + i
      BY <1>1, <1>2, <2>1, <3>1 DEF Injective
    <3> QED
      BY <1>2, <3>2
  <2>4. ASSUME from < p, p <= from + Len(page) PROVE x \in Elements(page)
    <3> DEFINE i == p - from
    <3>1. i \in DOMAIN page /\ from + i = p
      BY <1>2, <2>2, <2>4
    <3> HIDE DEF i
    <3>2. page[i] = x
      BY <1>2, <2>1, <3>1
    <3> QED
      BY <3>1, <3>2 DEF Elements
  <2> QED
    BY <2>2, <2>3, <2>4
<1> QED
  BY <1>2, <1>3, <1>4, <1>5 DEF page

\* The pages of sorted rows.
LEMMA SortedPage ==
    ASSUME NEW S, IsFiniteSet(S), S \subseteq Nat, NEW from \in Nat, NEW size \in Nat
    PROVE  LET page == Slice(Sorted(S), from, size) IN
           /\ page \in Seq(S) /\ Injective(page) /\ Elements(page) \subseteq S
           /\ \A x \in S :
                x \in Elements(page) <=> from < Place(S, x) /\ Place(S, x) <= from + size
           /\ page = <<>> /\ size > 0 => Cardinality(S) <= from
<1> DEFINE q == Sorted(S)
           page == Slice(q, from, size)
<1>1. /\ q \in SetToSeqs(S) /\ q \in Seq(S) /\ Len(q) = Cardinality(S)
      /\ Cardinality(S) \in Nat
      /\ \A p \in DOMAIN q : Place(S, q[p]) = p
  BY SortedRows
<1> HIDE DEF q
<1>2. /\ page \in Seq(S) /\ Injective(page) /\ Elements(page) \subseteq S
      /\ \A x \in S : (\A p \in DOMAIN q : q[p] = x => Place(S, x) = p) =>
           (x \in Elements(page) <=> from < Place(S, x) /\ Place(S, x) <= from + Len(page))
  BY <1>1, PageRows
<1>3. /\ Len(page) \in Nat /\ Len(page) <= size
      /\ Len(page) = size \/ from + Len(page) >= Len(q)
  BY <1>1, SliceRows
<1> HIDE DEF page
<1>4. ASSUME NEW x \in S
      PROVE  x \in Elements(page) <=> from < Place(S, x) /\ Place(S, x) <= from + size
  <2>1. x \in Elements(page) <=> from < Place(S, x) /\ Place(S, x) <= from + Len(page)
    BY <1>1, <1>2
  <2>2. Place(S, x) \in Nat /\ Place(S, x) <= Cardinality(S)
    BY PlaceInRange
  <2> QED
    BY <1>1, <1>3, <2>1, <2>2
<1>5. ASSUME page = <<>>, size > 0 PROVE Cardinality(S) <= from
  <2>1. Len(page) = 0
    BY <1>5
  <2> QED
    BY <1>1, <1>3, <1>5, <2>1
<1> QED
  BY <1>2, <1>4, <1>5 DEF page, q

\* A row that shares its day with no other is at its place in every answer.
LEMMA UntiedPage ==
    ASSUME NEW S, IsFiniteSet(S), S \subseteq Rows, NEW q \in Orders(S),
           NEW from \in Nat, NEW size \in Nat
    PROVE  LET page == Slice(q, from, size) IN
           /\ page \in Seq(S) /\ Injective(page) /\ Elements(page) \subseteq S
           /\ Len(page) \in Nat /\ Len(page) <= size
           /\ Len(page) = size \/ from + Len(page) >= Cardinality(S)
           /\ \A x \in S : ~ IsTied(x) =>
                (x \in Elements(page) <=> from < Place(S, x) /\ Place(S, x) <= from + Len(page))
<1> DEFINE page == Slice(q, from, size)
<1> USE SourceReadingAssumption
<1>1. S \subseteq Nat
  OBVIOUS
<1>2. /\ q \in SetToSeqs(S)
      /\ \A i, j \in 1..Len(q) : i < j /\ q[j] < q[i] => <<q[j], q[i]>> \in Same
  BY DEF Orders
<1>3. /\ q \in Seq(S) /\ Len(q) = Cardinality(S) /\ Len(q) \in Nat /\ DOMAIN q = 1..Len(q)
      /\ Injective(q) /\ Elements(q) = S
  BY <1>2, OrderHasAll
<1>4. ASSUME NEW x \in S, ~ IsTied(x), NEW p \in DOMAIN q, q[p] = x PROVE Place(S, x) = p
  <2>1. ASSUME NEW i \in DOMAIN q PROVE (i < p => q[i] < q[p]) /\ (p < i => q[p] < q[i])
    <3>1. q[i] \in S /\ q[i] \in Rows /\ q[i] \in Nat /\ x \in Nat /\ i \in Nat /\ p \in Nat
      BY <1>1, <1>3 DEF Elements
    <3>2. <<q[i], x>> \notin Same /\ <<x, q[i]>> \notin Same
      BY <1>4, <3>1 DEF IsTied
    <3>3. i # p => q[i] # x
      BY <1>3, <1>4 DEF Injective
    <3>4. i < p => ~ (x < q[i])
      BY <1>2, <1>3, <1>4, <3>2
    <3>5. p < i => ~ (q[i] < x)
      BY <1>2, <1>3, <1>4, <3>2
    <3> QED
      BY <1>4, <3>1, <3>3, <3>4, <3>5
  <2> QED
    BY <1>1, <1>2, <1>4, <2>1, AtItsPlace
<1>5. /\ page \in Seq(S) /\ Injective(page) /\ Elements(page) \subseteq S
      /\ \A x \in S : (\A p \in DOMAIN q : q[p] = x => Place(S, x) = p) =>
           (x \in Elements(page) <=> from < Place(S, x) /\ Place(S, x) <= from + Len(page))
  BY <1>1, <1>2, PageRows
<1>6. /\ Len(page) \in Nat /\ Len(page) <= size
      /\ Len(page) = size \/ from + Len(page) >= Len(q)
  BY <1>3, SliceRows
<1> HIDE DEF page
<1>7. ASSUME NEW x \in S, ~ IsTied(x)
      PROVE  x \in Elements(page) <=> from < Place(S, x) /\ Place(S, x) <= from + Len(page)
  BY <1>4, <1>5, <1>7
<1> QED
  BY <1>3, <1>5, <1>6, <1>7 DEF page

-----------------------------------------------------------------------------
(* What a reading has read                                                 *)

Single == {"mesa", "echo", "osm", "decision"} \cup Tables

\* The rows that q has more than once.
Repeated(q) == {x \in Elements(q) : \E i, j \in DOMAIN q : i # j /\ q[i] = x /\ q[j] = x}

\* Nothing that is wanted is missing without a word, and nothing has been read twice.
Explained ==
    /\ \A r \in Wanted : IsRead(r) \/ errors # {} \/ warnings # {} \/ MayMissInSilence(r)
    /\ \A r \in Repeated(read) : MayRepeat(r)

\* The offsets of the items are a page apart.
Spaced(q) == \A k, m \in DOMAIN q : k < m => q[k] + PageSize <= q[m]

\* Place n lies on one of the pages that begin at the offsets q.
OnPage(q, n) == \E k \in DOMAIN q : q[k] < n /\ n <= q[k] + PageSize

\* The pages that are still to be fetched lie behind those that have been read, unless
\* rows have come; and a row is read or lies in one of them, unless rows have moved.
AssessorInv ==
    /\ items \in Seq(Nat) /\ Spaced(items)
    /\ phase = "discover" =>
         /\ read = <<>> /\ errors = {}
         /\ \A k \in DOMAIN items : items[k] + PageSize <= offset
         /\ \A n \in 1..offset : OnPage(items, n)
    /\ phase # "discover" /\ errors = {} /\ moved.gone + moved.come = 0 =>
         \A r \in always : r \in Elements(read) \/ OnPage(items, Place(up, r))
    /\ moved.come = 0 =>
         /\ Repeated(read) = {}
         /\ \A r \in Elements(read) : \A k \in DOMAIN items : Place(up, r) <= items[k]

\* A recorded payload that was found is read, waits for its turn, or has made an error.
FixtureInv ==
    /\ items \in Seq(Rows)
    /\ Repeated(items) = {} /\ Repeated(read) = {} /\ Elements(read) \cap Elements(items) = {}
    /\ phase = "discover" => read = <<>> /\ items = <<>>
    /\ phase # "discover" => \A r \in always :
         \/ source = "fixture" /\ r \in Unreadable
         \/ r \in Elements(items) \cup Elements(read)
         \/ errors # {}

\* Of the rows that only their place tells apart, the pages so far have those up to
\* offset, unless rows have gone, and only those, unless rows have come.
MesaInv ==
    /\ Len(rows) = offset /\ offset <= MaxRows
    /\ moved.gone = 0 =>
         \A r \in always : ~ IsTied(r) /\ Place(up, r) <= offset => r \in Elements(rows)
    /\ moved.come = 0 =>
         /\ \A r \in Repeated(rows) : IsTied(r)
         /\ \A r \in Elements(rows) : ~ IsTied(r) => Place(up, r) <= offset

\* ECHO's result was all there was when the query was made, and the pages come from it.
EchoInv ==
    /\ offset = 0 => query.expected = Unknown
    /\ offset > 0 =>
         /\ Elements(rows) \subseteq Elements(query.result)
         /\ query.expected # Unknown =>
              /\ Len(query.result) = query.expected
              /\ always \subseteq Elements(query.result)

\* The totals of a table are its roll-ups, of one year.
TotalsInv ==
    /\ \A r \in Elements(read) : IsRollUp(TableRow[r])
    /\ \A q, r \in Elements(read) : TableRow[q].year = TableRow[r].year

Shape ==
    /\ source \in Sources /\ up \subseteq Rows /\ IsFiniteSet(up) /\ always \subseteq up
    /\ moved \in [gone : Nat, come : Nat] /\ offset \in Nat
    /\ phase \in {"discover", "fetch", "normalize", "done"}
    /\ rows \in Seq(Rows) /\ read \in Seq(Rows) /\ query.result \in Seq(Rows)
    /\ phase = "discover" => rows = <<>> /\ query = NoQuery
    /\ phase = "done" => items = <<>>
    /\ phase = "fetch" => items # <<>>

\* A source that answers with one item has read nothing before it, and all of it after.
SingleInv ==
    /\ phase \in {"discover", "fetch"} => read = <<>>
    /\ phase = "fetch" => items = <<source>>
    /\ phase \in {"normalize", "done"} => items = <<>> /\ Explained

ReadInv ==
    /\ Shape
    /\ source \in Single => SingleInv
    /\ source = "assessor" => AssessorInv
    /\ source \in {"fixture", "agendas"} => FixtureInv
    /\ source = "mesa" /\ phase = "fetch" => MesaInv
    /\ source = "echo" /\ phase = "fetch" => EchoInv
    /\ source \in {"capacity", "sales"} => TotalsInv

-----------------------------------------------------------------------------
\* Joining two sequences joins their rows.
LEMMA JoinedRows ==
    ASSUME NEW R, NEW s \in Seq(R), NEW t \in Seq(R)
    PROVE  /\ s \o t \in Seq(R) /\ Len(s \o t) = Len(s) + Len(t)
           /\ Len(s) \in Nat /\ Len(t) \in Nat
           /\ Elements(s \o t) = Elements(s) \cup Elements(t)
           /\ Repeated(s \o t)
                \subseteq Repeated(s) \cup Repeated(t) \cup (Elements(s) \cap Elements(t))
<1> DEFINE q == s \o t
<1>1. /\ q \in Seq(R) /\ Len(q) = Len(s) + Len(t)
      /\ \A i \in 1 .. Len(s) + Len(t) :
           q[i] = IF i <= Len(s) THEN s[i] ELSE t[i - Len(s)]
  BY ConcatProperties
<1>2. /\ Len(s) \in Nat /\ Len(t) \in Nat /\ DOMAIN s = 1..Len(s) /\ DOMAIN t = 1..Len(t)
      /\ DOMAIN q = 1..(Len(s) + Len(t))
  BY <1>1, LenProperties
<1> HIDE DEF q
<1>3. ASSUME NEW i \in DOMAIN q, i <= Len(s) PROVE i \in DOMAIN s /\ q[i] = s[i]
  BY <1>1, <1>2, <1>3
<1>4. ASSUME NEW i \in DOMAIN q, ~ (i <= Len(s))
      PROVE  i - Len(s) \in DOMAIN t /\ q[i] = t[i - Len(s)]
  BY <1>1, <1>2, <1>4
<1>5. ASSUME NEW i \in DOMAIN s PROVE i \in DOMAIN q /\ q[i] = s[i]
  BY <1>1, <1>2
<1>6. ASSUME NEW i \in DOMAIN t PROVE Len(s) + i \in DOMAIN q /\ q[Len(s) + i] = t[i]
  <2>1. Len(s) + i \in 1..(Len(s) + Len(t)) /\ ~ (Len(s) + i <= Len(s)) /\ Len(s) + i - Len(s) = i
    BY <1>2
  <2> QED
    BY <1>1, <1>2, <2>1
<1>7. Elements(q) = Elements(s) \cup Elements(t)
  <2>1. ASSUME NEW i \in DOMAIN q PROVE q[i] \in Elements(s) \cup Elements(t)
    BY <1>3, <1>4 DEF Elements
  <2>2. ASSUME NEW i \in DOMAIN s PROVE s[i] \in Elements(q)
    BY <1>5 DEF Elements
  <2>3. ASSUME NEW i \in DOMAIN t PROVE t[i] \in Elements(q)
    BY <1>6 DEF Elements
  <2> QED
    BY <2>1, <2>2, <2>3 DEF Elements
<1>8. ASSUME NEW x \in Repeated(q)
      PROVE  x \in Repeated(s) \cup Repeated(t) \cup (Elements(s) \cap Elements(t))
  <2>1. PICK i \in DOMAIN q, j \in DOMAIN q : i # j /\ q[i] = x /\ q[j] = x
    BY <1>8 DEF Repeated
  <2>2. CASE i <= Len(s) /\ j <= Len(s)
    <3>1. i \in DOMAIN s /\ j \in DOMAIN s /\ s[i] = x /\ s[j] = x
      BY <1>3, <2>1, <2>2
    <3> QED
      BY <2>1, <3>1 DEF Repeated, Elements
  <2>3. CASE ~ (i <= Len(s)) /\ ~ (j <= Len(s))
    <3>1. /\ i - Len(s) \in DOMAIN t /\ j - Len(s) \in DOMAIN t
          /\ t[i - Len(s)] = x /\ t[j - Len(s)] = x
      BY <1>4, <2>1, <2>3
    <3>2. i - Len(s) # j - Len(s)
      BY <1>2, <2>1
    <3> QED
      BY <3>1, <3>2 DEF Repeated, Elements
  <2>4. ASSUME NEW a \in DOMAIN q, NEW b \in DOMAIN q, a <= Len(s), ~ (b <= Len(s)),
               q[a] = x, q[b] = x
        PROVE  x \in Elements(s) \cap Elements(t)
    <3>1. a \in DOMAIN s /\ s[a] = x
      BY <1>3, <2>4
    <3>2. b - Len(s) \in DOMAIN t /\ t[b - Len(s)] = x
      BY <1>4, <2>4
    <3> QED
      BY <3>1, <3>2 DEF Elements
  <2> QED
    BY <2>1, <2>2, <2>3, <2>4
<1> QED
  BY <1>1, <1>2, <1>7, <1>8 DEF q

LEMMA NoneRepeated ==
    ASSUME NEW q, Injective(q) PROVE Repeated(q) = {}
  BY DEF Injective, Repeated

LEMMA EmptyRows ==
    /\ Elements(<<>>) = {} /\ Repeated(<<>>) = {} /\ Len(<<>>) = 0 /\ DOMAIN <<>> = {}
    /\ <<>> \in Seq(Rows) /\ <<>> \in Seq(Nat)
<1>1. Elements(<<>>) = {}
  BY DEF Elements
<1> QED
  BY <1>1 DEF Repeated

\* What follows the first item keeps its order.
LEMMA RestOfItems ==
    ASSUME NEW R, NEW q \in Seq(R), q # <<>>
    PROVE  /\ Tail(q) \in Seq(R) /\ Head(q) \in R /\ 1 \in DOMAIN q /\ Head(q) = q[1]
           /\ DOMAIN q = 1..Len(q) /\ Len(q) \in Nat
           /\ \A k \in DOMAIN Tail(q) : k \in Nat /\ k >= 1 /\ k + 1 \in DOMAIN q
                                        /\ Tail(q)[k] = q[k + 1]
           /\ \A k \in DOMAIN q : k > 1 => k - 1 \in DOMAIN Tail(q) /\ Tail(q)[k - 1] = q[k]
           /\ Elements(q) = {q[1]} \cup Elements(Tail(q))
<1> DEFINE t == Tail(q)
<1>1. /\ t \in Seq(R) /\ Head(q) \in R /\ Len(t) = Len(q) - 1
      /\ \A i \in 1 .. Len(t) : t[i] = q[i + 1]
  BY HeadTailProperties
<1>2. /\ Len(q) \in Nat /\ Len(t) \in Nat /\ DOMAIN t = 1..Len(t) /\ DOMAIN q = 1..Len(q)
  BY <1>1, LenProperties
<1>3. Len(q) >= 1
  BY <1>2, EmptySeq
<1>4. Head(q) = q[1]
  OBVIOUS
<1> HIDE DEF t
<1>5. \A k \in DOMAIN t : k \in Nat /\ k >= 1 /\ k + 1 \in DOMAIN q /\ t[k] = q[k + 1]
  BY <1>1, <1>2
<1>6. \A k \in DOMAIN q : k > 1 => k - 1 \in DOMAIN t /\ t[k - 1] = q[k]
  <2> SUFFICES ASSUME NEW k \in DOMAIN q, k > 1
               PROVE  k - 1 \in DOMAIN t /\ t[k - 1] = q[k]
    OBVIOUS
  <2>1. k - 1 \in 1..Len(t) /\ (k - 1) + 1 = k
    BY <1>1, <1>2
  <2> QED
    BY <1>1, <1>2, <2>1
<1>7. Elements(q) = {q[1]} \cup Elements(t)
  <2>1. ASSUME NEW k \in DOMAIN q PROVE q[k] \in {q[1]} \cup Elements(t)
    <3>1. k = 1 \/ k > 1
      BY <1>2
    <3> QED
      BY <1>6, <3>1 DEF Elements
  <2>2. 1 \in DOMAIN q
    BY <1>2, <1>3
  <2>3. ASSUME NEW k \in DOMAIN t PROVE t[k] \in Elements(q)
    BY <1>5 DEF Elements
  <2> QED
    BY <2>1, <2>2, <2>3 DEF Elements
<1>8. 1 \in DOMAIN q
  BY <1>2, <1>3
<1> QED
  BY <1>1, <1>2, <1>4, <1>5, <1>6, <1>7, <1>8 DEF t

-----------------------------------------------------------------------------
(* What keeps ReadInv.                                                     *)

\* A reading begins with nothing read and nothing found.
LEMMA ReadBegins == Init => ReadInv
<1> SUFFICES ASSUME Init PROVE ReadInv
  OBVIOUS
<1> USE SourceReadingAssumption DEF Init
<1>1. Shape
  <2>1. up \subseteq Rows /\ IsFiniteSet(up)
    OBVIOUS
  <2>2. query.result = <<>> /\ <<>> \in Seq(Rows)
    BY EmptyRows DEF NoQuery
  <2> QED
    BY <2>1, <2>2 DEF Shape
<1>2. SingleInv
  BY DEF SingleInv
<1>3. AssessorInv
  BY EmptyRows DEF AssessorInv, Spaced
<1>4. FixtureInv
  BY EmptyRows DEF FixtureInv
<1>5. TotalsInv
  BY EmptyRows DEF TotalsInv
<1>6. phase # "fetch"
  OBVIOUS
<1> QED
  BY <1>1, <1>2, <1>3, <1>4, <1>5, <1>6 DEF ReadInv

\* Nothing that ReadInv speaks of changes while a row is normalized or an answer is awaited.
LEMMA ReadStutters ==
    ASSUME ReadInv,
           UNCHANGED <<source, up, always, moved, phase, items, offset, rows, read, query,
                       warnings, errors>>
    PROVE  ReadInv'
<1>1. Shape'
  BY DEF ReadInv, Shape
<1>2. source \in Single => SingleInv'
  BY DEF ReadInv, SingleInv, Explained, IsRead, MayMissInSilence, MayRepeat, Wanted
<1>3. source = "assessor" => AssessorInv'
  BY DEF ReadInv, AssessorInv
<1>4. source \in {"fixture", "agendas"} => FixtureInv'
  BY DEF ReadInv, FixtureInv
<1>5. source = "mesa" /\ phase = "fetch" => MesaInv'
  BY DEF ReadInv, MesaInv
<1>6. source = "echo" /\ phase = "fetch" => EchoInv'
  BY DEF ReadInv, EchoInv
<1>7. source \in {"capacity", "sales"} => TotalsInv'
  BY DEF ReadInv, TotalsInv
<1> QED
  BY <1>1, <1>2, <1>3, <1>4, <1>5, <1>6, <1>7 DEF ReadInv

\* What a reading has told stays told when rows come and go.
LEMMA ExplainedStays ==
    ASSUME Explained, always' \subseteq always, errors \subseteq errors',
           UNCHANGED <<source, read, query, warnings>>,
           moved.come \in Nat, moved.gone \in Nat, moved'.come \in Nat, moved'.gone \in Nat,
           moved'.come >= moved.come, moved'.gone >= moved.gone
    PROVE  Explained'
<1>1. Wanted' \subseteq Wanted
  BY DEF Wanted
<1>2. ASSUME NEW r \in Wanted'
      PROVE  (IsRead(r) \/ errors # {} \/ warnings # {} \/ MayMissInSilence(r))'
  <2>1. IsRead(r) \/ errors # {} \/ warnings # {} \/ MayMissInSilence(r)
    BY <1>1 DEF Explained
  <2>2. IsRead(r) => IsRead(r)'
    BY DEF IsRead
  <2>3. MayMissInSilence(r) => MayMissInSilence(r)'
    BY DEF MayMissInSilence, IsTied
  <2>4. errors # {} => errors' # {}
    OBVIOUS
  <2> QED
    BY <2>1, <2>2, <2>3, <2>4
<1>3. ASSUME NEW r \in Repeated(read') PROVE MayRepeat(r)'
  BY DEF Explained, MayRepeat, IsTied
<1> QED
  BY <1>2, <1>3 DEF Explained

\* The next item's turn, or the end.
LEMMA NextItemKeeps == ReadInv /\ NextItem => ReadInv'
<1> SUFFICES ASSUME ReadInv, NextItem PROVE ReadInv'
  OBVIOUS
<1> USE DEF NextItem
<1>1. Shape'
  BY DEF ReadInv, Shape
<1>2. source \in Single => SingleInv' /\ phase' # "fetch"
  <2> SUFFICES ASSUME source \in Single PROVE SingleInv' /\ phase' # "fetch"
    OBVIOUS
  <2>1. items = <<>> /\ Explained
    BY DEF ReadInv, SingleInv
  <2>2. Explained'
    BY <2>1 DEF Explained, IsRead, MayMissInSilence, MayRepeat, Wanted
  <2> QED
    BY <2>1, <2>2 DEF SingleInv
<1>3. source = "assessor" => AssessorInv'
  BY DEF ReadInv, AssessorInv
<1>4. source \in {"fixture", "agendas"} => FixtureInv'
  BY DEF ReadInv, FixtureInv
<1>5. source \in {"capacity", "sales"} => TotalsInv'
  BY DEF ReadInv, TotalsInv
<1>6. source \in {"mesa", "echo"} => source \in Single
  BY DEF Single
<1> QED
  BY <1>1, <1>2, <1>3, <1>4, <1>5, <1>6 DEF ReadInv

\* The places of the other rows, when one comes or goes.
LEMMA SourceMovesKeeps == ReadInv /\ SourceMoves => ReadInv'
<1> SUFFICES ASSUME ReadInv, SourceMoves PROVE ReadInv'
  OBVIOUS
<1> USE SourceReadingAssumption
<1>0. /\ up \subseteq Rows /\ IsFiniteSet(up) /\ always \subseteq up /\ up \subseteq Nat
      /\ moved \in [gone : Nat, come : Nat] /\ read \in Seq(Rows) /\ rows \in Seq(Rows)
  BY DEF ReadInv, Shape
<1>m. moved \in [gone : Nat, come : Nat] /\ moved.gone \in Nat /\ moved.come \in Nat
  BY <1>0
<1>a. /\ UNCHANGED <<source, phase, items, offset, rows, read, query, warnings, errors>>
      /\ Appear \/ Vanish
  BY DEF SourceMoves
<1>1. /\ up' \subseteq Rows /\ IsFiniteSet(up') /\ always' \subseteq up' /\ always' \subseteq always
      /\ moved' \in [gone : Nat, come : Nat]
      /\ moved'.gone >= moved.gone /\ moved'.come >= moved.come
      /\ moved'.gone + moved'.come # 0
      /\ moved'.gone = 0 => moved.gone = 0 /\ up \subseteq up'
      /\ moved'.come = 0 => moved.come = 0 /\ up' \subseteq up
  <2>1. CASE Appear
    <3>1. PICK r \in Rows : up' = up \cup {r}
      BY <2>1 DEF Appear
    <3>2. IsFiniteSet(up')
      BY <1>0, <3>1, FS_AddElement
    <3>3. /\ moved' \in [gone : Nat, come : Nat]
          /\ moved'.gone = moved.gone /\ moved'.come = moved.come + 1
      <4>1. moved' = [moved EXCEPT !.come = @ + 1]
        BY <2>1 DEF Appear
      <4> QED
        BY <1>m, <4>1
    <3>4. always' = always
      BY <2>1 DEF Appear
    <3> QED
      BY <1>0, <3>1, <3>2, <3>3, <3>4
  <2>2. CASE Vanish
    <3>1. PICK r \in up : up' = up \ {r} /\ always' = always \ {r}
      BY <2>2 DEF Vanish
    <3>2. IsFiniteSet(up')
      BY <1>0, <3>1, FS_RemoveElement
    <3>3. /\ moved' \in [gone : Nat, come : Nat]
          /\ moved'.gone = moved.gone + 1 /\ moved'.come = moved.come
      <4>1. moved' = [moved EXCEPT !.gone = @ + 1]
        BY <2>2 DEF Vanish
      <4> QED
        BY <1>m, <4>1
    <3> QED
      BY <1>0, <3>1, <3>2, <3>3
  <2> QED
    BY <1>a, <2>1, <2>2
<1>2. ASSUME NEW r \in Rows
      PROVE  /\ Place(up, r) \in Nat /\ Place(up', r) \in Nat
             /\ moved'.gone = 0 => Place(up, r) <= Place(up', r)
             /\ moved'.come = 0 => Place(up', r) <= Place(up, r)
  <2>1. r \in Nat /\ up' \subseteq Nat
    BY <1>1
  <2>2. Place(up, r) \in Nat /\ Place(up', r) \in Nat
    BY <1>0, <1>1, <2>1, PlaceInRange
  <2>3. moved'.gone = 0 => Place(up, r) <= Place(up', r)
    BY <1>1, <2>1, PlaceInFewer
  <2>4. moved'.come = 0 => Place(up', r) <= Place(up, r)
    BY <1>0, <1>1, <2>1, PlaceInFewer
  <2> QED
    BY <2>2, <2>3, <2>4
<1>3. Elements(read) \subseteq Rows /\ Elements(rows) \subseteq Rows
  BY <1>0 DEF Elements
<1>4. Shape'
  BY <1>a, <1>1 DEF ReadInv, Shape
<1>5. source \in Single => SingleInv'
  <2> SUFFICES ASSUME source \in Single PROVE SingleInv'
    OBVIOUS
  <2>1. Explained => Explained'
    BY <1>0, <1>a, <1>1, ExplainedStays
  <2> QED
    BY <1>a, <2>1 DEF ReadInv, SingleInv
<1>6. source = "assessor" => AssessorInv'
  <2> SUFFICES ASSUME source = "assessor" PROVE AssessorInv'
    OBVIOUS
  <2>1. AssessorInv
    BY DEF ReadInv
  <2>2. moved'.come = 0 =>
          \A r \in Elements(read) : \A k \in DOMAIN items : Place(up', r) <= items[k]
    <3> SUFFICES ASSUME moved'.come = 0, NEW r \in Elements(read), NEW k \in DOMAIN items
                 PROVE  Place(up', r) <= items[k]
      OBVIOUS
    <3>1. items[k] \in Nat
      BY <2>1 DEF AssessorInv
    <3>2. Place(up, r) <= items[k]
      BY <1>1, <2>1 DEF AssessorInv
    <3>3. Place(up, r) \in Nat /\ Place(up', r) \in Nat /\ Place(up', r) <= Place(up, r)
      BY <1>2, <1>3
    <3> QED
      BY <3>1, <3>2, <3>3
  <2> QED
    BY <1>a, <1>1, <2>1, <2>2 DEF AssessorInv
<1>7. source \in {"fixture", "agendas"} => FixtureInv'
  BY <1>a, <1>1 DEF ReadInv, FixtureInv
<1>8. source = "mesa" /\ phase = "fetch" => MesaInv'
  <2> SUFFICES ASSUME source = "mesa", phase = "fetch" PROVE MesaInv'
    OBVIOUS
  <2>1. MesaInv /\ offset \in Nat
    BY DEF ReadInv, Shape
  <2>2. moved'.gone = 0 =>
          \A r \in always' : ~ IsTied(r) /\ Place(up', r) <= offset => r \in Elements(rows)
    <3> SUFFICES ASSUME moved'.gone = 0, NEW r \in always', ~ IsTied(r), Place(up', r) <= offset
                 PROVE  r \in Elements(rows)
      OBVIOUS
    <3>1. r \in Rows /\ r \in always
      BY <1>0, <1>1
    <3>2. Place(up, r) <= offset
      BY <1>2, <2>1, <3>1
    <3> QED
      BY <1>1, <2>1, <3>1, <3>2 DEF MesaInv
  <2>3. moved'.come = 0 =>
          \A r \in Elements(rows) : ~ IsTied(r) => Place(up', r) <= offset
    <3> SUFFICES ASSUME moved'.come = 0, NEW r \in Elements(rows), ~ IsTied(r)
                 PROVE  Place(up', r) <= offset
      OBVIOUS
    <3>1. Place(up, r) <= offset
      BY <1>1, <2>1 DEF MesaInv
    <3>2. Place(up, r) \in Nat /\ Place(up', r) \in Nat /\ Place(up', r) <= Place(up, r)
      BY <1>2, <1>3
    <3> QED
      BY <2>1, <3>1, <3>2
  <2> QED
    BY <1>a, <1>1, <2>1, <2>2, <2>3 DEF MesaInv, IsTied
<1>9. source = "echo" /\ phase = "fetch" => EchoInv'
  BY <1>a, <1>1 DEF ReadInv, EchoInv
<1>10. source \in {"capacity", "sales"} => TotalsInv'
  BY <1>a DEF ReadInv, TotalsInv
<1> QED
  BY <1>a, <1>4, <1>5, <1>6, <1>7, <1>8, <1>9, <1>10 DEF ReadInv

\* An item that is lost leaves an error.
LEMMA LostItem ==
    ASSUME ReadInv, phase = "fetch", NEW e, LoseItem(e),
           UNCHANGED <<source, up, always, moved, offset>>
    PROVE  ReadInv'
<1> USE SourceReadingAssumption DEF LoseItem
<1>1. /\ errors' # {} /\ read' = read /\ rows' = <<>> /\ items' = Tail(items)
      /\ phase' = "normalize" /\ query' = query /\ warnings' = warnings
  OBVIOUS
<1>2. Shape'
  BY EmptyRows DEF ReadInv, Shape
<1>3. source \in Single => SingleInv'
  <2> SUFFICES ASSUME source \in Single PROVE SingleInv'
    OBVIOUS
  <2>1. read' = <<>> /\ items' = <<>>
    <3>1. read = <<>> /\ items = <<source>>
      BY DEF ReadInv, SingleInv
    <3>2. Tail(<<source>>) = <<>>
      OBVIOUS
    <3> QED
      BY <1>1, <3>1, <3>2
  <2>2. Explained'
    BY <1>1, <2>1, EmptyRows DEF Explained
  <2> QED
    BY <1>1, <2>1, <2>2 DEF SingleInv
<1>4. source = "assessor" => AssessorInv'
  <2> SUFFICES ASSUME source = "assessor" PROVE AssessorInv'
    OBVIOUS
  <2>1. AssessorInv /\ items \in Seq(Nat) /\ items # <<>>
    BY DEF ReadInv, Shape, AssessorInv
  <2>2. /\ items' \in Seq(Nat)
        /\ \A k \in DOMAIN items' : k \in Nat /\ k >= 1 /\ k + 1 \in DOMAIN items
                                     /\ items'[k] = items[k + 1]
    BY <1>1, <2>1, RestOfItems
  <2>3. Spaced(items')
    <3> SUFFICES ASSUME NEW k \in DOMAIN items', NEW m \in DOMAIN items', k < m
                 PROVE  items'[k] + PageSize <= items'[m]
      BY DEF Spaced
    <3>1. k + 1 \in DOMAIN items /\ m + 1 \in DOMAIN items /\ k + 1 < m + 1
      BY <2>2
    <3> QED
      BY <2>1, <2>2, <3>1 DEF AssessorInv, Spaced
  <2>4. moved'.come = 0 => Repeated(read') = {}
    BY <1>1, <2>1 DEF AssessorInv
  <2>5. moved'.come = 0 =>
          \A r \in Elements(read') : \A k \in DOMAIN items' : Place(up', r) <= items'[k]
    BY <1>1, <2>1, <2>2 DEF AssessorInv
  <2> QED
    BY <1>1, <2>2, <2>3, <2>4, <2>5 DEF AssessorInv
<1>5. source \in {"fixture", "agendas"} => FixtureInv'
  <2> SUFFICES ASSUME source \in {"fixture", "agendas"} PROVE FixtureInv'
    OBVIOUS
  <2>1. FixtureInv /\ items \in Seq(Rows) /\ items # <<>>
    BY DEF ReadInv, Shape, FixtureInv
  <2>2. /\ items' \in Seq(Rows) /\ Elements(items') \subseteq Elements(items)
        /\ \A k \in DOMAIN items' : k \in Nat /\ k + 1 \in DOMAIN items
                                     /\ items'[k] = items[k + 1]
    BY <1>1, <2>1, RestOfItems
  <2>3. Repeated(items') = {}
    <3> SUFFICES ASSUME NEW k \in DOMAIN items', NEW m \in DOMAIN items', k # m,
                        items'[k] = items'[m]
                 PROVE  FALSE
      BY DEF Repeated
    <3>1. k + 1 \in DOMAIN items /\ m + 1 \in DOMAIN items /\ k + 1 # m + 1
      BY <2>2
    <3>2. items[k + 1] = items[m + 1]
      BY <2>2
    <3> QED
      BY <2>1, <3>1, <3>2 DEF FixtureInv, Repeated, Elements
  <2> QED
    BY <1>1, <2>1, <2>2, <2>3 DEF FixtureInv
<1>6. source \in {"capacity", "sales"} => TotalsInv'
  BY DEF ReadInv, TotalsInv
<1> QED
  BY <1>1, <1>2, <1>3, <1>4, <1>5, <1>6 DEF ReadInv

\* A source that has answered all at once is read when the answer is explained.
LEMMA ParsedSingle ==
    ASSUME ReadInv, phase = "fetch", source \in Single, NEW parsed \in Seq(Rows),
           ParseItem(parsed), UNCHANGED <<source, up, always, moved>>,
           offset' \in Nat, query'.result \in Seq(Rows),
           read' = parsed => Explained',
           source \in {"capacity", "sales"} /\ read' = parsed => TotalsInv'
    PROVE  ReadInv'
<1>1. read = <<>> /\ items = <<source>>
  BY DEF ReadInv, SingleInv
<1>2. read' = parsed
  BY <1>1, ConcatEmptySeq DEF ParseItem
<1>3. items' = <<>>
  BY <1>1 DEF ParseItem
<1>4. phase' = "normalize" /\ rows' = <<>>
  BY DEF ParseItem
<1>5. Shape'
  BY <1>2, <1>4, EmptyRows DEF ReadInv, Shape
<1>6. SingleInv'
  BY <1>2, <1>3, <1>4 DEF SingleInv
<1>7. source \notin {"assessor", "fixture", "agendas"}
  BY DEF Single, Tables
<1> QED
  BY <1>2, <1>4, <1>5, <1>6, <1>7 DEF ReadInv

\* The one item of a query.
LEMMA DiscoverQueryKeeps == ReadInv /\ DiscoverQuery => ReadInv'
<1> SUFFICES ASSUME ReadInv, DiscoverQuery PROVE ReadInv'
  OBVIOUS
<1> USE SourceReadingAssumption
<1>1. /\ UNCHANGED <<source, up, always, moved, rows, read, query, warnings, errors>>
      /\ items' = <<source>> /\ offset' = 0 /\ phase' = "fetch"
      /\ source \in Requests \ {"assessor"} /\ phase = "discover"
  <2>1. <<source>> # <<>>
    OBVIOUS
  <2> QED
    BY <2>1 DEF DiscoverQuery, StartFetching, Unmoved
<1>2. source \in Single /\ source \notin {"assessor", "fixture", "agendas"}
  BY <1>1 DEF Single, Requests, Tables
<1>3. rows = <<>> /\ read = <<>> /\ query.expected = Unknown
  BY <1>1, <1>2 DEF ReadInv, Shape, SingleInv, NoQuery
<1>4. Shape'
  <2>1. items' # <<>>
    BY <1>1
  <2> QED
    BY <1>1, <2>1 DEF ReadInv, Shape
<1>5. SingleInv'
  BY <1>1, <1>3 DEF SingleInv
<1>6. MesaInv'
  <2>1. \A r \in always' : ~ (Place(up', r) <= 0)
    <3>1. up \subseteq Nat /\ IsFiniteSet(up) /\ always \subseteq up
      BY DEF ReadInv, Shape
    <3>2. ASSUME NEW r \in always PROVE ~ (Place(up, r) <= 0)
      <4>1. Place(up, r) \in Nat /\ Place(up, r) >= 1
        BY <3>1, PlaceInRange
      <4> QED
        BY <4>1
    <3> QED
      BY <1>1, <3>2
  <2>2. rows' = <<>> /\ offset' = 0
    BY <1>1, <1>3
  <2> QED
    BY <2>1, <2>2, EmptyRows DEF MesaInv
<1>7. EchoInv'
  BY <1>1, <1>3 DEF EchoInv
<1>8. TotalsInv'
  BY <1>1, <1>3, EmptyRows DEF TotalsInv
<1> QED
  BY <1>1, <1>2, <1>4, <1>5, <1>6, <1>7, <1>8 DEF ReadInv

\* The recorded payloads, each found once.
LEMMA DiscoverFixturesKeeps == ReadInv /\ DiscoverFixtures => ReadInv'
<1> SUFFICES ASSUME ReadInv, DiscoverFixtures PROVE ReadInv'
  OBVIOUS
<1> USE SourceReadingAssumption
<1> DEFINE found == IF source = "fixture" THEN up \ Unreadable ELSE up
<1>1. /\ UNCHANGED <<source, up, always, moved, rows, read, query, warnings, errors>>
      /\ items' = Sorted(found) /\ offset' = 0
      /\ phase' = IF items' = <<>> THEN "done" ELSE "fetch"
      /\ source \in {"fixture", "agendas"} /\ phase = "discover"
  BY DEF DiscoverFixtures, StartFetching, Unmoved
<1>2. up \subseteq Rows /\ IsFiniteSet(up) /\ always \subseteq up
  BY DEF ReadInv, Shape
<1>3. found \subseteq Rows /\ IsFiniteSet(found)
  <2>1. found \subseteq up
    OBVIOUS
  <2> QED
    BY <1>2, <2>1, FS_Subset
<1>4. /\ items' \in Seq(Rows) /\ Repeated(items') = {} /\ Elements(items') = found
  <2>1. found \subseteq Nat
    BY <1>3
  <2> HIDE DEF found
  <2>2. Sorted(found) \in Seq(found) /\ Injective(Sorted(found)) /\ Elements(Sorted(found)) = found
    BY <1>3, <2>1, SortedRows
  <2>3. Sorted(found) \in Seq(Rows)
    BY <1>3, <2>2, SeqMonotonic
  <2> QED
    BY <1>1, <2>2, <2>3, NoneRepeated
<1>5. read = <<>>
  BY <1>1 DEF ReadInv, FixtureInv
<1>6. phase' # "discover" /\ (phase' = "done" => items' = <<>>) /\ (phase' = "fetch" => items' # <<>>)
      /\ phase' \in {"fetch", "done"}
  BY <1>1
<1>7. Shape'
  BY <1>1, <1>6 DEF ReadInv, Shape
<1>8. FixtureInv'
  <2>1. \A r \in always' : (source' = "fixture" /\ r \in Unreadable) \/ r \in Elements(items')
    BY <1>1, <1>2, <1>4
  <2>2. Elements(read') = {} /\ Repeated(read') = {}
    BY <1>1, <1>5, EmptyRows
  <2> QED
    BY <1>4, <1>6, <2>1, <2>2 DEF FixtureInv
<1> QED
  BY <1>1, <1>7, <1>8 DEF ReadInv, Single, Tables

\* A recorded payload is read, or it has gone.
LEMMA FetchFixtureKeeps == ReadInv /\ FetchFixture => ReadInv'
<1> SUFFICES ASSUME ReadInv, FetchFixture PROVE ReadInv'
  OBVIOUS
<1> USE SourceReadingAssumption
<1>1. UNCHANGED <<source, up, always, moved, offset>> /\ phase = "fetch"
      /\ source \in {"fixture", "agendas"}
  BY DEF FetchFixture, Unmoved
<1>2. CASE LoseItem("fixture not found")
  BY <1>1, <1>2, LostItem
<1>3. CASE Head(items) \in up /\ ParseItem(<<Head(items)>>) /\ UNCHANGED <<query, warnings, errors>>
  <2> DEFINE x == Head(items)
             parsed == <<x>>
  <2>1. FixtureInv /\ items \in Seq(Rows) /\ items # <<>> /\ read \in Seq(Rows)
    BY <1>1 DEF ReadInv, Shape, FixtureInv
  <2>2. /\ read' = read \o parsed /\ rows' = <<>> /\ items' = Tail(items) /\ phase' = "normalize"
        /\ UNCHANGED <<query, warnings, errors>>
    BY <1>3 DEF ParseItem
  <2>3. /\ items' \in Seq(Rows) /\ x \in Rows /\ x = items[1] /\ 1 \in DOMAIN items
        /\ Elements(items) = {items[1]} \cup Elements(items')
        /\ \A k \in DOMAIN items' : k \in Nat /\ k >= 1 /\ k + 1 \in DOMAIN items
                                     /\ items'[k] = items[k + 1]
    BY <2>1, <2>2, RestOfItems
  <2>4. Repeated(items') = {}
    <3> SUFFICES ASSUME NEW k \in DOMAIN items', NEW m \in DOMAIN items', k # m,
                        items'[k] = items'[m]
                 PROVE  FALSE
      BY DEF Repeated
    <3>1. k + 1 \in DOMAIN items /\ m + 1 \in DOMAIN items /\ k + 1 # m + 1
      BY <2>3
    <3>2. items[k + 1] = items[m + 1]
      BY <2>3
    <3> QED
      BY <2>1, <3>1, <3>2 DEF FixtureInv, Repeated, Elements
  <2>5. x \notin Elements(items')
    <3> SUFFICES ASSUME NEW k \in DOMAIN items', items'[k] = x PROVE FALSE
      BY DEF Elements
    <3>1. k + 1 \in DOMAIN items /\ k + 1 # 1
      BY <2>3
    <3>2. items[k + 1] = items[1]
      BY <2>3
    <3> QED
      BY <2>1, <2>3, <3>1, <3>2 DEF FixtureInv, Repeated, Elements
  <2> HIDE DEF x
  <2>6. parsed \in Seq(Rows) /\ Elements(parsed) = {x} /\ Repeated(parsed) = {}
    <3>1. DOMAIN parsed = {1} /\ parsed[1] = x /\ parsed \in Seq(Rows)
      BY <2>3
    <3> QED
      BY <3>1 DEF Elements, Repeated
  <2> HIDE DEF parsed
  <2>7. /\ read' \in Seq(Rows) /\ Elements(read') = Elements(read) \cup {x}
        /\ Repeated(read') \subseteq
             Repeated(read) \cup Repeated(parsed) \cup (Elements(read) \cap Elements(parsed))
    BY <2>1, <2>2, <2>6, JoinedRows
  <2>8. x \in Elements(items) /\ x \notin Elements(read)
    BY <2>1, <2>3 DEF FixtureInv
  <2>9. Repeated(read') = {}
    BY <2>1, <2>6, <2>7, <2>8 DEF FixtureInv
  <2>10. Elements(read') \cap Elements(items') = {}
    BY <2>1, <2>3, <2>5, <2>7 DEF FixtureInv
  <2>11. Elements(items') \cup Elements(read') = Elements(items) \cup Elements(read)
    BY <2>3, <2>7
  <2>12. FixtureInv'
    BY <1>1, <2>1, <2>2, <2>3, <2>4, <2>9, <2>10, <2>11 DEF FixtureInv
  <2>13. Shape'
    BY <1>1, <2>2, <2>7, EmptyRows DEF ReadInv, Shape
  <2> QED
    BY <1>1, <2>2, <2>12, <2>13 DEF ReadInv, Single, Tables
<1> QED
  BY <1>2, <1>3 DEF FetchFixture

-----------------------------------------------------------------------------
(* The assessor's pages.                                                   *)

\* A place on a page of q stays on it when q is extended.
LEMMA AppendedPage ==
    ASSUME NEW q \in Seq(Nat), NEW from \in Nat,
           \A k \in DOMAIN q : q[k] + PageSize <= from, Spaced(q)
    PROVE  LET t == Append(q, from) IN
           /\ t \in Seq(Nat) /\ Spaced(t) /\ t # <<>>
           /\ \A k \in DOMAIN t : t[k] + PageSize <= from + PageSize
           /\ \A n \in Nat : OnPage(q, n) => OnPage(t, n)
           /\ \A n \in Nat : from < n /\ n <= from + PageSize => OnPage(t, n)
<1> USE SourceReadingAssumption
<1> DEFINE t == Append(q, from)
<1>1. /\ Len(q) \in Nat /\ DOMAIN q = 1..Len(q) /\ \A k \in DOMAIN q : q[k] \in Nat
  BY LenProperties
<1>2. /\ t \in Seq(Nat) /\ DOMAIN t = 1..(Len(q) + 1) /\ t[Len(q) + 1] = from
      /\ \A k \in 1..Len(q) : t[k] = q[k]
  OBVIOUS
<1> HIDE DEF t
<1>3. t # <<>>
  <2>1. Len(q) + 1 \in DOMAIN t
    BY <1>1, <1>2
  <2> QED
    BY <2>1, EmptyRows
<1>4. \A k \in DOMAIN t : k = Len(q) + 1 \/ (k \in DOMAIN q /\ t[k] = q[k])
  BY <1>1, <1>2
<1>5. Spaced(t)
  <2> SUFFICES ASSUME NEW k \in DOMAIN t, NEW m \in DOMAIN t, k < m
               PROVE  t[k] + PageSize <= t[m]
    BY DEF Spaced
  <2>1. k \in DOMAIN q /\ t[k] = q[k]
    BY <1>1, <1>2, <1>4
  <2>2. CASE m = Len(q) + 1
    BY <1>2, <2>1, <2>2
  <2>3. CASE m \in DOMAIN q /\ t[m] = q[m]
    BY <2>1, <2>3 DEF Spaced
  <2> QED
    BY <1>4, <2>2, <2>3
<1>6. \A k \in DOMAIN t : t[k] + PageSize <= from + PageSize
  <2> SUFFICES ASSUME NEW k \in DOMAIN t PROVE t[k] <= from
    BY <1>2
  <2>1. CASE k = Len(q) + 1
    BY <1>2, <2>1
  <2>2. CASE k \in DOMAIN q /\ t[k] = q[k]
    BY <1>1, <2>2
  <2> QED
    BY <1>4, <2>1, <2>2
<1>7. \A n \in Nat : OnPage(q, n) => OnPage(t, n)
  <2> SUFFICES ASSUME NEW n \in Nat, NEW k \in DOMAIN q, q[k] < n /\ n <= q[k] + PageSize
               PROVE  OnPage(t, n)
    BY DEF OnPage
  <2>1. k \in DOMAIN t /\ t[k] = q[k]
    BY <1>1, <1>2
  <2> QED
    BY <2>1 DEF OnPage
<1>8. \A n \in Nat : from < n /\ n <= from + PageSize => OnPage(t, n)
  <2>1. Len(q) + 1 \in DOMAIN t
    BY <1>1, <1>2
  <2> QED
    BY <1>2, <2>1 DEF OnPage
<1> QED
  BY <1>2, <1>3, <1>5, <1>6, <1>7, <1>8 DEF t

\* The pages found so far, and the next one.
LEMMA DiscoverPageKeeps == ReadInv /\ DiscoverPage => ReadInv'
<1> SUFFICES ASSUME ReadInv, DiscoverPage PROVE ReadInv'
  OBVIOUS
<1> USE SourceReadingAssumption
<1> DEFINE page == PageAt(offset)
           found == IF page = <<>> THEN items ELSE Append(items, offset)
           more == page # <<>> /\ ExceedsLimit(offset)
<1>1. /\ source = "assessor" /\ phase = "discover"
      /\ UNCHANGED <<source, up, always, moved, rows, read, query, warnings>>
      /\ \/ /\ more /\ items' = found /\ offset' = offset + PageSize
            /\ UNCHANGED <<phase, errors>>
         \/ /\ items' = found /\ offset' = 0
            /\ phase' = IF found = <<>> THEN "done" ELSE "fetch"
            /\ errors' = errors \cup (IF more THEN TooManyPages ELSE {})
  BY DEF DiscoverPage, StartFetching, Unmoved
<1>2. /\ up \subseteq Rows /\ IsFiniteSet(up) /\ always \subseteq up /\ up \subseteq Nat
      /\ offset \in Nat
  BY DEF ReadInv, Shape
<1>3. AssessorInv
  BY <1>1 DEF ReadInv
<1>4. /\ items \in Seq(Nat) /\ Spaced(items) /\ read = <<>> /\ errors = {}
      /\ \A k \in DOMAIN items : items[k] + PageSize <= offset
      /\ \A n \in 1..offset : OnPage(items, n)
  BY <1>1, <1>3 DEF AssessorInv
<1>5. Cardinality(up) \in Nat /\ (page = <<>> => Cardinality(up) <= offset)
  <2>1. Cardinality(up) \in Nat
    BY <1>2, FS_CardinalityType
  <2>2. PageSize \in Nat /\ PageSize > 0
    OBVIOUS
  <2> QED
    BY <1>2, <2>1, <2>2, SortedPage DEF PageAt
<1>6. ~ ExceedsLimit(offset) => Cardinality(up) <= offset + PageSize
  BY <1>2, <1>5 DEF ExceedsLimit
<1> HIDE DEF page
<1>7. /\ found \in Seq(Nat) /\ Spaced(found)
      /\ \A k \in DOMAIN found : found[k] + PageSize <= offset + PageSize
      /\ \A n \in 1..offset : OnPage(found, n)
      /\ page # <<>> =>
           /\ found # <<>>
           /\ \A n \in Nat : offset < n /\ n <= offset + PageSize => OnPage(found, n)
  <2>1. CASE page = <<>>
    <3>1. found = items
      BY <2>1
    <3>2. \A k \in DOMAIN items : items[k] \in Nat
      BY <1>4, LenProperties
    <3>3. \A k \in DOMAIN items : items[k] + PageSize <= offset + PageSize
      BY <1>2, <1>4, <3>2
    <3> HIDE DEF found
    <3> QED
      BY <1>4, <2>1, <3>1, <3>3
  <2>2. CASE page # <<>>
    <3> DEFINE t == Append(items, offset)
    <3>1. found = t
      BY <2>2
    <3>2. /\ t \in Seq(Nat) /\ Spaced(t) /\ t # <<>>
          /\ \A k \in DOMAIN t : t[k] + PageSize <= offset + PageSize
          /\ \A n \in Nat : OnPage(items, n) => OnPage(t, n)
          /\ \A n \in Nat : offset < n /\ n <= offset + PageSize => OnPage(t, n)
      BY <1>2, <1>4, AppendedPage
    <3>3. \A n \in 1..offset : n \in Nat
      BY <1>2
    <3> HIDE DEF found, t
    <3> QED
      BY <1>4, <3>1, <3>2, <3>3
  <2> QED
    BY <2>1, <2>2
<1> HIDE DEF found
<1>8. CASE more /\ items' = found /\ offset' = offset + PageSize /\ UNCHANGED <<phase, errors>>
  <2>1. Shape'
    BY <1>1, <1>2, <1>8 DEF ReadInv, Shape
  <2>2. \A n \in 1..(offset + PageSize) : OnPage(found, n)
    <3> SUFFICES ASSUME NEW n \in 1..(offset + PageSize) PROVE OnPage(found, n)
      OBVIOUS
    <3>1. n \in Nat /\ (n \in 1..offset \/ (offset < n /\ n <= offset + PageSize))
      BY <1>2
    <3> QED
      BY <1>7, <1>8, <3>1
  <2>3. AssessorInv'
    BY <1>1, <1>4, <1>7, <1>8, <2>2, EmptyRows DEF AssessorInv
  <2> QED
    BY <1>1, <2>1, <2>3 DEF ReadInv, Single, Tables
<1>9. CASE /\ items' = found /\ offset' = 0
           /\ phase' = IF found = <<>> THEN "done" ELSE "fetch"
           /\ errors' = errors \cup (IF more THEN TooManyPages ELSE {})
  <2>1. /\ phase' \in {"fetch", "done"} /\ (phase' = "done" => items' = <<>>)
        /\ (phase' = "fetch" => items' # <<>>)
    BY <1>9
  <2>2. Shape'
    BY <1>1, <1>2, <1>9, <2>1 DEF ReadInv, Shape
  <2>3. errors' = {} => \A r \in always : OnPage(found, Place(up, r))
    <3> SUFFICES ASSUME errors' = {}, NEW r \in always PROVE OnPage(found, Place(up, r))
      OBVIOUS
    <3>1. ~ more
      BY <1>9 DEF TooManyPages
    <3>2. Place(up, r) \in Nat /\ Place(up, r) >= 1 /\ Place(up, r) <= Cardinality(up)
      BY <1>2, PlaceInRange
    <3>3. CASE page = <<>>
      <4>1. Place(up, r) \in 1..offset
        BY <1>2, <1>5, <3>2, <3>3
      <4> QED
        BY <1>7, <4>1
    <3>4. CASE page # <<>>
      <4>1. Place(up, r) \in 1..offset \/ (offset < Place(up, r) /\ Place(up, r) <= offset + PageSize)
        BY <1>2, <1>5, <1>6, <3>1, <3>2, <3>4
      <4> QED
        BY <1>7, <3>2, <3>4, <4>1
    <3> QED
      BY <3>3, <3>4
  <2>4. AssessorInv'
    BY <1>1, <1>4, <1>7, <1>9, <2>1, <2>3, EmptyRows DEF AssessorInv
  <2> QED
    BY <1>1, <2>1, <2>2, <2>4 DEF ReadInv, Single, Tables
<1> QED
  BY <1>1, <1>8, <1>9

\* A discovery that fails has said so.
LEMMA DiscoverFailsKeeps == ReadInv /\ DiscoverFails => ReadInv'
<1> SUFFICES ASSUME ReadInv, DiscoverFails PROVE ReadInv'
  OBVIOUS
<1>1. /\ source = "assessor" /\ phase = "discover" /\ errors' # {}
      /\ UNCHANGED <<source, up, always, moved, rows, read, query, warnings>>
      /\ items' = items /\ offset' = 0
      /\ phase' = IF items = <<>> THEN "done" ELSE "fetch"
  BY DEF DiscoverFails, StartFetching, Unmoved
<1>2. phase' \in {"fetch", "done"} /\ (phase' = "done" => items' = <<>>)
      /\ (phase' = "fetch" => items' # <<>>)
  BY <1>1
<1>3. Shape'
  BY <1>1, <1>2 DEF ReadInv, Shape
<1>4. AssessorInv'
  BY <1>1, <1>2 DEF ReadInv, AssessorInv
<1> QED
  BY <1>1, <1>2, <1>3, <1>4 DEF ReadInv, Single, Tables

\* The page of the first item lies behind what has been read and before the other items.
LEMMA FetchPageKeeps == ReadInv /\ FetchPage => ReadInv'
<1> SUFFICES ASSUME ReadInv, FetchPage PROVE ReadInv'
  OBVIOUS
<1> USE SourceReadingAssumption
<1> DEFINE from == Head(items)
           page == PageAt(from)
<1>1. /\ source = "assessor" /\ phase = "fetch"
      /\ UNCHANGED <<source, up, always, moved, offset, query, warnings, errors>>
      /\ read' = read \o page /\ rows' = <<>> /\ items' = Tail(items) /\ phase' = "normalize"
  BY DEF FetchPage, ParseItem, Unmoved
<1>2. /\ up \subseteq Rows /\ IsFiniteSet(up) /\ always \subseteq up /\ up \subseteq Nat
      /\ read \in Seq(Rows) /\ items # <<>>
  BY <1>1 DEF ReadInv, Shape
<1>3. AssessorInv /\ items \in Seq(Nat) /\ Spaced(items)
  BY <1>1 DEF ReadInv, AssessorInv
<1>4. /\ items' \in Seq(Nat) /\ from \in Nat /\ 1 \in DOMAIN items /\ from = items[1]
      /\ DOMAIN items = 1..Len(items) /\ Len(items) \in Nat
      /\ \A k \in DOMAIN items' : k \in Nat /\ k >= 1 /\ k + 1 \in DOMAIN items
                                   /\ items'[k] = items[k + 1]
      /\ \A k \in DOMAIN items : k > 1 => k - 1 \in DOMAIN items' /\ items'[k - 1] = items[k]
  BY <1>1, <1>2, <1>3, RestOfItems
<1> HIDE DEF from
<1>5. /\ page \in Seq(up) /\ Injective(page) /\ Elements(page) \subseteq up
      /\ \A x \in up :
           x \in Elements(page) <=> from < Place(up, x) /\ Place(up, x) <= from + PageSize
  BY <1>2, <1>4, SortedPage DEF PageAt
<1>6. page \in Seq(Rows)
  BY <1>2, <1>5, SeqMonotonic
<1> HIDE DEF page
<1>7. /\ read' \in Seq(Rows) /\ Elements(read') = Elements(read) \cup Elements(page)
      /\ Repeated(read') \subseteq
           Repeated(read) \cup Repeated(page) \cup (Elements(read) \cap Elements(page))
  BY <1>1, <1>2, <1>6, JoinedRows
<1>8. Repeated(page) = {}
  BY <1>5, NoneRepeated
<1>9. Spaced(items')
  <2> SUFFICES ASSUME NEW k \in DOMAIN items', NEW m \in DOMAIN items', k < m
               PROVE  items'[k] + PageSize <= items'[m]
    BY DEF Spaced
  <2>1. k + 1 \in DOMAIN items /\ m + 1 \in DOMAIN items /\ k + 1 < m + 1
    BY <1>4
  <2> QED
    BY <1>3, <1>4, <2>1 DEF Spaced
<1>10. \A k \in DOMAIN items' : items'[k] \in Nat /\ from + PageSize <= items'[k]
  <2> SUFFICES ASSUME NEW k \in DOMAIN items'
               PROVE  items'[k] \in Nat /\ from + PageSize <= items'[k]
    OBVIOUS
  <2>1. k + 1 \in DOMAIN items /\ 1 < k + 1 /\ items'[k] = items[k + 1]
    BY <1>4
  <2>2. items[k + 1] \in Nat
    BY <1>3, <2>1, LenProperties
  <2> QED
    BY <1>3, <1>4, <2>1, <2>2 DEF Spaced
<1>11. Elements(read) \subseteq Nat
  <2>1. Elements(read) \subseteq Rows
    BY <1>2 DEF Elements
  <2> QED
    BY <2>1
<1>12. errors' = {} /\ moved'.gone + moved'.come = 0 =>
         \A r \in always' : r \in Elements(read') \/ OnPage(items', Place(up', r))
  <2> SUFFICES ASSUME errors = {}, moved.gone + moved.come = 0, NEW r \in always
               PROVE  r \in Elements(read') \/ OnPage(items', Place(up, r))
    BY <1>1
  <2>1. r \in Elements(read) \/ OnPage(items, Place(up, r))
    BY <1>1, <1>3 DEF AssessorInv
  <2>2. ASSUME OnPage(items, Place(up, r))
        PROVE  r \in Elements(page) \/ OnPage(items', Place(up, r))
    <3>1. PICK k \in DOMAIN items : items[k] < Place(up, r) /\ Place(up, r) <= items[k] + PageSize
      BY <2>2 DEF OnPage
    <3>2. CASE k = 1
      BY <1>2, <1>4, <1>5, <3>1, <3>2
    <3>3. CASE k > 1
      <4>1. k - 1 \in DOMAIN items' /\ items'[k - 1] = items[k]
        BY <1>4, <3>3
      <4> QED
        BY <3>1, <4>1 DEF OnPage
    <3> QED
      BY <1>4, <3>2, <3>3
  <2> QED
    BY <1>7, <2>1, <2>2
<1>13. ASSUME moved.come = 0 PROVE \A r \in Elements(read) : Place(up, r) <= from
  BY <1>3, <1>4, <1>13 DEF AssessorInv
<1>14. ASSUME moved.come = 0 PROVE Repeated(read') = {}
  <2>1. Repeated(read) = {}
    BY <1>3, <1>14 DEF AssessorInv
  <2>2. ASSUME NEW r \in Elements(read) \cap Elements(page) PROVE FALSE
    <3>1. Place(up, r) <= from /\ from < Place(up, r)
      BY <1>5, <1>13, <1>14
    <3>2. Place(up, r) \in Nat
      BY <1>2, <1>11, PlaceInRange
    <3> QED
      BY <1>4, <3>1, <3>2
  <2> QED
    BY <1>7, <1>8, <2>1, <2>2
<1>15. ASSUME moved.come = 0, NEW r \in Elements(read'), NEW k \in DOMAIN items'
       PROVE  Place(up, r) <= items'[k]
  <2>1. r \in Nat
    BY <1>2, <1>5, <1>7, <1>11
  <2>2. Place(up, r) \in Nat
    BY <1>2, <2>1, PlaceInRange
  <2>3. Place(up, r) <= from + PageSize
    <3>1. r \in Elements(page) \/ r \in Elements(read)
      BY <1>7
    <3>2. r \in Elements(page) => Place(up, r) <= from + PageSize
      BY <1>5
    <3>3. r \in Elements(read) => Place(up, r) <= from
      BY <1>13, <1>15
    <3> QED
      BY <1>4, <2>2, <3>1, <3>2, <3>3
  <2>4. items'[k] \in Nat /\ from + PageSize <= items'[k]
    BY <1>10
  <2> QED
    BY <1>4, <2>2, <2>3, <2>4
<1>16. AssessorInv'
  BY <1>1, <1>4, <1>9, <1>12, <1>14, <1>15 DEF AssessorInv
<1>17. Shape'
  BY <1>1, <1>7, EmptyRows DEF ReadInv, Shape
<1> QED
  BY <1>1, <1>16, <1>17 DEF ReadInv, Single, Tables

-----------------------------------------------------------------------------
(* Mesa's pages.                                                           *)

\* The next page goes on where the pages before it ended.
LEMMA FetchPermitsKeeps == ReadInv /\ FetchPermits => ReadInv'
<1> SUFFICES ASSUME ReadInv, FetchPermits PROVE ReadInv'
  OBVIOUS
<1> USE SourceReadingAssumption
<1>1. /\ source = "mesa" /\ phase = "fetch"
      /\ UNCHANGED <<source, up, always, moved, query, warnings, errors>>
  BY DEF FetchPermits, Unmoved
<1>2. /\ up \subseteq Rows /\ IsFiniteSet(up) /\ always \subseteq up /\ up \subseteq Nat
      /\ rows \in Seq(Rows) /\ offset \in Nat /\ query.result \in Seq(Rows)
  BY DEF ReadInv, Shape
<1>3. MesaInv /\ Len(rows) = offset /\ offset <= MaxRows
  BY <1>1 DEF ReadInv, MesaInv
<1>4. read = <<>> /\ items = <<source>> /\ source \in Single
  BY <1>1 DEF ReadInv, SingleInv, Single
<1>5. PICK order \in Orders(up) :
        LET page == PermitPage(order) IN
        IF IsLastPage(page)
          THEN ParseItem(rows \o page) /\ UNCHANGED offset
          ELSE /\ rows' = rows \o page
               /\ offset' = offset + Len(page)
               /\ UNCHANGED <<read, pending, items, phase>>
  BY DEF FetchPermits
<1> DEFINE page == PermitPage(order)
           size == Smaller(PageSize, MaxRows - offset)
           all == rows \o page
<1>6. size \in Nat /\ size <= PageSize /\ size <= MaxRows - offset
      /\ (size = PageSize \/ size = MaxRows - offset)
  BY <1>2, <1>3 DEF Smaller
<1>7. /\ page \in Seq(up) /\ Injective(page) /\ Elements(page) \subseteq up
      /\ Len(page) \in Nat /\ Len(page) <= size
      /\ Len(page) = size \/ offset + Len(page) >= Cardinality(up)
      /\ \A x \in up : ~ IsTied(x) =>
           (x \in Elements(page) <=> offset < Place(up, x) /\ Place(up, x) <= offset + Len(page))
  <2> HIDE DEF size
  <2>1. page = Slice(order, offset, size)
    BY DEF PermitPage, size
  <2> HIDE DEF page
  <2> QED
    BY <1>2, <1>6, <2>1, UntiedPage
<1>8. \/ IsLastPage(page) /\ ParseItem(all) /\ UNCHANGED offset
      \/ /\ ~ IsLastPage(page) /\ rows' = all /\ offset' = offset + Len(page)
         /\ UNCHANGED <<read, pending, items, phase>>
  BY <1>5
<1> HIDE DEF page, size
<1>9. page \in Seq(Rows)
  BY <1>2, <1>7, SeqMonotonic
<1>10. /\ all \in Seq(Rows) /\ Len(all) = offset + Len(page)
       /\ Elements(all) = Elements(rows) \cup Elements(page)
       /\ Repeated(all) \subseteq
            Repeated(rows) \cup Repeated(page) \cup (Elements(rows) \cap Elements(page))
  BY <1>2, <1>3, <1>9, JoinedRows
<1> HIDE DEF all
<1>11. Elements(rows) \subseteq Rows /\ Elements(page) \subseteq Rows
  <2>1. Elements(rows) \subseteq Rows
    BY <1>2 DEF Elements
  <2> QED
    BY <1>2, <1>7, <2>1
<1>12. \A r \in Rows : Place(up, r) \in Nat
  <2> SUFFICES ASSUME NEW r \in Rows PROVE Place(up, r) \in Nat
    OBVIOUS
  <2>1. r \in Nat
    OBVIOUS
  <2> QED
    BY <1>2, <2>1, PlaceInRange
<1>13. ASSUME moved.gone = 0, NEW r \in always, ~ IsTied(r), Place(up, r) <= offset + Len(page)
       PROVE  r \in Elements(all)
  <2>1. r \in up /\ Place(up, r) \in Nat
    BY <1>2, <1>12
  <2>2. CASE Place(up, r) <= offset
    BY <1>3, <1>10, <1>13, <2>2 DEF MesaInv
  <2>3. CASE offset < Place(up, r)
    BY <1>7, <1>10, <1>13, <2>1, <2>3
  <2> QED
    BY <1>2, <2>1, <2>2, <2>3
<1>14. ASSUME moved.come = 0, NEW r \in Elements(page), ~ IsTied(r)
       PROVE  offset < Place(up, r) /\ Place(up, r) <= offset + Len(page)
  BY <1>7, <1>14
<1>15. ASSUME moved.come = 0, NEW r \in Repeated(all) PROVE IsTied(r)
  <2> SUFFICES ASSUME ~ IsTied(r) PROVE FALSE
    OBVIOUS
  <2>1. r \notin Repeated(rows)
    BY <1>3, <1>15 DEF MesaInv
  <2>2. r \notin Repeated(page)
    BY <1>7, NoneRepeated
  <2>3. r \in Elements(rows) /\ r \in Elements(page)
    BY <1>10, <1>15, <2>1, <2>2
  <2>4. Place(up, r) <= offset
    BY <1>3, <1>15, <2>3 DEF MesaInv
  <2>5. offset < Place(up, r) /\ Place(up, r) \in Nat
    BY <1>11, <1>12, <1>14, <1>15, <2>3
  <2> QED
    BY <1>2, <2>4, <2>5
<1>16. CASE IsLastPage(page) /\ ParseItem(all) /\ UNCHANGED offset
  <2>1. ASSUME read' = all PROVE Explained'
    <3>1. ASSUME NEW r \in always
          PROVE  IsRead(r)' \/ MayMissInSilence(r)'
      <4> SUFFICES ASSUME moved.gone = 0, ~ IsTied(r), ~ (Len(all) >= MaxRows)
                   PROVE  r \in Elements(all)
        <5>1. Len(read') = Len(all)
          BY <2>1
        <5>2. moved.gone \in Nat
          BY DEF ReadInv, Shape
        <5>3. ~ (moved.gone = 0) => moved.gone > 0
          BY <5>2
        <5>4. moved.gone > 0 => MayMissInSilence(r)'
          BY <1>1 DEF MayMissInSilence
        <5>5. Len(all) >= MaxRows => MayMissInSilence(r)'
          BY <1>1, <5>1 DEF MayMissInSilence
        <5>6. IsTied(r) => MayMissInSilence(r)'
          BY <1>1 DEF MayMissInSilence, IsTied
        <5>7. r \in Elements(all) => IsRead(r)'
          <6>1. DOMAIN all = 1..Len(all)
            BY <1>10, LenProperties
          <6> QED
            BY <1>1, <2>1, <6>1 DEF Elements, IsRead
        <5> QED
          BY <5>3, <5>4, <5>5, <5>6, <5>7
      <4>1. Len(page) < PageSize /\ offset + Len(page) < MaxRows
        BY <1>2, <1>7, <1>10, <1>16 DEF IsLastPage
      <4>2. Len(page) # size
        BY <1>2, <1>6, <1>7, <4>1
      <4>3. offset + Len(page) >= Cardinality(up)
        BY <1>7, <4>2
      <4>4. Place(up, r) <= Cardinality(up) /\ Cardinality(up) \in Nat /\ Place(up, r) \in Nat
        BY <1>2, PlaceInRange
      <4>5. Place(up, r) <= offset + Len(page)
        BY <1>2, <1>7, <4>3, <4>4
      <4> QED
        BY <1>13, <4>5
    <3>2. ASSUME NEW r \in Repeated(all) PROVE MayRepeat(r)'
      <4>1. moved.come \in Nat
        BY DEF ReadInv, Shape
      <4>2. moved.come > 0 \/ IsTied(r)
        BY <1>15, <4>1
      <4> QED
        BY <1>1, <4>2 DEF MayRepeat, IsTied
    <3>3. Wanted' = always
      BY <1>1 DEF Wanted, Tables
    <3> QED
      BY <2>1, <3>1, <3>2, <3>3 DEF Explained
  <2>2. source \notin {"capacity", "sales"}
    BY <1>1
  <2>3. offset' \in Nat /\ query'.result \in Seq(Rows)
    BY <1>1, <1>2, <1>16
  <2>4. ParseItem(all)
    BY <1>16
  <2> QED
    BY <1>1, <1>4, <1>10, <2>1, <2>2, <2>3, <2>4, ParsedSingle
<1>17. CASE /\ ~ IsLastPage(page) /\ rows' = all /\ offset' = offset + Len(page)
            /\ UNCHANGED <<read, pending, items, phase>>
  <2>1. Len(rows') = offset' /\ offset' \in Nat /\ offset' <= MaxRows
    BY <1>2, <1>6, <1>7, <1>10, <1>17
  <2>2. MesaInv'
    <3>1. moved'.gone = 0 => \A r \in always' :
            ~ IsTied(r) /\ Place(up', r) <= offset' => r \in Elements(rows')
      BY <1>1, <1>13, <1>17
    <3>2. moved'.come = 0 => \A r \in Repeated(rows') : IsTied(r)
      BY <1>1, <1>15, <1>17
    <3>3. moved'.come = 0 => \A r \in Elements(rows') : ~ IsTied(r) => Place(up', r) <= offset'
      <4> SUFFICES ASSUME moved.come = 0, NEW r \in Elements(all), ~ IsTied(r)
                   PROVE  Place(up, r) <= offset + Len(page)
        BY <1>1, <1>17
      <4>1. CASE r \in Elements(page)
        BY <1>14, <4>1
      <4>2. CASE r \in Elements(rows)
        <5>1. Place(up, r) <= offset /\ Place(up, r) \in Nat
          BY <1>3, <1>11, <1>12, <4>2 DEF MesaInv
        <5> QED
          BY <1>2, <1>7, <5>1
      <4> QED
        BY <1>10, <4>1, <4>2
    <3> QED
      BY <2>1, <3>1, <3>2, <3>3 DEF MesaInv, IsTied
  <2>3. Shape'
    BY <1>1, <1>10, <1>17, <2>1 DEF ReadInv, Shape
  <2>4. SingleInv'
    BY <1>1, <1>4, <1>17 DEF SingleInv
  <2> QED
    BY <1>1, <1>17, <2>2, <2>3, <2>4 DEF ReadInv
<1> QED
  BY <1>8, <1>16, <1>17

-----------------------------------------------------------------------------
(* The sources that answer all at once.                                    *)

\* All rows, sorted.
LEMMA AllRows ==
    ASSUME ReadInv
    PROVE  /\ Sorted(up) \in Seq(Rows) /\ Elements(Sorted(up)) = up
           /\ Repeated(Sorted(up)) = {} /\ Len(Sorted(up)) = Cardinality(up)
           /\ DOMAIN Sorted(up) = 1..Len(Sorted(up)) /\ Cardinality(up) \in Nat
           /\ always \subseteq up
<1> USE SourceReadingAssumption
<1>1. up \subseteq Rows /\ IsFiniteSet(up) /\ up \subseteq Nat /\ always \subseteq up
  BY DEF ReadInv, Shape
<1>2. /\ Sorted(up) \in Seq(up) /\ Elements(Sorted(up)) = up /\ Injective(Sorted(up))
      /\ Len(Sorted(up)) = Cardinality(up) /\ Cardinality(up) \in Nat
      /\ DOMAIN Sorted(up) = 1..Cardinality(up)
  BY <1>1, SortedRows
<1>3. Sorted(up) \in Seq(Rows)
  BY <1>1, <1>2, SeqMonotonic
<1> QED
  BY <1>1, <1>2, <1>3, NoneRepeated

\* The first rows.
LEMMA FirstRows ==
    ASSUME ReadInv, NEW n \in Nat
    PROVE  /\ Slice(Sorted(up), 0, n) \in Seq(Rows) /\ Repeated(Slice(Sorted(up), 0, n)) = {}
           /\ Elements(Slice(Sorted(up), 0, n)) \subseteq up
<1> USE SourceReadingAssumption
<1> DEFINE page == Slice(Sorted(up), 0, n)
<1>1. up \subseteq Rows /\ IsFiniteSet(up) /\ up \subseteq Nat
  BY DEF ReadInv, Shape
<1>2. page \in Seq(up) /\ Injective(page) /\ Elements(page) \subseteq up
  <2>1. 0 \in Nat
    OBVIOUS
  <2> QED
    BY <1>1, <2>1, SortedPage
<1> HIDE DEF page
<1>3. page \in Seq(Rows)
  BY <1>1, <1>2, SeqMonotonic
<1>4. Repeated(page) = {}
  BY <1>2, NoneRepeated
<1> QED
  BY <1>2, <1>3, <1>4 DEF page

\* Everything has been read.
LEMMA AllIsExplained ==
    ASSUME ReadInv, source' = source, always' = always, read' = Sorted(up),
           source \in {"osm", "decision"}
    PROVE  Explained'
<1>1. ASSUME NEW r \in always PROVE IsRead(r)'
  <2>1. PICK i \in 1..Len(Sorted(up)) : Sorted(up)[i] = r
    BY AllRows DEF Elements
  <2> QED
    BY <2>1 DEF IsRead
<1>2. Repeated(read') = {}
  BY AllRows
<1> QED
  BY <1>1, <1>2 DEF Explained, Wanted, Tables

\* Overpass and a decision.
LEMMA FetchAllKeeps == ReadInv /\ (FetchElements \/ FetchDecision) => ReadInv'
<1> SUFFICES ASSUME ReadInv, FetchElements \/ FetchDecision PROVE ReadInv'
  OBVIOUS
<1>1. /\ source \in {"osm", "decision"} /\ phase = "fetch"
      /\ UNCHANGED <<source, up, always, moved, offset, query, errors>>
  BY DEF FetchElements, FetchDecision, Unmoved
<1>2. /\ source \in Single /\ offset' \in Nat /\ query'.result \in Seq(Rows)
      /\ source \notin {"capacity", "sales"}
  BY <1>1 DEF ReadInv, Shape, Single
<1>3. CASE ParseItem(Sorted(up))
  <2>1. Sorted(up) \in Seq(Rows)
    BY AllRows
  <2>2. read' = Sorted(up) => Explained'
    BY <1>1, AllIsExplained
  <2> QED
    BY <1>1, <1>2, <1>3, <2>1, <2>2, ParsedSingle
<1>4. ASSUME NEW n \in 0..Cardinality(up), ParseItem(Slice(Sorted(up), 0, n)),
             warnings' = warnings \cup {"remark"}
      PROVE  ReadInv'
  <2> DEFINE page == Slice(Sorted(up), 0, n)
  <2>1. n \in Nat
    OBVIOUS
  <2>2. page \in Seq(Rows) /\ Repeated(page) = {}
    BY <2>1, FirstRows
  <2>3. ParseItem(page) /\ warnings' # {}
    BY <1>4
  <2> HIDE DEF page
  <2>4. read' = page => Explained'
    BY <2>2, <2>3 DEF Explained
  <2> QED
    BY <1>1, <1>2, <2>2, <2>3, <2>4, ParsedSingle
<1> QED
  BY <1>3, <1>4 DEF FetchElements, FetchDecision

\* The rows of a table that become totals are totals, and of one year.
LEMMA TotalsOfOneYear ==
    ASSUME NEW S, source \in {"capacity", "sales"}
    PROVE  /\ \A r \in TotalRows(S) : IsRollUp(TableRow[r])
           /\ \A q, r \in TotalRows(S) : TableRow[q].year = TableRow[r].year
<1> DEFINE table == {TableRow[r] : r \in S}
<1>1. CASE source = "capacity"
  <2>1. \A r \in TotalRows(S) : TableRow[r] \in CapacityRows(table, RequestedYear, Areas)
    BY <1>1 DEF TotalRows
  <2> HIDE DEF table
  <2>2. \A r \in TotalRows(S) :
          IsRollUp(TableRow[r]) /\ TableRow[r].year = ResolvedYear(table, RequestedYear)
    BY <2>1 DEF CapacityRows
  <2> QED
    BY <2>2
<1>2. CASE source = "sales"
  <2> DEFINE totals == {row \in table : IsRollUp(row)}
  <2>1. \A r \in TotalRows(S) : TableRow[r] \in SalesRows(table, RequestedYear, Areas)
    BY <1>2 DEF TotalRows
  <2> HIDE DEF table
  <2>2. \A r \in TotalRows(S) :
          IsRollUp(TableRow[r]) /\ TableRow[r].year = ResolvedYear(totals, RequestedYear)
    BY <2>1 DEF SalesRows
  <2> QED
    BY <2>2
<1> QED
  BY <1>1, <1>2

\* A table.
LEMMA FetchTableKeeps == ReadInv /\ FetchTable => ReadInv'
<1> SUFFICES ASSUME ReadInv, FetchTable PROVE ReadInv'
  OBVIOUS
<1> USE SourceReadingAssumption
<1>1. /\ source \in Tables /\ phase = "fetch"
      /\ UNCHANGED <<source, up, always, moved, offset>>
  BY DEF FetchTable, Unmoved
<1>2. CASE LoseItem("no area rows")
  BY <1>1, <1>2, LostItem
<1>3. CASE ParseItem(Sorted(TotalRows(up))) /\ UNCHANGED <<query, warnings, errors>>
  <2> DEFINE T == TotalRows(up)
             parsed == Sorted(T)
  <2>1. up \subseteq Rows /\ IsFiniteSet(up)
    BY DEF ReadInv, Shape
  <2>2. T \subseteq up
    BY DEF TotalRows
  <2>3. source \in {"capacity", "sales"} =>
          /\ \A r \in T : IsRollUp(TableRow[r])
          /\ \A q, r \in T : TableRow[q].year = TableRow[r].year
    BY TotalsOfOneYear
  <2> HIDE DEF T
  <2>4. T \subseteq Rows /\ T \subseteq Nat /\ IsFiniteSet(T)
    BY <2>1, <2>2, FS_Subset
  <2>5. parsed \in Seq(T) /\ Elements(parsed) = T /\ Injective(parsed)
    BY <2>4, SortedRows
  <2>6. parsed \in Seq(Rows)
    BY <2>4, <2>5, SeqMonotonic
  <2>7. ParseItem(parsed)
    BY <1>3 DEF T
  <2> HIDE DEF parsed
  <2>8. Repeated(parsed) = {}
    BY <2>5, NoneRepeated
  <2>9. read' = parsed => Explained'
    BY <1>1, <2>8 DEF Explained, Wanted
  <2>10. source \in {"capacity", "sales"} /\ read' = parsed => TotalsInv'
    BY <2>3, <2>5 DEF TotalsInv
  <2>11. source \in Single /\ offset' \in Nat /\ query'.result \in Seq(Rows)
    BY <1>1, <1>3 DEF ReadInv, Shape, Single
  <2> QED
    BY <1>1, <2>6, <2>7, <2>9, <2>10, <2>11, ParsedSingle
<1> QED
  BY <1>2, <1>3 DEF FetchTable

-----------------------------------------------------------------------------
(* ECHO's query and its pages.                                             *)

\* Of each registry its first row is kept; when none is dropped, no row came twice.
LEMMA Deduplication ==
    ASSUME NEW q \in Seq(Rows)
    PROVE  /\ Deduplicated(q) \in Seq(Rows) /\ Repeated(Deduplicated(q)) = {}
           /\ Elements(Deduplicated(q)) \subseteq Elements(q)
           /\ Len(Deduplicated(q)) \in Nat /\ Len(Deduplicated(q)) <= Len(q)
           /\ Len(Deduplicated(q)) = Len(q) =>
                Elements(Deduplicated(q)) = Elements(q) /\ Injective(q)
<1> DEFINE n == Len(q)
           D == 1..n
           First(i) == \A j \in 1..(i - 1) : RegistryOf[q[j]] # RegistryOf[q[i]]
           F == {i \in D : First(i)}
           kept == Sorted(F)
           d == [k \in 1..Len(kept) |-> q[kept[k]]]
<1>1. d = Deduplicated(q)
  BY DEF Deduplicated
<1>2. n \in Nat /\ DOMAIN q = D /\ \A i \in D : q[i] \in Rows
  BY LenProperties
<1>3. IsFiniteSet(D) /\ Cardinality(D) = n
  BY <1>2, FirstNumbers
<1>4. ASSUME NEW i \in F, NEW j \in F, RegistryOf[q[i]] = RegistryOf[q[j]] PROVE i = j
  <2>1. i \in Nat /\ j \in Nat /\ i >= 1 /\ j >= 1
    BY <1>2
  <2>2. ASSUME i < j PROVE FALSE
    <3>1. i \in 1..(j - 1)
      BY <2>1, <2>2
    <3>2. First(j)
      OBVIOUS
    <3> QED
      BY <1>4, <3>1, <3>2
  <2>3. ASSUME j < i PROVE FALSE
    <3>1. j \in 1..(i - 1)
      BY <2>1, <2>3
    <3>2. First(i)
      OBVIOUS
    <3> QED
      BY <1>4, <3>1, <3>2
  <2> QED
    BY <2>1, <2>2, <2>3
<1>5. F \subseteq D
  OBVIOUS
<1> HIDE DEF F
<1>6. /\ IsFiniteSet(F) /\ F \subseteq Nat /\ Cardinality(F) \in Nat /\ Cardinality(F) <= n
      /\ (Cardinality(F) = n => F = D)
  <2>1. D \subseteq Nat
    BY <1>2
  <2>2. IsFiniteSet(F) /\ Cardinality(F) <= Cardinality(D)
        /\ (Cardinality(F) = Cardinality(D) => F = D)
    BY <1>3, <1>5, FS_Subset
  <2>3. Cardinality(F) \in Nat
    BY <2>2, FS_CardinalityType
  <2> QED
    BY <1>3, <1>5, <2>1, <2>2, <2>3
<1>7. /\ Elements(kept) = F /\ Len(kept) = Cardinality(F) /\ Injective(kept)
      /\ DOMAIN kept = 1..Len(kept) /\ Len(kept) \in Nat
  BY <1>6, SortedRows
<1> HIDE DEF kept, D
<1>8. \A k \in 1..Len(kept) : kept[k] \in F /\ kept[k] \in D
  BY <1>5, <1>7 DEF Elements
<1>9. /\ d \in Seq(Rows) /\ Len(d) = Len(kept) /\ DOMAIN d = 1..Len(kept)
      /\ \A k \in 1..Len(kept) : d[k] = q[kept[k]]
  BY <1>2, <1>7, <1>8
<1> HIDE DEF d
<1>10. Repeated(d) = {}
  <2> SUFFICES ASSUME NEW k \in DOMAIN d, NEW m \in DOMAIN d, k # m, d[k] = d[m] PROVE FALSE
    BY DEF Repeated
  <2>1. kept[k] = kept[m]
    BY <1>4, <1>8, <1>9
  <2> QED
    BY <1>7, <1>9, <2>1 DEF Injective
<1>11. Elements(d) \subseteq Elements(q)
  BY <1>2, <1>8, <1>9 DEF Elements
<1>12. ASSUME Len(d) = n PROVE Elements(q) \subseteq Elements(d) /\ Injective(q)
  <2>1. F = D
    BY <1>6, <1>7, <1>9, <1>12
  <2>2. ASSUME NEW i \in D PROVE q[i] \in Elements(d)
    <3>1. PICK k \in DOMAIN kept : kept[k] = i
      BY <1>7, <2>1 DEF Elements
    <3> QED
      BY <1>7, <1>9, <3>1 DEF Elements
  <2>3. Injective(q)
    BY <1>2, <1>4, <2>1 DEF Injective
  <2> QED
    BY <1>2, <2>2, <2>3 DEF Elements
<1> QED
  BY <1>1, <1>6, <1>7, <1>9, <1>10, <1>11, <1>12

\* As many different rows as the result has are the rows of the result.
LEMMA CoveredResult ==
    ASSUME NEW result \in Seq(Rows), NEW q \in Seq(Rows), Injective(q),
           Elements(q) \subseteq Elements(result), Len(result) <= Len(q)
    PROVE  Elements(q) = Elements(result)
<1>1. /\ Len(q) \in Nat /\ DOMAIN q = 1..Len(q)
      /\ Len(result) \in Nat /\ DOMAIN result = 1..Len(result)
  BY LenProperties
<1> DEFINE D == 1..Len(q)
           E == 1..Len(result)
           f == [i \in D |-> q[i]]
           g == [i \in E |-> result[i]]
<1>2. IsFiniteSet(D) /\ Cardinality(D) = Len(q)
  BY <1>1, FirstNumbers
<1>3. IsFiniteSet(E) /\ Cardinality(E) = Len(result)
  BY <1>1, FirstNumbers
<1>4. DOMAIN q = D /\ DOMAIN result = E
  BY <1>1
<1> DEFINE A == Elements(q)
           B == Elements(result)
<1> HIDE DEF D, E
<1>5. f \in Surjection(D, A) /\ f \in Injection(D, A)
  <2>1. f \in Surjection(D, A)
    BY <1>4 DEF Surjection, Elements
  <2>2. f \in Injection(D, A)
    BY <1>4 DEF Injection, IsInjective, Injective, Elements
  <2> QED
    BY <2>1, <2>2
<1>6. g \in Surjection(E, B)
  BY <1>4 DEF Surjection, Elements
<1> HIDE DEF A, B, f, g
<1>7. IsFiniteSet(A) /\ Cardinality(A) = Cardinality(D)
  BY <1>2, <1>5, FS_Surjection
<1>8. IsFiniteSet(B) /\ Cardinality(B) <= Cardinality(E)
  BY <1>3, <1>6, FS_Surjection
<1>9. A \subseteq B
  BY DEF A, B
<1>10. Cardinality(A) <= Cardinality(B) /\ (Cardinality(A) = Cardinality(B) => A = B)
  BY <1>8, <1>9, FS_Subset
<1>11. Cardinality(A) \in Nat /\ Cardinality(B) \in Nat
  BY <1>7, <1>8, FS_CardinalityType
<1>12. A = B
  BY <1>1, <1>2, <1>3, <1>7, <1>8, <1>10, <1>11
<1> QED
  BY <1>12 DEF A, B

\* An answer that ends the query: lost, or explained.
LEMMA FinishedQuery ==
    ASSUME ReadInv, source = "echo", phase = "fetch", NEW facilities \in Seq(Rows), NEW notes,
           FinishQuery(facilities, notes),
           UNCHANGED <<source, up, always, moved, offset>>,
           Repeated(facilities) = {},
           \/ query.expected = Unknown
           \/ notes # {}
           \/ always \subseteq Elements(facilities)
    PROVE  ReadInv'
<1>1. CASE LoseItem("no facilities")
  BY <1>1, LostItem
<1>2. CASE ParseItem(facilities) /\ warnings' = warnings \cup notes /\ UNCHANGED <<errors, query>>
  <2>1. ASSUME read' = facilities PROVE Explained'
    <3>1. ASSUME NEW r \in always
          PROVE  IsRead(r)' \/ warnings' # {} \/ MayMissInSilence(r)'
      <4>1. query.expected = Unknown => MayMissInSilence(r)'
        BY <1>2 DEF MayMissInSilence
      <4>2. notes # {} => warnings' # {}
        BY <1>2
      <4>3. r \in Elements(facilities) => IsRead(r)'
        <5>1. DOMAIN facilities = 1..Len(facilities)
          BY LenProperties
        <5> QED
          BY <2>1, <5>1 DEF Elements, IsRead
      <4> QED
        BY <4>1, <4>2, <4>3
    <3>2. Wanted' = always
      BY DEF Wanted, Tables
    <3> QED
      BY <2>1, <3>1, <3>2 DEF Explained
  <2>2. source \in Single /\ offset' \in Nat /\ query'.result \in Seq(Rows)
        /\ source \notin {"capacity", "sales"}
    BY <1>2 DEF ReadInv, Shape, Single
  <2>3. ParseItem(facilities)
    BY <1>2
  <2> QED
    BY <2>1, <2>2, <2>3, ParsedSingle
<1> QED
  BY <1>1, <1>2 DEF FinishQuery

\* The query keeps its result, or its answer is all there is.
LEMMA StartQueryKeeps == ReadInv /\ (StartQuery \/ QueryIsRefused \/ QueryHasNoId) => ReadInv'
<1> SUFFICES ASSUME ReadInv, StartQuery \/ QueryIsRefused \/ QueryHasNoId PROVE ReadInv'
  OBVIOUS
<1> USE SourceReadingAssumption
<1> DEFINE page == Slice(Sorted(up), 0, PageSize)
<1>1. /\ source = "echo" /\ phase = "fetch" /\ offset = 0
      /\ UNCHANGED <<source, up, always, moved>>
  BY DEF StartQuery, QueryIsRefused, QueryHasNoId, Unmoved
<1>2. query.expected = Unknown
  BY <1>1 DEF ReadInv, EchoInv
<1>3. page \in Seq(Rows) /\ Repeated(page) = {} /\ Elements(page) \subseteq up
  <2>1. PageSize \in Nat
    OBVIOUS
  <2> QED
    BY <2>1, FirstRows
<1>4. /\ <<>> \in Seq(Rows) /\ Repeated(<<>>) = {} /\ Elements(<<>>) \subseteq up
  BY EmptyRows
<1>5. CASE QueryIsRefused
  <2> DEFINE none == <<>>
             notes == {"refused"}
  <2>1. FinishQuery(none, notes) /\ UNCHANGED offset
    BY <1>5 DEF QueryIsRefused
  <2>2. none \in Seq(Rows) /\ Repeated(none) = {}
    BY <1>4
  <2> HIDE DEF none, notes
  <2> QED
    BY <1>1, <1>2, <2>1, <2>2, FinishedQuery
<1>6. CASE QueryHasNoId
  <2> DEFINE notes == {}
  <2>1. FinishQuery(page, notes) /\ UNCHANGED offset
    BY <1>6 DEF QueryHasNoId
  <2> HIDE DEF page, notes
  <2> QED
    BY <1>1, <1>2, <1>3, <2>1, FinishedQuery
<1>7. CASE StartQuery
  <2>1. PICK count \in {Cardinality(up), Unknown}, embedded \in {<<>>, page} :
          IF embedded # <<>> /\ (count = Unknown \/ Len(embedded) >= count)
            THEN FinishQuery(embedded, {}) /\ UNCHANGED offset
            ELSE /\ query' = [result |-> Sorted(up), expected |-> count]
                 /\ rows' = embedded
                 /\ offset' = 1
                 /\ UNCHANGED <<read, pending, items, phase, warnings, errors>>
    BY <1>7 DEF StartQuery
  <2> HIDE DEF page
  <2>2. embedded \in Seq(Rows) /\ Repeated(embedded) = {} /\ Elements(embedded) \subseteq up
    <3>1. CASE embedded = <<>>
      BY <1>4, <3>1
    <3>2. CASE embedded = page
      BY <1>3, <3>2
    <3> QED
      BY <3>1, <3>2
  <2>3. CASE FinishQuery(embedded, {}) /\ UNCHANGED offset
    <3> DEFINE notes == {}
    <3>1. FinishQuery(embedded, notes) /\ UNCHANGED offset
      BY <2>3
    <3> HIDE DEF notes
    <3> QED
      BY <1>1, <1>2, <2>2, <3>1, FinishedQuery
  <2>4. CASE /\ query' = [result |-> Sorted(up), expected |-> count]
             /\ rows' = embedded
             /\ offset' = 1
             /\ UNCHANGED <<read, pending, items, phase, warnings, errors>>
    <3>1. /\ query'.result = Sorted(up) /\ query'.expected = count
      BY <2>4
    <3>2. /\ Sorted(up) \in Seq(Rows) /\ Elements(Sorted(up)) = up
          /\ Len(Sorted(up)) = Cardinality(up) /\ always \subseteq up
      BY AllRows
    <3>3. count # Unknown => count = Cardinality(up)
      OBVIOUS
    <3>4. EchoInv'
      BY <1>1, <2>2, <2>4, <3>1, <3>2, <3>3 DEF EchoInv
    <3>5. Shape'
      BY <1>1, <2>2, <2>4, <3>1, <3>2 DEF ReadInv, Shape
    <3>6. SingleInv'
      BY <1>1, <2>4 DEF ReadInv, SingleInv, Single
    <3> QED
      BY <1>1, <2>4, <3>4, <3>5, <3>6 DEF ReadInv
  <2> QED
    BY <2>1, <2>3, <2>4
<1> QED
  BY <1>5, <1>6, <1>7

\* The pages of the result, merged when the last has come.
LEMMA FetchFacilitiesKeeps == ReadInv /\ FetchFacilities => ReadInv'
<1> SUFFICES ASSUME ReadInv, FetchFacilities PROVE ReadInv'
  OBVIOUS
<1> USE SourceReadingAssumption
<1> DEFINE slice == Slice(query.result, (offset - 1) * PageSize, PageSize)
<1>1. /\ source = "echo" /\ phase = "fetch" /\ offset > 0
      /\ UNCHANGED <<source, up, always, moved>>
  BY DEF FetchFacilities, Unmoved
<1>2. /\ rows \in Seq(Rows) /\ query.result \in Seq(Rows) /\ offset \in Nat
  BY DEF ReadInv, Shape
<1>3. /\ Elements(rows) \subseteq Elements(query.result)
      /\ query.expected # Unknown =>
           Len(query.result) = query.expected /\ always \subseteq Elements(query.result)
  BY <1>1 DEF ReadInv, EchoInv
<1>4. slice \in Seq(Rows) /\ Elements(slice) \subseteq Elements(query.result)
  <2> DEFINE from == (offset - 1) * PageSize
             result == query.result
  <2>1. from \in Nat
    <3>1. offset - 1 \in Nat /\ PageSize \in Nat
      BY <1>1, <1>2
    <3> QED
      BY <3>1
  <2>2. result \in Seq(Rows) /\ PageSize \in Nat
    BY <1>2
  <2> HIDE DEF from, result
  <2> DEFINE s == Slice(result, from, PageSize)
  <2>3. s \in Seq(Rows) /\ \A i \in DOMAIN s : s[i] = result[from + i] /\ from + i \in DOMAIN result
    BY <2>1, <2>2, SliceRows
  <2> HIDE DEF s
  <2>4. Elements(s) \subseteq Elements(result)
    BY <2>3 DEF Elements
  <2> QED
    BY <2>3, <2>4 DEF s, from, result
<1>5. PICK page \in {<<>>, slice} :
        LET all == rows \o page IN
        IF page = <<>> \/ IsDelivered(all)
          THEN FinishPages(all, {}) /\ UNCHANGED offset
          ELSE IF offset = MaxPages
            THEN FinishPages(all, {"ceiling"}) /\ UNCHANGED offset
            ELSE /\ rows' = all
                 /\ offset' = offset + 1
                 /\ UNCHANGED <<read, pending, items, phase, warnings, errors, query>>
  BY DEF FetchFacilities
<1> DEFINE all == rows \o page
<1>6. \/ \E notes : FinishPages(all, notes) /\ UNCHANGED offset
      \/ /\ rows' = all
         /\ offset' = offset + 1
         /\ UNCHANGED <<read, pending, items, phase, warnings, errors, query>>
  BY <1>5
<1> HIDE DEF slice
<1>7. page \in Seq(Rows) /\ Elements(page) \subseteq Elements(query.result)
  <2>1. CASE page = <<>>
    BY <2>1, EmptyRows
  <2>2. CASE page = slice
    BY <1>4, <2>2
  <2> QED
    BY <2>1, <2>2
<1>8. all \in Seq(Rows) /\ Elements(all) \subseteq Elements(query.result)
  <2>1. all \in Seq(Rows) /\ Elements(all) = Elements(rows) \cup Elements(page)
    BY <1>2, <1>7, JoinedRows
  <2> QED
    BY <1>3, <1>7, <2>1
<1> HIDE DEF all
<1>9. ASSUME NEW notes, FinishPages(all, notes), UNCHANGED offset PROVE ReadInv'
  <2> DEFINE d == Deduplicated(all)
             told == notes \cup ShortRead(Len(all)) \cup Merged(all)
  <2>1. FinishQuery(d, told)
    BY <1>9 DEF FinishPages
  <2>2. /\ d \in Seq(Rows) /\ Repeated(d) = {} /\ Len(d) \in Nat /\ Len(d) <= Len(all)
        /\ Len(d) = Len(all) => Elements(d) = Elements(all) /\ Injective(all)
    BY <1>8, Deduplication
  <2>3. ASSUME query.expected # Unknown, told = {} PROVE always \subseteq Elements(d)
    <3>1. Len(all) \in Nat /\ Len(query.result) \in Nat
      BY <1>2, <1>8, LenProperties
    <3>2. ~ (Len(all) < query.expected)
      BY <2>3 DEF ShortRead
    <3>3. ~ (Len(d) < Len(all))
      BY <2>3 DEF Merged
    <3> HIDE DEF d, told
    <3>4. Len(d) = Len(all) /\ Len(query.result) <= Len(all)
      BY <1>3, <2>2, <2>3, <3>1, <3>2, <3>3
    <3>5. Elements(d) = Elements(all) /\ Injective(all)
      BY <2>2, <3>4
    <3> DEFINE result == query.result
    <3>6. /\ result \in Seq(Rows) /\ Elements(all) \subseteq Elements(result)
          /\ Len(result) <= Len(all)
      BY <1>2, <1>8, <3>4
    <3> HIDE DEF result
    <3>7. Elements(all) = Elements(result)
      BY <1>8, <3>5, <3>6, CoveredResult
    <3> QED
      BY <1>3, <2>3, <3>5, <3>7 DEF result
  <2> HIDE DEF d, told
  <2>4. query.expected = Unknown \/ told # {} \/ always \subseteq Elements(d)
    BY <2>3
  <2> QED
    BY <1>1, <1>9, <2>1, <2>2, <2>4, FinishedQuery
<1>10. CASE /\ rows' = all
            /\ offset' = offset + 1
            /\ UNCHANGED <<read, pending, items, phase, warnings, errors, query>>
  <2>1. offset' \in Nat /\ offset' # 0
    BY <1>2, <1>10
  <2>2. EchoInv'
    BY <1>1, <1>3, <1>8, <1>10, <2>1 DEF EchoInv
  <2>3. Shape'
    BY <1>1, <1>8, <1>10, <2>1 DEF ReadInv, Shape
  <2>4. SingleInv'
    BY <1>1, <1>10 DEF ReadInv, SingleInv, Single
  <2> QED
    BY <1>1, <1>10, <2>2, <2>3, <2>4 DEF ReadInv
<1> QED
  BY <1>6, <1>9, <1>10

-----------------------------------------------------------------------------
(* A whole reading.                                                        *)

\* Each step keeps what the reading has read explained.
LEMMA ReadStep == ReadInv /\ [Next]_vars => ReadInv'
<1> SUFFICES ASSUME ReadInv, [Next]_vars PROVE ReadInv'
  OBVIOUS
<1>1. CASE StartRequest \/ ClientStep \/ TimePasses \/ NormalizeRow \/ UNCHANGED vars
  <2>1. UNCHANGED <<source, up, always, moved, phase, items, offset, rows, read, query,
                    warnings, errors>>
    BY <1>1 DEF StartRequest, ClientStep, TimePasses, NormalizeRow, vars, readingVars
  <2> QED
    BY <2>1, ReadStutters
<1>2. CASE FetchFails
  <2>1. /\ phase = "fetch" /\ LoseItem("fetch failed")
        /\ UNCHANGED <<source, up, always, moved, offset>>
    BY <1>2 DEF FetchFails, Unmoved
  <2> QED
    BY <2>1, LostItem
<1>3. CASE Handle /\ ~ FetchFails
  BY <1>3, DiscoverPageKeeps, DiscoverFailsKeeps, FetchPageKeeps, FetchPermitsKeeps,
     StartQueryKeeps, FetchFacilitiesKeeps, FetchAllKeeps, FetchTableKeeps DEF Handle
<1>4. CASE Local /\ ~ NormalizeRow
  BY <1>4, DiscoverQueryKeeps, DiscoverFixturesKeeps, FetchFixtureKeeps, NextItemKeeps
     DEF Local
<1>5. CASE SourceMoves
  BY <1>5, SourceMovesKeeps
<1> QED
  BY <1>1, <1>2, <1>3, <1>4, <1>5 DEF Next

\* What has been read twice, by its two positions.
LEMMA RepeatedPositions ==
    ASSUME Shape, NEW i \in 1..Len(read), NEW j \in 1..Len(read), i # j, read[i] = read[j]
    PROVE  read[i] \in Repeated(read)
<1>1. DOMAIN read = 1..Len(read)
  BY LenProperties DEF Shape
<1> QED
  BY <1>1 DEF Repeated, Elements

LEMMA ReadInvExplains == ReadInv => ReadingIsExplained
<1> SUFFICES ASSUME ReadInv, phase = "done"
             PROVE  /\ \A r \in Wanted :
                         IsRead(r) \/ errors # {} \/ warnings # {} \/ MayMissInSilence(r)
                    /\ \A r \in Repeated(read) : MayRepeat(r)
  BY RepeatedPositions DEF ReadingIsExplained, ReadInv
<1> USE SourceReadingAssumption
<1>1. source \in Connectors /\ items = <<>> /\ moved \in [gone : Nat, come : Nat]
      /\ read \in Seq(Rows)
  BY DEF ReadInv, Shape
<1>2. CASE source \in Single
  <2>1. Explained
    BY <1>2 DEF ReadInv, SingleInv
  <2> QED
    BY <2>1 DEF Explained
<1>3. ASSUME source \notin {"echo"}, NEW r \in Elements(read) PROVE IsRead(r)
  <2>1. DOMAIN read = 1..Len(read)
    BY <1>1, LenProperties
  <2> QED
    BY <1>3, <2>1 DEF Elements, IsRead
<1>4. CASE source = "assessor"
  <2>1. AssessorInv
    BY <1>4 DEF ReadInv
  <2>2. \A n \in Nat : ~ OnPage(items, n)
    BY <1>1, EmptyRows DEF OnPage
  <2>3. moved.gone + moved.come = 0 \/ moved.gone + moved.come > 0
    BY <1>1
  <2>4. ASSUME NEW r \in always, errors = {}, ~ MayMissInSilence(r) PROVE IsRead(r)
    <3>1. moved.gone + moved.come = 0
      BY <1>4, <2>3, <2>4 DEF MayMissInSilence
    <3>2. r \in Elements(read) \/ OnPage(items, Place(up, r))
      BY <2>1, <2>4, <3>1 DEF AssessorInv
    <3>3. ~ OnPage(items, Place(up, r))
      BY <1>1, EmptyRows DEF OnPage
    <3> QED
      BY <1>3, <1>4, <3>2, <3>3
  <2>5. \A r \in Repeated(read) : MayRepeat(r)
    <3>1. moved.come = 0 \/ moved.come > 0
      BY <1>1
    <3>2. moved.come = 0 => Repeated(read) = {}
      BY <2>1 DEF AssessorInv
    <3> QED
      BY <1>4, <3>1, <3>2 DEF MayRepeat
  <2> QED
    BY <1>4, <2>4, <2>5 DEF Wanted, Tables
<1>5. CASE source \in {"fixture", "agendas"}
  <2>1. FixtureInv
    BY <1>5 DEF ReadInv
  <2>2. Elements(items) = {}
    BY <1>1, EmptyRows
  <2>3. ASSUME NEW r \in always PROVE IsRead(r) \/ errors # {} \/ MayMissInSilence(r)
    BY <1>3, <1>5, <2>1, <2>2 DEF FixtureInv, MayMissInSilence
  <2> QED
    BY <1>5, <2>1, <2>3 DEF FixtureInv, Wanted, Tables
<1> QED
  <2>1. source \in Single \/ source = "assessor" \/ source \in {"fixture", "agendas"}
    BY <1>1 DEF Connectors, Single, Tables
  <2> QED
    BY <1>2, <1>4, <1>5, <2>1

\* A row that a source held from the first request to the last has been read when the
\* reading is over, or the run or the document says that something went wrong, or it is
\* one of the silences that MayMissInSilence lists; and no row has been read twice, but
\* where pages are cut from an order that changed between them.
THEOREM NothingLostUnsaid == Spec => []ReadingIsExplained
<1>1. Spec => []ReadInv
  BY ReadBegins, ReadStep, PTL DEF Spec
<1> QED
  BY <1>1, ReadInvExplains, PTL

\* Two rows read for one state and one year are one roll-up, read once.
LEMMA ReadInvSingles == ReadInv => AreaTotalsAreSingle
<1> SUFFICES ASSUME ReadInv, source \in {"capacity", "sales"},
                    NEW i \in 1..Len(read), NEW j \in 1..Len(read),
                    TableRow[read[i]].area = TableRow[read[j]].area
             PROVE  i = j
  BY DEF AreaTotalsAreSingle
<1>1. read \in Seq(Rows) /\ Shape /\ TotalsInv /\ source \in Single
  BY DEF ReadInv, Shape, Single, Tables
<1>2. DOMAIN read = 1..Len(read)
  BY <1>1, LenProperties
<1>3. read[i] \in Elements(read) /\ read[j] \in Elements(read)
  BY <1>2 DEF Elements
<1>4. read[i] \in Rows /\ read[j] \in Rows
  BY <1>1
<1>5. /\ IsRollUp(TableRow[read[i]]) /\ IsRollUp(TableRow[read[j]])
      /\ TableRow[read[i]].year = TableRow[read[j]].year
  BY <1>1, <1>3 DEF TotalsInv
<1>6. read[i] = read[j]
  BY <1>4, <1>5, RollUpsAreUnique DEF IsRollUp
<1>7. Repeated(read) = {}
  <2>1. CASE phase \in {"discover", "fetch"}
    BY <1>1, <2>1, EmptyRows DEF ReadInv, SingleInv
  <2>2. CASE phase \in {"normalize", "done"}
    <3>1. \A r \in Repeated(read) : MayRepeat(r)
      BY <1>1, <2>2 DEF ReadInv, SingleInv, Explained
    <3> QED
      BY <3>1 DEF MayRepeat
  <2> QED
    BY <1>1, <2>1, <2>2 DEF Shape
<1> QED
  BY <1>1, <1>6, <1>7, RepeatedPositions

\* Of a published table each state is counted once: not a second time by a part of its
\* total, and not for two years.
THEOREM StatesCountedOnce == Spec => []AreaTotalsAreSingle
<1>1. Spec => []ReadInv
  BY ReadBegins, ReadStep, PTL DEF Spec
<1> QED
  BY <1>1, ReadInvSingles, PTL

=============================================================================
