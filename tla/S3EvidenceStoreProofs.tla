------------------------ MODULE S3EvidenceStoreProofs ------------------------
(***************************************************************************)
(* Theorems about S3EvidenceStore, for any number of writers and payloads. *)
(***************************************************************************)
EXTENDS S3EvidenceStore, TLAPS

USE S3EvidenceStoreAssumption

LEMMA PayloadOfKey == \A k \in Keys : PayloadOf[k] \in Payloads /\ PayloadOf[k] # Absent
BY DEF Keys, PayloadOf

\* An object holds the content of its key, and a put that returned leaves one.
Inv ==
    /\ TypeOK
    /\ \A k \in Keys : contents[k] \in {Absent, PayloadOf[k]}
    /\ ReturnedIsReadable

\* One step: the invariant, and what readers see of it.
LEMMA InvStep ==
    ASSUME Inv, [Next]_vars
    PROVE  /\ Inv'
           /\ \/ UNCHANGED contents
              \/ \E k \in Keys : /\ contents[k] = Absent
                                 /\ contents' = [contents EXCEPT ![k] = PayloadOf[k]]
<1>t. /\ contents \in [Keys -> Payloads \cup {Absent}]
      /\ put \in [Writers -> [step : {"idle", "absent"}, key : Keys]]
      /\ result \in [Writers -> {"none", "stored", "deduplicated", "ClientError"}]
  BY DEF Inv, TypeOK
<1> DEFINE Readable(v) ==
      result[v] \in {"stored", "deduplicated"} /\ put[v].step = "idle" =>
        contents[put[v].key] = PayloadOf[put[v].key]
<1>0. CASE UNCHANGED vars
  BY <1>0 DEF Inv, TypeOK, ReturnedIsReadable, vars
<1> SUFFICES ASSUME NEW w \in Writers,
                    \/ \E key \in Keys : HeadFinds(w, key) \/ HeadRaises(w, key)
                    \/ PutObject(w) \/ PutObjectRaises(w)
             PROVE  /\ Inv'
                    /\ \/ UNCHANGED contents
                       \/ \E k \in Keys : /\ contents[k] = Absent
                                          /\ contents' = [contents EXCEPT ![k] = PayloadOf[k]]
  BY <1>0 DEF Next
<1>1. CASE \E key \in Keys : HeadFinds(w, key)
  <2>1. PICK key \in Keys : HeadFinds(w, key)
    BY <1>1
  <2>2. contents[key] = PayloadOf[key] /\ UNCHANGED contents
    BY <2>1, <1>t DEF HeadFinds, Inv
  <2>3. TypeOK'
    BY <2>1, <1>t DEF HeadFinds, TypeOK
  <2>4. \A v \in Writers : Readable(v)'
    BY <2>1, <2>2, <1>t DEF HeadFinds, Inv, ReturnedIsReadable
  <2> QED
    BY <2>2, <2>3, <2>4 DEF Inv, ReturnedIsReadable
<1>2. CASE \E key \in Keys : HeadRaises(w, key)
  <2>1. TypeOK' /\ UNCHANGED contents
    BY <1>2, <1>t DEF HeadRaises, TypeOK
  <2>2. \A v \in Writers : Readable(v)'
    BY <1>2, <1>t DEF HeadRaises, Inv, ReturnedIsReadable
  <2> QED
    BY <2>1, <2>2 DEF Inv, ReturnedIsReadable
<1>3. CASE PutObject(w) \/ PutObjectRaises(w)
  <2>1. PICK k \in Keys : k = put[w].key
    BY <1>t
  <2>2. contents' \in {contents, [contents EXCEPT ![k] = PayloadOf[k]]}
    BY <1>3, <2>1 DEF PutObject, PutObjectRaises
  <2>3. TypeOK'
    BY <1>3, <2>1, <2>2, <1>t, PayloadOfKey DEF PutObject, PutObjectRaises, Return, TypeOK
  <2>4. \A l \in Keys : contents'[l] = contents[l] \/ contents'[l] = PayloadOf[l]
    BY <2>2, <1>t
  <2>5. \A v \in Writers : v # w => Readable(v)'
    BY <1>3, <2>4, <1>t DEF PutObject, PutObjectRaises, Return, Inv, ReturnedIsReadable
  <2>6. Readable(w)'
    BY <1>3, <2>1, <1>t DEF PutObject, PutObjectRaises, Return
  <2>7. \A v \in Writers : Readable(v)'
    BY <2>5, <2>6
  <2>8. contents' # contents => contents[k] = Absent
    BY <2>2, <1>t DEF Inv
  <2> QED
    BY <2>2, <2>3, <2>4, <2>7, <2>8 DEF Inv, ReturnedIsReadable
<1> QED
  BY <1>1, <1>2, <1>3

LEMMA InvInit == Init => Inv
BY DEF Init, Inv, TypeOK, ReturnedIsReadable

\* Every variable keeps its type.
THEOREM TypeCorrect == Spec => []TypeOK
<1>1. Inv /\ [Next]_vars => Inv'
  BY InvStep
<1>2. Inv => TypeOK
  BY DEF Inv
<1> QED
  BY <1>1, <1>2, InvInit, PTL DEF Spec

\* A put() that returns has left, or found, the caller's bytes under the key.
THEOREM ReturnedReadable == Spec => []ReturnedIsReadable
<1>1. Inv /\ [Next]_vars => Inv'
  BY InvStep
<1>2. Inv => ReturnedIsReadable
  BY DEF Inv
<1> QED
  BY <1>1, <1>2, InvInit, PTL DEF Spec

\* Readers see an immutable store however many writers put one key again.
THEOREM Refinement == Spec => ImplementsImmutableStore
<1>1. Init => Immutable!Init
  BY DEF Init, Immutable!Init
<1>2. Inv /\ [Next]_vars => [Immutable!Next]_contents
  BY InvStep DEF Immutable!Next, Immutable!Store
<1>3. Inv /\ [Next]_vars => Inv'
  BY InvStep
<1> QED
  BY <1>1, <1>2, <1>3, InvInit, PTL DEF Spec, ImplementsImmutableStore, Immutable!Spec
=============================================================================
