--------------------------- MODULE S3EvidenceStore ---------------------------
(***************************************************************************)
(* S3EvidenceStore of helios_common/evidence_store.py: the same put() over *)
(* an object store, as two requests.  The service (external: strongly      *)
(* consistent, a put replaces the whole object at once) may answer either  *)
(* request with an error, after or before acting on it.                    *)
(***************************************************************************)
EXTENDS FiniteSets

CONSTANTS Writers,      \* processes that call put()
          Payloads,     \* byte strings; a payload stands for its digest too
          Extensions,   \* what the MIME table can make of a MIME type
          Absent        \* no object under the key

ASSUME S3EvidenceStoreAssumption == Absent \notin Payloads

Keys == Payloads \X Extensions

PayloadOf == [k \in Keys |-> k[1]]

VARIABLES contents,  \* contents[k]: the object under key k
          put,       \* put[w]: the call writer w is in
          result     \* result[w]: how w's last call ended

vars == <<contents, put, result>>

TypeOK ==
    /\ contents \in [Keys -> Payloads \cup {Absent}]
    /\ put \in [Writers -> [step : {"idle", "absent"}, key : Keys]]
    /\ result \in [Writers -> {"none", "stored", "deduplicated", "ClientError"}]

Init ==
    /\ contents = [k \in Keys |-> Absent]
    /\ put \in [Writers -> [step : {"idle"}, key : Keys]]
    /\ result = [w \in Writers |-> "none"]

Return(w, outcome) ==
    /\ put' = [put EXCEPT ![w].step = "idle"]
    /\ result' = [result EXCEPT ![w] = outcome]

\* Mutant: any answer to the head request counts as "it exists".
HeadAnswers(w, key) ==
    /\ put[w].step = "idle"
    /\ put' = [put EXCEPT ![w].key = key]
    /\ result' = [result EXCEPT ![w] = "deduplicated"]
    /\ UNCHANGED contents

\* exists() is true only of a head request that succeeds.
HeadFinds(w, key) ==
    /\ put[w].step = "idle"
    /\ contents[key] # Absent
    /\ put' = [put EXCEPT ![w].key = key]
    /\ result' = [result EXCEPT ![w] = "deduplicated"]
    /\ UNCHANGED contents

\* Every exception of the head request is read as "absent": the 404 of a
\* missing key, and just as well a timeout or a refused credential.
HeadRaises(w, key) ==
    /\ put[w].step = "idle"
    /\ put' = [put EXCEPT ![w] = [step |-> "absent", key |-> key]]
    /\ UNCHANGED <<contents, result>>

\* put_object answers.
PutObject(w) ==
    /\ put[w].step = "absent"
    /\ contents' = [contents EXCEPT ![put[w].key] = PayloadOf[put[w].key]]
    /\ Return(w, "stored")

\* Mutant: cleans up after an error by deleting the key.
DeleteOnError(w) ==
    /\ put[w].step = "absent"
    /\ contents' = [contents EXCEPT ![put[w].key] = Absent]
    /\ Return(w, "ClientError")

\* put_object raises; whether the service has stored the object is not known.
PutObjectRaises(w) ==
    /\ put[w].step = "absent"
    /\ \/ contents' = [contents EXCEPT ![put[w].key] = PayloadOf[put[w].key]]
       \/ UNCHANGED contents
    /\ Return(w, "ClientError")

Next ==
    \E w \in Writers :
        \/ \E key \in Keys : HeadFinds(w, key) \/ HeadRaises(w, key)
        \/ PutObject(w) \/ PutObjectRaises(w)

Spec == Init /\ [][Next]_vars

-----------------------------------------------------------------------------
(* Properties                                                              *)

\* The StoredObject put() returns names a readable object with the caller's
\* bytes, whether it was stored or recognised as stored before, and however
\* many other writers and failed requests there were in between.
ReturnedIsReadable ==
    \A w \in Writers : result[w] \in {"stored", "deduplicated"} /\ put[w].step = "idle" =>
        contents[put[w].key] = PayloadOf[put[w].key]

\* Although puts are repeated, readers see an immutable store: the key decides
\* the bytes, so a second put writes what is there already.
Immutable == INSTANCE ImmutableStore

ImplementsImmutableStore == Immutable!Spec
=============================================================================
