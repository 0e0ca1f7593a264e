------------------------- MODULE MCIngestionPipeline -------------------------
(* Instances of IngestionPipeline for TLC. *)
EXTENDS IngestionPipeline, TLC

CONSTANTS d1, d2,        \* documents
          assessor, revised, mixed,  \* contents
          parcel, permit, total,     \* entities
          s1, s2         \* field signatures

Row(entity, kind) == [entity |-> entity, kind |-> kind]

\* Two issues of a feed that share a parcel and drift in their fields, and a
\* document without fields that repeats the key of a plain entity and has a
\* record its loader refuses.
MCRecordsOf ==
    [c \in Contents |->
        CASE c = assessor -> <<Row(parcel, "cited"), Row(total, "plain")>>
          [] c = revised -> <<Row(permit, "invalid"), Row(parcel, "cited")>>
          [] c = mixed -> <<Row(total, "plain"), Row(total, "plain"),
                            Row(permit, "cited"), Row(permit, "raising")>>]

MCSignatureOf ==
    [c \in Contents |-> CASE c = assessor -> s1 [] c = revised -> s2 [] c = mixed -> NoSignature]

\* One unreadable row in every content but the first.
MCRejectedBy == [c \in Contents |-> IF c = assessor THEN 0 ELSE 1]

OneBadRecord == [c \in Contents |-> <<Row(parcel, "cited"), Row(permit, "raising")>>]

OneDocument == {<<d1>>}

Batches == {<<d1>>, <<d1, d2>>}

BatchesAndRepeats == {<<>>, <<d1>>, <<d1, d2>>, <<d1, d1>>}

Readable == {assessor, revised}
=============================================================================
