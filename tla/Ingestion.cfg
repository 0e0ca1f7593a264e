\* Two runs over contents whose parser is fixed in between, with records that
\* fail; a document may be discovered twice.
\* The bounded number of runs is used up in the end: the model stops there.
SPECIFICATION Spec
CONSTANTS
    d1 = d1
    d2 = d2
    assessor = assessor
    revised = revised
    mixed = mixed
    parcel = parcel
    permit = permit
    total = total
    s1 = s1
    s2 = s2
    NoSignature = NoSignature
    NoContent = NoContent
    Documents = {d1, d2}
    Contents = {assessor, revised, mixed}
    Entities = {parcel, permit, total}
    Signatures = {s1, s2}
    RecordsOf <- MCRecordsOf
    RejectedBy <- MCRejectedBy
    SignatureOf <- MCSignatureOf
    Discoveries <- BatchesAndRepeats
    ParsedAtFirst <- Readable
    MaxRuns = 2
INVARIANTS
    CitedBytesAreArchived
    RunsAddUp
    CurrentIsLatest
    LoadedIsCited
PROPERTIES
    ImplementsEvidenceLedger
    DriftIsNeverSilent
CHECK_DEADLOCK FALSE
