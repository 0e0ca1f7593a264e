\* One run over one document that has a good record and a bad one.
\* The bounded number of runs is used up in the end: the model stops there.
SPECIFICATION Spec
CONSTANTS
    d1 = d1
    d2 = d2
    assessor = assessor
    revised = revised
    mixed = mixed
    parcel = parcel
    permit = permit
    total = total
    s1 = s1
    s2 = s2
    NoSignature = NoSignature
    NoContent = NoContent
    Documents = {d1}
    Contents = {assessor}
    Entities = {parcel, permit, total}
    Signatures = {s1, s2}
    RecordsOf <- OneBadRecord
    RejectedBy <- MCRejectedBy
    SignatureOf <- MCSignatureOf
    Discoveries <- OneDocument
    ParsedAtFirst = {assessor}
    MaxRuns = 1
PROPERTIES
    OneBadRowCostsOnlyItself
CHECK_DEADLOCK FALSE
