SPECIFICATION Spec
CONSTANTS
    Writers = {w1, w2}
    Payloads = {p1, p2}
    Extensions = {json, html}
    Absent = Absent
INVARIANT ReturnedIsReadable
PROPERTY ImplementsImmutableStore
