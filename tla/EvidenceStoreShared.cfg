\* Three writers of one payload, nobody killed.
SPECIFICATION FairSpec
CONSTANTS
    json = json
    jsonUtf8 = jsonUtf8
    html = html
    Writers = {w1, w2, w3}
    Payloads = {p1}
    Mimes = {json}
    ExtensionOf <- MCExtensionOf
    Inodes = {i1, i2, i3}
    NoInode = NoInode
    Truncated = Truncated
    MaxCrashes = 0
INVARIANTS
    UnverifiedIsBeingWritten
    FailedRenameWasPublished
PROPERTY PublishedIsEventuallyReadable
