\* Two writers of one payload, one of them may be killed.
SPECIFICATION Spec
CONSTANTS
    json = json
    jsonUtf8 = jsonUtf8
    html = html
    Writers = {w1, w2}
    Payloads = {p1}
    Mimes = {json}
    ExtensionOf <- MCExtensionOf
    Inodes = {i1, i2}
    NoInode = NoInode
    Truncated = Truncated
    MaxCrashes = 1
INVARIANT CrashLeavesNoTruncatedFile
