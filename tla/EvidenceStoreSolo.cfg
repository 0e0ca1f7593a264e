\* One process, two payloads, three MIME types of two extensions, three crashes.
SPECIFICATION Spec
CONSTANTS
    json = json
    jsonUtf8 = jsonUtf8
    html = html
    Writers = {w1}
    Payloads = {p1, p2}
    Mimes = {json, jsonUtf8, html}
    ExtensionOf <- MCExtensionOf
    Inodes = {i1, i2, i3, i4}
    NoInode = NoInode
    Truncated = Truncated
    MaxCrashes = 3
SYMMETRY Symmetry
PROPERTY ImplementsImmutableStore
