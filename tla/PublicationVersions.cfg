\* Two handlers, a policy page and a spreadsheet whose contents change twice, and
\* may come back, and one handler cut off.
CONSTANTS
    a = a
    b = b
    refused = refused
    long = long
    short = short
    MaxTokens = 5
    OverlapTokens = 2
    MaxBatch = 2
    Storage = {s1}
    Policies = {p1}
    Workbooks <- SomeWorkbooks
    Pages <- SomePages
    Nothing = Nothing
    Handlers = {h1, h2}
    MaxEdits = 2
    MaxFaults = 1
SYMMETRY Symmetry
SPECIFICATION Spec
INVARIANTS
    VersionsWhole
    ReturnedIsPublished
PROPERTIES
    ImplementsCatalog
