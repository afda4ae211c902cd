\* Two handlers, two spreadsheets that write each other's records in opposite order,
\* and one handler cut off.
CONSTANTS
    a = a
    b = b
    refused = refused
    long = long
    short = short
    MaxTokens = 5
    OverlapTokens = 2
    MaxBatch = 2
    Storage = {s1, s2}
    Policies = {}
    Workbooks <- TwoWorkbooks
    Pages <- NoPages
    Nothing = Nothing
    Handlers = {h1, h2}
    MaxEdits = 0
    MaxFaults = 1
SPECIFICATION FairSpec
INVARIANTS
    PublicationTypeOK
    RecordsWhole
    NoTornFile
PROPERTIES
    HandlersEnd
