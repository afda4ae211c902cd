\* A chat task and a tool's task with one cache, two requests per address and one
\* redirect, a cache of two ticks, and chat look-ups of two attempts of two ticks.
CONSTANTS
    calendar = calendar
    search = search
    moved = moved
    details = details
    elsewhere = elsewhere
    short = short
    long = long
    endless = endless
    chat = chat
    tools = tools
    Calls = {chat, tools}
    Urls <- SomeUrls
    Approved = {calendar, search, moved, details}
    NoUrl = NoUrl
    Pages = {short, long, endless}
    Size <- SomeSize
    Serves <- SomeServes
    Attempts = 2
    MaxRedirects = 1
    SizeLimit = 2
    Timeout = 1
    CacheTTL = 2
    None = None
    Uses <- SomeUses
    Home <- SomeHome
    Reads <- SomeReads
    Budget = 2
    Patience = 2
SPECIFICATION FairSpec
INVARIANTS
    RecordsTypeOK
    AnswersFresh
    RequestsBounded
PROPERTIES
    LookupsEnd
