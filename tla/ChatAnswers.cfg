\* One run, with every answer and every exception of every service.
CONSTANTS
    Runs = {r1}
    Users = {u1}
    NoUser = NoUser
    None = None
    Budget <- ChatBudget
    Outcomes <- SomeOutcomes
    PolicyAnswers = {"nothing", "policy", "uncited policy", "timeout", "raised"}
    AuctionAnswers = {"nothing", "cards", "uncited cards", "timeout", "invalid", "raised"}
    PublicAnswers = {"nothing", "schedule", "missing schedule", "property", "properties",
                     "uncited property", "no details", "tool error", "timeout",
                     "body timeout", "raised"}
    Classifier = TRUE
    MaxFaults = 1
SPECIFICATION FairSpec
\* The one request is over at the end.
CHECK_DEADLOCK FALSE
INVARIANTS
    Grounded
    NothingVerifiedLost
    HonestStatus
    Disclaimed
PROPERTIES
    RunsEnd
