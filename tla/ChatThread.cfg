\* Two runs of one thread, of one user or two, one after the other or at once, one
\* of them failing or cut off anywhere.
CONSTANTS
    Runs = {r1, r2}
    Users = {u1, u2}
    NoUser = NoUser
    None = None
    Budget <- ChatBudget
    Outcomes <- SomeOutcomes
    PolicyAnswers = {"policy"}
    AuctionAnswers = {"cards"}
    PublicAnswers = {"uncited property", "timeout"}
    Classifier = FALSE
    MaxFaults = 1
SYMMETRY Symmetry
SPECIFICATION Spec
\* Both requests are over at the end.
CHECK_DEADLOCK FALSE
INVARIANTS
    ChatTypeOK
    OwnRunOnly
    RoutedAsAsked
    StreamWellFormed
PROPERTIES
    ImplementsTurn
