\* A public source that times out while its page is read, and nothing else fails.
CONSTANTS
    Runs = {r1}
    Users = {u1}
    NoUser = NoUser
    None = None
    Budget <- ChatBudget
    Outcomes <- SomeOutcomes
    PolicyAnswers = {}
    AuctionAnswers = {}
    PublicAnswers = {"schedule", "timeout", "body timeout"}
    Classifier = FALSE
    MaxFaults = 0
SPECIFICATION Spec
CHECK_DEADLOCK FALSE
PROPERTIES
    TimeoutsReported
