\* A page with two versions whose units overlap.
CONSTANTS
    a = a
    b = b
    k1 = k1
    k2 = k2
    k3 = k3
    k4 = k4
    k5 = k5
    Policies = {p1}
    Contents = {a, b}
    Nothing = Nothing
    Keys = {k1, k2, k3, k4, k5}
    Units <- SomeUnits
    Id <- SomeIds
    Text <- SomeText
    Tokens <- SomeTokens
    Characters <- SomeCharacters
    RankConstant = 2
    CandidateLimit = 3
    ContextLimit = 2
    TokenBudget = 4
    CharacterBudget = 5
    Threshold <- SomeThreshold
SPECIFICATION Spec
INVARIANTS
    RetrievalTypeOK
    AgreementWins
    BestOfText
    LeftOutForCause
    NoAnswerForCause
