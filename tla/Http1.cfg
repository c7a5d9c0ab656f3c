SPECIFICATION FairSpec
CONSTANTS
    Calls = {r1, r2}
    Hosts <- TwoHosts
    PerKeyCap = 1
    GlobalCap = 1
    Requests <- MixedRequests
    Responses <- AllResponses
    None = None
    Interim <- Unshared
INVARIANTS AnswersOwnRequest ParkedQuiet CarriedAsAsked PoolWithinCaps
PROPERTY CallsReturn
