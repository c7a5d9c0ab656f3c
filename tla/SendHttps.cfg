SPECIFICATION Spec
CONSTANTS
    Calls = {r1, r2}
    Requests <- AllRequests
    Cap = 1
    StreamIds = 3
    Speaks = {"h1", "h2", "h3"}
INVARIANTS SentAsPreferred VerifiedAsAsked ParkedIdle
