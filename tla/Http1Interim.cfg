SPECIFICATION Spec
CONSTANTS
    Calls = {r1, r2}
    Hosts <- AHost
    PerKeyCap = 4
    GlobalCap = 32
    Requests <- OneRequest
    Responses <- OkResponse
    None = None
    Interim <- OneRequest
INVARIANT ParkedQuiet
