SPECIFICATION Spec
CONSTANTS
    Calls = {r1}
    Requests <- OneBatch
    Cap = 1
    StreamIds = 3
    Speaks = {"h1"}
INVARIANT BatchFallsBack
