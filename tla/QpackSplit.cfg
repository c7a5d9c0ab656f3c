SPECIFICATION SpecCoding
CONSTANTS
    Fields <- HpackFields
    Static <- OneStatic
    DynTableCap = 4
    TableSizes = {0, 2, 6}
    MaxFields = 2
    MaxWire = 1
    Fields3 <- QpackFields
    Static3 <- OneStatic
    MaxCapacity = 2
    Overhead = 1
    SplitInts = TRUE
    Inserts <- QpackInserts
    MaxAhead = 1
    MaxChunks = 1
CHECK_DEADLOCK FALSE
INVARIANTS RefusedOnlyOvertaken
