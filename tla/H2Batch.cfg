SPECIFICATION Spec
CONSTANTS
    WindowMax = 4  DefaultWindow = 2  OurInitialWindow = 3  StreamIdLimit = 6
    MaxHeadersBuf = 2  MaxResponseBytes = 1  MinFrameSize = 1  MaxFrameSize = 2  NoStreamLimit = 9
    N = 2  BodyLen <- OneUpload  Strict = TRUE
    Features = {"info", "split", "rst", "goaway", "padding"}
    McsValues = {0, 1}  IwsValues = {2}  MfsValues = {}
    DataLens = {1}  Increments = {2}  Leftovers <- FreshWindows
INVARIANTS DeliveredWhole CompleteIsDelivered ConformingPeerNeverFatal GoawayBoundary
PROPERTIES ResetIsIsolated
