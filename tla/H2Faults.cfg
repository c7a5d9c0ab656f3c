SPECIFICATION Spec
CONSTANTS
    WindowMax = 4  DefaultWindow = 2  OurInitialWindow = 3  StreamIdLimit = 6
    MaxHeadersBuf = 2  MaxResponseBytes = 1  MinFrameSize = 1  MaxFrameSize = 2  NoStreamLimit = 9
    N = 2  BodyLen <- OneUpload  Strict = FALSE
    Features = {"hostile", "writefail", "eof", "split", "splitend", "rst", "goaway", "settings"}
    McsValues = {1}  IwsValues = {2, 5}  MfsValues = {}
    DataLens = {1}  Increments = {}  Leftovers <- UsedWindows
INVARIANTS TypeOK EveryRequestAccounted NoInternalError
