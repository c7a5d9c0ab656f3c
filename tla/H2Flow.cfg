SPECIFICATION FairSpec
CONSTANTS
    WindowMax = 3  DefaultWindow = 2  OurInitialWindow = 3  StreamIdLimit = 6
    MaxHeadersBuf = 2  MaxResponseBytes = 2  MinFrameSize = 1  MaxFrameSize = 2  NoStreamLimit = 9
    N = 2  BodyLen <- TwoUploads  Strict = TRUE
    Features = {"patient", "settings"}
    McsValues = {1}  IwsValues = {0, 3}  MfsValues = {2}
    DataLens = {0, 1, 2}  Increments = {2}  Leftovers <- UsedWindows
INVARIANTS WindowsAgree PeerNeverStarved
PROPERTIES SendsWithinCredit StreamLimitHonoured BatchReturns
