SPECIFICATION MCSpec
CONSTANTS
  MaxBlock = 4
  MaxRetries = 2
  MaxTotalBytes = 20
  BlockSize = 2
  LastSize = 1
  Files = {1, 3, 4, 5, 6}
  Tids = {t1, t2, t3}
  Stranger = s1
  Persist = TRUE
  Timely = FALSE
  MaxLosses = 0
INVARIANTS TypesOK OneSessionFed
PROPERTIES FetchesFile StoresFile TransferReturns TransferSucceeds
