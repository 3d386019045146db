SPECIFICATION FairSpec
CONSTANTS
  Flows = {f1}
  MaxRetry = 1
  MaxInFlight = 2
  Lossy = TRUE
  Clears = TRUE
  NoOne = NoOne
PROPERTIES HooksEnd
INVARIANTS TypeOK
