SPECIFICATION FairSpec
CONSTANTS
  Flows = {f1, f2}
  MaxRetry = 1
  MaxInFlight = 0
  Lossy = TRUE
  Clears = TRUE
  NoOne = NoOne
PROPERTIES HooksEnd
INVARIANTS OneIntercepted
