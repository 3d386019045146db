SPECIFICATION HSpec
CONSTANTS
  Flows = {f1, f2}
  MaxRetry = 1
  MaxInFlight = 1
  Lossy = TRUE
  Clears = FALSE
  NoOne = NoOne
SYMMETRY Symmetry
INVARIANTS TakenArrives
