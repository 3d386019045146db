SPECIFICATION MCSpec
CONSTANTS
  Flows = {f1, f2}
  MaxChanges = 2
  MaxCalls = 2
  NoFlow = NoFlow
INVARIANTS RemovalShown CheckboxShown
PROPERTIES QueueShown DetailShown
