SPECIFICATION Spec
CONSTANTS
  Flows = {f1, f2}
  Tasks = {t1, t2}
  MaxMem = 1
  ListCap = 1000
  Ops <- ReadRaceOps
  NoFlow = NoFlow
  Unlocked = Unlocked
SYMMETRY Symmetry
PROPERTIES ResponseKept
