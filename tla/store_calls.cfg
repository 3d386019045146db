SPECIFICATION FairSpec
CONSTANTS
  Flows = {f1}
  Tasks = {t1, t2}
  MaxMem = 1
  ListCap = 1000
  Ops <- CallOps
  NoFlow = NoFlow
  Unlocked = Unlocked
PROPERTIES CallsReturn
