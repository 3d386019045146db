SPECIFICATION Spec
CONSTANTS
  Flows = {f1, f2}
  Tasks = {t1, t2}
  MaxMem = 2
  ListCap = 1000
  Ops <- WriterOps
  NoFlow = NoFlow
  Unlocked = Unlocked
SYMMETRY Symmetry
INVARIANTS CacheMatchesRows FinalNotQueued
PROPERTIES ResponseKept HeadOnly QueueOrderKept ImplementsService
