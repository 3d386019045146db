SPECIFICATION FairSpec
CONSTANTS
  Clients = {c1}
  QueueSize = 3
  Misses = 3
  MaxEvents = 4
INVARIANTS TypeOK StreamInOrder NewestKept NoGap
PROPERTIES SilentDropped
