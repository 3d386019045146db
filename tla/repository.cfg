SPECIFICATION Spec
CONSTANTS
  Flows = {f1, f2}
  MaxWrites = 3
  MaxSeq = 2
SYMMETRY Symmetry
INVARIANTS TypeOK Acknowledged HandedOutOnce EventIdsUnique
PROPERTIES AllOrNothing
