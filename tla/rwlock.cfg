SPECIFICATION FairSpec
CONSTANTS
  Ids = {0, 2, 6, 10}
  IntBits = 3
  LongBits = 5
  Uses = 2
CHECK_DEADLOCK FALSE
INVARIANTS
  WriterIsAlone
  FieldsSayWho
PROPERTIES
  AllReturn
