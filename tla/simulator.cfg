SPECIFICATION Spec
CONSTANTS
  Delays = {0, 1}
  MaxUid = 7
  MaxHanded = 2
INVARIANTS TypeOK Counted LiveIdsListed NothingHidden
PROPERTY ExpiredNeverRuns
CHECK_DEADLOCK FALSE
