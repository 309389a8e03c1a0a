SPECIFICATION Spec
CONSTANTS
  Kinds = {"heap"}
  Delays = {0, 1, 6}
  RemoveLimit <- AnyHeap
  MaxUid = 7
  MaxPending = 6
  MaxBuckets = 4
  Modulus = 8
PROPERTY NextIsEarliest
CHECK_DEADLOCK FALSE
