SPECIFICATION Spec
CONSTANTS
  Kinds = {"list", "heap", "calendar"}
  Delays = {0, 1, 6}
  RemoveLimit <- SmallHeaps
  MaxUid = 6
  MaxPending = 6
  MaxBuckets = 4
  Modulus = 8
INVARIANTS InOrder EarlyPeekIsNext
PROPERTY ListKept
CHECK_DEADLOCK FALSE
