SPECIFICATION MCSpec
CONSTANTS
  Workers = {w1, w2}
  MaxTests = 2
  MaxCalls = 2
  MaxTimers = 2
  NoTimer = NoTimer
INVARIANTS JobsKept ExitHonest PlayHasTimer
PROPERTIES Terminates RunsAgain PausedViewRests QuitEnds
CHECK_DEADLOCK FALSE
