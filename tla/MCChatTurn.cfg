\* One call that reads, two that write, one of each kind that dispatches.
SPECIFICATION MCSpec
CONSTANTS
  Reading = {r1}
  Writing = {w1, w2}
  Subagents = {s1}
  Parallel = {p1}
  Threshold = 4
  ReflectAt = 1
  PauseAt = 2
  BaseLoops = 2
  MaxAutoContinue = 1
  MaxTotalAutoContinue = 2
  MaxAttempts = 1
  MaxHistory = 5
  MaxBatch = 2
  MaxTurns = 2
INVARIANTS
  StopsWhenTold
  LoopsAreEarned
  ReportsAreSynthesized
PROPERTIES
  TurnsEnd
CHECK_DEADLOCK FALSE
