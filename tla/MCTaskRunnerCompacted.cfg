\* Three runs one after the other; two completed tasks are enough to collapse.
SPECIFICATION MCSpec
CONSTANTS
  Tasks = {1, 2, 3, 4}
  Plans <- Diamond
  From = 1
  Runs = {1, 2, 3}
  Pair = {}
  MaxAttempts = 1
  MaxConcurrency = 3
  CompactAt = 2
  LeasesExpire = FALSE
  Signatures = {s1}
  MaxRounds = 1
  NoProgressLimit = 1
INVARIANTS
  CompletedTasksAreNotRepeated
CHECK_DEADLOCK FALSE
