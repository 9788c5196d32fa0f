\* Three runs one after the other with retries and leases that expire, and two
\* runs that may overlap; from task 2.  A verify loop with three kinds of failure
\* and five rounds, in which two alike in a row are a dead end (the default).
SPECIFICATION MCSpec
CONSTANTS
  Tasks = {1, 2, 3, 4}
  Plans <- AllPlans
  From = 2
  Runs = {1, 2, 3}
  Pair = {1, 2}
  MaxAttempts = 2
  MaxConcurrency = 3
  CompactAt = 10
  LeasesExpire = TRUE
  Signatures = {s1, s2, s3}
  MaxRounds = 5
  NoProgressLimit = 2
INVARIANTS
  DependenciesFirst
  DoneMeansDone
  DoneCheckpointsLeaveNothing
  AloneNothingIsRepeated
  GivesUpExactlyWhenStuck
PROPERTIES
  RunsEnd
CHECK_DEADLOCK FALSE
