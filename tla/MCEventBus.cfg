\* An event of each class and a second log, a short memory journal, two runs
\* of the process, and another process that comes and goes.
SPECIFICATION MCSpec
CONSTANTS
  stop = stop
  failed = failed
  state = state
  log = log
  Events = {stop, failed, state, log}
  ClassOf <- MCClassOf
  SizeOf <- MCSizeOf
  Quota <- MCQuota
  MaxBytes = 3
  MaxJournal = 5
  Window = 0
  MaxSeq = 6
  MaxShort = 2
  MaxRuns = 2
INVARIANTS
  MemoryIsBounded
  NothingStranded
  DeliveryInOrder
  ClassesTakeTurns
PROPERTIES
  RowsSurvive
CHECK_DEADLOCK FALSE
