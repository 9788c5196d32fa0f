\* Three agents, one dispatch each, on two files.
SPECIFICATION FairSpec
CONSTANTS
  d1 = d1
  d2 = d2
  d3 = d3
  w1 = w1
  w2 = w2
  w3 = w3
  Files = {f1, f2}
  Clients = {d1, d2, d3}
  Workers = {w1, w2, w3}
  WorkerOf <- OwnWorker
  Nobody = Nobody
  Timers = {t1, t2}
  NoTimer = NoTimer
INVARIANTS
  PendingRequestsAreQueued
  NobodyWaitsForAFreeFile
  LeaseTimerIsTheHolders
  HoldersAreExclusive
PROPERTIES
  GrantsAreFifo
  ImplementsLockService
  EveryRequestIsAnswered
