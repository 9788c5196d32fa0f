\* Two agents that keep their leases, or three dispatches that may lose them.
SPECIFICATION MCSpec
CONSTANTS
  d1 = d1
  d2 = d2
  d3 = d3
  w1 = w1
  w2 = w2
  f1 = f1
  Files = {f1, f2}
  Dispatches = {d1, d2, d3}
  Workers = {w1, w2}
  WorkerOf <- WorkerOfEach
  Nobody = Nobody
  Timers = {t1, t2}
  NoTimer = NoTimer
  MaxRounds = 2
INVARIANTS
  OneWriterPerFile
  OriginalsAreCurrent
PROPERTIES
  ActiveDispatchesEnd
  LocksAreGivenBack
CHECK_DEADLOCK FALSE
