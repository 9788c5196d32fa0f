\* Three dispatches, two slots.
SPECIFICATION Spec
CONSTANTS
  Dispatches = {d1, d2, d3}
  Limit = 2
INVARIANTS
  NoStuckWorkers
CHECK_DEADLOCK FALSE
