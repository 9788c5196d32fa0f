\* Three members, two nested dispatches, two slots, two files.
SPECIFICATION MCSpec
CONSTANTS
  m1 = m1
  m2 = m2
  m3 = m3
  n1 = n1
  n2 = n2
  Dispatches = {m1, m2, m3, n1, n2}
  Limit = 2
  Members <- MCMembers
  Files = {f1, f2}
  Before = Before
  Outside = Outside
INVARIANTS
  WidthIsBounded
  NoSlotIdles
  ShownAsItIs
  BatchWidthIsBounded
  ConflictsAreReal
PROPERTIES
  ImplementsSlots
  MergesOnlySuccesses
  BatchesReturn
CHECK_DEADLOCK FALSE
