\* One process; crashes and clean write errors.
SPECIFICATION Spec
CONSTANTS
  Files = {f1, f2}
  Contents = {absent, a, b}
  Torn = Torn
  Processes = {p}
  Faults = {"crash", "write"}
  MaxTx = 2
  NoTx = NoTx
INVARIANTS
  AtRestTheTreeIsWhole
PROPERTIES
  ImplementsAtomicStore
