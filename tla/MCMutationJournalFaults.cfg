\* One process; every fault there is.
SPECIFICATION Spec
CONSTANTS
  Files = {f1, f2}
  Contents = {a, b}
  Torn = Torn
  Processes = {p}
  Faults = {"crash", "write", "torn", "undo", "clear", "edit"}
  MaxTx = 2
  NoTx = NoTx
INVARIANTS
  WorkIsJournaled
