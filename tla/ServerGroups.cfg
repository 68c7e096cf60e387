\* A start and a stop over up to two listeners; submissions and starts may fail.
CONSTANTS
  N = 2
  Starts = {a1}
  Waits = {}
  Stoppers = {t1}
  Cancellable = {a1}
  Faults = {"initiation", "startup"}
SPECIFICATION Spec
INVARIANTS
  TypeOK
  ChildrenAccounted
  CompletedExactlyOnce
CHECK_DEADLOCK FALSE
