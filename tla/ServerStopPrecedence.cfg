\* A start over one or two listeners, one of which may fail, and a stop.
CONSTANTS
  N = 2
  Starts = {a1}
  Waits = {}
  Stoppers = {t1}
  Cancellable = {}
  Faults = {"startup"}
SPECIFICATION FairSpec
INVARIANT StopReachesEveryListener
CHECK_DEADLOCK FALSE
