\* A start, a wait and a stop with one listener; submissions and the listener may fail.
CONSTANTS
  N = 1
  Starts = {a1}
  Waits = {w1}
  Stoppers = {t1}
  Cancellable = {w1}
  Faults = {"initiation", "startup", "runtime"}
SPECIFICATION FairSpec
PROPERTIES   QuietStopStopsAll StopIsSticky ListenersKeepLifecycle
CHECK_DEADLOCK FALSE
