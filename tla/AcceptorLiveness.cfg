\* Sessions that may hang up to the limit, one connection beyond it, a stop, and a restart behind it.
CONSTANTS
  Starts = {s1, s2}
  Waits = {}
  Stoppers = {t1}
  max_active_sessions = 1
  max_consecutive_accept_errors = 2
  MaxConnections = 2
  MaxRep = 15
  MaxErrors = 8
SPECIFICATION FairSpec
INVARIANTS AcceptLoopAlive ActiveSessionsBounded BackoffIsExponential
PROPERTIES StoppingEnds PostedStopIsHonoured StartCompletes
CHECK_DEADLOCK FALSE
