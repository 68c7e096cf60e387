\* The shutdown timer of one generation fires in the next.
CONSTANTS
  Starts = {s1, s2}
  Waits = {}
  Stoppers = {t1}
  max_active_sessions = 1
  max_consecutive_accept_errors = 2
  MaxConnections = 2
  MaxRep = 1
  MaxErrors = 1
SPECIFICATION Spec
SYMMETRY Symmetry
INVARIANT ForceCloseAfterRequest
CHECK_DEADLOCK FALSE
