\* Two generations; a wait, two stops and cancellations race with them.
CONSTANTS
  Starts = {s1, s2}
  Waits = {w1}
  Stoppers = {t1, t2}
  max_active_sessions = 1
  max_consecutive_accept_errors = 2
  MaxConnections = 1
  MaxRep = 1
  MaxErrors = 1
SPECIFICATION Spec
SYMMETRY Symmetry
INVARIANTS StoppedIsDrained CompletedAtMostOnce AcceptPendingIsExact
PROPERTIES FirstCauseWins WaitTellsTheTruth ImplementsLifecycle
CHECK_DEADLOCK FALSE
