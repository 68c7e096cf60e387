\* Two generations of a datagram listener; a wait, a stop and cancellations race with them.
CONSTANTS
  Starts = {a1, a2}
  Waits = {w1}
  Stoppers = {t1}
  StrandFactoryThrows = TRUE
SPECIFICATION FairSpec
INVARIANTS
  TypeOK
  SessionIsCurrent
  SessionWhileOpen
PROPERTIES
  WaitTellsTheTruth
  ImplementsLifecycle
  StoppingEnds
  
CHECK_DEADLOCK FALSE
