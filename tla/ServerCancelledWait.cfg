\* A cancelled wait and the state of the server.
CONSTANTS
  N = 1
  Starts = {a1}
  Waits = {w1}
  Stoppers = {}
  Cancellable = {w1}
  Faults = {}
SPECIFICATION FairSpec
PROPERTIES
  CancelledWaitOnlyCancels
CHECK_DEADLOCK FALSE
