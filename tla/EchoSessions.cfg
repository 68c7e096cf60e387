\* One session of every example, with a stop, a forced close and stale deadlines.
CONSTANTS
  Examples = {"CallbackEcho", "StreamEcho", "YieldEcho", "CoroutineEcho", "TlsEcho", "HttpEcho", "HttpsEcho", "UdpEcho", "DatagramEcho"}
  MaxStale = 2
SPECIFICATION FairSpec
INVARIANTS TypeOK HandledAtMostOnce StopIsNoFailure
PROPERTIES ClosedSessionEnds StopReachesCoroutine DeadlineBoundsTransfers
CHECK_DEADLOCK FALSE
