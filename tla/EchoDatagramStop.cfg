\* A datagram session whose socket is closed by force while its completion is queued.
CONSTANTS
  Examples = {"UdpEcho"}
  MaxStale = 1
SPECIFICATION FairSpec
PROPERTY DatagramSessionEnds
CHECK_DEADLOCK FALSE
