\* Every main, with a signal at any time and listeners that fail.
CONSTANTS
  N = 2
  Starts = {a1}
  Waits = {w1}
  Stoppers = {sig, err}
  OnSignal = sig
  Cancellable = {}
  Faults = {"startup", "runtime"}
  Programs = {"UdpEcho", "CallbackEcho", "TlsEcho", "HttpEcho", "HttpsEcho", "LocalEcho", "YieldEcho", "CoroutineEcho"}
SPECIFICATION MainSpec
INVARIANTS SuccessIsClean
 
CHECK_DEADLOCK FALSE
