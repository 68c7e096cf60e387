------------------------- MODULE MCAcceptorListener -------------------------
(* Small instances of AcceptorListener for TLC. *)
EXTENDS AcceptorListener, AcceptBackoff, TLC

\* Calls of the same kind are interchangeable.
Symmetry == Permutations(Starts) \cup Permutations(Waits) \cup Permutations(Stoppers)

\* While a retry is on its way, the delay after n errors in a row is the initial
\* delay doubled n - 1 times and cut off at the limit, for all options the
\* constructor accepts: accept_retry_delay never overflows, however close to the
\* end of the representation the limit is.  n goes from the errors counted so far,
\* which an accept that a stale retry began may have reset, beyond those of a run.
BackoffIsExponential ==
  listener.retry_timer =>
    \A o \in Valid, n \in 1..MaxErrors :
      n >= listener.accept_errors => accept_retry_delay(o, n) = Exponential(o, n)

=============================================================================
