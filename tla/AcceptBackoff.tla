---------------------------- MODULE AcceptBackoff ----------------------------
(***************************************************************************)
(* The options of an acceptor listener and the delay before an accept is   *)
(* retried (src/listener.cpp).  Durations are signed integers that end at  *)
(* MaxRep; the library's have 64 bits.                                     *)
(***************************************************************************)
EXTENDS Integers

CONSTANTS
  MaxRep,   \* the largest duration
  MaxErrors \* bound: consecutive accept errors that are looked at

ASSUME RepAssumption == MaxRep \in Nat /\ MaxErrors \in Nat

\* The range of the representation, and what a product becomes in it.
Rep == (-MaxRep - 1)..MaxRep

wrapped(d) == ((d + MaxRep + 1) % (2 * (MaxRep + 1))) - (MaxRep + 1)

Options ==
  [ listen_backlog : 0..1, max_active_sessions : 0..1, max_consecutive_accept_errors : 0..1,
    shutdown_grace_period : -1..0, accept_error_backoff : Rep, max_accept_error_backoff : Rep ]

validate_socket_options(o) == o.shutdown_grace_period >= 0

\* Whether the constructor of a listener accepts the options.
validate_acceptor_options(o) ==
  /\ o.listen_backlog > 0
  /\ validate_socket_options(o)
  /\ o.max_active_sessions # 0
  /\ o.accept_error_backoff >= 0
  /\ o.max_accept_error_backoff >= o.accept_error_backoff
  /\ o.max_consecutive_accept_errors # 0

\* Mutant: doubled without a look at the limit, which min applies at the end.
doubled_blindly(delay, limit) == wrapped(2 * delay)

\* The body of the loop.
doubled(delay, limit) == IF delay > limit \div 2 THEN limit ELSE wrapped(2 * delay)

\* delay before the iteration i of the loop, which stops at the limit.
accept_retry_delay(o, consecutive_errors) ==
  LET limit == o.max_accept_error_backoff
      delay[i \in 1..(MaxErrors + 1)] ==
        IF i = 1 THEN o.accept_error_backoff
        ELSE IF delay[i - 1] < limit THEN doubled(delay[i - 1], limit) ELSE delay[i - 1]
      last == IF consecutive_errors = 0 THEN 1 ELSE consecutive_errors
  IN  IF delay[last] < limit THEN delay[last] ELSE limit

\* The options a listener can have.
Valid == {o \in Options : validate_acceptor_options(o)}

\* The initial delay doubled n - 1 times, cut off at the limit.
Exponential(o, n) ==
  LET exact == o.accept_error_backoff * 2^(n - 1)
  IN  IF exact < o.max_accept_error_backoff THEN exact ELSE o.max_accept_error_backoff

=============================================================================
