-------------------------- MODULE ListenerLifecycle --------------------------
(***************************************************************************)
(* What every listener promises (class listener in                         *)
(* include/serveza/listener.h), whatever it listens on: a lifecycle that   *)
(* goes through generations, an error that tells how the last one ended,   *)
(* and calls of async_wait that last to the end of the generation.         *)
(*                                                                         *)
(* The two listeners are shown to implement this, and the listeners that   *)
(* the server model assumes are shown to assume no more.                   *)
(***************************************************************************)
CONSTANT Waits \* calls of async_wait

VARIABLES
  state,  \* listener_state
  error,  \* terminal error: "ok" or "failed"
  waiters \* the calls of async_wait that wait for the end

lifecycle == <<state, error, waiters>>

Init ==
  /\ state = "idle"
  /\ error = "ok"
  /\ waiters = {}

\* A new generation; the error of the last one is forgotten.
Start ==
  /\ state \in {"idle", "stopped"}
  /\ state' = "starting" /\ error' = "ok"
  /\ UNCHANGED waiters

\* Whether the state starting is seen on the way is left open.
StartSucceeds ==
  /\ state \in {"idle", "stopped", "starting"}
  /\ state' = "running" /\ error' = "ok"
  /\ UNCHANGED waiters

\* Whoever waits learns the error of the generation that ends.
StartFails ==
  /\ state \in {"idle", "stopped", "starting"}
  /\ state' = "stopped" /\ error' = "failed"
  /\ waiters' = {}

\* By a request, by a failure or because the work is done; a listener that
\* never ran can only be stopped by a request.
BeginStop ==
  /\ state \in {"starting", "running"}
  /\ state' = "stopping" /\ error' \in {"ok", "failed"}
  /\ UNCHANGED waiters

StopAtOnce ==
  /\ \/ state = "idle" /\ error' = "ok"
     \/ state \in {"starting", "running"} /\ error' \in {"ok", "failed"}
  /\ state' = "stopped"
  /\ waiters' = {}

\* The cause of the stop is kept.
Drained ==
  /\ state = "stopping"
  /\ state' = "stopped"
  /\ waiters' = {}
  /\ UNCHANGED error

\* Only a listener that is not stopped is waited for.
Wait(w) ==
  /\ state # "stopped"
  /\ waiters' = waiters \cup {w}
  /\ UNCHANGED <<state, error>>

CancelWait(w) ==
  /\ waiters' = waiters \ {w}
  /\ UNCHANGED <<state, error>>

Next ==
  \/ Start \/ StartSucceeds \/ StartFails
  \/ BeginStop \/ StopAtOnce \/ Drained
  \/ \E w \in Waits : Wait(w) \/ CancelWait(w)

Spec == Init /\ [][Next]_lifecycle

=============================================================================
