--------------------------- MODULE SocketListener ---------------------------
(***************************************************************************)
(* basic_socket_listener (include/serveza/detail/basic_socket_listener.h): *)
(* a datagram listener that binds one socket and runs one session on it.   *)
(* When the session ends, so does the generation.                          *)
(*                                                                         *)
(* As in AcceptorListener, members are touched only on the listener strand,*)
(* the session has a strand of its own, a timer completion that left the   *)
(* timer (due) is no longer recalled by cancelling it, and each member     *)
(* function is an operator from the listener record to its next value.     *)
(***************************************************************************)
EXTENDS Integers, Sequences, FiniteSets

CONSTANTS
  Starts,              \* calls of async_start
  Waits,               \* calls of async_wait
  Stoppers,            \* calls of request_stop
  StrandFactoryThrows  \* whether the user's strand factory may throw

ASSUME SocketCallsAssumption ==
  IsFiniteSet(Starts) /\ Starts \cap Waits = {} /\ StrandFactoryThrows \in BOOLEAN

VARIABLES
  listener,  \* members of the listener and its timer
  strand,    \* handlers queued on the listener strand, head first
  submitted, \* async_start and async_wait calls made so far
  cancelled, \* those whose cancellation signal was emitted in time
  stopper    \* progress of each request_stop call

vars == <<listener, strand, submitted, cancelled, stopper>>

-----------------------------------------------------------------------------
(* Data *)

State         == {"idle", "starting", "running", "stopping", "stopped"}
StopReason    == {"none", "requested", "completed", "startup_failure", "runtime_failure"}
SessionResult == {"ok", "aborted", "failed"}
Error         == SessionResult \cup {"timed_out"}
Operation     == Starts \cup Waits
SessionId     == 1..Cardinality(Starts)

Handler ==
  [op : {"start"}, id : Starts]
    \cup [op : {"wait", "cancel_wait"}, id : Waits]
    \cup [op : {"stop", "shutdown"}]
    \cup [op : {"session_finished"}, id : SessionId, ec : SessionResult]

\* A session_state: its strand, where the session is, and m_finished.
Session ==
  [ queue    : Seq({"start", "request_stop", "force_close"}),
    session  : {"new", "running", "returned"},
    finished : BOOLEAN ]

Listener ==
  [ state          : State,
    generation     : 0..Cardinality(Starts),
    terminal_error : Error,
    stop_reason    : StopReason,
    last_error     : Error,
    sessions       : Seq(Session),          \* every session_state ever made
    m_session      : SessionId \cup {0},    \* index of m_session, 0 for null
    waiters        : SUBSET Waits,
    shutdown_timer : BOOLEAN,               \* armed
    due            : Nat,                   \* expired, not yet on the strand
    completions    : [Operation -> Seq(Error)] ]

Init ==
  /\ listener =
       [ state |-> "idle", generation |-> 0, terminal_error |-> "ok",
         stop_reason |-> "none", last_error |-> "ok", sessions |-> << >>,
         m_session |-> 0, waiters |-> {}, shutdown_timer |-> FALSE, due |-> 0,
         completions |-> [i \in Operation |-> << >>] ]
  /\ strand = << >>
  /\ submitted = {}
  /\ cancelled = {}
  /\ stopper = [t \in Stoppers |-> "new"]

-----------------------------------------------------------------------------
(* Member functions called by the strand handlers *)

complete_on(l, i, ec) == [l EXCEPT !.completions[i] = Append(@, ec)]

record_diagnostic(l, ec) == [l EXCEPT !.last_error = ec]

\* session_state::request_stop and force_close post to the session's strand.
post_to_session(l, handler) ==
  IF l.m_session = 0 THEN l
  ELSE [l EXCEPT !.sessions[l.m_session].queue = Append(@, handler)]

\* Mutant: the end of a generation counts as a generation.
finish_counts(l, ec, reason) ==
  IF l.state = "stopped" THEN l
  ELSE [l EXCEPT !.terminal_error = ec, !.stop_reason = reason, !.state = "stopped",
                 !.last_error = IF @ = "ok" THEN ec ELSE @,
                 !.waiters = {}, !.generation = @ + 1]

finish(l, ec, reason) ==
  IF l.state = "stopped" THEN l
  ELSE [l EXCEPT !.terminal_error = ec,
                 !.stop_reason = reason,
                 !.last_error = IF @ = "ok" THEN ec ELSE @,
                 !.shutdown_timer = FALSE,
                 !.state = "stopped",
                 !.completions = [i \in Operation |->
                    IF i \in l.waiters THEN Append(l.completions[i], ec)
                                       ELSE l.completions[i]],
                 !.waiters = {}]

\* Mutant: the session is not waited for.
maybe_finish_too_early(l) ==
  IF l.state = "stopping" THEN finish(l, l.terminal_error, l.stop_reason) ELSE l

maybe_finish(l) ==
  IF l.state = "stopping" /\ l.m_session = 0
  THEN finish(l, l.terminal_error, l.stop_reason)
  ELSE l

enter_stopping(l) == [l EXCEPT !.stop_reason = "requested", !.state = "stopping"]

\* Mutant: no grace period.
arm_shutdown_timer_never(l) == l

arm_shutdown_timer(l) == [l EXCEPT !.shutdown_timer = @ \/ l.m_session # 0]

-----------------------------------------------------------------------------
(* Client calls: any thread *)

do_async_start(i) ==
  /\ i \in Starts \ submitted
  /\ submitted' = submitted \cup {i}
  /\ strand' = Append(strand, [op |-> "start", id |-> i])
  /\ UNCHANGED <<listener, cancelled, stopper>>

do_async_wait(i) ==
  /\ i \in Waits \ submitted
  /\ submitted' = submitted \cup {i}
  /\ strand' = Append(strand, [op |-> "wait", id |-> i])
  /\ UNCHANGED <<listener, cancelled, stopper>>

\* The slot of a start is cleared when its handler begins to run.
CancelStart(i) ==
  /\ i \in Starts \ cancelled
  /\ \E k \in DOMAIN strand : strand[k] = [op |-> "start", id |-> i]
  /\ cancelled' = cancelled \cup {i}
  /\ UNCHANGED <<listener, strand, submitted, stopper>>

\* The slot of a wait is cleared when it completes.
CancelWait(i) ==
  /\ i \in (Waits \cap submitted) \ cancelled
  /\ listener.completions[i] = << >>
  /\ cancelled' = cancelled \cup {i}
  /\ strand' = Append(strand, [op |-> "cancel_wait", id |-> i])
  /\ UNCHANGED <<listener, submitted, stopper>>

\* request_stop reads the state, and posts only afterwards.
request_stop(t) ==
  /\ stopper[t] = "new"
  /\ stopper' = [stopper EXCEPT ![t] =
                   IF listener.state = "stopped" THEN "returned" ELSE "checked"]
  /\ UNCHANGED <<listener, strand, submitted, cancelled>>

post_stop(t) ==
  /\ stopper[t] = "checked"
  /\ stopper' = [stopper EXCEPT ![t] = "returned"]
  /\ strand' = Append(strand, [op |-> "stop"])
  /\ UNCHANGED <<listener, submitted, cancelled>>

-----------------------------------------------------------------------------
(* The shutdown timer *)

shutdown_timer_expires ==
  /\ listener.shutdown_timer
  /\ listener' = [listener EXCEPT !.shutdown_timer = FALSE, !.due = @ + 1]
  /\ UNCHANGED <<strand, submitted, cancelled, stopper>>

deliver ==
  /\ listener.due > 0
  /\ listener' = [listener EXCEPT !.due = @ - 1]
  /\ strand' = Append(strand, [op |-> "shutdown"])
  /\ UNCHANGED <<submitted, cancelled, stopper>>

-----------------------------------------------------------------------------
(* Handlers on the listener strand.  The start handler is one step: nobody *)
(* who sees starting in between acts otherwise than on running.            *)

Running(op) == strand # << >> /\ Head(strand).op = op

Return ==
  /\ strand' = Tail(strand)
  /\ UNCHANGED <<submitted, cancelled, stopper>>

\* Mutant: a start that finds the listener stopping is dropped.
start_dropped_while_stopping ==
  LET i == Head(strand).id
  IN  /\ Running("start")
      /\ i \in cancelled \/ listener.state \in {"starting", "running", "stopping"}
      /\ listener' = IF i \notin cancelled /\ listener.state = "stopping" THEN listener
                     ELSE complete_on(listener, i, "aborted")
      /\ Return

\* The early returns of a queued start: cancelled, joined, or too late.
start_without_effect ==
  LET i == Head(strand).id
  IN  /\ Running("start")
      /\ \/ i \in cancelled /\ listener' = complete_on(listener, i, "aborted")
         \/ /\ i \notin cancelled
            /\ listener.state = "running"
            /\ listener' = complete_on(listener, i, "ok")
         \/ /\ i \notin cancelled
            /\ listener.state \in {"starting", "stopping"}
            /\ listener' = complete_on(listener, i, "aborted")
      /\ Return

\* A fresh session_state; its start is posted to its own strand.
new_session == [queue |-> <<"start">>, session |-> "new", finished |-> FALSE]

\* The strand factory throws out of the handler; opening or binding the socket
\* fails; the session factory throws; or the session is started.
start_on_strand ==
  LET i == Head(strand).id
      starting == [listener EXCEPT !.generation = @ + 1,
                                   !.terminal_error = "ok",
                                   !.stop_reason = "none",
                                   !.last_error = "ok",
                                   !.state = "starting"]
  IN  /\ Running("start")
      /\ i \notin cancelled
      /\ listener.state \in {"idle", "stopped"}
      /\ \/ StrandFactoryThrows /\ listener' = starting
         \/ listener' = finish(complete_on(starting, i, "failed"), "failed", "startup_failure")
         \/ listener' = finish(complete_on(record_diagnostic(starting, "failed"), i, "failed"),
                               "failed", "startup_failure")
         \/ listener' = complete_on([starting EXCEPT !.sessions = Append(@, new_session),
                                                     !.m_session = Len(listener.sessions) + 1,
                                                     !.state = "running"], i, "ok")
      /\ Return

\* Mutant: stopping counts as stopped.
wait_ends_while_stopping ==
  LET i == Head(strand).id
  IN  /\ Running("wait")
      /\ listener' = IF i \in cancelled THEN complete_on(listener, i, "aborted")
                     ELSE IF listener.state \in {"stopping", "stopped"}
                     THEN complete_on(listener, i, listener.terminal_error)
                     ELSE [listener EXCEPT !.waiters = @ \cup {i}]
      /\ Return

wait_on_strand ==
  LET i == Head(strand).id
  IN  /\ Running("wait")
      /\ \/ i \in cancelled /\ listener' = complete_on(listener, i, "aborted")
         \/ /\ i \notin cancelled
            /\ listener.state = "stopped"
            /\ listener' = complete_on(listener, i, listener.terminal_error)
         \/ /\ i \notin cancelled
            /\ listener.state # "stopped"
            /\ listener' = [listener EXCEPT !.waiters = @ \cup {i}]
      /\ Return

cancel_wait ==
  LET i == Head(strand).id
  IN  /\ Running("cancel_wait")
      /\ listener' = IF i \in listener.waiters
                     THEN complete_on([listener EXCEPT !.waiters = @ \ {i}], i, "aborted")
                     ELSE listener
      /\ Return

stop_on_strand ==
  /\ Running("stop")
  /\ listener' =
       CASE listener.state = "idle" -> finish(enter_stopping(listener), "ok", "requested")
         [] listener.state \in {"starting", "running"} ->
              maybe_finish(arm_shutdown_timer(
                post_to_session(enter_stopping(listener), "request_stop")))
         [] OTHER -> listener
  /\ Return

shutdown_timer_handler ==
  /\ Running("shutdown")
  /\ listener' = post_to_session(record_diagnostic(listener, "timed_out"), "force_close")
  /\ Return

\* Mutant: the session decides how a stopping listener ends, too.
session_finished_decides ==
  /\ Running("session_finished")
  /\ listener' = finish([listener EXCEPT !.m_session = 0], Head(strand).ec, "completed")
  /\ Return

\* The session is over: of a running listener it decides how it ends.
session_finished ==
  LET ec    == Head(strand).ec
      reset == [listener EXCEPT !.m_session = 0]
      noted == IF ec \in {"ok", "aborted"} THEN reset ELSE record_diagnostic(reset, ec)
  IN  /\ Running("session_finished")
      /\ listener' =
           IF listener.state = "running"
           THEN finish(noted, ec, IF ec = "ok" THEN "completed" ELSE "runtime_failure")
           ELSE maybe_finish(noted)
      /\ Return

-----------------------------------------------------------------------------
(* Handlers on the strand of session s *)

session_runs(s, handler) ==
  listener.sessions[s].queue # << >> /\ Head(listener.sessions[s].queue) = handler

popped(s) == [listener.sessions[s] EXCEPT !.queue = Tail(@)]

\* Mutant: m_finished is not tested.
session_finish_again(s, next, ec) ==
  /\ listener' = [listener EXCEPT !.sessions[s] = [next EXCEPT !.finished = TRUE]]
  /\ strand' = Append(strand, [op |-> "session_finished", id |-> s, ec |-> ec])
  /\ UNCHANGED <<submitted, cancelled, stopper>>

\* session_state::finish: only its first call reports to the listener.
session_finish(s, next, ec) ==
  /\ listener' = [listener EXCEPT !.sessions[s] = [next EXCEPT !.finished = TRUE]]
  /\ strand' = IF next.finished THEN strand
               ELSE Append(strand, [op |-> "session_finished", id |-> s, ec |-> ec])
  /\ UNCHANGED <<submitted, cancelled, stopper>>

\* async_run begins, or throws.
session_start(s) ==
  /\ session_runs(s, "start")
  /\ \/ /\ listener' = [listener EXCEPT !.sessions[s] =
                           [popped(s) EXCEPT !.session = "running"]]
        /\ UNCHANGED <<strand, submitted, cancelled, stopper>>
     \/ session_finish(s, [popped(s) EXCEPT !.session = "returned"], "failed")

\* Emits the cancellation signal; what the session makes of it is its affair.
session_request_stop(s) ==
  /\ session_runs(s, "request_stop")
  /\ listener' = [listener EXCEPT !.sessions[s] = popped(s)]
  /\ UNCHANGED <<strand, submitted, cancelled, stopper>>

session_force_close(s) ==
  /\ session_runs(s, "force_close")
  /\ session_finish(s, popped(s), "aborted")

session_completes(s, ec) ==
  /\ listener.sessions[s].session = "running"
  /\ session_finish(s, [listener.sessions[s] EXCEPT !.session = "returned"], ec)

-----------------------------------------------------------------------------
Client ==
  \/ \E i \in Starts : do_async_start(i) \/ CancelStart(i)
  \/ \E i \in Waits : do_async_wait(i) \/ CancelWait(i)
  \/ \E t \in Stoppers : request_stop(t) \/ post_stop(t)

Strand ==
  \/ start_without_effect \/ start_on_strand
  \/ wait_on_strand \/ cancel_wait
  \/ stop_on_strand \/ shutdown_timer_handler \/ session_finished

SessionStrand(s) ==
  /\ s <= Len(listener.sessions)
  /\ session_start(s) \/ session_request_stop(s) \/ session_force_close(s)

Next ==
  \/ Client
  \/ Strand
  \/ shutdown_timer_expires \/ deliver
  \/ \E s \in 1..Len(listener.sessions) :
       SessionStrand(s) \/ \E ec \in SessionResult : session_completes(s, ec)

Spec == Init /\ [][Next]_vars

\* Queued handlers run, an armed timer expires, its completion is queued, and
\* a request_stop call goes on.  A session need not return.
Fairness ==
  /\ WF_vars(Strand)
  /\ WF_vars(shutdown_timer_expires)
  /\ WF_vars(deliver)
  /\ \A s \in SessionId : WF_vars(SessionStrand(s))
  /\ \A t \in Stoppers : WF_vars(post_stop(t))

FairSpec == Spec /\ Fairness

-----------------------------------------------------------------------------
(* Properties *)

\* The members and queues hold values of their types; a generation and a
\* session for each start at most.
TypeOK ==
  /\ listener \in Listener
  /\ strand \in Seq(Handler)
  /\ submitted \subseteq Operation
  /\ cancelled \subseteq Operation
  /\ stopper \in [Stoppers -> {"new", "checked", "returned"}]

\* session_finished resets m_session without asking whose report it handles.
\* That is sound: m_session is always the one session that has not reported,
\* or whose only report is still queued, so no report of an earlier generation
\* is left when a new session is made.
SessionIsCurrent ==
  \A s \in DOMAIN listener.sessions :
    LET reports == Cardinality({k \in DOMAIN strand :
                     strand[k].op = "session_finished" /\ strand[k].id = s})
    IN  /\ s = listener.m_session <=> ~listener.sessions[s].finished \/ reports = 1
        /\ reports <= (IF listener.sessions[s].finished THEN 1 ELSE 0)

\* There is a session exactly while the listener runs or stops: maybe_finish is
\* called wherever its condition can become true, so that no listener is left
\* stopping with nothing to wait for, and none is stopped, idle or left starting
\* with a session whose socket is still open.
SessionWhileOpen ==
  listener.state \in {"running", "stopping"} <=> listener.m_session # 0

\* The reason, the terminal error and the diagnostics of a stopped listener
\* agree, whichever of stop_on_strand and session_finished came first.
StopReasonAgrees ==
  listener.state = "stopped" =>
    /\ listener.stop_reason # "none"
    /\ listener.stop_reason \in {"requested", "completed"} <=> listener.terminal_error = "ok"
    /\ listener.terminal_error # "ok" => listener.last_error # "ok"

\* An async_wait that nobody cancelled completes only in a step that leaves
\* the listener stopped, and with the error it stopped with.
WaitTellsTheTruth ==
  [][ \A i \in Waits \ cancelled :
        listener'.completions[i] # listener.completions[i]
          => /\ listener'.state = "stopped"
             /\ listener'.completions[i] = <<listener'.terminal_error>> ]_vars

Lifecycle == INSTANCE ListenerLifecycle WITH
  state   <- listener.state,
  error   <- IF listener.terminal_error = "ok" THEN "ok" ELSE "failed",
  waiters <- listener.waiters

\* The listener implements the lifecycle that every listener promises: it never
\* goes back from stopping, keeps the error of a generation to the next start,
\* and lets go of a waiter only when it is cancelled or the generation ends.
ImplementsLifecycle == Lifecycle!Spec

\* Shutdown always ends, with a session that never returns.
StoppingEnds == listener.state = "stopping" ~> listener.state = "stopped"

\* Every async_start that was posted completes, unless the strand factory threw
\* out of a start handler: that start never completes, and the listener is left
\* starting.
StartCompletesOrThrows ==
  \A i \in Starts :
    (\E k \in DOMAIN strand : strand[k] = [op |-> "start", id |-> i])
      ~> (listener.completions[i] # << >> \/ listener.state = "starting")

=============================================================================
