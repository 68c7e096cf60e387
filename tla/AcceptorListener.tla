-------------------------- MODULE AcceptorListener --------------------------
(***************************************************************************)
(* basic_acceptor_listener (include/serveza/listener.h): a stream listener *)
(* that opens an acceptor, accepts connections, runs one session per       *)
(* connection, retries transient accept errors, and on shutdown drains its *)
(* sessions within a grace period.                                         *)
(*                                                                         *)
(* All of its members are touched by handlers that run one at a time, in   *)
(* FIFO order, on the listener strand; every connection has a strand of    *)
(* its own.  Client calls come from any thread and only post.  The         *)
(* completion of an accept or of a timer first leaves the I/O object       *)
(* (in_flight) and is queued on the strand some time later: in between,    *)
(* cancelling the timer or closing the acceptor no longer recalls it.      *)
(*                                                                         *)
(* The call tree of a handler (accepted -> accept_next -> begin_stop ->    *)
(* maybe_finish -> finish) is written as operators from the listener       *)
(* record l to its next value, one per member function.                    *)
(***************************************************************************)
EXTENDS Integers, Sequences, FiniteSets

CONSTANTS
  Starts,                        \* calls of async_start
  Waits,                         \* calls of async_wait
  Stoppers,                      \* calls of request_stop
  max_active_sessions,           \* listener_options
  max_consecutive_accept_errors, \* listener_options
  MaxConnections                 \* bound: connections the clients make

\* What validate_acceptor_options lets through, and distinct calls.
ASSUME OptionsAssumption ==
  /\ max_active_sessions \in Nat \ {0}
  /\ max_consecutive_accept_errors \in Nat \ {0}
  /\ MaxConnections \in Nat

ASSUME CallsAssumption == Starts \cap Waits = {}

VARIABLES
  listener,  \* members of the listener and the I/O objects it owns
  strand,    \* handlers queued on the listener strand, head first
  submitted, \* async_start and async_wait calls made so far
  cancelled, \* those whose cancellation signal was emitted in time
  stopper    \* progress of each request_stop call

vars == <<listener, strand, submitted, cancelled, stopper>>

-----------------------------------------------------------------------------
(* Data *)

State      == {"idle", "starting", "running", "stopping", "stopped"}
StopReason == {"none", "requested", "startup_failure", "runtime_failure"}

\* Error codes by what the code tells apart; "failed" is any other error or
\* an exception, "ok" an empty code and no exception.
AcceptResult  == {"ok", "transient", "fatal", "aborted"}
SessionResult == {"ok", "aborted", "failed"}
Error         == AcceptResult \cup SessionResult \cup {"timed_out"}

Operation == Starts \cup Waits

AcceptDone(ec) == [op |-> "accepted", ec |-> ec]
RetryDone(ec)  == [op |-> "retry", ec |-> ec]
ShutdownDue    == [op |-> "shutdown", ec |-> "ok"]

Completion ==
  {AcceptDone(ec) : ec \in AcceptResult}
    \cup {RetryDone("ok"), RetryDone("aborted"), ShutdownDue}

Handler ==
  Completion
    \cup [op : {"start"}, id : Starts]
    \cup [op : {"wait", "cancel_wait"}, id : Waits]
    \cup [op : {"stop"}]
    \cup [op : {"session_finished"}, id : Nat \ {0}, ec : SessionResult]

\* A connection_state: what is queued on its strand, where its session is,
\* m_finished, and whether request_stop was ever called on it.
Connection ==
  [ queue    : Seq({"start", "request_stop", "force_close"}),
    session  : {"new", "running", "returned"},
    finished : BOOLEAN,
    asked    : BOOLEAN ]

Listener ==
  [ state            : State,
    generation       : Nat,
    terminal_error   : Error,
    stop_reason      : StopReason,
    last_error       : Error,
    accept_errors    : Nat,                \* m_consecutive_accept_errors
    accept_pending   : BOOLEAN,
    connections      : Seq(Connection),    \* by connection id, ever accepted
    sessions         : SUBSET (Nat \ {0}), \* ids in m_sessions
    waiters          : SUBSET Waits,       \* m_waiters
    acceptor         : {"closed", "open", "accepting"},
    retry_timer      : BOOLEAN,            \* armed
    shutdown_timer   : BOOLEAN,            \* armed
    in_flight        : [Completion -> Nat],
    completions      : [Operation -> Seq(Error)] ]

-----------------------------------------------------------------------------
(* Helpers: completions, diagnostics and the I/O objects *)

complete_on(l, i, ec) == [l EXCEPT !.completions[i] = Append(@, ec)]

record_diagnostic(l, ec) == [l EXCEPT !.last_error = ec]

\* Closing the acceptor completes an outstanding accept with an abort.
close_acceptor(l) ==
  [l EXCEPT !.acceptor = "closed",
            !.in_flight[AcceptDone("aborted")] =
               IF l.acceptor = "accepting" THEN @ + 1 ELSE @]

cancel_retry_timer(l) ==
  [l EXCEPT !.retry_timer = FALSE,
            !.in_flight[RetryDone("aborted")] =
               IF l.retry_timer THEN @ + 1 ELSE @]

\* An aborted shutdown wait returns at once: only its disarming matters.
cancel_shutdown_timer(l) == [l EXCEPT !.shutdown_timer = FALSE]

\* expires_after cancels the previous wait, then async_wait arms a new one.
arm_retry_timer(l) == [cancel_retry_timer(l) EXCEPT !.retry_timer = TRUE]

\* connection_state::request_stop and force_close post to each connection.
post_request_stop(l) ==
  [l EXCEPT !.connections =
     [c \in 1..Len(l.connections) |->
        IF c \in l.sessions
        THEN [l.connections[c] EXCEPT !.queue = Append(@, "request_stop"),
                                      !.asked = TRUE]
        ELSE l.connections[c]]]

post_force_close(l) ==
  [l EXCEPT !.connections =
     [c \in 1..Len(l.connections) |->
        IF c \in l.sessions
        THEN [l.connections[c] EXCEPT !.queue = Append(@, "force_close")]
        ELSE l.connections[c]]]

-----------------------------------------------------------------------------
(* Member functions called by the strand handlers *)

finish(l, ec, reason) ==
  IF l.state = "stopped" THEN l
  ELSE [cancel_shutdown_timer(cancel_retry_timer(close_acceptor(l)))
          EXCEPT !.terminal_error = ec,
                 !.stop_reason = reason,
                 !.last_error = IF @ = "ok" THEN ec ELSE @,
                 !.state = "stopped",
                 !.completions = [i \in Operation |->
                    IF i \in l.waiters THEN Append(l.completions[i], ec)
                                       ELSE l.completions[i]],
                 !.waiters = {}]

\* Mutant: the accept that was cancelled is not waited for.
maybe_finish_too_early(l) ==
  IF l.state = "stopping" /\ l.sessions = {}
  THEN finish(l, l.terminal_error, l.stop_reason)
  ELSE l

maybe_finish(l) ==
  IF l.state = "stopping" /\ ~l.accept_pending /\ l.sessions = {}
  THEN finish(l, l.terminal_error, l.stop_reason)
  ELSE l

\* The first part of begin_stop: who stops, and why.
enter_stopping(l, ec, reason) ==
  [l EXCEPT !.terminal_error = ec, !.stop_reason = reason, !.state = "stopping"]

\* Mutant: no grace period.
arm_shutdown_timer_never(l) == l

arm_shutdown_timer(l) == [l EXCEPT !.shutdown_timer = @ \/ l.sessions # {}]

\* Mutants: the idle case is missing; the early return is missing.
begin_stop_not_idle(l, ec, reason) ==
  IF l.state \in {"starting", "running"}
  THEN maybe_finish(arm_shutdown_timer(post_request_stop(
         cancel_retry_timer(close_acceptor(enter_stopping(l, ec, reason))))))
  ELSE l

begin_stop_always(l, ec, reason) ==
  maybe_finish(arm_shutdown_timer(post_request_stop(
    cancel_retry_timer(close_acceptor(enter_stopping(l, ec, reason))))))

begin_stop(l, ec, reason) ==
  CASE l.state = "idle" -> finish(enter_stopping(l, ec, reason), ec, reason)
    [] l.state \in {"starting", "running"} ->
         maybe_finish(arm_shutdown_timer(post_request_stop(
           cancel_retry_timer(close_acceptor(enter_stopping(l, ec, reason))))))
    [] OTHER -> l

\* Mutants: one session too many; the catch block keeps m_accept_pending.
accept_next_off_by_one(l, throws, reason) ==
  IF l.state \notin {"starting", "running"} \/ l.accept_pending
  THEN maybe_finish(l)
  ELSE IF Cardinality(l.sessions) > max_active_sessions
  THEN l
  ELSE IF throws
  THEN begin_stop(record_diagnostic(l, "failed"), "failed", reason)
  ELSE [l EXCEPT !.accept_pending = TRUE, !.acceptor = "accepting"]

accept_next_throws_pending(l, throws, reason) ==
  IF l.state \notin {"starting", "running"} \/ l.accept_pending
  THEN maybe_finish(l)
  ELSE IF Cardinality(l.sessions) >= max_active_sessions
  THEN l
  ELSE IF throws
  THEN begin_stop([record_diagnostic(l, "failed") EXCEPT !.accept_pending = TRUE],
                  "failed", reason)
  ELSE [l EXCEPT !.accept_pending = TRUE, !.acceptor = "accepting"]

\* throws: the strand factory or async_accept throws.
accept_next(l, throws, reason) ==
  IF l.state \notin {"starting", "running"} \/ l.accept_pending
  THEN maybe_finish(l)
  ELSE IF Cardinality(l.sessions) >= max_active_sessions
  THEN l
  ELSE IF throws
  THEN begin_stop(record_diagnostic(l, "failed"), "failed", reason)
  ELSE [l EXCEPT !.accept_pending = TRUE, !.acceptor = "accepting"]

retry_accept(l, ec) ==
  LET failed  == record_diagnostic(l, ec)
      counted == [failed EXCEPT !.accept_errors = @ + 1]
  IN  IF ec # "transient"
      THEN begin_stop(failed, ec, "runtime_failure")
      ELSE IF counted.accept_errors >= max_consecutive_accept_errors
      THEN begin_stop(counted, ec, "runtime_failure")
      ELSE arm_retry_timer(counted)

-----------------------------------------------------------------------------
(* Client calls: any thread *)

Init ==
  /\ listener =
       [ state          |-> "idle",
         generation     |-> 0,
         terminal_error |-> "ok",
         stop_reason    |-> "none",
         last_error     |-> "ok",
         accept_errors  |-> 0,
         accept_pending |-> FALSE,
         connections    |-> << >>,
         sessions       |-> {},
         waiters        |-> {},
         acceptor       |-> "closed",
         retry_timer    |-> FALSE,
         shutdown_timer |-> FALSE,
         in_flight      |-> [c \in Completion |-> 0],
         completions    |-> [i \in Operation |-> << >>] ]
  /\ strand = << >>
  /\ submitted = {}
  /\ cancelled = {}
  /\ stopper = [t \in Stoppers |-> "new"]

do_async_start(i) ==
  /\ i \in Starts \ submitted
  /\ submitted' = submitted \cup {i}
  /\ strand' = Append(strand, [op |-> "start", id |-> i])
  /\ UNCHANGED <<listener, cancelled, stopper>>

do_async_wait(i) ==
  /\ i \in Waits \ submitted
  /\ submitted' = submitted \cup {i}
  /\ strand' = Append(strand, [op |-> "wait", id |-> i])
  /\ UNCHANGED <<listener, cancelled, stopper>>

\* The slot of a start is cleared when its handler begins to run.
CancelStart(i) ==
  /\ i \in Starts \ cancelled
  /\ \E k \in DOMAIN strand :
       /\ strand[k] = [op |-> "start", id |-> i]
       /\ listener.state = "starting" => k # 1
  /\ cancelled' = cancelled \cup {i}
  /\ UNCHANGED <<listener, strand, submitted, stopper>>

\* The slot of a wait is cleared when it completes.
CancelWait(i) ==
  /\ i \in (Waits \cap submitted) \ cancelled
  /\ listener.completions[i] = << >>
  /\ cancelled' = cancelled \cup {i}
  /\ strand' = Append(strand, [op |-> "cancel_wait", id |-> i])
  /\ UNCHANGED <<listener, submitted, stopper>>

\* request_stop reads the state, and posts only afterwards.
request_stop(t) ==
  /\ stopper[t] = "new"
  /\ stopper' = [stopper EXCEPT ![t] =
                   IF listener.state = "stopped" THEN "returned" ELSE "checked"]
  /\ UNCHANGED <<listener, strand, submitted, cancelled>>

post_stop(t) ==
  /\ stopper[t] = "checked"
  /\ stopper' = [stopper EXCEPT ![t] = "returned"]
  /\ strand' = Append(strand, [op |-> "stop"])
  /\ UNCHANGED <<listener, submitted, cancelled>>

-----------------------------------------------------------------------------
(* The operating system and the timers: completions leave the I/O objects  *)

accept_completes(ec) ==
  /\ listener.acceptor = "accepting"
  /\ ec = "ok" => Len(listener.connections) < MaxConnections
  /\ listener' = [listener EXCEPT !.acceptor = "open",
                                  !.in_flight[AcceptDone(ec)] = @ + 1]
  /\ UNCHANGED <<strand, submitted, cancelled, stopper>>

retry_timer_expires ==
  /\ listener.retry_timer
  /\ listener' = [listener EXCEPT !.retry_timer = FALSE,
                                  !.in_flight[RetryDone("ok")] = @ + 1]
  /\ UNCHANGED <<strand, submitted, cancelled, stopper>>

shutdown_timer_expires ==
  /\ listener.shutdown_timer
  /\ listener' = [listener EXCEPT !.shutdown_timer = FALSE,
                                  !.in_flight[ShutdownDue] = @ + 1]
  /\ UNCHANGED <<strand, submitted, cancelled, stopper>>

\* bind_executor(m_strand, ...): the completion is queued on the strand.
deliver(c) ==
  /\ listener.in_flight[c] > 0
  /\ listener' = [listener EXCEPT !.in_flight[c] = @ - 1]
  /\ strand' = Append(strand, c)
  /\ UNCHANGED <<submitted, cancelled, stopper>>

-----------------------------------------------------------------------------
(* Handlers on the listener strand *)

Running(op) == strand # << >> /\ Head(strand).op = op

Return ==
  /\ strand' = Tail(strand)
  /\ UNCHANGED <<submitted, cancelled, stopper>>

\* Mutant: a start that finds the listener stopping is dropped.
start_dropped_while_stopping ==
  LET i == Head(strand).id
  IN  /\ Running("start")
      /\ listener.state # "starting"
      /\ \/ i \in cancelled /\ listener' = complete_on(listener, i, "aborted")
         \/ /\ i \notin cancelled
            /\ listener.state = "running"
            /\ listener' = complete_on(listener, i, "ok")
         \/ /\ i \notin cancelled
            /\ listener.state = "stopping"
            /\ listener' = listener
      /\ Return

\* The early returns of a queued start: cancelled, joined, or too late.
start_without_effect ==
  LET i == Head(strand).id
  IN  /\ Running("start")
      /\ listener.state # "starting"
      /\ \/ i \in cancelled /\ listener' = complete_on(listener, i, "aborted")
         \/ /\ i \notin cancelled
            /\ listener.state = "running"
            /\ listener' = complete_on(listener, i, "ok")
         \/ /\ i \notin cancelled
            /\ listener.state = "stopping"
            /\ listener' = complete_on(listener, i, "aborted")
      /\ Return

\* start_on_strand up to transition_to(starting).  The handler keeps the
\* strand: its entry stays at the head until start_on_strand_opens.
start_on_strand ==
  /\ Running("start")
  /\ Head(strand).id \notin cancelled
  /\ listener.state \in {"idle", "stopped"}
  /\ listener' = [listener EXCEPT !.generation = @ + 1,
                                  !.terminal_error = "ok",
                                  !.stop_reason = "none",
                                  !.last_error = "ok",
                                  !.state = "starting"]
  /\ UNCHANGED <<strand, submitted, cancelled, stopper>>

\* open, set_option, bind or listen fails, or the first accept is started.
start_on_strand_opens ==
  LET i    == Head(strand).id
      open == [listener EXCEPT !.acceptor = "open"]
  IN  /\ Running("start")
      /\ listener.state = "starting"
      /\ \/ listener' = finish(complete_on(open, i, "fatal"), "fatal", "startup_failure")
         \/ listener' = complete_on(accept_next(open, TRUE, "startup_failure"), i, "failed")
         \/ listener' = complete_on([accept_next(open, FALSE, "startup_failure")
                                       EXCEPT !.state = "running"], i, "ok")
      /\ Return

\* Mutant: stopping counts as stopped.
wait_ends_while_stopping ==
  LET i == Head(strand).id
  IN  /\ Running("wait")
      /\ \/ i \in cancelled /\ listener' = complete_on(listener, i, "aborted")
         \/ /\ i \notin cancelled
            /\ listener.state \in {"stopping", "stopped"}
            /\ listener' = complete_on(listener, i, listener.terminal_error)
         \/ /\ i \notin cancelled
            /\ listener.state \notin {"stopping", "stopped"}
            /\ listener' = [listener EXCEPT !.waiters = @ \cup {i}]
      /\ Return

wait_on_strand ==
  LET i == Head(strand).id
  IN  /\ Running("wait")
      /\ \/ i \in cancelled /\ listener' = complete_on(listener, i, "aborted")
         \/ /\ i \notin cancelled
            /\ listener.state = "stopped"
            /\ listener' = complete_on(listener, i, listener.terminal_error)
         \/ /\ i \notin cancelled
            /\ listener.state # "stopped"
            /\ listener' = [listener EXCEPT !.waiters = @ \cup {i}]
      /\ Return

\* Mutant: the cancelled waiter stays in m_waiters.
cancel_wait_keeps_waiter ==
  LET i == Head(strand).id
  IN  /\ Running("cancel_wait")
      /\ listener' = IF i \in listener.waiters THEN complete_on(listener, i, "aborted")
                                               ELSE listener
      /\ Return

cancel_wait ==
  LET i == Head(strand).id
  IN  /\ Running("cancel_wait")
      /\ listener' = IF i \in listener.waiters
                     THEN complete_on([listener EXCEPT !.waiters = @ \ {i}], i, "aborted")
                     ELSE listener
      /\ Return

stop_on_strand ==
  /\ Running("stop")
  /\ listener' = begin_stop(listener, "ok", "requested")
  /\ Return

\* A fresh connection_state whose first handler is start, or force_close
\* when posting start throws.
new_connection(first) ==
  [queue |-> <<first>>, session |-> "new", finished |-> FALSE, asked |-> FALSE]

\* The id of a connection whose session factory threw; its socket is closed.
rejected_connection ==
  [queue |-> << >>, session |-> "returned", finished |-> TRUE, asked |-> FALSE]

accepted ==
  LET ec   == Head(strand).ec
      done == [listener EXCEPT !.accept_pending = FALSE]
      id   == Len(listener.connections) + 1
      kept(first) == [done EXCEPT !.accept_errors = 0,
                                  !.connections = Append(@, new_connection(first)),
                                  !.sessions = @ \cup {id}]
      rejected == [record_diagnostic(done, "failed")
                     EXCEPT !.accept_errors = 0,
                            !.connections = Append(@, rejected_connection)]
  IN  /\ Running("accepted")
      /\ \/ listener.state # "running" /\ listener' = maybe_finish(done)
         \/ /\ listener.state = "running"
            /\ ec # "ok"
            /\ listener' = retry_accept(done, ec)
         \/ /\ listener.state = "running"
            /\ ec = "ok"
            /\ \E throws \in BOOLEAN :
                 \/ listener' = accept_next(rejected, throws, "runtime_failure")
                 \/ \E first \in {"start", "force_close"} :
                      listener' = accept_next(kept(first), throws, "runtime_failure")
      /\ Return

\* Mutant: the freed slot is not used.
session_finished_without_accept ==
  /\ Running("session_finished")
  /\ listener' = maybe_finish([listener EXCEPT !.sessions = @ \ {Head(strand).id}])
  /\ Return

session_finished ==
  LET c     == Head(strand).id
      ec    == Head(strand).ec
      erased == [listener EXCEPT !.sessions = @ \ {c}]
      noted == IF ec \in {"ok", "aborted"} THEN erased
                                           ELSE record_diagnostic(erased, ec)
  IN  /\ Running("session_finished")
      /\ \/ listener.state # "running" /\ listener' = maybe_finish(noted)
         \/ /\ listener.state = "running"
            /\ \E throws \in BOOLEAN :
                 listener' = maybe_finish(accept_next(noted, throws, "runtime_failure"))
      /\ Return

retry_timer_handler ==
  /\ Running("retry")
  /\ \/ Head(strand).ec = "aborted" /\ listener' = maybe_finish(listener)
     \/ /\ Head(strand).ec = "ok"
        /\ \E throws \in BOOLEAN :
             listener' = accept_next(listener, throws, "runtime_failure")
  /\ Return

shutdown_timer_handler ==
  /\ Running("shutdown")
  /\ listener' = post_force_close(record_diagnostic(listener, "timed_out"))
  /\ Return

-----------------------------------------------------------------------------
(* Handlers on a connection strand *)

connection(c) == listener.connections[c]

\* connection_state::finish: only its first call reports to the listener.
connection_finish(c, next, ec) ==
  /\ listener' = [listener EXCEPT !.connections[c] = [next EXCEPT !.finished = TRUE]]
  /\ strand' = IF next.finished THEN strand
               ELSE Append(strand, [op |-> "session_finished", id |-> c, ec |-> ec])
  /\ UNCHANGED <<submitted, cancelled, stopper>>

connection_runs(c, handler) ==
  connection(c).queue # << >> /\ Head(connection(c).queue) = handler

popped(c) == [connection(c) EXCEPT !.queue = Tail(@)]

\* async_run begins, or throws.
connection_start(c) ==
  /\ connection_runs(c, "start")
  /\ \/ /\ listener' = [listener EXCEPT !.connections[c] =
                           [popped(c) EXCEPT !.session = "running"]]
        /\ UNCHANGED <<strand, submitted, cancelled, stopper>>
     \/ connection_finish(c, [popped(c) EXCEPT !.session = "returned"], "failed")

\* Emits the cancellation signal; what the session makes of it is its affair.
connection_request_stop(c) ==
  /\ connection_runs(c, "request_stop")
  /\ listener' = [listener EXCEPT !.connections[c] = popped(c)]
  /\ UNCHANGED <<strand, submitted, cancelled, stopper>>

connection_force_close(c) ==
  /\ connection_runs(c, "force_close")
  /\ connection_finish(c, popped(c), "aborted")

session_completes(c, ec) ==
  /\ connection(c).session = "running"
  /\ connection_finish(c, [connection(c) EXCEPT !.session = "returned"], ec)

-----------------------------------------------------------------------------
Client ==
  \/ \E i \in Starts : do_async_start(i) \/ CancelStart(i)
  \/ \E i \in Waits : do_async_wait(i) \/ CancelWait(i)
  \/ \E t \in Stoppers : request_stop(t) \/ post_stop(t)

InputOutput ==
  \/ \E ec \in AcceptResult \ {"aborted"} : accept_completes(ec)
  \/ retry_timer_expires
  \/ shutdown_timer_expires
  \/ \E c \in Completion : deliver(c)

Strand ==
  \/ start_without_effect
  \/ start_on_strand
  \/ start_on_strand_opens
  \/ wait_on_strand
  \/ cancel_wait
  \/ stop_on_strand
  \/ accepted
  \/ session_finished
  \/ retry_timer_handler
  \/ shutdown_timer_handler

ConnectionStrand(c) ==
  connection_start(c) \/ connection_request_stop(c) \/ connection_force_close(c)

Sessions ==
  \E c \in 1..Len(listener.connections) :
    \/ ConnectionStrand(c)
    \/ \E ec \in SessionResult : session_completes(c, ec)

Next == Client \/ InputOutput \/ Strand \/ Sessions

Spec == Init /\ [][Next]_vars

-----------------------------------------------------------------------------
(* Fairness: the io_context keeps running its threads, so every queued     *)
(* handler runs, every armed timer expires and every completion reaches    *)
(* its strand.  Nothing is assumed of clients, peers or sessions: a        *)
(* session may ignore its cancellation for ever.                           *)

Fairness ==
  /\ WF_vars(Strand)
  /\ WF_vars(retry_timer_expires)
  /\ WF_vars(shutdown_timer_expires)
  /\ \A c \in Completion : WF_vars(deliver(c))
  /\ \A c \in 1..MaxConnections :
       WF_vars(c <= Len(listener.connections) /\ ConnectionStrand(c))
  /\ \A t \in Stoppers : WF_vars(post_stop(t))

FairSpec == Spec /\ Fairness

-----------------------------------------------------------------------------
(* Properties *)

\* The members and queues hold values of their types.
TypeOK ==
  /\ listener \in Listener
  /\ strand \in Seq(Handler)
  /\ submitted \subseteq Operation
  /\ cancelled \subseteq Operation
  /\ stopper \in [Stoppers -> {"new", "checked", "returned"}]

\* Once finish has moved the listener to stopped (which is what async_wait
\* reports), every socket it ever accepted is closed, no session is tracked,
\* no waiter is left behind, the acceptor is closed and no accept is pending.
StoppedIsDrained ==
  listener.state = "stopped" =>
    /\ \A c \in DOMAIN listener.connections : listener.connections[c].finished
    /\ listener.sessions = {}
    /\ listener.waiters = {}
    /\ listener.acceptor = "closed" /\ ~listener.accept_pending

\* m_accept_pending is exact: TRUE iff an accept is outstanding, and then
\* only one.  So a listener that stopped has no accept handler left that
\* could run in a later generation.
AcceptPendingIsExact ==
  LET reactor == IF listener.acceptor = "accepting" THEN 1 ELSE 0
      flying(ec) == listener.in_flight[AcceptDone(ec)]
      queued == Cardinality({k \in DOMAIN strand : strand[k].op = "accepted"})
  IN  reactor + flying("ok") + flying("transient") + flying("fatal")
        + flying("aborted") + queued
      = IF listener.accept_pending THEN 1 ELSE 0

\* The accept loop is never lost: a running listener has an accept pending, a
\* retry on its way, or is at its session limit (session_finished resumes it).
AcceptLoopAlive ==
  listener.state = "running" =>
    \/ listener.accept_pending
    \/ listener.retry_timer
    \/ listener.in_flight[RetryDone("ok")] > 0
    \/ \E k \in DOMAIN strand : strand[k] = RetryDone("ok")
    \/ Cardinality(listener.sessions) >= max_active_sessions

\* max_active_sessions is never exceeded, although the limit is tested when
\* the accept is started and the session is added when it completes.
ActiveSessionsBounded ==
  Cardinality(listener.sessions) <= max_active_sessions

\* A listener is stopping only while it waits for something: maybe_finish is
\* called wherever its condition can become true.
StoppingWaitsForSomething ==
  listener.state = "stopping" => listener.accept_pending \/ listener.sessions # {}

\* No completion handler of async_start or async_wait is invoked twice, even
\* when a cancellation races with finish.
CompletedAtMostOnce ==
  \A i \in Operation : Len(listener.completions[i]) <= 1

\* The reason, the terminal error and the diagnostics of a stopped listener
\* agree: a failure leaves an error behind, a requested stop does not
\* terminate with one.
StopReasonAgrees ==
  listener.state = "stopped" =>
    /\ listener.stop_reason # "none"
    /\ listener.stop_reason = "requested" <=> listener.terminal_error = "ok"
    /\ listener.terminal_error # "ok" => listener.last_error # "ok"

\* Whoever calls begin_stop first decides the reason: until the next start,
\* a later failure or request does not change it.
FirstCauseWins ==
  [][ listener.state \in {"stopping", "stopped"} /\ listener'.generation = listener.generation
        => /\ listener'.stop_reason = listener.stop_reason
           /\ listener'.terminal_error = listener.terminal_error ]_vars

\* An async_wait that nobody cancelled completes only in a step that leaves
\* the listener stopped, and with the error it stopped with.
WaitTellsTheTruth ==
  [][ \A i \in Waits \ cancelled :
        listener'.completions[i] # listener.completions[i]
          => /\ listener'.state = "stopped"
             /\ listener'.completions[i] = <<listener'.terminal_error>> ]_vars

Lifecycle == INSTANCE ListenerLifecycle WITH
  state   <- listener.state,
  error   <- IF listener.terminal_error = "ok" THEN "ok" ELSE "failed",
  waiters <- listener.waiters

\* The listener implements the lifecycle that every listener promises: it never
\* goes back from stopping, keeps the error of a generation to the next start,
\* and lets go of a waiter only when it is cancelled or the generation ends.
ImplementsLifecycle == Lifecycle!Spec

\* Shutdown always ends: with sessions that never return, with an accept in
\* flight, and with cancellations and restarts queued behind it.
StoppingEnds == listener.state = "stopping" ~> listener.state = "stopped"

\* A stop that reached the strand is honoured, whatever is queued with it.
PostedStopIsHonoured ==
  (\E k \in DOMAIN strand : strand[k].op = "stop") ~> listener.state = "stopped"

\* Every async_start completes.
StartCompletes ==
  \A i \in Starts : i \in submitted ~> listener.completions[i] # << >>

-----------------------------------------------------------------------------
(* What the documentation says and the code does not do *)

\* listener_options.h: "Shutdown first requests cooperative cancellation and
\* force-closes remaining sockets after shutdown_grace_period": a running
\* session is force-closed only after it was asked to stop.
ForceCloseAfterRequest ==
  \A c \in DOMAIN listener.connections :
    /\ connection(c).session = "running"
    /\ \E k \in DOMAIN connection(c).queue : connection(c).queue[k] = "force_close"
    => connection(c).asked

=============================================================================
