----------------------- MODULE AcceptorListenerProofs -----------------------
(***************************************************************************)
(* Proofs about AcceptorListener, for any number of calls, connections and *)
(* sessions and any options validate_acceptor_options lets through.        *)
(***************************************************************************)
EXTENDS AcceptorListener, QueueTheorems, TLAPS

\* The provers that try a leaf in turn, unless it names one.
USE SMTT(20), SMTT(30), ZenonT(30)

-----------------------------------------------------------------------------
(* Types of the member functions *)

\* Every completion the model sends is one of Completion.
LEMMA CompletionMembers ==
  /\ AcceptDone("aborted") \in Completion
  /\ RetryDone("aborted") \in Completion
  /\ RetryDone("ok") \in Completion
  /\ ShutdownDue \in Completion
  /\ \A ec \in AcceptResult : AcceptDone(ec) \in Completion
BY DEF Completion, AcceptDone, RetryDone, ShutdownDue, AcceptResult

\* Counting one more completion in flight keeps the bag a bag.
LEMMA InFlightType ==
  ASSUME NEW f \in [Completion -> Nat], NEW c \in Completion, NEW b \in BOOLEAN
  PROVE  /\ [f EXCEPT ![c] = IF b THEN @ + 1 ELSE @] \in [Completion -> Nat]
         /\ [f EXCEPT ![c] = @ + 1] \in [Completion -> Nat]
         /\ f[c] > 0 => [f EXCEPT ![c] = @ - 1] \in [Completion -> Nat]
OBVIOUS

\* complete_on keeps the listener well typed.
LEMMA complete_on_type ==
  ASSUME NEW l \in Listener, NEW i \in Operation, NEW ec \in Error
  PROVE  complete_on(l, i, ec) \in Listener
<1> DEFINE f == [l.completions EXCEPT ![i] = Append(@, ec)]
<1>1. l.completions \in [Operation -> Seq(Error)]
  BY DEF Listener
<1>2. f \in [Operation -> Seq(Error)]
  BY <1>1
<1>3. complete_on(l, i, ec) = [l EXCEPT !.completions = f]
  BY DEF complete_on
<1> HIDE DEF f
<1>4. QED
  BY <1>2, <1>3, Zenon DEF Listener

\* record_diagnostic keeps the listener well typed.
LEMMA record_diagnostic_type ==
  ASSUME NEW l \in Listener, NEW ec \in Error
  PROVE  record_diagnostic(l, ec) \in Listener
BY Zenon DEF Listener, record_diagnostic

\* Closing the acceptor keeps the listener well typed.
LEMMA close_acceptor_type ==
  ASSUME NEW l \in Listener
  PROVE  close_acceptor(l) \in Listener
<1> DEFINE f == [l.in_flight EXCEPT ![AcceptDone("aborted")] =
                   IF l.acceptor = "accepting" THEN @ + 1 ELSE @]
<1>1. l.in_flight \in [Completion -> Nat]
  BY DEF Listener
<1>2. f \in [Completion -> Nat]
  BY <1>1, InFlightType, CompletionMembers
<1>3. close_acceptor(l) = [l EXCEPT !.acceptor = "closed", !.in_flight = f]
  BY DEF close_acceptor
<1> HIDE DEF f
<1>4. QED
  BY <1>2, <1>3, Zenon DEF Listener

\* Cancelling the retry timer keeps the listener well typed.
LEMMA cancel_retry_timer_type ==
  ASSUME NEW l \in Listener
  PROVE  cancel_retry_timer(l) \in Listener
<1> DEFINE f == [l.in_flight EXCEPT ![RetryDone("aborted")] =
                   IF l.retry_timer THEN @ + 1 ELSE @]
<1>1. l.in_flight \in [Completion -> Nat] /\ l.retry_timer \in BOOLEAN
  BY DEF Listener
<1>2. f \in [Completion -> Nat]
  BY <1>1, InFlightType, CompletionMembers
<1>3. cancel_retry_timer(l) = [l EXCEPT !.retry_timer = FALSE, !.in_flight = f]
  BY DEF cancel_retry_timer
<1> HIDE DEF f
<1>4. QED
  BY <1>2, <1>3, Zenon DEF Listener

\* Cancelling the shutdown timer keeps the listener well typed.
LEMMA cancel_shutdown_timer_type ==
  ASSUME NEW l \in Listener
  PROVE  cancel_shutdown_timer(l) \in Listener
BY Zenon DEF Listener, cancel_shutdown_timer

\* Arming the retry timer keeps the listener well typed.
LEMMA arm_retry_timer_type ==
  ASSUME NEW l \in Listener
  PROVE  arm_retry_timer(l) \in Listener
<1>1. cancel_retry_timer(l) \in Listener
  BY cancel_retry_timer_type
<1>2. QED
  BY <1>1, Zenon DEF arm_retry_timer, Listener

\* Posting to a connection keeps it well typed.
LEMMA PostType ==
  ASSUME NEW r \in Connection
  PROVE  /\ [r EXCEPT !.queue = Append(@, "force_close")] \in Connection
         /\ [r EXCEPT !.queue = Append(@, "request_stop"), !.asked = TRUE] \in Connection
<1> DEFINE H == {"start", "request_stop", "force_close"}
<1>1. r.queue \in Seq(H)
  BY DEF Connection
<1>2. Append(r.queue, "force_close") \in Seq(H) /\ Append(r.queue, "request_stop") \in Seq(H)
  BY <1>1
<1>3. QED
  BY <1>2, Zenon DEF Connection

\* Posting to the connections of the sessions keeps the listener well typed.
LEMMA post_request_stop_type ==
  ASSUME NEW l \in Listener
  PROVE  post_request_stop(l) \in Listener
<1> DEFINE f(c) == IF c \in l.sessions
                   THEN [l.connections[c] EXCEPT !.queue = Append(@, "request_stop"),
                                                 !.asked = TRUE]
                   ELSE l.connections[c]
<1>1. l.connections \in Seq(Connection)
  BY DEF Listener
<1>2. ASSUME NEW c \in 1..Len(l.connections)
      PROVE  f(c) \in Connection
  <2>1. l.connections[c] \in Connection
    BY <1>1
  <2>2. QED
    BY <2>1, PostType, Zenon
<1> HIDE DEF f
<1>3. [c \in 1..Len(l.connections) |-> f(c)] \in Seq(Connection)
  BY <1>1, <1>2
<1>4. post_request_stop(l) =
        [l EXCEPT !.connections = [c \in 1..Len(l.connections) |-> f(c)]]
  BY DEF post_request_stop, f
<1>5. QED
  BY <1>3, <1>4, Zenon DEF Listener

\* Likewise for force_close.
LEMMA post_force_close_type ==
  ASSUME NEW l \in Listener
  PROVE  post_force_close(l) \in Listener
<1> DEFINE f(c) == IF c \in l.sessions
                   THEN [l.connections[c] EXCEPT !.queue = Append(@, "force_close")]
                   ELSE l.connections[c]
<1>1. l.connections \in Seq(Connection)
  BY DEF Listener
<1>2. ASSUME NEW c \in 1..Len(l.connections)
      PROVE  f(c) \in Connection
  <2>1. l.connections[c] \in Connection
    BY <1>1
  <2>2. QED
    BY <2>1, PostType, Zenon
<1> HIDE DEF f
<1>3. [c \in 1..Len(l.connections) |-> f(c)] \in Seq(Connection)
  BY <1>1, <1>2
<1>4. post_force_close(l) =
        [l EXCEPT !.connections = [c \in 1..Len(l.connections) |-> f(c)]]
  BY DEF post_force_close, f
<1>5. QED
  BY <1>3, <1>4, Zenon DEF Listener

\* finish keeps the listener well typed.
LEMMA finish_type ==
  ASSUME NEW l \in Listener, NEW ec \in Error, NEW reason \in StopReason
  PROVE  finish(l, ec, reason) \in Listener
<1> DEFINE c == cancel_shutdown_timer(cancel_retry_timer(close_acceptor(l)))
           f == [i \in Operation |->
                   IF i \in l.waiters THEN Append(l.completions[i], ec)
                                      ELSE l.completions[i]]
<1>1. c \in Listener
  BY close_acceptor_type, cancel_retry_timer_type, cancel_shutdown_timer_type
<1>2. f \in [Operation -> Seq(Error)]
  <2>1. l.completions \in [Operation -> Seq(Error)]
    BY DEF Listener
  <2>2. QED
    BY <2>1
<1> DEFINE e == IF c.last_error = "ok" THEN ec ELSE c.last_error
<1>3. e \in Error
  <2>1. c.last_error \in Error
    BY <1>1 DEF Listener
  <2>2. QED
    BY <2>1
<1>4. finish(l, ec, reason) =
        IF l.state = "stopped" THEN l
        ELSE [c EXCEPT !.terminal_error = ec, !.stop_reason = reason, !.last_error = e,
                       !.state = "stopped", !.completions = f, !.waiters = {}]
  BY DEF finish
<1> HIDE DEF c, e, f
<1>5. [c EXCEPT !.terminal_error = ec, !.stop_reason = reason, !.last_error = e,
                !.state = "stopped", !.completions = f, !.waiters = {}] \in Listener
  BY <1>1, <1>2, <1>3, Zenon DEF Listener, State
<1>6. QED
  BY <1>4, <1>5

\* maybe_finish keeps the listener well typed.
LEMMA maybe_finish_type ==
  ASSUME NEW l \in Listener
  PROVE  maybe_finish(l) \in Listener
<1>1. l.terminal_error \in Error /\ l.stop_reason \in StopReason
  BY DEF Listener
<1>2. QED
  BY <1>1, finish_type DEF maybe_finish

\* Entering stopping keeps the listener well typed.
LEMMA enter_stopping_type ==
  ASSUME NEW l \in Listener, NEW ec \in Error, NEW reason \in StopReason
  PROVE  enter_stopping(l, ec, reason) \in Listener
BY Zenon DEF enter_stopping, Listener, State

\* Arming the shutdown timer keeps the listener well typed.
LEMMA arm_shutdown_timer_type ==
  ASSUME NEW l \in Listener
  PROVE  arm_shutdown_timer(l) \in Listener
<1>1. (l.shutdown_timer \/ l.sessions # {}) \in BOOLEAN
  OBVIOUS
<1>2. QED
  BY <1>1, Zenon DEF arm_shutdown_timer, Listener

\* begin_stop keeps the listener well typed.
LEMMA begin_stop_type ==
  ASSUME NEW l \in Listener, NEW ec \in Error, NEW reason \in StopReason
  PROVE  begin_stop(l, ec, reason) \in Listener
<1> DEFINE e == enter_stopping(l, ec, reason)
<1>1. e \in Listener
  BY enter_stopping_type
<1>2. finish(e, ec, reason) \in Listener
  BY <1>1, finish_type
<1>3. post_request_stop(cancel_retry_timer(close_acceptor(e))) \in Listener
  BY <1>1, close_acceptor_type, cancel_retry_timer_type, post_request_stop_type
<1>4. maybe_finish(arm_shutdown_timer(post_request_stop(
        cancel_retry_timer(close_acceptor(e))))) \in Listener
  BY <1>3, arm_shutdown_timer_type, maybe_finish_type
<1> HIDE DEF e
<1>5. QED
  BY <1>2, <1>4 DEF begin_stop, e

\* accept_next keeps the listener well typed.
LEMMA accept_next_type ==
  ASSUME NEW l \in Listener, NEW throws \in BOOLEAN, NEW reason \in StopReason
  PROVE  accept_next(l, throws, reason) \in Listener
<1>1. "failed" \in Error
  BY DEF Error, SessionResult
<1>2. begin_stop(record_diagnostic(l, "failed"), "failed", reason) \in Listener
  BY <1>1, record_diagnostic_type, begin_stop_type
<1>3. [l EXCEPT !.accept_pending = TRUE, !.acceptor = "accepting"] \in Listener
  BY Zenon DEF Listener
<1>4. QED
  BY <1>2, <1>3, maybe_finish_type DEF accept_next

\* retry_accept keeps the listener well typed.
LEMMA retry_accept_type ==
  ASSUME NEW l \in Listener, NEW ec \in Error
  PROVE  retry_accept(l, ec) \in Listener
<1> DEFINE failed == record_diagnostic(l, ec)
           counted == [failed EXCEPT !.accept_errors = @ + 1]
<1>1. failed \in Listener
  BY record_diagnostic_type
<1> HIDE DEF failed
<1>2. counted \in Listener
  <2>1. failed.accept_errors + 1 \in Nat
    BY <1>1 DEF Listener
  <2>2. QED
    BY <1>1, <2>1, Zenon DEF Listener
<1> HIDE DEF counted
<1>3. "runtime_failure" \in StopReason
  BY DEF StopReason
<1>4. /\ begin_stop(failed, ec, "runtime_failure") \in Listener
      /\ begin_stop(counted, ec, "runtime_failure") \in Listener
      /\ arm_retry_timer(counted) \in Listener
  BY <1>1, <1>2, <1>3, begin_stop_type, arm_retry_timer_type
<1>5. QED
  BY <1>4 DEF retry_accept, failed, counted

-----------------------------------------------------------------------------
(* Type correctness *)

\* The literals the handlers use are errors and reasons.
LEMMA Literals ==
  /\ {"ok", "aborted", "fatal", "failed", "timed_out"} \subseteq Error
  /\ AcceptResult \subseteq Error /\ SessionResult \subseteq Error
  /\ {"requested", "startup_failure", "runtime_failure"} \subseteq StopReason
  /\ Starts \subseteq Operation /\ Waits \subseteq Operation
BY DEF Error, AcceptResult, SessionResult, StopReason, Operation

\* What the fields of a queued handler are, by its kind.
LEMMA HandlerShape ==
  ASSUME NEW h \in Handler
  PROVE  /\ h.op = "start" => h.id \in Starts
         /\ h.op \in {"wait", "cancel_wait"} => h.id \in Waits
         /\ h.op = "accepted" => h.ec \in AcceptResult
         /\ h.op = "session_finished" => h.id \in Nat \ {0} /\ h.ec \in SessionResult
BY DEF Handler, Completion, AcceptDone, RetryDone, ShutdownDue

\* Running a handler takes it off the strand.
LEMMA RunningHandler ==
  ASSUME NEW op, strand \in Seq(Handler), Running(op)
  PROVE  /\ Head(strand) \in Handler
         /\ Head(strand).op = op
         /\ Tail(strand) \in Seq(Handler)
BY DEF Running

\* Posting to the strand keeps it a queue of handlers.
LEMMA PostedHandlers ==
  /\ \A i \in Starts : [op |-> "start", id |-> i] \in Handler
  /\ \A i \in Waits : [op |-> "wait", id |-> i] \in Handler
  /\ \A i \in Waits : [op |-> "cancel_wait", id |-> i] \in Handler
  /\ [op |-> "stop"] \in Handler
  /\ Completion \subseteq Handler
  /\ \A c \in Nat \ {0}, ec \in SessionResult :
       [op |-> "session_finished", id |-> c, ec |-> ec] \in Handler
BY DEF Handler

\* The client calls keep the types.
LEMMA ClientType ==
  ASSUME TypeOK, Client
  PROVE  TypeOK'
<1> USE DEF TypeOK
<1>1. ASSUME NEW i \in Starts, do_async_start(i) PROVE TypeOK'
  BY <1>1, PostedHandlers, Literals DEF do_async_start
<1>2. ASSUME NEW i \in Starts, CancelStart(i) PROVE TypeOK'
  BY <1>2, Literals DEF CancelStart
<1>3. ASSUME NEW i \in Waits, do_async_wait(i) PROVE TypeOK'
  BY <1>3, PostedHandlers, Literals DEF do_async_wait
<1>4. ASSUME NEW i \in Waits, CancelWait(i) PROVE TypeOK'
  BY <1>4, PostedHandlers, Literals DEF CancelWait
<1>5. ASSUME NEW t \in Stoppers, request_stop(t) PROVE TypeOK'
  BY <1>5 DEF request_stop
<1>6. ASSUME NEW t \in Stoppers, post_stop(t) PROVE TypeOK'
  BY <1>6, PostedHandlers DEF post_stop
<1>7. QED
  BY <1>1, <1>2, <1>3, <1>4, <1>5, <1>6 DEF Client

\* Completions that leave an I/O object or reach the strand keep the types.
LEMMA InputOutputType ==
  ASSUME TypeOK, InputOutput
  PROVE  TypeOK'
<1> USE DEF TypeOK
<1>1. listener.in_flight \in [Completion -> Nat]
  BY DEF Listener
<1>2. ASSUME NEW ec \in AcceptResult, accept_completes(ec) PROVE TypeOK'
  <2> DEFINE f == [listener.in_flight EXCEPT ![AcceptDone(ec)] = @ + 1]
  <2>1. f \in [Completion -> Nat]
    BY <1>1, InFlightType, CompletionMembers
  <2>2. listener' = [listener EXCEPT !.acceptor = "open", !.in_flight = f]
    BY <1>2 DEF accept_completes
  <2> HIDE DEF f
  <2>3. listener' \in Listener
    BY <2>1, <2>2, Zenon DEF Listener
  <2>4. QED
    BY <1>2, <2>3 DEF accept_completes
<1>3. CASE retry_timer_expires
  <2> DEFINE f == [listener.in_flight EXCEPT ![RetryDone("ok")] = @ + 1]
  <2>1. f \in [Completion -> Nat]
    BY <1>1, InFlightType, CompletionMembers
  <2>2. listener' = [listener EXCEPT !.retry_timer = FALSE, !.in_flight = f]
    BY <1>3 DEF retry_timer_expires
  <2> HIDE DEF f
  <2>3. listener' \in Listener
    BY <2>1, <2>2, Zenon DEF Listener
  <2>4. QED
    BY <1>3, <2>3 DEF retry_timer_expires
<1>4. CASE shutdown_timer_expires
  <2> DEFINE f == [listener.in_flight EXCEPT ![ShutdownDue] = @ + 1]
  <2>1. f \in [Completion -> Nat]
    BY <1>1, InFlightType, CompletionMembers
  <2>2. listener' = [listener EXCEPT !.shutdown_timer = FALSE, !.in_flight = f]
    BY <1>4 DEF shutdown_timer_expires
  <2> HIDE DEF f
  <2>3. listener' \in Listener
    BY <2>1, <2>2, Zenon DEF Listener
  <2>4. QED
    BY <1>4, <2>3 DEF shutdown_timer_expires
<1>5. ASSUME NEW c \in Completion, deliver(c) PROVE TypeOK'
  <2> DEFINE f == [listener.in_flight EXCEPT ![c] = @ - 1]
  <2>1. f \in [Completion -> Nat]
    BY <1>1, <1>5, InFlightType DEF deliver
  <2>2. listener' = [listener EXCEPT !.in_flight = f]
    BY <1>5 DEF deliver
  <2> HIDE DEF f
  <2>3. listener' \in Listener
    BY <2>1, <2>2, Zenon DEF Listener
  <2>4. strand' \in Seq(Handler)
    BY <1>5, PostedHandlers DEF deliver
  <2>5. QED
    BY <1>5, <2>3, <2>4 DEF deliver
<1>6. QED
  BY <1>2, <1>3, <1>4, <1>5 DEF InputOutput

\* The handlers of the listener strand keep the types.
LEMMA StrandType ==
  ASSUME TypeOK, Strand
  PROVE  TypeOK'
<1>0. listener \in Listener /\ strand \in Seq(Handler)
  BY DEF TypeOK
<1>1. SUFFICES listener' \in Listener /\ strand' \in Seq(Handler)
               /\ UNCHANGED <<submitted, cancelled, stopper>>
  BY DEF TypeOK
<1>2. ASSUME NEW op, Running(op), Return, listener' \in Listener
      PROVE  listener' \in Listener /\ strand' \in Seq(Handler)
             /\ UNCHANGED <<submitted, cancelled, stopper>>
  BY <1>0, <1>2, RunningHandler DEF Return
<1>3. CASE start_without_effect
  <2>1. Head(strand).id \in Operation
    BY <1>0, <1>3, RunningHandler, HandlerShape, Literals DEF start_without_effect
  <2>2. listener' \in Listener
    BY <1>0, <1>3, <2>1, complete_on_type, Literals DEF start_without_effect
  <2>3. QED
    BY <1>2, <1>3, <2>2 DEF start_without_effect
<1>4. CASE start_on_strand
  <2>1. listener.generation + 1 \in Nat
    BY <1>0 DEF Listener
  <2>2. listener' \in Listener
    BY <1>0, <1>4, <2>1, Literals, Zenon DEF start_on_strand, Listener, State, StopReason
  <2>3. QED
    BY <1>0, <1>4, <2>2 DEF start_on_strand
<1>5. CASE start_on_strand_opens
  <2> DEFINE i == Head(strand).id
             open == [listener EXCEPT !.acceptor = "open"]
             ran == [accept_next(open, FALSE, "startup_failure") EXCEPT !.state = "running"]
  <2>1. i \in Operation
    BY <1>0, <1>5, RunningHandler, HandlerShape, Literals DEF start_on_strand_opens
  <2>2. open \in Listener
    BY <1>0, Zenon DEF Listener
  <2>3. \/ listener' = finish(complete_on(open, i, "fatal"), "fatal", "startup_failure")
        \/ listener' = complete_on(accept_next(open, TRUE, "startup_failure"), i, "failed")
        \/ listener' = complete_on(ran, i, "ok")
    BY <1>5, Zenon DEF start_on_strand_opens
  <2> HIDE DEF i, open
  <2>4. /\ accept_next(open, TRUE, "startup_failure") \in Listener
        /\ accept_next(open, FALSE, "startup_failure") \in Listener
    BY <2>2, accept_next_type, Literals, Zenon
  <2>5. ran \in Listener
    BY <2>4, Zenon DEF Listener, State
  <2> HIDE DEF ran
  <2>6. listener' \in Listener
    BY <2>1, <2>2, <2>3, <2>4, <2>5, complete_on_type, finish_type, Literals, Zenon
  <2>7. QED
    BY <1>2, <1>5, <2>6 DEF start_on_strand_opens
<1>6. CASE wait_on_strand
  <2>1. Head(strand).id \in Waits /\ Head(strand).id \in Operation
    BY <1>0, <1>6, RunningHandler, HandlerShape, Literals DEF wait_on_strand
  <2>2. listener.terminal_error \in Error
    BY <1>0 DEF Listener
  <2>3. [listener EXCEPT !.waiters = @ \cup {Head(strand).id}] \in Listener
    BY <1>0, <2>1, Zenon DEF Listener
  <2>4. listener' \in Listener
    BY <1>0, <1>6, <2>1, <2>2, <2>3, complete_on_type, Literals, Zenon DEF wait_on_strand
  <2>5. QED
    BY <1>2, <1>6, <2>4 DEF wait_on_strand
<1>7. CASE cancel_wait
  <2>1. Head(strand).id \in Operation
    BY <1>0, <1>7, RunningHandler, HandlerShape, Literals DEF cancel_wait
  <2>2. [listener EXCEPT !.waiters = @ \ {Head(strand).id}] \in Listener
    BY <1>0, Zenon DEF Listener
  <2>3. listener' \in Listener
    BY <1>0, <1>7, <2>1, <2>2, complete_on_type, Literals DEF cancel_wait
  <2>4. QED
    BY <1>2, <1>7, <2>3, Zenon DEF cancel_wait
<1>8. CASE stop_on_strand
  <2>1. listener' \in Listener
    BY <1>0, <1>8, begin_stop_type, Literals DEF stop_on_strand
  <2>2. QED
    BY <1>2, <1>8, <2>1 DEF stop_on_strand
<1>9. CASE accepted
  <2> DEFINE ec   == Head(strand).ec
             done == [listener EXCEPT !.accept_pending = FALSE]
             id   == Len(listener.connections) + 1
             kept(first) == [done EXCEPT !.accept_errors = 0,
                                         !.connections = Append(@, new_connection(first)),
                                         !.sessions = @ \cup {id}]
             rejected == [record_diagnostic(done, "failed")
                            EXCEPT !.accept_errors = 0,
                                   !.connections = Append(@, rejected_connection)]
  <2>1. ec \in Error
    BY <1>0, <1>9, RunningHandler, HandlerShape, Literals DEF accepted
  <2>2. done \in Listener
    BY <1>0, Zenon DEF Listener
  <2>3. done.connections \in Seq(Connection) /\ id \in Nat \ {0}
    BY <1>0 DEF Listener
  <2>4. rejected_connection \in Connection
    BY DEF rejected_connection, Connection
  <2>5. ASSUME NEW first \in {"start", "force_close"}
        PROVE  new_connection(first) \in Connection
    BY DEF new_connection, Connection
  <2>6. \/ listener' = maybe_finish(done)
        \/ listener' = retry_accept(done, ec)
        \/ \E throws \in BOOLEAN :
             \/ listener' = accept_next(rejected, throws, "runtime_failure")
             \/ \E first \in {"start", "force_close"} :
                  listener' = accept_next(kept(first), throws, "runtime_failure")
    BY <1>9 DEF accepted
  <2> HIDE DEF ec, done, id
  <2>7. rejected \in Listener
    <3>1. record_diagnostic(done, "failed") \in Listener
      BY <2>2, record_diagnostic_type, Literals
    <3>2. record_diagnostic(done, "failed").connections \in Seq(Connection)
      BY <3>1 DEF Listener
    <3>3. Append(record_diagnostic(done, "failed").connections, rejected_connection) \in Seq(Connection)
      BY <3>2, <2>4
    <3>4. QED
      BY <3>1, <3>3, Zenon DEF Listener
  <2>8. ASSUME NEW first \in {"start", "force_close"}
        PROVE  kept(first) \in Listener
    <3>1. Append(done.connections, new_connection(first)) \in Seq(Connection)
      BY <2>3, <2>5
    <3>2. done.sessions \cup {id} \in SUBSET (Nat \ {0})
      BY <2>2, <2>3 DEF Listener
    <3>3. QED
      BY <2>2, <3>1, <3>2, Zenon DEF Listener
  <2> HIDE DEF kept, rejected
  <2>9. listener' \in Listener
    BY <2>1, <2>2, <2>6, <2>7, <2>8, maybe_finish_type, retry_accept_type, accept_next_type, Literals, Zenon
  <2>10. QED
    BY <1>2, <1>9, <2>9 DEF accepted
<1>10. CASE session_finished
  <2> DEFINE ec     == Head(strand).ec
             erased == [listener EXCEPT !.sessions = @ \ {Head(strand).id}]
             noted  == IF ec \in {"ok", "aborted"} THEN erased
                                                   ELSE record_diagnostic(erased, ec)
  <2>1. ec \in Error
    BY <1>0, <1>10, RunningHandler, HandlerShape, Literals DEF session_finished
  <2>2. erased \in Listener
    BY <1>0, Zenon DEF Listener
  <2>3. noted \in Listener
    BY <2>1, <2>2, record_diagnostic_type
  <2>4. \/ listener' = maybe_finish(noted)
        \/ \E throws \in BOOLEAN :
             listener' = maybe_finish(accept_next(noted, throws, "runtime_failure"))
    BY <1>10 DEF session_finished
  <2> HIDE DEF noted
  <2>5. listener' \in Listener
    BY <2>3, <2>4, maybe_finish_type, accept_next_type, Literals
  <2>6. QED
    BY <1>2, <1>10, <2>5 DEF session_finished
<1>11. CASE retry_timer_handler
  <2>1. listener' \in Listener
    BY <1>0, <1>11, maybe_finish_type, accept_next_type, Literals DEF retry_timer_handler
  <2>2. QED
    BY <1>2, <1>11, <2>1 DEF retry_timer_handler
<1>12. CASE shutdown_timer_handler
  <2>1. listener' \in Listener
    BY <1>0, <1>12, post_force_close_type, record_diagnostic_type, Literals
       DEF shutdown_timer_handler
  <2>2. QED
    BY <1>2, <1>12, <2>1 DEF shutdown_timer_handler
<1>13. QED
  BY <1>3, <1>4, <1>5, <1>6, <1>7, <1>8, <1>9, <1>10, <1>11, <1>12 DEF Strand

\* Replacing the record of one connection keeps the listener well typed.
LEMMA ConnectionUpdateType ==
  ASSUME NEW l \in Listener, NEW c \in 1..Len(l.connections), NEW r \in Connection
  PROVE  [l EXCEPT !.connections[c] = r] \in Listener
<1>1. l.connections \in Seq(Connection)
  BY DEF Listener
<1>2. [l.connections EXCEPT ![c] = r] \in Seq(Connection)
  BY <1>1
<1>3. QED
  BY <1>2, Zenon DEF Listener

\* connection_state::finish keeps the types.
LEMMA connection_finish_type ==
  ASSUME TypeOK, NEW c \in 1..Len(listener.connections), NEW r \in Connection,
         NEW ec \in SessionResult, connection_finish(c, r, ec)
  PROVE  TypeOK'
<1>1. listener \in Listener /\ strand \in Seq(Handler)
  BY DEF TypeOK
<1>2. c \in Nat \ {0}
  BY <1>1 DEF Listener
<1>3. [r EXCEPT !.finished = TRUE] \in Connection
  BY Zenon DEF Connection
<1>4. listener' \in Listener
  BY <1>1, <1>3, ConnectionUpdateType, Zenon DEF connection_finish
<1>5. strand' \in Seq(Handler)
  BY <1>1, <1>2, PostedHandlers DEF connection_finish
<1>6. QED
  BY <1>4, <1>5 DEF TypeOK, connection_finish

\* The handlers of the connection strands keep the types.
LEMMA SessionsType ==
  ASSUME TypeOK, Sessions
  PROVE  TypeOK'
<1>0. listener \in Listener /\ listener.connections \in Seq(Connection)
  BY DEF TypeOK, Listener
<1>1. PICK c \in 1..Len(listener.connections) :
        \/ ConnectionStrand(c)
        \/ \E ec \in SessionResult : session_completes(c, ec)
  BY DEF Sessions
<1>2. connection(c) \in Connection
  BY <1>0 DEF connection
<1>3. [connection(c) EXCEPT !.session = "returned"] \in Connection
  BY <1>2 DEF Connection
<1>4. connection(c).queue # << >> =>
        /\ popped(c) \in Connection
        /\ [popped(c) EXCEPT !.session = "running"] \in Connection
        /\ [popped(c) EXCEPT !.session = "returned"] \in Connection
  <2>1. HAVE connection(c).queue # << >>
  <2>2. Tail(connection(c).queue) \in Seq({"start", "request_stop", "force_close"})
    BY <1>2, <2>1 DEF Connection
  <2>3. popped(c) \in Connection
    BY <1>2, <2>2 DEF popped, Connection
  <2>4. QED
    BY <2>3 DEF Connection
<1>5. CASE connection_start(c)
  <2>1. connection(c).queue # << >>
    BY <1>5 DEF connection_start, connection_runs
  <2>2. CASE connection_finish(c, [popped(c) EXCEPT !.session = "returned"], "failed")
    BY <1>4, <2>1, <2>2, connection_finish_type DEF SessionResult
  <2>3. CASE /\ listener' = [listener EXCEPT !.connections[c] =
                               [popped(c) EXCEPT !.session = "running"]]
             /\ UNCHANGED <<strand, submitted, cancelled, stopper>>
    <3>1. listener' \in Listener
      BY <1>0, <1>4, <2>1, <2>3, ConnectionUpdateType, Zenon
    <3>2. QED
      BY <2>3, <3>1 DEF TypeOK
  <2>4. QED
    BY <1>5, <2>2, <2>3 DEF connection_start
<1>6. CASE connection_request_stop(c)
  <2>1. listener' \in Listener
    BY <1>0, <1>4, <1>6, ConnectionUpdateType DEF connection_request_stop, connection_runs
  <2>2. QED
    BY <1>6, <2>1 DEF connection_request_stop, TypeOK
<1>7. CASE connection_force_close(c)
  BY <1>4, <1>7, connection_finish_type
     DEF connection_force_close, connection_runs, SessionResult
<1>8. ASSUME NEW ec \in SessionResult, session_completes(c, ec) PROVE TypeOK'
  BY <1>3, <1>8, connection_finish_type DEF session_completes
<1>9. QED
  BY <1>1, <1>5, <1>6, <1>7, <1>8 DEF ConnectionStrand

\* TypeOK is an invariant: no handler leaves a member of the listener or an
\* entry of a strand outside its type, however the handlers interleave.
THEOREM TypeCorrect == Spec => []TypeOK
<1>1. Init => TypeOK
  <2> SUFFICES ASSUME Init PROVE TypeOK
    OBVIOUS
  <2>1. [i \in Operation |-> << >>] \in [Operation -> Seq(Error)]
    OBVIOUS
  <2>2. listener \in Listener
    BY <2>1, Literals DEF Init, Listener, State, StopReason
  <2>3. QED
    BY <2>2 DEF Init, TypeOK
<1>2. TypeOK /\ [Next]_vars => TypeOK'
  <2>1. ASSUME TypeOK, UNCHANGED vars PROVE TypeOK'
    BY <2>1 DEF vars, TypeOK
  <2>2. QED
    BY <2>1, ClientType, InputOutputType, StrandType, SessionsType DEF Next
<1>3. QED
  BY <1>1, <1>2, PTL DEF Spec

-----------------------------------------------------------------------------
(***************************************************************************)
(* The inductive invariant.  It is a predicate of the listener record, so  *)
(* that it can be followed through the call tree of a handler, and one     *)
(* fact that ties the strand to it.                                        *)
(***************************************************************************)

\* A connection that is not finished is in m_sessions.
Tracked(l) ==
  \A c \in 1..Len(l.connections) : ~l.connections[c].finished => c \in l.sessions

\* A reason to stop and the error that goes with it.
Cause(ec, reason) ==
  /\ reason \in {"requested", "startup_failure", "runtime_failure"}
  /\ reason = "requested" <=> ec = "ok"

\* What holds even between the calls a handler makes.
Settled(l) ==
  /\ Tracked(l)
  /\ l.state \in {"idle", "starting", "stopped"} => l.sessions = {} /\ ~l.accept_pending
  /\ l.state \in {"idle", "stopped"} => l.acceptor = "closed"
  /\ l.state = "stopped" => l.waiters = {}
  /\ l.state \in {"stopping", "stopped"} => Cause(l.terminal_error, l.stop_reason)
  /\ l.state = "stopped" => l.terminal_error = "ok" \/ l.last_error # "ok"

\* What holds when a handler returns.
Safe(l) ==
  /\ Settled(l)
  /\ l.state = "stopping" => l.accept_pending \/ l.sessions # {}

\* session_finished is posted by connections that are finished.
Reported(l, s) ==
  \A k \in 1..Len(s) : s[k].op = "session_finished" =>
     /\ s[k].id \in 1..Len(l.connections)
     /\ l.connections[s[k].id].finished

\* A listener is starting only while its start handler holds the strand.
StartHolds(l, s) == l.state = "starting" => s # << >> /\ Head(s).op = "start"

IInv == Safe(listener) /\ Reported(listener, strand) /\ StartHolds(listener, strand)

\* How a handler may change a listener: connections are not forgotten and do
\* not come back to life, the cause of a stop is not replaced, and only
\* start_on_strand starts.
Grows(l, m) ==
  /\ Len(l.connections) <= Len(m.connections)
  /\ \A c \in 1..Len(l.connections) :
       l.connections[c].finished => m.connections[c].finished

CauseKept(l, m) ==
  l.state \in {"stopping", "stopped"} =>
    /\ m.state \in {"stopping", "stopped"}
    /\ m.stop_reason = l.stop_reason
    /\ m.terminal_error = l.terminal_error

NotStarted(l, m) == m.state = "starting" => l.state = "starting"

Evolves(l, m) == Grows(l, m) /\ CauseKept(l, m) /\ NotStarted(l, m)

\* Equal but for timers, completions and what is in flight.
SameCore(l, m) ==
  /\ m.state = l.state
  /\ m.terminal_error = l.terminal_error
  /\ m.stop_reason = l.stop_reason
  /\ m.accept_pending = l.accept_pending
  /\ m.connections = l.connections
  /\ m.sessions = l.sessions
  /\ m.waiters = l.waiters

\* The helpers on I/O objects leave the rest alone.
LEMMA SameCoreHelpers ==
  ASSUME NEW l \in Listener
  PROVE  /\ SameCore(l, close_acceptor(l))
         /\ close_acceptor(l).acceptor = "closed"
         /\ close_acceptor(l).last_error = l.last_error
         /\ SameCore(l, cancel_retry_timer(l))
         /\ cancel_retry_timer(l).acceptor = l.acceptor
         /\ cancel_retry_timer(l).last_error = l.last_error
         /\ SameCore(l, cancel_shutdown_timer(l))
         /\ cancel_shutdown_timer(l).acceptor = l.acceptor
         /\ cancel_shutdown_timer(l).last_error = l.last_error
         /\ SameCore(l, arm_shutdown_timer(l))
         /\ arm_shutdown_timer(l).acceptor = l.acceptor
         /\ arm_shutdown_timer(l).last_error = l.last_error
<1> USE DEF SameCore, Listener
<1>1. /\ SameCore(l, close_acceptor(l))
      /\ close_acceptor(l).acceptor = "closed"
      /\ close_acceptor(l).last_error = l.last_error
  BY DEF close_acceptor
<1>2. /\ SameCore(l, cancel_retry_timer(l))
      /\ cancel_retry_timer(l).acceptor = l.acceptor
      /\ cancel_retry_timer(l).last_error = l.last_error
  BY DEF cancel_retry_timer
<1>3. /\ SameCore(l, cancel_shutdown_timer(l))
      /\ cancel_shutdown_timer(l).acceptor = l.acceptor
      /\ cancel_shutdown_timer(l).last_error = l.last_error
  BY DEF cancel_shutdown_timer
<1>4. /\ SameCore(l, arm_shutdown_timer(l))
      /\ arm_shutdown_timer(l).acceptor = l.acceptor
      /\ arm_shutdown_timer(l).last_error = l.last_error
  BY DEF arm_shutdown_timer
<1>5. QED
  BY <1>1, <1>2, <1>3, <1>4

\* The invariant only looks at the core, the acceptor and the last error.
LEMMA SameCoreSettled ==
  ASSUME NEW l \in Listener, NEW m \in Listener, SameCore(l, m),
         m.acceptor \in {l.acceptor, "closed"},
         m.last_error = l.last_error \/ m.last_error # "ok"
  PROVE  /\ Settled(l) => Settled(m)
         /\ Safe(l) => Safe(m)
         /\ Evolves(l, m)
<1>1. Tracked(l) => Tracked(m)
  BY DEF SameCore, Tracked
<1>2. Settled(l) => Settled(m)
  BY <1>1 DEF SameCore, Settled
<1>3. Grows(l, m)
  <2>1. Len(l.connections) \in Nat
    BY DEF Listener
  <2>2. QED
    BY <2>1 DEF SameCore, Grows
<1>4. CauseKept(l, m)
  BY DEF SameCore, CauseKept
<1>5. QED
  BY <1>2, <1>3, <1>4 DEF Safe, Evolves, NotStarted, SameCore

\* Evolves composes along a chain of calls.
LEMMA EvolvesTransitive ==
  ASSUME NEW l \in Listener, NEW m \in Listener, NEW n \in Listener,
         Evolves(l, m), Evolves(m, n)
  PROVE  Evolves(l, n)
<1>1. /\ Len(l.connections) \in Nat
      /\ Len(m.connections) \in Nat
      /\ Len(n.connections) \in Nat
  BY DEF Listener
<1>2. Grows(l, n)
  BY <1>1 DEF Evolves, Grows
<1>3. CauseKept(l, n)
  BY DEF Evolves, CauseKept
<1>4. QED
  BY <1>2, <1>3 DEF Evolves, NotStarted

-----------------------------------------------------------------------------
(* The invariant along the call tree *)

\* finish may be called once nothing is left to drain.
LEMMA finish_safe ==
  ASSUME NEW l \in Listener, NEW ec \in Error, NEW reason \in StopReason,
         Settled(l), l.sessions = {}, ~l.accept_pending, Cause(ec, reason)
  PROVE  /\ Safe(finish(l, ec, reason))
         /\ Grows(l, finish(l, ec, reason))
         /\ finish(l, ec, reason).state = "stopped"
<1> DEFINE c == cancel_shutdown_timer(cancel_retry_timer(close_acceptor(l)))
           m == finish(l, ec, reason)
<1>0. c \in Listener
  BY close_acceptor_type, cancel_retry_timer_type, cancel_shutdown_timer_type
<1>1. SameCore(l, c) /\ c.acceptor = "closed" /\ c.last_error = l.last_error
  <2>1. close_acceptor(l) \in Listener /\ cancel_retry_timer(close_acceptor(l)) \in Listener
    BY close_acceptor_type, cancel_retry_timer_type
  <2>2. QED
    BY <2>1, SameCoreHelpers DEF SameCore
<1>2. CASE l.state = "stopped"
  <2>1. m = l
    BY <1>2 DEF finish
  <2>2. Safe(l)
    BY <1>2 DEF Safe
  <2>3. Grows(l, l)
    BY DEF Grows, Listener
  <2>4. QED
    BY <1>2, <2>1, <2>2, <2>3
<1>3. CASE l.state # "stopped"
  <2>1. m = [c EXCEPT !.terminal_error = ec,
                      !.stop_reason = reason,
                      !.last_error = IF @ = "ok" THEN ec ELSE @,
                      !.state = "stopped",
                      !.completions = [i \in Operation |->
                         IF i \in l.waiters THEN Append(l.completions[i], ec)
                                            ELSE l.completions[i]],
                      !.waiters = {}]
    BY <1>3 DEF finish
  <2> HIDE DEF c, m
  <2>2. /\ m.state = "stopped" /\ m.terminal_error = ec /\ m.stop_reason = reason
        /\ m.waiters = {} /\ m.sessions = {} /\ ~m.accept_pending
        /\ m.acceptor = "closed" /\ m.connections = l.connections
        /\ ec = "ok" \/ m.last_error # "ok"
    BY <1>0, <1>1, <2>1 DEF SameCore, Listener
  <2>3. Tracked(m)
    BY <2>2 DEF Settled, Tracked
  <2>4. Safe(m)
    BY <2>2, <2>3 DEF Safe, Settled
  <2>5. Grows(l, m)
    BY <2>2 DEF Grows, Listener
  <2>6. QED
    BY <2>2, <2>4, <2>5 DEF m
<1>4. QED
  BY <1>2, <1>3

\* maybe_finish is what turns Settled into Safe.
LEMMA maybe_finish_safe ==
  ASSUME NEW l \in Listener, Settled(l)
  PROVE  Safe(maybe_finish(l)) /\ Evolves(l, maybe_finish(l))
<1>1. CASE l.state = "stopping" /\ ~l.accept_pending /\ l.sessions = {}
  <2> DEFINE m == finish(l, l.terminal_error, l.stop_reason)
  <2>1. maybe_finish(l) = m
    BY <1>1 DEF maybe_finish
  <2>2. /\ l.terminal_error \in Error /\ l.stop_reason \in StopReason
        /\ Cause(l.terminal_error, l.stop_reason)
    BY <1>1 DEF Listener, Settled
  <2>3. Safe(m) /\ Grows(l, m) /\ m.state = "stopped"
    BY <1>1, <2>2, finish_safe
  <2>4. CauseKept(l, m)
    <3>1. cancel_shutdown_timer(cancel_retry_timer(close_acceptor(l))) \in Listener
      BY close_acceptor_type, cancel_retry_timer_type, cancel_shutdown_timer_type
    <3>2. /\ m.state = "stopped" /\ m.stop_reason = l.stop_reason
          /\ m.terminal_error = l.terminal_error
      BY <1>1, <3>1 DEF finish, Listener
    <3>3. QED
      BY <3>2 DEF CauseKept
  <2>5. QED
    BY <2>1, <2>3, <2>4 DEF Evolves, NotStarted
<1>2. CASE ~(l.state = "stopping" /\ ~l.accept_pending /\ l.sessions = {})
  <2>1. maybe_finish(l) = l
    BY <1>2 DEF maybe_finish
  <2>2. Safe(l)
    BY <1>2 DEF Safe
  <2>3. Evolves(l, l)
    BY DEF Evolves, NotStarted, Grows, CauseKept, Listener
  <2>4. QED
    BY <2>1, <2>2, <2>3
<1>3. QED
  BY <1>1, <1>2

\* Completing an operation does not touch the invariant.
LEMMA complete_on_safe ==
  ASSUME NEW l \in Listener, NEW i \in Operation, NEW ec \in Error
  PROVE  /\ Safe(l) => Safe(complete_on(l, i, ec))
         /\ Settled(l) => Settled(complete_on(l, i, ec))
         /\ Evolves(l, complete_on(l, i, ec))
         /\ complete_on(l, i, ec).state = l.state
<1> DEFINE m == complete_on(l, i, ec)
<1>1. m \in Listener
  BY complete_on_type
<1>2. SameCore(l, m) /\ m.acceptor = l.acceptor /\ m.last_error = l.last_error
  BY DEF complete_on, SameCore, Listener
<1> HIDE DEF m
<1>3. (Safe(l) => Safe(m)) /\ (Settled(l) => Settled(m)) /\ Evolves(l, m) /\ m.state = l.state
  BY <1>1, <1>2, SameCoreSettled DEF SameCore
<1>4. QED
  BY <1>3 DEF m

\* Recording an error does not touch the invariant.
LEMMA record_diagnostic_safe ==
  ASSUME NEW l \in Listener, NEW ec \in Error, ec # "ok"
  PROVE  /\ Safe(l) => Safe(record_diagnostic(l, ec))
         /\ Settled(l) => Settled(record_diagnostic(l, ec))
         /\ Evolves(l, record_diagnostic(l, ec))
         /\ record_diagnostic(l, ec).state = l.state
<1> DEFINE m == record_diagnostic(l, ec)
<1>1. m \in Listener
  BY record_diagnostic_type
<1>2. SameCore(l, m) /\ m.acceptor = l.acceptor /\ m.last_error = ec
  BY DEF record_diagnostic, SameCore, Listener
<1> HIDE DEF m
<1>3. (Safe(l) => Safe(m)) /\ (Settled(l) => Settled(m)) /\ Evolves(l, m) /\ m.state = l.state
  BY <1>1, <1>2, SameCoreSettled DEF SameCore
<1>4. QED
  BY <1>3 DEF m

\* Posting to connections neither finishes nor forgets them.
LEMMA PostSafe ==
  ASSUME NEW l \in Listener, NEW m \in Listener,
         NEW f \in [1..Len(l.connections) -> Connection],
         m = [l EXCEPT !.connections = f],
         \A c \in 1..Len(l.connections) : f[c].finished = l.connections[c].finished
  PROVE  /\ Safe(l) => Safe(m)
         /\ Settled(l) => Settled(m)
         /\ Evolves(l, m)
<1>1. Len(l.connections) \in Nat /\ m.connections = f
  BY DEF Listener
<1>2. Len(m.connections) = Len(l.connections)
  BY <1>1
<1>3. Tracked(l) => Tracked(m)
  <2>1. m.sessions = l.sessions
    BY DEF Listener
  <2>2. QED
    BY <1>1, <1>2, <2>1 DEF Tracked
<1>4. /\ m.state = l.state /\ m.sessions = l.sessions /\ m.waiters = l.waiters
      /\ m.accept_pending = l.accept_pending /\ m.acceptor = l.acceptor
      /\ m.terminal_error = l.terminal_error /\ m.stop_reason = l.stop_reason
      /\ m.last_error = l.last_error
  BY DEF Listener
<1>5. Settled(l) => Settled(m)
  BY <1>3, <1>4 DEF Settled
<1>6. Safe(l) => Safe(m)
  BY <1>4, <1>5 DEF Safe
<1>7. Evolves(l, m)
  BY <1>1, <1>2, <1>4 DEF Evolves, NotStarted, Grows, CauseKept
<1>8. QED
  BY <1>5, <1>6, <1>7

\* Asking every session to stop does not touch the invariant.
LEMMA post_request_stop_safe ==
  ASSUME NEW l \in Listener
  PROVE  /\ Settled(l) => Settled(post_request_stop(l))
         /\ Evolves(l, post_request_stop(l))
<1> DEFINE f == [c \in 1..Len(l.connections) |->
                   IF c \in l.sessions
                   THEN [l.connections[c] EXCEPT !.queue = Append(@, "request_stop"),
                                                 !.asked = TRUE]
                   ELSE l.connections[c]]
<1>1. \A c \in 1..Len(l.connections) : l.connections[c] \in Connection
  BY DEF Listener
<1>2. f \in [1..Len(l.connections) -> Connection]
  BY <1>1, PostType, Zenon
<1>3. \A c \in 1..Len(l.connections) : f[c].finished = l.connections[c].finished
  BY <1>1, Zenon DEF Connection
<1>4. post_request_stop(l) = [l EXCEPT !.connections = f]
  BY DEF post_request_stop
<1> HIDE DEF f
<1>5. QED
  BY <1>2, <1>3, <1>4, PostSafe, post_request_stop_type

\* Force-closing every session does not touch the invariant.
LEMMA post_force_close_safe ==
  ASSUME NEW l \in Listener
  PROVE  /\ Safe(l) => Safe(post_force_close(l))
         /\ Evolves(l, post_force_close(l))
<1> DEFINE f == [c \in 1..Len(l.connections) |->
                   IF c \in l.sessions
                   THEN [l.connections[c] EXCEPT !.queue = Append(@, "force_close")]
                   ELSE l.connections[c]]
<1>1. \A c \in 1..Len(l.connections) : l.connections[c] \in Connection
  BY DEF Listener
<1>2. f \in [1..Len(l.connections) -> Connection]
  BY <1>1, PostType, Zenon
<1>3. \A c \in 1..Len(l.connections) : f[c].finished = l.connections[c].finished
  BY <1>1 DEF Connection
<1>4. post_force_close(l) = [l EXCEPT !.connections = f]
  BY DEF post_force_close
<1> HIDE DEF f
<1>5. QED
  BY <1>2, <1>3, <1>4, PostSafe, post_force_close_type

\* begin_stop leads from a safe state to a safe state and keeps an earlier cause.
LEMMA begin_stop_safe ==
  ASSUME NEW l \in Listener, NEW ec \in Error, NEW reason \in StopReason,
         Safe(l), Cause(ec, reason)
  PROVE  /\ Safe(begin_stop(l, ec, reason))
         /\ Evolves(l, begin_stop(l, ec, reason))
         /\ begin_stop(l, ec, reason).state \in {"stopping", "stopped"}
<1> DEFINE e == enter_stopping(l, ec, reason)
<1>1. e \in Listener
  BY enter_stopping_type
<1>2. /\ e.state = "stopping" /\ e.terminal_error = ec /\ e.stop_reason = reason
      /\ e.connections = l.connections /\ e.sessions = l.sessions
      /\ e.accept_pending = l.accept_pending
  BY DEF enter_stopping, Listener
<1>3. Settled(e) /\ Grows(l, e)
  <2>1. Tracked(e)
    BY <1>2 DEF Safe, Settled, Tracked
  <2>2. Len(l.connections) \in Nat
    BY DEF Listener
  <2>3. QED
    BY <1>2, <2>1, <2>2 DEF Settled, Grows
<1> HIDE DEF e
<1>4. CASE l.state = "idle"
  <2>1. begin_stop(l, ec, reason) = finish(e, ec, reason)
    BY <1>4 DEF begin_stop, e
  <2>2. Safe(finish(e, ec, reason)) /\ Grows(e, finish(e, ec, reason))
        /\ finish(e, ec, reason).state = "stopped"
    BY <1>1, <1>2, <1>3, <1>4, finish_safe DEF Safe, Settled
  <2>3. Grows(l, finish(e, ec, reason))
    <3>1. finish(e, ec, reason) \in Listener
      BY <1>1, finish_type
    <3>2. QED
      BY <1>1, <1>3, <2>2, <3>1 DEF Grows, Listener
  <2>4. QED
    BY <1>4, <2>1, <2>2, <2>3 DEF Evolves, NotStarted, CauseKept
<1>5. CASE l.state \in {"starting", "running"}
  <2> DEFINE a == close_acceptor(e)
             b == cancel_retry_timer(a)
             c == post_request_stop(b)
             d == arm_shutdown_timer(c)
  <2>1. begin_stop(l, ec, reason) = maybe_finish(d)
    BY <1>5 DEF begin_stop, e
  <2>2. a \in Listener /\ Settled(a) /\ Evolves(e, a)
    BY <1>1, <1>3, close_acceptor_type, SameCoreHelpers, SameCoreSettled
  <2> HIDE DEF a
  <2>3. b \in Listener /\ Settled(b) /\ Evolves(a, b)
    BY <2>2, cancel_retry_timer_type, SameCoreHelpers, SameCoreSettled
  <2> HIDE DEF b
  <2>4. c \in Listener /\ Settled(c) /\ Evolves(b, c)
    BY <2>3, post_request_stop_type, post_request_stop_safe
  <2> HIDE DEF c
  <2>5. d \in Listener /\ Settled(d) /\ Evolves(c, d)
    BY <2>4, arm_shutdown_timer_type, SameCoreHelpers, SameCoreSettled
  <2> HIDE DEF d
  <2>6. maybe_finish(d) \in Listener /\ Safe(maybe_finish(d)) /\ Evolves(d, maybe_finish(d))
    BY <2>5, maybe_finish_type, maybe_finish_safe
  <2>7. Evolves(e, maybe_finish(d))
    BY <1>1, <2>2, <2>3, <2>4, <2>5, <2>6, EvolvesTransitive
  <2>8. Grows(l, maybe_finish(d))
    BY <1>1, <1>3, <2>6, <2>7 DEF Evolves, Grows, Listener
  <2>9. maybe_finish(d).state \in {"stopping", "stopped"}
    BY <1>2, <2>7 DEF Evolves, CauseKept
  <2>10. QED
    BY <1>5, <2>1, <2>6, <2>8, <2>9 DEF Evolves, NotStarted, CauseKept
<1>6. CASE l.state \notin {"idle", "starting", "running"}
  <2>1. begin_stop(l, ec, reason) = l
    BY <1>6 DEF begin_stop
  <2>2. Evolves(l, l)
    BY DEF Evolves, NotStarted, Grows, CauseKept, Listener
  <2>3. QED
    BY <1>6, <2>1, <2>2 DEF Listener, State
<1>7. QED
  BY <1>4, <1>5, <1>6

\* accept_next leads from a safe state to a safe state.  While starting it
\* makes an accept pending before the listener is running, so that case is
\* left to start_on_strand_opens.
LEMMA accept_next_safe ==
  ASSUME NEW l \in Listener, NEW throws \in BOOLEAN,
         NEW reason \in {"startup_failure", "runtime_failure"},
         Safe(l), throws \/ l.state # "starting"
  PROVE  /\ Safe(accept_next(l, throws, reason))
         /\ Evolves(l, accept_next(l, throws, reason))
<1> DEFINE m == accept_next(l, throws, reason)
           r == record_diagnostic(l, "failed")
           p == [l EXCEPT !.accept_pending = TRUE, !.acceptor = "accepting"]
<1>1. /\ Safe(maybe_finish(l)) /\ Evolves(l, maybe_finish(l))
  BY maybe_finish_safe DEF Safe
<1>2. Evolves(l, l)
  BY DEF Evolves, NotStarted, Grows, CauseKept, Listener
<1>3. /\ Safe(begin_stop(r, "failed", reason))
      /\ Evolves(l, begin_stop(r, "failed", reason))
  <2>1. r \in Listener /\ Safe(r) /\ Evolves(l, r)
    BY record_diagnostic_type, record_diagnostic_safe, Literals
  <2>2. Cause("failed", reason) /\ reason \in StopReason
    BY DEF Cause, StopReason
  <2> HIDE DEF r
  <2>3. begin_stop(r, "failed", reason) \in Listener
    BY <2>1, <2>2, begin_stop_type, Literals
  <2>4. QED
    BY <2>1, <2>2, <2>3, begin_stop_safe, EvolvesTransitive, Literals
<1>4. ASSUME l.state = "running"
      PROVE  Safe(p) /\ Evolves(l, p)
  <2>1. /\ p.state = "running" /\ p.connections = l.connections
        /\ p.sessions = l.sessions
    BY <1>4 DEF Listener
  <2>2. Tracked(p)
    BY <2>1 DEF Safe, Settled, Tracked
  <2>3. Len(l.connections) \in Nat
    BY DEF Listener
  <2>4. QED
    BY <1>4, <2>1, <2>2, <2>3 DEF Safe, Settled, Evolves, NotStarted, Grows, CauseKept
<1>5. \/ m = maybe_finish(l)
      \/ m = l
      \/ m = begin_stop(r, "failed", reason)
      \/ m = p /\ l.state = "running"
  BY DEF accept_next
<1> HIDE DEF m, r, p
<1>6. Safe(m) /\ Evolves(l, m)
  BY <1>1, <1>2, <1>3, <1>4, <1>5
<1>7. QED
  BY <1>6 DEF m

\* retry_accept leads from a safe running state to a safe state.
LEMMA retry_accept_safe ==
  ASSUME NEW l \in Listener, NEW ec \in Error, ec # "ok", Safe(l), l.state = "running"
  PROVE  /\ Safe(retry_accept(l, ec))
         /\ Evolves(l, retry_accept(l, ec))
<1> DEFINE failed == record_diagnostic(l, ec)
           counted == [failed EXCEPT !.accept_errors = @ + 1]
<1>1. /\ failed \in Listener /\ Safe(failed) /\ Evolves(l, failed)
      /\ failed.state = "running"
  BY record_diagnostic_type, record_diagnostic_safe
<1> HIDE DEF failed
<1>2. counted \in Listener
  <2>1. failed.accept_errors + 1 \in Nat
    BY <1>1 DEF Listener
  <2>2. QED
    BY <1>1, <2>1, Zenon DEF Listener
<1>3. Safe(counted) /\ Evolves(failed, counted)
  <2>1. /\ SameCore(failed, counted) /\ counted.acceptor = failed.acceptor
        /\ counted.last_error = failed.last_error
    BY <1>1 DEF SameCore, Listener
  <2> HIDE DEF counted
  <2>2. QED
    BY <1>1, <1>2, <2>1, SameCoreSettled
<1> HIDE DEF counted
<1>4. Cause(ec, "runtime_failure") /\ "runtime_failure" \in StopReason
  BY DEF Cause, StopReason
<1>5. arm_retry_timer(counted) \in Listener /\ Safe(arm_retry_timer(counted))
      /\ Evolves(counted, arm_retry_timer(counted))
  <2> DEFINE c == cancel_retry_timer(counted)
             m == arm_retry_timer(counted)
  <2>1. c \in Listener /\ m \in Listener
    BY <1>2, cancel_retry_timer_type, arm_retry_timer_type
  <2>2. SameCore(counted, c) /\ c.acceptor = counted.acceptor /\ c.last_error = counted.last_error
    BY <1>2, SameCoreHelpers
  <2>3. m = [c EXCEPT !.retry_timer = TRUE]
    BY DEF arm_retry_timer
  <2> HIDE DEF c, m
  <2>4. SameCore(counted, m) /\ m.acceptor = counted.acceptor /\ m.last_error = counted.last_error
    BY <2>1, <2>2, <2>3 DEF SameCore, Listener
  <2>5. Safe(m) /\ Evolves(counted, m)
    BY <1>2, <1>3, <2>1, <2>4, SameCoreSettled
  <2>6. QED
    BY <2>1, <2>5 DEF m
<1>6. /\ begin_stop(failed, ec, "runtime_failure") \in Listener
      /\ Safe(begin_stop(failed, ec, "runtime_failure"))
      /\ Evolves(failed, begin_stop(failed, ec, "runtime_failure"))
      /\ begin_stop(counted, ec, "runtime_failure") \in Listener
      /\ Safe(begin_stop(counted, ec, "runtime_failure"))
      /\ Evolves(counted, begin_stop(counted, ec, "runtime_failure"))
  BY <1>1, <1>2, <1>3, <1>4, begin_stop_type, begin_stop_safe
<1>7. \/ retry_accept(l, ec) = begin_stop(failed, ec, "runtime_failure")
      \/ retry_accept(l, ec) = begin_stop(counted, ec, "runtime_failure")
      \/ retry_accept(l, ec) = arm_retry_timer(counted)
  BY DEF retry_accept, failed, counted
<1>8. QED
  BY <1>1, <1>2, <1>3, <1>5, <1>6, <1>7, EvolvesTransitive

-----------------------------------------------------------------------------
(* The invariant along the actions *)

\* Posted session_finished handlers stay accounted for as the listener grows
\* and as the strand takes handlers off and on.
LEMMA ReportedKept ==
  ASSUME NEW l \in Listener, NEW m \in Listener, NEW s \in Seq(Handler),
         Reported(l, s), Grows(l, m)
  PROVE  /\ Reported(m, s)
         /\ s # << >> => Reported(m, Tail(s))
         /\ \A h \in Handler :
              (h.op = "session_finished" =>
                 h.id \in 1..Len(m.connections) /\ m.connections[h.id].finished)
              => Reported(m, Append(s, h))
<1>0. Len(l.connections) \in Nat /\ Len(m.connections) \in Nat /\ Len(s) \in Nat
  BY DEF Listener
<1>1. Reported(m, s)
  BY <1>0 DEF Reported, Grows
<1>2. ASSUME s # << >> PROVE Reported(m, Tail(s))
  <2>1. \A k \in 1..Len(Tail(s)) : k + 1 \in 1..Len(s) /\ Tail(s)[k] = s[k + 1]
    BY <1>0, <1>2
  <2>2. QED
    BY <1>1, <2>1 DEF Reported
<1>3. ASSUME NEW h \in Handler,
             h.op = "session_finished" =>
               h.id \in 1..Len(m.connections) /\ m.connections[h.id].finished
      PROVE  Reported(m, Append(s, h))
  <2>1. \A k \in 1..Len(Append(s, h)) :
          (k \in 1..Len(s) /\ Append(s, h)[k] = s[k]) \/ Append(s, h)[k] = h
    BY <1>0
  <2>2. QED
    BY <1>1, <1>3, <2>1 DEF Reported
<1>4. QED
  BY <1>1, <1>2, <1>3

\* Posting does not change who holds the strand.
LEMMA StartHoldsAppend ==
  ASSUME NEW l, NEW s \in Seq(Handler), NEW h \in Handler, StartHolds(l, s)
  PROVE  StartHolds(l, Append(s, h))
<1>1. ASSUME s # << >> PROVE Append(s, h) # << >> /\ Head(Append(s, h)) = Head(s)
  BY <1>1
<1>2. QED
  BY <1>1 DEF StartHolds

\* Client calls post handlers and leave the listener alone.
LEMMA ClientSafe ==
  ASSUME TypeOK, IInv, Client
  PROVE  IInv' /\ listener' = listener
<1>0. listener \in Listener /\ strand \in Seq(Handler) /\ Grows(listener, listener)
  BY DEF TypeOK, Grows, Listener
<1>1. SUFFICES /\ listener' = listener
               /\ Reported(listener, strand') /\ StartHolds(listener, strand')
  BY DEF IInv
<1>2. ASSUME NEW h \in Handler, h.op # "session_finished", strand' = Append(strand, h)
      PROVE  Reported(listener, strand') /\ StartHolds(listener, strand')
  BY <1>0, <1>2, ReportedKept, StartHoldsAppend DEF IInv
<1>3. ASSUME UNCHANGED strand
      PROVE  Reported(listener, strand') /\ StartHolds(listener, strand')
  BY <1>3 DEF IInv
<1>4. ASSUME NEW i \in Starts, do_async_start(i)
      PROVE  listener' = listener /\ Reported(listener, strand') /\ StartHolds(listener, strand')
  BY <1>2, <1>4, PostedHandlers DEF do_async_start
<1>5. ASSUME NEW i \in Starts, CancelStart(i)
      PROVE  listener' = listener /\ Reported(listener, strand') /\ StartHolds(listener, strand')
  BY <1>3, <1>5 DEF CancelStart
<1>6. ASSUME NEW i \in Waits, do_async_wait(i)
      PROVE  listener' = listener /\ Reported(listener, strand') /\ StartHolds(listener, strand')
  BY <1>2, <1>6, PostedHandlers DEF do_async_wait
<1>7. ASSUME NEW i \in Waits, CancelWait(i)
      PROVE  listener' = listener /\ Reported(listener, strand') /\ StartHolds(listener, strand')
  BY <1>2, <1>7, PostedHandlers DEF CancelWait
<1>8. ASSUME NEW t \in Stoppers, request_stop(t)
      PROVE  listener' = listener /\ Reported(listener, strand') /\ StartHolds(listener, strand')
  BY <1>3, <1>8 DEF request_stop
<1>9. ASSUME NEW t \in Stoppers, post_stop(t)
      PROVE  listener' = listener /\ Reported(listener, strand') /\ StartHolds(listener, strand')
  BY <1>2, <1>9, PostedHandlers DEF post_stop
<1>10. QED
  BY <1>4, <1>5, <1>6, <1>7, <1>8, <1>9 DEF Client

\* Completions on their way to the strand do not touch the invariant.
LEMMA InputOutputSafe ==
  ASSUME TypeOK, IInv, InputOutput
  PROVE  IInv' /\ CauseKept(listener, listener')
<1>0. /\ listener \in Listener /\ listener' \in Listener /\ strand \in Seq(Handler)
      /\ Safe(listener) /\ Reported(listener, strand)
  BY InputOutputType DEF TypeOK, IInv
<1>1. SUFFICES /\ Safe(listener') /\ Evolves(listener, listener')
               /\ \/ strand' = strand
                  \/ \E c \in Completion : strand' = Append(strand, c)
  <2>1. \A c \in Completion : c \in Handler /\ c.op # "session_finished"
    BY PostedHandlers DEF Completion, AcceptDone, RetryDone, ShutdownDue
  <2>2. Reported(listener', strand')
    BY <1>0, <1>1, <2>1, ReportedKept, Zenon DEF Evolves
  <2>3. StartHolds(listener', strand)
    BY <1>1 DEF IInv, StartHolds, Evolves, NotStarted
  <2>4. StartHolds(listener', strand')
    BY <1>0, <1>1, <2>1, <2>3, StartHoldsAppend, Zenon
  <2>5. QED
    BY <1>1, <2>2, <2>4 DEF IInv, Evolves
<1>2. ASSUME NEW ec \in AcceptResult, accept_completes(ec)
      PROVE  Safe(listener') /\ Evolves(listener, listener') /\ strand' = strand
  <2>1. /\ SameCore(listener, listener') /\ listener'.last_error = listener.last_error
        /\ listener.acceptor = "accepting" /\ strand' = strand
    BY <1>0, <1>2 DEF accept_completes, SameCore, Listener
  <2>2. listener.state \notin {"idle", "stopped"}
    BY <1>0, <2>1 DEF Safe, Settled
  <2>3. Tracked(listener')
    BY <1>0, <2>1 DEF Safe, Settled, Tracked, SameCore
  <2>4. Safe(listener')
    BY <1>0, <2>1, <2>2, <2>3 DEF Safe, Settled, SameCore
  <2>5. Evolves(listener, listener')
    BY <1>0, <2>1 DEF Evolves, NotStarted, Grows, CauseKept, SameCore, Listener
  <2>6. QED
    BY <2>1, <2>4, <2>5
<1>3. ASSUME SameCore(listener, listener'), listener'.acceptor = listener.acceptor,
             listener'.last_error = listener.last_error
      PROVE  Safe(listener') /\ Evolves(listener, listener')
  BY <1>0, <1>3, SameCoreSettled
<1>4. CASE retry_timer_expires
  BY <1>0, <1>3, <1>4 DEF retry_timer_expires, SameCore, Listener
<1>5. CASE shutdown_timer_expires
  BY <1>0, <1>3, <1>5 DEF shutdown_timer_expires, SameCore, Listener
<1>6. ASSUME NEW c \in Completion, deliver(c)
      PROVE  /\ Safe(listener') /\ Evolves(listener, listener')
             /\ strand' = Append(strand, c)
  BY <1>0, <1>3, <1>6 DEF deliver, SameCore, Listener
<1>7. QED
  BY <1>2, <1>4, <1>5, <1>6 DEF InputOutput

\* The start handler opens the acceptor, or leaves the listener stopped.
LEMMA start_on_strand_opens_safe ==
  ASSUME TypeOK, IInv, start_on_strand_opens
  PROVE  Safe(listener') /\ Evolves(listener, listener') /\ listener'.state # "starting"
<1> DEFINE i == Head(strand).id
           open == [listener EXCEPT !.acceptor = "open"]
           opened == complete_on(open, i, "fatal")
           threw == accept_next(open, TRUE, "startup_failure")
           next == accept_next(open, FALSE, "startup_failure")
           ran == [next EXCEPT !.state = "running"]
<1>0. listener \in Listener /\ Safe(listener) /\ listener.state = "starting"
  BY DEF TypeOK, IInv, start_on_strand_opens
<1>1. i \in Operation
  BY RunningHandler, HandlerShape, Literals DEF TypeOK, start_on_strand_opens
<1>2. \/ listener' = finish(opened, "fatal", "startup_failure")
      \/ listener' = complete_on(threw, i, "failed")
      \/ listener' = complete_on(ran, i, "ok")
  BY Zenon DEF start_on_strand_opens
<1>3. open \in Listener /\ Safe(open) /\ open.state = "starting"
      /\ open.sessions = {} /\ ~open.accept_pending /\ Grows(listener, open)
  <2>1. /\ SameCore(listener, open) /\ open.last_error = listener.last_error
        /\ open \in Listener
    BY <1>0, Zenon DEF SameCore, Listener
  <2>2. Tracked(open)
    BY <1>0, <2>1 DEF Safe, Settled, Tracked, SameCore
  <2>3. Grows(listener, open)
    BY <1>0, <2>1 DEF SameCore, Grows, Listener
  <2> HIDE DEF open
  <2>4. /\ Settled(open) /\ open.state = "starting"
        /\ open.sessions = {} /\ ~open.accept_pending
    BY <1>0, <2>1, <2>2 DEF Safe, Settled, SameCore
  <2>5. QED
    BY <2>1, <2>3, <2>4 DEF Safe
<1> HIDE DEF i, open
<1>4. SUFFICES Safe(listener') /\ Grows(open, listener') /\ listener'.state # "starting"
  <2>1. listener' \in Listener
    BY StrandType DEF TypeOK, Strand
  <2>2. Grows(listener, listener')
    BY <1>0, <1>3, <1>4, <2>1 DEF Grows, Listener
  <2>3. QED
    BY <1>0, <1>4, <2>2 DEF Evolves, NotStarted, CauseKept
<1>5. CASE listener' = finish(opened, "fatal", "startup_failure")
  <2>1. opened \in Listener /\ Settled(opened) /\ Grows(open, opened)
    BY <1>1, <1>3, complete_on_type, complete_on_safe, Literals DEF Evolves, Safe
  <2>2. opened.sessions = {} /\ ~opened.accept_pending
    BY <1>3 DEF complete_on, Listener
  <2>3. Cause("fatal", "startup_failure")
    BY DEF Cause
  <2> HIDE DEF opened
  <2>4. Safe(listener') /\ Grows(opened, listener') /\ listener'.state = "stopped"
    BY <1>5, <2>1, <2>2, <2>3, finish_safe, Literals
  <2>5. listener' \in Listener
    BY <1>5, <2>1, finish_type, Literals
  <2>6. QED
    BY <1>3, <2>1, <2>4, <2>5 DEF Grows, Listener
<1>6. CASE listener' = complete_on(threw, i, "failed")
  <2>1. threw \in Listener /\ Safe(threw) /\ Evolves(open, threw)
    BY <1>3, accept_next_type, accept_next_safe, Literals, Zenon
  <2>2. threw.state \in {"stopping", "stopped"}
    <3> DEFINE r == record_diagnostic(open, "failed")
    <3>1. ~(Cardinality(open.sessions) >= max_active_sessions)
      <4>1. Cardinality({}) = 0
        BY Zenon DEF Cardinality
      <4>2. QED
        BY <1>3, <4>1, OptionsAssumption
    <3>2. threw = begin_stop(r, "failed", "startup_failure")
      BY <1>3, <3>1 DEF accept_next
    <3>3. r \in Listener /\ Safe(r)
      BY <1>3, record_diagnostic_type, record_diagnostic_safe, Literals
    <3>4. Cause("failed", "startup_failure")
      BY DEF Cause
    <3> HIDE DEF threw, r
    <3>5. QED
      BY <3>2, <3>3, <3>4, begin_stop_safe, Literals
  <2> HIDE DEF threw
  <2>3. /\ listener' \in Listener /\ Safe(listener') /\ Evolves(threw, listener')
        /\ listener'.state = threw.state
    BY <1>1, <1>6, <2>1, complete_on_type, complete_on_safe, Literals
  <2>4. QED
    BY <1>3, <2>1, <2>2, <2>3, EvolvesTransitive DEF Evolves
<1>7. CASE listener' = complete_on(ran, i, "ok")
  <2>1. next \in Listener /\ next.connections = open.connections /\ next.sessions = open.sessions
    <3>1. next \in Listener
      BY <1>3, accept_next_type, Literals, Zenon
    <3>2. \/ next = open
          \/ next = [open EXCEPT !.accept_pending = TRUE, !.acceptor = "accepting"]
      BY <1>3 DEF accept_next
    <3>3. QED
      BY <1>3, <3>1, <3>2, Zenon DEF Listener
  <2> HIDE DEF next
  <2>2. /\ ran \in Listener /\ ran.state = "running"
        /\ ran.connections = open.connections /\ ran.sessions = open.sessions
    BY <2>1, Zenon DEF Listener, State
  <2> HIDE DEF ran
  <2>3. Tracked(ran)
    BY <1>3, <2>2 DEF Safe, Settled, Tracked
  <2>4. Safe(ran) /\ Grows(open, ran)
    BY <1>3, <2>2, <2>3 DEF Safe, Settled, Grows, Listener
  <2>5. /\ Safe(listener') /\ Grows(ran, listener') /\ listener' \in Listener
        /\ listener'.state = "running"
    BY <1>1, <1>7, <2>2, <2>4, complete_on_type, complete_on_safe, Literals DEF Evolves
  <2>6. QED
    BY <1>3, <2>2, <2>4, <2>5 DEF Grows, Listener
<1>8. QED
  BY <1>2, <1>5, <1>6, <1>7, Zenon

\* A completed accept is dropped, retried, or becomes a tracked session.
LEMMA accepted_safe ==
  ASSUME TypeOK, IInv, accepted
  PROVE  Safe(listener') /\ Evolves(listener, listener')
<1> DEFINE ec   == Head(strand).ec
           done == [listener EXCEPT !.accept_pending = FALSE]
           id   == Len(listener.connections) + 1
           kept(first) == [done EXCEPT !.accept_errors = 0,
                                       !.connections = Append(@, new_connection(first)),
                                       !.sessions = @ \cup {id}]
           rejected == [record_diagnostic(done, "failed")
                          EXCEPT !.accept_errors = 0,
                                 !.connections = Append(@, rejected_connection)]
<1>0. listener \in Listener /\ Safe(listener)
  BY DEF TypeOK, IInv
<1>1. ec \in Error
  BY RunningHandler, HandlerShape, Literals DEF TypeOK, accepted
<1>2. \/ listener.state # "running" /\ listener' = maybe_finish(done)
      \/ /\ listener.state = "running" /\ ec # "ok"
         /\ listener' = retry_accept(done, ec)
      \/ /\ listener.state = "running"
         /\ \E throws \in BOOLEAN :
              \/ listener' = accept_next(rejected, throws, "runtime_failure")
              \/ \E first \in {"start", "force_close"} :
                   listener' = accept_next(kept(first), throws, "runtime_failure")
  BY DEF accepted
<1>3. /\ done \in Listener /\ Settled(done) /\ Evolves(listener, done)
      /\ done.state = listener.state /\ done.connections = listener.connections
      /\ done.connections \in Seq(Connection) /\ done.sessions = listener.sessions
  <2>1. /\ done \in Listener /\ done.state = listener.state
        /\ done.connections = listener.connections /\ done.sessions = listener.sessions
        /\ done.waiters = listener.waiters /\ done.acceptor = listener.acceptor
        /\ done.stop_reason = listener.stop_reason
        /\ done.terminal_error = listener.terminal_error
        /\ done.last_error = listener.last_error /\ ~done.accept_pending
        /\ done.connections \in Seq(Connection)
    BY <1>0, Zenon DEF Listener
  <2> HIDE DEF done
  <2>2. Tracked(done)
    BY <1>0, <2>1 DEF Safe, Settled, Tracked
  <2>3. QED
    BY <1>0, <2>1, <2>2 DEF Safe, Settled, Evolves, NotStarted, Grows, CauseKept, Listener
<1>4. CASE listener.state # "running" /\ listener' = maybe_finish(done)
  <2> HIDE DEF done
  <2>1. listener' \in Listener /\ Safe(listener') /\ Evolves(done, listener')
    BY <1>3, <1>4, maybe_finish_type, maybe_finish_safe
  <2>2. QED
    BY <1>0, <1>3, <2>1, EvolvesTransitive
<1>5. CASE /\ listener.state = "running" /\ ec # "ok"
           /\ listener' = retry_accept(done, ec)
  <2> HIDE DEF done, ec
  <2>1. Safe(done) /\ done.state = "running"
    BY <1>3, <1>5 DEF Safe
  <2>2. listener' \in Listener /\ Safe(listener') /\ Evolves(done, listener')
    BY <1>1, <1>3, <1>5, <2>1, retry_accept_type, retry_accept_safe
  <2>3. QED
    BY <1>0, <1>3, <2>2, EvolvesTransitive
<1>6. ASSUME listener.state = "running", NEW m \in Listener, NEW r \in Connection,
             m.state = "running", m.connections = Append(listener.connections, r),
             listener.sessions \subseteq m.sessions, r.finished \/ id \in m.sessions
      PROVE  Safe(m) /\ Evolves(listener, m)
  <2>1. /\ listener.connections \in Seq(Connection) /\ Len(listener.connections) \in Nat
        /\ Len(m.connections) = id
    BY <1>0, <1>6 DEF Listener
  <2>2. /\ \A c \in 1..Len(listener.connections) : m.connections[c] = listener.connections[c]
        /\ m.connections[id] = r
    BY <1>6, <2>1
  <2>3. Tracked(m)
    BY <1>0, <1>6, <2>1, <2>2 DEF Safe, Settled, Tracked
  <2>4. Safe(m)
    BY <1>6, <2>3 DEF Safe, Settled
  <2>5. QED
    BY <1>6, <2>1, <2>2, <2>4 DEF Evolves, NotStarted, Grows, CauseKept
<1>7. ASSUME listener.state = "running"
      PROVE  rejected \in Listener /\ Safe(rejected) /\ Evolves(listener, rejected)
             /\ rejected.state = "running"
  <2> DEFINE d == record_diagnostic(done, "failed")
             q == Append(listener.connections, rejected_connection)
  <2>1. /\ d \in Listener /\ d.connections = listener.connections
        /\ d.sessions = listener.sessions /\ d.state = "running"
    BY <1>3, <1>7, record_diagnostic_type, Literals, Zenon DEF record_diagnostic, Listener
  <2>2. rejected_connection \in Connection /\ rejected_connection.finished
    BY DEF rejected_connection, Connection
  <2>3. q \in Seq(Connection)
    BY <1>3, <2>2
  <2>4. rejected = [d EXCEPT !.accept_errors = 0, !.connections = q]
    BY <2>1, Zenon
  <2> HIDE DEF d, rejected, done, q
  <2>5. /\ rejected \in Listener /\ rejected.state = "running" /\ rejected.connections = q
        /\ rejected.sessions = listener.sessions
    BY <2>1, <2>3, <2>4, Zenon DEF Listener
  <2>6. QED
    BY <1>6, <1>7, <2>2, <2>5 DEF q
<1>8. ASSUME listener.state = "running", NEW first \in {"start", "force_close"}
      PROVE  kept(first) \in Listener /\ Safe(kept(first)) /\ Evolves(listener, kept(first))
             /\ kept(first).state = "running"
  <2> DEFINE q == Append(listener.connections, new_connection(first))
             m == kept(first)
  <2>1. new_connection(first) \in Connection
    BY DEF new_connection, Connection
  <2>2. q \in Seq(Connection)
    BY <1>3, <2>1
  <2>3. listener.sessions \cup {id} \in SUBSET (Nat \ {0})
    BY <1>0 DEF Listener
  <2>4. m = [done EXCEPT !.accept_errors = 0, !.connections = q,
                         !.sessions = listener.sessions \cup {id}]
    BY <1>3
  <2> HIDE DEF m, done, q, id
  <2>5. /\ m \in Listener /\ m.state = "running" /\ m.connections = q
        /\ m.sessions = listener.sessions \cup {id}
    BY <1>3, <1>8, <2>2, <2>3, <2>4, Zenon DEF Listener
  <2>6. Safe(m) /\ Evolves(listener, m)
    BY <1>6, <1>8, <2>1, <2>5 DEF q
  <2>7. QED
    BY <2>5, <2>6 DEF m
<1>9. ASSUME listener.state = "running", NEW throws \in BOOLEAN, NEW m \in Listener,
             Safe(m), Evolves(listener, m), m.state = "running",
             listener' = accept_next(m, throws, "runtime_failure")
      PROVE  Safe(listener') /\ Evolves(listener, listener')
  <2>1. listener' \in Listener /\ Safe(listener') /\ Evolves(m, listener')
    BY <1>9, accept_next_type, accept_next_safe, Literals
  <2>2. QED
    BY <1>0, <1>9, <2>1, EvolvesTransitive
<1> HIDE DEF ec, done, kept, rejected
<1>10. QED
  BY <1>2, <1>4, <1>5, <1>7, <1>8, <1>9

\* Only a finished connection leaves m_sessions, and its slot is reused or
\* the listener finishes.
LEMMA session_finished_safe ==
  ASSUME TypeOK, IInv, session_finished
  PROVE  Safe(listener') /\ Evolves(listener, listener')
<1> DEFINE c      == Head(strand).id
           ec     == Head(strand).ec
           erased == [listener EXCEPT !.sessions = @ \ {c}]
           noted  == IF ec \in {"ok", "aborted"} THEN erased
                                                 ELSE record_diagnostic(erased, ec)
<1>0. listener \in Listener /\ Safe(listener) /\ Reported(listener, strand)
  BY DEF TypeOK, IInv
<1>1. ec \in Error
  BY RunningHandler, HandlerShape, Literals DEF TypeOK, session_finished
<1>2. c \in 1..Len(listener.connections) /\ listener.connections[c].finished
  <2>1. strand \in Seq(Handler) /\ strand # << >> /\ strand[1].op = "session_finished"
    BY DEF TypeOK, session_finished, Running
  <2>2. 1 \in 1..Len(strand) /\ Head(strand) = strand[1]
    BY <2>1
  <2>3. QED
    BY <1>0, <2>1, <2>2 DEF Reported
<1>3. \/ listener.state # "running" /\ listener' = maybe_finish(noted)
      \/ /\ listener.state = "running"
         /\ \E throws \in BOOLEAN :
              listener' = maybe_finish(accept_next(noted, throws, "runtime_failure"))
  BY DEF session_finished
<1>4. /\ erased \in Listener /\ Settled(erased) /\ Evolves(listener, erased)
      /\ erased.state = listener.state
  <2>1. /\ erased \in Listener /\ erased.state = listener.state
        /\ erased.connections = listener.connections
        /\ erased.sessions = listener.sessions \ {c}
        /\ erased.waiters = listener.waiters /\ erased.acceptor = listener.acceptor
        /\ erased.accept_pending = listener.accept_pending
        /\ erased.stop_reason = listener.stop_reason
        /\ erased.terminal_error = listener.terminal_error
        /\ erased.last_error = listener.last_error
    BY <1>0, Zenon DEF Listener
  <2> HIDE DEF erased, c
  <2>2. Tracked(erased)
    BY <1>0, <1>2, <2>1, Zenon DEF Safe, Settled, Tracked
  <2>3. Settled(erased)
    BY <1>0, <2>1, <2>2 DEF Safe, Settled
  <2>4. QED
    BY <1>0, <2>1, <2>3 DEF Evolves, NotStarted, Grows, CauseKept, Listener
<1> HIDE DEF erased, ec
<1>5. /\ noted \in Listener /\ Settled(noted) /\ Evolves(listener, noted)
      /\ noted.state = listener.state
  <2>1. CASE ec \in {"ok", "aborted"}
    BY <1>4, <2>1
  <2>2. CASE ec \notin {"ok", "aborted"}
    <3>1. /\ record_diagnostic(erased, ec) \in Listener
          /\ Settled(record_diagnostic(erased, ec))
          /\ Evolves(erased, record_diagnostic(erased, ec))
          /\ record_diagnostic(erased, ec).state = listener.state
      BY <1>1, <1>4, <2>2, record_diagnostic_type, record_diagnostic_safe
    <3>2. QED
      BY <1>0, <1>4, <2>2, <3>1, EvolvesTransitive
  <2>3. QED
    BY <2>1, <2>2
<1> HIDE DEF noted
<1>6. CASE listener.state # "running" /\ listener' = maybe_finish(noted)
  <2>1. listener' \in Listener /\ Safe(listener') /\ Evolves(noted, listener')
    BY <1>5, <1>6, maybe_finish_type, maybe_finish_safe
  <2>2. QED
    BY <1>0, <1>5, <2>1, EvolvesTransitive
<1>7. ASSUME listener.state = "running", NEW throws \in BOOLEAN,
             listener' = maybe_finish(accept_next(noted, throws, "runtime_failure"))
      PROVE  Safe(listener') /\ Evolves(listener, listener')
  <2> DEFINE m == accept_next(noted, throws, "runtime_failure")
  <2>1. Safe(noted)
    BY <1>5, <1>7 DEF Safe
  <2>2. m \in Listener /\ Safe(m) /\ Evolves(noted, m)
    BY <1>5, <1>7, <2>1, accept_next_type, accept_next_safe, Literals
  <2> HIDE DEF m
  <2>3. listener' = maybe_finish(m)
    BY <1>7 DEF m
  <2>4. listener' \in Listener /\ Safe(listener') /\ Evolves(m, listener')
    BY <2>2, <2>3, maybe_finish_type, maybe_finish_safe DEF Safe
  <2>5. Evolves(noted, listener')
    BY <1>5, <2>2, <2>4, EvolvesTransitive
  <2>6. QED
    BY <1>0, <1>5, <2>4, <2>5, EvolvesTransitive
<1>8. QED
  BY <1>3, <1>6, <1>7

\* The other handlers of the listener strand.
LEMMA WaitHandlersSafe ==
  ASSUME TypeOK, IInv, wait_on_strand \/ cancel_wait
  PROVE  Safe(listener') /\ Evolves(listener, listener')
<1> DEFINE i == Head(strand).id
<1>0. listener \in Listener /\ Safe(listener) /\ listener.terminal_error \in Error
  BY DEF TypeOK, IInv, Listener
<1>1. i \in Waits /\ i \in Operation
  BY RunningHandler, HandlerShape, Literals DEF TypeOK, wait_on_strand, cancel_wait
<1> HIDE DEF i
<1>2. ASSUME NEW w \in SUBSET Waits, listener.state # "stopped" \/ w = {},
             NEW m, m = [listener EXCEPT !.waiters = w]
      PROVE  m \in Listener /\ Safe(m) /\ Evolves(listener, m)
  <2>1. /\ m \in Listener /\ m.state = listener.state /\ m.waiters = w
        /\ m.connections = listener.connections /\ m.sessions = listener.sessions
        /\ m.accept_pending = listener.accept_pending /\ m.acceptor = listener.acceptor
        /\ m.stop_reason = listener.stop_reason
        /\ m.terminal_error = listener.terminal_error
        /\ m.last_error = listener.last_error
    BY <1>0, <1>2, Zenon DEF Listener
  <2>2. Tracked(m)
    BY <1>0, <2>1 DEF Safe, Settled, Tracked
  <2>3. Safe(m)
    BY <1>0, <1>2, <2>1, <2>2 DEF Safe, Settled
  <2>4. QED
    BY <1>0, <2>1, <2>3 DEF Evolves, NotStarted, Grows, CauseKept, Listener
<1>3. ASSUME NEW ec \in Error, listener' = complete_on(listener, i, ec)
      PROVE  Safe(listener') /\ Evolves(listener, listener')
  BY <1>0, <1>1, <1>3, complete_on_safe
<1>4. CASE wait_on_strand
  <2>1. ASSUME listener.state # "stopped",
               listener' = [listener EXCEPT !.waiters = @ \cup {i}]
        PROVE  Safe(listener') /\ Evolves(listener, listener')
    <3>1. listener.waiters \cup {i} \in SUBSET Waits
      BY <1>0, <1>1 DEF Listener
    <3>2. QED
      BY <1>2, <2>1, <3>1
  <2>2. \/ \E ec \in Error : listener' = complete_on(listener, i, ec)
        \/ /\ listener.state # "stopped"
           /\ listener' = [listener EXCEPT !.waiters = @ \cup {i}]
    BY <1>0, <1>4, Literals DEF wait_on_strand, i
  <2>3. QED
    BY <1>3, <2>1, <2>2
<1>5. CASE cancel_wait
  <2> DEFINE m == [listener EXCEPT !.waiters = @ \ {i}]
  <2>1. CASE i \in listener.waiters
    <3>1. m \in Listener /\ Safe(m) /\ Evolves(listener, m)
      <4>1. listener.waiters \ {i} \in SUBSET Waits
        BY <1>0 DEF Listener
      <4>2. listener.state # "stopped"
        BY <1>0, <2>1 DEF Safe, Settled
      <4>3. QED
        BY <1>2, <4>1, <4>2
    <3>2. listener' = complete_on(m, i, "aborted")
      BY <1>5, <2>1 DEF cancel_wait, i
    <3> HIDE DEF m
    <3>3. listener' \in Listener /\ Safe(listener') /\ Evolves(m, listener')
      BY <1>1, <3>1, <3>2, complete_on_type, complete_on_safe, Literals
    <3>4. QED
      BY <1>0, <3>1, <3>3, EvolvesTransitive
  <2>2. CASE i \notin listener.waiters
    <3>1. listener' = listener
      BY <1>5, <2>2 DEF cancel_wait, i
    <3>2. QED
      BY <1>0, <3>1 DEF Evolves, NotStarted, Grows, CauseKept, Listener
  <2>3. QED
    BY <2>1, <2>2
<1>6. QED
  BY <1>4, <1>5

\* Every handler of the listener strand keeps the invariant, and the cause of
\* a stop unless it begins a new generation.
LEMMA StrandSafe ==
  ASSUME TypeOK, IInv, Strand
  PROVE  /\ IInv'
         /\ CauseKept(listener, listener') \/ listener'.generation # listener.generation
<1>0. /\ listener \in Listener /\ listener' \in Listener /\ strand \in Seq(Handler)
      /\ Safe(listener) /\ Reported(listener, strand)
  BY StrandType DEF TypeOK, IInv
<1>1. ASSUME NEW op, Running(op), Return, Safe(listener'), Evolves(listener, listener'),
             op # "start" \/ listener'.state # "starting"
      PROVE  IInv' /\ CauseKept(listener, listener')
  <2>1. strand # << >> /\ strand' = Tail(strand)
    BY <1>1 DEF Running, Return
  <2>2. Reported(listener', strand')
    BY <1>0, <1>1, <2>1, ReportedKept DEF Evolves
  <2>3. listener'.state # "starting"
    BY <1>1 DEF IInv, StartHolds, Running, Evolves, NotStarted
  <2>4. QED
    BY <1>1, <2>2, <2>3 DEF IInv, StartHolds, Evolves
<1>2. CASE start_without_effect
  <2>1. Head(strand).id \in Operation
    BY <1>0, <1>2, RunningHandler, HandlerShape, Literals DEF start_without_effect
  <2>2. /\ Safe(listener') /\ Evolves(listener, listener')
        /\ listener'.state # "starting"
    BY <1>0, <1>2, <2>1, complete_on_safe, Literals DEF start_without_effect
  <2>3. QED
    BY <1>1, <1>2, <2>2 DEF start_without_effect
<1>3. CASE start_on_strand
  <2>1. /\ listener'.state = "starting" /\ listener'.generation = listener.generation + 1
        /\ listener'.connections = listener.connections
        /\ listener'.sessions = listener.sessions
        /\ listener'.accept_pending = listener.accept_pending
        /\ listener.state \in {"idle", "stopped"}
        /\ strand' = strand /\ strand # << >> /\ Head(strand).op = "start"
    BY <1>0, <1>3 DEF start_on_strand, Running, Listener
  <2>2. Tracked(listener')
    BY <1>0, <2>1 DEF Safe, Settled, Tracked
  <2>3. Safe(listener')
    BY <1>0, <2>1, <2>2 DEF Safe, Settled
  <2>4. Grows(listener, listener')
    BY <1>0, <2>1 DEF Grows, Listener
  <2>5. Reported(listener', strand')
    BY <1>0, <2>1, <2>4, ReportedKept
  <2>6. listener'.generation # listener.generation
    BY <1>0, <2>1 DEF Listener
  <2>7. QED
    BY <2>1, <2>3, <2>5, <2>6 DEF IInv, StartHolds
<1>4. CASE start_on_strand_opens
  BY <1>1, <1>4, start_on_strand_opens_safe, Zenon DEF start_on_strand_opens
<1>5. CASE wait_on_strand
  BY <1>1, <1>5, WaitHandlersSafe DEF wait_on_strand
<1>6. CASE cancel_wait
  BY <1>1, <1>6, WaitHandlersSafe DEF cancel_wait
<1>7. CASE stop_on_strand
  <2>1. Cause("ok", "requested")
    BY DEF Cause
  <2>2. Safe(listener') /\ Evolves(listener, listener')
    BY <1>0, <1>7, <2>1, begin_stop_safe, Literals DEF stop_on_strand
  <2>3. QED
    BY <1>1, <1>7, <2>2 DEF stop_on_strand
<1>8. CASE accepted
  BY <1>1, <1>8, accepted_safe DEF accepted
<1>9. CASE session_finished
  BY <1>1, <1>9, session_finished_safe DEF session_finished
<1>10. CASE retry_timer_handler
  <2>1. ASSUME listener' = maybe_finish(listener)
        PROVE  Safe(listener') /\ Evolves(listener, listener')
    BY <1>0, <2>1, maybe_finish_safe DEF Safe
  <2>2. ASSUME NEW throws \in BOOLEAN,
               listener' = accept_next(listener, throws, "runtime_failure")
        PROVE  Safe(listener') /\ Evolves(listener, listener')
    <3>1. listener.state # "starting"
      BY <1>10 DEF IInv, StartHolds, retry_timer_handler, Running
    <3>2. QED
      BY <1>0, <2>2, <3>1, accept_next_safe
  <2>3. QED
    BY <1>1, <1>10, <2>1, <2>2 DEF retry_timer_handler
<1>11. CASE shutdown_timer_handler
  <2> DEFINE d == record_diagnostic(listener, "timed_out")
  <2>1. d \in Listener /\ Safe(d) /\ Evolves(listener, d)
    BY <1>0, record_diagnostic_type, record_diagnostic_safe, Literals
  <2>2. listener' = post_force_close(d)
    BY <1>11 DEF shutdown_timer_handler
  <2> HIDE DEF d
  <2>3. Safe(listener') /\ Evolves(d, listener')
    BY <2>1, <2>2, post_force_close_safe
  <2>4. QED
    BY <1>0, <1>1, <1>11, <2>1, <2>3, EvolvesTransitive DEF shutdown_timer_handler
<1>12. QED
  BY <1>2, <1>3, <1>4, <1>5, <1>6, <1>7, <1>8, <1>9, <1>10, <1>11 DEF Strand

\* Replacing the record of a connection by one that is no less finished.
LEMMA ConnectionUpdateSafe ==
  ASSUME NEW l \in Listener, Safe(l), NEW c \in 1..Len(l.connections), NEW r \in Connection,
         l.connections[c].finished => r.finished,
         NEW m, m = [l EXCEPT !.connections[c] = r]
  PROVE  /\ Safe(m) /\ Evolves(l, m)
         /\ Len(m.connections) = Len(l.connections) /\ m.connections[c] = r
<1> DEFINE f == [l.connections EXCEPT ![c] = r]
<1>1. l.connections \in Seq(Connection) /\ Len(l.connections) \in Nat
  BY DEF Listener
<1>2. /\ f \in Seq(Connection) /\ Len(f) = Len(l.connections) /\ f[c] = r
      /\ \A d \in 1..Len(l.connections) : d # c => f[d] = l.connections[d]
  BY <1>1
<1>3. m = [l EXCEPT !.connections = f]
  OBVIOUS
<1> HIDE DEF f
<1>4. /\ m.connections = f /\ m.state = l.state /\ m.sessions = l.sessions
      /\ m.waiters = l.waiters /\ m.accept_pending = l.accept_pending
      /\ m.acceptor = l.acceptor /\ m.terminal_error = l.terminal_error
      /\ m.stop_reason = l.stop_reason /\ m.last_error = l.last_error
  BY <1>3 DEF Listener
<1>5. \A d \in 1..Len(l.connections) : l.connections[d].finished => f[d].finished
  BY <1>2
<1>6. Tracked(m)
  BY <1>2, <1>4, <1>5 DEF Safe, Settled, Tracked
<1>7. Safe(m)
  BY <1>4, <1>6 DEF Safe, Settled
<1>8. Evolves(l, m)
  BY <1>1, <1>2, <1>4, <1>5 DEF Evolves, NotStarted, Grows, CauseKept
<1>9. QED
  BY <1>2, <1>4, <1>7, <1>8

\* A connection reports to the listener after it is marked finished.
LEMMA connection_finish_safe ==
  ASSUME TypeOK, IInv, NEW c \in 1..Len(listener.connections), NEW r \in Connection,
         NEW ec \in SessionResult, connection_finish(c, r, ec)
  PROVE  IInv' /\ CauseKept(listener, listener')
<1> DEFINE h == [op |-> "session_finished", id |-> c, ec |-> ec]
           q == [r EXCEPT !.finished = TRUE]
<1>0. /\ listener \in Listener /\ listener' \in Listener /\ strand \in Seq(Handler)
      /\ Safe(listener) /\ Reported(listener, strand) /\ StartHolds(listener, strand)
  BY connection_finish_type DEF TypeOK, IInv
<1>1. q \in Connection /\ q.finished
  BY Zenon DEF Connection
<1>2. listener' = [listener EXCEPT !.connections[c] = q]
  BY DEF connection_finish
<1>3. h \in Handler /\ h.id = c
  <2>1. c \in Nat \ {0}
    BY <1>0 DEF Listener
  <2>2. QED
    BY <2>1, PostedHandlers
<1>4. strand' \in {strand, Append(strand, h)}
  BY DEF connection_finish
<1> HIDE DEF q, h
<1>5. /\ Safe(listener') /\ Evolves(listener, listener')
      /\ c \in 1..Len(listener'.connections) /\ listener'.connections[c].finished
  BY <1>0, <1>1, <1>2, ConnectionUpdateSafe
<1>6. Reported(listener', strand')
  <2>1. Reported(listener', strand)
    BY <1>0, <1>5, ReportedKept DEF Evolves
  <2>2. Reported(listener', Append(strand, h))
    BY <1>0, <1>3, <1>5, ReportedKept DEF Evolves
  <2>3. QED
    BY <1>4, <2>1, <2>2, Zenon
<1>7. StartHolds(listener', strand')
  <2>1. StartHolds(listener', strand)
    BY <1>0, <1>5 DEF StartHolds, Evolves, NotStarted
  <2>2. QED
    BY <1>0, <1>3, <1>4, <2>1, StartHoldsAppend, Zenon
<1>8. QED
  BY <1>5, <1>6, <1>7 DEF IInv, Evolves

\* The handlers of the connection strands keep the invariant.
LEMMA SessionsSafe ==
  ASSUME TypeOK, IInv, Sessions
  PROVE  IInv' /\ CauseKept(listener, listener')
<1>0. /\ listener \in Listener /\ listener' \in Listener /\ strand \in Seq(Handler)
      /\ listener.connections \in Seq(Connection)
  BY SessionsType, Zenon DEF TypeOK, Listener
<1>1. PICK c \in 1..Len(listener.connections) :
        \/ ConnectionStrand(c)
        \/ \E ec \in SessionResult : session_completes(c, ec)
  BY DEF Sessions
<1>2. connection(c) \in Connection /\ connection(c) = listener.connections[c]
  BY <1>0 DEF connection
<1>3. [connection(c) EXCEPT !.session = "returned"] \in Connection
  BY <1>2 DEF Connection
<1>4. connection(c).queue # << >> =>
        /\ popped(c) \in Connection
        /\ popped(c).finished = connection(c).finished
        /\ [popped(c) EXCEPT !.session = "running"] \in Connection
        /\ [popped(c) EXCEPT !.session = "running"].finished = connection(c).finished
        /\ [popped(c) EXCEPT !.session = "returned"] \in Connection
  <2>1. HAVE connection(c).queue # << >>
  <2>2. Tail(connection(c).queue) \in Seq({"start", "request_stop", "force_close"})
    BY <1>2, <2>1 DEF Connection
  <2>3. popped(c) \in Connection /\ popped(c).finished = connection(c).finished
    BY <1>2, <2>2, Zenon DEF popped, Connection
  <2>4. QED
    BY <2>3 DEF Connection
<1>5. ASSUME NEW r \in Connection, r.finished = connection(c).finished,
             listener' = [listener EXCEPT !.connections[c] = r], strand' = strand
      PROVE  IInv' /\ CauseKept(listener, listener')
  <2>1. Safe(listener') /\ Evolves(listener, listener')
    BY <1>0, <1>2, <1>5, ConnectionUpdateSafe DEF IInv
  <2>2. Reported(listener', strand') /\ StartHolds(listener', strand')
    BY <1>0, <1>5, <2>1, ReportedKept DEF IInv, Evolves, NotStarted, StartHolds
  <2>3. QED
    BY <2>1, <2>2 DEF IInv, Evolves
<1>6. CASE connection_start(c)
  <2>1. connection(c).queue # << >>
    BY <1>6 DEF connection_start, connection_runs
  <2>2. CASE connection_finish(c, [popped(c) EXCEPT !.session = "returned"], "failed")
    BY <1>4, <2>1, <2>2, connection_finish_safe DEF SessionResult
  <2>3. CASE /\ listener' = [listener EXCEPT !.connections[c] =
                               [popped(c) EXCEPT !.session = "running"]]
             /\ UNCHANGED <<strand, submitted, cancelled, stopper>>
    BY <1>4, <1>5, <2>1, <2>3, Zenon
  <2>4. QED
    BY <1>6, <2>2, <2>3 DEF connection_start
<1>7. CASE connection_request_stop(c)
  BY <1>4, <1>5, <1>7, Zenon DEF connection_request_stop, connection_runs
<1>8. CASE connection_force_close(c)
  BY <1>4, <1>8, connection_finish_safe
     DEF connection_force_close, connection_runs, SessionResult
<1>9. ASSUME NEW ec \in SessionResult, session_completes(c, ec)
      PROVE  IInv' /\ CauseKept(listener, listener')
  BY <1>3, <1>9, connection_finish_safe DEF session_completes
<1>10. QED
  BY <1>1, <1>6, <1>7, <1>8, <1>9 DEF ConnectionStrand

-----------------------------------------------------------------------------
(* The theorems *)

\* One step of the system, from the invariant.
LEMMA StepSafe ==
  ASSUME TypeOK, IInv, [Next]_vars
  PROVE  /\ IInv'
         /\ CauseKept(listener, listener') \/ listener'.generation # listener.generation
<1>1. CASE UNCHANGED vars
  BY <1>1 DEF vars, IInv, CauseKept
<1>2. CASE Client
  BY <1>2, ClientSafe DEF CauseKept
<1>3. CASE InputOutput
  BY <1>3, InputOutputSafe
<1>4. CASE Strand
  BY <1>4, StrandSafe
<1>5. CASE Sessions
  BY <1>5, SessionsSafe
<1>6. QED
  BY <1>1, <1>2, <1>3, <1>4, <1>5 DEF Next

\* The inductive invariant holds in every reachable state.
THEOREM Invariance == Spec => [](TypeOK /\ IInv)
<1>1. Init => IInv
  BY DEF Init, IInv, Safe, Settled, Tracked, Reported, StartHolds
<1>2. TypeOK /\ IInv /\ [Next]_vars => IInv'
  BY StepSafe
<1>3. QED
  BY <1>1, <1>2, TypeCorrect, PTL DEF Spec

\* Whatever the number of calls, sessions and connections, a listener that
\* finish has moved to stopped owns nothing: no open socket, no tracked
\* session, no waiter, no acceptor and no accept.
THEOREM StoppedDrained == Spec => []StoppedIsDrained
<1>1. TypeOK /\ IInv => StoppedIsDrained
  <2> SUFFICES ASSUME TypeOK, IInv, listener.state = "stopped" PROVE StoppedIsDrained
    BY DEF StoppedIsDrained
  <2>1. /\ listener.sessions = {} /\ listener.waiters = {}
        /\ listener.acceptor = "closed" /\ ~listener.accept_pending /\ Tracked(listener)
    BY DEF IInv, Safe, Settled
  <2>2. DOMAIN listener.connections = 1..Len(listener.connections)
    BY DEF TypeOK, Listener
  <2>3. QED
    BY <2>1, <2>2 DEF StoppedIsDrained, Tracked
<1>2. QED
  BY <1>1, Invariance, PTL

\* maybe_finish is called wherever its condition can become true: a listener
\* that is stopping has an accept or a session to wait for.
THEOREM StoppingNotStuck == Spec => []StoppingWaitsForSomething
<1>1. TypeOK /\ IInv => StoppingWaitsForSomething
  BY DEF IInv, Safe, StoppingWaitsForSomething
<1>2. QED
  BY <1>1, Invariance, PTL

\* The reason, the terminal error and the diagnostics of a stopped listener
\* agree, whichever of begin_stop, finish and their callers set them.
THEOREM ReasonAgrees == Spec => []StopReasonAgrees
<1>1. TypeOK /\ IInv => StopReasonAgrees
  BY DEF IInv, Safe, Settled, Cause, StopReasonAgrees
<1>2. QED
  BY <1>1, Invariance, PTL

\* Until the next start, no later failure, request or timeout replaces the
\* cause that begin_stop recorded first.
THEOREM FirstCause == Spec => FirstCauseWins
<1>1. TypeOK /\ IInv /\ [Next]_vars =>
        [ listener.state \in {"stopping", "stopped"} /\ listener'.generation = listener.generation
            => /\ listener'.stop_reason = listener.stop_reason
               /\ listener'.terminal_error = listener.terminal_error ]_vars
  BY StepSafe DEF CauseKept
<1>2. QED
  BY <1>1, Invariance, PTL DEF Spec, FirstCauseWins

-----------------------------------------------------------------------------
(* AcceptorListener implements ListenerLifecycle *)

\* What a member function does to the part of a listener the lifecycle speaks of:
\* nothing, the end of a stop, or a stop of a listener that runs.
Same(l, m) ==
  m.state = l.state /\ m.terminal_error = l.terminal_error /\ m.waiters = l.waiters

Drains(l, m) ==
  /\ l.state = "stopping" /\ m.state = "stopped"
  /\ m.terminal_error = l.terminal_error /\ m.waiters = {}

Stops(l, m) ==
  /\ l.state \in {"starting", "running"}
  /\ \/ m.state = "stopping" /\ m.waiters = l.waiters
     \/ m.state = "stopped" /\ m.waiters = {}

Moves(l, m) == Same(l, m) \/ Drains(l, m) \/ Stops(l, m)

\* The helpers that do nothing of the kind.
LEMMA HelpersSame ==
  ASSUME NEW l \in Listener
  PROVE  /\ Same(l, close_acceptor(l)) /\ Same(l, cancel_retry_timer(l))
         /\ Same(l, cancel_shutdown_timer(l)) /\ Same(l, arm_retry_timer(l))
         /\ Same(l, post_request_stop(l)) /\ Same(l, post_force_close(l))
         /\ Same(l, arm_shutdown_timer(l))
         /\ \A i \in Operation, ec \in Error : Same(l, complete_on(l, i, ec))
         /\ \A ec \in Error : Same(l, record_diagnostic(l, ec))
<1> USE DEF Listener, Same
<1>1. Same(l, close_acceptor(l)) /\ Same(l, cancel_retry_timer(l))
  BY DEF close_acceptor, cancel_retry_timer
<1>2. Same(l, cancel_shutdown_timer(l)) /\ Same(l, arm_retry_timer(l))
  BY DEF cancel_shutdown_timer, arm_retry_timer, cancel_retry_timer
<1>3. Same(l, post_request_stop(l)) /\ Same(l, post_force_close(l)) /\ Same(l, arm_shutdown_timer(l))
  BY DEF post_request_stop, post_force_close, arm_shutdown_timer
<1>4. \A i \in Operation, ec \in Error : Same(l, complete_on(l, i, ec))
  BY DEF complete_on
<1>5. \A ec \in Error : Same(l, record_diagnostic(l, ec))
  BY DEF record_diagnostic
<1>6. QED
  BY <1>1, <1>2, <1>3, <1>4, <1>5, Zenon

\* finish lets every waiter go.
LEMMA finish_moves ==
  ASSUME NEW l \in Listener, NEW ec \in Error, NEW reason \in StopReason, l.state # "stopped"
  PROVE  LET m == finish(l, ec, reason)
         IN  m.state = "stopped" /\ m.terminal_error = ec /\ m.waiters = {}
BY DEF finish, Listener, close_acceptor, cancel_retry_timer, cancel_shutdown_timer

\* maybe_finish ends a stop or does nothing.
LEMMA maybe_finish_moves ==
  ASSUME NEW l \in Listener
  PROVE  Same(l, maybe_finish(l)) \/ Drains(l, maybe_finish(l))
<1>1. l.terminal_error \in Error /\ l.stop_reason \in StopReason
  BY DEF Listener
<1>2. QED
  BY <1>1, finish_moves DEF maybe_finish, Same, Drains

\* begin_stop stops a listener that runs, and ends one that is idle at once.
LEMMA begin_stop_moves ==
  ASSUME NEW l \in Listener, NEW ec \in Error, NEW reason \in StopReason
  PROVE  LET m == begin_stop(l, ec, reason)
         IN  /\ l.state # "idle" => Moves(l, m)
             /\ l.state = "idle" => m.state = "stopped" /\ m.terminal_error = ec /\ m.waiters = {}
<1> DEFINE e == enter_stopping(l, ec, reason)
           c == close_acceptor(e)
           r == cancel_retry_timer(c)
           p == post_request_stop(r)
           a == arm_shutdown_timer(p)
<1>1. e \in Listener /\ e.state = "stopping" /\ e.waiters = l.waiters /\ e.terminal_error = ec
  BY enter_stopping_type, Zenon DEF enter_stopping, Listener
<1>2. CASE l.state = "idle"
  BY <1>1, <1>2, finish_moves DEF begin_stop
<1>3. CASE l.state \in {"starting", "running"}
  <2> HIDE DEF e
  <2>1. c \in Listener /\ Same(e, c)
    BY <1>1, close_acceptor_type, HelpersSame
  <2> HIDE DEF c
  <2>2. r \in Listener /\ Same(c, r)
    BY <2>1, cancel_retry_timer_type, HelpersSame
  <2> HIDE DEF r
  <2>3. p \in Listener /\ Same(r, p)
    BY <2>2, post_request_stop_type, HelpersSame
  <2> HIDE DEF p
  <2>4. a \in Listener /\ Same(p, a)
    BY <2>3, arm_shutdown_timer_type, HelpersSame
  <2> HIDE DEF a
  <2>5. Same(a, maybe_finish(a)) \/ Drains(a, maybe_finish(a))
    BY <2>4, maybe_finish_moves
  <2>6. begin_stop(l, ec, reason) = maybe_finish(a)
    BY <1>3 DEF begin_stop, a, p, r, c, e
  <2>7. QED
    BY <1>1, <1>3, <2>1, <2>2, <2>3, <2>4, <2>5, <2>6, Zenon DEF Moves, Same, Drains, Stops
<1>4. CASE l.state \notin {"idle", "starting", "running"}
  BY <1>4 DEF begin_stop, Moves, Same
<1>5. QED
  BY <1>2, <1>3, <1>4, Zenon

\* accept_next and retry_accept stop the listener or leave its lifecycle alone.
LEMMA accept_next_moves ==
  ASSUME NEW l \in Listener, NEW throws \in BOOLEAN, NEW reason \in StopReason
  PROVE  /\ Moves(l, accept_next(l, throws, reason))
         /\ ~throws /\ l.state \in {"starting", "running"} => Same(l, accept_next(l, throws, reason))
<1> DEFINE m == accept_next(l, throws, reason)
           d == record_diagnostic(l, "failed")
<1>1. CASE l.state \notin {"starting", "running"} \/ l.accept_pending
  <2>1. m = maybe_finish(l)
    BY <1>1 DEF accept_next
  <2>2. l.state \in {"starting", "running"} => ~Drains(l, m)
    BY DEF Drains
  <2>3. QED
    BY <2>1, <2>2, maybe_finish_moves DEF Moves
<1>2. CASE l.state \in {"starting", "running"} /\ ~l.accept_pending
  <2>1. CASE Cardinality(l.sessions) >= max_active_sessions
    BY <1>2, <2>1 DEF accept_next, Moves, Same
  <2>2. CASE ~(Cardinality(l.sessions) >= max_active_sessions) /\ throws
    <3>1. m = begin_stop(d, "failed", reason)
      BY <1>2, <2>2 DEF accept_next
    <3>2. d \in Listener /\ Same(l, d) /\ "failed" \in Error
      BY record_diagnostic_type, HelpersSame DEF Error, SessionResult
    <3> HIDE DEF d
    <3>3. Moves(d, begin_stop(d, "failed", reason))
      BY <1>2, <3>2, begin_stop_moves DEF Same
    <3>4. QED
      BY <2>2, <3>1, <3>2, <3>3, Zenon DEF Moves, Same, Drains, Stops
  <2>3. CASE ~(Cardinality(l.sessions) >= max_active_sessions) /\ ~throws
    <3>1. m = [l EXCEPT !.accept_pending = TRUE, !.acceptor = "accepting"]
      BY <1>2, <2>3 DEF accept_next
    <3>2. QED
      BY <3>1 DEF Moves, Same, Listener
  <2>4. QED
    BY <2>1, <2>2, <2>3
<1>3. QED
  BY <1>1, <1>2

\* A failed accept stops a listener that runs, or is retried.
LEMMA retry_accept_moves ==
  ASSUME NEW l \in Listener, NEW ec \in AcceptResult, l.state = "running"
  PROVE  Moves(l, retry_accept(l, ec))
<1> DEFINE f == record_diagnostic(l, ec)
           n == [f EXCEPT !.accept_errors = @ + 1]
<1>1. ec \in Error /\ "runtime_failure" \in StopReason
  BY DEF Error, StopReason
<1>2. f \in Listener /\ Same(l, f)
  BY <1>1, record_diagnostic_type, HelpersSame
<1> HIDE DEF f
<1>3. n \in Listener /\ Same(f, n)
  <2>1. f.accept_errors + 1 \in Nat
    BY <1>2 DEF Listener
  <2>2. QED
    BY <1>2, <2>1, Zenon DEF Listener, Same
<1> HIDE DEF n
<1>4. /\ Moves(f, begin_stop(f, ec, "runtime_failure"))
      /\ Moves(n, begin_stop(n, ec, "runtime_failure"))
  BY <1>1, <1>2, <1>3, begin_stop_moves DEF Same
<1>5. Same(n, arm_retry_timer(n))
  BY <1>3, HelpersSame
<1>6. \/ retry_accept(l, ec) = begin_stop(f, ec, "runtime_failure")
      \/ retry_accept(l, ec) = begin_stop(n, ec, "runtime_failure")
      \/ retry_accept(l, ec) = arm_retry_timer(n)
  BY DEF retry_accept, f, n
<1>7. QED
  BY <1>2, <1>3, <1>4, <1>5, <1>6, Zenon DEF Moves, Same, Drains, Stops

\* Member functions called one after the other.
LEMMA MovesThen ==
  ASSUME NEW l, NEW k, NEW m, Same(l, k) \/ Moves(l, k), Same(k, m) \/ Drains(k, m)
  PROVE  Moves(l, m)
BY DEF Moves, Same, Drains, Stops

LEMMA SameThen ==
  ASSUME NEW l, NEW k, NEW m, Same(l, k), Moves(k, m)
  PROVE  Moves(l, m)
BY DEF Moves, Same, Drains, Stops

\* What a step of the system does to the lifecycle.
Steps(l, m) ==
  \/ Moves(l, m)
  \/ /\ l.state \in {"idle", "stopped"} /\ m.state = "starting"
     /\ m.terminal_error = "ok" /\ m.waiters = l.waiters
  \/ /\ l.state = "starting" /\ m.state = "running"
     /\ m.terminal_error = l.terminal_error /\ m.waiters = l.waiters
  \/ l.state = "idle" /\ m.state = "stopped" /\ m.terminal_error = "ok" /\ m.waiters = {}
  \/ /\ m.state = l.state /\ m.terminal_error = l.terminal_error
     /\ \E w \in Waits :
          \/ l.state # "stopped" /\ m.waiters = l.waiters \cup {w}
          \/ m.waiters = l.waiters \ {w}

\* The handlers of the listener strand.
LEMMA StrandSteps ==
  ASSUME TypeOK, Strand
  PROVE  Steps(listener, listener')
<1>0. listener \in Listener /\ strand \in Seq(Handler)
  BY DEF TypeOK
<1>1. CASE start_without_effect
  <2>1. Head(strand).id \in Operation
    BY <1>0, <1>1, RunningHandler, HandlerShape, Literals, Zenon DEF start_without_effect
  <2>2. Same(listener, listener')
    BY <1>0, <1>1, <2>1, HelpersSame, Literals DEF start_without_effect
  <2>3. QED
    BY <2>2 DEF Steps, Moves
<1>2. CASE start_on_strand
  BY <1>0, <1>2 DEF start_on_strand, Steps, Listener
<1>3. CASE start_on_strand_opens
  <2> DEFINE i == Head(strand).id
             open == [listener EXCEPT !.acceptor = "open"]
             failed == complete_on(open, i, "fatal")
             threw == accept_next(open, TRUE, "startup_failure")
             began == accept_next(open, FALSE, "startup_failure")
             ran == [began EXCEPT !.state = "running"]
  <2>1. i \in Operation /\ listener.state = "starting"
    BY <1>0, <1>3, RunningHandler, HandlerShape, Literals DEF start_on_strand_opens
  <2>2. open \in Listener /\ Same(listener, open)
    BY <1>0, Zenon DEF Listener, Same
  <2>3. \/ listener' = finish(failed, "fatal", "startup_failure")
        \/ listener' = complete_on(threw, i, "failed")
        \/ listener' = complete_on(ran, i, "ok")
    BY <1>3, Zenon DEF start_on_strand_opens
  <2> HIDE DEF i, open
  <2>4. failed \in Listener /\ Same(open, failed)
    BY <2>1, <2>2, complete_on_type, HelpersSame, Literals
  <2>5. threw \in Listener /\ Moves(open, threw)
    BY <2>2, accept_next_type, accept_next_moves, Literals, Zenon
  <2>6. began \in Listener /\ Same(open, began)
    BY <2>1, <2>2, accept_next_type, accept_next_moves, Literals, Zenon DEF Same
  <2> HIDE DEF failed, threw, began
  <2>7. /\ ran \in Listener /\ ran.state = "running" /\ ran.waiters = began.waiters
        /\ ran.terminal_error = began.terminal_error
    BY <2>6, Zenon DEF Listener, State
  <2> HIDE DEF ran
  <2>8. CASE listener' = finish(failed, "fatal", "startup_failure")
    <3>1. failed.state # "stopped"
      BY <2>1, <2>2, <2>4 DEF Same
    <3>2. listener'.state = "stopped" /\ listener'.waiters = {}
      BY <2>4, <2>8, <3>1, finish_moves, Literals
    <3>3. QED
      BY <2>1, <3>2 DEF Steps, Moves, Stops
  <2>9. CASE listener' = complete_on(threw, i, "failed")
    <3>1. Same(threw, listener')
      BY <2>1, <2>5, <2>9, HelpersSame, Literals
    <3>2. QED
      BY <2>2, <2>5, <3>1, SameThen, MovesThen, Zenon DEF Steps
  <2>10. CASE listener' = complete_on(ran, i, "ok")
    <3>1. Same(ran, listener')
      BY <2>1, <2>7, <2>10, HelpersSame, Literals
    <3>2. QED
      BY <2>1, <2>2, <2>6, <2>7, <3>1 DEF Steps, Same
  <2>11. QED
    BY <2>3, <2>8, <2>9, <2>10
<1>4. CASE wait_on_strand
  <2>1. Head(strand).id \in Waits /\ Head(strand).id \in Operation
    BY <1>0, <1>4, RunningHandler, HandlerShape, Literals DEF wait_on_strand
  <2>2. listener.terminal_error \in Error
    BY <1>0 DEF Listener
  <2>3. \/ Same(listener, listener')
        \/ /\ listener.state # "stopped"
           /\ listener' = [listener EXCEPT !.waiters = @ \cup {Head(strand).id}]
    BY <1>0, <1>4, <2>1, <2>2, HelpersSame, Literals DEF wait_on_strand
  <2>4. QED
    BY <1>0, <2>1, <2>3, Zenon DEF Steps, Moves, Listener
<1>5. CASE cancel_wait
  <2> DEFINE i == Head(strand).id
             without == [listener EXCEPT !.waiters = @ \ {i}]
  <2>1. i \in Waits /\ i \in Operation
    BY <1>0, <1>5, RunningHandler, HandlerShape, Literals DEF cancel_wait
  <2>2. /\ without \in Listener /\ without.state = listener.state
        /\ without.terminal_error = listener.terminal_error
        /\ without.waiters = listener.waiters \ {i}
    BY <1>0, Zenon DEF Listener
  <2>3. listener' = complete_on(without, i, "aborted") \/ listener' = listener
    BY <1>5 DEF cancel_wait
  <2> HIDE DEF i, without
  <2>4. Same(without, listener') \/ Same(listener, listener')
    <3>1. Same(without, complete_on(without, i, "aborted"))
      BY <2>1, <2>2, HelpersSame, Literals, Zenon
    <3>2. Same(listener, listener)
      BY DEF Same
    <3>3. QED
      BY <2>3, <3>1, <3>2, Zenon
  <2>5. QED
    BY <2>1, <2>2, <2>4 DEF Steps, Moves, Same
<1>6. CASE stop_on_strand
  <2>1. listener' = begin_stop(listener, "ok", "requested")
    BY <1>6 DEF stop_on_strand
  <2>2. QED
    BY <1>0, <2>1, begin_stop_moves, Literals DEF Steps
<1>7. CASE accepted
  <2> DEFINE ec   == Head(strand).ec
             done == [listener EXCEPT !.accept_pending = FALSE]
             id   == Len(listener.connections) + 1
             kept(first) == [done EXCEPT !.accept_errors = 0,
                                         !.connections = Append(@, new_connection(first)),
                                         !.sessions = @ \cup {id}]
             noted == record_diagnostic(done, "failed")
             rejected == [noted EXCEPT !.accept_errors = 0,
                                       !.connections = Append(@, rejected_connection)]
  <2>1. ec \in AcceptResult
    BY <1>0, <1>7, RunningHandler, HandlerShape DEF accepted
  <2>2. done \in Listener /\ Same(listener, done)
    BY <1>0, Zenon DEF Listener, Same
  <2>3. done.connections \in Seq(Connection) /\ id \in Nat \ {0}
    BY <1>0 DEF Listener
  <2>4. \/ listener' = maybe_finish(done)
        \/ listener.state = "running" /\ listener' = retry_accept(done, ec)
        \/ \E throws \in BOOLEAN :
             \/ listener' = accept_next(rejected, throws, "runtime_failure")
             \/ \E first \in {"start", "force_close"} :
                  listener' = accept_next(kept(first), throws, "runtime_failure")
    BY <1>7 DEF accepted
  <2> HIDE DEF ec, done, id
  <2>5. noted \in Listener /\ Same(done, noted)
    BY <2>2, record_diagnostic_type, HelpersSame, Literals
  <2> HIDE DEF noted
  <2>6. rejected \in Listener /\ Same(noted, rejected)
    <3>1. rejected_connection \in Connection /\ noted.connections \in Seq(Connection)
      BY <2>5 DEF rejected_connection, Connection, Listener
    <3>2. Append(noted.connections, rejected_connection) \in Seq(Connection)
      BY <3>1
    <3>3. QED
      BY <2>5, <3>2, Zenon DEF Listener, Same
  <2>7. ASSUME NEW first \in {"start", "force_close"}
        PROVE  kept(first) \in Listener /\ Same(done, kept(first))
    <3>1. new_connection(first) \in Connection
      BY DEF new_connection, Connection
    <3>2. Append(done.connections, new_connection(first)) \in Seq(Connection)
      BY <2>3, <3>1
    <3>3. done.sessions \cup {id} \in SUBSET (Nat \ {0})
      BY <2>2, <2>3 DEF Listener
    <3>4. QED
      BY <2>2, <3>2, <3>3, Zenon DEF Listener, Same
  <2> HIDE DEF kept, rejected
  <2>8. CASE listener' = maybe_finish(done)
    BY <2>2, <2>8, maybe_finish_moves, MovesThen DEF Steps
  <2>9. CASE listener.state = "running" /\ listener' = retry_accept(done, ec)
    <3>1. Moves(done, listener')
      BY <2>1, <2>2, <2>9, retry_accept_moves DEF Same
    <3>2. QED
      BY <2>2, <3>1, SameThen DEF Steps
  <2>10. ASSUME NEW throws \in BOOLEAN, listener' = accept_next(rejected, throws, "runtime_failure")
         PROVE  Steps(listener, listener')
    <3>1. Moves(rejected, listener')
      BY <2>6, <2>10, accept_next_moves, Literals
    <3>2. Same(listener, rejected)
      BY <2>2, <2>5, <2>6 DEF Same
    <3>3. QED
      BY <3>1, <3>2, SameThen DEF Steps
  <2>11. ASSUME NEW throws \in BOOLEAN, NEW first \in {"start", "force_close"},
                listener' = accept_next(kept(first), throws, "runtime_failure")
         PROVE  Steps(listener, listener')
    <3>1. Moves(kept(first), listener')
      BY <2>7, <2>11, accept_next_moves, Literals
    <3>2. Same(listener, kept(first))
      BY <2>2, <2>7 DEF Same
    <3>3. QED
      BY <3>1, <3>2, SameThen DEF Steps
  <2>12. QED
    BY <2>4, <2>8, <2>9, <2>10, <2>11
<1>8. CASE session_finished
  <2> DEFINE ec     == Head(strand).ec
             erased == [listener EXCEPT !.sessions = @ \ {Head(strand).id}]
             noted  == IF ec \in {"ok", "aborted"} THEN erased
                                                   ELSE record_diagnostic(erased, ec)
             next(throws) == accept_next(noted, throws, "runtime_failure")
  <2>1. ec \in Error
    BY <1>0, <1>8, RunningHandler, HandlerShape, Literals DEF session_finished
  <2>2. erased \in Listener /\ Same(listener, erased)
    BY <1>0, Zenon DEF Listener, Same
  <2>3. noted \in Listener /\ Same(listener, noted)
    <3> HIDE DEF erased
    <3>1. record_diagnostic(erased, ec) \in Listener /\ Same(erased, record_diagnostic(erased, ec))
      BY <2>1, <2>2, record_diagnostic_type, HelpersSame
    <3>2. QED
      BY <2>2, <3>1 DEF Same
  <2>4. \/ listener' = maybe_finish(noted)
        \/ \E throws \in BOOLEAN : listener' = maybe_finish(next(throws))
    BY <1>8 DEF session_finished
  <2> HIDE DEF noted
  <2>5. ASSUME NEW throws \in BOOLEAN
        PROVE  next(throws) \in Listener /\ Moves(listener, next(throws))
    BY <2>3, accept_next_type, accept_next_moves, SameThen, Literals
  <2> HIDE DEF next
  <2>6. QED
    BY <2>3, <2>4, <2>5, maybe_finish_moves, MovesThen, Zenon DEF Steps
<1>9. CASE retry_timer_handler
  <2>1. \/ listener' = maybe_finish(listener)
        \/ \E throws \in BOOLEAN : listener' = accept_next(listener, throws, "runtime_failure")
    BY <1>9 DEF retry_timer_handler
  <2>2. QED
    BY <1>0, <2>1, maybe_finish_moves, accept_next_moves, Literals, Zenon DEF Steps, Moves
<1>10. CASE shutdown_timer_handler
  <2> DEFINE noted == record_diagnostic(listener, "timed_out")
  <2>1. noted \in Listener /\ Same(listener, noted)
    BY <1>0, record_diagnostic_type, HelpersSame, Literals
  <2>2. listener' = post_force_close(noted)
    BY <1>10 DEF shutdown_timer_handler
  <2> HIDE DEF noted
  <2>3. Same(noted, listener')
    BY <2>1, <2>2, HelpersSame
  <2>4. QED
    BY <2>1, <2>3 DEF Steps, Moves, Same
<1>11. QED
  BY <1>1, <1>2, <1>3, <1>4, <1>5, <1>6, <1>7, <1>8, <1>9, <1>10 DEF Strand

\* Completions and sessions do not touch the lifecycle.
LEMMA OtherSteps ==
  ASSUME TypeOK, Client \/ InputOutput \/ Sessions
  PROVE  Same(listener, listener')
<1>0. listener \in Listener
  BY DEF TypeOK
<1>1. CASE Client
  <2>1. listener' = listener
    BY <1>1, Zenon DEF Client, do_async_start, do_async_wait, CancelStart, CancelWait, request_stop, post_stop
  <2>2. QED
    BY <2>1 DEF Same
<1>2. CASE InputOutput
  BY <1>0, <1>2, Zenon DEF InputOutput, accept_completes, retry_timer_expires, shutdown_timer_expires,
                    deliver, Same, Listener
<1>3. CASE Sessions
  <2>1. \E x : listener' = [listener EXCEPT !.connections = x]
    BY <1>3, Zenon DEF Sessions, ConnectionStrand, connection_start, connection_request_stop,
                connection_force_close, session_completes, connection_finish
  <2>2. QED
    BY <1>0, <2>1 DEF Same, Listener
<1>4. QED
  BY <1>1, <1>2, <1>3

\* A generation begins without an error.
StartsClean == listener.state \in {"idle", "starting"} => listener.terminal_error = "ok"

\* ImplementsLifecycle: whatever is called, accepted, cancelled and times out, the
\* listener goes through the states every listener promises, keeps the error of
\* the generation and loses no waiter.
THEOREM Refinement == Spec => ImplementsLifecycle
<1>1. Init => StartsClean /\ Lifecycle!Init
  BY DEF Init, StartsClean, Lifecycle!Init
<1>2. TypeOK /\ StartsClean /\ [Next]_vars => StartsClean' /\ [Lifecycle!Next]_(Lifecycle!lifecycle)
  <2> SUFFICES ASSUME TypeOK, StartsClean, [Next]_vars
               PROVE  StartsClean' /\ [Lifecycle!Next]_(Lifecycle!lifecycle)
    OBVIOUS
  <2>1. Steps(listener, listener')
    <3>1. CASE UNCHANGED vars
      BY <3>1 DEF vars, Steps, Moves, Same
    <3>2. CASE Next
      BY <3>2, StrandSteps, OtherSteps, Zenon DEF Next, Steps, Moves
    <3>3. QED
      BY <3>1, <3>2
  <2>2. StartsClean'
    BY <2>1 DEF StartsClean, Steps, Moves, Same, Drains, Stops
  <2>3. [Lifecycle!Next]_(Lifecycle!lifecycle)
    <3> USE DEF Lifecycle!Next, Lifecycle!lifecycle
    <3>1. CASE Same(listener, listener')
      BY <3>1 DEF Same
    <3>2. CASE Drains(listener, listener')
      BY <3>2 DEF Drains, Lifecycle!Drained
    <3>3. CASE Stops(listener, listener')
      BY <3>3 DEF Stops, Lifecycle!BeginStop, Lifecycle!StopAtOnce
    <3>4. CASE /\ listener.state \in {"idle", "stopped"} /\ listener'.state = "starting"
               /\ listener'.terminal_error = "ok" /\ listener'.waiters = listener.waiters
      BY <3>4 DEF Lifecycle!Start
    <3>5. CASE /\ listener.state = "starting" /\ listener'.state = "running"
               /\ listener'.terminal_error = listener.terminal_error
               /\ listener'.waiters = listener.waiters
      BY <3>5 DEF StartsClean, Lifecycle!StartSucceeds
    <3>6. CASE /\ listener.state = "idle" /\ listener'.state = "stopped"
               /\ listener'.terminal_error = "ok" /\ listener'.waiters = {}
      BY <3>6 DEF Lifecycle!StopAtOnce
    <3>7. CASE /\ listener'.state = listener.state
               /\ listener'.terminal_error = listener.terminal_error
               /\ \E w \in Waits :
                    \/ listener.state # "stopped" /\ listener'.waiters = listener.waiters \cup {w}
                    \/ listener'.waiters = listener.waiters \ {w}
      BY <3>7 DEF Lifecycle!Wait, Lifecycle!CancelWait
    <3>8. QED
      BY <2>1, <3>1, <3>2, <3>3, <3>4, <3>5, <3>6, <3>7, Zenon DEF Steps, Moves
  <2>4. QED
    BY <2>2, <2>3
<1>3. QED
  BY <1>1, <1>2, TypeCorrect, PTL DEF Spec, ImplementsLifecycle, Lifecycle!Spec

-----------------------------------------------------------------------------
(* What the member functions leave alone *)

\* Accepts that left the listener and did not reach the strand.
Flying(l, ec) == l.in_flight[AcceptDone(ec)]

Outstanding(l) ==
  (IF l.acceptor = "accepting" THEN 1 ELSE 0)
    + Flying(l, "ok") + Flying(l, "transient") + Flying(l, "fatal") + Flying(l, "aborted")

\* The accept m_accept_pending stands for.
Pending(l) == IF l.accept_pending THEN 1 ELSE 0

\* What the member functions leave alone, and how finish releases the waiters.
Unmoved(l, m) ==
  /\ m.accept_pending = l.accept_pending /\ m.sessions = l.sessions
  /\ Outstanding(m) = Outstanding(l)

Silent(l, m) == m.waiters = l.waiters /\ m.completions = l.completions

Releases(l, m) ==
  /\ m.state = "stopped" /\ m.waiters = {}
  /\ m.completions = [i \in Operation |->
                        IF i \in l.waiters THEN Append(l.completions[i], m.terminal_error)
                                           ELSE l.completions[i]]

Quiet(l, m) == Unmoved(l, m) /\ Silent(l, m)
Tells(l, m) == Unmoved(l, m) /\ (Silent(l, m) \/ Releases(l, m))

\* The completions are different keys of in_flight.
LEMMA CompletionsApart ==
  /\ \A a, b \in AcceptResult : AcceptDone(a) = AcceptDone(b) => a = b
  /\ \A a \in AcceptResult : \A b : AcceptDone(a) # RetryDone(b) /\ AcceptDone(a) # ShutdownDue
  /\ RetryDone("ok") # RetryDone("aborted")
  /\ \A b : RetryDone(b) # ShutdownDue
  /\ AcceptResult = {"ok", "transient", "fatal", "aborted"}
BY DEF AcceptDone, RetryDone, ShutdownDue, AcceptResult

\* The accepts outstanding are a number.
LEMMA OutstandingNat ==
  ASSUME NEW l \in Listener
  PROVE  /\ \A ec \in AcceptResult : Flying(l, ec) \in Nat
         /\ Outstanding(l) \in Nat
         /\ l.acceptor = "accepting" => Outstanding(l) >= 1
         /\ Pending(l) \in {0, 1}
<1>1. \A ec \in AcceptResult : Flying(l, ec) \in Nat
  BY CompletionMembers DEF Flying, Listener
<1>2. QED
  BY <1>1 DEF Outstanding, AcceptResult, Pending

\* Only the acceptor and the accepts in flight count.
LEMMA SameOutstanding ==
  ASSUME NEW l, NEW m, m.acceptor = l.acceptor,
         \A ec \in AcceptResult : m.in_flight[AcceptDone(ec)] = l.in_flight[AcceptDone(ec)]
  PROVE  Outstanding(m) = Outstanding(l)
BY DEF Outstanding, Flying, AcceptResult

\* A completion that is no accept leaves or reaches in_flight.
LEMMA OtherInFlight ==
  ASSUME NEW l \in Listener, NEW c \in {RetryDone("ok"), RetryDone("aborted"), ShutdownDue}, NEW n
  PROVE  \A ec \in AcceptResult : [l.in_flight EXCEPT ![c] = n][AcceptDone(ec)] = l.in_flight[AcceptDone(ec)]
BY CompletionsApart, CompletionMembers DEF Listener

\* Closing the acceptor hands its accept over to in_flight.
LEMMA close_acceptor_quiet ==
  ASSUME NEW l \in Listener
  PROVE  Quiet(l, close_acceptor(l))
<1> DEFINE m == close_acceptor(l)
           a == AcceptDone("aborted")
<1>1. /\ m.accept_pending = l.accept_pending /\ m.sessions = l.sessions
      /\ m.waiters = l.waiters /\ m.completions = l.completions
      /\ m.acceptor = "closed"
      /\ m.in_flight = [l.in_flight EXCEPT ![a] = IF l.acceptor = "accepting" THEN @ + 1 ELSE @]
  BY DEF close_acceptor, Listener
<1>2. l.in_flight \in [Completion -> Nat]
  BY DEF Listener
<1> HIDE DEF m
<1>3. /\ m.in_flight[a] = IF l.acceptor = "accepting" THEN l.in_flight[a] + 1 ELSE l.in_flight[a]
      /\ \A ec \in {"ok", "transient", "fatal"} : m.in_flight[AcceptDone(ec)] = l.in_flight[AcceptDone(ec)]
  BY <1>1, <1>2, CompletionsApart, CompletionMembers
<1>4. Outstanding(m) = Outstanding(l)
  BY <1>1, <1>3, OutstandingNat DEF Outstanding, Flying, AcceptResult
<1>5. Quiet(l, m)
  BY <1>1, <1>4 DEF Quiet, Unmoved, Silent
<1>6. QED
  BY <1>5 DEF m

\* Cancelling or arming a timer.
LEMMA TimersQuiet ==
  ASSUME NEW l \in Listener
  PROVE  /\ Quiet(l, cancel_retry_timer(l))
         /\ Quiet(l, arm_retry_timer(l)) /\ arm_retry_timer(l).retry_timer
         /\ Quiet(l, cancel_shutdown_timer(l))
         /\ Quiet(l, arm_shutdown_timer(l))
<1> DEFINE c == cancel_retry_timer(l)
           a == arm_retry_timer(l)
           n == IF l.retry_timer THEN l.in_flight[RetryDone("aborted")] + 1
                                 ELSE l.in_flight[RetryDone("aborted")]
<1>1. /\ c.acceptor = l.acceptor /\ c.accept_pending = l.accept_pending /\ c.sessions = l.sessions
      /\ c.waiters = l.waiters /\ c.completions = l.completions
      /\ c.in_flight = [l.in_flight EXCEPT ![RetryDone("aborted")] = n]
  BY CompletionMembers DEF cancel_retry_timer, Listener
<1>2. /\ a.acceptor = c.acceptor /\ a.accept_pending = c.accept_pending /\ a.sessions = c.sessions
      /\ a.waiters = c.waiters /\ a.completions = c.completions
      /\ a.in_flight = c.in_flight /\ a.retry_timer
  <2>1. c \in Listener
    BY cancel_retry_timer_type
  <2>2. QED
    BY <2>1 DEF arm_retry_timer, Listener
<1> HIDE DEF c, a, n
<1>3. \A ec \in AcceptResult : c.in_flight[AcceptDone(ec)] = l.in_flight[AcceptDone(ec)]
  BY <1>1, OtherInFlight
<1>4. Quiet(l, c) /\ Quiet(l, a)
  BY <1>1, <1>2, <1>3, SameOutstanding, Zenon DEF Quiet, Unmoved, Silent
<1>5. Quiet(l, cancel_shutdown_timer(l)) /\ Quiet(l, arm_shutdown_timer(l))
  BY SameOutstanding, Zenon DEF cancel_shutdown_timer, arm_shutdown_timer, Listener, Quiet, Unmoved, Silent
<1>6. QED
  BY <1>2, <1>4, <1>5 DEF c, a

\* Posting to connections, diagnostics and the entry into stopping.
LEMMA OthersQuiet ==
  ASSUME NEW l \in Listener
  PROVE  /\ Quiet(l, post_request_stop(l)) /\ Quiet(l, post_force_close(l))
         /\ \A ec \in Error : Quiet(l, record_diagnostic(l, ec))
         /\ \A ec \in Error, reason \in StopReason : Quiet(l, enter_stopping(l, ec, reason))
<1> USE DEF Quiet, Unmoved, Silent, Outstanding, Flying, Listener
<1>1. Quiet(l, post_request_stop(l))
  BY DEF post_request_stop
<1>2. Quiet(l, post_force_close(l))
  BY DEF post_force_close
<1>3. \A ec \in Error : Quiet(l, record_diagnostic(l, ec))
  BY DEF record_diagnostic
<1>4. \A ec \in Error, reason \in StopReason : Quiet(l, enter_stopping(l, ec, reason))
  BY DEF enter_stopping
<1>5. QED
  BY <1>1, <1>2, <1>3, <1>4, Zenon

\* One call after the other.
LEMMA QuietThen ==
  ASSUME NEW l, NEW k, NEW m, Quiet(l, k)
  PROVE  (Quiet(k, m) => Quiet(l, m)) /\ (Tells(k, m) => Tells(l, m))
BY DEF Quiet, Tells, Unmoved, Silent, Releases

\* finish releases every waiter with the error the listener stopped with.
LEMMA finish_tells ==
  ASSUME NEW l \in Listener, NEW ec \in Error, NEW reason \in StopReason, l.state # "stopped"
  PROVE  /\ Unmoved(l, finish(l, ec, reason)) /\ Releases(l, finish(l, ec, reason))
<1> DEFINE a == close_acceptor(l)
           b == cancel_retry_timer(a)
           c == cancel_shutdown_timer(b)
           g == [i \in Operation |->
                   IF i \in l.waiters THEN Append(l.completions[i], ec) ELSE l.completions[i]]
           m == finish(l, ec, reason)
<1>1. a \in Listener /\ Quiet(l, a)
  BY close_acceptor_type, close_acceptor_quiet
<1> HIDE DEF a
<1>2. b \in Listener /\ Quiet(l, b)
  BY <1>1, cancel_retry_timer_type, TimersQuiet, QuietThen
<1> HIDE DEF b
<1>3. c \in Listener /\ Quiet(l, c)
  BY <1>2, cancel_shutdown_timer_type, TimersQuiet, QuietThen
<1>4. m = [c EXCEPT !.terminal_error = ec,
                    !.stop_reason = reason,
                    !.last_error = IF @ = "ok" THEN ec ELSE @,
                    !.state = "stopped",
                    !.completions = g,
                    !.waiters = {}]
  BY DEF finish, a, b
<1> HIDE DEF c, m, g
<1>5. /\ m.state = "stopped" /\ m.waiters = {} /\ m.terminal_error = ec /\ m.completions = g
      /\ m.accept_pending = c.accept_pending /\ m.sessions = c.sessions
      /\ m.acceptor = c.acceptor /\ m.in_flight = c.in_flight
  BY <1>3, <1>4 DEF Listener
<1>6. Unmoved(l, m)
  BY <1>3, <1>5, SameOutstanding DEF Quiet, Unmoved
<1>7. Releases(l, m)
  BY <1>5 DEF Releases, g
<1>8. QED
  BY <1>6, <1>7 DEF m

\* maybe_finish does so, or nothing.
LEMMA maybe_finish_tells ==
  ASSUME NEW l \in Listener
  PROVE  /\ Tells(l, maybe_finish(l))
         /\ \/ maybe_finish(l) = l
            \/ l.state = "stopping" /\ maybe_finish(l).state = "stopped"
<1>1. l.terminal_error \in Error /\ l.stop_reason \in StopReason
  BY DEF Listener
<1>2. Quiet(l, l)
  BY DEF Quiet, Unmoved, Silent
<1>3. CASE l.state = "stopping" /\ ~l.accept_pending /\ l.sessions = {}
  <2>1. maybe_finish(l) = finish(l, l.terminal_error, l.stop_reason)
    BY <1>3 DEF maybe_finish
  <2>2. QED
    BY <1>1, <1>3, <2>1, finish_tells DEF Tells, Releases
<1>4. CASE ~(l.state = "stopping" /\ ~l.accept_pending /\ l.sessions = {})
  <2>1. maybe_finish(l) = l
    BY <1>4 DEF maybe_finish
  <2>2. Tells(l, l)
    BY <1>2 DEF Tells, Quiet
  <2>3. QED
    BY <2>1, <2>2
<1>5. QED
  BY <1>3, <1>4

\* begin_stop keeps the accepts counted, and the listener does not run on.
LEMMA begin_stop_tells ==
  ASSUME NEW l \in Listener, NEW ec \in Error, NEW reason \in StopReason
  PROVE  /\ Tells(l, begin_stop(l, ec, reason))
         /\ begin_stop(l, ec, reason).state \in {"stopping", "stopped"}
<1> DEFINE e == enter_stopping(l, ec, reason)
           a == close_acceptor(e)
           b == cancel_retry_timer(a)
           c == post_request_stop(b)
           d == arm_shutdown_timer(c)
<1>1. e \in Listener /\ e.state = "stopping" /\ Quiet(l, e)
  BY enter_stopping_type, OthersQuiet, Zenon DEF enter_stopping, Listener
<1> HIDE DEF e
<1>2. CASE l.state = "idle"
  <2>1. begin_stop(l, ec, reason) = finish(e, ec, reason)
    BY <1>2 DEF begin_stop, e
  <2>2. e.state # "stopped"
    BY <1>1
  <2>3. Tells(e, finish(e, ec, reason)) /\ finish(e, ec, reason).state = "stopped"
    BY <1>1, <2>2, finish_tells DEF Tells, Releases
  <2>4. QED
    BY <1>1, <2>1, <2>3, QuietThen
<1>3. CASE l.state \in {"starting", "running"}
  <2>1. begin_stop(l, ec, reason) = maybe_finish(d)
    BY <1>3 DEF begin_stop, e
  <2>2. a \in Listener /\ a.state = "stopping" /\ Quiet(l, a)
    BY <1>1, close_acceptor_type, close_acceptor_quiet, SameCoreHelpers, QuietThen, Zenon DEF SameCore
  <2> HIDE DEF a
  <2>3. b \in Listener /\ b.state = "stopping" /\ Quiet(l, b)
    BY <2>2, cancel_retry_timer_type, TimersQuiet, SameCoreHelpers, QuietThen DEF SameCore
  <2> HIDE DEF b
  <2>4. c \in Listener /\ c.state = "stopping" /\ Quiet(l, c)
    <3>1. c \in Listener /\ Quiet(l, c)
      BY <2>3, post_request_stop_type, OthersQuiet, QuietThen
    <3>2. c.state = b.state
      BY <2>3 DEF post_request_stop, Listener
    <3>3. QED
      BY <2>3, <3>1, <3>2
  <2> HIDE DEF c
  <2>5. d \in Listener /\ d.state = "stopping" /\ Quiet(l, d)
    BY <2>4, arm_shutdown_timer_type, TimersQuiet, SameCoreHelpers, QuietThen DEF SameCore
  <2> HIDE DEF d
  <2>6. Tells(d, maybe_finish(d)) /\ maybe_finish(d).state \in {"stopping", "stopped"}
    BY <2>5, maybe_finish_tells
  <2>7. QED
    BY <2>1, <2>5, <2>6, QuietThen
<1>4. CASE l.state \in {"stopping", "stopped"}
  <2>1. begin_stop(l, ec, reason) = l
    BY <1>4 DEF begin_stop
  <2>2. QED
    BY <1>4, <2>1 DEF Tells, Unmoved, Silent
<1>5. QED
  BY <1>2, <1>3, <1>4 DEF Listener, State

\* A new accept: it is counted, and there is room for its session.
Begins(l, m) ==
  /\ l.state \in {"starting", "running"} /\ m.state = l.state
  /\ ~l.accept_pending /\ m.accept_pending
  /\ Outstanding(m) = Outstanding(l) + 1
  /\ ~(Cardinality(l.sessions) >= max_active_sessions) /\ m.sessions = l.sessions
  /\ Silent(l, m)

\* accept_next begins an accept, or stops, or has a reason not to accept.
LEMMA accept_next_tells ==
  ASSUME NEW l \in Listener, NEW throws \in BOOLEAN, NEW reason \in StopReason,
         l.acceptor = "accepting" => l.accept_pending
  PROVE  LET m == accept_next(l, throws, reason)
         IN  /\ \/ Begins(l, m)
                \/ /\ Tells(l, m)
                   /\ m.state \in {"starting", "running"} =>
                        /\ m = l
                        /\ l.accept_pending \/ Cardinality(l.sessions) >= max_active_sessions
             /\ ~throws /\ l.state \in {"starting", "running"} => m.state = l.state
<1> DEFINE m == accept_next(l, throws, reason)
           r == record_diagnostic(l, "failed")
           p == [l EXCEPT !.accept_pending = TRUE, !.acceptor = "accepting"]
<1>1. CASE l.state \notin {"starting", "running"} \/ l.accept_pending
  <2>1. m = maybe_finish(l)
    BY <1>1 DEF accept_next
  <2>2. QED
    BY <1>1, <2>1, maybe_finish_tells
<1>2. CASE l.state \in {"starting", "running"} /\ ~l.accept_pending
  <2>1. CASE Cardinality(l.sessions) >= max_active_sessions
    <3>1. m = l
      BY <1>2, <2>1 DEF accept_next
    <3>2. QED
      BY <2>1, <3>1 DEF Tells, Unmoved, Silent
  <2>2. CASE ~(Cardinality(l.sessions) >= max_active_sessions) /\ throws
    <3>1. m = begin_stop(r, "failed", reason)
      BY <1>2, <2>2 DEF accept_next
    <3>2. r \in Listener /\ Quiet(l, r)
      BY record_diagnostic_type, OthersQuiet, Literals
    <3> HIDE DEF r
    <3>3. Tells(r, begin_stop(r, "failed", reason)) /\ begin_stop(r, "failed", reason).state \in {"stopping", "stopped"}
      BY <3>2, begin_stop_tells, Literals
    <3>4. QED
      BY <2>2, <3>1, <3>2, <3>3, QuietThen, Zenon
  <2>3. CASE ~(Cardinality(l.sessions) >= max_active_sessions) /\ ~throws
    <3>1. m = p
      BY <1>2, <2>3 DEF accept_next
    <3>2. /\ p.accept_pending /\ p.acceptor = "accepting" /\ p.in_flight = l.in_flight
          /\ p.sessions = l.sessions /\ p.state = l.state
          /\ p.waiters = l.waiters /\ p.completions = l.completions
      BY DEF Listener
    <3> HIDE DEF p
    <3>3. Outstanding(p) = Outstanding(l) + 1
      BY <1>2, <3>2, OutstandingNat DEF Outstanding, Flying, AcceptResult
    <3>4. QED
      BY <1>2, <2>3, <3>1, <3>2, <3>3 DEF Begins, Silent
  <2>4. QED
    BY <2>1, <2>2, <2>3
<1>3. QED
  BY <1>1, <1>2

\* After an accept error the listener stops, or a retry is on its way.
LEMMA retry_accept_tells ==
  ASSUME NEW l \in Listener, NEW ec \in Error
  PROVE  /\ Tells(l, retry_accept(l, ec))
         /\ retry_accept(l, ec).state \in {"stopping", "stopped"} \/ retry_accept(l, ec).retry_timer
<1> DEFINE failed == record_diagnostic(l, ec)
           counted == [failed EXCEPT !.accept_errors = @ + 1]
<1>1. failed \in Listener /\ Quiet(l, failed)
  BY record_diagnostic_type, OthersQuiet
<1> HIDE DEF failed
<1>2. counted \in Listener /\ Quiet(failed, counted)
  <2>1. failed.accept_errors + 1 \in Nat
    BY <1>1 DEF Listener
  <2>2. counted \in Listener
    BY <1>1, <2>1, Zenon DEF Listener
  <2>3. Quiet(failed, counted)
    BY <1>1 DEF Quiet, Unmoved, Silent, Outstanding, Flying, Listener
  <2>4. QED
    BY <2>2, <2>3
<1> HIDE DEF counted
<1>3. Quiet(l, counted)
  BY <1>1, <1>2, QuietThen
<1>4. "runtime_failure" \in StopReason
  BY DEF StopReason
<1>5. \/ retry_accept(l, ec) = begin_stop(failed, ec, "runtime_failure")
      \/ retry_accept(l, ec) = begin_stop(counted, ec, "runtime_failure")
      \/ retry_accept(l, ec) = arm_retry_timer(counted)
  BY DEF retry_accept, failed, counted
<1>6. CASE retry_accept(l, ec) = begin_stop(failed, ec, "runtime_failure")
  BY <1>1, <1>4, <1>6, begin_stop_tells, QuietThen, Zenon
<1>7. CASE retry_accept(l, ec) = begin_stop(counted, ec, "runtime_failure")
  BY <1>2, <1>3, <1>4, <1>7, begin_stop_tells, QuietThen, Zenon
<1>8. CASE retry_accept(l, ec) = arm_retry_timer(counted)
  BY <1>2, <1>3, <1>8, TimersQuiet, QuietThen DEF Tells, Quiet
<1>9. QED
  BY <1>5, <1>6, <1>7, <1>8

-----------------------------------------------------------------------------
(***************************************************************************)
(* The books of the accept loop.  Each is a predicate of the listener      *)
(* record and of the strand, so that it can be followed through the calls  *)
(* of a handler whose entry is already taken off the strand.               *)
(***************************************************************************)

\* The completions of accepts.
Accepts == {h \in Handler : h.op = "accepted"}

\* m_accept_pending counts the accepts wherever they are.
Queued(s)      == IF Meets(s, Accepts) THEN 1 ELSE 0
Balanced(l, s) == MeetsOnce(s, Accepts) /\ Outstanding(l) + Queued(s) = Pending(l)

\* There is room for the session an outstanding accept may bring.
Room(l) ==
  /\ IsFiniteSet(l.sessions) /\ Cardinality(l.sessions) \in Nat
  /\ Cardinality(l.sessions) + Pending(l) <= max_active_sessions

\* The accept loop goes on.
Retries(l, s) ==
  \/ l.retry_timer
  \/ l.in_flight[RetryDone("ok")] > 0
  \/ Meets(s, {RetryDone("ok")})

Alive(l, s) ==
  l.state = "running" =>
    l.accept_pending \/ Retries(l, s) \/ Cardinality(l.sessions) >= max_active_sessions

Books(l, s) == Balanced(l, s) /\ Room(l) /\ Alive(l, s)

\* Member functions that leave the accepts alone.
LEMMA UnmovedBooks ==
  ASSUME NEW l, NEW m, NEW s, Unmoved(l, m), Balanced(l, s), Room(l)
  PROVE  Balanced(m, s) /\ Room(m)
BY DEF Unmoved, Balanced, Room, Pending

\* What leaves the loop alone, too.
LEMMA SameBooks ==
  ASSUME NEW l, NEW m, NEW s, Books(l, s), Unmoved(l, m), m.state = l.state,
         m.retry_timer = l.retry_timer, m.in_flight = l.in_flight
  PROVE  Books(m, s)
<1>1. Balanced(m, s) /\ Room(m)
  BY UnmovedBooks DEF Books
<1>2. Alive(m, s)
  BY DEF Books, Alive, Retries, Unmoved
<1>3. QED
  BY <1>1, <1>2 DEF Books

\* Completing a call.
LEMMA CompleteBooks ==
  ASSUME NEW l \in Listener, NEW s, NEW i \in Operation, NEW ec \in Error, Books(l, s)
  PROVE  Books(complete_on(l, i, ec), s)
<1> DEFINE m == complete_on(l, i, ec)
<1>1. /\ Unmoved(l, m) /\ m.state = l.state
      /\ m.retry_timer = l.retry_timer /\ m.in_flight = l.in_flight
  BY DEF complete_on, Listener, Unmoved, Outstanding, Flying
<1> HIDE DEF m
<1>2. Books(m, s)
  BY <1>1, SameBooks
<1>3. QED
  BY <1>2 DEF m

\* maybe_finish keeps the books.
LEMMA MaybeFinishBooks ==
  ASSUME NEW l \in Listener, NEW s, Books(l, s)
  PROVE  LET m == maybe_finish(l)
         IN  Books(m, s) /\ (Silent(l, m) \/ Releases(l, m))
<1> DEFINE m == maybe_finish(l)
<1>1. Tells(l, m) /\ (m = l \/ m.state = "stopped")
  BY maybe_finish_tells
<1> HIDE DEF m
<1>2. Balanced(m, s) /\ Room(m) /\ (Silent(l, m) \/ Releases(l, m))
  BY <1>1, UnmovedBooks DEF Tells, Books
<1>3. Alive(m, s)
  BY <1>1 DEF Books, Alive
<1>4. QED
  BY <1>2, <1>3 DEF m, Books

\* begin_stop keeps the books.
LEMMA BeginStopBooks ==
  ASSUME NEW l \in Listener, NEW s, NEW ec \in Error, NEW reason \in StopReason, Books(l, s)
  PROVE  LET m == begin_stop(l, ec, reason)
         IN  Books(m, s) /\ (Silent(l, m) \/ Releases(l, m))
<1> DEFINE m == begin_stop(l, ec, reason)
<1>1. Tells(l, m) /\ m.state \in {"stopping", "stopped"}
  BY begin_stop_tells
<1> HIDE DEF m
<1>2. Balanced(m, s) /\ Room(m) /\ (Silent(l, m) \/ Releases(l, m))
  BY <1>1, UnmovedBooks DEF Tells, Books
<1>3. Alive(m, s)
  BY <1>1 DEF Alive
<1>4. QED
  BY <1>2, <1>3 DEF m, Books

\* accept_next keeps the books, and leaves the loop alive even if it was not.
LEMMA AcceptNextBooks ==
  ASSUME NEW l \in Listener, NEW s \in Seq(Handler), NEW throws \in BOOLEAN,
         NEW reason \in StopReason, Balanced(l, s), Room(l)
  PROVE  LET m == accept_next(l, throws, reason)
         IN  /\ Books(m, s) /\ (Silent(l, m) \/ Releases(l, m))
             /\ m.state \in {"starting", "running"} =>
                  m.accept_pending \/ Cardinality(m.sessions) >= max_active_sessions
             /\ ~throws /\ l.state \in {"starting", "running"} => m.state = l.state
<1> DEFINE m == accept_next(l, throws, reason)
<1>0. Queued(s) \in {0, 1} /\ Outstanding(l) \in Nat /\ Pending(l) \in {0, 1}
  BY OutstandingNat DEF Queued
<1>1. l.acceptor = "accepting" => l.accept_pending
  BY <1>0, OutstandingNat DEF Balanced, Pending
<1>2. /\ \/ Begins(l, m)
         \/ /\ Tells(l, m)
            /\ m.state \in {"starting", "running"} =>
                 m = l /\ (l.accept_pending \/ Cardinality(l.sessions) >= max_active_sessions)
      /\ ~throws /\ l.state \in {"starting", "running"} => m.state = l.state
  BY <1>1, accept_next_tells
<1> HIDE DEF m
<1>3. CASE Begins(l, m)
  <2>1. Balanced(m, s)
    BY <1>0, <1>3 DEF Balanced, Begins, Pending
  <2>2. Cardinality(l.sessions) \in Nat
    BY DEF Room
  <2>3. Room(m)
    BY <1>3, <2>2, OptionsAssumption DEF Room, Begins, Pending
  <2>4. Alive(m, s) /\ Silent(l, m) /\ m.accept_pending
    BY <1>3 DEF Begins, Alive
  <2>5. QED
    BY <1>2, <2>1, <2>3, <2>4 DEF Books, m
<1>4. CASE /\ Tells(l, m)
           /\ m.state \in {"starting", "running"} =>
                m = l /\ (l.accept_pending \/ Cardinality(l.sessions) >= max_active_sessions)
  <2>1. Balanced(m, s) /\ Room(m) /\ (Silent(l, m) \/ Releases(l, m))
    BY <1>4, UnmovedBooks DEF Tells
  <2>2. m.state \in {"starting", "running"} =>
          m.accept_pending \/ Cardinality(m.sessions) >= max_active_sessions
    BY <1>4
  <2>3. Alive(m, s)
    BY <2>2 DEF Alive
  <2>4. QED
    BY <1>2, <2>1, <2>2, <2>3 DEF Books, m
<1>5. QED
  BY <1>2, <1>3, <1>4

\* retry_accept, too.
LEMMA RetryAcceptBooks ==
  ASSUME NEW l \in Listener, NEW s, NEW ec \in Error, Balanced(l, s), Room(l)
  PROVE  LET m == retry_accept(l, ec)
         IN  Books(m, s) /\ (Silent(l, m) \/ Releases(l, m))
<1> DEFINE m == retry_accept(l, ec)
<1>1. Tells(l, m) /\ (m.state \in {"stopping", "stopped"} \/ m.retry_timer)
  BY retry_accept_tells
<1> HIDE DEF m
<1>2. Balanced(m, s) /\ Room(m) /\ (Silent(l, m) \/ Releases(l, m))
  BY <1>1, UnmovedBooks DEF Tells
<1>3. Alive(m, s)
  BY <1>1 DEF Alive, Retries
<1>4. QED
  BY <1>2, <1>3 DEF m, Books

\* A handler taken off the strand: an accept is no longer counted, and only the
\* expiry of the retry timer matters to the loop.
LEMMA BooksPop ==
  ASSUME NEW l \in Listener, NEW s \in Seq(Handler), s # << >>, Books(l, s)
  PROVE  /\ Room(l)
         /\ Head(s).op # "accepted" => Balanced(l, Tail(s))
         /\ Head(s).op # "accepted" /\ Head(s) # RetryDone("ok") => Books(l, Tail(s))
         /\ Head(s).op = "accepted" =>
              l.accept_pending /\ Outstanding(l) = 0 /\ ~Meets(Tail(s), Accepts)
<1>1. Head(s) \in Handler /\ Tail(s) \in Seq(Handler)
  BY TailMeets
<1>2. Head(s) \in Accepts <=> Head(s).op = "accepted"
  BY <1>1 DEF Accepts
<1>3. /\ Meets(s, Accepts) <=> Meets(Tail(s), Accepts) \/ Head(s) \in Accepts
      /\ MeetsOnce(s, Accepts) => /\ MeetsOnce(Tail(s), Accepts)
                                  /\ ~(Meets(Tail(s), Accepts) /\ Head(s) \in Accepts)
  BY TailMeets
<1>4. /\ Outstanding(l) \in Nat /\ Pending(l) \in {0, 1}
      /\ Balanced(l, s) /\ Room(l) /\ Alive(l, s)
  BY OutstandingNat, Zenon DEF Books
<1>5. Head(s).op # "accepted" => Balanced(l, Tail(s))
  BY <1>2, <1>3, <1>4 DEF Balanced, Queued
<1>6. Head(s).op = "accepted" =>
        l.accept_pending /\ Outstanding(l) = 0 /\ ~Meets(Tail(s), Accepts)
  BY <1>2, <1>3, <1>4 DEF Balanced, Queued, Pending
<1>7. Head(s) # RetryDone("ok") => Alive(l, Tail(s))
  <2>1. Meets(s, {RetryDone("ok")}) <=> Meets(Tail(s), {RetryDone("ok")}) \/ Head(s) \in {RetryDone("ok")}
    BY TailMeets
  <2>2. QED
    BY <1>4, <2>1 DEF Alive, Retries
<1>8. QED
  BY <1>4, <1>5, <1>6, <1>7 DEF Books

\* A handler posted that is no accept.
LEMMA BooksPost ==
  ASSUME NEW l, NEW s \in Seq(Handler), NEW h \in Handler, Books(l, s), h.op # "accepted"
  PROVE  Books(l, Append(s, h))
<1>1. h \notin Accepts
  BY DEF Accepts
<1>2. /\ Meets(Append(s, h), Accepts) <=> Meets(s, Accepts)
      /\ MeetsOnce(s, Accepts) => MeetsOnce(Append(s, h), Accepts)
  BY <1>1, AppendMeets
<1>3. Meets(s, {RetryDone("ok")}) => Meets(Append(s, h), {RetryDone("ok")})
  BY AppendMeets
<1>4. QED
  BY <1>2, <1>3 DEF Books, Balanced, Queued, Alive, Retries

=============================================================================
