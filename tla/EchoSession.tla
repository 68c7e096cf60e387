---------------------------- MODULE EchoSession ----------------------------
(***************************************************************************)
(* The sessions of the example programs (examples, src/main.cpp), each    *)
(* run by the connection_state or session_state that owns its socket.      *)
(*                                                                         *)
(* A session is a chain of asynchronous operations on one strand: when one *)
(* completes, its handler starts the next or completes the session.  The   *)
(* tables below say which, one per example.  An operation consists of one  *)
(* or more transfers on the socket.  A transfer waits for the peer until   *)
(* it completes or is cancelled; its completion is then in flight, and no  *)
(* longer recalled, until it is queued on the strand.                      *)
(***************************************************************************)
EXTENDS Integers, Sequences

CONSTANTS
  Examples, \* the examples whose sessions are run
  MaxStale  \* bound: expiries of the deadline in flight at a time

VARIABLES
  example, \* whose session this is
  session, \* the session, its socket and deadline, and the state that owns them
  strand   \* handlers queued on the strand of the socket, head first

vars == <<example, session, strand>>

-----------------------------------------------------------------------------
(* Data *)

Timed    == {"HttpEcho", "HttpsEcho"}
Tls      == {"TlsEcho", "HttpsEcho"}
Datagram == {"UdpEcho", "DatagramEcho"}
Stream   == {"CallbackEcho", "StreamEcho", "YieldEcho", "CoroutineEcho"}
Coroutine == {"YieldEcho", "CoroutineEcho"}

ASSUME EchoAssumption ==
  MaxStale \in Nat \ {0} /\ Examples \subseteq Stream \cup Tls \cup Timed \cup Datagram

Op == {"handshake", "greeting", "read", "write", "shutdown", "receive", "send"}

\* "eof" also stands for end_of_stream, "bad" for bad_descriptor: the socket is
\* closed; "failed" is any other error of the transport or of a parser.
Code == {"ok", "eof", "reset", "truncated", "aborted", "bad", "failed"}

Handler ==
  [op : {"start", "deadline", "request_stop", "force_close"}]
    \cup [op : {"transfer"}, ec : Code]

Session ==
  [ op        : Op \cup {"none"},
    transfer  : {"none", "waiting", "flying"},
    ec        : Code,            \* result of the transfer in flight
    open      : BOOLEAN,         \* the socket
    armed     : BOOLEAN,         \* m_deadline
    expired   : 0..MaxStale,     \* expiries in flight
    cancelled : BOOLEAN,         \* the cancellation signal was emitted
    handled   : Nat,             \* calls of the completion handler
    finished  : BOOLEAN,         \* m_finished of the owner
    reported  : (Code \ {"bad"}) \cup {"none"}, \* told to the listener
    posted    : SUBSET {"request_stop", "force_close"},
    missed    : BOOLEAN,         \* history: an expiry found no transfer to cancel
    broken    : BOOLEAN ]        \* history: the peer or the transport failed

Begin(op)    == [begins |-> TRUE, op |-> op, ec |-> "ok"]
Complete(ec) == [begins |-> FALSE, op |-> "none", ec |-> ec]

-----------------------------------------------------------------------------
(* What follows an operation op that completed with ec: one table per       *)
(* example, the set of continuations its handlers choose from.              *)

\* Greeting, then read and write in turn; any error completes, without it.
CallbackEcho(op, ec) ==
  {IF ec # "ok" THEN Complete("ok") ELSE Begin(IF op = "read" THEN "write" ELSE "read")}

StreamEcho(op, ec) ==
  {IF ec # "ok" THEN Complete("ok") ELSE Begin(IF op = "read" THEN "write" ELSE "read")}

\* The coroutines return normally on an error: no exception, an empty code.
YieldEcho(op, ec) ==
  {IF ec # "ok" THEN Complete("ok") ELSE Begin(IF op = "read" THEN "write" ELSE "read")}

AwaitableEcho(op, ec) ==
  {IF ec # "ok" THEN Complete("ok") ELSE Begin(IF op = "read" THEN "write" ELSE "read")}

TlsEcho(op, ec) ==
  {CASE op = "shutdown"            -> Complete("ok")
     [] op = "read" /\ ec = "eof"  -> Begin("shutdown")
     [] ec \in {"aborted", "truncated"} -> Complete("ok")
     [] ec # "ok"                  -> Complete(ec)
     [] op = "handshake"           -> Begin("greeting")
     [] op = "read"                -> Begin("write")
     [] OTHER                      -> Begin("read")}

\* isExpectedDisconnect
Expected(ec) ==
  ec \in {"eof", "reset", "aborted"} \cup (IF example \in Tls THEN {"truncated"} ELSE {})

cleared(ec) == IF Expected(ec) THEN "ok" ELSE ec

\* After a response either keep_alive is false or the next request is read.
HttpEcho(op, ec) ==
  CASE ec # "ok"    -> {Complete(cleared(ec))}
    [] op = "read"  -> {Begin("write")}
    [] op = "write" -> {Complete("ok"), Begin("read")}

HttpsEcho(op, ec) ==
  CASE op = "shutdown" \/ ec # "ok" -> {Complete(cleared(ec))}
    [] op = "handshake" -> {Begin("read")}
    [] op = "read"      -> {Begin("write")}
    [] op = "write"     -> {Begin("shutdown"), Begin("read")}

\* Only an abort ends a datagram session; after any other error it receives.
UdpEcho(op, ec) ==
  {IF ec = "aborted" THEN Complete("ok")
   ELSE Begin(IF op = "receive" /\ ec = "ok" THEN "send" ELSE "receive")}

DatagramEcho(op, ec) ==
  {IF ec = "aborted" THEN Complete("ok")
   ELSE Begin(IF op = "receive" /\ ec = "ok" THEN "send" ELSE "receive")}

Continuations(op, ec) ==
  CASE example = "CallbackEcho"  -> CallbackEcho(op, ec)
    [] example = "StreamEcho"    -> StreamEcho(op, ec)
    [] example = "YieldEcho"     -> YieldEcho(op, ec)
    [] example = "CoroutineEcho" -> AwaitableEcho(op, ec)
    [] example = "TlsEcho"       -> TlsEcho(op, ec)
    [] example = "HttpEcho"      -> HttpEcho(op, ec)
    [] example = "HttpsEcho"     -> HttpsEcho(op, ec)
    [] example = "UdpEcho"       -> UdpEcho(op, ec)
    [] example = "DatagramEcho"  -> DatagramEcho(op, ec)

FirstOperation ==
  CASE example \in Stream     -> "greeting"
    [] example \in Tls        -> "handshake"
    [] example = "HttpEcho"   -> "read"
    [] example \in Datagram   -> "receive"

\* Operations that may take several transfers: async_write, and whatever runs
\* through a TLS stream or an HTTP parser.
Composed(op) ==
  \/ example \in Stream /\ op \in {"greeting", "write"}
  \/ example \in Tls \cup Timed

\* What the peer and the transport can make of a transfer.
TransferResult(op) ==
  {"ok", "failed"}
    \cup (IF example \in Datagram THEN {} ELSE {"reset"})
    \cup (IF op = "read" THEN {"eof"} ELSE {})
    \cup (IF example \in Tls THEN {"truncated"} ELSE {})

-----------------------------------------------------------------------------
(* The socket, the deadline and the owner of the session *)

cancel_socket(s) ==
  IF s.transfer = "waiting" THEN [s EXCEPT !.transfer = "flying", !.ec = "aborted"] ELSE s

close_now(s) == [cancel_socket(s) EXCEPT !.open = FALSE]

\* connection_state::finish, session_state::finish: the first call reports.
finish(s, ec) ==
  IF s.finished THEN s
  ELSE [close_now(s) EXCEPT !.finished = TRUE, !.reported = ec]

\* Mutant: the deadline is left alone.
armDeadline_never(s) == s

\* expires_after and async_wait: an earlier wait is aborted, without effect.
armDeadline(s) ==
  IF example \in Timed THEN [s EXCEPT !.armed = TRUE, !.missed = FALSE] ELSE s

cancelDeadline(s) == [s EXCEPT !.armed = FALSE]

\* On a closed socket a transfer completes at once.
begin_transfer(s) ==
  IF s.open THEN [s EXCEPT !.transfer = "waiting"]
            ELSE [s EXCEPT !.transfer = "flying", !.ec = "bad"]

begin_operation(s, op) == begin_transfer([armDeadline(s) EXCEPT !.op = op])

\* complete of the session: it invokes the completion handler, once by m_finished.
complete(s, ec) ==
  IF example \in Tls \cup Timed /\ s.handled > 0 THEN s
  ELSE finish([cancelDeadline(s) EXCEPT !.op = "none", !.handled = @ + 1], ec)

\* What the adapters make of the way a coroutine ended.
exception_to_error(ep) ==
  CASE ep = "none"   -> "ok"
    [] ep \in Code   -> ep
    [] OTHER         -> "failed"

\* Mutant: yield_session and awaitable_session do not pass the slot on.
coroutine_cancelled_never(s) == FALSE

\* The slot of the owner reaches the coroutine.
coroutine_cancelled(s) == example \in Coroutine /\ s.cancelled

\* An awaitable coroutine throws when it awaits after its cancellation; whether
\* one started by spawn does is left open.
continue(s, next) ==
  IF ~next.begins THEN {complete(s, next.ec)}
  ELSE LET thrown == complete(s, exception_to_error("aborted"))
           begun  == begin_operation(s, next.op)
       IN  IF ~coroutine_cancelled(s) THEN {begun}
           ELSE IF example = "CoroutineEcho" THEN {thrown} ELSE {thrown, begun}

-----------------------------------------------------------------------------
Init ==
  /\ example \in Examples
  /\ session =
       [ op |-> "none", transfer |-> "none", ec |-> "ok", open |-> TRUE,
         armed |-> FALSE, expired |-> 0, cancelled |-> FALSE, handled |-> 0,
         finished |-> FALSE, reported |-> "none", posted |-> {},
         missed |-> FALSE, broken |-> FALSE ]
  /\ strand = <<[op |-> "start"]>>

\* The listener: begin_stop and the grace timer.
post(what) ==
  /\ what \notin session.posted
  /\ session' = [session EXCEPT !.posted = @ \cup {what}]
  /\ strand' = Append(strand, [op |-> what])
  /\ UNCHANGED example

\* The operating system: the peer answers or fails, and a timer expires.
transfer_completes(ec) ==
  /\ session.transfer = "waiting"
  /\ session' = [session EXCEPT !.transfer = "flying", !.ec = ec,
                                !.broken = @ \/ ec # "ok"]
  /\ UNCHANGED <<example, strand>>

deadline_expires ==
  /\ session.armed /\ session.expired < MaxStale
  /\ session' = [session EXCEPT !.armed = FALSE, !.expired = @ + 1]
  /\ UNCHANGED <<example, strand>>

\* A completion is queued on the strand.
deliver_transfer ==
  /\ session.transfer = "flying"
  /\ session' = [session EXCEPT !.transfer = "none"]
  /\ strand' = Append(strand, [op |-> "transfer", ec |-> session.ec])
  /\ UNCHANGED example

deliver_deadline ==
  /\ session.expired > 0
  /\ session' = [session EXCEPT !.expired = @ - 1]
  /\ strand' = Append(strand, [op |-> "deadline"])
  /\ UNCHANGED example

-----------------------------------------------------------------------------
(* Handlers on the strand *)

Running(op) == strand # << >> /\ Head(strand).op = op

Return == strand' = Tail(strand) /\ UNCHANGED example

start ==
  /\ Running("start")
  /\ session' = begin_operation(session, FirstOperation)
  /\ Return

\* Between two transfers of a composed operation its cancellation is checked.
transfer_handler ==
  LET ec   == Head(strand).ec
      more == IF coroutine_cancelled(session)
              THEN continue(session, Complete("ok"))
              ELSE {begin_transfer(session)}
  IN  /\ Running("transfer")
      /\ \/ \E next \in Continuations(session.op, ec) :
              session' \in continue(cancelDeadline(session), next)
         \/ ec = "ok" /\ Composed(session.op) /\ session' \in more
      /\ Return

\* Mutant: the session is completed without waiting for its operation.
deadline_handler_completes ==
  /\ Running("deadline")
  /\ session' = finish([session EXCEPT !.handled = @ + 1], "ok")
  /\ Return

\* armDeadline: the timer handler cancels whatever the socket is doing.
deadline_handler ==
  /\ Running("deadline")
  /\ session' = [cancel_socket(session) EXCEPT !.missed = session.transfer # "waiting"]
  /\ Return

request_stop ==
  /\ Running("request_stop")
  /\ session' = cancel_socket([session EXCEPT !.cancelled = TRUE])
  /\ Return

\* Mutants: the owner only closes; the owner only reports.
force_close_only_closes ==
  /\ Running("force_close")
  /\ session' = close_now(session)
  /\ Return

force_close_only_reports ==
  /\ Running("force_close")
  /\ session' = IF session.finished THEN session
                ELSE [session EXCEPT !.finished = TRUE, !.reported = "aborted"]
  /\ Return

force_close ==
  /\ Running("force_close")
  /\ session' = finish(session, "aborted")
  /\ Return

Strand ==
  start \/ transfer_handler \/ deadline_handler \/ request_stop \/ force_close

Next ==
  \/ \E what \in {"request_stop", "force_close"} : post(what)
  \/ \E ec \in TransferResult(session.op) : transfer_completes(ec)
  \/ deadline_expires
  \/ deliver_transfer
  \/ deliver_deadline
  \/ Strand

Spec == Init /\ [][Next]_vars

\* The pool runs what is queued and timers expire; peers may be silent.
Fairness ==
  /\ WF_vars(Strand)
  /\ WF_vars(deliver_transfer)
  /\ WF_vars(deliver_deadline)
  /\ WF_vars(deadline_expires)

FairSpec == Spec /\ Fairness

-----------------------------------------------------------------------------
(* Properties *)

\* Every variable has its type; in particular no session, however it ended,
\* reports the error of an operation on the socket its owner closed.
TypeOK ==
  /\ example \in Examples
  /\ session \in Session
  /\ strand \in Seq(Handler)

\* callback_session.h: the completion handler is invoked at most once, and a
\* session has never two operations under way that could each invoke it.
HandledAtMostOnce ==
  /\ session.handled <= 1
  /\ session.handled = 1 => session.transfer = "none" /\ session.op = "none"

\* A stop, a forced close or a deadline is never taken for a failure of the
\* session: what session_finished records as a diagnostic came from the peer.
StopIsNoFailure ==
  session.reported \in {"none", "ok", "aborted"} \/ session.broken

\* Once its socket is closed by force, the session invokes its handler, so its
\* storage is released; wherever in its chain of operations it was.
ClosedSessionEnds ==
  example \notin Datagram /\ session.finished ~> session.handled = 1

\* A request_stop is enough for an awaitable session, also when it finds the
\* socket between two operations: the session ends without a forced close.
StopReachesCoroutine ==
  example = "CoroutineEcho" /\ session.cancelled ~> session.handled = 1

\* A silent peer cannot keep an HTTP session waiting for ever, unless the
\* deadline expired between two transfers and found nothing to cancel.
DeadlineBoundsTransfers ==
  example \in Timed /\ session.transfer = "waiting"
    ~> session.transfer # "waiting" \/ session.missed

-----------------------------------------------------------------------------
(* What the documentation says and the code does not do *)

\* callback_session.h: the session "must invoke its move-only completion
\* handler exactly once"; so a forced close is followed by its invocation.
DatagramSessionEnds ==
  example \in Datagram /\ session.finished ~> session.handled = 1

=============================================================================
