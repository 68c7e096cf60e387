------------------------------ MODULE EchoMain ------------------------------
(***************************************************************************)
(* The main functions of the example programs around a server: they        *)
(* register listeners, wait for a signal, for the server to stop and for   *)
(* its start, and join the pool.                                           *)
(*                                                                         *)
(* The handlers, or the coroutine, run on one strand, control.  The        *)
(* initiation of a call runs on the thread that makes it: the main thread, *)
(* or the strand when the coroutine does.  Server models the calls.        *)
(***************************************************************************)
EXTENDS Server

CONSTANTS
  Programs, \* the examples that are run
  OnSignal  \* the request_stop of the signal handler; the other one is made
            \* by the handler of a failed start

ASSUME MainAssumption ==
  /\ \E a \in Starts : Starts = {a}
  /\ \E w \in Waits : Waits = {w} /\ w \notin Caller
  /\ \E t \in Stoppers : t # OnSignal /\ Stoppers = {OnSignal, t}
  /\ Programs \subseteq {"UdpEcho", "CallbackEcho", "TlsEcho", "HttpEcho", "HttpsEcho",
                         "LocalEcho", "YieldEcho", "CoroutineEcho"}

VARIABLE main \* the thread of main, the strand and the signal set

mainVars == <<vars, main>>

TheStart == CHOOSE a \in Starts : TRUE
TheWait  == CHOOSE a \in Waits : TRUE
OnError  == CHOOSE t \in Stoppers : t # OnSignal

-----------------------------------------------------------------------------
(* The programs: what main does in turn. *)

WithHandlers  == <<"listen", "signals", "wait", "start", "join">>
WithCoroutine == <<"listen", "signals", "spawn", "join">>

UdpEcho       == <<"bind", "signals", "wait", "start", "join">>
CallbackEcho  == WithHandlers
TlsEcho       == WithHandlers
HttpEcho      == WithHandlers
HttpsEcho     == WithHandlers
LocalEcho     == <<"listen", "bind", "signals", "wait", "start", "join">>
YieldEcho     == WithCoroutine
CoroutineEcho == WithCoroutine

Program(name) ==
  CASE name = "UdpEcho"       -> UdpEcho
    [] name = "CallbackEcho"  -> CallbackEcho
    [] name = "TlsEcho"       -> TlsEcho
    [] name = "HttpEcho"      -> HttpEcho
    [] name = "HttpsEcho"     -> HttpsEcho
    [] name = "LocalEcho"     -> LocalEcho
    [] name = "YieldEcho"     -> YieldEcho
    [] name = "CoroutineEcho" -> CoroutineEcho

Coroutine == \E k \in DOMAIN main.program : main.program[k] = "spawn"

\* program: what is run, two examples with the same statements being one; at:
\* the statement of main; control: who has the strand; ran: the handlers of
\* start and wait that ran; early: history, the signal was handled before the
\* start began.
MainInit ==
  /\ Init /\ registered = 0
  /\ main \in [program : {Program(p) : p \in Programs}, at : {1},
               control : {"free"}, signals : {"new"}, ran : {{}},
               result : {"success"}, exited : {FALSE}, early : {FALSE}]

-----------------------------------------------------------------------------
(* The main thread *)

\* The initiation of the call is over, or it was not made yet.
Returned(a) == group[a].pc \in {"new", "returned"} /\ (a \in Starts => ~Looping(a))

\* The main thread is at a statement, and not inside a call.
At(statement) ==
  /\ main.program[main.at] = statement
  /\ Coroutine \/ \A a \in Operation : Returned(a)

registers(statement) ==
  /\ At(statement) /\ add_listener
  /\ main' = [main EXCEPT !.at = @ + 1]

main_listens == registers("listen")
main_binds   == registers("bind")

main_signals ==
  /\ At("signals")
  /\ main' = [main EXCEPT !.at = @ + 1, !.signals = "waiting"]
  /\ UNCHANGED vars

main_calls ==
  /\ \/ At("wait") /\ snapshot(TheWait)
     \/ At("start") /\ snapshot(TheStart)
  /\ main' = [main EXCEPT !.at = @ + 1]

main_spawns ==
  /\ At("spawn") /\ main.control = "free"
  /\ main' = [main EXCEPT !.at = @ + 1, !.control = "coroutine"]
  /\ UNCHANGED vars

\* pool.join() returns when the pool has no work left: no handler is queued or
\* outstanding, and no listener has an operation under way.
main_joins ==
  /\ At("join") /\ ~main.exited
  /\ main.control = "free" /\ main.signals \in {"handled", "cancelled"}
  /\ main.ran = {"started", "waited"}
  /\ \A c \in Caller : ~Looping(c)
  /\ \A i \in Listeners :
       listener[i].state \in {"idle", "stopped"} /\ listener[i].strand = << >>
  /\ main' = [main EXCEPT !.exited = TRUE]
  /\ UNCHANGED vars

-----------------------------------------------------------------------------
(* The strand *)

signal_arrives ==
  /\ main.signals = "waiting"
  /\ main' = [main EXCEPT !.signals = "raised"]
  /\ UNCHANGED vars

signal_handler ==
  /\ main.signals = "raised" /\ main.control = "free"
  /\ server_request_stop(OnSignal)
  /\ main' = [main EXCEPT !.signals = "handled", !.control = "signal",
                          !.early = group[TheStart].pc \in {"new", "snapshot"}]

signal_handler_returns ==
  /\ server_request_stop_returns(OnSignal)
  /\ main' = [main EXCEPT !.control = "free"]

Completed(a, handler) ==
  /\ group[a].completions # << >> /\ handler \notin main.ran
  /\ main.control = "free"

Failed(a) == Head(group[a].completions) # "ok"

\* Mutant: a failed start is only reported.
started_handler_reports ==
  /\ Completed(TheStart, "started")
  /\ main' = [main EXCEPT !.ran = @ \cup {"started"},
                          !.result = IF Failed(TheStart) THEN "failure" ELSE @,
                          !.control = IF Coroutine THEN "coroutine" ELSE "free"]
  /\ UNCHANGED vars

\* A failed start requests a stop; the coroutine goes on to its wait.
started_handler ==
  /\ Completed(TheStart, "started")
  /\ IF Failed(TheStart)
     THEN /\ server_request_stop(OnError)
          /\ main' = [main EXCEPT !.ran = @ \cup {"started"}, !.result = "failure",
                                  !.control = "started"]
     ELSE /\ main' = [main EXCEPT !.ran = @ \cup {"started"},
                                  !.control = IF Coroutine THEN "coroutine" ELSE "free"]
          /\ UNCHANGED vars

started_handler_returns ==
  /\ server_request_stop_returns(OnError)
  /\ main' = [main EXCEPT !.control = IF Coroutine THEN "coroutine" ELSE "free"]

\* Mutant: the error is dropped.
waited_handler_drops_error ==
  /\ Completed(TheWait, "waited")
  /\ main' = [main EXCEPT !.ran = @ \cup {"waited"},
                          !.signals = IF @ = "waiting" THEN "cancelled" ELSE @]
  /\ UNCHANGED vars

\* signals.cancel() does not recall a signal that was raised already.
waited_handler ==
  /\ Completed(TheWait, "waited")
  /\ main' = [main EXCEPT !.ran = @ \cup {"waited"},
                          !.result = IF Failed(TheWait) THEN "failure" ELSE @,
                          !.signals = IF @ = "waiting" THEN "cancelled" ELSE @]
  /\ UNCHANGED vars

\* The coroutine calls async_start, and async_wait when that completed.
coroutine_calls ==
  /\ main.control = "coroutine"
  /\ snapshot(IF "started" \in main.ran THEN TheWait ELSE TheStart)
  /\ UNCHANGED main

coroutine_suspends ==
  /\ main.control = "coroutine"
  /\ group[IF "started" \in main.ran THEN TheWait ELSE TheStart].pc = "returned"
  /\ \A a \in Operation : Returned(a)
  /\ main' = [main EXCEPT !.control = "free"]
  /\ UNCHANGED vars

-----------------------------------------------------------------------------
MainThread ==
  \/ main_listens \/ main_binds \/ main_signals \/ main_calls \/ main_spawns
  \/ main_joins

Control ==
  \/ signal_handler \/ signal_handler_returns
  \/ started_handler \/ started_handler_returns \/ waited_handler
  \/ coroutine_calls \/ coroutine_suspends

ServerStep ==
  /\ \/ \E a \in Operation : CallStep(a)
     \/ \E c \in Caller : LoopStep(c)
     \/ \E i \in Listeners : StrandStep(i) \/ drains(i)
  /\ UNCHANGED main

listener_fails == (\E i \in Listeners : runtime_failure(i)) /\ UNCHANGED main

MainNext == MainThread \/ Control \/ ServerStep \/ signal_arrives \/ listener_fails

\* The pool runs what is queued.  Every call is made once, so no thread can be
\* passed over for ever while others go on.
MainSpec ==
  /\ MainInit /\ [][MainNext]_mainVars
  /\ WF_mainVars(MainThread \/ Control \/ ServerStep)

-----------------------------------------------------------------------------
(* Properties *)

\* What must end the process: a signal, a start that failed on a listener, and
\* a server none of whose listeners is left.  A signal handled before the start
\* began is not among them in a program with handlers: the wait is over by then,
\* and the start runs with the signal set cancelled.
EndOfProcess ==
  \/ main.signals = "handled" /\ (~main.early \/ Coroutine)
  \/ group[TheStart].completions \in {<<"failed">>, <<"aborted">>}
  \/ "started" \in main.ran /\ \A i \in 1..registered : listener[i].state = "stopped"

\* The process exits after each of these, also when the stop overtook the start
\* of a listener: the stop that the start handler requests reaches it.
ProcessEnds == EndOfProcess ~> main.exited

\* A process that exits with success lost no listener to an error.
SuccessIsClean ==
  main.exited /\ main.result = "success" /\ (~main.early \/ Coroutine)
    => \A i \in Listeners : listener[i].terminal_error = "ok"

=============================================================================
