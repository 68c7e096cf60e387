--------------------------- MODULE EchoMainProofs ---------------------------
(***************************************************************************)
(* A program that exits with success lost no listener to an error, for any *)
(* program, any number of listeners and every failure Server has.          *)
(*                                                                         *)
(* Two calls can tell main of a failed listener: the start, when its child *)
(* fails, and the wait, when the listener stops.  Either reports the error *)
(* or will, or the wait is still open at the listener, or the listener is  *)
(* at rest for good.  The exception is a stop that overtakes the start;    *)
(* then the start itself reports that it was aborted.                      *)
(*                                                                         *)
(* The last section has the two theorems about Server alone that count.    *)
(***************************************************************************)
EXTENDS EchoMain, ServerProofs

\* The provers that try a leaf in turn, unless it names one.
USE SMTT(20), SMTT(30), ZenonT(30)

-----------------------------------------------------------------------------
(* The inductive invariant *)

StartDone == group[TheStart].completions # << >>

\* The start is still to run on listener i, the wait to be answered by it.
StartOpen(i) ==
  \/ group[TheStart].pc = "new" \/ i \in Ahead(group[TheStart])
  \/ Asks(listener[i], "start")

WaitOpen(i) ==
  \/ group[TheWait].pc = "new" \/ i \in Ahead(group[TheWait])
  \/ Asks(listener[i], "wait") \/ listener[i].waiters # << >>

\* Somebody has.
Trouble ==
  \/ \E a \in Operation : Troubled(group[a])
  \/ \E i \in Listeners : Warns(listener[i])

\* A stop overtook the start, which will be aborted.
Late ==
  /\ group[TheStart].pc \notin {"new", "snapshot"} /\ ~StartDone
  /\ stop_requested(control)

Excuse == Trouble \/ Late \/ (main.early /\ ~Coroutine)

\* Listener i has not failed and will not run again.
Fine(i) ==
  /\ listener[i].state \in {"idle", "stopped"} /\ listener[i].terminal_error = "ok"
  /\ ~StartOpen(i)

\* Without an excuse no listener stops before it started, and every listener has
\* the wait open or is at rest.
Orderly ==
  /\ ~Coroutine /\ ~StartDone =>
       /\ \A c \in Caller : ~Looping(c)
       /\ \A i \in Listeners : ~Asks(listener[i], "stop")
  /\ ~Coroutine => \A i \in Listeners : StartOpen(i) => listener[i].state = "idle"
  /\ \A i \in 1..registered : WaitOpen(i) \/ Fine(i)

\* What was not registered is not used, and calls are made after registration.
Unused == [state |-> "idle", terminal_error |-> "ok", waiters |-> << >>, strand |-> << >>]

Sizes ==
  /\ \A i \in Listeners : i > registered => listener[i] = Unused
  /\ \A a \in Operation : group[a].pc # "new" => group[a].size = registered
  /\ \A c \in Caller : loop[c].of <= registered

\* Where the program is.
Main ==
  [ program : {WithHandlers, UdpEcho, LocalEcho, WithCoroutine}, at : 1..6,
    control : {"free", "signal", "started", "coroutine"},
    signals : {"new", "waiting", "raised", "handled", "cancelled"},
    ran : SUBSET {"started", "waited"}, result : {"success", "failure"},
    exited : BOOLEAN, early : BOOLEAN ]

Programmed ==
  /\ main \in Main /\ main.at \in 1..Len(main.program)
  /\ main.program[main.at] \in {"listen", "bind"} =>
       main.control # "coroutine" /\ \A a \in Operation : group[a].pc = "new"
  /\ Coroutine /\ group[TheWait].pc # "new" => "started" \in main.ran
  /\ stopper[OnError] # "new" => "started" \in main.ran
  /\ main.early => stopper[OnSignal] # "new"
  /\ stopper[OnSignal] # "new" /\ group[TheStart].pc \in {"new", "snapshot"} => main.early
  /\ group[TheWait].pc # "snapshot"

\* The handlers that ran told main what the calls reported.
Heard(a, handler) ==
  handler \in main.ran =>
    group[a].completions # << >> /\ (Failed(a) => main.result = "failure")

Handled ==
  /\ Heard(TheStart, "started") /\ Heard(TheWait, "waited")
  /\ main.exited => main.ran = {"started", "waited"}

Reported ==
  \A a \in Operation :
    group[a].completions # << >> /\ Head(group[a].completions) = "ok"
      => group[a].first_ec = "ok"

MInv ==
  /\ Uncancelled /\ Sizes /\ Programmed /\ Handled /\ Reported
  /\ Excuse \/ Orderly

-----------------------------------------------------------------------------
(* The calls of a program are calls of the server *)

\* One start, one wait, and a stop for each of two reasons.
LEMMA TheCalls ==
  /\ Starts = {TheStart} /\ Waits = {TheWait} /\ TheStart # TheWait /\ TheWait \notin Caller
  /\ Operation = {TheStart, TheWait}
  /\ Stoppers = {OnSignal, OnError} /\ OnSignal # OnError
<1>1. Starts = {TheStart}
  <2>1. \E a : Starts = {a}
    BY MainAssumption
  <2>2. QED
    BY <2>1 DEF TheStart
<1>2. Waits = {TheWait} /\ TheWait \notin Caller
  <2>1. \E w : Waits = {w} /\ w \notin Caller
    BY MainAssumption
  <2>2. QED
    BY <2>1 DEF TheWait
<1>3. OnError \in Stoppers /\ OnError # OnSignal
  BY MainAssumption DEF OnError
<1>4. Stoppers = {OnSignal, OnError}
  BY <1>3, MainAssumption
<1>5. QED
  BY <1>1, <1>2, <1>3, <1>4, ServerAssumption, Zenon DEF Operation

\* The steps of the server that a program has: all but cancellations.
Steps ==
  \/ \E a \in Operation : snapshot(a) \/ CallStep(a)
  \/ \E t \in Stoppers : server_request_stop(t) \/ server_request_stop_returns(t)
  \/ add_listener
  \/ \E c \in Caller : LoopStep(c)
  \/ \E i \in Listeners : StrandStep(i) \/ drains(i) \/ runtime_failure(i)

\* Every step of a program is one of these, or none of the server's.
LEMMA MainSteps ==
  /\ MainNext => Steps \/ UNCHANGED vars
  /\ Steps => Next
<1>0. /\ TheStart \in Operation /\ TheWait \in Operation
      /\ OnSignal \in Stoppers /\ OnError \in Stoppers
  BY TheCalls
<1>1. MainThread => Steps \/ UNCHANGED vars
  BY <1>0 DEF MainThread, main_listens, main_binds, registers, main_signals, main_calls,
     main_spawns, main_joins, Steps
<1>2. Control => Steps \/ UNCHANGED vars
  <2>1. signal_handler \/ signal_handler_returns => Steps
    BY <1>0 DEF signal_handler, signal_handler_returns, Steps
  <2>2. started_handler \/ started_handler_returns \/ waited_handler => Steps \/ UNCHANGED vars
    BY <1>0 DEF started_handler, started_handler_returns, waited_handler, Steps
  <2>3. coroutine_calls \/ coroutine_suspends => Steps \/ UNCHANGED vars
    BY <1>0 DEF coroutine_calls, coroutine_suspends, Steps
  <2>4. QED
    BY <2>1, <2>2, <2>3 DEF Control
<1>3. ServerStep \/ signal_arrives \/ listener_fails => Steps \/ UNCHANGED vars
  BY DEF ServerStep, signal_arrives, listener_fails, Steps
<1>4. Steps => Next
  BY DEF Steps, Next, Progress
<1>5. QED
  BY <1>1, <1>2, <1>3, <1>4 DEF MainNext

\* A program uses the server as Server allows.
LEMMA UsesServer == MainSpec => Spec
<1>1. MainInit => Init
  BY DEF MainInit
<1>2. [MainNext]_mainVars => [Next]_vars
  BY MainSteps DEF mainVars
<1>3. QED
  BY <1>1, <1>2, PTL DEF MainSpec, Spec

-----------------------------------------------------------------------------
(* The beginning and the end of a program *)

\* The program begins in order.
LEMMA MainInitMInv == MainInit => MInv
\* Every program is one of the four.
<1>Programs4. ASSUME NEW name \in Programs
              PROVE  /\ Program(name) \in {WithHandlers, UdpEcho, LocalEcho, WithCoroutine}
                     /\ 1 \in 1..Len(Program(name))
  <2> USE <1>Programs4
  <2>1. Program(name) \in {WithHandlers, UdpEcho, LocalEcho, WithCoroutine}
    BY MainAssumption DEF Program, CallbackEcho, TlsEcho, HttpEcho, HttpsEcho, YieldEcho,
       CoroutineEcho
  <2>2. 1 \in 1..Len(WithHandlers)
    BY DEF WithHandlers
  <2>3. 1 \in 1..Len(UdpEcho)
    BY DEF UdpEcho
  <2>4. 1 \in 1..Len(LocalEcho)
    BY DEF LocalEcho
  <2>5. 1 \in 1..Len(WithCoroutine)
    BY DEF WithCoroutine
  <2>6. QED
    BY <2>1, <2>2, <2>3, <2>4, <2>5, Zenon
<1> SUFFICES ASSUME MainInit PROVE MInv
  OBVIOUS
<1>0. /\ TheStart \in Operation /\ TheWait \in Operation
      /\ OnSignal \in Stoppers /\ OnError \in Stoppers /\ N \in Nat
  BY TheCalls, ServerAssumption
<1>1. /\ registered = 0 /\ listener = [i \in Listeners |-> Unused]
      /\ loop = [c \in Caller |-> NoLoop] /\ stopper = [t \in Stoppers |-> "new"]
      /\ \A a \in Operation :
           /\ group[a].pc = "new" /\ group[a].completions = << >> /\ ~group[a].cancelled
           /\ group[a].emit = 0 /\ group[a].flagged = {}
  BY Zenon DEF MainInit, Init, Unused
<1>2. \A i \in Listeners :
        /\ listener[i].strand = << >> /\ listener[i].state = "idle" /\ listener[i] = Unused
  BY <1>1 DEF Unused
<1>3. \A i \in Listeners : \A op : ~Asks(listener[i], op)
  BY <1>2 DEF Asks, Meets
<1>4. \A c \in Caller : loop[c].of = 0 /\ loop[c].done = 0
  BY <1>1 DEF NoLoop, begin_loop
<1>5. Uncancelled
  BY <1>1, <1>3 DEF Uncancelled
<1>6. Sizes
  BY <1>1, <1>2, <1>4 DEF Sizes
<1>7. PICK name \in Programs :
        main = [program |-> Program(name), at |-> 1, control |-> "free", signals |-> "new",
                ran |-> {}, result |-> "success", exited |-> FALSE, early |-> FALSE]
  BY Zenon DEF MainInit
<1>8. /\ main \in Main /\ main.at \in 1..Len(main.program) /\ main.ran = {} /\ ~main.exited
      /\ ~main.early /\ main.control = "free"
  BY <1>7, <1>Programs4 DEF Main
<1>9. Programmed
  BY <1>0, <1>1, <1>8 DEF Programmed
<1>10. Handled
  BY <1>8 DEF Handled, Heard
<1>11. Reported
  BY <1>1 DEF Reported
<1>12. Orderly
  BY <1>1, <1>2, <1>3, <1>4 DEF Orderly, Looping
<1>13. QED
  BY <1>5, <1>6, <1>9, <1>10, <1>11, <1>12 DEF MInv

\* The invariant leaves no failed listener to a process that exits with success.
LEMMA InvariantClean == IInv /\ MInv => SuccessIsClean
\* When both calls completed without an error nothing excuses a failed listener,
\* and no wait is open.
<1>CallsOver.
  ASSUME IInv, Reported, Programmed,
         \A a \in Operation : group[a].completions # << >> /\ Head(group[a].completions) = "ok"
  PROVE  ~Trouble /\ ~Late /\ \A i \in Listeners : ~WaitOpen(i)
  <2> USE <1>CallsOver
  <2>0. TheStart \in Operation /\ TheWait \in Operation /\ TheWait \in Waits /\ Waits = {TheWait}
    BY TheCalls
  <2>1. \A a \in Operation :
          /\ group[a].pc # "new" /\ Ahead(group[a]) = {} /\ group[a].initiation = {}
          /\ Holders(a) = {}
    BY DoneIsDone
  <2>2. \A a \in Operation : ~Troubled(group[a])
    BY <2>1 DEF Troubled, Reported
  <2>3. ASSUME NEW i \in Listeners, NEW k \in DOMAIN listener[i].strand,
               listener[i].strand[k] \in Task, listener[i].strand[k].op \in {"wait", "one"}
        PROVE  FALSE
    <3> DEFINE h == listener[i].strand[k]
    <3>1. h.id \in Operation /\ h \in Kids(h.id)
      BY <2>3, HandlerKinds
    <3>2. i \in Holders(h.id)
      BY <3>1, Zenon DEF Holders, Calls, Has, Meets
    <3>3. QED
      BY <2>1, <3>1, <3>2
  <2>4. \A i \in Listeners : ~Warns(listener[i]) /\ ~Asks(listener[i], "wait")
    BY <2>3 DEF Warns, Asks, Meets
  <2>5. ASSUME NEW i \in Listeners PROVE listener[i].waiters = << >>
    <3> DEFINE w == listener[i].waiters
    <3>1. w \in Seq(Waits)
      BY DEF IInv, Ordered, Listener
    <3>2. w # << >> => 1 \in DOMAIN w /\ w[1] = TheWait
      BY <2>0, <3>1
    <3>3. w # << >> => i \in Holders(TheWait)
      BY <2>0, <3>2 DEF Holders, Calls, Has, Meets
    <3>4. QED
      BY <2>0, <2>1, <3>3
  <2>6. QED
    BY <2>0, <2>1, <2>2, <2>4, <2>5 DEF Trouble, Late, StartDone, WaitOpen
<1>1. ASSUME IInv, MInv, main.exited, main.result = "success", ~main.early \/ Coroutine,
             NEW i \in Listeners
      PROVE  listener[i].terminal_error = "ok"
  <2>0. Sizes /\ Programmed /\ Handled /\ Reported /\ (Excuse \/ Orderly)
    BY <1>1 DEF MInv
  <2>1. \A a \in Operation : group[a].completions # << >> /\ Head(group[a].completions) = "ok"
    BY <1>1, <2>0, TheCalls DEF Handled, Heard, Failed
  <2>2. ~Excuse /\ ~WaitOpen(i)
    BY <1>1, <2>0, <2>1, <1>CallsOver DEF Excuse
  <2>3. CASE i \in 1..registered
    BY <2>0, <2>2, <2>3 DEF Orderly, Fine
  <2>4. CASE i > registered
    BY <2>0, <2>4 DEF Sizes, Unused
  <2>5. QED
    BY <1>1, <2>3, <2>4, ServerAssumption DEF IInv, Threads, Listeners
<1>2. QED
  BY <1>1 DEF SuccessIsClean

-----------------------------------------------------------------------------
(* The statements of main *)

\* A statement that is not the last has one after it; listeners are registered
\* first, and a program has handlers or a coroutine.
LEMMA Statements ==
  ASSUME NEW P \in {WithHandlers, UdpEcho, LocalEcho, WithCoroutine}, NEW k \in 1..Len(P)
  PROVE  /\ P[k] # "join" => k + 1 \in 1..Len(P) /\ k + 1 \in 1..6
         /\ P[k] # "join" /\ P[k + 1] \in {"listen", "bind"} => P[k] = "listen"
         /\ P[k] \in {"wait", "start"} => \A n \in DOMAIN P : P[n] # "spawn"
<1>1. CASE P = WithHandlers
  BY <1>1 DEF WithHandlers
<1>2. CASE P = UdpEcho
  BY <1>2 DEF UdpEcho
<1>3. CASE P = LocalEcho
  BY <1>3 DEF LocalEcho
<1>4. CASE P = WithCoroutine
  BY <1>4 DEF WithCoroutine
<1>5. QED
  BY <1>1, <1>2, <1>3, <1>4

\* What a step changes of main.
LEMMA MainChanges ==
  ASSUME Programmed, MainNext \/ UNCHANGED mainVars
  PROVE  /\ main' \in Main /\ main'.program = main.program /\ (Coroutine' <=> Coroutine)
         /\ \/ main'.at = main.at
            \/ main'.at = main.at + 1 /\ main.program[main.at] # "join"
         /\ main'.at \in 1..Len(main'.program)
         /\ main.ran \subseteq main'.ran
         /\ main.result = "failure" => main'.result = "failure"
         /\ main'.early = main.early \/ signal_handler
<1>0. /\ main \in Main /\ main.at \in 1..Len(main.program)
      /\ main.program[main.at] # "join" =>
           main.at + 1 \in 1..Len(main.program) /\ main.at + 1 \in 1..6
  BY Statements DEF Programmed, Main
<1>1. MainThread => \/ main' = [main EXCEPT !.at = main.at + 1] /\ main.program[main.at] # "join"
                    \/ main' = [main EXCEPT !.at = main.at + 1, !.signals = "waiting"]
                       /\ main.program[main.at] # "join"
                    \/ main' = [main EXCEPT !.at = main.at + 1, !.control = "coroutine"]
                       /\ main.program[main.at] # "join"
                    \/ main' = [main EXCEPT !.exited = TRUE]
  BY DEF MainThread, main_listens, main_binds, registers, main_signals, main_calls,
     main_spawns, main_joins, At
<1>2. /\ signal_handler =>
           \E e \in BOOLEAN : main' = [main EXCEPT !.signals = "handled", !.control = "signal",
                                                   !.early = e]
      /\ signal_handler_returns => main' = [main EXCEPT !.control = "free"]
      /\ started_handler_returns =>
           \E c \in {"coroutine", "free"} : main' = [main EXCEPT !.control = c]
      /\ coroutine_calls => main' = main
      /\ coroutine_suspends => main' = [main EXCEPT !.control = "free"]
  <2>1. (group[TheStart].pc \in {"new", "snapshot"}) \in BOOLEAN
    OBVIOUS
  <2>2. signal_handler =>
          \E e \in BOOLEAN : main' = [main EXCEPT !.signals = "handled", !.control = "signal",
                                                  !.early = e]
    BY <2>1, Zenon DEF signal_handler
  <2>3. QED
    BY <2>2, Zenon DEF signal_handler_returns, started_handler_returns, coroutine_calls,
       coroutine_suspends
<1>a. started_handler =>
        \E r \in {"failure", main.result}, c \in {"started", "coroutine", "free"} :
          main' = [main EXCEPT !.ran = main.ran \cup {"started"}, !.result = r, !.control = c]
  <2>2. ASSUME NEW c, main' = [main EXCEPT !.ran = main.ran \cup {"started"}, !.control = c]
        PROVE  main' = [main EXCEPT !.ran = main.ran \cup {"started"}, !.result = main.result,
                                    !.control = c]
    BY <1>0, <2>2, Zenon DEF Main
  <2>3. started_handler =>
          \/ main' = [main EXCEPT !.ran = main.ran \cup {"started"}, !.result = "failure",
                                  !.control = "started"]
          \/ \E c \in {"coroutine", "free"} :
               main' = [main EXCEPT !.ran = main.ran \cup {"started"}, !.control = c]
    BY Zenon DEF started_handler
  <2>4. QED
    BY <2>2, <2>3, Zenon
<1>b. waited_handler =>
        \E r \in {"failure", main.result}, s \in {"cancelled", main.signals} :
          main' = [main EXCEPT !.ran = main.ran \cup {"waited"}, !.result = r, !.signals = s]
  BY Zenon DEF waited_handler
<1>c. /\ main.ran \cup {"started"} \in SUBSET {"started", "waited"}
      /\ main.ran \cup {"waited"} \in SUBSET {"started", "waited"}
      /\ {"failure", main.result} \subseteq {"success", "failure"}
  BY <1>0 DEF Main
<1>3. /\ signal_arrives => main' = [main EXCEPT !.signals = "raised"]
      /\ ServerStep \/ listener_fails \/ UNCHANGED mainVars => main' = main
  BY DEF signal_arrives, ServerStep, listener_fails, mainVars
<1>4. /\ main' \in Main /\ main'.program = main.program
      /\ \/ main'.at = main.at
         \/ main'.at = main.at + 1 /\ main.program[main.at] # "join"
      /\ main.ran \subseteq main'.ran
      /\ main.result = "failure" => main'.result = "failure"
      /\ main'.early = main.early \/ signal_handler
  <2>1. CASE MainThread
    BY <1>0, <1>1, <2>1, Zenon DEF Main
  <2>2. CASE signal_handler \/ signal_handler_returns \/ coroutine_calls \/ coroutine_suspends
    BY <1>0, <1>2, <2>2, Zenon DEF Main
  <2>3. CASE started_handler \/ started_handler_returns
    <3>1. CASE started_handler
      <4>1. PICK r \in {"failure", main.result}, c \in {"started", "coroutine", "free"} :
              main' = [main EXCEPT !.ran = main.ran \cup {"started"}, !.result = r, !.control = c]
        BY <1>a, <3>1
      <4>2. /\ main'.program = main.program /\ main'.at = main.at /\ main'.early = main.early
            /\ main'.ran = main.ran \cup {"started"} /\ main'.result = r
        BY <1>0, <4>1 DEF Main
      <4>3. main' \in Main
        BY <1>0, <1>c, <4>1, Zenon DEF Main
      <4>4. QED
        BY <4>2, <4>3
    <3>2. CASE started_handler_returns
      BY <1>0, <1>2, <3>2, Zenon DEF Main
    <3>3. QED
      BY <2>3, <3>1, <3>2
  <2>4. CASE waited_handler
    <3>1. PICK r \in {"failure", main.result}, s \in {"cancelled", main.signals} :
            main' = [main EXCEPT !.ran = main.ran \cup {"waited"}, !.result = r, !.signals = s]
      BY <1>b, <2>4
    <3>2. /\ main'.program = main.program /\ main'.at = main.at /\ main'.early = main.early
          /\ main'.ran = main.ran \cup {"waited"} /\ main'.result = r
      BY <1>0, <3>1 DEF Main
    <3>3. main' \in Main
      <4>1. s \in {"new", "waiting", "raised", "handled", "cancelled"}
        BY <1>0 DEF Main
      <4>2. QED
        BY <1>0, <1>c, <3>1, <4>1, Zenon DEF Main
    <3>4. QED
      BY <3>2, <3>3
  <2>5. CASE signal_arrives \/ ServerStep \/ listener_fails \/ UNCHANGED mainVars
    BY <1>0, <1>3, <2>5 DEF Main
  <2>6. QED
    BY <2>1, <2>2, <2>3, <2>4, <2>5 DEF MainNext, Control
<1>5. main'.at \in 1..Len(main'.program)
  BY <1>0, <1>4
<1>6. Coroutine' <=> Coroutine
  BY <1>4 DEF Coroutine
<1>7. QED
  BY <1>4, <1>5, <1>6

-----------------------------------------------------------------------------
(* What a step does to the two calls of main and to a listener *)

\* The child of the start that reported back was the only one.
LEMMA StartedOnce ==
  ASSUME IInv, NEW i \in Listeners, NEW ec,
         Meets(listener[i].strand, {One(TheStart, ec)}), ec \in Error
  PROVE  ~StartOpen(i)
<1> DEFINE g == group[TheStart]
           l == listener[i]
<1>0. TheStart \in Operation /\ Starts = {TheStart}
  BY TheCalls
<1>1. One(TheStart, ec) \in Kids(TheStart) /\ l \in Listener /\ Sound(l)
  BY <1>0, HandlersMade DEF IInv, Ordered
<1>2. i \in Holders(TheStart)
  BY <1>0, <1>1 DEF Holders, Calls, Has, Meets
<1>3. g \in Group /\ Placed(g) /\ Counted(g, Holders(TheStart))
  BY <1>0 DEF IInv, Ordered, Book
<1>4. i \notin Ahead(g) /\ g.size # 0
  BY <1>2, <1>3 DEF Counted
<1>5. g.pc # "new"
  BY <1>3, <1>4 DEF Placed
<1>6. ~Asks(l, "start")
  <2> SUFFICES ASSUME NEW k \in DOMAIN l.strand, l.strand[k] \in Task, l.strand[k].op = "start"
               PROVE  FALSE
    BY DEF Asks, Meets
  <2>1. l.strand[k] \in Kids(TheStart)
    BY <1>0, HandlerKinds DEF Kids
  <2>2. PICK j \in DOMAIN l.strand : l.strand[j] = One(TheStart, ec)
    BY DEF Meets
  <2>3. MeetsOnce(l.strand, Kids(TheStart))
    BY <1>0, <1>1 DEF Sound, Once
  <2>4. j = k
    BY <1>1, <2>1, <2>2, <2>3 DEF MeetsOnce
  <2>5. QED
    BY <2>2, <2>4 DEF One
<1>7. QED
  BY <1>4, <1>5, <1>6 DEF StartOpen

\* A start that completed is not open at any listener.
LEMMA DoneNotOpen ==
  ASSUME IInv, StartDone, NEW i \in Listeners
  PROVE  ~StartOpen(i)
<1> DEFINE l == listener[i]
<1>0. TheStart \in Operation /\ Starts = {TheStart} /\ l \in Listener
  BY TheCalls DEF IInv, Ordered
<1>1. /\ group[TheStart].pc # "new" /\ Ahead(group[TheStart]) = {} /\ Holders(TheStart) = {}
  BY <1>0, DoneIsDone DEF StartDone
<1>2. ~Asks(l, "start")
  <2> SUFFICES ASSUME NEW k \in DOMAIN l.strand, l.strand[k] \in Task, l.strand[k].op = "start"
               PROVE  FALSE
    BY DEF Asks, Meets
  <2>1. l.strand[k] \in Kids(TheStart)
    BY <1>0, HandlerKinds DEF Kids
  <2>2. i \in Holders(TheStart)
    BY <1>0, <2>1 DEF Holders, Calls, Has, Meets
  <2>3. QED
    BY <1>1, <2>2
<1>3. QED
  BY <1>1, <1>2 DEF StartOpen

\* The start that reported back on listener i, or that completed, is not open there.
NotOpen ==
  \A i \in Listeners :
    /\ \A ec \in Error : Meets(listener[i].strand, {One(TheStart, ec)}) => ~StartOpen(i)
    /\ StartDone => ~StartOpen(i)

\* It holds after a step, too.
LEMMA NotOpenNext == (IInv => NotOpen)'
<1>1. IInv => NotOpen
  BY StartedOnce, DoneNotOpen DEF NotOpen
<1>2. QED
  BY <1>1, PTL

\* What a step does to listener i when nobody has an error to report after it.
OnListener(i) ==
  /\ StartOpen(i)' => StartOpen(i)
  /\ Asks(listener[i], "stop")' => Asks(listener[i], "stop") \/ \E c \in Caller : Looping(c)
  /\ listener[i].state = "idle" /\ StartOpen(i)' =>
       listener'[i].state = "idle" \/ Asks(listener[i], "stop")
  /\ WaitOpen(i) /\ i \in 1..registered =>
       \/ WaitOpen(i)'
       \/ listener'[i].state = "stopped" /\ listener'[i].terminal_error = "ok"
  /\ Fine(i) => listener'[i].state \in {"idle", "stopped"} /\ listener'[i].terminal_error = "ok"

\* What a step does to all calls and listeners.
Effect ==
  /\ \A a \in Operation : Moves(group[a], group'[a])
  /\ \A i \in Listeners : ~Asks(listener'[i], "cancel_wait")
  /\ Trouble => Trouble'
  /\ Trouble' \/ \A i \in Listeners : OnListener(i)

\* One call changes.
LEMMA OneGroup ==
  ASSUME IInv, Uncancelled, NEW a \in Operation, NEW m, group' = [group EXCEPT ![a] = m],
         Moves(group[a], m)
  PROVE  /\ group'[a] = m /\ \A b \in Operation : b # a => group'[b] = group[b]
         /\ \A b \in Operation : Moves(group[b], group'[b])
         /\ \A b \in Operation : Troubled(group[b]) => Troubled(group'[b])
         /\ Troubled(m) => Trouble'
<1>1. group'[a] = m /\ \A b \in Operation : b # a => group'[b] = group[b]
  BY DEF IInv, Ordered
<1>2. \A b \in Operation : Moves(group[b], group[b])
  BY DEF Uncancelled, Moves
<1>3. \A b \in Operation : Moves(group[b], group'[b])
  BY <1>1, <1>2
<1>4. \A g, n : Moves(g, n) /\ Troubled(g) => Troubled(n)
  BY DEF Moves, Troubled
<1>5. Troubled(m) => Trouble'
  BY <1>1 DEF Trouble
<1>6. QED
  BY <1>1, <1>3, <1>4, <1>5

\* One listener changes.
LEMMA OneListener ==
  ASSUME IInv, NEW i \in Listeners, NEW n, listener' = [listener EXCEPT ![i] = n]
  PROVE  /\ listener'[i] = n /\ \A j \in Listeners : j # i => listener'[j] = listener[j]
         /\ Warns(n) => Trouble'
<1>1. listener'[i] = n /\ \A j \in Listeners : j # i => listener'[j] = listener[j]
  BY DEF IInv, Ordered
<1>2. Warns(n) => Trouble'
  BY <1>1 DEF Trouble
<1>3. QED
  BY <1>1, <1>2

\* Every step of a program.
LEMMA StepEffect ==
  ASSUME IInv, IInv', Uncancelled, Steps \/ UNCHANGED vars
  PROVE  Effect
\* The handlers Asks and Warns look for.
<1>Kinds. ASSUME NEW op
          PROVE  /\ \A a \in Operation, ec \in Error :
                      /\ One(a, ec) \in Task
                      /\ One(a, ec) \in {h \in Task : h.op = op} <=> op = "one"
                      /\ One(a, ec) \in {h \in Task : h.op = "one" /\ h.ec # "ok"} <=> ec # "ok"
                 /\ \A h \in Task : /\ h \in {x \in Task : x.op = op} <=> h.op = op
                                    /\ h \in {x \in Task : x.op = "one" /\ x.ec # "ok"}
                                         <=> h.op = "one" /\ h.ec # "ok"
  BY <1>Kinds, HandlersMade DEF Kids, One
\* A handler at the end of the strand.
<1>Posting. ASSUME NEW l \in Listener, NEW h \in Task
            PROVE  /\ post(l, h) \in Listener
                   /\ \A op : Asks(post(l, h), op) <=> Asks(l, op) \/ h.op = op
                   /\ Warns(post(l, h)) <=> Warns(l) \/ (h.op = "one" /\ h.ec # "ok")
                   /\ post(l, h).state = l.state /\ post(l, h).terminal_error = l.terminal_error
                   /\ post(l, h).waiters = l.waiters
                   /\ Meets(post(l, h).strand, {h})
  <2> USE <1>Posting
  <2> DEFINE m == post(l, h)
  <2>1. l.strand \in Seq(Task)
    BY DEF Listener
  <2>2. /\ m \in Listener /\ m.strand = Append(l.strand, h) /\ m.state = l.state
        /\ m.terminal_error = l.terminal_error /\ m.waiters = l.waiters
    BY DEF post, Listener
  <2> HIDE DEF m
  <2>3. \A X : Meets(m.strand, X) <=> Meets(l.strand, X) \/ h \in X
    BY <2>1, <2>2, AppendMeets
  <2>4. QED
    BY <2>2, <2>3 DEF Asks, Warns, m
\* finish tells every waiter.
<1>Finishing. ASSUME NEW l \in Listener, NEW ec \in Error
              PROVE  LET m == finish(l, ec)
                     IN  /\ m \in Listener
                         /\ \A op : op # "one" => (Asks(m, op) <=> Asks(l, op))
                         /\ Warns(m) <=> Warns(l) \/ (l.waiters # << >> /\ ec # "ok")
                         /\ m.state = "stopped" /\ m.terminal_error = ec /\ m.waiters = << >>
                         /\ \A X : Meets(l.strand, X) => Meets(m.strand, X)
  <2> USE <1>Finishing
  <2> DEFINE m == finish(l, ec)
             t == [k \in DOMAIN l.waiters |-> One(l.waiters[k], ec)]
  <2>1. l.strand \in Seq(Task) /\ l.waiters \in Seq(Waits)
    BY DEF Listener
  <2>2. \A k \in DOMAIN l.waiters : l.waiters[k] \in Operation /\ One(l.waiters[k], ec) \in Task
    BY <2>1, <1>Kinds DEF Operation
  <2>3. t \in Seq(Task)
    BY <2>1, <2>2
  <2>4. /\ m \in Listener /\ m.strand = l.strand \o t /\ m.state = "stopped"
        /\ m.terminal_error = ec /\ m.waiters = << >>
    <3>1. l.strand \o t \in Seq(Task)
      BY <2>1, <2>3
    <3>2. << >> \in Seq(Waits)
      OBVIOUS
    <3>3. m = [l EXCEPT !.state = "stopped", !.terminal_error = ec, !.waiters = << >>,
                        !.strand = l.strand \o t]
      BY Zenon DEF finish, Listener
    <3>4. QED
      BY <3>1, <3>2, <3>3, Zenon DEF Listener, State
  <2>5. \A X : Meets(m.strand, X) <=> Meets(l.strand, X) \/ Meets(t, X)
    BY <2>1, <2>3, <2>4, ConcatMeets
  <2>6. \A op : op # "one" => ~Meets(t, {h \in Task : h.op = op})
    BY <2>2, <1>Kinds, Zenon DEF Meets
  <2>7. Meets(t, {h \in Task : h.op = "one" /\ h.ec # "ok"}) <=> l.waiters # << >> /\ ec # "ok"
    <3>1. l.waiters # << >> <=> DOMAIN l.waiters # {}
      <4>1. DOMAIN l.waiters = 1..Len(l.waiters) /\ Len(l.waiters) \in Nat
        BY <2>1
      <4>2. l.waiters # << >> => Len(l.waiters) # 0
        BY <2>1
      <4>3. QED
        BY <4>1, <4>2
    <3>2. \A k \in DOMAIN l.waiters : t[k] \in {h \in Task : h.op = "one" /\ h.ec # "ok"} <=> ec # "ok"
      BY <2>2, <1>Kinds
    <3>3. QED
      BY <3>1, <3>2, Zenon DEF Meets
  <2> HIDE DEF m, t
  <2>8. QED
    BY <2>4, <2>5, <2>6, <2>7, Zenon DEF Asks, Warns, m
\* A start that runs fails, is refused, or leaves the listener running.
<1>StartRuns. ASSUME IInv, Uncancelled, NEW i \in Listeners, start_on_strand(i)
              PROVE  \E m : /\ listener' = [listener EXCEPT ![i] = m]
                            /\ Keeps(listener[i], m, {"wait", "stop", "cancel_wait"})
                            /\ \E ec \in Error : Meets(m.strand, {One(TheStart, ec)})
                            /\ Warns(m) \/ (m.state = "running" /\ m.waiters = listener[i].waiters)
  <2> USE <1>StartRuns
  <2> DEFINE l == listener[i]
             h == Head(l.strand)
             p == Pop(l)
             opened == [p EXCEPT !.state = "running", !.terminal_error = "ok"]
             reply(ec) == One(TheStart, ec)
  <2>1. /\ l \in Listener /\ l.strand # << >> /\ h \in Task /\ h.op = "start"
        /\ popped(i) = p
    BY HeadOf, Zenon DEF start_on_strand
  <2>2. h.id = TheStart /\ TheStart \in Operation
    BY <2>1, HandlerKinds, TheCalls
  <2>3. group[TheStart].flagged = {}
    BY <2>2 DEF Uncancelled
  <2>4. Keeps(l, p, {"wait", "stop", "cancel_wait"}) /\ Same(l, p)
    BY <2>1, Taking DEF Keeps, Same
  <2>5. /\ opened \in Listener /\ opened.strand = p.strand /\ opened.waiters = p.waiters
        /\ opened.state = "running"
    BY <2>4, Zenon DEF Keeps, Listener, State, Error
  <2>6. Keeps(l, opened, {"wait", "stop", "cancel_wait"})
    BY <2>4, <2>5 DEF Keeps, Asks, Warns
  <2>7. \A ec \in Error : reply(ec) \in Task /\ reply(ec).op = "one" /\ reply(ec).ec = ec
    BY <2>2, <1>Kinds DEF One
  <2>8. {"ok", "failed", "aborted"} = Error
    BY DEF Error
  <2> HIDE DEF l, p, opened, reply
  <2>9. ASSUME NEW x, NEW ec \in Error, Keeps(l, x, {"wait", "stop", "cancel_wait"})
        PROVE  LET m == post(x, reply(ec))
               IN  /\ Keeps(l, m, {"wait", "stop", "cancel_wait"})
                   /\ Meets(m.strand, {reply(ec)}) /\ Same(x, m)
                   /\ Warns(m) <=> Warns(x) \/ ec # "ok"
    BY <2>7, <2>9, <1>Posting, Zenon DEF Keeps, Same
  <2>10. ASSUME NEW x, Keeps(l, x, {"wait", "stop", "cancel_wait"})
         PROVE  LET m == finish(x, "failed")
                IN  /\ Keeps(l, m, {"wait", "stop", "cancel_wait"})
                    /\ \A X : Meets(x.strand, X) => Meets(m.strand, X)
                    /\ Warns(x) => Warns(m)
    BY <2>8, <2>10, <1>Finishing DEF Keeps
  <2> DEFINE Over(m) == /\ Keeps(l, m, {"wait", "stop", "cancel_wait"})
                        /\ \E ec \in Error : Meets(m.strand, {reply(ec)})
                        /\ Warns(m) \/ (m.state = "running" /\ m.waiters = l.waiters)
  <2>11. Over(post(opened, reply("ok")))
    BY <2>4, <2>5, <2>6, <2>8, <2>9, Zenon DEF Same
  <2>12. Over(finish(post(opened, reply("failed")), "failed"))
    BY <2>6, <2>8, <2>9, <2>10, Zenon
  <2>13. Over(post(finish(opened, "failed"), reply("failed")))
    BY <2>6, <2>8, <2>9, <2>10, Zenon
  <2>14. p.state = "running" => Over(post(p, reply("ok")))
    BY <2>4, <2>8, <2>9, Zenon DEF Same
  <2>15. Over(post(p, reply("aborted")))
    BY <2>4, <2>8, <2>9, Zenon
  <2>16. \E m \in {post(opened, reply("ok")), finish(post(opened, reply("failed")), "failed"),
                   post(finish(opened, "failed"), reply("failed")), post(p, reply("aborted"))}
                  \cup {x \in {post(p, reply("ok"))} : p.state = "running"} :
           listener' = [listener EXCEPT ![i] = m]
    BY <2>1, <2>2, <2>3, Zenon DEF start_on_strand, l, opened, reply
  <2>17. QED
    BY <2>11, <2>12, <2>13, <2>14, <2>15, <2>16, Zenon DEF l, reply
\* A wait that runs reports an error, waits, or finds the listener stopped.
<1>WaitRuns. ASSUME IInv, Uncancelled, NEW i \in Listeners, wait_on_strand(i)
             PROVE  \E m : /\ listener' = [listener EXCEPT ![i] = m]
                           /\ Keeps(listener[i], m, {"start", "stop", "cancel_wait"})
                           /\ m.state = listener[i].state
                           /\ m.terminal_error = listener[i].terminal_error
                           /\ \/ Warns(m) \/ m.waiters # << >>
                              \/ m.state = "stopped" /\ m.terminal_error = "ok"
  <2> USE <1>WaitRuns
  <2> DEFINE l == listener[i]
             h == Head(l.strand)
             p == Pop(l)
             ops == {"start", "stop", "cancel_wait"}
             w == [p EXCEPT !.waiters = Append(@, TheWait)]
             r == One(TheWait, p.terminal_error)
             done == post(p, r)
  <2>1. /\ l \in Listener /\ l.strand # << >> /\ h \in Task /\ h.op = "wait"
        /\ popped(i) = p
    BY HeadOf DEF wait_on_strand
  <2>2. h.id = TheWait /\ TheWait \in Operation /\ TheWait \in Waits
    BY <2>1, HandlerKinds, TheCalls
  <2>3. group[TheWait].flagged = {}
    BY <2>2 DEF Uncancelled
  <2>4. Keeps(l, p, ops) /\ Same(l, p)
    BY <2>1, Taking DEF Keeps, Same
  <2>5. /\ w \in Listener /\ w.strand = p.strand /\ w.state = p.state
        /\ w.terminal_error = p.terminal_error /\ w.waiters # << >>
    <3>1. p \in Listener /\ p.waiters \in Seq(Waits)
      BY <2>4 DEF Keeps, Listener
    <3>2. Append(p.waiters, TheWait) \in Seq(Waits) /\ Append(p.waiters, TheWait) # << >>
      BY <2>2, <3>1
    <3>3. QED
      BY <3>1, <3>2, Zenon DEF Listener
  <2>6. Keeps(l, w, ops)
    BY <2>4, <2>5 DEF Keeps, Asks, Warns
  <2>7. p.terminal_error \in Error /\ r \in Task
    BY <2>2, <2>4, <1>Kinds DEF Keeps, Listener
  <2>8. Keeps(l, done, ops) /\ Same(p, done) /\ (Warns(done) \/ p.terminal_error = "ok")
    <3>1. r.op = "one" /\ r.ec = p.terminal_error
      BY DEF One
    <3>2. p \in Listener
      BY <2>4 DEF Keeps
    <3> HIDE DEF p, l, r
    <3>3. /\ done \in Listener
          /\ done.state = p.state /\ done.terminal_error = p.terminal_error
          /\ done.waiters = p.waiters
          /\ \A op : Asks(done, op) <=> Asks(p, op) \/ r.op = op
          /\ Warns(done) <=> Warns(p) \/ (r.op = "one" /\ r.ec # "ok")
      BY <2>7, <3>2, <1>Posting, Zenon
    <3> HIDE DEF done
    <3>4. QED
      BY <2>4, <3>1, <3>3 DEF Keeps, Same
  <2>9. \/ p.state = "stopped" /\ listener' = [listener EXCEPT ![i] = done]
        \/ listener' = [listener EXCEPT ![i] = w]
    BY <2>1, <2>2, <2>3, Zenon DEF wait_on_strand
  <2> HIDE DEF l, p, w, done, ops
  <2>10. QED
    BY <2>4, <2>5, <2>6, <2>8, <2>9 DEF Same, l, ops
\* A stop that runs stops an idle listener, begins to stop a running one, and
\* does nothing to others.
<1>StopRuns. ASSUME IInv, NEW i \in Listeners, stop_on_strand(i)
             PROVE  \E m : /\ listener' = [listener EXCEPT ![i] = m]
                           /\ Keeps(listener[i], m, {"start", "wait", "cancel_wait"})
                           /\ Asks(listener[i], "stop")
                           /\ \/ /\ listener[i].state = "idle" /\ m.state = "stopped"
                                 /\ m.terminal_error = "ok"
                              \/ /\ listener[i].state = "running" /\ m.state = "stopping"
                                 /\ m.waiters = listener[i].waiters
                              \/ Same(listener[i], m)
  <2> USE <1>StopRuns
  <2> DEFINE l == listener[i]
             h == Head(l.strand)
             p == Pop(l)
             ops == {"start", "wait", "cancel_wait"}
             s == [p EXCEPT !.state = "stopping"]
  <2>1. /\ l \in Listener /\ l.strand # << >> /\ h \in Task /\ h.op = "stop"
        /\ popped(i) = p /\ Asks(l, "stop")
    BY HeadOf DEF stop_on_strand
  <2>2. Keeps(l, p, ops) /\ Same(l, p)
    BY <2>1, Taking DEF Keeps, Same
  <2>3. /\ s \in Listener /\ s.strand = p.strand /\ s.waiters = p.waiters /\ s.state = "stopping"
    BY <2>2 DEF Keeps, Listener, State
  <2>4. Keeps(l, s, ops)
    BY <2>2, <2>3 DEF Keeps, Asks, Warns
  <2>5. /\ Keeps(l, finish(p, "ok"), ops) /\ finish(p, "ok").state = "stopped"
        /\ finish(p, "ok").terminal_error = "ok"
    <3>1. "ok" \in Error
      BY DEF Error
    <3>2. QED
      BY <2>2, <3>1, <1>Finishing DEF Keeps
  <2>6. \/ p.state = "idle" /\ listener' = [listener EXCEPT ![i] = finish(p, "ok")]
        \/ p.state = "running" /\ listener' = [listener EXCEPT ![i] = s]
        \/ listener' = [listener EXCEPT ![i] = p]
    BY <2>1, Zenon DEF stop_on_strand
  <2> HIDE DEF l, p, s, ops
  <2>7. QED
    BY <2>1, <2>2, <2>3, <2>4, <2>5, <2>6 DEF Same, l, ops
\* A listener that fails goes on waiting for its end, and then tells the waiters.
<1>FailsOrDrains.
  ASSUME IInv, NEW i \in Listeners, runtime_failure(i) \/ drains(i)
  PROVE  \E m : /\ listener' = [listener EXCEPT ![i] = m]
                /\ Keeps(listener[i], m, {"start", "wait", "stop", "cancel_wait"})
                /\ \/ /\ listener[i].state = "running" /\ m.state = "stopping"
                      /\ m.waiters = listener[i].waiters
                   \/ /\ listener[i].state = "stopping" /\ m.state = "stopped"
                      /\ Warns(m) \/ listener[i].waiters = << >> \/ m.terminal_error = "ok"
                      /\ m.waiters = << >>
  <2> USE <1>FailsOrDrains
  <2> DEFINE l == listener[i]
             ops == {"start", "wait", "stop", "cancel_wait"}
             f == [l EXCEPT !.state = "stopping", !.terminal_error = "failed"]
             d == finish(l, l.terminal_error)
  <2>1. l \in Listener /\ l.terminal_error \in Error /\ listener \in [Listeners -> Listener]
    BY DEF IInv, Ordered, Listener
  <2>2. /\ f \in Listener /\ f.strand = l.strand /\ f.waiters = l.waiters /\ f.state = "stopping"
    BY <2>1, Zenon DEF Listener, State, Error
  <2>3. Keeps(l, f, ops)
    BY <2>2 DEF Keeps, Asks, Warns
  <2>4. /\ Keeps(l, d, ops) /\ d.state = "stopped" /\ d.waiters = << >>
        /\ Warns(d) \/ l.waiters = << >> \/ d.terminal_error = "ok"
    BY <2>1, <1>Finishing DEF Keeps
  <2>5. \/ l.state = "running" /\ listener' = [listener EXCEPT ![i] = f]
        \/ l.state = "stopping" /\ listener' = [listener EXCEPT ![i] = d]
    BY <2>1, Zenon DEF runtime_failure, drains
  <2> HIDE DEF l, f, d, ops
  <2>6. QED
    BY <2>2, <2>3, <2>4, <2>5 DEF l, ops
\* Nothing happens to a listener that stays as it is, and the calls are as open
\* for it as before.
<1>Untouched. ASSUME IInv, NEW i \in Listeners, listener'[i] = listener[i],
                     \A a \in Operation : Still(group[a], group'[a])
              PROVE  OnListener(i)
  <2> USE <1>Untouched
  <2>1. TheStart \in Operation /\ TheWait \in Operation
    BY TheCalls
  <2>2. (StartOpen(i)' <=> StartOpen(i)) /\ (WaitOpen(i)' <=> WaitOpen(i))
    BY <2>1 DEF StartOpen, WaitOpen, Still
  <2>3. Asks(listener[i], "stop")' <=> Asks(listener[i], "stop")
    OBVIOUS
  <2>4. QED
    BY <2>2, <2>3 DEF OnListener, Fine
\* A step of the caller that changes its call only.
<1>CallOnly. ASSUME IInv, Uncancelled, NEW a \in Operation, NEW m, group' = [group EXCEPT ![a] = m],
                    Moves(group[a], m), listener' = listener,
                    \/ Troubled(m) \/ Still(group[a], m)
                    \/ group[a].pc = "new" /\ m.pc # "new" /\ Ahead(m) = 1..registered
             PROVE  Effect
  <2> USE <1>CallOnly
  <2>0. TheStart \in Operation /\ TheWait \in Operation /\ TheStart # TheWait
    BY TheCalls
  <2>1. /\ group'[a] = m /\ \A b \in Operation : b # a => group'[b] = group[b]
        /\ \A b \in Operation : Moves(group[b], group'[b])
        /\ \A b \in Operation : Troubled(group[b]) => Troubled(group'[b])
        /\ Troubled(m) => Trouble'
    BY OneGroup, Zenon
  <2>2. \A i \in Listeners : ~Asks(listener'[i], "cancel_wait")
    BY DEF Uncancelled
  <2>3. Trouble => Trouble'
    BY <2>1 DEF Trouble
  <2>4. Trouble' \/ \A i \in Listeners : OnListener(i)
    <3>1. CASE Still(group[a], m)
      <4>1. \A b \in Operation : Still(group[b], group'[b])
        BY <2>1, <3>1 DEF Still
      <4>2. QED
        BY <4>1, <1>Untouched
    <3>2. CASE group[a].pc = "new" /\ m.pc # "new" /\ Ahead(m) = 1..registered
      <4> SUFFICES ASSUME NEW i \in Listeners PROVE OnListener(i)
        OBVIOUS
      <4>1. StartOpen(i)' => StartOpen(i)
        BY <2>0, <2>1, <3>2 DEF StartOpen
      <4>2. WaitOpen(i) /\ i \in 1..registered => WaitOpen(i)'
        BY <2>0, <2>1, <3>2, Zenon DEF WaitOpen
      <4>3. QED
        BY <4>1, <4>2 DEF OnListener, Fine
    <3>3. QED
      BY <2>1, <3>1, <3>2
  <2>5. QED
    BY <2>1, <2>2, <2>3, <2>4 DEF Effect
\* A step of a strand that changes its listener only.
<1>ListenerOnly. ASSUME IInv, Uncancelled, NEW i \in Listeners, NEW n, group' = group,
                        listener' = [listener EXCEPT ![i] = n],
                        ~Asks(n, "cancel_wait"), Warns(listener[i]) => Warns(n),
                        Warns(n) \/ OnListener(i)
                 PROVE  Effect
  <2> USE <1>ListenerOnly
  <2>1. /\ listener'[i] = n /\ \A j \in Listeners : j # i => listener'[j] = listener[j]
        /\ Warns(n) => Trouble'
    BY OneListener, Zenon
  <2>2. \A a \in Operation : Moves(group[a], group'[a]) /\ Still(group[a], group'[a])
    BY DEF Uncancelled, Moves, Still
  <2>3. \A j \in Listeners : ~Asks(listener'[j], "cancel_wait")
    BY <2>1 DEF Uncancelled
  <2>4. Trouble => Trouble'
    BY <2>1 DEF Trouble
  <2>5. Trouble' \/ \A j \in Listeners : OnListener(j)
    BY <2>1, <2>2, <1>Untouched
  <2>6. QED
    BY <2>2, <2>3, <2>4, <2>5 DEF Effect
\* The steps of a caller.
<1>CallerEffect. ASSUME IInv, Uncancelled, NEW a \in Operation,
                        \/ snapshot(a) \/ start_begins(a) \/ start_rejected(a) \/ submit_throws(a)
                        \/ submit_checks(a) \/ initiation_one(a) \/ initiation_done(a)
                        \/ caller_completes(a) \/ stop_if_requested(a)
                 PROVE  Effect
  <2> USE <1>CallerEffect
  <2>1. CASE snapshot(a)
    <3>1. group[a].pc = "new" /\ listener' = listener
      BY <2>1 DEF snapshot
    <3>2. QED
      BY <2>1, <3>1, SnapshotMoves, <1>CallOnly
  <2>2. CASE start_begins(a) \/ submit_checks(a) \/ initiation_done(a) \/ stop_if_requested(a)
    BY <2>2, CallerMoves, <1>CallOnly
  <2>3. CASE start_rejected(a)
    BY <2>3, RejectMoves, <1>CallOnly
  <2>4. CASE submit_throws(a)
    BY <2>4, ThrowMoves, <1>CallOnly
  <2>5. CASE initiation_one(a)
    BY <2>5, InitiationMoves, <1>CallOnly
  <2>6. CASE caller_completes(a)
    <3>1. complete(a) /\ group[a].pc = "completes" /\ listener' = listener
      BY <2>6 DEF caller_completes
    <3>2. QED
      BY <3>1, CompleteMoves, <1>CallOnly
  <2>7. QED
    BY <2>1, <2>2, <2>3, <2>4, <2>5, <2>6
\* submit.
<1>SubmitEffect. ASSUME IInv, Uncancelled, NEW a \in Operation, submit(a)
                 PROVE  Effect
  <2> USE <1>SubmitEffect
  <2>0. /\ TheStart \in Operation /\ TheWait \in Operation /\ TheStart # TheWait
        /\ a = TheStart <=> a \in Starts
        /\ a = TheWait <=> a \notin Starts
    BY TheCalls
  <2>1. PICK m, j, h : 
             /\ group' = [group EXCEPT ![a] = m] /\ Moves(group[a], m)
             /\ m.pc # "new" /\ group[a].pc = "submit" /\ m.completions = group[a].completions
             /\ Ahead(group[a]) = Ahead(m) \cup {j}
             /\ j \in 1..group[a].size /\ j \in Listeners /\ h \in Task
             /\ h.op = (IF a \in Starts THEN "start" ELSE "wait")
             /\ listener' = [listener EXCEPT ![j] = post(listener[j], h)]
    BY SubmitMoves
  <2> DEFINE n == post(listener[j], h)
  <2>2. /\ group'[a] = m /\ \A b \in Operation : b # a => group'[b] = group[b]
        /\ \A b \in Operation : Moves(group[b], group'[b])
        /\ \A b \in Operation : Troubled(group[b]) => Troubled(group'[b])
    BY <2>1, OneGroup, Zenon
  <2>3. /\ \A op : Asks(n, op) <=> Asks(listener[j], op) \/ h.op = op
        /\ Warns(n) <=> Warns(listener[j]) \/ (h.op = "one" /\ h.ec # "ok")
        /\ Same(listener[j], n)
    BY <2>1, <1>Posting, Zenon DEF Same, IInv, Ordered
  <2> HIDE DEF n
  <2>4. /\ listener'[j] = n /\ \A i \in Listeners : i # j => listener'[i] = listener[i]
    BY <2>1, OneListener, Zenon DEF n
  <2>5. \A i \in Listeners : ~Asks(listener'[i], "cancel_wait")
    BY <2>1, <2>3, <2>4 DEF Uncancelled
  <2>6. Trouble => Trouble'
    BY <2>2, <2>3, <2>4 DEF Trouble
  <2>7. ASSUME NEW i \in Listeners PROVE OnListener(i)
    <3>1. /\ listener'[i].state = listener[i].state
          /\ listener'[i].terminal_error = listener[i].terminal_error
          /\ listener'[i].waiters = listener[i].waiters
          /\ Asks(listener'[i], "stop") <=> Asks(listener[i], "stop")
      BY <2>1, <2>3, <2>4 DEF Same
    <3>2. \A op : Asks(listener'[i], op) <=> Asks(listener[i], op) \/ (i = j /\ h.op = op)
      BY <2>3, <2>4
    <3>3. StartOpen(i)' => StartOpen(i)
      BY <2>0, <2>1, <2>2, <3>2 DEF StartOpen
    <3>4. WaitOpen(i) => WaitOpen(i)'
      BY <2>0, <2>1, <2>2, <3>1, <3>2 DEF WaitOpen
    <3>5. QED
      BY <3>1, <3>3, <3>4 DEF OnListener, Fine
  <2>8. QED
    BY <2>2, <2>5, <2>6, <2>7 DEF Effect
\* A report, or the completion it leads to.
<1>ReportEffect. ASSUME IInv, Uncancelled, NEW i \in Listeners, one(i) \/ one_completes(i)
                 PROVE  Effect
  <2> USE <1>ReportEffect
  <2> DEFINE Runs(a, m, n) ==
        /\ group' = [group EXCEPT ![a] = m] /\ Moves(group[a], m) /\ Still(group[a], m)
        /\ listener' = [listener EXCEPT ![i] = n] /\ Same(listener[i], n)
        /\ \A op \in Requests : Asks(n, op) <=> Asks(listener[i], op)
        /\ Warns(listener[i]) => Warns(n) \/ Troubled(m)
  <2>0. PICK a \in Operation : \E m, n : Runs(a, m, n)
    <3>1. CASE one(i)
      BY <3>1, OneRuns
    <3>2. CASE one_completes(i)
      <4> DEFINE Last(n) == /\ listener' = [listener EXCEPT ![i] = n] /\ Same(listener[i], n)
                            /\ Keeps(listener[i], n, Requests)
      <4>1. PICK a \in Operation : complete(a) /\ Enders(a) # {} /\ \E n : Last(n)
        BY <3>2, OneEnds
      <4>2. PICK n : Last(n)
        BY <4>1, Zenon
      <4>3. PICK m : group' = [group EXCEPT ![a] = m] /\ Moves(group[a], m) /\ Still(group[a], m)
        BY <4>1, CompleteMoves
      <4>4. QED
        BY <4>2, <4>3, Zenon DEF Keeps
    <3>3. QED
      BY <3>1, <3>2
  <2>1. PICK m, n : Runs(a, m, n)
    BY <2>0, Zenon
  <2>2. /\ group'[a] = m /\ \A b \in Operation : b # a => group'[b] = group[b]
        /\ \A b \in Operation : Moves(group[b], group'[b])
        /\ \A b \in Operation : Troubled(group[b]) => Troubled(group'[b])
        /\ Troubled(m) => Trouble'
    BY <2>1, OneGroup, Zenon
  <2>3. /\ listener'[i] = n /\ \A j \in Listeners : j # i => listener'[j] = listener[j]
        /\ Warns(n) => Trouble'
    BY <2>1, OneListener, Zenon
  <2>4. \A op \in Requests : \A j \in Listeners : Asks(listener'[j], op) <=> Asks(listener[j], op)
    BY <2>1, <2>3
  <2>5. \A j \in Listeners : ~Asks(listener'[j], "cancel_wait")
    BY <2>4 DEF Uncancelled, Requests
  <2>6. Trouble => Trouble'
    BY <2>1, <2>2, <2>3 DEF Trouble
  <2>7. \A b \in Operation : Still(group[b], group'[b])
    BY <2>1, <2>2 DEF Still
  <2>8. ASSUME NEW j \in Listeners PROVE OnListener(j)
    <3>1. Same(listener[j], listener'[j])
      BY <2>1, <2>3 DEF Same
    <3>2. (StartOpen(j)' <=> StartOpen(j)) /\ (WaitOpen(j)' <=> WaitOpen(j))
      BY <2>4, <2>7, <3>1, TheCalls DEF StartOpen, WaitOpen, Still, Same, Requests
    <3>3. Asks(listener[j], "stop")' <=> Asks(listener[j], "stop")
      BY <2>4 DEF Requests
    <3>4. QED
      BY <3>1, <3>2, <3>3 DEF OnListener, Fine, Same
  <2>9. QED
    BY <2>2, <2>5, <2>6, <2>8, Zenon DEF Effect
\* The steps of a strand, and of a listener by itself.
<1>StrandEffect.
  ASSUME IInv, IInv', Uncancelled, NEW i \in Listeners,
         \/ start_on_strand(i) \/ wait_on_strand(i) \/ cancel_wait(i) \/ stop_on_strand(i)
         \/ runtime_failure(i) \/ drains(i)
  PROVE  Effect
  <2> USE <1>StrandEffect
  <2> DEFINE l == listener[i]
  <2>0. ~Asks(l, "cancel_wait")
    BY DEF Uncancelled
  <2>1. CASE start_on_strand(i)
    <3>1. PICK m : /\ listener' = [listener EXCEPT ![i] = m]
                   /\ Keeps(l, m, {"wait", "stop", "cancel_wait"})
                   /\ \E ec \in Error : Meets(m.strand, {One(TheStart, ec)})
                   /\ Warns(m) \/ (m.state = "running" /\ m.waiters = l.waiters)
      BY <2>1, <1>StartRuns, Zenon
    <3>2. listener'[i] = m /\ group' = group
      BY <2>1, <3>1, OneListener, Zenon DEF start_on_strand
    <3>3. ~StartOpen(i)'
      BY <3>1, <3>2, NotOpenNext DEF NotOpen
    <3>4. StartOpen(i)
      BY <2>1, HeadOf, Zenon DEF start_on_strand, StartOpen
    <3>5. m.waiters = l.waiters => (WaitOpen(i)' <=> WaitOpen(i))
      BY <3>1, <3>2 DEF WaitOpen, Keeps
    <3>6. Warns(m) \/ OnListener(i)
      BY <3>1, <3>2, <3>3, <3>4, <3>5, Zenon DEF OnListener, Keeps, Fine
    <3>7. QED
      BY <2>0, <3>1, <3>2, <3>6, <1>ListenerOnly, Zenon DEF Keeps
  <2>2. CASE wait_on_strand(i)
    <3>1. PICK m : /\ listener' = [listener EXCEPT ![i] = m]
                   /\ Keeps(l, m, {"start", "stop", "cancel_wait"})
                   /\ m.state = l.state /\ m.terminal_error = l.terminal_error
                   /\ \/ Warns(m) \/ m.waiters # << >>
                      \/ m.state = "stopped" /\ m.terminal_error = "ok"
      BY <2>2, <1>WaitRuns
    <3>2. listener'[i] = m /\ group' = group
      BY <2>2, <3>1, OneListener, Zenon DEF wait_on_strand
    <3>3. StartOpen(i)' <=> StartOpen(i)
      BY <3>1, <3>2 DEF StartOpen, Keeps
    <3>4. m.waiters # << >> => WaitOpen(i)'
      BY <3>2 DEF WaitOpen
    <3>5. Warns(m) \/ OnListener(i)
      BY <3>1, <3>2, <3>3, <3>4, Zenon DEF OnListener, Keeps, Fine
    <3>6. QED
      BY <2>0, <3>1, <3>2, <3>5, <1>ListenerOnly, Zenon DEF Keeps
  <2>3. CASE cancel_wait(i)
    BY <2>0, <2>3, HeadOf DEF cancel_wait
  <2>4. CASE stop_on_strand(i)
    <3>1. PICK m : /\ listener' = [listener EXCEPT ![i] = m]
                   /\ Keeps(l, m, {"start", "wait", "cancel_wait"})
                   /\ Asks(l, "stop")
                   /\ \/ l.state = "idle" /\ m.state = "stopped" /\ m.terminal_error = "ok"
                      \/ l.state = "running" /\ m.state = "stopping" /\ m.waiters = l.waiters
                      \/ Same(l, m)
      BY <2>4, <1>StopRuns
    <3>2. listener'[i] = m /\ group' = group
      BY <2>4, <3>1, OneListener, Zenon DEF stop_on_strand
    <3>3. StartOpen(i)' <=> StartOpen(i)
      BY <3>1, <3>2, Zenon DEF StartOpen, Keeps
    <3>4. m.waiters = l.waiters => (WaitOpen(i)' <=> WaitOpen(i))
      BY <3>1, <3>2, Zenon DEF WaitOpen, Keeps
    <3>5. OnListener(i)
      BY <3>1, <3>2, <3>3, <3>4 DEF OnListener, Fine, Same
    <3>6. QED
      BY <2>0, <3>1, <3>2, <3>5, <1>ListenerOnly, Zenon DEF Keeps
  <2>5. CASE runtime_failure(i) \/ drains(i)
    <3>1. PICK m : /\ listener' = [listener EXCEPT ![i] = m]
                   /\ Keeps(l, m, {"start", "wait", "stop", "cancel_wait"})
                   /\ \/ l.state = "running" /\ m.state = "stopping" /\ m.waiters = l.waiters
                      \/ /\ l.state = "stopping" /\ m.state = "stopped"
                         /\ Warns(m) \/ l.waiters = << >> \/ m.terminal_error = "ok"
                         /\ m.waiters = << >>
      BY <2>5, <1>FailsOrDrains
    <3>2. listener'[i] = m /\ group' = group
      BY <2>5, <3>1, OneListener, Zenon DEF runtime_failure, drains
    <3>3. StartOpen(i)' <=> StartOpen(i)
      BY <3>1, <3>2 DEF StartOpen, Keeps
    <3>4. m.waiters = l.waiters => (WaitOpen(i)' <=> WaitOpen(i))
      BY <3>1, <3>2 DEF WaitOpen, Keeps
    <3>5. Warns(m) \/ OnListener(i)
      BY <3>1, <3>2, <3>3, <3>4, Zenon DEF OnListener, Keeps, Fine
    <3>6. QED
      BY <2>0, <3>1, <3>2, <3>5, <1>ListenerOnly, Zenon DEF Keeps
  <2>6. QED
    BY <2>1, <2>2, <2>3, <2>4, <2>5
\* The steps of a loop and of request_stop.
<1>StopEffect. ASSUME IInv, Uncancelled,
                      \/ \E c \in Caller : LoopStep(c)
                      \/ \E t \in Stoppers : server_request_stop(t) \/ server_request_stop_returns(t)
                      \/ add_listener \/ UNCHANGED vars
               PROVE  Effect
  <2> USE <1>StopEffect
  <2>1. CASE group' = group /\ listener' = listener
    <3>1. \A a \in Operation : Moves(group[a], group'[a]) /\ Still(group[a], group'[a])
      BY <2>1, Zenon DEF Uncancelled, Moves, Still
    <3>2. Trouble => Trouble'
      BY <2>1 DEF Trouble
    <3>3. \A i \in Listeners : OnListener(i)
      BY <2>1, <3>1, <1>Untouched
    <3>4. QED
      BY <2>1, <3>1, <3>2, <3>3 DEF Effect, Uncancelled
  <2>2. CASE \E c \in Caller : loop_post(c)
    <3>1. PICK c \in Caller : loop_post(c)
      BY <2>2
    <3>2. Looping(c) /\ group' = group /\ loop \in [Caller -> Loop] /\ listener \in [Listeners -> Listener]
      BY <3>1 DEF loop_post, IInv, Threads, Ordered
    <3>3. PICK i \in Listeners : i = loop[c].done + 1
      BY <3>2, LoopTypes, Zenon DEF Looping
    <3> DEFINE h == [op |-> "stop"]
               n == post(listener[i], h)
    <3>4. listener' = [listener EXCEPT ![i] = n]
      BY <3>1, <3>2, <3>3, Zenon DEF loop_post, post
    <3>5. h \in Task /\ h.op = "stop"
      BY HandlersMade
    <3> HIDE DEF h
    <3>6. /\ \A op : Asks(n, op) <=> Asks(listener[i], op) \/ "stop" = op
          /\ Warns(n) <=> Warns(listener[i])
          /\ n.state = listener[i].state /\ n.terminal_error = listener[i].terminal_error
          /\ n.waiters = listener[i].waiters
      BY <3>2, <3>5, <1>Posting, Zenon
    <3> HIDE DEF n
    <3>7. listener'[i] = n
      BY <3>3, <3>4, OneListener, Zenon
    <3>8. (StartOpen(i)' <=> StartOpen(i)) /\ (WaitOpen(i)' <=> WaitOpen(i))
      BY <3>2, <3>6, <3>7, Zenon DEF StartOpen, WaitOpen
    <3>9. OnListener(i)
      BY <3>2, <3>6, <3>7, <3>8 DEF OnListener, Fine
    <3>10. ~Asks(n, "cancel_wait")
      BY <3>3, <3>6, Zenon DEF Uncancelled
    <3>11. QED
      BY <3>2, <3>3, <3>4, <3>6, <3>9, <3>10, <1>ListenerOnly, Zenon
  <2>3. QED
    BY <2>1, <2>2 DEF LoopStep, loop_check, server_request_stop, server_request_stop_returns,
       add_listener, vars
<1>1. CASE \E a \in Operation : snapshot(a) \/ CallStep(a)
  BY <1>1, <1>CallerEffect, <1>SubmitEffect DEF CallStep
<1>2. CASE \E i \in Listeners : StrandStep(i) \/ drains(i) \/ runtime_failure(i)
  BY <1>2, <1>StrandEffect, <1>ReportEffect DEF StrandStep
<1>3. QED
  BY <1>1, <1>2, <1>StopEffect DEF Steps

-----------------------------------------------------------------------------
(* The steps of a program *)

\* What changes in the server with each step of a program.
LEMMA MainKinds ==
  ASSUME MainNext \/ UNCHANGED mainVars
  PROVE  \/ \E s \in {"listen", "bind"} : registers(s)
         \/ UNCHANGED vars
         \/ main_calls \/ coroutine_calls
         \/ signal_handler
         \/ started_handler /\ server_request_stop(OnError)
         \/ signal_handler_returns \/ started_handler_returns
         \/ ServerStep \/ listener_fails
<1>1. MainThread => \/ \E s \in {"listen", "bind"} : registers(s)
                    \/ UNCHANGED vars \/ main_calls
  BY Zenon DEF MainThread, main_listens, main_binds, main_signals, main_spawns, main_joins
<1>2. Control => \/ UNCHANGED vars \/ coroutine_calls \/ signal_handler
                 \/ started_handler /\ server_request_stop(OnError)
                 \/ signal_handler_returns \/ started_handler_returns
  BY DEF Control, started_handler, waited_handler, coroutine_suspends
<1>3. signal_arrives => UNCHANGED vars
  BY DEF signal_arrives
<1>4. QED
  BY <1>1, <1>2, <1>3 DEF MainNext, mainVars

\* The steps that go on by themselves register nothing, request no stop and make
\* no call.
LEMMA Goes ==
  ASSUME IInv, Uncancelled, ServerStep \/ listener_fails
  PROVE  /\ main' = main /\ registered' = registered /\ stopper' = stopper
         /\ \A a \in Operation : group[a].pc = "new" => group'[a].pc = "new"
<1>1. main' = main
  BY DEF ServerStep, listener_fails
<1>2. registered' = registered /\ stopper' = stopper
  <2>1. ASSUME NEW a \in Operation, CallStep(a)
        PROVE  registered' = registered /\ stopper' = stopper
    BY <2>1, Zenon DEF CallStep, start_begins, start_rejected, submit,
       submit_throws, submit_checks, initiation_one, initiation_done, caller_completes,
       stop_if_requested
  <2>2. ASSUME NEW i \in Listeners, StrandStep(i) \/ drains(i) \/ runtime_failure(i)
        PROVE  registered' = registered /\ stopper' = stopper
    BY <2>2, Zenon DEF StrandStep, start_on_strand, wait_on_strand,
       cancel_wait, stop_on_strand, one, one_completes, drains, runtime_failure
  <2>3. ASSUME NEW c \in Caller, LoopStep(c)
        PROVE  registered' = registered /\ stopper' = stopper
    BY <2>3, Zenon DEF LoopStep, loop_check, loop_post
  <2>4. QED
    BY <2>1, <2>2, <2>3 DEF ServerStep, listener_fails
<1>3. ASSUME NEW a \in Operation, NEW m, group' = [group EXCEPT ![a] = m],
             Moves(group[a], m), group[a].pc # "new" \/ Still(group[a], m)
      PROVE  \A b \in Operation : group[b].pc = "new" => group'[b].pc = "new"
  BY <1>3, OneGroup DEF Still
<1>4. ASSUME NEW a \in Operation, CallStep(a)
      PROVE  \A b \in Operation : group[b].pc = "new" => group'[b].pc = "new"
  <2>1. CASE start_begins(a) \/ submit_checks(a) \/ initiation_done(a) \/ stop_if_requested(a)
    BY <1>3, <2>1, CallerMoves, Zenon
  <2>2. CASE start_rejected(a)
    BY <1>3, <2>2, RejectMoves
  <2>3. CASE submit(a)
    BY <1>3, <2>3, SubmitMoves
  <2>4. CASE submit_throws(a)
    BY <1>3, <2>4, ThrowMoves
  <2>5. CASE initiation_one(a)
    BY <1>3, <2>5, InitiationMoves
  <2>6. CASE caller_completes(a)
    BY <1>3, <2>6, CompleteMoves DEF caller_completes
  <2>7. QED
    BY <1>4, <2>1, <2>2, <2>3, <2>4, <2>5, <2>6 DEF CallStep
<1>5. ASSUME NEW i \in Listeners, StrandStep(i) \/ drains(i) \/ runtime_failure(i)
      PROVE  \A b \in Operation : group[b].pc = "new" => group'[b].pc = "new"
  <2>1. CASE one(i)
    BY <1>3, <2>1, OneRuns, Zenon
  <2>2. CASE one_completes(i)
    <3>1. PICK a \in Operation : complete(a) /\ Enders(a) # {}
      BY <2>2, OneEnds
    <3>2. QED
      BY <1>3, <3>1, CompleteMoves
  <2>3. CASE group' = group
    BY <2>3
  <2>4. QED
    BY <1>5, <2>1, <2>2, <2>3, Zenon DEF StrandStep, start_on_strand, wait_on_strand,
       cancel_wait, stop_on_strand, drains, runtime_failure
<1>6. ASSUME NEW c \in Caller, LoopStep(c) PROVE group' = group
  BY <1>6, Zenon DEF LoopStep, loop_check, loop_post
<1>7. QED
  BY <1>1, <1>2, <1>4, <1>5, <1>6 DEF ServerStep, listener_fails

\* Where the program is, after a step.
LEMMA ProgrammedStep ==
  ASSUME IInv, IInv', Uncancelled, Programmed, Handled, MainNext \/ UNCHANGED mainVars
  PROVE  Programmed'
<1>0. /\ TheStart \in Operation /\ TheWait \in Operation /\ TheStart # TheWait
      /\ Operation = {TheStart, TheWait} /\ TheStart \in Starts /\ TheWait \notin Starts
      /\ OnSignal \in Stoppers /\ OnError \in Stoppers /\ OnSignal # OnError
  BY TheCalls
<1>1. /\ main' \in Main /\ main'.program = main.program /\ (Coroutine' <=> Coroutine)
      /\ \/ main'.at = main.at
         \/ main'.at = main.at + 1 /\ main.program[main.at] # "join"
      /\ main'.at \in 1..Len(main'.program) /\ main.ran \subseteq main'.ran
      /\ main'.early = main.early \/ signal_handler
  BY MainChanges
<1>2. Steps \/ UNCHANGED vars
  BY MainSteps DEF mainVars
<1>3. \A a \in Operation : 
        /\ group[a].pc # "new" => group'[a].pc # "new"
        /\ group'[a].pc \in {"new", "snapshot"} => group[a].pc \in {"new", "snapshot"}
        /\ group[a].pc # "snapshot" /\ a \notin Starts => group'[a].pc # "snapshot"
  <2>1. CASE Steps
    BY <2>1, CallsGoOn, MainSteps, StepEffect, Zenon DEF Effect, Moves, IInv
  <2>2. CASE UNCHANGED vars
    BY <2>2 DEF vars
  <2>3. QED
    BY <1>2, <2>1, <2>2
<1>4. main'.program[main'.at] \in {"listen", "bind"} =>
        main'.control # "coroutine" /\ \A a \in Operation : group'[a].pc = "new"
  <2> SUFFICES ASSUME main'.program[main'.at] \in {"listen", "bind"}
               PROVE  main'.control # "coroutine" /\ \A a \in Operation : group'[a].pc = "new"
    OBVIOUS
  <2>1. /\ main.program[main.at] \in {"listen", "bind"}
        /\ main'.at # main.at => main.program[main.at] = "listen"
    BY <1>1, Statements DEF Programmed, Main
  <2>2. main.control # "coroutine" /\ \A a \in Operation : group[a].pc = "new"
    BY <2>1 DEF Programmed
  <2>3. ~StartDone
    BY <1>0, <2>2, DoneIsDone DEF StartDone
  <2>4. \A a \in Operation : group'[a].pc = "new"
    <3>1. ~main_calls /\ ~coroutine_calls
      BY <2>1, <2>2 DEF main_calls, At, coroutine_calls
    <3>2. CASE ServerStep \/ listener_fails
      BY <2>2, <3>2, Goes
    <3>3. CASE group' = group
      BY <2>2, <3>3
    <3>4. QED
      BY <3>1, <3>2, <3>3, MainKinds DEF registers, add_listener, vars, signal_handler,
         server_request_stop, signal_handler_returns, started_handler_returns,
         server_request_stop_returns
  <2>5. main'.control # "coroutine"
    <3>1. main \in Main
      BY DEF Programmed
    <3>2. ~started_handler /\ ~main_spawns
      BY <2>1, <2>3 DEF started_handler, Completed, StartDone, main_spawns, At
    <3>3. stopper[OnError] = "new"
      BY <2>3 DEF Programmed, Handled, Heard, StartDone
    <3>4. ~started_handler_returns
      BY <3>3 DEF started_handler_returns, server_request_stop_returns
    <3>5. MainThread => main'.control = main.control
      BY <3>1, <3>2, Zenon DEF MainThread, main_listens, main_binds, registers, main_signals,
         main_calls, main_joins, Main
    <3>6. signal_handler \/ signal_handler_returns => main'.control \in {"signal", "free"}
      BY <3>1, Zenon DEF signal_handler, signal_handler_returns, Main
    <3>7. waited_handler \/ signal_arrives => main'.control = main.control
      BY <3>1, Zenon DEF waited_handler, signal_arrives, Main
    <3>8. ~coroutine_calls /\ ~coroutine_suspends
      BY <2>2 DEF coroutine_calls, coroutine_suspends
    <3>9. QED
      BY <2>2, <3>2, <3>4, <3>5, <3>6, <3>7, <3>8 DEF MainNext, Control, ServerStep,
         listener_fails, mainVars
  <2>6. QED
    BY <2>4, <2>5
<1>5. Coroutine /\ group'[TheWait].pc # "new" => "started" \in main'.ran
  <2> SUFFICES ASSUME Coroutine, group'[TheWait].pc # "new", group[TheWait].pc = "new"
               PROVE  "started" \in main.ran
    BY <1>1 DEF Programmed
  <2>1. ~main_calls
    <3>1. main \in Main /\ main.at \in 1..Len(main.program)
      BY DEF Programmed
    <3>2. main.program[main.at] \notin {"wait", "start"}
      BY <3>1, Statements DEF Main, Coroutine
    <3>3. QED
      BY <3>2 DEF main_calls, At
  <2>2. ~(ServerStep \/ listener_fails) /\ group' # group
    BY <1>0, Goes
  <2>3. coroutine_calls
    BY <2>1, <2>2, MainKinds DEF registers, add_listener, vars, signal_handler,
       server_request_stop, signal_handler_returns, started_handler_returns,
       server_request_stop_returns
  <2>4. QED
    <3>1. CASE "started" \notin main.ran
      <4>1. snapshot(TheStart)
        BY <2>3, <3>1 DEF coroutine_calls
      <4>2. group'[TheWait] = group[TheWait]
        BY <1>0, <4>1 DEF snapshot, IInv, Ordered
      <4>3. QED
        BY <4>2
    <3>2. QED
      BY <3>1
<1>6. /\ stopper'[OnError] # "new" => "started" \in main'.ran
      /\ main'.early => stopper'[OnSignal] # "new"
      /\ stopper'[OnSignal] # "new" /\ group'[TheStart].pc \in {"new", "snapshot"} => main'.early
  <2>0. /\ stopper \in [Stoppers -> {"new", "locked", "returned"}] /\ main \in Main
        /\ stopper[OnError] # "new" => "started" \in main.ran
        /\ main.early => stopper[OnSignal] # "new"
        /\ stopper[OnSignal] # "new" /\ group[TheStart].pc \in {"new", "snapshot"} => main.early
    BY DEF IInv, Threads, Programmed
  <2>1. CASE stopper' = stopper /\ main'.early = main.early
    BY <1>0, <1>1, <1>3, <2>0, <2>1
  <2>2. CASE signal_handler
    <3>1. /\ stopper' = [stopper EXCEPT ![OnSignal] = "locked"] /\ group' = group
          /\ main' = [main EXCEPT !.signals = "handled", !.control = "signal",
                                  !.early = group[TheStart].pc \in {"new", "snapshot"}]
      BY <2>2 DEF signal_handler, server_request_stop
    <3>2. main'.early = (group[TheStart].pc \in {"new", "snapshot"}) /\ main'.ran = main.ran
      BY <2>0, <3>1 DEF Main
    <3>3. QED
      BY <1>0, <2>0, <3>1, <3>2, Zenon
  <2>3. CASE started_handler /\ server_request_stop(OnError)
    <3>1. /\ stopper' = [stopper EXCEPT ![OnError] = "locked"] /\ group' = group
      BY <2>3 DEF server_request_stop
    <3>2. main'.early = main.early /\ "started" \in main'.ran
      <4> DEFINE ran == main.ran \cup {"started"}
      <4>1. \/ main' = [main EXCEPT !.ran = ran, !.result = "failure", !.control = "started"]
            \/ \E c : main' = [main EXCEPT !.ran = ran, !.control = c]
        BY <2>3, Zenon DEF started_handler
      <4>2. "started" \in ran
        OBVIOUS
      <4> HIDE DEF ran
      <4>3. main'.early = main.early /\ main'.ran = ran
        <5>1. CASE main' = [main EXCEPT !.ran = ran, !.result = "failure", !.control = "started"]
          BY <2>0, <5>1 DEF Main
        <5>2. CASE \E c : main' = [main EXCEPT !.ran = ran, !.control = c]
          BY <2>0, <5>2 DEF Main
        <5>3. QED
          BY <4>1, <5>1, <5>2, Zenon
      <4>4. QED
        BY <4>2, <4>3
    <3>3. QED
      BY <1>0, <2>0, <3>1, <3>2
  <2>4. CASE signal_handler_returns \/ started_handler_returns
    <3>1. PICK t \in {OnSignal, OnError} :
            stopper[t] = "locked" /\ stopper' = [stopper EXCEPT ![t] = "returned"] /\ group' = group
      BY <2>4 DEF signal_handler_returns, started_handler_returns, server_request_stop_returns
    <3>2. main'.early = main.early /\ main'.ran = main.ran
      BY <2>0, <2>4 DEF signal_handler_returns, started_handler_returns, Main
    <3>3. QED
      BY <1>0, <2>0, <3>1, <3>2
  <2>5. ASSUME ~signal_handler,
               ~(started_handler /\ server_request_stop(OnError)),
               ~signal_handler_returns, ~started_handler_returns
        PROVE  stopper' = stopper
    <3>1. main_calls \/ coroutine_calls => stopper' = stopper
      BY DEF main_calls, coroutine_calls, snapshot
    <3>2. QED
      BY <2>5, <3>1, Goes, MainKinds DEF registers, add_listener, vars
  <2>6. QED
    BY <1>1, <2>1, <2>2, <2>3, <2>4, <2>5
<1>7. QED
  BY <1>0, <1>1, <1>3, <1>4, <1>5, <1>6 DEF Programmed

\* The handlers have told main, after a step.
LEMMA HandledStep ==
  ASSUME IInv, IInv', Uncancelled, Programmed, Handled, MainNext \/ UNCHANGED mainVars
  PROVE  Handled'
<1>0. TheStart \in Operation /\ TheWait \in Operation
  BY TheCalls
<1>1. /\ main' \in Main /\ main \in Main /\ main.ran \subseteq main'.ran
      /\ main.result = "failure" => main'.result = "failure"
  BY MainChanges DEF Programmed
<1>2. \A a \in Operation : group[a].completions # << >> =>
        group'[a].completions = group[a].completions
  BY StepEffect, MainSteps DEF Effect, Moves, mainVars
<1>4. \/ main'.ran = main.ran
      \/ started_handler /\ main'.ran = main.ran \cup {"started"}
      \/ waited_handler /\ main'.ran = main.ran \cup {"waited"}
  <2>1. MainThread \/ signal_arrives => main'.ran = main.ran
    BY <1>1, Zenon DEF MainThread, main_listens, main_binds, registers, main_signals, main_calls,
       main_spawns, main_joins, signal_arrives, Main
  <2>2. signal_handler \/ signal_handler_returns \/ started_handler_returns
          \/ coroutine_calls \/ coroutine_suspends => main'.ran = main.ran
    BY <1>1, Zenon DEF signal_handler, signal_handler_returns, started_handler_returns,
       coroutine_calls, coroutine_suspends, Main
  <2>3. started_handler => main'.ran = main.ran \cup {"started"}
    BY <1>1, Zenon DEF started_handler, Main
  <2>4. waited_handler => main'.ran = main.ran \cup {"waited"}
    BY <1>1 DEF waited_handler, Main
  <2>5. QED
    BY <2>1, <2>2, <2>3, <2>4 DEF MainNext, Control, ServerStep, listener_fails, mainVars
<1>5. Heard(TheStart, "started")'
  <2>1. CASE "started" \in main.ran
    BY <1>0, <1>1, <1>2, <2>1 DEF Handled, Heard, Failed
  <2>2. CASE started_handler
    <3>1. group[TheStart].completions # << >>
      BY <2>2 DEF started_handler, Completed
    <3>2. Failed(TheStart) => main'.result = "failure"
      BY <1>1, <2>2, Zenon DEF started_handler, Main
    <3>3. QED
      BY <1>0, <1>2, <3>1, <3>2 DEF Heard, Failed
  <2>3. QED
    BY <1>4, <2>1, <2>2 DEF Heard
<1>6. Heard(TheWait, "waited")'
  <2>1. CASE "waited" \in main.ran
    BY <1>0, <1>1, <1>2, <2>1 DEF Handled, Heard, Failed
  <2>2. CASE waited_handler
    <3>1. group[TheWait].completions # << >>
      BY <2>2 DEF waited_handler, Completed
    <3>2. Failed(TheWait) => main'.result = "failure"
      BY <1>1, <2>2 DEF waited_handler, Main
    <3>3. QED
      BY <1>0, <1>2, <3>1, <3>2 DEF Heard, Failed
  <2>3. QED
    BY <1>4, <2>1, <2>2 DEF Heard
<1>7. main'.exited => main'.ran = {"started", "waited"}
  <2>1. main.exited => main'.ran = {"started", "waited"}
    BY <1>1 DEF Handled, Main
  <2>2. main_joins => main'.ran = {"started", "waited"}
    BY <1>1 DEF main_joins, Main
  <2>3. MainThread => main'.exited = main.exited \/ main_joins
    BY <1>1, Zenon DEF MainThread, main_listens, main_binds, registers, main_signals, main_calls,
       main_spawns, Main
  <2>4. signal_handler \/ signal_handler_returns \/ started_handler_returns
          \/ coroutine_calls \/ coroutine_suspends \/ signal_arrives => main'.exited = main.exited
    BY <1>1, Zenon DEF signal_handler, signal_handler_returns, started_handler_returns,
       coroutine_calls, coroutine_suspends, signal_arrives, Main
  <2>5. started_handler \/ waited_handler => main'.exited = main.exited
    BY <1>1, Zenon DEF started_handler, waited_handler, Main
  <2>6. QED
    BY <2>1, <2>2, <2>3, <2>4, <2>5, Zenon DEF MainNext, Control, ServerStep, listener_fails, mainVars
<1>8. QED
  BY <1>5, <1>6, <1>7 DEF Handled

\* What the calls reported agrees with their books, after a step.
LEMMA ReportedStep ==
  ASSUME Uncancelled, Reported, Effect, IInv'
  PROVE  Uncancelled' /\ Reported'
<1>1. Uncancelled'
  BY DEF Effect, Moves, Uncancelled
<1>2. ASSUME NEW a \in Operation, group'[a].completions # << >>,
             Head(group'[a].completions) = "ok"
      PROVE  group'[a].first_ec = "ok"
  <2>1. Moves(group[a], group'[a])
    BY Zenon DEF Effect
  <2>2. CASE group'[a].completions = group[a].completions
    BY <1>2, <2>1, <2>2 DEF Moves, Reported
  <2>3. CASE group'[a].completions # group[a].completions
    <3>1. PICK ec : /\ group'[a].completions = <<ec>> /\ (ec = "ok" => group[a].first_ec = "ok")
                    /\ group'[a].first_ec = group[a].first_ec
      BY <2>1, <2>3 DEF Moves
    <3>2. QED
      BY <1>2, <3>1
  <2>4. QED
    BY <2>2, <2>3
<1>3. QED
  BY <1>1, <1>2 DEF Reported

\* An excuse stays one.
LEMMA ExcuseStays ==
  ASSUME IInv, IInv', Uncancelled, Programmed, MainNext \/ UNCHANGED mainVars, Effect, Excuse
  PROVE  Excuse'
\* A stop that overtook the start stays, and the start reports it.
<1>StopKept. ASSUME IInv, Uncancelled, Steps \/ UNCHANGED vars, stop_requested(control),
                    \A a \in Operation : group[a].pc # "snapshot"
             PROVE  /\ stop_requested(control')
                    /\ group'[TheStart].completions # group[TheStart].completions =>
                         Troubled(group'[TheStart])
  <2> USE <1>StopKept
  <2>0. TheStart \in Operation /\ TheStart \in Starts
    BY TheCalls
  <2>1. stop_requested(control')
    <3>1. CASE Steps
      <4>1. control \in Controls /\ request_stop(control) = control
        BY DEF IInv, Threads, request_stop
      <4>2. ASSUME NEW ec \in Error
            PROVE  /\ finish_start(control, ec).control = control
                   /\ finish_wait(control, ec).control.state = "stopped"
        <5>1. finish_wait(control, ec).control.state = "stopped"
          BY <4>1 DEF finish_wait, Controls
        <5>2. ec # "ok" => finish_start(control, ec).control = control
          BY <4>1 DEF finish_start
        <5>3. ec = "ok" => finish_start(control, ec) = [control |-> control, ec |-> "aborted"]
          BY DEF finish_start, stop_requested
        <5>4. QED
          BY <5>1, <5>2, <5>3
      <4>3. \A a \in Operation : ~start_begins(a)
        BY DEF start_begins
      <4>4. QED
        BY <3>1, <4>1, <4>2, <4>3, ControlSteps, MainSteps DEF IInv, stop_requested
    <3>2. CASE UNCHANGED vars
      BY <3>2 DEF vars
    <3>3. QED
      BY <3>1, <3>2
  <2>2. ASSUME NEW a \in Operation, complete(a), group[a].pc = "completes" \/ Enders(a) # {},
               group'[TheStart].completions # group[TheStart].completions
        PROVE  Troubled(group'[TheStart])
    <3>1. PICK m, ec :
             /\ group' = [group EXCEPT ![a] = m] /\ Moves(group[a], m)
             /\ m.completions = <<ec>> /\ (a \in Starts => ec # "ok")
      BY <2>2, CompleteMoves, Zenon
    <3>2. a = TheStart /\ group'[a] = m
      BY <2>0, <2>2, <3>1, OneGroup
    <3>3. m.completions # << >> /\ Head(m.completions) # "ok"
      BY <2>0, <3>1, <3>2
    <3>4. QED
      BY <3>2, <3>3 DEF Troubled
  <2>3. ASSUME NEW a \in Operation, NEW m, group' = [group EXCEPT ![a] = m],
               Moves(group[a], m), m.completions = group[a].completions
        PROVE  group'[TheStart].completions = group[TheStart].completions
    BY <2>0, <2>3, OneGroup
  <2>4. ASSUME NEW a \in Operation, snapshot(a) \/ CallStep(a)
        PROVE  \/ group'[TheStart].completions = group[TheStart].completions
               \/ caller_completes(a)
    <3>1. ~start_rejected(a)
      BY DEF start_rejected
    <3>2. CASE snapshot(a)
      BY <2>3, <3>2, SnapshotMoves
    <3>3. CASE start_begins(a) \/ submit_checks(a) \/ initiation_done(a) \/ stop_if_requested(a)
      BY <2>3, <3>3, CallerMoves
    <3>4. CASE submit(a)
      BY <2>3, <3>4, SubmitMoves
    <3>5. CASE submit_throws(a)
      BY <2>3, <3>5, ThrowMoves
    <3>6. CASE initiation_one(a)
      BY <2>3, <3>6, InitiationMoves
    <3>7. QED
      BY <2>4, <3>1, <3>2, <3>3, <3>4, <3>5, <3>6, Zenon DEF CallStep
  <2>5. ASSUME NEW i \in Listeners, StrandStep(i) \/ drains(i) \/ runtime_failure(i)
        PROVE  \/ group'[TheStart].completions = group[TheStart].completions
               \/ one_completes(i)
    <3>1. CASE one(i)
      BY <2>3, <3>1, OneRuns
    <3>2. CASE group' = group
      BY <3>2
    <3>3. QED
      BY <2>5, <3>1, <3>2, Zenon DEF StrandStep, start_on_strand, wait_on_strand,
         cancel_wait, stop_on_strand, drains, runtime_failure
  <2>6. ASSUME \/ \E t \in Stoppers : server_request_stop(t) \/ server_request_stop_returns(t)
               \/ \E c \in Caller : LoopStep(c)
               \/ add_listener \/ UNCHANGED vars
        PROVE  group' = group
    BY <2>6, Zenon DEF server_request_stop, server_request_stop_returns, LoopStep, loop_check,
                loop_post, add_listener, vars
  <2>7. ASSUME group'[TheStart].completions # group[TheStart].completions
        PROVE  Troubled(group'[TheStart])
    <3>1. \A a \in Operation : caller_completes(a) => complete(a) /\ group[a].pc = "completes"
      BY DEF caller_completes
    <3>2. \A i \in Listeners : one_completes(i) =>
            \E a \in Operation : complete(a) /\ Enders(a) # {}
      BY OneEnds, Zenon
    <3>3. QED
      BY <2>2, <2>4, <2>5, <2>6, <2>7, <3>1, <3>2, Zenon DEF Steps
  <2>8. QED
    BY <2>1, <2>7
<1>0. TheStart \in Operation /\ Operation = {TheStart, TheWait}
  BY TheCalls
<1>1. Steps \/ UNCHANGED vars
  BY MainSteps DEF mainVars
<1>2. CASE Trouble
  BY <1>2 DEF Effect, Excuse
<1>3. CASE Late
  <2>1. \A a \in Operation : group[a].pc # "snapshot"
    BY <1>0, <1>3 DEF Late, Programmed
  <2>2. /\ stop_requested(control')
        /\ group'[TheStart].completions # group[TheStart].completions =>
             Troubled(group'[TheStart])
    BY <1>1, <1>3, <2>1, <1>StopKept DEF Late
  <2>3. group'[TheStart].pc \notin {"new", "snapshot"}
    <3>1. CASE Steps
      BY <1>0, <1>3, <3>1, CallsGoOn, MainSteps DEF Late, IInv
    <3>2. CASE UNCHANGED vars
      BY <1>3, <3>2 DEF Late, vars
    <3>3. QED
      BY <1>1, <3>1, <3>2
  <2>4. CASE StartDone'
    <3>1. Troubled(group'[TheStart])
      BY <1>3, <2>2, <2>4 DEF StartDone, Late
    <3>2. QED
      BY <1>0, <3>1 DEF Excuse, Trouble
  <2>5. CASE ~StartDone'
    BY <2>2, <2>3, <2>5 DEF Excuse, Late
  <2>6. QED
    BY <2>4, <2>5
<1>4. CASE main.early /\ ~Coroutine
  <2>1. ~signal_handler
    BY <1>4 DEF signal_handler, server_request_stop, Programmed
  <2>2. main'.early /\ ~Coroutine'
    BY <1>4, <2>1, MainChanges, Zenon
  <2>3. QED
    BY <2>2 DEF Excuse
<1>5. QED
  BY <1>2, <1>3, <1>4 DEF Excuse

\* Listeners are registered before the calls.
LEMMA RegistersFirst ==
  ASSUME IInv, Uncancelled, Programmed, MainNext \/ UNCHANGED mainVars
  PROVE  \/ registered' = registered
         \/ /\ add_listener /\ \A a \in Operation : group[a].pc = "new"
<1>1. \A s \in {"listen", "bind"} : registers(s) =>
        add_listener /\ \A a \in Operation : group[a].pc = "new"
  BY DEF registers, At, Programmed
<1>2. main_calls \/ coroutine_calls => registered' = registered
  BY DEF main_calls, coroutine_calls, snapshot
<1>3. signal_handler \/ (started_handler /\ server_request_stop(OnError))
        \/ signal_handler_returns \/ started_handler_returns \/ UNCHANGED vars
        => registered' = registered
  BY DEF signal_handler, server_request_stop, signal_handler_returns,
     started_handler_returns, server_request_stop_returns, vars
<1>4. ServerStep \/ listener_fails => registered' = registered
  BY Goes
<1>5. QED
  BY <1>1, <1>2, <1>3, <1>4, MainKinds

\* Without an excuse the order is kept.
LEMMA OrderStays ==
  ASSUME IInv, IInv', Uncancelled, Programmed, Programmed', Handled',
         MainNext \/ UNCHANGED mainVars, Effect, Orderly, ~Excuse, ~Excuse'
  PROVE  Orderly'
\* Who begins a loop of stops.
<1>LoopBegins. ASSUME IInv, Uncancelled, Steps \/ UNCHANGED vars, NEW c \in Caller, Looping(c)'
               PROVE  \/ Looping(c) \/ Trouble'
                      \/ group[TheStart].pc = "stop" /\ stop_requested(control)
                      \/ \E t \in Stoppers : server_request_stop(t)
  <2> USE <1>LoopBegins
  <2>0. loop \in [Caller -> Loop] /\ TheWait \notin Caller /\ Operation = {TheStart, TheWait}
    BY TheCalls DEF IInv, Threads
  <2>1. loop' = loop => Looping(c)
    BY DEF Looping
  <2>2. ASSUME NEW a \in Operation, snapshot(a) \/ CallStep(a)
        PROVE  \/ loop' = loop \/ Trouble'
               \/ group[TheStart].pc = "stop" /\ stop_requested(control)
    <3>1. CASE initiation_one(a)
      BY <3>1, InitiationMoves, OneGroup
    <3>2. CASE stop_if_requested(a)
      <4>1. a = TheWait => loop' = loop
        BY <2>0, <3>2 DEF stop_if_requested
      <4>2. QED
        BY <2>0, <3>2, <4>1 DEF stop_if_requested
    <3>3. QED
      BY <2>2, <3>1, <3>2, Zenon DEF snapshot, CallStep, start_begins, start_rejected, submit,
         submit_throws, submit_checks, initiation_done, caller_completes
  <2>3. ASSUME NEW i \in Listeners, StrandStep(i) \/ drains(i) \/ runtime_failure(i)
        PROVE  loop' = loop \/ Trouble'
    <3>1. CASE one(i)
      BY <3>1, OneRuns, OneGroup
    <3>2. QED
      BY <2>3, <3>1, Zenon DEF StrandStep, start_on_strand, wait_on_strand,
         cancel_wait, stop_on_strand, one_completes, drains, runtime_failure
  <2>4. ASSUME NEW d \in Caller, LoopStep(d) PROVE Looping(c)
    <3>1. Looping(d) /\ \E l : loop' = [loop EXCEPT ![d] = l]
      BY <2>4 DEF LoopStep, loop_check, loop_post
    <3>2. c # d => loop'[c] = loop[c]
      BY <2>0, <3>1
    <3>3. QED
      BY <3>1, <3>2 DEF Looping
  <2>5. QED
    BY <2>1, <2>2, <2>3, <2>4 DEF Steps, server_request_stop_returns, add_listener, vars
<1>0. /\ TheStart \in Operation /\ TheWait \in Operation /\ Stoppers = {OnSignal, OnError}
      /\ OnSignal # OnError
  BY TheCalls
<1>1. Steps \/ UNCHANGED vars
  BY MainSteps DEF mainVars
<1>2. Coroutine' <=> Coroutine
  BY MainChanges
<1>3. ~Trouble' /\ \A i \in Listeners : OnListener(i)
  BY DEF Excuse, Effect
<1>4. StartDone => StartDone'
  BY <1>0, Zenon DEF Effect, Moves, StartDone
<1>5. ASSUME ~Coroutine, ~StartDone', NEW c \in Caller PROVE ~Looping(c)'
  <2>1. ~Looping(c) /\ ~StartDone
    BY <1>4, <1>5 DEF Orderly
  <2>2. ~(group[TheStart].pc = "stop" /\ stop_requested(control))
    BY <2>1 DEF Excuse, Late
  <2>3. ASSUME NEW t \in Stoppers, server_request_stop(t) PROVE FALSE
    <3>1. stopper' = [stopper EXCEPT ![t] = "locked"] /\ control' = request_stop(control)
      BY <2>3 DEF server_request_stop
    <3>2. stopper'[t] = "locked"
      BY <3>1 DEF IInv, Threads
    <3>3. t = OnSignal
      BY <1>0, <1>5, <3>2, Zenon DEF Programmed, Handled, Heard, StartDone
    <3>4. group'[TheStart].pc \in {"new", "snapshot"} => main'.early
      BY <3>2, <3>3, Zenon DEF Programmed
    <3>5. stop_requested(control')
      <4>1. control \in Controls
        BY DEF IInv, Threads
      <4>2. QED
        BY <3>1, <4>1 DEF request_stop, stop_requested, Controls
    <3>6. QED
      BY <1>2, <1>5, <3>4, <3>5 DEF Excuse, Late
  <2>4. QED
    BY <1>1, <1>3, <2>1, <2>2, <2>3, <1>LoopBegins, Zenon
<1>6. ASSUME ~Coroutine, ~StartDone', NEW i \in Listeners PROVE ~Asks(listener[i], "stop")'
  BY <1>3, <1>4, <1>6, Zenon DEF Orderly, OnListener
<1>7. ASSUME ~Coroutine, NEW i \in Listeners, StartOpen(i)' PROVE listener'[i].state = "idle"
  <2>1. StartOpen(i) /\ listener[i].state = "idle"
    BY <1>3, <1>7, Zenon DEF OnListener, Orderly
  <2>2. ~StartDone
    BY <2>1, DoneNotOpen
  <2>3. ~Asks(listener[i], "stop")
    BY <1>7, <2>2 DEF Orderly
  <2>4. QED
    BY <1>3, <1>7, <2>1, <2>3, Zenon DEF OnListener
<1>8. ASSUME NEW i \in 1..registered' PROVE WaitOpen(i)' \/ Fine(i)'
  <2>1. CASE group'[TheWait].pc = "new"
    BY <2>1 DEF WaitOpen
  <2>2. CASE group'[TheWait].pc # "new"
    <3>1. registered' = registered
      <4>1. add_listener /\ (\A a \in Operation : group[a].pc = "new") => group'[TheWait].pc = "new"
        BY <1>0 DEF add_listener
      <4>2. QED
        BY <2>2, <4>1, RegistersFirst
    <3>2. i \in 1..registered /\ i \in Listeners
      BY <1>8, <3>1, ServerAssumption DEF IInv, Threads, Listeners
    <3>3. OnListener(i) /\ (WaitOpen(i) \/ Fine(i))
      BY <1>3, <3>2 DEF Orderly
    <3>4. CASE WaitOpen(i) /\ ~WaitOpen(i)'
      <4>1. listener'[i].state = "stopped" /\ listener'[i].terminal_error = "ok"
        BY <3>2, <3>3, <3>4 DEF OnListener
      <4>2. ~StartOpen(i)'
        <5>1. CASE Coroutine
          <6>1. StartDone'
            BY <1>2, <2>2, <5>1, Zenon DEF Programmed, Handled, Heard, StartDone
          <6>2. QED
            BY <3>2, <6>1, NotOpenNext DEF NotOpen
        <5>2. CASE ~Coroutine
          BY <1>7, <3>2, <4>1, <5>2
        <5>3. QED
          BY <5>1, <5>2
      <4>3. QED
        BY <4>1, <4>2 DEF Fine
    <3>5. CASE Fine(i)
      BY <3>3, <3>5, Zenon DEF OnListener, Fine
    <3>6. QED
      BY <3>3, <3>4, <3>5
  <2>3. QED
    BY <2>1, <2>2
<1>9. QED
  BY <1>2, <1>5, <1>6, <1>7, <1>8 DEF Orderly

\* What is registered is what is used, after a step.
LEMMA SizesStep ==
  ASSUME IInv, IInv', Uncancelled, Programmed, Sizes, MainNext \/ UNCHANGED mainVars, Effect
  PROVE  Sizes'
<1>0. /\ N \in Nat /\ registered \in 0..N /\ registered' \in 0..N
      /\ loop \in [Caller -> Loop] /\ loop' \in [Caller -> Loop]
      /\ group \in [Operation -> Group] /\ listener \in [Listeners -> Listener]
  BY ServerAssumption DEF IInv, Threads, Ordered
<1>1. \A a \in Operation : group[a].size \in 0..N /\ group[a].size <= registered
  <2>1. \A a \in Operation : group[a].size \in 0..N /\ (group[a].pc = "new" => group[a].size = 0)
    BY GroupOf, Zenon DEF Placed
  <2>2. QED
    BY <1>0, <2>1 DEF Sizes
<1>2. CASE add_listener /\ \A a \in Operation : group[a].pc = "new"
  <2>1. /\ registered' = registered + 1 /\ group' = group /\ listener' = listener /\ loop' = loop
    BY <1>2 DEF add_listener
  <2>2. \A c \in Caller : loop[c].of \in 0..N
    BY <1>0 DEF Loop
  <2>3. QED
    BY <1>0, <1>2, <2>1, <2>2 DEF Sizes, Listeners
<1>3. CASE registered' = registered
  <2>1. Steps \/ UNCHANGED vars
    BY MainSteps DEF mainVars
  <2>2. \A a \in Operation : group'[a].pc # "new" => group'[a].size = registered'
    BY <1>3 DEF Effect, Moves, Sizes
  <2>3. \A i \in Listeners : i > registered =>
          /\ listener[i].strand = << >> /\ listener[i].state = "idle" /\ listener[i] = Unused
    BY DEF Sizes, Unused
  <2>4. ASSUME NEW i \in Listeners, NEW n, listener' = [listener EXCEPT ![i] = n], i <= registered
        PROVE  \A j \in Listeners : j > registered => listener'[j] = Unused
    <3>1. \A j \in Listeners : j # i => listener'[j] = listener[j]
      BY <2>4, OneListener
    <3>2. QED
      BY <1>0, <2>3, <2>4, <3>1 DEF Listeners
  <2>5. ASSUME NEW a \in Operation, snapshot(a) \/ CallStep(a)
        PROVE  \A j \in Listeners : j > registered => listener'[j] = Unused
    <3>1. CASE submit(a)
      <4>1. PICK j : j \in 1..group[a].size /\ j \in Listeners
                     /\ \E n : listener' = [listener EXCEPT ![j] = n]
        BY <3>1, SubmitMoves
      <4>2. j <= registered
        BY <1>0, <1>1, <4>1
      <4>3. QED
        BY <2>4, <4>1, <4>2, Zenon
    <3>2. CASE submit_checks(a)
      BY <2>3, <3>2, CallerMoves, Zenon
    <3>3. CASE listener' = listener
      BY <2>3, <3>3
    <3>4. QED
      BY <2>5, <3>1, <3>2, <3>3, Zenon DEF snapshot, CallStep, start_begins, start_rejected,
         submit_throws, initiation_one, initiation_done, caller_completes, stop_if_requested
  <2>6. ASSUME NEW i \in Listeners, StrandStep(i) \/ drains(i) \/ runtime_failure(i)
        PROVE  \A j \in Listeners : j > registered => listener'[j] = Unused
    <3>1. i <= registered
      <4>1. listener[i].strand # << >> \/ listener[i].state # "idle"
        BY <2>6, Zenon DEF StrandStep, start_on_strand, wait_on_strand, cancel_wait, stop_on_strand,
           one, one_completes, drains, runtime_failure, Handler
      <4>2. QED
        BY <1>0, <2>3, <4>1 DEF Listeners
    <3>2. \A j \in Listeners : j # i => listener'[j] = listener[j]
      BY <1>0, <2>6, Zenon DEF StrandStep, start_on_strand, wait_on_strand, cancel_wait,
         stop_on_strand, one, one_completes, drains, runtime_failure
    <3>3. QED
      BY <1>0, <2>3, <3>1, <3>2 DEF Listeners
  <2>7. ASSUME NEW c \in Caller, LoopStep(c)
        PROVE  \A j \in Listeners : j > registered => listener'[j] = Unused
    <3>1. CASE loop_check(c)
      BY <2>3, <3>1 DEF loop_check
    <3>2. CASE loop_post(c)
      <4>1. /\ loop[c] \in Loop /\ loop[c].done < loop[c].of /\ loop[c].of <= registered
        BY <1>0, <3>2 DEF loop_post, Looping, Sizes
      <4>2. loop[c].done + 1 \in Listeners /\ loop[c].done + 1 <= registered
        <5>1. loop[c].done \in 0..N /\ loop[c].of \in 0..N
          BY <4>1 DEF Loop
        <5>2. loop[c].done + 1 <= registered
          BY <1>0, <4>1, <5>1
        <5>3. QED
          BY <4>1, <5>2, LoopTypes, Zenon
      <4>3. \A j \in Listeners : j # loop[c].done + 1 => listener'[j] = listener[j]
        BY <1>0, <3>2 DEF loop_post
      <4>4. QED
        BY <1>0, <2>3, <4>2, <4>3 DEF Listeners
    <3>3. QED
      BY <2>7, <3>1, <3>2 DEF LoopStep
  <2>8. \A j \in Listeners : j > registered' => listener'[j] = Unused
    BY <1>3, <2>1, <2>3, <2>5, <2>6, <2>7, Zenon DEF Steps, server_request_stop,
       server_request_stop_returns, add_listener, vars
  <2>9. \A c \in Caller : loop'[c].of <= registered'
    <3>1. \A c \in Caller : loop[c].of <= registered
      BY DEF Sizes
    <3>2. ASSUME NEW d, NEW l, l.of <= registered, loop' = [loop EXCEPT ![d] = l]
          PROVE  \A c \in Caller : loop'[c].of <= registered
      BY <1>0, <3>1, <3>2
    <3>3. \A n \in 0..N : begin_loop(n).of = n
      BY DEF begin_loop
    <3>4. ASSUME NEW a \in Operation, snapshot(a) \/ CallStep(a)
          PROVE  \/ loop' = loop \/ loop' = [loop EXCEPT ![a] = begin_loop(group[a].size)]
      BY <3>4, Zenon DEF snapshot, CallStep, start_begins, start_rejected, submit,
         submit_throws, submit_checks, initiation_one, initiation_done, caller_completes,
         stop_if_requested
    <3>5. ASSUME NEW i \in Listeners, StrandStep(i) \/ drains(i) \/ runtime_failure(i)
          PROVE  \/ loop' = loop
                 \/ \E a \in Operation : loop' = [loop EXCEPT ![i] = begin_loop(group[a].size)]
      <4>1. CASE one(i)
        <5>1. Head(listener[i].strand).id \in Operation
          BY <4>1, HeadOf, HandlerKinds, Zenon DEF one
        <5>2. PICK a \in Operation : a = Head(listener[i].strand).id
          BY <5>1
        <5>3. counted(group[a], Head(listener[i].strand).ec).size = group[a].size
          BY <1>0 DEF counted, Group
        <5>4. QED
          BY <4>1, <5>2, <5>3, Zenon DEF one
      <4>2. QED
        BY <3>5, <4>1, Zenon DEF StrandStep, start_on_strand, wait_on_strand, cancel_wait,
           stop_on_strand, one_completes, drains, runtime_failure
    <3>6. ASSUME NEW c \in Caller, LoopStep(c)
          PROVE  \E l : loop' = [loop EXCEPT ![c] = l] /\ l.of <= registered
      <4>1. loop[c] \in Loop /\ loop[c].of <= registered /\ 0 <= registered
        BY <1>0, <3>1
      <4>2. next_listener(loop[c]).of <= registered /\ [loop[c] EXCEPT !.passed = TRUE].of <= registered
        BY <4>1 DEF next_listener, NoLoop, begin_loop, Loop
      <4>3. QED
        BY <3>6, <4>2, Zenon DEF LoopStep, loop_check, loop_post
    <3>7. ASSUME NEW t \in Stoppers, server_request_stop(t)
          PROVE  loop' = [loop EXCEPT ![t] = begin_loop(registered)]
      BY <3>7 DEF server_request_stop
    <3>8. \A c \in Caller : loop'[c].of <= registered
      <4>1. CASE \E a \in Operation : snapshot(a) \/ CallStep(a)
        <5>1. PICK a \in Operation : snapshot(a) \/ CallStep(a)
          BY <4>1
        <5>2. begin_loop(group[a].size).of <= registered
          BY <1>1, <3>3
        <5>3. QED
          BY <3>1, <3>2, <3>4, <5>1, <5>2, Zenon
      <4>2. CASE \E i \in Listeners : StrandStep(i) \/ drains(i) \/ runtime_failure(i)
        BY <1>1, <3>1, <3>2, <3>3, <3>5, <4>2, Zenon
      <4>3. CASE \E c \in Caller : LoopStep(c)
        BY <3>2, <3>6, <4>3
      <4>4. CASE \E t \in Stoppers : server_request_stop(t)
        BY <1>0, <3>2, <3>3, <3>7, <4>4
      <4>5. CASE loop' = loop
        BY <3>1, <4>5
      <4>6. QED
        BY <2>1, <4>1, <4>2, <4>3, <4>4, <4>5, Zenon DEF Steps, server_request_stop_returns,
           add_listener, vars
    <3>9. QED
      BY <1>3, <3>8
  <2>10. QED
    BY <2>2, <2>8, <2>9 DEF Sizes
<1>4. QED
  BY <1>2, <1>3, RegistersFirst

-----------------------------------------------------------------------------
(* The theorems *)

\* Every step of a program keeps MInv.
LEMMA MInvStep == IInv /\ IInv' /\ MInv /\ [MainNext]_mainVars => MInv'
<1> SUFFICES ASSUME IInv, IInv', MInv, MainNext \/ UNCHANGED mainVars
             PROVE  MInv'
  OBVIOUS
<1>0. Uncancelled /\ Sizes /\ Programmed /\ Handled /\ Reported /\ (Excuse \/ Orderly)
  BY DEF MInv
<1>1. Effect
  BY <1>0, MainSteps, StepEffect DEF mainVars
<1>2. Uncancelled' /\ Reported'
  BY <1>0, <1>1, ReportedStep
<1>3. Sizes'
  BY <1>0, <1>1, SizesStep
<1>4. Programmed' /\ Handled'
  BY <1>0, ProgrammedStep, HandledStep
<1>5. Excuse' \/ Orderly'
  BY <1>0, <1>1, <1>4, ExcuseStays, OrderStays
<1>6. QED
  BY <1>2, <1>3, <1>4, <1>5 DEF MInv

\* The inductive invariant of a program around its server holds for every
\* program, any number of listeners and every fault of Server.
THEOREM MainInvariant == MainSpec => [](IInv /\ MInv)
<1>1. MainSpec => []IInv
  BY UsesServer, ServerInvariant, PTL
<1>2. QED
  BY <1>1, MainInitMInv, MInvStep, PTL DEF MainSpec

\* A process that exits with success lost no listener to an error: whatever
\* failed was reported by async_start or async_wait to the handlers of main.
THEOREM CleanSuccess == MainSpec => []SuccessIsClean
BY MainInvariant, InvariantClean, PTL

-----------------------------------------------------------------------------
(***************************************************************************)
(* The numbers of the server.  Two properties of Server count with         *)
(* Cardinality; its invariants say with Sized what is needed of a number.  *)
(* The library's facts about finite sets are used from here on only.  The  *)
(* prover keeps the operators of the instance apart from those of Server   *)
(* (Size, Finite), so that their common definitions are written out.       *)
(***************************************************************************)
Size(S)   == Cardinality(S)
Finite(S) == IsFiniteSet(S)

CountedOut(S) ==
  LET left[T \in SUBSET S] == IF T = {} THEN 0 ELSE 1 + left[T \ {CHOOSE x : x \in T}]
  IN  left[S]
Listed(S) == \E seq \in Seq(S) : \A s \in S : \E n \in 1..Len(seq) : seq[n] = s

\* The operators of Server, by their definitions.
LEMMA SizeIs == \A S : Size(S) = CountedOut(S) /\ (Finite(S) <=> Listed(S))
BY Zenon DEF Size, CountedOut, Cardinality, Finite, Listed, IsFiniteSet

LOCAL INSTANCE FiniteSetTheorems

\* The operators of the instance are the same.
LEMMA SizeIsCardinality == \A S : Cardinality(S) = Size(S) /\ (IsFiniteSet(S) <=> Finite(S))
<1>1. \A S : Cardinality(S) = CountedOut(S) /\ (IsFiniteSet(S) <=> Listed(S))
  BY Zenon DEF CountedOut, Cardinality, Listed, IsFiniteSet
<1>2. QED
  BY <1>1, SizeIs, Zenon

\* Sized is Cardinality.
LEMMA SizedSize ==
  ASSUME NEW S, NEW n \in Nat, Sized(S, n)
  PROVE  Size(S) = n
<1>1. PICK f \in [1..n -> S] : /\ \A j, k \in 1..n : f[j] = f[k] => j = k
                               /\ \A x \in S : \E k \in 1..n : f[k] = x
  BY Zenon DEF Sized
<1>2. f \in Bijection(1..n, S)
  BY <1>1 DEF Bijection, Injection, Surjection, IsInjective
<1>3. Cardinality(S) = n
  BY <1>2, FS_CountingElements DEF ExistsBijection
<1>4. QED
  BY <1>3, SizeIsCardinality, Zenon

\* No child of a call is lost or counted twice: m_remaining is the number of
\* children that are to be submitted, failed to be, or are with their listener.
THEOREM ChildrenCounted == Spec => []ChildrenAccounted
\* What ChildrenAccounted counts are the holders of a call, once each.
<1>HeldOnce. ASSUME Ordered, NEW a \in Operation, NEW i \in Listeners
             PROVE  Held(a, i) = IF i \in Holders(a) THEN 1 ELSE 0
  <2> USE <1>HeldOnce
  <2> DEFINE l == listener[i]
             S == {k \in DOMAIN l.strand : /\ l.strand[k].op \in {"start", "wait", "one"}
                                           /\ l.strand[k].id = a}
             W == {k \in DOMAIN l.waiters : l.waiters[k] = a}
  <2>1. l \in Listener /\ Once(a, l) /\ \A k \in DOMAIN l.strand : l.strand[k] \in Task
    <3>1. l \in Listener /\ Sound(l)
      BY Zenon DEF Ordered
    <3>2. Once(a, l)
      BY <3>1, Zenon DEF Sound
    <3>3. l.strand \in Seq(Task)
      BY <3>1 DEF Listener
    <3>4. QED
      BY <3>1, <3>2, <3>3
  <2>2. S = {k \in DOMAIN l.strand : l.strand[k] \in Kids(a)}
    BY <2>1 DEF Kids
  <2>3. W = {k \in DOMAIN l.waiters : l.waiters[k] \in {a}}
    OBVIOUS
  <2>4. Held(a, i) = Size(S) + Size(W)
    BY Zenon DEF Held, Size
  <2>5. i \in Holders(a) <=> Has(a, l)
    BY DEF Holders, Calls
  <2> HIDE DEF S, W, l
  <2>6. /\ \A j, k \in S : j = k
        /\ \A j, k \in W : j = k
        /\ S = {} \/ W = {}
        /\ Has(a, l) <=> S # {} \/ W # {}
    BY <2>1, <2>2, <2>3 DEF Once, MeetsOnce, Meets, Has
  <2>7. ASSUME NEW T, \A j, k \in T : j = k PROVE Size(T) = IF T = {} THEN 0 ELSE 1
    <3>1. Sized({}, 0) /\ 0 \in Nat
      BY SnapshotSize
    <3>2. ASSUME NEW k \in T PROVE T = {k} /\ Sized({} \cup {k}, 1)
      BY <2>7, <3>1, SizedMore
    <3>3. \A k \in T : T = {k} /\ Sized({k}, 1)
      BY <3>2
    <3>4. QED
      BY <3>1, <3>3, SizedSize, Zenon
  <2>8. Size(S) = (IF S = {} THEN 0 ELSE 1) /\ Size(W) = IF W = {} THEN 0 ELSE 1
    BY <2>6, <2>7, Zenon
  <2>9. QED
    BY <2>4, <2>5, <2>6, <2>8
<1>1. ASSUME IInv PROVE ChildrenAccounted
  <2> SUFFICES ASSUME NEW a \in Operation, ~group[a].rejected
               PROVE  LET pending == Unsubmitted(a) \cup group[a].initiation
                          held    == {i \in Listeners : Held(a, i) > 0}
                      IN  /\ \A i \in held : Held(a, i) = 1 /\ i \notin pending
                          /\ group[a].remaining = Size(pending \cup held)
    BY Zenon DEF ChildrenAccounted, Size
  <2>1. Unsubmitted(a) = Ahead(group[a])
    BY DEF Unsubmitted, Ahead
  <2>2. \A i \in Listeners : Held(a, i) = IF i \in Holders(a) THEN 1 ELSE 0
    BY <1>1, <1>HeldOnce DEF IInv
  <2>3. {i \in Listeners : Held(a, i) > 0} = Holders(a)
    BY <2>2 DEF Holders
  <2>4. Counted(group[a], Holders(a))
    BY <1>1 DEF IInv, Ordered, Book
  <2>5. \A i \in Holders(a) : Held(a, i) = 1
    BY <2>2 DEF Holders
  <2>6. group[a].remaining \in Nat
    BY <1>1, ServerAssumption DEF IInv, Ordered, Group
  <2>7. group[a].remaining = Size(Pending(group[a], Holders(a)))
    BY <2>4, <2>6, SizedSize DEF Counted
  <2>8. QED
    BY <2>1, <2>3, <2>4, <2>5, <2>7 DEF Counted, Pending
<1>2. QED
  BY <1>1, ServerInvariant, PTL

\* The members, groups, queues and threads keep their types: m_remaining never
\* falls below zero, no queue holds a handler that no one expects.
THEOREM ServerTypes == Spec => []TypeOK
<1>1. IInv /\ Generations => TypeOK
  <2> SUFFICES ASSUME IInv, Generations PROVE TypeOK
    OBVIOUS
  <2>1. PICK B \in SUBSET Began : Sized(B, control.generation)
    BY DEF Generations
  <2>2. control.generation \in Nat
    BY DEF IInv, Threads, Controls
  <2>3. control.generation = Size(B)
    BY <2>1, <2>2, SizedSize
  <2>4. Size(B) <= Size(Starts) /\ Size(Starts) \in Nat
    <3>1. B \in SUBSET Starts /\ Finite(Starts)
      BY ServerAssumption, Zenon DEF Began, Finite
    <3>2. Cardinality(B) <= Cardinality(Starts) /\ Cardinality(Starts) \in Nat
      BY <3>1, SizeIsCardinality, FS_Subset, FS_CardinalityType, Zenon
    <3>3. QED
      BY <3>2, SizeIsCardinality
  <2>5. control \in [state : State, generation : 0..Size(Starts)]
    BY <2>2, <2>3, <2>4 DEF IInv, Threads, Controls
  <2>6. QED
    BY <2>5, Zenon DEF IInv, Threads, Ordered, TypeOK, Size
<1>2. QED
  BY <1>1, ServerInvariant, GenerationsInvariant, PTL

=============================================================================
