------------------------------- MODULE Server -------------------------------
(***************************************************************************)
(* server (src/server.cpp): server_control, the lifecycle of the whole     *)
(* server, and listener_operation_group, one per async_start or async_wait *)
(* call, which fans the call out to every listener and joins the results.  *)
(*                                                                         *)
(* A listener appears only by what the server sees of it: its state, the   *)
(* handlers on its strand and who waits for it (AcceptorListener has the   *)
(* details).  The callers of async_start, async_wait and request_stop are  *)
(* threads of their own: each step below is one atomic operation, one      *)
(* critical section or one post.                                           *)
(***************************************************************************)
EXTENDS Integers, Sequences, FiniteSets

CONSTANTS
  N,           \* bound: listeners ever registered
  Starts,      \* calls of server::async_start
  Waits,       \* calls of server::async_wait
  Stoppers,    \* calls of server::request_stop
  Cancellable, \* the calls whose handler has a cancellation slot
  Faults       \* what may fail: submitting a child, a start, a running listener

ASSUME ServerAssumption ==
  /\ N \in Nat /\ Starts \cap Waits = {} /\ IsFiniteSet(Starts)
  /\ Cancellable \subseteq Starts \cup Waits
  /\ Faults \subseteq {"initiation", "startup", "runtime"}

VARIABLES
  control,    \* server_control
  group,      \* the operation groups, and where the call that made each one is
  listener,   \* what the server sees of each listener
  loop,       \* progress of the loops that call request_stop on every listener
  stopper,    \* progress of the request_stop calls
  registered \* number of listeners in m_listeners

vars == <<control, group, listener, loop, stopper, registered>>

-----------------------------------------------------------------------------
(* Data *)

State     == {"idle", "starting", "running", "stopping", "stopped"}
Error     == {"ok", "aborted", "failed"}
Listeners == 1..N
Operation == Starts \cup Waits

\* Threads that run a request_stop loop: callers, and strands running one().
Caller == Stoppers \cup Starts \cup Listeners

One(a, ec) == [op |-> "one", id |-> a, ec |-> ec]
Completes(a) == [op |-> "completes", id |-> a]

Task ==
  [op : {"start"}, id : Starts]
    \cup [op : {"wait", "cancel_wait"}, id : Waits]
    \cup [op : {"stop"}]
    \cup [op : {"one"}, id : Operation, ec : Error]
    \cup [op : {"completes"}, id : Operation]

Group ==
  [ pc         : {"new", "snapshot", "submit", "check", "initiation",
                  "completes", "stop", "returned"},
    size       : 0..N,                \* listeners in the snapshot
    at         : 1..(N + 1),          \* next listener of the loop in start
    remaining  : 0..N,                \* m_remaining
    first_ec   : Error,               \* m_first_ec
    initiation : SUBSET Listeners,    \* m_initiation_ecs that are set
    cancelled  : BOOLEAN,             \* m_cancelled
    emit       : 0..N,                \* next listener of the loop in cancel, or 0
    flagged    : SUBSET Listeners,    \* children that saw the signal
    rejected   : BOOLEAN,
    completions : Seq(Error) ]

Listener ==
  [ state          : State,
    terminal_error : Error,
    waiters        : Seq(Waits),
    strand         : Seq(Task) ]

Loop == [done : 0..N, of : 0..N, passed : BOOLEAN]

begin_loop(n) == [done |-> 0, of |-> n, passed |-> FALSE]

NoLoop == begin_loop(0)

Init ==
  /\ control = [state |-> "idle", generation |-> 0]
  /\ group = [a \in Operation |->
       [ pc |-> "new", size |-> 0, at |-> 1, remaining |-> 0, first_ec |-> "ok",
         initiation |-> {}, cancelled |-> FALSE, emit |-> 0, flagged |-> {},
         rejected |-> FALSE, completions |-> << >> ]]
  /\ listener = [i \in Listeners |->
       [state |-> "idle", terminal_error |-> "ok", waiters |-> << >>, strand |-> << >>]]
  /\ loop = [c \in Caller |-> NoLoop]
  /\ registered \in 0..N
  /\ stopper = [t \in Stoppers |-> "new"]

-----------------------------------------------------------------------------
(* server_control *)

begin_start(c) ==
  IF c.state \in {"idle", "stopped"}
  THEN [state |-> "starting", generation |-> c.generation + 1]
  ELSE c

stop_requested(c) == c.state \in {"stopping", "stopped"}

request_stop(c) == IF stop_requested(c) THEN c ELSE [c EXCEPT !.state = "stopping"]

\* Mutant: running is stored whatever the state became meanwhile.
finish_start_stores(c, ec) ==
  IF ec # "ok" THEN [control |-> request_stop(c), ec |-> ec]
  ELSE [control |-> [c EXCEPT !.state = "running"], ec |-> "ok"]

\* The control after finish_start, and the code it returns.
finish_start(c, ec) ==
  IF ec # "ok" THEN [control |-> request_stop(c), ec |-> ec]
  ELSE CASE c.state = "starting" -> [control |-> [c EXCEPT !.state = "running"], ec |-> "ok"]
         [] c.state = "running"  -> [control |-> c, ec |-> "ok"]
         [] OTHER                -> [control |-> c, ec |-> "aborted"]

finish_wait(c, ec) == [control |-> [c EXCEPT !.state = "stopped"], ec |-> ec]

-----------------------------------------------------------------------------
(* The loops that call request_stop on every listener: listener::request_stop *)
(* reads the state of the listener first, and posts afterwards.              *)

Looping(c) == loop[c].done < loop[c].of

next_listener(l) ==
  IF l.done + 1 = l.of THEN NoLoop ELSE [l EXCEPT !.done = @ + 1, !.passed = FALSE]

\* Mutant: a listener that never ran is not told to stop.
loop_check_skips_idle(c) ==
  /\ Looping(c) /\ ~loop[c].passed
  /\ loop' = [loop EXCEPT ![c] =
       IF listener[loop[c].done + 1].state \in {"idle", "stopped"}
       THEN next_listener(@)
       ELSE [@ EXCEPT !.passed = TRUE]]
  /\ UNCHANGED <<control, group, listener, stopper, registered>>

loop_check(c) ==
  /\ Looping(c) /\ ~loop[c].passed
  /\ loop' = [loop EXCEPT ![c] =
       IF listener[loop[c].done + 1].state = "stopped"
       THEN next_listener(@)
       ELSE [@ EXCEPT !.passed = TRUE]]
  /\ UNCHANGED <<control, group, listener, stopper, registered>>

loop_post(c) ==
  /\ Looping(c) /\ loop[c].passed
  /\ loop' = [loop EXCEPT ![c] = next_listener(@)]
  /\ listener' = [listener EXCEPT ![loop[c].done + 1].strand =
                    Append(@, [op |-> "stop"])]
  /\ UNCHANGED <<control, group, stopper, registered>>

-----------------------------------------------------------------------------
(* m_mutex: server::request_stop holds it to its end. *)

Locked == \E t \in Stoppers : stopper[t] = "locked"

server_request_stop(t) ==
  /\ stopper[t] = "new" /\ ~Locked
  /\ stopper' = [stopper EXCEPT ![t] = "locked"]
  /\ control' = request_stop(control)
  /\ loop' = [loop EXCEPT ![t] = begin_loop(registered)]
  /\ UNCHANGED <<group, listener, registered>>

add_listener ==
  /\ registered < N /\ ~Locked
  /\ registered' = registered + 1
  /\ UNCHANGED <<control, group, listener, loop, stopper>>

server_request_stop_returns(t) ==
  /\ stopper[t] = "locked" /\ ~Looping(t)
  /\ stopper' = [stopper EXCEPT ![t] = "returned"]
  /\ UNCHANGED <<control, group, listener, loop, registered>>

-----------------------------------------------------------------------------
(* listener_operation_group *)

\* The critical section of one(): counts a child, keeps the first error.
counted(g, ec) ==
  [g EXCEPT !.remaining = @ - 1, !.first_ec = IF @ = "ok" THEN ec ELSE @]

\* Whether one() stops the listeners: m_stop_on_error is set for starts.
stops(a, ec) == a \in Starts /\ ec # "ok" /\ group[a].first_ec = "ok"

\* m_finished and the completion handler.
complete(a) ==
  LET r == IF a \in Starts THEN finish_start(control, group[a].first_ec)
                           ELSE finish_wait(control, group[a].first_ec)
  IN  /\ control' = r.control
      /\ group' = [group EXCEPT ![a].completions = Append(@, r.ec),
                                ![a].pc = IF group[a].pc # "completes" THEN @
                                          ELSE IF group[a].size = 0 THEN "returned" ELSE "initiation"]

\* The children whose cancellation slot is connected.
Connected(a) ==
  {i \in Listeners :
     \/ \E k \in DOMAIN listener[i].strand :
          listener[i].strand[k].op \in {"start", "wait"} /\ listener[i].strand[k].id = a
     \/ \E k \in DOMAIN listener[i].waiters : listener[i].waiters[k] = a}

\* m_cancellations[i]->emit reaches the child of listener i.
emit(a, i, g) ==
  /\ group' = [group EXCEPT ![a] =
       IF i \in Connected(a) THEN [g EXCEPT !.flagged = @ \cup {i}] ELSE g]
  /\ listener' = IF i \in Connected(a) /\ a \in Waits
                 THEN [listener EXCEPT ![i].strand =
                         Append(@, [op |-> "cancel_wait", id |-> a])]
                 ELSE listener

\* The slot of the call is connected from prepare to completion.
cancel(a) ==
  /\ a \in Cancellable /\ group[a].pc # "new"
  /\ group[a].remaining > 0 /\ ~group[a].rejected /\ ~group[a].cancelled
  /\ group' = [group EXCEPT ![a].cancelled = TRUE, ![a].emit = 1]
  /\ UNCHANGED <<control, listener, loop, stopper, registered>>

cancel_emits(a) ==
  /\ group[a].emit > 0
  /\ emit(a, group[a].emit,
          [group[a] EXCEPT !.emit = IF @ = group[a].size THEN 0 ELSE @ + 1])
  /\ UNCHANGED <<control, loop, stopper, registered>>

-----------------------------------------------------------------------------
(* The thread that calls async_start or async_wait. *)

\* snapshot() takes m_mutex; the group is made and prepared.
snapshot(a) ==
  /\ group[a].pc = "new" /\ ~Locked
  /\ group' = [group EXCEPT
       ![a].size = registered, ![a].remaining = registered,
       ![a].pc = IF a \in Starts THEN "snapshot"
                 ELSE IF registered = 0 THEN "completes" ELSE "submit"]
  /\ UNCHANGED <<control, listener, loop, stopper, registered>>

start_begins(a) ==
  /\ group[a].pc = "snapshot" /\ control.state # "stopping"
  /\ control' = begin_start(control)
  /\ group' = [group EXCEPT ![a].pc = IF group[a].size = 0 THEN "completes" ELSE "submit"]
  /\ UNCHANGED <<listener, loop, stopper, registered>>

\* Mutant: the return after the rejection is missing.
start_rejected_goes_on(a) ==
  /\ group[a].pc = "snapshot" /\ control.state = "stopping"
  /\ group' = [group EXCEPT ![a].pc = "submit", ![a].rejected = TRUE,
                            ![a].completions = Append(@, "aborted")]
  /\ UNCHANGED <<control, listener, loop, stopper, registered>>

start_rejected(a) ==
  /\ group[a].pc = "snapshot" /\ control.state = "stopping"
  /\ group' = [group EXCEPT ![a].pc = "returned", ![a].rejected = TRUE,
                            ![a].completions = Append(@, "aborted")]
  /\ UNCHANGED <<control, listener, loop, stopper, registered>>

\* The next listener of the loop in start, after listener i.
next_child(g) ==
  [g EXCEPT !.at = @ + 1, !.pc = IF g.at = g.size THEN "initiation" ELSE "submit"]

submit(a) ==
  /\ group[a].pc = "submit"
  /\ listener' = [listener EXCEPT ![group[a].at].strand =
       Append(@, [op |-> IF a \in Starts THEN "start" ELSE "wait", id |-> a])]
  /\ group' = [group EXCEPT ![a].pc = "check"]
  /\ UNCHANGED <<control, loop, stopper, registered>>

\* Mutant: the exception is swallowed and the child forgotten.
submit_throws_forgets(a) ==
  /\ "initiation" \in Faults
  /\ group[a].pc = "submit"
  /\ group' = [group EXCEPT ![a] = next_child(@)]
  /\ UNCHANGED <<control, listener, loop, stopper, registered>>

\* Mutant: the child is counted in the catch block and in the loop after it.
submit_throws_counts(a) ==
  /\ "initiation" \in Faults
  /\ group[a].pc = "submit"
  /\ group' = [group EXCEPT ![a] =
       next_child([counted(@, "failed") EXCEPT !.initiation = @ \cup {group[a].at}])]
  /\ UNCHANGED <<control, listener, loop, stopper, registered>>

submit_throws(a) ==
  /\ "initiation" \in Faults
  /\ group[a].pc = "submit"
  /\ group' = [group EXCEPT ![a] =
       next_child([group[a] EXCEPT !.initiation = @ \cup {group[a].at}])]
  /\ UNCHANGED <<control, listener, loop, stopper, registered>>

\* Mutant: m_cancelled is not read again after the submission.
submit_checks_nothing(a) ==
  /\ group[a].pc = "check"
  /\ group' = [group EXCEPT ![a] = next_child(@)]
  /\ UNCHANGED <<control, listener, loop, stopper, registered>>

submit_checks(a) ==
  /\ group[a].pc = "check"
  /\ IF group[a].cancelled
     THEN emit(a, group[a].at, next_child(group[a]))
     ELSE /\ group' = [group EXCEPT ![a] = next_child(@)]
          /\ UNCHANGED listener
  /\ UNCHANGED <<control, loop, stopper, registered>>

LoopsOf(a) == a \in Starts /\ Looping(a)

initiation_one(a) ==
  /\ group[a].pc = "initiation" /\ ~LoopsOf(a)
  /\ \E i \in group[a].initiation :
       /\ \A n \in group[a].initiation : i <= n
       /\ LET g == counted([group[a] EXCEPT !.initiation = @ \ {i}], "failed")
          IN  group' = [group EXCEPT ![a] =
                [g EXCEPT !.pc = IF g.remaining = 0 THEN "completes" ELSE @]]
  /\ loop' = IF stops(a, "failed") THEN [loop EXCEPT ![a] = begin_loop(group[a].size)] ELSE loop
  /\ UNCHANGED <<control, listener, stopper, registered>>

initiation_done(a) ==
  /\ group[a].pc = "initiation" /\ ~LoopsOf(a) /\ group[a].initiation = {}
  /\ group' = [group EXCEPT ![a].pc = IF a \in Starts THEN "stop" ELSE "returned"]
  /\ UNCHANGED <<control, listener, loop, stopper, registered>>

caller_completes(a) ==
  /\ group[a].pc = "completes" /\ ~LoopsOf(a)
  /\ complete(a)
  /\ UNCHANGED <<listener, loop, stopper, registered>>

stop_if_requested(a) ==
  /\ group[a].pc = "stop"
  /\ group' = [group EXCEPT ![a].pc = "returned"]
  /\ loop' = IF stop_requested(control) THEN [loop EXCEPT ![a] = begin_loop(group[a].size)] ELSE loop
  /\ UNCHANGED <<control, listener, stopper, registered>>

-----------------------------------------------------------------------------
(* The strand of a listener. *)

Handler(i, op) ==
  ~Looping(i) /\ listener[i].strand # << >> /\ Head(listener[i].strand).op = op

\* No handler is half way on the strand.
Free(i) == ~Looping(i) /\ ~Handler(i, "completes")

popped(i) == [listener[i] EXCEPT !.strand = Tail(@)]

post(l, task) == [l EXCEPT !.strand = Append(@, task)]

\* Mutant: m_waiters is not emptied.
finish_keeps_waiters(l, ec) ==
  [l EXCEPT !.state = "stopped", !.terminal_error = ec,
            !.strand = @ \o [k \in DOMAIN l.waiters |-> One(l.waiters[k], ec)]]

\* finish: stopped, and every waiter learns the terminal error.
finish(l, ec) ==
  [l EXCEPT !.state = "stopped", !.terminal_error = ec, !.waiters = << >>,
            !.strand = @ \o [k \in DOMAIN l.waiters |-> One(l.waiters[k], ec)]]

start_on_strand(i) ==
  /\ Handler(i, "start")
  /\ LET a == Head(listener[i].strand).id
         l == popped(i)
         fresh == i \notin group[a].flagged /\ l.state \in {"idle", "stopped"}
         opened == [l EXCEPT !.state = "running", !.terminal_error = "ok"]
     IN  \/ /\ fresh
            /\ listener' = [listener EXCEPT ![i] = post(opened, One(a, "ok"))]
         \/ /\ fresh
            /\ "startup" \in Faults
            /\ \E l2 \in {finish(post(opened, One(a, "failed")), "failed"),
                          post(finish(opened, "failed"), One(a, "failed"))} :
                 listener' = [listener EXCEPT ![i] = l2]
         \/ /\ ~fresh
            /\ listener' = [listener EXCEPT ![i] = post(l, One(a,
                 IF i \notin group[a].flagged /\ l.state = "running" THEN "ok" ELSE "aborted"))]
  /\ UNCHANGED <<control, group, loop, stopper, registered>>

wait_on_strand(i) ==
  /\ Handler(i, "wait")
  /\ LET a == Head(listener[i].strand).id
         l == popped(i)
     IN  listener' = [listener EXCEPT ![i] =
           IF i \in group[a].flagged THEN post(l, One(a, "aborted"))
           ELSE IF l.state = "stopped" THEN post(l, One(a, l.terminal_error))
           ELSE [l EXCEPT !.waiters = Append(@, a)]]
  /\ UNCHANGED <<control, group, loop, stopper, registered>>

\* list::erase of the k-th element.
erase(s, k) == [n \in 1..(Len(s) - 1) |-> s[IF n < k THEN n ELSE n + 1]]

cancel_wait(i) ==
  /\ Handler(i, "cancel_wait")
  /\ LET a == Head(listener[i].strand).id
         l == popped(i)
         found(k) == l.waiters[k] = a /\ \A n \in 1..(k - 1) : l.waiters[n] # a
     IN  \/ /\ \A k \in DOMAIN l.waiters : l.waiters[k] # a
            /\ listener' = [listener EXCEPT ![i] = l]
         \/ \E k \in DOMAIN l.waiters :
              /\ found(k)
              /\ listener' = [listener EXCEPT ![i] =
                   post([l EXCEPT !.waiters = erase(@, k)], One(a, "aborted"))]
  /\ UNCHANGED <<control, group, loop, stopper, registered>>

stop_on_strand(i) ==
  /\ Handler(i, "stop")
  /\ LET l == popped(i)
     IN  listener' = [listener EXCEPT ![i] =
           CASE l.state = "idle"    -> finish(l, "ok")
             [] l.state = "running" -> [l EXCEPT !.state = "stopping"]
             [] OTHER               -> l]
  /\ UNCHANGED <<control, group, loop, stopper, registered>>

\* What a listener does on its own (AcceptorListener): a running one may fail,
\* a stopping one drains its sessions.
runtime_failure(i) ==
  /\ "runtime" \in Faults
  /\ Free(i) /\ listener[i].state = "running"
  /\ listener' = [listener EXCEPT ![i].state = "stopping", ![i].terminal_error = "failed"]
  /\ UNCHANGED <<control, group, loop, stopper, registered>>

drains(i) ==
  /\ Free(i) /\ listener[i].state = "stopping"
  /\ listener' = [listener EXCEPT ![i] = finish(@, @.terminal_error)]
  /\ UNCHANGED <<control, group, loop, stopper, registered>>

\* one() runs on the strand of the listener: the critical section, then the
\* loop that stops the listeners, then the completion, with the strand held.
one(i) ==
  /\ Handler(i, "one")
  /\ LET a  == Head(listener[i].strand).id
         ec == Head(listener[i].strand).ec
         g  == counted(group[a], ec)
     IN  /\ group' = [group EXCEPT ![a] = g]
         /\ loop' = IF stops(a, ec) THEN [loop EXCEPT ![i] = begin_loop(g.size)] ELSE loop
         /\ listener' = [listener EXCEPT ![i].strand =
              (IF g.remaining = 0 THEN <<Completes(a)>> ELSE << >>) \o Tail(@)]
  /\ UNCHANGED <<control, stopper, registered>>

one_completes(i) ==
  /\ Handler(i, "completes")
  /\ complete(Head(listener[i].strand).id)
  /\ listener' = [listener EXCEPT ![i] = popped(i)]
  /\ UNCHANGED <<loop, stopper, registered>>

-----------------------------------------------------------------------------
(* The system *)

\* The thread of a call, once the call is made.
CallStep(a) ==
  \/ start_begins(a) \/ start_rejected(a)
  \/ submit(a) \/ submit_throws(a) \/ submit_checks(a)
  \/ initiation_one(a) \/ initiation_done(a)
  \/ caller_completes(a) \/ stop_if_requested(a)

StrandStep(i) ==
  \/ start_on_strand(i) \/ wait_on_strand(i) \/ cancel_wait(i) \/ stop_on_strand(i)
  \/ one(i) \/ one_completes(i)

LoopStep(c) == loop_check(c) \/ loop_post(c)

\* What threads and strands go on with by themselves.
Progress ==
  \/ \E a \in Operation : CallStep(a) \/ cancel_emits(a)
  \/ \E t \in Stoppers : server_request_stop_returns(t)
  \/ \E c \in Caller : LoopStep(c)
  \/ \E i \in Listeners : StrandStep(i) \/ drains(i)

Next ==
  \/ \E a \in Operation : snapshot(a) \/ cancel(a)
  \/ \E t \in Stoppers : server_request_stop(t)
  \/ add_listener
  \/ \E i \in Listeners : runtime_failure(i)
  \/ Progress

Spec == Init /\ [][Next]_vars

\* Threads run, an io_context that is run executes what was posted to it, and a
\* stopping listener drains (StoppingEnds of AcceptorListener).  Calls,
\* cancellations and failures need not happen.  Each call is made once, so no
\* thread can be passed over for ever while others go on.
Fairness == WF_vars(Progress)

FairSpec == Spec /\ Fairness

-----------------------------------------------------------------------------
(* Properties *)

\* The members, groups, queues and threads hold values of their types; in
\* particular m_remaining never falls below zero, where its size_t would wrap.
TypeOK ==
  /\ control \in [state : State, generation : 0..Cardinality(Starts)]
  /\ group \in [Operation -> Group]
  /\ listener \in [Listeners -> Listener]
  /\ loop \in [Caller -> Loop]
  /\ stopper \in [Stoppers -> {"new", "locked", "returned"}]
  /\ registered \in 0..N

\* Listeners the call still has to submit its child to.
Unsubmitted(a) ==
  CASE group[a].pc = "snapshot" -> 1..group[a].size
    [] group[a].pc = "submit"   -> group[a].at..group[a].size
    [] group[a].pc = "check"    -> (group[a].at + 1)..group[a].size
    [] OTHER                    -> {}

\* Where listener i holds the child of a: handlers on the strand and waiters.
Held(a, i) ==
  Cardinality({k \in DOMAIN listener[i].strand :
                 /\ listener[i].strand[k].op \in {"start", "wait", "one"}
                 /\ listener[i].strand[k].id = a})
    + Cardinality({k \in DOMAIN listener[i].waiters : listener[i].waiters[k] = a})

\* No child of an operation is lost or reported twice: m_remaining counts exactly
\* the children that are still to be submitted, failed to be submitted and wait
\* for the loop over m_initiation_ecs, or are held once by their listener.
ChildrenAccounted ==
  \A a \in Operation : ~group[a].rejected =>
    LET pending == Unsubmitted(a) \cup group[a].initiation
        held    == {i \in Listeners : Held(a, i) > 0}
    IN  /\ \A i \in held : Held(a, i) = 1 /\ i \notin pending
        /\ group[a].remaining = Cardinality(pending \cup held)

\* Somebody is about to run m_finished for the group of a.
Completing(a) ==
  \/ group[a].pc = "completes"
  \/ \E i \in Listeners : \E k \in DOMAIN listener[i].strand :
       listener[i].strand[k] = Completes(a)

\* "completion is scheduled exactly once": a call that was made has completed, or
\* its completion is under way, or it waits for children, never two of these.
CompletedExactlyOnce ==
  \A a \in Operation : group[a].pc # "new" =>
    LET waits == IF group[a].size = 0 THEN group[a].pc = "snapshot"
                 ELSE group[a].remaining > 0 /\ ~group[a].rejected
    IN  CASE waits         -> group[a].completions = << >> /\ ~Completing(a)
          [] Completing(a) -> group[a].completions = << >>
          [] OTHER         -> Len(group[a].completions) = 1

Lifecycle(i) == INSTANCE ListenerLifecycle WITH
  state   <- listener[i].state,
  error   <- IF listener[i].terminal_error = "ok" THEN "ok" ELSE "failed",
  waiters <- {listener[i].waiters[k] : k \in DOMAIN listener[i].waiters}

\* The listeners of this module do what AcceptorListener and SocketListener are
\* shown to do, and nothing else: they keep to the lifecycle of a listener.
ListenersKeepLifecycle ==
  [][\A i \in Listeners : [Lifecycle(i)!Next]_(Lifecycle(i)!lifecycle)]_listener

\* A stop that was requested is not undone: no start, however late it completes,
\* makes a stopping server run again; it first reaches stopped.
StopIsSticky ==
  [][control.state = "stopping" => control'.state \in {"stopping", "stopped"}]_control

\* async_start completes: whatever the order of child starts, cancellations,
\* failed initiations, stops and failures.
StartCompletes ==
  \A a \in Starts : group[a].pc # "new" ~> group[a].completions # << >>

\* A cancelled async_start or async_wait completes, also when the signal comes
\* between the submissions of its children.
CancelCompletes ==
  \A a \in Operation : group[a].cancelled ~> group[a].completions # << >>

\* No async_start is between its snapshot and the completion of its children.
NoStartInProgress ==
  \A a \in Starts : \/ group[a].pc = "new"
                    \/ group[a].pc = "returned" /\ group[a].completions # << >>

\* A request_stop that finds no async_start in progress stops every listener
\* registered by then, whatever the server thinks its state is.
QuietStopStopsAll ==
  \A t \in Stoppers : \A i \in Listeners :
    (/\ stopper[t] = "locked" /\ loop[t] = begin_loop(registered) /\ i <= registered
     /\ NoStartInProgress)
      ~> listener[i].state = "stopped"

-----------------------------------------------------------------------------
(* What the documentation says and the code does not do. *)

\* Every call returned and nothing is left to run.
Quiescent ==
  /\ \A a \in Operation : group[a].pc = "returned"
  /\ \A c \in Caller : ~Looping(c)
  /\ \A i \in Listeners : listener[i].strand = << >>

\* server.h: "If one listener fails to start, stop is requested for every listener
\* in the snapshot", and a concurrent request_stop "takes precedence".  So when
\* all calls are over no listener runs after either.
StopReachesEveryListener ==
  Quiescent /\ \/ control.state = "stopping" /\ \E t \in Stoppers : stopper[t] = "returned"
               \/ \E a \in Starts : group[a].completions = <<"failed">>
    => \A i \in Listeners : listener[i].state # "running"

\* server.h: cancelling async_wait cancels only its child waits.  So the aborted
\* wait leaves the state of the server alone.
CancelledWaitOnlyCancels ==
  [][\A w \in Waits : group'[w].completions # group[w].completions
                        /\ group'[w].completions = <<"aborted">>
                      => control' = control]_vars

=============================================================================
