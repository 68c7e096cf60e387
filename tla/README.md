# Formal models of Serveza

TLA+ models of Serveza, a C++17 server library on Boost.Asio, and of its example
programs, with the TLC configurations that check them and TLAPS proofs about the
listeners, the server, the programs, the sessions and the observer registry. Paths
below are relative to the repository.

## The system

| Part | Code | State | Operations |
|---|---|---|---|
| stream listener | `include/serveza/listener.h` | lifecycle state, generation, cause of the stop, acceptor, retry and shutdown timers, tracked sessions, waiters | `async_start`, `async_wait`, `request_stop`, their cancellation; handlers for accept, session end, both timers |
| datagram listener | `include/serveza/detail/basic_socket_listener.h` | the same with one session and one timer | the same without accepting |
| server | `src/server.cpp` | server state and generation, listeners, one operation group per call | `async_start`, `async_wait`, `request_stop`, cancellation; joining the children |
| backoff and options | `src/listener.cpp` | none | `accept_retry_delay`, validation |
| observers | `src/observer_registry.cpp`, `src/observer.cpp`, the events of `src/server.cpp` | registered observers, subscriptions, two mutexes, posted events | observe, move, reset, notify |
| sessions | `callback_session.h`, `yield_session.h`, `awaitable_session.h`, `examples/*/src/main.cpp` | the operation under way, the socket, a deadline, the cancellation slot | start, transfers, stop, forced close, deadline |
| programs | `examples/*/src/main.cpp` | the main thread, the signal set, the control strand | register, wait, start, signal, join |

A listener does all its work on its strand, where handlers run one at a time in
FIFO order; each connection or bound session has a strand of its own. Client
calls come from any thread and only post. The server adds threads of its own: a
caller submits one child operation per listener, and the result of each child is
counted on the strand of that listener. Listeners notify observers from their
strands, the server posts its events to an executor.

What makes this hard: a request reads the state and posts later; timers and
accepts complete after they were cancelled; a session may never return; several
causes stop a listener at once; a listener restarts while handlers of the
previous generation are queued; a server stop meets a start that has submitted
only some of its children; one child of several fails; a callback unregisters
another observer or stops the server it is told about.

## Modules

| Module | Models |
|---|---|
| `ListenerLifecycle` | what every listener promises (`class listener`): the abstract specification |
| `AcceptorListener` | `basic_acceptor_listener` and `connection_state` |
| `SocketListener` | `basic_socket_listener` and `session_state` |
| `AcceptBackoff` | option validation and `accept_retry_delay` |
| `Server` | `server_control`, `listener_operation_group` and the calls of `server` |
| `ObserverRegistry` | `observer_registry`, `observer_subscription`, and who announces a server transition |
| `EchoSession` | the nine sessions of the examples, the session adapters and the state that owns the socket |
| `EchoMain` | the eight `main` functions, composed with `Server` |
| `AcceptorListenerProofs`, `AcceptorPromises`, `SocketListenerProofs`, `ServerProofs`, `EchoMainProofs`, `EchoSessionProofs`, `ObserverRegistryProofs` | theorems about these |
| `QueueTheorems` | lemmas about queues that the proofs share |
| `MCAcceptorListener`, `MCServer` | symmetry for TLC; the first also joins the backoff to the listener |

**Listeners.** `AcceptorListener` and `SocketListener` keep the members in one
record `listener`. A member function is an operator from this record to its next
value, so a handler is written as the call tree of the code: `accepted` uses
`accept_next`, which uses `begin_stop`, `maybe_finish` and `finish`. `strand` is
the queue of handlers, and each handler is an action that takes the head. A
completion of an accept or a timer first leaves the I/O object (`in_flight`,
`due`) and is queued by a separate step; in between, cancelling the timer does
not recall it. In `AcceptorListener` the start handler takes two steps because
`request_stop` on another thread can see `starting`; in `SocketListener` it is
one, as nobody acts differently on `starting` than on `running`. Completions are
recorded when they are scheduled. A session that ends during the retry delay
starts an accept at once, and the count of consecutive accept errors survives a
restart; both are in the model without a property of their own.

**The lifecycle.** `ListenerLifecycle` has three variables: state, terminal error
(reduced to success or failure) and waiters. Both listeners implement it under
the mapping that reads these members of the record, and the listeners that
`Server` assumes are checked to do no more than it allows
(`ListenersKeepLifecycle`), so the server model and the listener models meet in
one contract.

**Backoff.** `accept_retry_delay` is a recursive function over the iterations of
the loop, with products that wrap around at the end of the representation. It is
compared with the closed form (the first delay doubled and cut off) for every
option record that `validate_acceptor_options` accepts.

**Server.** `Server` sees a listener by its state, waiters and strand only. Each
caller is a thread whose `pc` is the next atomic operation, critical section or
post of `do_async_start` and `do_async_wait`. A loop that calls `request_stop` on
all listeners takes two steps per listener, the test of the state and the post.
`one` runs on the strand of the child's listener and holds that strand while it
stops the others and completes the operation. `m_mutex` is held by
`request_stop` from its first to its last step.

**Observers.** In `ObserverRegistry` a thread's `pc` is its next critical section
or atomic operation: adding, exchanging the id in a handle, removing, taking over
another handle, locking `m_mutex` of the server, changing the state, emitting,
copying the observers, locking `m_callback_mutex`, calling. A thread whose
`callback` is set is inside an observer and may make calls from there. Workers
take posted events in any order. `starts` counts the starts as history to tell
transitions apart; it is not `m_generation`, which is incremented after the state
was exchanged and can lag behind.

**Sessions.** In `EchoSession` the control of a session is a table: which
operation follows one that completed with a given code, or how the session
completes. One such table per example stands for its handlers or its coroutine.
The actions are common to all: a transfer waits for the peer, is answered,
cancelled or fails, its completion is in flight and then queued; the deadline of
the HTTP sessions expires; the owner posts `request_stop` and `force_close` to the
strand of the socket, and closes the socket in the latter.

**Programs.** In `EchoMain` a program is the sequence of what `main` does:
register listeners, wait for signals, wait for the server, start it, join the
pool, or spawn a coroutine that does these. Its calls are the calls of `Server`,
whose steps interleave with it.

Error codes are reduced to what the code tells apart: success, `aborted`,
transient and fatal accept errors, `timed_out`, and `failed` for any other error
or exception; `EchoSession` also tells end of file, reset, truncation and
`bad_descriptor` apart. An exception that carries an empty error code is not
considered. Operators whose comment begins with "Mutant" are variants of the
definition that follows them with a plausible mistake in it. No specification
uses them; each was put in the place of its definition to see that a property
notices.

## Runs

All configurations say `CHECK_DEADLOCK FALSE`: clients make finitely many calls,
and then the system may rest.

| Run | Instance | Shows |
|---|---|---|
| `AcceptorLifecycle` | 2 starts, 1 wait, 2 stops, 1 connection, limit 1, 2 errors | a stopped listener is drained, no completion twice, the pending accept is counted exactly, the first cause wins, waits tell the truth, the lifecycle is implemented |
| `AcceptorLiveness` | 2 starts, 1 stop, 2 connections, limit 1, delays up to 15 | the accept loop is not lost, the limit holds, delays are exponential; stopping ends, posted stops are honoured, starts complete |
| `SocketLifecycle` | 2 starts, 1 wait, 1 stop, throwing strand factory | `m_session` is always the session that has still to report, and there is one exactly while the listener runs or stops; waits tell the truth; stopping ends; a start is lost only to the strand factory; the lifecycle is implemented |
| `ServerGroups` | up to 2 listeners, a cancellable start, a stop, failing submissions and starts | `m_remaining` counts exactly the open children, each call completes once |
| `ServerLiveness` | up to 1 listener, a start, a cancellable wait, a stop, failing submissions and listeners | starts and cancelled waits complete; a stop that meets no start stops every listener and is not undone; the assumed listeners keep the lifecycle |
| `EchoSessions` | one session of each example | the completion handler is called at most once, a stop is not reported as a failure, a stream session ends when its socket is closed, a stop reaches a coroutine, the deadline bounds a transfer |
| `EchoMains` | all programs, up to 2 listeners that may fail, a signal at any time | the process exits after a signal, a failed start or the end of all listeners; success means no listener failed |
| `ObserverRegistry` | a client, a listener strand, a worker, 2 handles, 4 calls | every registration has one owner, callbacks do not overlap, a notification misses nobody, a transition is announced once, no call blocks for ever |

In the server runs any number of listeners up to the bound is registered before
the first call and the others at any time, so the paths for a server without
listeners are included.

Bounds. Two starts give two generations, which is what stale handlers need; a
second connection at a limit of one is the first that has to wait; two listeners
give a child that was submitted and one that was not yet. `Cancellable` and
`Faults` choose, per instance, which calls have a cancellation slot and what may
fail. `MaxConnections` and `MaxCalls` bound what clients do, never what the library
does; four calls are enough for a handle to be assigned over while another thread
notifies and stops. `MaxRep` is the end of the representation of a duration and
`MaxErrors` the number of errors in a row looked at; with 15 and 8 every delay
above zero reaches its limit, and doubling without the test against the limit
overflows. `MaxStale` bounds the expiries of a deadline that are in flight at a
time: one left behind by an earlier operation, and the current one.

Two weaker statements are deliberate. `DeadlineBoundsTransfers` excepts a deadline
that expires between two transfers and so finds nothing to cancel. `EchoMain`
excepts a signal handled before the start began in a program with handlers: the
wait is over by then, and the start runs with the signal set cancelled.

Fairness. Queued handlers run, armed timers expire, completions reach their
strand, and a thread inside a call goes on: this is an `io_context` or a thread
pool that is being run. In `Server` a stopping listener drains, which
`StoppingEnds` shows for both listeners. Nothing is assumed of clients, peers,
cancellations, failures or the sessions inside the listener models. `Server`,
`EchoMain` and `ObserverRegistry` have weak fairness of all their internal steps
together: calls are finitely many there, so no thread is passed over for ever
while others go on.

### Where documentation and code disagree

| Run | Behaviour |
|---|---|
| `AcceptorStaleTimer` | a grace timer that expired just before the drain ended force-closes a session of the next generation |
| `ServerStopPrecedence` | a stop, by a caller or for a failed listener, reaches an idle listener before its child start is submitted; the start then runs and the listener stays up |
| `ServerCancelledWait` | a cancelled `async_wait` sets the server to stopped |
| `EchoDatagramStop` | a datagram session whose receive completed just before the forced close goes on with the closed socket for ever and does not complete |

In each, TLC finds a behaviour of the code that violates the property that
states the documented sentence. They appear as findings in `PROJECT.json`, with
the sentence.

## Proofs

All theorems hold for every value of the constants: any calls, generations,
connections, listeners and threads. Every safety property of the runs is proved
but one (see below). The types of the stream listener and of the registry,
`StoppingWaitsForSomething` and both `StopReasonAgrees` are proved and not checked
by a run as well. Each inductive invariant was first an invariant of a TLC run.

A strand is a sequence, and most invariants say where something is: on the strand
or in a member. `QueueTheorems` has what they need: `Meets(s, X)` says that an entry of
`s` is in the set `X` and `MeetsOnce` that at most one is. The lemmas say how `Append` and
`Tail` change each, without induction.

### Stream listener

`AcceptorListenerProofs`:

- `TypeCorrect`: `TypeOK` always holds;
- `StoppedDrained`, `StoppingNotStuck`, `ReasonAgrees`: the invariants
  `StoppedIsDrained`, `StoppingWaitsForSomething` and `StopReasonAgrees`;
- `FirstCause`: the action property `FirstCauseWins`.

They assume `OptionsAssumption`, which is what `validate_acceptor_options`
establishes, and `CallsAssumption`, that starts and waits are different calls.
None of the invariants is inductive alone. `Invariance` proves
`IInv == Safe /\ Reported /\ StartHolds`:

- `Safe` speaks of the listener record: every unfinished connection is tracked
  (`Tracked`), a stopping or stopped listener has a reason and an error that
  agree (`Cause`), an idle, starting or stopped one has no session and no accept,
  and a stopping one has at least one of them;
- `Reported` says that a `session_finished` on the strand belongs to a connection
  that is finished, so erasing it from the tracked sessions keeps `Tracked`;
- `StartHolds` says that a listener is `starting` only while the start handler is
  at the head of the strand, so no other handler sees it.

The proof follows the call tree. Each member function has a lemma that it
preserves types (`..._type`) and one that it preserves `Safe` and only moves the
listener forward (`..._safe`); a handler combines the lemmas of what it calls.

`Refinement`, in this module too, says that the listener implements
`ListenerLifecycle`. A member function leaves the lifecycle alone (`Same`), ends a
stop (`Drains`) or begins one (`Stops`), and these compose; every action then is
one of them, or a start, a wait or a cancellation. The only invariant needed
besides the types is `StartsClean`: a starting listener has no error yet.

`AcceptorPromises` proves, under the same assumptions, `AcceptPendingExact`,
`LoopAlive`, `SessionsBounded`, `CompletesOnce` (the invariants
`AcceptPendingIsExact`, `AcceptLoopAlive`, `ActiveSessionsBounded`,
`CompletedAtMostOnce`) and `WaitsAreTold` (the action property
`WaitTellsTheTruth`). They follow from one inductive invariant, `LInv`
(`BooksInvariant`):

- `Balanced`: the accepts with the acceptor, in flight and on the strand are as
  many as `m_accept_pending` says, none or one;
- `Room`: with the session that a pending accept may bring, the tracked sessions
  are within the limit. The limit alone is not inductive, for the accept that adds
  a session does not test it again;
- `Alive`: a running listener has an accept pending, a retry on its way, or no room;
- `Ledger`: every call is queued, waiting or completed, in one of these and once;
- `Asked`: a cancellation on the strand was asked for, so a wait that nobody
  cancelled is completed by `finish` only.

Each is a predicate of the listener record and the strand without the entry being
handled, so that it can be followed through the call tree. The end of
`AcceptorListenerProofs` does so for the member functions (`..._quiet`, `..._tells`)
and for the first three of the five.

`BackoffStep` is about one iteration of the loop in `accept_retry_delay`: for every
option record that `validate_acceptor_options` accepts and every representation it
doubles the delay or cuts it off at the limit, and no product wraps around.

### Datagram listener

`SocketListenerProofs` proves `SessionKept` (`SessionWhileOpen`), `ReasonAgrees`
(`StopReasonAgrees`) and `SocketRefinement`, that it implements
`ListenerLifecycle`. Every step falls into one of seven classes (`Steps`) by what
it does to the state, the errors, the reason, the session and the waiters. The
inductive invariant `Cause` adds to the two invariants that a listener that is not
stopped has no terminal error and that one that is stopping was requested to.

A second invariant, `LInv` (`SocketBooks`), gives `SocketTypes` (`TypeOK`),
`SessionStaysCurrent` (`SessionIsCurrent`) and `WaitsAreTold`
(`WaitTellsTheTruth`):

- `Current`: a session is `m_session` exactly as long as it has not reported or its
  report is queued, and there is no other report, so `session_finished`, which
  resets `m_session` without asking whose report it is, resets the right one;
- `Bounded`: there are at most as many sessions as generations and as many
  generations as starts that ran, which gives the bounds in `TypeOK`;
- `Ledger` and `Asked`: as for the stream listener.

It assumes `SocketCallsAssumption`: finitely many starts, none of which is a wait.

### Server

`ServerProofs` proves `CompletesOnce` (`CompletedExactlyOnce`), `StopSticks`
(`StopIsSticky`) and `ListenersLive` (`ListenersKeepLifecycle`), for any number of
listeners, calls and stopping threads. `ChildrenCounted` (`ChildrenAccounted`) and
`ServerTypes` (`TypeOK`) follow from its invariants, at the end of `EchoMainProofs`. All
assume `ServerAssumption`: finitely many starts, none of which is a wait.

A call is split over threads: the caller submits one child after the other, each
listener that has a child works on its own strand, and one of them, or the caller,
completes the call. The inductive invariant `IInv` (`ServerInvariant`) has to say
where each part is. `Holders(a)` are the listeners that hold a child of call `a`,
queued, waiting or with its result on the way to `one`; `Enders(a)` are those about to
complete it. Then

- `Sound`, for a listener: it holds at most one child of each call, and the handler
  that completes a call is at the head of its strand;
- `Book`, for a call, is about the group and these two sets. `Placed` says where
  the caller is in its loop. `Counted` says that the listeners still ahead, those
  whose submission threw, and the holders are disjoint, and that `m_remaining`
  counts them. `Concluded` says that as long as some are left nobody completes the
  call, that at most one listener is about to, and that the call has completed
  exactly when none is left and nobody is about to.

An action changes one group, one listener or both. Lemmas say what each kind of
change does to `Sound` and to `Book` (a child is handed over, moves from one handler to
the next, is reported, is the last), and `StepIInv` puts them together, with one step
per kind of action.
The bound on generations needs a second invariant, `Generations`: a generation for each
start that began, at most.

`Counted` and `Generations` say how many with `Sized(S, n)`, that the elements of `S` can
be numbered from 1 to `n`. What a step needs of it, one element more or less, is proved
directly. The library of facts about finite sets makes each obligation of the prover
larger, so it is brought in once, for the two theorems that speak of `Cardinality`;
that is why they stand last in the last module.

### Programs

`EchoMainProofs` proves `CleanSuccess` (`SuccessIsClean`): a process that exits with
success lost no listener to an error. It holds for all eight programs, any number of
listeners and every fault of `Server`, under `ServerAssumption` and `MainAssumption`: a
program makes one start and one wait, has two reasons to stop, and a wait is neither
a start nor a stop.

Every step of a program is a step of `Server` (`MainSteps`), so `IInv` of the server
holds here as well (`UsesServer`). The invariant `MInv` (`MainInvariant`) adds what the
server does not know:

- `Uncancelled`, `Sizes`, `Programmed`: no program cancels a call, the calls are made
  after the registration, and where `main` is in its sequence;
- `Handled`, `Reported`: a handler that ran told `main` what its call completed with,
  and that is the first error of the call's children;
- `Excuse \/ Orderly`. `Orderly` is what a run without trouble looks like: no stop is
  under way before the start has completed, and every registered listener has the wait
  open, which will report how it stops, or has stopped for good without an error. An
  `Excuse` is an error that a call reported or has on its way (`Trouble`), a stop that
  overtook the start, which then reports that it was aborted (`Late`), or the signal
  before the start that `SuccessIsClean` excepts.

A listener that fails with the wait open answers it with the error, which is
trouble; one that is at rest has no start left that could fail. Excuses stay
(`ExcuseStays`) until the calls are over, and then `main.result` is `failure`
(`InvariantClean`). The proof goes through the effect of a step on one call and one
listener (`Effect`, `StepEffect`), not through the actions, of which `Server` has
many; what each action does to a call that nobody cancels (`Moves`) is at the end of
`ServerProofs`.

### Sessions

`EchoSessionProofs` proves `SessionTypes` (`TypeOK`), `HandledOnce`
(`HandledAtMostOnce`) and `StopNeverFails` (`StopIsNoFailure`) for all nine sessions
and any number of stale expiries. The inductive invariant (`ChainInvariant`) is

- `Chained`: the chain of operations is in exactly one place, a handler on the
  strand or an operation on the socket, until the session has completed. This is
  what rules out a second completion when a deadline, a stop or a forced close
  falls between two operations;
- `Blameless`: no error is on its way that the session could report and should
  not. That of a closed socket is on its way only when the owner has reported the
  session already, and any other error only after the peer caused one.

### Observers

`ObserverRegistryProofs` proves `TypeCorrect` (`TypeOK`) and, as `Owned`,
`Serialized`, `Complete` and `Announced`, all the invariants of the run. It assumes
`RegistryAssumption`: the owner of a free mutex is no thread. The inductive
invariant has six parts:

- `Owners` and `OneOwner`: the registered ids are those in handles and in calls
  under way, each in one place;
- `CallsApart`: the registers of a thread outside a call on a handle are empty,
  and two calls under way use different handles, which is what the callers of a
  handle have to see to;
- `Delivering`: what was registered before the copy and still is was called or is
  still to be called;
- `Locked`: whoever is in a section holds its mutex;
- `Announcing`: every event posted or about to be emitted belongs to a transition
  that was made, and no two are the same. That is inductive because the state of
  the server only moves forward between two starts.

### Only model-checked

- All liveness properties, which are beyond the prover.
- `BackoffIsExponential`, that the whole loop computes the closed form: this is
  induction over the number of errors, which the installed provers cannot do.
  `BackoffStep` is its step.

## Not modelled

- Failures of the executor or the allocator inside `noexcept` boundaries (the
  blocks excluded from coverage in the source): posting a stop, arming a timer.
- The handler of a shutdown timer that was cancelled, which returns at once.
- Status snapshots and what events carry, the generation in them included: they
  are read from several atomics and change no state.
- Endpoints, socket options and the accessors of the contexts: no state machine.
- The data race between emitting a child's cancellation signal and clearing its
  slot: both are atomic here.
- The lifetime of observers: what their destructors do is up to the application.
- In the examples, the contents of messages, logging, exceptions out of `main` and
  the removal of socket files.
