-------------------------- MODULE ObserverRegistry --------------------------
(***************************************************************************)
(* Observers and their subscriptions (src/observer_registry.cpp,           *)
(* src/observer.cpp), and the server events they are told                  *)
(* (server_control in src/server.cpp).                                     *)
(*                                                                         *)
(* Listener strands notify synchronously; server events are posted to the  *)
(* executor, any of whose workers takes any of them next.  A callback may  *)
(* throw, drop a subscription or stop the server.  A critical section      *)
(* that takes no other lock is one step, and so is a loop around a         *)
(* compare_exchange.                                                       *)
(***************************************************************************)
EXTENDS Integers, Sequences, FiniteSets

CONSTANTS
  Clients, \* threads that use subscriptions and control the server
  Strands, \* listener strands
  Workers, \* threads of the server executor
  Handles, \* observer_subscription objects
  NoOne,   \* the owner of a free mutex
  MaxCalls \* bound: calls the threads make together

ASSUME RegistryAssumption ==
  MaxCalls \in Nat /\ NoOne \notin Clients \cup Strands \cup Workers \cup Handles

VARIABLES
  registry,     \* m_values as the set of its ids, and m_next_id
  subscription, \* m_id of each handle, 0 when empty
  control,      \* server_control
  events,       \* server events posted to the executor so far
  taken,        \* those a worker has taken
  mutex,        \* owners of the server's m_mutex and of m_callback_mutex
  thread,       \* where each thread is
  calls         \* calls made so far

vars == <<registry, subscription, control, events, taken, mutex, thread, calls>>

Threads == Clients \cup Strands \cup Workers

\* starts is history: how often the server had begun to start at the transition.
\* It tells events apart; the status an event carries is left out, m_generation
\* with it, which is counted after the exchange and may lag behind.
Event == [type : {"none", "starting", "running", "stopping", "stopped"}, starts : Nat]

NoEvent == [type |-> "none", starts |-> 0]

PC == {"ready", "exchange", "remove", "take", "server", "stop", "emit", "copy", "lock",
       "notify"}

\* called and since are history: the observers the last notification called, and
\* m_next_id when it copied them.
Thread ==
  [ pc       : PC,
    started  : BOOLEAN,            \* begin_start returned, finish_start is due
    event    : Event,             \* to emit
    handle   : Handles \cup {NoOne}, \* the handle a call is about
    source   : Handles \cup {NoOne}, \* the one it is assigned from
    fresh    : Nat,                \* id returned by add, not yet in a handle
    old      : Nat,                \* id taken out of the handle by reset
    observers : SUBSET Nat,        \* copied, not yet called
    called   : SUBSET Nat,
    since    : Nat,
    callback : BOOLEAN ]           \* inside a callback

Init ==
  /\ registry = [next_id |-> 0, values |-> {}]
  /\ subscription = [h \in Handles |-> 0]
  /\ control = [state |-> "idle", starts |-> 0]
  /\ events = << >>
  /\ taken = {}
  /\ mutex = [server |-> NoOne, callback |-> NoOne]
  /\ calls = 0
  /\ thread = [t \in Threads |->
       [ pc |-> "ready", started |-> FALSE, event |-> NoEvent,
         handle |-> NoOne, source |-> NoOne, fresh |-> 0, old |-> 0,
         observers |-> {}, called |-> {}, since |-> 0, callback |-> FALSE ]]

-----------------------------------------------------------------------------
(* Calls *)

At(t, pc) == thread[t].pc = pc

Becomes(t, next) == thread' = [thread EXCEPT ![t] = next]

Goto(t, pc) == Becomes(t, [thread[t] EXCEPT !.pc = pc])

\* A thread makes calls of its own, or from inside a callback.
Calls(t) ==
  /\ At(t, "ready") /\ calls < MaxCalls
  /\ t \in Clients \/ thread[t].callback

begin_call(t, next) == Becomes(t, next) /\ calls' = calls + 1

\* A handle is not used by two threads at once; that is up to its owner.
Unused(h) == \A t \in Threads : h \notin {thread[t].handle, thread[t].source}

\* Where a call returns to; the server's mutex is released on the way.
returned(r) ==
  [r EXCEPT !.pc = "ready", !.event = NoEvent, !.handle = NoOne, !.source = NoOne,
            !.fresh = 0, !.old = 0]

Return(t) ==
  /\ Becomes(t, returned(thread[t]))
  /\ mutex' = [mutex EXCEPT !.server = IF @ = t THEN NoOne ELSE @]

-----------------------------------------------------------------------------
(* Subscriptions *)

\* h = server.observe(...): add, then the assignment from a temporary.
observe(t, h) ==
  /\ Calls(t) /\ Unused(h)
  /\ registry' = [next_id |-> registry.next_id + 1,
                  values |-> registry.values \cup {registry.next_id + 1}]
  /\ begin_call(t, [thread[t] EXCEPT !.pc = "exchange", !.handle = h,
                                     !.fresh = registry.next_id + 1])
  /\ UNCHANGED <<subscription, control, events, taken, mutex>>

\* Mutant: the handle's own registration is overwritten.
assign_without_reset(t, h, g) ==
  /\ Calls(t) /\ h # g /\ Unused(h) /\ Unused(g)
  /\ begin_call(t, [thread[t] EXCEPT !.pc = "take", !.handle = h, !.source = g])
  /\ UNCHANGED <<registry, subscription, control, events, taken, mutex>>

\* h = std::move(g), which does nothing when h is g.
assign(t, h, g) ==
  /\ Calls(t) /\ h # g /\ Unused(h) /\ Unused(g)
  /\ begin_call(t, [thread[t] EXCEPT !.pc = "exchange", !.handle = h, !.source = g])
  /\ UNCHANGED <<registry, subscription, control, events, taken, mutex>>

\* h.reset(), also by the destructor.
reset(t, h) ==
  /\ Calls(t) /\ Unused(h)
  /\ begin_call(t, [thread[t] EXCEPT !.pc = "exchange", !.handle = h])
  /\ UNCHANGED <<registry, subscription, control, events, taken, mutex>>

\* reset: the id is taken out of the handle.
reset_exchange(t) ==
  /\ At(t, "exchange")
  /\ Becomes(t, [thread[t] EXCEPT !.pc = "remove", !.old = subscription[thread[t].handle]])
  /\ subscription' = [subscription EXCEPT ![thread[t].handle] = 0]
  /\ UNCHANGED <<registry, control, events, taken, mutex>>

\* reset: the entry is removed, unless the handle was empty.
remove(t) ==
  /\ At(t, "remove")
  /\ registry' = [registry EXCEPT !.values = @ \ {thread[t].old}]
  /\ Becomes(t, [thread[t] EXCEPT !.pc = "take", !.old = 0])
  /\ UNCHANGED <<subscription, control, events, taken, mutex>>

\* The rest of the assignment: the id moves from the temporary or the source.
take_over(t) ==
  LET h == thread[t].handle
      g == thread[t].source
  IN  /\ At(t, "take")
      /\ subscription' = IF g = NoOne
                         THEN [subscription EXCEPT ![h] = thread[t].fresh]
                         ELSE [subscription EXCEPT ![h] = subscription[g], ![g] = 0]
      /\ Return(t)
      /\ UNCHANGED <<registry, control, events, taken>>

-----------------------------------------------------------------------------
(* server_control: a transition, and the event that announces it *)

event(type) == [type |-> type, starts |-> control.starts]

\* server::request_stop, which locks m_mutex first.
request_stop(t) ==
  /\ Calls(t)
  /\ begin_call(t, [thread[t] EXCEPT !.pc = "server"])
  /\ UNCHANGED <<registry, subscription, control, events, taken, mutex>>

request_stop_locks(t) ==
  /\ At(t, "server") /\ mutex.server = NoOne
  /\ mutex' = [mutex EXCEPT !.server = t]
  /\ Goto(t, "stop")
  /\ UNCHANGED <<registry, subscription, control, events, taken>>

\* Mutant: stopping is stored, and announced, whatever the state is.
control_request_stop_stores(t) ==
  /\ At(t, "stop")
  /\ control' = [control EXCEPT !.state = "stopping"]
  /\ Becomes(t, [thread[t] EXCEPT !.pc = "emit", !.event = event("stopping")])
  /\ UNCHANGED <<registry, subscription, events, taken, mutex>>

control_request_stop(t) ==
  /\ At(t, "stop")
  /\ IF control.state \in {"stopping", "stopped"}
     THEN Return(t) /\ UNCHANGED control
     ELSE /\ control' = [control EXCEPT !.state = "stopping"]
          /\ Becomes(t, [thread[t] EXCEPT !.pc = "emit", !.event = event("stopping")])
          /\ UNCHANGED mutex
  /\ UNCHANGED <<registry, subscription, events, taken>>

\* async_start, after its snapshot of the listeners under m_mutex.
begin_start(t) ==
  /\ Calls(t) /\ mutex.server = NoOne /\ control.state # "stopping"
  /\ IF control.state \in {"idle", "stopped"}
     THEN /\ control' = [state |-> "starting", starts |-> control.starts + 1]
          /\ begin_call(t, [thread[t] EXCEPT
               !.pc = "emit", !.started = TRUE,
               !.event = [type |-> "starting", starts |-> control.starts + 1]])
     ELSE /\ begin_call(t, [thread[t] EXCEPT !.started = TRUE])
          /\ UNCHANGED control
  /\ UNCHANGED <<registry, subscription, events, taken, mutex>>

finish_start(t, ec) ==
  LET to == CASE ec # "ok" /\ control.state \notin {"stopping", "stopped"} -> "stopping"
              [] ec = "ok" /\ control.state = "starting" -> "running"
              [] OTHER -> control.state
      done == [thread[t] EXCEPT !.started = FALSE]
  IN  /\ At(t, "ready") /\ ~thread[t].callback /\ thread[t].started
      /\ control' = [control EXCEPT !.state = to]
      /\ Becomes(t, IF to = control.state THEN done
                    ELSE [done EXCEPT !.pc = "emit", !.event = event(to)])
      /\ UNCHANGED <<registry, subscription, events, taken, mutex>>

\* The last child of an async_wait completed.
finish_wait(t) ==
  /\ Calls(t) /\ ~thread[t].callback
  /\ control' = [control EXCEPT !.state = "stopped"]
  /\ begin_call(t, IF control.state = "stopped" THEN thread[t]
                   ELSE [thread[t] EXCEPT !.pc = "emit", !.event = event("stopped")])
  /\ UNCHANGED <<registry, subscription, events, taken, mutex>>

\* Mutant: the observers are notified at once, with m_mutex held.
emit_at_once(t) ==
  /\ At(t, "emit")
  /\ Goto(t, "copy")
  /\ UNCHANGED <<registry, subscription, control, events, taken, mutex>>

\* The event is posted after the transition: another one may be posted first.
emit(t) ==
  /\ At(t, "emit")
  /\ events' = Append(events, thread[t].event)
  /\ Return(t)
  /\ UNCHANGED <<registry, subscription, control, taken>>

-----------------------------------------------------------------------------
(* notify_each *)

\* A listener strand has an event to tell; a worker takes a posted one.
listener_emit(t) ==
  /\ t \in Strands /\ At(t, "ready") /\ ~thread[t].callback /\ calls < MaxCalls
  /\ begin_call(t, [thread[t] EXCEPT !.pc = "copy"])
  /\ UNCHANGED <<registry, subscription, control, events, taken, mutex>>

take_event(t, k) ==
  /\ t \in Workers /\ At(t, "ready") /\ ~thread[t].callback /\ k \notin taken
  /\ taken' = taken \cup {k}
  /\ Goto(t, "copy")
  /\ UNCHANGED <<registry, subscription, control, events, mutex>>

\* The observers are copied under m_mutex.
notify_copies(t) ==
  /\ At(t, "copy")
  /\ Becomes(t, [thread[t] EXCEPT !.observers = registry.values, !.called = {},
                                  !.since = registry.next_id,
                                  !.pc = IF registry.values = {} THEN "ready" ELSE "lock"])
  /\ UNCHANGED <<registry, subscription, control, events, taken, mutex>>

\* Mutant: m_callback_mutex is not locked.
notify_locks_nothing(t) ==
  /\ At(t, "lock")
  /\ Goto(t, "notify")
  /\ UNCHANGED <<registry, subscription, control, events, taken, mutex>>

notify_locks(t) ==
  /\ At(t, "lock") /\ mutex.callback \in {NoOne, t}
  /\ mutex' = [mutex EXCEPT !.callback = t]
  /\ Goto(t, "notify")
  /\ UNCHANGED <<registry, subscription, control, events, taken>>

\* The next observer is called, in the order of registration.
notify_calls(t) ==
  \E o \in thread[t].observers :
    /\ At(t, "notify")
    /\ \A k \in thread[t].observers : o <= k
    /\ Becomes(t, [thread[t] EXCEPT !.observers = @ \ {o}, !.called = @ \cup {o},
                                    !.pc = "ready", !.callback = TRUE])
    /\ UNCHANGED <<registry, subscription, control, events, taken, mutex>>

\* Mutant: an exception of an observer ends the loop.
callback_throw_ends(t) ==
  /\ thread[t].callback /\ At(t, "ready")
  /\ Becomes(t, [thread[t] EXCEPT !.pc = "notify", !.callback = FALSE, !.observers = {}])
  /\ UNCHANGED <<registry, subscription, control, events, taken, mutex>>

\* The callback returns, or throws what is ignored.
callback_returns(t) ==
  /\ thread[t].callback /\ At(t, "ready")
  /\ Becomes(t, [thread[t] EXCEPT !.pc = "notify", !.callback = FALSE])
  /\ UNCHANGED <<registry, subscription, control, events, taken, mutex>>

notify_returns(t) ==
  /\ At(t, "notify") /\ thread[t].observers = {}
  /\ Becomes(t, returned(thread[t]))
  /\ mutex' = [server |-> IF mutex.server = t THEN NoOne ELSE mutex.server,
               callback |-> IF mutex.callback = t THEN NoOne ELSE mutex.callback]
  /\ UNCHANGED <<registry, subscription, control, events, taken>>

-----------------------------------------------------------------------------
Call(t) ==
  \/ \E h \in Handles :
       observe(t, h) \/ reset(t, h) \/ \E g \in Handles : assign(t, h, g)
  \/ request_stop(t) \/ begin_start(t) \/ finish_wait(t)
  \/ listener_emit(t)

Step(t) ==
  /\ UNCHANGED calls
  /\ \/ reset_exchange(t) \/ remove(t) \/ take_over(t)
     \/ request_stop_locks(t) \/ control_request_stop(t) \/ emit(t)
     \/ \E ec \in {"ok", "failed"} : finish_start(t, ec)
     \/ notify_copies(t) \/ notify_locks(t) \/ notify_calls(t)
     \/ callback_returns(t) \/ notify_returns(t)
     \/ \E k \in DOMAIN events : take_event(t, k)

Next == \E t \in Threads : Call(t) \/ Step(t)

Spec == Init /\ [][Next]_vars

\* Threads run on.  Each makes finitely many calls here, so that weak fairness of
\* all their steps together hands every mutex on.  Calls need not be made.
FairSpec == Spec /\ WF_vars(\E t \in Threads : Step(t))

-----------------------------------------------------------------------------
(* Properties *)

\* Every variable keeps its type, and a mutex is held by whoever is inside the
\* section it protects.
TypeOK ==
  /\ registry \in [next_id : Nat, values : SUBSET Nat]
  /\ subscription \in [Handles -> Nat]
  /\ control \in [state : {"idle", "starting", "running", "stopping", "stopped"},
                  starts : Nat]
  /\ events \in Seq(Event)
  /\ taken \subseteq DOMAIN events
  /\ mutex \in [server : Threads \cup {NoOne}, callback : Threads \cup {NoOne}]
  /\ thread \in [Threads -> Thread]
  /\ calls \in 0..MaxCalls
  /\ \A t \in Threads : At(t, "stop") => mutex.server = t
  /\ \A t \in Threads : At(t, "notify") \/ thread[t].callback => mutex.callback = t

\* Ids a thread holds outside the handles: added or taken out, not yet placed or
\* removed.
InHand(t) == {thread[t].fresh, thread[t].old} \ {0}

\* Every registration has exactly one owner, a handle or a call under way, and
\* every handle that is not empty a registration: however handles are assigned,
\* moved and reset, no observer stays registered without a handle to remove it,
\* and none is removed by two.
EntriesOwned ==
  /\ registry.values =
       ({subscription[h] : h \in Handles} \ {0}) \cup UNION {InHand(t) : t \in Threads}
  /\ \A h, g \in Handles : subscription[h] = subscription[g] /\ subscription[h] # 0 => h = g
  /\ \A h \in Handles, t \in Threads : subscription[h] \notin InHand(t)
  /\ \A t, u \in Threads : t # u => InHand(t) \cap InHand(u) = {}

\* observer.h: "Calls to all observers registered with one server are globally
\* serialized", although strands and workers notify at the same time.
CallbacksSerialized ==
  \A t, u \in Threads : thread[t].callback /\ thread[u].callback => t = u

\* A notification whose loop is over has called every observer that was
\* registered when it began and still is, although callbacks throw and unregister
\* each other meanwhile.
NotificationComplete ==
  \A t \in Threads :
    thread[t].observers = {} =>
      \A o \in registry.values : o <= thread[t].since => o \in thread[t].called

\* A transition is announced once: two events after the same start differ, however
\* many threads stop, start and wait at the same time.
AnnouncedOnce ==
  \A i, k \in DOMAIN events : events[i] = events[k] => i = k

\* Nobody waits for ever: a callback that stops the server or drops a
\* subscription while another thread stops it does not block, nor does whoever
\* notifies meanwhile.
EveryCallReturns ==
  \A t \in Threads :
    thread[t].pc # "ready" \/ thread[t].callback
      ~> thread[t].pc = "ready" /\ ~thread[t].callback

=============================================================================
