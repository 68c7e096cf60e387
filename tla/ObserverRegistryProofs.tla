----------------------- MODULE ObserverRegistryProofs -----------------------
(***************************************************************************)
(* Proofs about ObserverRegistry, for any threads, handles and number of   *)
(* calls.                                                                  *)
(***************************************************************************)
EXTENDS ObserverRegistry, TLAPS

\* The provers that try a leaf in turn, unless it names one.
USE SMTT(20), SMTT(30), ZenonT(30)

-----------------------------------------------------------------------------
(* Types *)

\* The actions of one thread, as a list to split on.
LEMMA Actions ==
  ASSUME NEW t \in Threads, Call(t) \/ Step(t)
  PROVE  \/ \E h \in Handles : observe(t, h)
         \/ \E h \in Handles : reset(t, h)
         \/ \E h, g \in Handles : assign(t, h, g)
         \/ request_stop(t) \/ begin_start(t) \/ finish_wait(t) \/ listener_emit(t)
         \/ /\ UNCHANGED calls
            /\ \/ reset_exchange(t) \/ remove(t) \/ take_over(t)
               \/ request_stop_locks(t) \/ control_request_stop(t) \/ emit(t)
               \/ \E ec \in {"ok", "failed"} : finish_start(t, ec)
               \/ notify_copies(t) \/ notify_locks(t) \/ notify_calls(t)
               \/ callback_returns(t) \/ notify_returns(t)
               \/ \E k \in DOMAIN events : take_event(t, k)
BY DEF Call, Step

\* Only the thread that acts changes.
LEMMA Becoming ==
  ASSUME thread \in [Threads -> Thread], NEW t \in Threads, NEW r \in Thread, Becomes(t, r)
  PROVE  /\ thread' \in [Threads -> Thread]
         /\ thread'[t] = r
         /\ \A u \in Threads \ {t} : thread'[u] = thread[u]
BY DEF Becomes

\* What is said of the variables, the mutexes' owners apart.
Types ==
  /\ registry \in [next_id : Nat, values : SUBSET Nat]
  /\ subscription \in [Handles -> Nat]
  /\ control \in [state : {"idle", "starting", "running", "stopping", "stopped"},
                  starts : Nat]
  /\ events \in Seq(Event)
  /\ taken \subseteq DOMAIN events
  /\ mutex \in [server : Threads \cup {NoOne}, callback : Threads \cup {NoOne}]
  /\ thread \in [Threads -> Thread]
  /\ calls \in 0..MaxCalls
  /\ \A t \in Threads : thread[t].pc \in {"exchange", "remove", "take"} => thread[t].handle \in Handles

\* What an update of a thread's record leaves alone: the call on a handle, the
\* notification, and the rest.
SameCall(n, r) ==
  n.handle = r.handle /\ n.source = r.source /\ n.fresh = r.fresh /\ n.old = r.old

SameLoop(n, r) ==
  n.observers = r.observers /\ n.called = r.called /\ n.since = r.since

NoCall(n) == n.handle = NoOne /\ n.source = NoOne /\ n.fresh = 0 /\ n.old = 0

\* The other threads stay as they are.
Others(t) == \A u \in Threads \ {t} : thread'[u] = thread[u]

-----------------------------------------------------------------------------
(* What each action does to the acting thread *)

\* What observe does to the thread that takes it.
LEMMA observe_effect ==
  ASSUME Types, NEW t \in Threads, NEW h \in Handles, observe(t, h)
  PROVE  /\ Types' /\ Others(t)
         /\ thread[t].pc = "ready"
         /\ thread'[t].pc = "exchange" /\ thread'[t].handle = h
         /\ thread'[t].source = thread[t].source /\ thread'[t].fresh = registry.next_id + 1 /\ thread'[t].old = thread[t].old
         /\ SameLoop(thread'[t], thread[t])
         /\ thread'[t].event = thread[t].event
         /\ thread'[t].callback = thread[t].callback
<1> DEFINE r == thread[t]
           n == [r EXCEPT !.pc = "exchange", !.handle = h, !.fresh = registry.next_id + 1]
<1>1. /\ r \in Thread
      /\ registry.next_id + 1 \in Nat
  BY DEF Types
<1>2. /\ n \in Thread
      /\ n.pc = "exchange" /\ n.handle = h
      /\ n.source = r.source /\ n.fresh = registry.next_id + 1 /\ n.old = r.old
      /\ SameLoop(n, r)
      /\ n.event = r.event
      /\ n.callback = r.callback
  BY <1>1, Zenon DEF Thread, PC, SameCall, SameLoop, NoCall, returned, Event, NoEvent
<1>3. Becomes(t, n)
  BY DEF observe, begin_call, Goto, Return, At
<1>4. thread' \in [Threads -> Thread] /\ thread'[t] = n /\ Others(t)
  BY <1>2, <1>3, Becoming DEF Types, Others
<1> HIDE DEF n
<1>5. Types'
  <2>1. registry' \in [next_id : Nat, values : SUBSET Nat]
    BY <1>1 DEF Types, observe
  <2>2. calls' \in 0..MaxCalls
    BY RegistryAssumption DEF Types, observe, begin_call, Calls
  <2>3. UNCHANGED <<subscription, control, events, taken, mutex>>
    BY DEF observe
  <2>4. \A u \in Threads :
          thread'[u].pc \in {"exchange", "remove", "take"} => thread'[u].handle \in Handles
    BY <1>2, <1>4 DEF Types, Others
  <2>5. QED
    BY <1>4, <2>1, <2>2, <2>3, <2>4 DEF Types
<1>6. QED
  BY <1>2, <1>4, <1>5 DEF observe, At, Calls

\* What reset does to the thread that takes it.
LEMMA reset_effect ==
  ASSUME Types, NEW t \in Threads, NEW h \in Handles, reset(t, h)
  PROVE  /\ Types' /\ Others(t)
         /\ thread[t].pc = "ready"
         /\ thread'[t].pc = "exchange" /\ thread'[t].handle = h
         /\ thread'[t].source = thread[t].source /\ thread'[t].fresh = thread[t].fresh /\ thread'[t].old = thread[t].old
         /\ SameLoop(thread'[t], thread[t])
         /\ thread'[t].event = thread[t].event
         /\ thread'[t].callback = thread[t].callback
<1> DEFINE r == thread[t]
           n == [r EXCEPT !.pc = "exchange", !.handle = h]
<1>1. /\ r \in Thread
  BY DEF Types
<1>2. /\ n \in Thread
      /\ n.pc = "exchange" /\ n.handle = h
      /\ n.source = r.source /\ n.fresh = r.fresh /\ n.old = r.old
      /\ SameLoop(n, r)
      /\ n.event = r.event
      /\ n.callback = r.callback
  BY <1>1, Zenon DEF Thread, PC, SameCall, SameLoop, NoCall, returned, Event, NoEvent
<1>3. Becomes(t, n)
  BY DEF reset, begin_call, Goto, Return, At
<1>4. thread' \in [Threads -> Thread] /\ thread'[t] = n /\ Others(t)
  BY <1>2, <1>3, Becoming DEF Types, Others
<1> HIDE DEF n
<1>5. Types'
  BY <1>1, <1>2, <1>4, RegistryAssumption
  DEF Types, reset, begin_call, Calls, Return, At, Others, SameCall, NoCall
<1>6. QED
  BY <1>2, <1>4, <1>5 DEF reset, At, Calls

\* What assign does to the thread that takes it.
LEMMA assign_effect ==
  ASSUME Types, NEW t \in Threads, NEW h \in Handles, NEW g \in Handles, assign(t, h, g)
  PROVE  /\ Types' /\ Others(t)
         /\ thread[t].pc = "ready"
         /\ thread'[t].pc = "exchange" /\ thread'[t].handle = h
         /\ thread'[t].source = g /\ thread'[t].fresh = thread[t].fresh /\ thread'[t].old = thread[t].old
         /\ SameLoop(thread'[t], thread[t])
         /\ thread'[t].event = thread[t].event
         /\ thread'[t].callback = thread[t].callback
<1> DEFINE r == thread[t]
           n == [r EXCEPT !.pc = "exchange", !.handle = h, !.source = g]
<1>1. /\ r \in Thread
  BY DEF Types
<1>2. /\ n \in Thread
      /\ n.pc = "exchange" /\ n.handle = h
      /\ n.source = g /\ n.fresh = r.fresh /\ n.old = r.old
      /\ SameLoop(n, r)
      /\ n.event = r.event
      /\ n.callback = r.callback
  BY <1>1, Zenon DEF Thread, PC, SameCall, SameLoop, NoCall, returned, Event, NoEvent
<1>3. Becomes(t, n)
  BY DEF assign, begin_call, Goto, Return, At
<1>4. thread' \in [Threads -> Thread] /\ thread'[t] = n /\ Others(t)
  BY <1>2, <1>3, Becoming DEF Types, Others
<1> HIDE DEF n
<1>f. UNCHANGED <<registry, subscription, control, events, taken, mutex>> /\ calls + 1 \in 0..MaxCalls /\ calls' = calls + 1
  BY <1>1, RegistryAssumption DEF Types, assign, begin_call, Calls, Return, At
<1>5. Types'
  BY <1>1, <1>2, <1>4, <1>f, RegistryAssumption
  DEF Types, Others, SameCall, NoCall
<1>6. QED
  BY <1>2, <1>4, <1>5 DEF assign, At, Calls

\* What remove does to the thread that takes it.
LEMMA remove_effect ==
  ASSUME Types, NEW t \in Threads, remove(t), UNCHANGED calls
  PROVE  /\ Types' /\ Others(t)
         /\ thread[t].pc = "remove"
         /\ thread'[t].pc = "take" /\ thread'[t].handle = thread[t].handle
         /\ thread'[t].source = thread[t].source /\ thread'[t].fresh = thread[t].fresh /\ thread'[t].old = 0
         /\ SameLoop(thread'[t], thread[t])
         /\ thread'[t].event = thread[t].event
         /\ thread'[t].callback = thread[t].callback
<1> DEFINE r == thread[t]
           n == [r EXCEPT !.pc = "take", !.old = 0]
<1>1. /\ r \in Thread
      /\ "take" \in PC
  BY DEF Types, PC
<1>2. /\ n \in Thread
      /\ n.pc = "take" /\ n.handle = r.handle
      /\ n.source = r.source /\ n.fresh = r.fresh /\ n.old = 0
      /\ SameLoop(n, r)
      /\ n.event = r.event
      /\ n.callback = r.callback
  BY <1>1, Zenon DEF Thread, PC, SameCall, SameLoop, NoCall, returned, Event, NoEvent
<1>3. Becomes(t, n)
  BY DEF remove, begin_call, Goto, Return, At
<1>4. thread' \in [Threads -> Thread] /\ thread'[t] = n /\ Others(t)
  BY <1>2, <1>3, Becoming DEF Types, Others
<1> HIDE DEF n
<1>5. Types'
  BY <1>1, <1>2, <1>4, RegistryAssumption, Zenon
  DEF Types, remove, begin_call, Calls, Return, At, Others, SameCall, NoCall
<1>6. QED
  BY <1>2, <1>4, <1>5 DEF remove, At, Calls

\* What request_stop does to the thread that takes it.
LEMMA request_stop_effect ==
  ASSUME Types, NEW t \in Threads, request_stop(t)
  PROVE  /\ Types' /\ Others(t)
         /\ thread[t].pc = "ready"
         /\ thread'[t].pc = "server"
         /\ SameCall(thread'[t], thread[t])
         /\ SameLoop(thread'[t], thread[t])
         /\ thread'[t].event = thread[t].event
         /\ thread'[t].callback = thread[t].callback
<1> DEFINE r == thread[t]
           n == [r EXCEPT !.pc = "server"]
<1>1. /\ r \in Thread
      /\ "server" \in PC
  BY DEF Types, PC
<1>2. /\ n \in Thread
      /\ n.pc = "server"
      /\ SameCall(n, r)
      /\ SameLoop(n, r)
      /\ n.event = r.event
      /\ n.callback = r.callback
  BY <1>1 DEF Thread, PC, SameCall, SameLoop, NoCall, returned, Event, NoEvent
<1>3. Becomes(t, n)
  BY DEF request_stop, begin_call, Goto, Return, At
<1>4. thread' \in [Threads -> Thread] /\ thread'[t] = n /\ Others(t)
  BY <1>2, <1>3, Becoming DEF Types, Others
<1> HIDE DEF n
<1>5. Types'
  BY <1>1, <1>2, <1>4, RegistryAssumption
  DEF Types, request_stop, begin_call, Calls, Return, At, Others, SameCall, NoCall
<1>6. QED
  BY <1>2, <1>4, <1>5 DEF request_stop, At, Calls

\* What request_stop_locks does to the thread that takes it.
LEMMA request_stop_locks_effect ==
  ASSUME Types, NEW t \in Threads, request_stop_locks(t), UNCHANGED calls
  PROVE  /\ Types' /\ Others(t)
         /\ thread[t].pc = "server"
         /\ thread'[t].pc = "stop"
         /\ SameCall(thread'[t], thread[t])
         /\ SameLoop(thread'[t], thread[t])
         /\ thread'[t].event = thread[t].event
         /\ thread'[t].callback = thread[t].callback
<1> DEFINE r == thread[t]
           n == [r EXCEPT !.pc = "stop"]
<1>1. /\ r \in Thread
      /\ "stop" \in PC
  BY DEF Types, PC
<1>2. /\ n \in Thread
      /\ n.pc = "stop"
      /\ SameCall(n, r)
      /\ SameLoop(n, r)
      /\ n.event = r.event
      /\ n.callback = r.callback
  BY <1>1 DEF Thread, PC, SameCall, SameLoop, NoCall, returned, Event, NoEvent
<1>3. Becomes(t, n)
  BY DEF request_stop_locks, begin_call, Goto, Return, At
<1>4. thread' \in [Threads -> Thread] /\ thread'[t] = n /\ Others(t)
  BY <1>2, <1>3, Becoming DEF Types, Others
<1> HIDE DEF n
<1>5. Types'
  BY <1>1, <1>2, <1>4, RegistryAssumption, Zenon
  DEF Types, request_stop_locks, begin_call, Calls, Return, At, Others, SameCall, NoCall
<1>6. QED
  BY <1>2, <1>4, <1>5 DEF request_stop_locks, At, Calls

\* What listener_emit does to the thread that takes it.
LEMMA listener_emit_effect ==
  ASSUME Types, NEW t \in Threads, listener_emit(t)
  PROVE  /\ Types' /\ Others(t)
         /\ thread[t].pc = "ready" /\ ~thread[t].callback
         /\ thread'[t].pc = "copy"
         /\ SameCall(thread'[t], thread[t])
         /\ SameLoop(thread'[t], thread[t])
         /\ thread'[t].event = thread[t].event
         /\ thread'[t].callback = thread[t].callback
<1> DEFINE r == thread[t]
           n == [r EXCEPT !.pc = "copy"]
<1>1. /\ r \in Thread
      /\ "copy" \in PC
  BY DEF Types, PC
<1>2. /\ n \in Thread
      /\ n.pc = "copy"
      /\ SameCall(n, r)
      /\ SameLoop(n, r)
      /\ n.event = r.event
      /\ n.callback = r.callback
  BY <1>1 DEF Thread, PC, SameCall, SameLoop, NoCall, returned, Event, NoEvent
<1>3. Becomes(t, n)
  BY DEF listener_emit, begin_call, Goto, Return, At
<1>4. thread' \in [Threads -> Thread] /\ thread'[t] = n /\ Others(t)
  BY <1>2, <1>3, Becoming DEF Types, Others
<1> HIDE DEF n
<1>5. Types'
  BY <1>1, <1>2, <1>4, RegistryAssumption
  DEF Types, listener_emit, begin_call, Calls, Return, At, Others, SameCall, NoCall
<1>6. QED
  BY <1>2, <1>4, <1>5 DEF listener_emit, At, Calls

\* What take_event does to the thread that takes it.
LEMMA take_event_effect ==
  ASSUME Types, NEW t \in Threads, NEW k \in DOMAIN events, take_event(t, k), UNCHANGED calls
  PROVE  /\ Types' /\ Others(t)
         /\ thread[t].pc = "ready" /\ ~thread[t].callback
         /\ thread'[t].pc = "copy"
         /\ SameCall(thread'[t], thread[t])
         /\ SameLoop(thread'[t], thread[t])
         /\ thread'[t].event = thread[t].event
         /\ thread'[t].callback = thread[t].callback
<1> DEFINE r == thread[t]
           n == [r EXCEPT !.pc = "copy"]
<1>1. /\ r \in Thread
      /\ "copy" \in PC
  BY DEF Types, PC
<1>2. /\ n \in Thread
      /\ n.pc = "copy"
      /\ SameCall(n, r)
      /\ SameLoop(n, r)
      /\ n.event = r.event
      /\ n.callback = r.callback
  BY <1>1 DEF Thread, PC, SameCall, SameLoop, NoCall, returned, Event, NoEvent
<1>3. Becomes(t, n)
  BY DEF take_event, begin_call, Goto, Return, At
<1>4. thread' \in [Threads -> Thread] /\ thread'[t] = n /\ Others(t)
  BY <1>2, <1>3, Becoming DEF Types, Others
<1> HIDE DEF n
<1>5. Types'
  BY <1>1, <1>2, <1>4, RegistryAssumption, Zenon
  DEF Types, take_event, begin_call, Calls, Return, At, Others, SameCall, NoCall
<1>6. QED
  BY <1>2, <1>4, <1>5 DEF take_event, At, Calls

\* What notify_locks does to the thread that takes it.
LEMMA notify_locks_effect ==
  ASSUME Types, NEW t \in Threads, notify_locks(t), UNCHANGED calls
  PROVE  /\ Types' /\ Others(t)
         /\ thread[t].pc = "lock"
         /\ thread'[t].pc = "notify"
         /\ SameCall(thread'[t], thread[t])
         /\ SameLoop(thread'[t], thread[t])
         /\ thread'[t].event = thread[t].event
         /\ thread'[t].callback = thread[t].callback
<1> DEFINE r == thread[t]
           n == [r EXCEPT !.pc = "notify"]
<1>1. /\ r \in Thread
      /\ "notify" \in PC
  BY DEF Types, PC
<1>2. /\ n \in Thread
      /\ n.pc = "notify"
      /\ SameCall(n, r)
      /\ SameLoop(n, r)
      /\ n.event = r.event
      /\ n.callback = r.callback
  BY <1>1 DEF Thread, PC, SameCall, SameLoop, NoCall, returned, Event, NoEvent
<1>3. Becomes(t, n)
  BY DEF notify_locks, begin_call, Goto, Return, At
<1>4. thread' \in [Threads -> Thread] /\ thread'[t] = n /\ Others(t)
  BY <1>2, <1>3, Becoming DEF Types, Others
<1> HIDE DEF n
<1>5. Types'
  BY <1>1, <1>2, <1>4, RegistryAssumption, Zenon
  DEF Types, notify_locks, begin_call, Calls, Return, At, Others, SameCall, NoCall
<1>6. QED
  BY <1>2, <1>4, <1>5 DEF notify_locks, At, Calls

\* What callback_returns does to the thread that takes it.
LEMMA callback_returns_effect ==
  ASSUME Types, NEW t \in Threads, callback_returns(t), UNCHANGED calls
  PROVE  /\ Types' /\ Others(t)
         /\ thread[t].pc = "ready" /\ thread[t].callback
         /\ thread'[t].pc = "notify" /\ ~thread'[t].callback
         /\ SameCall(thread'[t], thread[t])
         /\ SameLoop(thread'[t], thread[t])
         /\ thread'[t].event = thread[t].event
<1> DEFINE r == thread[t]
           n == [r EXCEPT !.pc = "notify", !.callback = FALSE]
<1>1. /\ r \in Thread
  BY DEF Types
<1>2. /\ n \in Thread
      /\ n.pc = "notify" /\ ~n.callback
      /\ SameCall(n, r)
      /\ SameLoop(n, r)
      /\ n.event = r.event
  BY <1>1, Zenon DEF Thread, PC, SameCall, SameLoop, NoCall, returned, Event, NoEvent
<1>3. Becomes(t, n)
  BY DEF callback_returns, begin_call, Goto, Return, At
<1>4. thread' \in [Threads -> Thread] /\ thread'[t] = n /\ Others(t)
  BY <1>2, <1>3, Becoming DEF Types, Others
<1> HIDE DEF n
<1>5. Types'
  BY <1>1, <1>2, <1>4, RegistryAssumption, Zenon
  DEF Types, callback_returns, begin_call, Calls, Return, At, Others, SameCall, NoCall
<1>6. QED
  BY <1>2, <1>4, <1>5 DEF callback_returns, At, Calls

\* What notify_returns does to the thread that takes it.
LEMMA notify_returns_effect ==
  ASSUME Types, NEW t \in Threads, notify_returns(t), UNCHANGED calls
  PROVE  /\ Types' /\ Others(t)
         /\ thread[t].pc = "notify"
         /\ thread'[t].pc = "ready" /\ thread'[t].event = NoEvent
         /\ NoCall(thread'[t])
         /\ SameLoop(thread'[t], thread[t])
         /\ thread'[t].callback = thread[t].callback
<1> DEFINE r == thread[t]
           n == returned(r)
<1>1. /\ r \in Thread
  BY DEF Types
<1>2. /\ n \in Thread
      /\ n.pc = "ready" /\ n.event = NoEvent
      /\ NoCall(n)
      /\ SameLoop(n, r)
      /\ n.callback = r.callback
  BY <1>1, Zenon DEF Thread, PC, SameCall, SameLoop, NoCall, returned, Event, NoEvent
<1>3. Becomes(t, n)
  BY DEF notify_returns, begin_call, Goto, Return, At
<1>4. thread' \in [Threads -> Thread] /\ thread'[t] = n /\ Others(t)
  BY <1>2, <1>3, Becoming DEF Types, Others
<1> HIDE DEF n
<1>5. Types'
  BY <1>1, <1>2, <1>4, RegistryAssumption
  DEF Types, notify_returns, begin_call, Calls, Return, At, Others, SameCall, NoCall
<1>6. QED
  BY <1>2, <1>4, <1>5 DEF notify_returns, At, Calls

\* What emit does to the thread that takes it.
LEMMA emit_effect ==
  ASSUME Types, NEW t \in Threads, emit(t), UNCHANGED calls
  PROVE  /\ Types' /\ Others(t)
         /\ thread[t].pc = "emit"
         /\ thread'[t].pc = "ready" /\ thread'[t].event = NoEvent
         /\ NoCall(thread'[t])
         /\ SameLoop(thread'[t], thread[t])
         /\ thread'[t].callback = thread[t].callback
<1> DEFINE r == thread[t]
           n == returned(r)
<1>1. /\ r \in Thread
      /\ r.event \in Event
      /\ Append(events, r.event) \in Seq(Event)
      /\ DOMAIN events \subseteq DOMAIN Append(events, r.event)
  BY DEF Types, Thread
<1>2. /\ n \in Thread
      /\ n.pc = "ready" /\ n.event = NoEvent
      /\ NoCall(n)
      /\ SameLoop(n, r)
      /\ n.callback = r.callback
  BY <1>1, Zenon DEF Thread, PC, SameCall, SameLoop, NoCall, returned, Event, NoEvent
<1>3. Becomes(t, n)
  BY DEF emit, begin_call, Goto, Return, At
<1>4. thread' \in [Threads -> Thread] /\ thread'[t] = n /\ Others(t)
  BY <1>2, <1>3, Becoming DEF Types, Others
<1> HIDE DEF n
<1>5. Types'
  BY <1>1, <1>2, <1>4, RegistryAssumption, Zenon
  DEF Types, emit, begin_call, Calls, Return, At, Others, SameCall, NoCall
<1>6. QED
  BY <1>2, <1>4, <1>5 DEF emit, At, Calls

\* What take_over does to the thread that takes it.
LEMMA take_over_effect ==
  ASSUME Types, NEW t \in Threads, take_over(t), UNCHANGED calls
  PROVE  /\ Types' /\ Others(t)
         /\ thread[t].pc = "take"
         /\ thread'[t].pc = "ready" /\ thread'[t].event = NoEvent
         /\ NoCall(thread'[t])
         /\ SameLoop(thread'[t], thread[t])
         /\ thread'[t].callback = thread[t].callback
<1> DEFINE r == thread[t]
           n == returned(r)
<1>1. /\ r \in Thread
      /\ r.source \in Handles \cup {NoOne} /\ r.fresh \in Nat
  BY Zenon DEF Types, Thread
<1>2. /\ n \in Thread
      /\ n.pc = "ready" /\ n.event = NoEvent
      /\ NoCall(n)
      /\ SameLoop(n, r)
      /\ n.callback = r.callback
  BY <1>1, Zenon DEF Thread, PC, SameCall, SameLoop, NoCall, returned, Event, NoEvent
<1>3. Becomes(t, n)
  BY DEF take_over, begin_call, Goto, Return, At
<1>4. thread' \in [Threads -> Thread] /\ thread'[t] = n /\ Others(t)
  BY <1>2, <1>3, Becoming DEF Types, Others
<1> HIDE DEF n
<1>5. Types'
  BY <1>1, <1>2, <1>4, RegistryAssumption, Zenon
  DEF Types, take_over, begin_call, Calls, Return, At, Others, SameCall, NoCall
<1>6. QED
  BY <1>2, <1>4, <1>5 DEF take_over, At, Calls

\* What reset_exchange does to the thread that takes it.
LEMMA reset_exchange_effect ==
  ASSUME Types, NEW t \in Threads, reset_exchange(t), UNCHANGED calls
  PROVE  /\ Types' /\ Others(t)
         /\ thread[t].pc = "exchange"
         /\ thread'[t].pc = "remove" /\ thread'[t].handle = thread[t].handle
         /\ thread'[t].source = thread[t].source /\ thread'[t].fresh = thread[t].fresh /\ thread'[t].old = subscription[thread[t].handle]
         /\ SameLoop(thread'[t], thread[t])
         /\ thread'[t].event = thread[t].event
         /\ thread'[t].callback = thread[t].callback
<1> DEFINE r == thread[t]
           n == [r EXCEPT !.pc = "remove", !.old = subscription[r.handle]]
<1>1. /\ r \in Thread
      /\ "remove" \in PC
      /\ r.handle \in Handles /\ subscription[r.handle] \in Nat
  BY DEF Types, PC, reset_exchange, At
<1>2. /\ n \in Thread
      /\ n.pc = "remove" /\ n.handle = r.handle
      /\ n.source = r.source /\ n.fresh = r.fresh /\ n.old = subscription[r.handle]
      /\ SameLoop(n, r)
      /\ n.event = r.event
      /\ n.callback = r.callback
  BY <1>1, Zenon DEF Thread, PC, SameCall, SameLoop, NoCall, returned, Event, NoEvent
<1>3. Becomes(t, n)
  BY DEF reset_exchange, begin_call, Goto, Return, At
<1>4. thread' \in [Threads -> Thread] /\ thread'[t] = n /\ Others(t)
  BY <1>2, <1>3, Becoming DEF Types, Others
<1> HIDE DEF n
<1>5. Types'
  BY <1>1, <1>2, <1>4, RegistryAssumption, Zenon
  DEF Types, reset_exchange, begin_call, Calls, Return, At, Others, SameCall, NoCall
<1>6. QED
  BY <1>2, <1>4, <1>5 DEF reset_exchange, At, Calls

\* What begin_start does to the thread that takes it.
LEMMA begin_start_effect ==
  ASSUME Types, NEW t \in Threads, begin_start(t)
  PROVE  /\ Types' /\ Others(t)
         /\ thread[t].pc = "ready"
         /\ IF control.state \in {"idle", "stopped"}
            THEN thread'[t].pc = "emit" /\ thread'[t].event = [type |-> "starting", starts |-> control.starts + 1]
            ELSE thread'[t].pc = thread[t].pc /\ thread'[t].event = thread[t].event
         /\ SameCall(thread'[t], thread[t])
         /\ SameLoop(thread'[t], thread[t])
         /\ thread'[t].callback = thread[t].callback
<1> DEFINE r == thread[t]
           fresh_start == control.state \in {"idle", "stopped"}
           n == IF fresh_start
                THEN [r EXCEPT !.pc = "emit", !.started = TRUE,
                               !.event = [type |-> "starting", starts |-> control.starts + 1]]
                ELSE [r EXCEPT !.started = TRUE]
<1>1. /\ r \in Thread
      /\ control.starts + 1 \in Nat
  BY DEF Types
<1>2. /\ n \in Thread
      /\ IF control.state \in {"idle", "stopped"}
            THEN n.pc = "emit" /\ n.event = [type |-> "starting", starts |-> control.starts + 1]
            ELSE n.pc = r.pc /\ n.event = r.event
      /\ SameCall(n, r)
      /\ SameLoop(n, r)
      /\ n.callback = r.callback
  BY <1>1, Zenon DEF Thread, PC, SameCall, SameLoop, NoCall, returned, Event, NoEvent
<1>3. Becomes(t, n)
  BY DEF begin_start, begin_call, Goto, Return, At
<1>4. thread' \in [Threads -> Thread] /\ thread'[t] = n /\ Others(t)
  BY <1>2, <1>3, Becoming DEF Types, Others
<1> HIDE DEF n
<1>f. UNCHANGED <<registry, subscription, events, taken, mutex>> /\ control' \in [state : {"idle", "starting", "running", "stopping", "stopped"}, starts : Nat] /\ calls' \in 0..MaxCalls
  BY <1>1, RegistryAssumption DEF Types, begin_start, begin_call, Calls, Return, At
<1>5. Types'
  BY <1>1, <1>2, <1>4, <1>f, RegistryAssumption, Zenon
  DEF Types, Others, SameCall, NoCall
<1>6. QED
  BY <1>2, <1>4, <1>5 DEF begin_start, At, Calls

\* What finish_wait does to the thread that takes it.
LEMMA finish_wait_effect ==
  ASSUME Types, NEW t \in Threads, finish_wait(t)
  PROVE  /\ Types' /\ Others(t)
         /\ thread[t].pc = "ready"
         /\ IF control.state = "stopped"
            THEN thread'[t].pc = thread[t].pc /\ thread'[t].event = thread[t].event
            ELSE thread'[t].pc = "emit" /\ thread'[t].event = event("stopped")
         /\ SameCall(thread'[t], thread[t])
         /\ SameLoop(thread'[t], thread[t])
         /\ thread'[t].callback = thread[t].callback
<1> DEFINE r == thread[t]
           n == IF control.state = "stopped" THEN r ELSE [r EXCEPT !.pc = "emit", !.event = event("stopped")]
<1>1. /\ r \in Thread
      /\ event("stopped") \in Event
  BY DEF Types, event, Event
<1>2. /\ n \in Thread
      /\ IF control.state = "stopped"
            THEN n.pc = r.pc /\ n.event = r.event
            ELSE n.pc = "emit" /\ n.event = event("stopped")
      /\ SameCall(n, r)
      /\ SameLoop(n, r)
      /\ n.callback = r.callback
  <2>1. CASE control.state = "stopped"
    BY <1>1, <2>1 DEF SameCall, SameLoop
  <2>2. CASE control.state # "stopped"
    <3> DEFINE e == event("stopped")
    <3> HIDE DEF e
    <3>1. n = [r EXCEPT !.pc = "emit", !.event = e] /\ e \in Event
      BY <1>1, <2>2 DEF e
    <3> HIDE DEF r, n
    <3>2. n \in Thread /\ n.pc = "emit" /\ n.event = e
      BY <1>1, <3>1, Zenon DEF Thread, PC
    <3>3. SameCall(n, r) /\ SameLoop(n, r) /\ n.callback = r.callback
      BY <1>1, <3>1 DEF Thread, SameCall, SameLoop
    <3>4. QED
      BY <2>2, <3>2, <3>3 DEF e
  <2>3. QED
    BY <2>1, <2>2
<1>3. Becomes(t, n)
  BY DEF finish_wait, begin_call, Goto, Return, At
<1>4. thread' \in [Threads -> Thread] /\ thread'[t] = n /\ Others(t)
  BY <1>2, <1>3, Becoming DEF Types, Others
<1> HIDE DEF n
<1>f. UNCHANGED <<registry, subscription, events, taken, mutex>> /\ control' \in [state : {"idle", "starting", "running", "stopping", "stopped"}, starts : Nat] /\ calls' \in 0..MaxCalls
  BY <1>1, RegistryAssumption DEF Types, finish_wait, begin_call, Calls, Return, At
<1>5. Types'
  BY <1>1, <1>2, <1>4, <1>f, RegistryAssumption, Zenon
  DEF Types, Others, SameCall, NoCall
<1>6. QED
  BY <1>2, <1>4, <1>5 DEF finish_wait, At, Calls

\* What control_request_stop does to the thread that takes it.
LEMMA control_request_stop_effect ==
  ASSUME Types, NEW t \in Threads, control_request_stop(t), UNCHANGED calls
  PROVE  /\ Types' /\ Others(t)
         /\ thread[t].pc = "stop"
         /\ IF control.state \in {"stopping", "stopped"}
            THEN thread'[t].pc = "ready" /\ thread'[t].event = NoEvent /\ NoCall(thread'[t])
            ELSE thread'[t].pc = "emit" /\ thread'[t].event = event("stopping") /\ SameCall(thread'[t], thread[t])
         /\ SameLoop(thread'[t], thread[t])
         /\ thread'[t].callback = thread[t].callback
<1> DEFINE r == thread[t]
           n == IF control.state \in {"stopping", "stopped"} THEN returned(r)
                ELSE [r EXCEPT !.pc = "emit", !.event = event("stopping")]
<1>1. /\ r \in Thread
      /\ event("stopping") \in Event
  BY DEF Types, event, Event
<1>2. /\ n \in Thread
      /\ IF control.state \in {"stopping", "stopped"}
            THEN n.pc = "ready" /\ n.event = NoEvent /\ NoCall(n)
            ELSE n.pc = "emit" /\ n.event = event("stopping") /\ SameCall(n, r)
      /\ SameLoop(n, r)
      /\ n.callback = r.callback
  BY <1>1, Zenon DEF Thread, PC, SameCall, SameLoop, NoCall, returned, Event, NoEvent
<1>3. Becomes(t, n)
  BY DEF control_request_stop, begin_call, Goto, Return, At
<1>4. thread' \in [Threads -> Thread] /\ thread'[t] = n /\ Others(t)
  BY <1>2, <1>3, Becoming DEF Types, Others
<1> HIDE DEF n
<1>f. UNCHANGED <<registry, subscription, events, taken, calls>> /\ control' \in [state : {"idle", "starting", "running", "stopping", "stopped"}, starts : Nat] /\ mutex' \in [server : Threads \cup {NoOne}, callback : Threads \cup {NoOne}]
  BY <1>1, RegistryAssumption, Zenon DEF Types, control_request_stop, begin_call, Calls, Return, At
<1>5. Types'
  BY <1>1, <1>2, <1>4, <1>f, RegistryAssumption
  DEF Types, Others, SameCall, NoCall
<1>6. QED
  BY <1>2, <1>4, <1>5 DEF control_request_stop, At, Calls

\* What finish_start does to the thread that takes it.
LEMMA finish_start_effect ==
  ASSUME Types, NEW t \in Threads, NEW ec \in {"ok", "failed"}, finish_start(t, ec), UNCHANGED calls
  PROVE  /\ Types' /\ Others(t)
         /\ thread[t].pc = "ready"
         /\ IF control'.state = control.state
            THEN thread'[t].pc = thread[t].pc /\ thread'[t].event = thread[t].event
            ELSE thread'[t].pc = "emit" /\ thread'[t].event = event(control'.state)
         /\ SameCall(thread'[t], thread[t])
         /\ SameLoop(thread'[t], thread[t])
         /\ thread'[t].callback = thread[t].callback
<1> DEFINE r == thread[t]
           done == [r EXCEPT !.started = FALSE]
           n == IF control'.state = control.state THEN done ELSE [done EXCEPT !.pc = "emit", !.event = event(control'.state)]
<1>1. /\ r \in Thread
      /\ control'.state # control.state => control'.state \in {"running", "stopping"}
      /\ control'.state # control.state => event(control'.state) \in Event
  BY DEF Types, event, Event, finish_start
<1>2. /\ n \in Thread
      /\ IF control'.state = control.state
            THEN n.pc = r.pc /\ n.event = r.event
            ELSE n.pc = "emit" /\ n.event = event(control'.state)
      /\ SameCall(n, r)
      /\ SameLoop(n, r)
      /\ n.callback = r.callback
  BY <1>1, Zenon DEF Thread, PC, SameCall, SameLoop, NoCall, returned, Event, NoEvent
<1>3. Becomes(t, n)
  BY DEF finish_start, begin_call, Goto, Return, At
<1>4. thread' \in [Threads -> Thread] /\ thread'[t] = n /\ Others(t)
  BY <1>2, <1>3, Becoming DEF Types, Others
<1> HIDE DEF n
<1>f. UNCHANGED <<registry, subscription, events, taken, mutex>> /\ control' \in [state : {"idle", "starting", "running", "stopping", "stopped"}, starts : Nat] /\ UNCHANGED calls
  BY <1>1, RegistryAssumption DEF Types, finish_start, begin_call, Calls, Return, At
<1>5. Types'
  BY <1>1, <1>2, <1>4, <1>f, RegistryAssumption, Zenon
  DEF Types, Others, SameCall, NoCall
<1>6. QED
  BY <1>2, <1>4, <1>5 DEF finish_start, At, Calls

\* What notify_copies does to the thread that takes it.
LEMMA notify_copies_effect ==
  ASSUME Types, NEW t \in Threads, notify_copies(t), UNCHANGED calls
  PROVE  /\ Types' /\ Others(t)
         /\ thread[t].pc = "copy"
         /\ thread'[t].pc \in {"ready", "lock"}
         /\ thread'[t].observers = registry.values /\ thread'[t].called = {} /\ thread'[t].since = registry.next_id
         /\ SameCall(thread'[t], thread[t])
         /\ thread'[t].event = thread[t].event
         /\ thread'[t].callback = thread[t].callback
<1> DEFINE r == thread[t]
           n == [r EXCEPT !.observers = registry.values, !.called = {}, !.since = registry.next_id,
                           !.pc = IF registry.values = {} THEN "ready" ELSE "lock"]
<1>1. /\ r \in Thread
      /\ registry.values \in SUBSET Nat /\ registry.next_id \in Nat
  BY DEF Types
<1>2. /\ n \in Thread
      /\ n.pc \in {"ready", "lock"}
      /\ n.observers = registry.values /\ n.called = {} /\ n.since = registry.next_id
      /\ SameCall(n, r)
      /\ n.event = r.event
      /\ n.callback = r.callback
  BY <1>1, Zenon DEF Thread, PC, SameCall, SameLoop, NoCall, returned, Event, NoEvent
<1>3. Becomes(t, n)
  BY DEF notify_copies, begin_call, Goto, Return, At
<1>4. thread' \in [Threads -> Thread] /\ thread'[t] = n /\ Others(t)
  BY <1>2, <1>3, Becoming DEF Types, Others
<1> HIDE DEF n
<1>f. UNCHANGED <<registry, subscription, control, events, taken, mutex, calls>>
  BY <1>1, RegistryAssumption DEF Types, notify_copies, begin_call, Calls, Return, At
<1>5. Types'
  BY <1>1, <1>2, <1>4, <1>f, RegistryAssumption, Zenon
  DEF Types, Others, SameCall, NoCall
<1>6. QED
  BY <1>2, <1>4, <1>5 DEF notify_copies, At, Calls

\* What notify_calls does to the thread that takes it.
LEMMA notify_calls_effect ==
  ASSUME Types, NEW t \in Threads, notify_calls(t), UNCHANGED calls
  PROVE  /\ Types' /\ Others(t)
         /\ thread[t].pc = "notify"
         /\ thread'[t].pc = "ready" /\ thread'[t].callback /\ thread'[t].since = thread[t].since
         /\ thread'[t].observers \cup thread'[t].called = thread[t].observers \cup thread[t].called
         /\ SameCall(thread'[t], thread[t])
         /\ thread'[t].event = thread[t].event
<1> DEFINE r == thread[t]
           n(o) == [r EXCEPT !.observers = @ \ {o}, !.called = @ \cup {o},
                             !.pc = "ready", !.callback = TRUE]
<1>1. r \in Thread
  BY DEF Types
<1>2. PICK o \in r.observers : Becomes(t, n(o))
  BY Zenon DEF notify_calls
<1>3. /\ n(o) \in Thread
      /\ n(o).pc = "ready" /\ n(o).callback /\ n(o).since = r.since
      /\ n(o).observers \cup n(o).called = r.observers \cup r.called
      /\ SameCall(n(o), r)
      /\ n(o).event = r.event
  BY <1>1, Zenon DEF Thread, PC, SameCall
<1> HIDE DEF n
<1>4. thread' \in [Threads -> Thread] /\ thread'[t] = n(o) /\ Others(t)
  BY <1>2, <1>3, Becoming DEF Types, Others
<1>5. r.pc = "notify" /\ UNCHANGED <<registry, subscription, control, events, taken, mutex, calls>>
  BY DEF notify_calls, At
<1>6. Types'
  BY <1>3, <1>4, <1>5, Zenon DEF Types, Others
<1>7. QED
  BY <1>3, <1>4, <1>5, <1>6

-----------------------------------------------------------------------------
(* The inductive invariant *)

\* The entries and their owners: a handle, or a call that has the id in hand.
Owners ==
  /\ \A i \in registry.values : i # 0 /\ i <= registry.next_id
  /\ \A i \in registry.values :
       (\E h \in Handles : subscription[h] = i) \/ \E t \in Threads : i \in InHand(t)
  /\ \A h \in Handles : subscription[h] # 0 => subscription[h] \in registry.values
  /\ \A t \in Threads : InHand(t) \subseteq registry.values

\* No id has two owners.
OneOwner ==
  /\ \A h, g \in Handles : subscription[h] = subscription[g] /\ subscription[h] # 0 => h = g
  /\ \A h \in Handles, t \in Threads : subscription[h] \notin InHand(t)
  /\ \A t, u \in Threads : t # u => InHand(t) \cap InHand(u) = {}
  /\ \A t \in Threads : thread[t].fresh # 0 => thread[t].fresh # thread[t].old

\* The calls under way on the handles, which no two of them share.
OnHandle == {"exchange", "remove", "take"}

CallsApart ==
  /\ \A t \in Threads : thread[t].pc \notin OnHandle => NoCall(thread[t])
  /\ \A t \in Threads : thread[t].pc \in OnHandle =>
       /\ thread[t].source # thread[t].handle
       /\ thread[t].source # NoOne => thread[t].fresh = 0
  /\ \A t \in Threads :
       thread[t].pc \in {"remove", "take"} => subscription[thread[t].handle] = 0
  /\ \A t \in Threads : thread[t].pc \in {"exchange", "take"} => thread[t].old = 0
  /\ \A t, u \in Threads : t # u /\ thread[t].handle # NoOne =>
       thread[t].handle \notin {thread[u].handle, thread[u].source}
  /\ \A t, u \in Threads : t # u /\ thread[t].source # NoOne =>
       thread[t].source # thread[u].source

\* A notification has called, or has still to call, every entry that was there
\* when it copied them.
Delivering ==
  \A t \in Threads :
    /\ thread[t].since <= registry.next_id
    /\ \A o \in registry.values :
         o <= thread[t].since => o \in thread[t].called \cup thread[t].observers

\* Who is in the section a mutex protects holds it.
Locked ==
  \A t \in Threads :
    /\ thread[t].pc = "stop" => mutex.server = t
    /\ thread[t].pc = "notify" \/ thread[t].callback => mutex.callback = t
    /\ thread[t].pc \in {"copy", "lock", "notify"} => ~thread[t].callback

\* How far the server has come since a start.
Rank(state) ==
  CASE state = "starting" -> 1 [] state = "running" -> 2 [] state = "stopping" -> 3
    [] state = "stopped" -> 4 [] OTHER -> 0

\* An event announces a transition that was made.
Past(e, c) ==
  \/ e.starts < c.starts
  \/ e.starts = c.starts /\ Rank(e.type) <= Rank(c.state)

\* Every event, posted or still to be posted, is of a transition of its own.
Announcing ==
  /\ \A i \in DOMAIN events : Past(events[i], control)
  /\ \A t \in Threads : thread[t].pc = "emit" => Past(thread[t].event, control)
  /\ \A i, k \in DOMAIN events : events[i] = events[k] => i = k
  /\ \A t \in Threads, i \in DOMAIN events :
       thread[t].pc = "emit" => thread[t].event # events[i]
  /\ \A t, u \in Threads :
       t # u /\ thread[t].pc = "emit" /\ thread[u].pc = "emit"
         => thread[t].event # thread[u].event

IInv == Owners /\ OneOwner /\ CallsApart /\ Delivering /\ Locked /\ Announcing

\* Everything about entries and handles.
Ownership == Owners /\ OneOwner /\ CallsApart

-----------------------------------------------------------------------------
(* Entries and handles *)

\* The actions that are not about a subscription.
Elsewhere(t) ==
  \/ request_stop(t) \/ begin_start(t) \/ finish_wait(t) \/ listener_emit(t)
  \/ /\ UNCHANGED calls
     /\ \/ request_stop_locks(t) \/ control_request_stop(t) \/ emit(t)
        \/ \E ec \in {"ok", "failed"} : finish_start(t, ec)
        \/ notify_copies(t) \/ notify_locks(t) \/ notify_calls(t)
        \/ callback_returns(t) \/ notify_returns(t)
        \/ \E k \in DOMAIN events : take_event(t, k)

\* They leave the registry, the handles and the calls on them alone.
LEMMA ElsewhereEffect ==
  ASSUME Types, NEW t \in Threads, Elsewhere(t)
  PROVE  /\ Types' /\ Others(t)
         /\ UNCHANGED <<registry, subscription>>
         /\ thread[t].pc \notin OnHandle /\ thread'[t].pc \notin OnHandle
         /\ SameCall(thread'[t], thread[t]) \/ NoCall(thread'[t])
<1> USE DEF OnHandle
<1>1. CASE request_stop(t)
  BY <1>1, request_stop_effect DEF request_stop
<1>2. CASE begin_start(t)
  BY <1>2, begin_start_effect, Zenon DEF begin_start
<1>3. CASE finish_wait(t)
  BY <1>3, finish_wait_effect, Zenon DEF finish_wait
<1>4. CASE listener_emit(t)
  BY <1>4, listener_emit_effect DEF listener_emit
<1>5. CASE UNCHANGED calls /\ request_stop_locks(t)
  BY <1>5, request_stop_locks_effect DEF request_stop_locks
<1>6. CASE UNCHANGED calls /\ control_request_stop(t)
  BY <1>6, control_request_stop_effect, Zenon DEF control_request_stop
<1>7. CASE UNCHANGED calls /\ emit(t)
  BY <1>7, emit_effect DEF emit
<1>8. CASE UNCHANGED calls /\ \E ec \in {"ok", "failed"} : finish_start(t, ec)
  BY <1>8, finish_start_effect, Zenon DEF finish_start
<1>9. CASE UNCHANGED calls /\ notify_copies(t)
  BY <1>9, notify_copies_effect, Zenon DEF notify_copies
<1>10. CASE UNCHANGED calls /\ notify_locks(t)
  BY <1>10, notify_locks_effect DEF notify_locks
<1>11. CASE UNCHANGED calls /\ notify_calls(t)
  BY <1>11, notify_calls_effect, Zenon DEF notify_calls
<1>12. CASE UNCHANGED calls /\ callback_returns(t)
  BY <1>12, callback_returns_effect, Zenon DEF callback_returns
<1>13. CASE UNCHANGED calls /\ notify_returns(t)
  BY <1>13, notify_returns_effect DEF notify_returns
<1>14. CASE UNCHANGED calls /\ \E k \in DOMAIN events : take_event(t, k)
  BY <1>14, take_event_effect DEF take_event
<1>15. QED
  BY <1>1, <1>2, <1>3, <1>4, <1>5, <1>6, <1>7, <1>8, <1>9, <1>10, <1>11, <1>12, <1>13,
     <1>14 DEF Elsewhere

\* They keep the owners.
LEMMA ElsewhereOwnership ==
  ASSUME Types, Ownership, NEW t \in Threads, Elsewhere(t)
  PROVE  Ownership'
<1>1. /\ UNCHANGED <<registry, subscription>> /\ Others(t)
      /\ thread[t].pc \notin OnHandle /\ thread'[t].pc \notin OnHandle
      /\ NoCall(thread[t]) /\ NoCall(thread'[t])
  BY ElsewhereEffect DEF Ownership, CallsApart, SameCall, NoCall
<1>2. \A u \in Threads :
        /\ SameCall(thread'[u], thread[u])
        /\ thread'[u].pc \in OnHandle \/ thread[u].pc \in OnHandle => thread'[u].pc = thread[u].pc
        /\ InHand(u)' = InHand(u)
  BY <1>1 DEF Others, SameCall, NoCall, InHand
<1>3. Owners' /\ OneOwner'
  BY <1>1, <1>2 DEF Ownership, Owners, OneOwner, SameCall
<1>4. CallsApart'
  BY <1>1, <1>2 DEF Ownership, CallsApart, SameCall, NoCall, OnHandle
<1>5. QED
  BY <1>3, <1>4 DEF Ownership

\* A new entry is in the hand of the call that made it.
LEMMA observe_ownership ==
  ASSUME Types, Ownership, NEW t \in Threads, NEW h \in Handles, observe(t, h)
  PROVE  Ownership'
<1> DEFINE id == registry.next_id + 1
<1>1. /\ Others(t) /\ Unused(h) /\ UNCHANGED subscription
      /\ registry'.values = registry.values \cup {id} /\ registry'.next_id = id
      /\ thread'[t].pc = "exchange" /\ thread'[t].handle = h /\ thread'[t].source = NoOne
      /\ thread'[t].fresh = id /\ thread'[t].old = 0 /\ NoCall(thread[t])
  <2>1. /\ Others(t) /\ thread[t].pc = "ready"
        /\ thread'[t].pc = "exchange" /\ thread'[t].handle = h
        /\ thread'[t].source = thread[t].source /\ thread'[t].fresh = id
        /\ thread'[t].old = thread[t].old
    BY observe_effect
  <2>2. NoCall(thread[t])
    BY <2>1 DEF Ownership, CallsApart, OnHandle
  <2>3. /\ Unused(h) /\ UNCHANGED subscription
        /\ registry'.values = registry.values \cup {id} /\ registry'.next_id = id
    BY DEF observe
  <2>4. QED
    BY <2>1, <2>2, <2>3 DEF NoCall
<1>2. /\ registry.next_id \in Nat /\ registry.values \subseteq Nat
      /\ subscription \in [Handles -> Nat]
      /\ NoOne \notin Handles
  BY RegistryAssumption DEF Types
<1>3. InHand(t) = {} /\ InHand(t)' = {id} /\ \A u \in Threads \ {t} : InHand(u)' = InHand(u)
  BY <1>1, <1>2 DEF InHand, NoCall, Others
<1>4. id \notin registry.values /\ id # 0
  BY <1>2 DEF Ownership, Owners
<1>5. Owners'
  BY <1>1, <1>2, <1>3, <1>4 DEF Ownership, Owners
<1>6. OneOwner'
  BY <1>1, <1>2, <1>3, <1>4 DEF Ownership, Owners, OneOwner, Others
<1>7. CallsApart'
  BY <1>1, <1>2 DEF Ownership, CallsApart, Others, OnHandle, Unused, NoCall
<1>8. QED
  BY <1>5, <1>6, <1>7 DEF Ownership

\* A call that only names its handles changes no owner.
LEMMA assign_ownership ==
  ASSUME Types, Ownership, NEW t \in Threads, NEW h \in Handles, NEW g \in Handles \cup {NoOne},
         h # g, Unused(h), g = NoOne \/ Unused(g), Others(t), UNCHANGED <<registry, subscription>>,
         thread[t].pc = "ready", thread'[t].pc = "exchange", thread'[t].handle = h,
         thread'[t].source = g, thread'[t].fresh = thread[t].fresh,
         thread'[t].old = thread[t].old
  PROVE  Ownership'
<1>1. NoCall(thread[t])
  BY DEF Ownership, CallsApart, OnHandle
<1>2. \A u \in Threads : InHand(u)' = InHand(u)
  BY DEF InHand, Others
<1>3. Owners' /\ OneOwner'
  BY <1>2 DEF Ownership, Owners, OneOwner, Others
<1>4. CallsApart'
  BY <1>1, RegistryAssumption DEF Ownership, CallsApart, Others, OnHandle, Unused, NoCall
<1>5. QED
  BY <1>3, <1>4 DEF Ownership

\* The id goes from the handle to the hand of the call that resets it.
LEMMA exchange_ownership ==
  ASSUME Types, Ownership, NEW t \in Threads, reset_exchange(t), UNCHANGED calls
  PROVE  Ownership'
<1> DEFINE h == thread[t].handle
<1>1. /\ Others(t) /\ UNCHANGED registry /\ thread[t].pc = "exchange"
      /\ subscription' = [subscription EXCEPT ![h] = 0]
      /\ thread'[t].pc = "remove" /\ thread'[t].handle = h
      /\ thread'[t].source = thread[t].source /\ thread'[t].fresh = thread[t].fresh
      /\ thread'[t].old = subscription[h] /\ thread[t].old = 0
  BY reset_exchange_effect, Zenon DEF Ownership, CallsApart, OnHandle, reset_exchange
<1>2. h \in Handles /\ subscription \in [Handles -> Nat] /\ h # NoOne
  BY <1>1, RegistryAssumption DEF Types
<1>3. subscription'[h] = 0 /\ \A g \in Handles \ {h} : subscription'[g] = subscription[g]
  BY <1>1, <1>2
<1>4. /\ \A u \in Threads \ {t} : InHand(u)' = InHand(u)
      /\ InHand(t)' = InHand(t) \cup ({subscription[h]} \ {0})
  BY <1>1 DEF InHand, Others
<1> HIDE DEF h
<1>5. Owners'
  BY <1>1, <1>2, <1>3, <1>4 DEF Ownership, Owners
<1>6. OneOwner'
  <2>1. \A g \in Handles \ {h} : subscription[g] # subscription[h] \/ subscription[g] = 0
    BY <1>2 DEF Ownership, OneOwner
  <2>2. subscription[h] \notin InHand(t) /\ \A u \in Threads : subscription[h] \notin InHand(u)
    BY <1>2 DEF Ownership, OneOwner
  <2>3. \A u \in Threads : 0 \notin InHand(u)
    BY DEF InHand
  <2>4. thread[t].fresh # 0 => thread[t].fresh # subscription[h]
    BY <2>2 DEF InHand
  <2>5. QED
    BY <1>1, <1>2, <1>3, <1>4, <2>1, <2>2, <2>3, <2>4 DEF Ownership, OneOwner, Others
<1>7. CallsApart'
  BY <1>1, <1>2, <1>3 DEF Ownership, CallsApart, Others, OnHandle, NoCall, h
<1>8. QED
  BY <1>5, <1>6, <1>7 DEF Ownership

\* The entry in hand is removed, and no other.
LEMMA remove_ownership ==
  ASSUME Types, Ownership, NEW t \in Threads, remove(t), UNCHANGED calls
  PROVE  Ownership'
<1> DEFINE old == thread[t].old
<1>1. /\ Others(t) /\ UNCHANGED subscription /\ thread[t].pc = "remove"
      /\ thread'[t].pc = "take" /\ thread'[t].handle = thread[t].handle
      /\ thread'[t].source = thread[t].source /\ thread'[t].fresh = thread[t].fresh
      /\ thread'[t].old = 0
  BY remove_effect, Zenon DEF remove
<1>2. /\ registry'.values = registry.values \ {old} /\ registry'.next_id = registry.next_id
      /\ registry.values \subseteq Nat
  BY DEF remove, Types
<1>3. /\ \A u \in Threads \ {t} : InHand(u)' = InHand(u)
      /\ InHand(t)' = InHand(t) \ {old}
  BY <1>1 DEF InHand, Others, Ownership, OneOwner
<1>4. old # 0 => old \in InHand(t)
  BY DEF InHand
<1> HIDE DEF old
<1>5. /\ \A h \in Handles : subscription[h] # 0 => subscription[h] # old
      /\ \A u \in Threads \ {t} : old \notin InHand(u) 
  BY <1>4 DEF Ownership, OneOwner, InHand
<1>6. Owners'
  BY <1>1, <1>2, <1>3, <1>5 DEF Ownership, Owners
<1>7. OneOwner'
  BY <1>1, <1>3 DEF Ownership, OneOwner, Others
<1>8. CallsApart'
  BY <1>1 DEF Ownership, CallsApart, Others, OnHandle, NoCall
<1>9. QED
  BY <1>6, <1>7, <1>8 DEF Ownership

\* The id goes from the temporary, or from the other handle, to the handle.
LEMMA take_over_ownership ==
  ASSUME Types, Ownership, NEW t \in Threads, take_over(t), UNCHANGED calls
  PROVE  Ownership'
<1> DEFINE h == thread[t].handle
           g == thread[t].source
           id == IF g = NoOne THEN thread[t].fresh ELSE subscription[g]
<1>1. /\ Others(t) /\ UNCHANGED registry /\ thread[t].pc = "take"
      /\ thread'[t].pc = "ready" /\ NoCall(thread'[t])
  BY take_over_effect, Zenon DEF take_over
<1>2. /\ h \in Handles /\ subscription \in [Handles -> Nat] /\ h # g /\ g \in Handles \cup {NoOne}
      /\ thread[t].fresh \in Nat /\ NoOne \notin Handles
      /\ subscription[h] = 0 /\ thread[t].old = 0 /\ (g # NoOne => thread[t].fresh = 0)
  BY <1>1, RegistryAssumption DEF Types, Thread, Ownership, CallsApart, OnHandle
<1>3. /\ subscription'[h] = id
      /\ g # NoOne => subscription'[g] = 0
      /\ \A k \in Handles \ {h, g} : subscription'[k] = subscription[k]
  BY <1>2 DEF take_over
<1>4. /\ \A u \in Threads \ {t} : InHand(u)' = InHand(u)
      /\ InHand(t)' = {} /\ InHand(t) = {thread[t].fresh} \ {0}
  BY <1>1, <1>2 DEF InHand, Others, NoCall
<1>5. Owners'
  BY <1>1, <1>2, <1>3, <1>4 DEF Ownership, Owners
<1>6. OneOwner'
  <2>1. \A u \in Threads \ {t} : id \notin InHand(u)
    BY <1>2, <1>4 DEF Ownership, OneOwner, InHand
  <2>2. \A k \in Handles \ {h, g} : id # 0 => subscription[k] # id
    BY <1>2, <1>4 DEF Ownership, OneOwner
  <2>3. \A u \in Threads : 0 \notin InHand(u)
    BY DEF InHand
  <2> HIDE DEF id
  <2>4. QED
    BY <1>1, <1>2, <1>3, <1>4, <2>1, <2>2, <2>3 DEF Ownership, OneOwner, Others, NoCall
<1>7. CallsApart'
  <2>1. \A u \in Threads \ {t} :
          thread[u].pc \in OnHandle => /\ thread[u].handle \in Handles \ {h, g}
                                      /\ subscription'[thread[u].handle] = subscription[thread[u].handle]
    BY <1>1, <1>2, <1>3 DEF Ownership, CallsApart, Types, OnHandle
  <2>2. thread'[t].pc \notin OnHandle /\ \A u \in Threads \ {t} : thread'[u] = thread[u]
    BY <1>1 DEF OnHandle, Others
  <2>3. \A u \in Threads : thread[u].pc \in {"remove", "take"} => thread[u].pc \in OnHandle
    BY DEF OnHandle
  <2>4. thread'[t].handle = NoOne /\ thread'[t].source = NoOne
    BY <1>1 DEF NoCall
  <2> HIDE DEF h, g
  <2>5. QED
    BY <1>1, <2>1, <2>2, <2>3, <2>4 DEF Ownership, CallsApart
<1>8. QED
  BY <1>5, <1>6, <1>7 DEF Ownership

\* Every step keeps the types and the owners.
LEMMA OwnershipStep ==
  ASSUME Types, Ownership, NEW t \in Threads, Call(t) \/ Step(t)
  PROVE  Types' /\ Ownership'
<1>1. CASE \E h \in Handles : observe(t, h)
  BY <1>1, observe_effect, observe_ownership
<1>2. CASE \E h \in Handles : reset(t, h)
  <2>1. PICK h \in Handles : reset(t, h)
    BY <1>2
  <2>2. /\ Types' /\ Others(t) /\ UNCHANGED <<registry, subscription>> /\ Unused(h) /\ h # NoOne
        /\ thread[t].pc = "ready" /\ thread'[t].pc = "exchange" /\ thread'[t].handle = h
        /\ thread'[t].source = NoOne /\ thread'[t].fresh = thread[t].fresh
        /\ thread'[t].old = thread[t].old
    <3>1. /\ Types' /\ Others(t) /\ UNCHANGED <<registry, subscription>> /\ Unused(h)
          /\ thread[t].pc = "ready" /\ thread'[t].pc = "exchange" /\ thread'[t].handle = h
          /\ thread'[t].source = thread[t].source /\ thread'[t].fresh = thread[t].fresh
          /\ thread'[t].old = thread[t].old
      BY <2>1, reset_effect, Zenon DEF reset
    <3>2. NoCall(thread[t])
      BY <3>1 DEF Ownership, CallsApart, OnHandle
    <3>3. QED
      BY <3>1, <3>2, RegistryAssumption DEF NoCall
  <2>3. Ownership'
    BY <2>2, assign_ownership
  <2>4. QED
    BY <2>2, <2>3
<1>3. CASE \E h, g \in Handles : assign(t, h, g)
  <2>1. PICK h \in Handles, g \in Handles : assign(t, h, g)
    BY <1>3
  <2>2. /\ Types' /\ Others(t) /\ UNCHANGED <<registry, subscription>>
        /\ Unused(h) /\ Unused(g) /\ h # g
        /\ thread[t].pc = "ready" /\ thread'[t].pc = "exchange" /\ thread'[t].handle = h
        /\ thread'[t].source = g /\ thread'[t].fresh = thread[t].fresh
        /\ thread'[t].old = thread[t].old
    BY <2>1, assign_effect, Zenon DEF assign
  <2>3. Ownership'
    BY <2>2, assign_ownership
  <2>4. QED
    BY <2>2, <2>3
<1>4. CASE UNCHANGED calls /\ reset_exchange(t)
  BY <1>4, reset_exchange_effect, exchange_ownership
<1>5. CASE UNCHANGED calls /\ remove(t)
  BY <1>5, remove_effect, remove_ownership
<1>6. CASE UNCHANGED calls /\ take_over(t)
  BY <1>6, take_over_effect, take_over_ownership
<1>7. CASE Elsewhere(t)
  BY <1>7, ElsewhereEffect, ElsewhereOwnership
<1>8. QED
  BY <1>1, <1>2, <1>3, <1>4, <1>5, <1>6, <1>7, Actions DEF Elsewhere

-----------------------------------------------------------------------------
(* Notifications and mutexes *)

\* What a notification owes survives when it only moves an observer from those to
\* call to those called, or copies the observers anew.
LEMMA DeliveringKept ==
  ASSUME Types, Types', Delivering, NEW t \in Threads, Others(t),
         registry'.next_id >= registry.next_id,
         \A o \in registry'.values : o \in registry.values \/ o > registry.next_id,
         \/ /\ thread'[t].since = thread[t].since
            /\ thread'[t].called \cup thread'[t].observers
                 = thread[t].called \cup thread[t].observers
         \/ /\ thread'[t].since = registry.next_id
            /\ thread'[t].observers = registry.values
  PROVE  Delivering'
<1>1. /\ registry.next_id \in Nat /\ registry'.next_id \in Nat
      /\ registry.values \subseteq Nat /\ registry'.values \subseteq Nat
  BY DEF Types
<1>2. \A u \in Threads : thread[u].since \in Nat
  BY DEF Types, Thread
<1>3. QED
  BY <1>1, <1>2 DEF Delivering, Others

\* Every step keeps what notifications owe.
LEMMA DeliveringStep ==
  ASSUME Types, Types', Ownership, Delivering, NEW t \in Threads, Call(t) \/ Step(t)
  PROVE  Delivering'
<1>1. registry.next_id \in Nat /\ registry.values \subseteq Nat
  BY DEF Types
<1>2. CASE UNCHANGED registry /\ Others(t) /\ SameLoop(thread'[t], thread[t])
  BY <1>1, <1>2, DeliveringKept DEF SameLoop
<1>3. CASE \E h \in Handles : observe(t, h)
  <2>1. /\ Others(t) /\ SameLoop(thread'[t], thread[t])
        /\ registry'.next_id = registry.next_id + 1
        /\ registry'.values = registry.values \cup {registry.next_id + 1}
    <3>1. PICK h \in Handles : observe(t, h)
      BY <1>3
    <3>2. Others(t) /\ SameLoop(thread'[t], thread[t])
      BY <3>1, observe_effect
    <3>3. QED
      BY <3>1, <3>2 DEF observe
  <2>2. QED
    BY <1>1, <2>1, DeliveringKept DEF SameLoop
<1>4. CASE UNCHANGED calls /\ remove(t)
  <2>1. Others(t) /\ SameLoop(thread'[t], thread[t])
    BY <1>4, remove_effect
  <2>2. registry'.next_id = registry.next_id /\ registry'.values \subseteq registry.values
    BY <1>4 DEF remove, Types
  <2>3. QED
    BY <1>1, <2>1, <2>2, DeliveringKept DEF SameLoop
<1>5. CASE UNCHANGED calls /\ notify_copies(t)
  <2>1. /\ Others(t) /\ UNCHANGED registry
        /\ thread'[t].since = registry.next_id /\ thread'[t].observers = registry.values
    BY <1>5, notify_copies_effect, Zenon DEF notify_copies
  <2>2. QED
    BY <1>1, <2>1, DeliveringKept
<1>6. CASE UNCHANGED calls /\ notify_calls(t)
  <2>1. /\ Others(t) /\ UNCHANGED registry /\ thread'[t].since = thread[t].since
        /\ thread'[t].observers \cup thread'[t].called = thread[t].observers \cup thread[t].called
    BY <1>6, notify_calls_effect, Zenon DEF notify_calls
  <2>2. QED
    BY <1>1, <2>1, DeliveringKept
<1>7. CASE \E h \in Handles : reset(t, h)
  BY <1>2, <1>7, reset_effect, Zenon DEF reset
<1>8. CASE \E h, g \in Handles : assign(t, h, g)
  BY <1>2, <1>8, assign_effect, Zenon DEF assign
<1>9. CASE request_stop(t)
  BY <1>2, <1>9, request_stop_effect DEF request_stop
<1>10. CASE begin_start(t)
  BY <1>2, <1>10, begin_start_effect, Zenon DEF begin_start
<1>11. CASE finish_wait(t)
  BY <1>2, <1>11, finish_wait_effect, Zenon DEF finish_wait
<1>12. CASE listener_emit(t)
  BY <1>2, <1>12, listener_emit_effect DEF listener_emit
<1>13. CASE UNCHANGED calls /\ reset_exchange(t)
  BY <1>2, <1>13, reset_exchange_effect, Zenon DEF reset_exchange
<1>14. CASE UNCHANGED calls /\ take_over(t)
  BY <1>2, <1>14, take_over_effect, Zenon DEF take_over
<1>15. CASE UNCHANGED calls /\ request_stop_locks(t)
  BY <1>2, <1>15, request_stop_locks_effect DEF request_stop_locks
<1>16. CASE UNCHANGED calls /\ control_request_stop(t)
  BY <1>2, <1>16, control_request_stop_effect, Zenon DEF control_request_stop
<1>17. CASE UNCHANGED calls /\ emit(t)
  BY <1>2, <1>17, emit_effect DEF emit
<1>18. CASE UNCHANGED calls /\ \E ec \in {"ok", "failed"} : finish_start(t, ec)
  BY <1>2, <1>18, finish_start_effect, Zenon DEF finish_start
<1>19. CASE UNCHANGED calls /\ notify_locks(t)
  BY <1>2, <1>19, notify_locks_effect DEF notify_locks
<1>20. CASE UNCHANGED calls /\ callback_returns(t)
  BY <1>2, <1>20, callback_returns_effect, Zenon DEF callback_returns
<1>21. CASE UNCHANGED calls /\ notify_returns(t)
  BY <1>2, <1>21, notify_returns_effect DEF notify_returns
<1>22. CASE UNCHANGED calls /\ \E k \in DOMAIN events : take_event(t, k)
  BY <1>2, <1>22, take_event_effect DEF take_event
<1>23. QED
  BY <1>3, <1>4, <1>5, <1>6, <1>7, <1>8, <1>9, <1>10, <1>11, <1>12, <1>13, <1>14, <1>15,
     <1>16, <1>17, <1>18, <1>19, <1>20, <1>21, <1>22, Actions

\* A thread gives back only what it holds, takes only what is free, and is in a
\* callback only between notify_calls and callback_returns.
LEMMA LockedStep ==
  ASSUME Types, Types', Locked, NEW t \in Threads, Call(t) \/ Step(t)
  PROVE  Locked'
<1>1. NoOne \notin Threads /\ mutex \in [server : Threads \cup {NoOne}, callback : Threads \cup {NoOne}]
  BY RegistryAssumption DEF Threads, Types
<1> USE DEF Locked, Others
<1>2. CASE /\ UNCHANGED mutex /\ Others(t) /\ thread'[t].pc \notin {"stop", "notify"}
           /\ thread'[t].callback = thread[t].callback
           /\ thread'[t].pc \in {"copy", "lock"} => ~thread[t].callback
  BY <1>2
<1>3. CASE \E h \in Handles : observe(t, h)
  BY <1>2, <1>3, observe_effect, Zenon DEF observe
<1>7. CASE \E h \in Handles : reset(t, h)
  BY <1>2, <1>7, reset_effect, Zenon DEF reset
<1>8. CASE \E h, g \in Handles : assign(t, h, g)
  BY <1>2, <1>8, assign_effect, Zenon DEF assign
<1>9. CASE request_stop(t)
  BY <1>2, <1>9, request_stop_effect DEF request_stop
<1>10. CASE begin_start(t)
  BY <1>2, <1>10, begin_start_effect, Zenon DEF begin_start
<1>11. CASE finish_wait(t)
  BY <1>2, <1>11, finish_wait_effect, Zenon DEF finish_wait
<1>12. CASE listener_emit(t)
  BY <1>2, <1>12, listener_emit_effect DEF listener_emit
<1>13. CASE UNCHANGED calls /\ reset_exchange(t)
  BY <1>2, <1>13, reset_exchange_effect, Zenon DEF reset_exchange
<1>4. CASE UNCHANGED calls /\ remove(t)
  BY <1>2, <1>4, remove_effect, Zenon DEF remove
<1>14. CASE UNCHANGED calls /\ take_over(t)
  <2>1. /\ mutex' = [mutex EXCEPT !.server = IF @ = t THEN NoOne ELSE @]
        /\ thread[t].pc = "take" /\ thread'[t].pc = "ready"
        /\ thread'[t].callback = thread[t].callback /\ Others(t)
    BY <1>14, take_over_effect, Zenon DEF take_over, Return
  <2>2. /\ mutex'.callback = mutex.callback
        /\ \A u \in Threads \ {t} : mutex.server = u => mutex'.server = u
    BY <1>1, <2>1
  <2>3. QED
    BY <2>1, <2>2
<1>15. CASE UNCHANGED calls /\ request_stop_locks(t)
  BY <1>1, <1>15, request_stop_locks_effect DEF request_stop_locks
<1>16. CASE UNCHANGED calls /\ control_request_stop(t)
  <2>1. /\ Others(t) /\ thread'[t].callback = thread[t].callback
        /\ thread'[t].pc \in {"ready", "emit"}
    BY <1>16, control_request_stop_effect
  <2>2. mutex'.callback = mutex.callback /\ (mutex'.server = mutex.server \/ mutex.server = t)
    BY <1>1, <1>16 DEF control_request_stop, Return
  <2>3. QED
    BY <1>1, <2>1, <2>2
<1>17. CASE UNCHANGED calls /\ emit(t)
  BY <1>1, <1>17, emit_effect DEF emit, Return
<1>18. CASE UNCHANGED calls /\ \E ec \in {"ok", "failed"} : finish_start(t, ec)
  BY <1>2, <1>18, finish_start_effect, Zenon DEF finish_start
<1>5. CASE UNCHANGED calls /\ notify_copies(t)
  BY <1>2, <1>5, notify_copies_effect, Zenon DEF notify_copies
<1>19. CASE UNCHANGED calls /\ notify_locks(t)
  BY <1>1, <1>19, notify_locks_effect DEF notify_locks
<1>6. CASE UNCHANGED calls /\ notify_calls(t)
  <2>1. UNCHANGED mutex /\ Others(t) /\ thread[t].pc = "notify" /\ thread'[t].pc = "ready"
    BY <1>6, notify_calls_effect, Zenon DEF notify_calls
  <2>2. QED
    BY <1>1, <2>1
<1>20. CASE UNCHANGED calls /\ callback_returns(t)
  <2>1. /\ UNCHANGED mutex /\ Others(t) /\ thread[t].callback
        /\ thread'[t].pc = "notify" /\ ~thread'[t].callback
    BY <1>20, callback_returns_effect, Zenon DEF callback_returns
  <2>2. QED
    BY <1>1, <2>1
<1>21. CASE UNCHANGED calls /\ notify_returns(t)
  <2>1. /\ thread[t].pc = "notify" /\ thread'[t].pc = "ready"
        /\ thread'[t].callback = thread[t].callback /\ Others(t)
    BY <1>21, notify_returns_effect
  <2>2. ~thread'[t].callback
    BY <2>1
  <2>3. \A u \in Threads \ {t} :
          (mutex.server = u => mutex'.server = u) /\ (mutex.callback = u => mutex'.callback = u)
    BY <1>21 DEF notify_returns
  <2>4. QED
    BY <2>1, <2>2, <2>3
<1>22. CASE UNCHANGED calls /\ \E k \in DOMAIN events : take_event(t, k)
  BY <1>2, <1>22, take_event_effect DEF take_event
<1>23. QED
  BY <1>3, <1>4, <1>5, <1>6, <1>7, <1>8, <1>9, <1>10, <1>11, <1>12, <1>13, <1>14, <1>15,
     <1>16, <1>17, <1>18, <1>19, <1>20, <1>21, <1>22, Actions, Zenon

-----------------------------------------------------------------------------
(* Events *)

\* Nothing is announced and no transition is made.
LEMMA AnnouncingKept ==
  ASSUME Types, Types', Announcing, NEW t \in Threads, Others(t), UNCHANGED events,
         control'.state = control.state, control'.starts = control.starts,
         thread'[t].pc # "emit"
  PROVE  Announcing'
<1>1. \A e : Past(e, control') <=> Past(e, control)
  BY DEF Past
<1>2. \A u \in Threads : thread'[u].pc = "emit" =>
        thread[u].pc = "emit" /\ thread'[u].event = thread[u].event
  BY DEF Others
<1>3. QED
  BY <1>1, <1>2 DEF Announcing

\* A transition goes forward, so that its event is not one of the past.
LEMMA AnnouncingTransition ==
  ASSUME Types, Types', Announcing, NEW t \in Threads, Others(t), UNCHANGED events,
         thread[t].pc # "emit",
         \/ control'.starts = control.starts /\ Rank(control'.state) > Rank(control.state)
         \/ control'.starts = control.starts + 1,
         thread'[t].event = [type |-> control'.state, starts |-> control'.starts]
  PROVE  Announcing'
<1> DEFINE e == thread'[t].event
<1>1. /\ control.starts \in Nat /\ control'.starts \in Nat
      /\ events \in Seq(Event)
      /\ \A u \in Threads : thread[u].event \in Event
  BY DEF Types, Thread
<1>2. \A s : Rank(s) \in Nat
  BY DEF Rank
<1>3. \A d \in Event : Past(d, control) => Past(d, control')
  <2>1. \A d \in Event : d.starts \in Nat
    BY DEF Event
  <2>2. Rank(control.state) \in Nat /\ Rank(control'.state) \in Nat
    BY <1>2
  <2>3. QED
    BY <1>1, <1>2, <2>1, <2>2 DEF Past
<1>4. Past(e, control') /\ ~Past(e, control)
  BY <1>1, <1>2 DEF Past
<1>5. \A i \in DOMAIN events : events[i] \in Event
  BY <1>1
<1> HIDE DEF e
<1>6. /\ \A i \in DOMAIN events : Past(events[i], control') /\ e # events[i]
      /\ \A u \in Threads \ {t} :
           thread[u].pc = "emit" => Past(thread[u].event, control') /\ e # thread[u].event
  BY <1>1, <1>3, <1>4, <1>5 DEF Announcing
<1>7. QED
  BY <1>4, <1>6 DEF Announcing, Others, e

\* The event of a call under way becomes a posted one.
LEMMA emit_announcing ==
  ASSUME Types, Types', Announcing, NEW t \in Threads, emit(t), UNCHANGED calls
  PROVE  Announcing'
<1>1. /\ Others(t) /\ thread[t].pc = "emit" /\ thread'[t].pc = "ready"
      /\ events' = Append(events, thread[t].event) /\ UNCHANGED control
  BY emit_effect DEF emit
<1>2. events \in Seq(Event) /\ thread[t].event \in Event
  BY DEF Types, Thread
<1>3. /\ DOMAIN events' = 1..(Len(events) + 1) /\ DOMAIN events = 1..Len(events)
      /\ Len(events) \in Nat
      /\ events'[Len(events) + 1] = thread[t].event
      /\ \A i \in 1..Len(events) : events'[i] = events[i]
  BY <1>1, <1>2
<1>4. \A e : Past(e, control') <=> Past(e, control)
  BY <1>1 DEF Past
<1>5. \A i \in DOMAIN events' : i \in DOMAIN events \/ i = Len(events) + 1
  BY <1>3
<1>6. \A i \in DOMAIN events' : Past(events'[i], control')
  BY <1>1, <1>3, <1>4, <1>5 DEF Announcing
<1>7. \A i, k \in DOMAIN events' : events'[i] = events'[k] => i = k
  BY <1>1, <1>3, <1>5 DEF Announcing
<1>8. \A u \in Threads : thread'[u].pc = "emit" =>
        /\ u # t /\ thread[u].pc = "emit" /\ thread'[u].event = thread[u].event
        /\ Past(thread[u].event, control')
  BY <1>1, <1>4 DEF Announcing, Others
<1>9. \A u \in Threads, i \in DOMAIN events' :
        thread'[u].pc = "emit" => thread'[u].event # events'[i]
  BY <1>1, <1>3, <1>5, <1>8 DEF Announcing
<1>10. \A u, v \in Threads :
         u # v /\ thread'[u].pc = "emit" /\ thread'[v].pc = "emit"
           => thread'[u].event # thread'[v].event
  BY <1>8 DEF Announcing
<1>11. QED
  BY <1>6, <1>7, <1>8, <1>9, <1>10 DEF Announcing

\* Every step announces what it does, once.
LEMMA AnnouncingStep ==
  ASSUME Types, Types', Announcing, NEW t \in Threads, Call(t) \/ Step(t)
  PROVE  Announcing'
<1>1. /\ control.state \in {"idle", "starting", "running", "stopping", "stopped"}
      /\ control \in [state : {"idle", "starting", "running", "stopping", "stopped"},
                      starts : Nat]
  BY DEF Types
<1>2. CASE UNCHANGED <<control, events>> /\ Others(t) /\ thread'[t].pc # "emit"
  BY <1>2, AnnouncingKept
<1>3. CASE \E h \in Handles : observe(t, h)
  BY <1>2, <1>3, observe_effect, Zenon DEF observe
<1>4. CASE \E h \in Handles : reset(t, h)
  BY <1>2, <1>4, reset_effect, Zenon DEF reset
<1>5. CASE \E h, g \in Handles : assign(t, h, g)
  BY <1>2, <1>5, assign_effect, Zenon DEF assign
<1>6. CASE request_stop(t)
  BY <1>2, <1>6, request_stop_effect DEF request_stop
<1>7. CASE begin_start(t)
  <2>1. CASE control.state \in {"idle", "stopped"}
    <3>1. /\ Others(t) /\ UNCHANGED events /\ thread[t].pc # "emit"
          /\ control' = [state |-> "starting", starts |-> control.starts + 1]
          /\ thread'[t].event = [type |-> "starting", starts |-> control.starts + 1]
      BY <1>7, <2>1, begin_start_effect, Zenon DEF begin_start
    <3>2. QED
      BY <3>1, AnnouncingTransition, Zenon
  <2>2. CASE control.state \notin {"idle", "stopped"}
    BY <1>2, <1>7, <2>2, begin_start_effect DEF begin_start
  <2>3. QED
    BY <2>1, <2>2
<1>8. CASE finish_wait(t)
  <2>1. /\ Others(t) /\ UNCHANGED events /\ thread[t].pc = "ready"
        /\ control'.state = "stopped" /\ control'.starts = control.starts
        /\ control.state = "stopped" => thread'[t].pc # "emit"
        /\ control.state # "stopped" =>
             thread'[t].event = [type |-> "stopped", starts |-> control.starts]
    BY <1>1, <1>8, finish_wait_effect, Zenon DEF finish_wait, event
  <2>2. control.state # "stopped" => Rank("stopped") > Rank(control.state)
    BY <1>1 DEF Rank
  <2>3. QED
    BY <2>1, <2>2, AnnouncingTransition, AnnouncingKept, Zenon
<1>9. CASE listener_emit(t)
  BY <1>2, <1>9, listener_emit_effect DEF listener_emit
<1>10. CASE UNCHANGED calls /\ reset_exchange(t)
  BY <1>2, <1>10, reset_exchange_effect, Zenon DEF reset_exchange
<1>11. CASE UNCHANGED calls /\ remove(t)
  BY <1>2, <1>11, remove_effect, Zenon DEF remove
<1>12. CASE UNCHANGED calls /\ take_over(t)
  BY <1>2, <1>12, take_over_effect, Zenon DEF take_over
<1>13. CASE UNCHANGED calls /\ request_stop_locks(t)
  BY <1>2, <1>13, request_stop_locks_effect DEF request_stop_locks
<1>14. CASE UNCHANGED calls /\ control_request_stop(t)
  <2>1. CASE control.state \in {"stopping", "stopped"}
    BY <1>2, <1>14, <2>1, control_request_stop_effect DEF control_request_stop
  <2>2. CASE control.state \notin {"stopping", "stopped"}
    <3>1. /\ Others(t) /\ UNCHANGED events /\ thread[t].pc # "emit"
          /\ control'.state = "stopping" /\ control'.starts = control.starts
          /\ thread'[t].event = [type |-> "stopping", starts |-> control.starts]
      BY <1>1, <1>14, <2>2, control_request_stop_effect, Zenon DEF control_request_stop, event
    <3>2. Rank("stopping") > Rank(control.state)
      BY <1>1, <2>2 DEF Rank
    <3>3. QED
      BY <3>1, <3>2, AnnouncingTransition
  <2>3. QED
    BY <2>1, <2>2
<1>15. CASE UNCHANGED calls /\ emit(t)
  BY <1>15, emit_announcing
<1>16. CASE UNCHANGED calls /\ \E ec \in {"ok", "failed"} : finish_start(t, ec)
  <2>1. PICK ec \in {"ok", "failed"} : finish_start(t, ec)
    BY <1>16
  <2>2. /\ Others(t) /\ UNCHANGED events /\ thread[t].pc = "ready"
        /\ control'.state = control.state => thread'[t].pc # "emit"
        /\ control'.state # control.state => thread'[t].event = event(control'.state)
    BY <1>16, <2>1, finish_start_effect, Zenon DEF finish_start
  <2>3. /\ control'.starts = control.starts
        /\ control'.state # control.state => Rank(control'.state) > Rank(control.state)
    BY <1>1, <2>1 DEF finish_start, Rank
  <2>4. QED
    BY <2>2, <2>3, AnnouncingTransition, AnnouncingKept DEF event
<1>17. CASE UNCHANGED calls /\ notify_copies(t)
  BY <1>2, <1>17, notify_copies_effect, Zenon DEF notify_copies
<1>18. CASE UNCHANGED calls /\ notify_locks(t)
  BY <1>2, <1>18, notify_locks_effect DEF notify_locks
<1>19. CASE UNCHANGED calls /\ notify_calls(t)
  BY <1>2, <1>19, notify_calls_effect, Zenon DEF notify_calls
<1>20. CASE UNCHANGED calls /\ callback_returns(t)
  BY <1>2, <1>20, callback_returns_effect, Zenon DEF callback_returns
<1>21. CASE UNCHANGED calls /\ notify_returns(t)
  BY <1>2, <1>21, notify_returns_effect, Zenon DEF notify_returns
<1>22. CASE UNCHANGED calls /\ \E k \in DOMAIN events : take_event(t, k)
  BY <1>2, <1>22, take_event_effect DEF take_event
<1>23. QED
  BY <1>3, <1>4, <1>5, <1>6, <1>7, <1>8, <1>9, <1>10, <1>11, <1>12, <1>13, <1>14, <1>15,
     <1>16, <1>17, <1>18, <1>19, <1>20, <1>21, <1>22, Actions

-----------------------------------------------------------------------------
(* Theorems *)

\* The registry, the handles, the notifications and the events keep IInv.
THEOREM Invariance == Spec => [](Types /\ IInv)
<1>1. Init => Types /\ IInv
  <2> SUFFICES ASSUME Init PROVE Types /\ IInv
    OBVIOUS
  <2>1. \A t \in Threads :
          /\ thread[t].pc = "ready" /\ NoCall(thread[t]) /\ ~thread[t].callback
          /\ thread[t].since = 0 /\ InHand(t) = {}
    BY DEF Init, NoCall, InHand
  <2>2. thread \in [Threads -> Thread]
    BY DEF Init, Thread, PC, Event, NoEvent
  <2>3. Types
    <3>1. events \in Seq(Event) /\ taken \subseteq DOMAIN events /\ calls \in 0..MaxCalls
      BY RegistryAssumption DEF Init
    <3>2. /\ registry \in [next_id : Nat, values : SUBSET Nat]
          /\ control \in [state : {"idle", "starting", "running", "stopping", "stopped"},
                          starts : Nat]
          /\ mutex \in [server : Threads \cup {NoOne}, callback : Threads \cup {NoOne}]
      BY DEF Init
    <3>3. subscription \in [Handles -> Nat]
      BY DEF Init
    <3>4. QED
      BY <2>1, <2>2, <3>1, <3>2, <3>3 DEF Types
  <2>4. Ownership
    BY <2>1, RegistryAssumption DEF Init, Ownership, Owners, OneOwner, CallsApart, OnHandle, NoCall
  <2>5. Delivering /\ Locked /\ Announcing
    <3>1. Delivering /\ Locked
      BY <2>1 DEF Init, Delivering, Locked
    <3>2. DOMAIN events = {} /\ \A t \in Threads : thread[t].pc # "emit"
      BY <2>1 DEF Init
    <3>3. Announcing
      BY <3>2 DEF Announcing
    <3>4. QED
      BY <3>1, <3>3
  <2>6. QED
    BY <2>3, <2>4, <2>5 DEF IInv, Ownership
<1>2. Types /\ IInv /\ [Next]_vars => (Types /\ IInv)'
  <2> SUFFICES ASSUME Types, IInv, [Next]_vars PROVE (Types /\ IInv)'
    OBVIOUS
  <2>1. CASE Next
    <3>1. PICK t \in Threads : Call(t) \/ Step(t)
      BY <2>1 DEF Next
    <3>2. Types' /\ Ownership'
      BY <3>1, OwnershipStep DEF IInv, Ownership
    <3>3. Delivering' /\ Locked' /\ Announcing'
      BY <3>1, <3>2, DeliveringStep, LockedStep, AnnouncingStep DEF IInv, Ownership
    <3>4. QED
      BY <3>2, <3>3 DEF IInv, Ownership
  <2>2. CASE UNCHANGED vars
    <3>1. Types'
      BY <2>2 DEF vars, Types
    <3>2. Owners' /\ OneOwner' /\ CallsApart'
      BY <2>2, Zenon DEF vars, IInv, Owners, OneOwner, CallsApart, InHand
    <3>3. Delivering' /\ Locked' /\ Announcing'
      BY <2>2, Zenon DEF vars, IInv, Delivering, Locked, Announcing
    <3>4. QED
      BY <3>1, <3>2, <3>3 DEF IInv
  <2>3. QED
    BY <2>1, <2>2
<1>3. QED
  BY <1>1, <1>2, PTL DEF Spec

\* TypeOK: the types, and that a mutex is held inside the section it protects.
THEOREM TypeCorrect == Spec => []TypeOK
<1>1. Types /\ IInv => TypeOK
  BY DEF Types, IInv, Locked, TypeOK, At
<1>2. QED
  BY <1>1, Invariance, PTL

\* EntriesOwned: no registration without its one handle, no handle without its
\* registration, whatever is observed, moved, assigned and reset meanwhile.
THEOREM Owned == Spec => []EntriesOwned
<1>1. Types /\ IInv => EntriesOwned
  <2> SUFFICES ASSUME Types, IInv PROVE EntriesOwned
    OBVIOUS
  <2>1. \A t \in Threads : 0 \notin InHand(t)
    BY DEF InHand
  <2>2. registry.values =
          ({subscription[h] : h \in Handles} \ {0}) \cup UNION {InHand(t) : t \in Threads}
    BY <2>1 DEF IInv, Owners
  <2>3. QED
    BY <2>2 DEF EntriesOwned, IInv, OneOwner
<1>2. QED
  BY <1>1, Invariance, PTL

\* CallbacksSerialized: however many strands and workers notify.
THEOREM Serialized == Spec => []CallbacksSerialized
<1>1. Types /\ IInv => CallbacksSerialized
  BY DEF IInv, Locked, CallbacksSerialized
<1>2. QED
  BY <1>1, Invariance, PTL

\* NotificationComplete: nobody registered throughout a notification is left out.
THEOREM Complete == Spec => []NotificationComplete
<1>1. Types /\ IInv => NotificationComplete
  BY DEF IInv, Delivering, NotificationComplete
<1>2. QED
  BY <1>1, Invariance, PTL

\* AnnouncedOnce: one event per transition, however many threads stop and start.
THEOREM Announced == Spec => []AnnouncedOnce
<1>1. Types /\ IInv => AnnouncedOnce
  BY DEF IInv, Announcing, AnnouncedOnce
<1>2. QED
  BY <1>1, Invariance, PTL

=============================================================================
