------------------------ MODULE SocketListenerProofs ------------------------
(***************************************************************************)
(* Proofs about SocketListener, for any number of calls and generations.   *)
(*                                                                         *)
(* Every step is put into one of a few classes by what it does to the      *)
(* members that tell how a generation goes (Steps); the invariants and the *)
(* refinement follow from the classes.                                     *)
(***************************************************************************)
EXTENDS SocketListener, QueueTheorems, FiniteSetTheorems

\* The provers that try a leaf in turn, unless it names one.
USE SMTT(20), SMTT(30), ZenonT(30)

\* The types without the bounds on generations and sessions.
Members ==
  [ state : State, generation : Nat, terminal_error : Error, stop_reason : StopReason,
    last_error : Error, sessions : Seq(Session), m_session : Nat, waiters : SUBSET Waits,
    shutdown_timer : BOOLEAN, due : Nat, completions : [Operation -> Seq(Error)] ]

Task ==
  [op : {"start"}, id : Starts]
    \cup [op : {"wait", "cancel_wait"}, id : Waits]
    \cup [op : {"stop", "shutdown"}]
    \cup [op : {"session_finished"}, id : Nat, ec : SessionResult]

Types == listener \in Members /\ strand \in Seq(Task)

\* How a generation ends: only a request stops it gradually.
Cause ==
  /\ listener.state # "stopped" => listener.terminal_error = "ok"
  /\ listener.state = "stopping" => listener.stop_reason = "requested"
  /\ SessionWhileOpen
  /\ StopReasonAgrees

-----------------------------------------------------------------------------
(* What a step does to the generation *)

\* The rest of a listener may change, the diagnostics only to an error, and the
\* session goes only where nobody counts on it.
Kept(l, m) ==
  /\ m.state = l.state /\ m.terminal_error = l.terminal_error
  /\ m.stop_reason = l.stop_reason /\ m.waiters = l.waiters
  /\ m.last_error = l.last_error \/ m.last_error # "ok"
  /\ \/ m.m_session = l.m_session
     \/ l.state \notin {"running", "stopping"} /\ m.m_session = 0

StartBegins(l, m) ==
  /\ l.state \in {"idle", "stopped"} /\ m.state \in {"starting", "running"}
  /\ m.terminal_error = "ok" /\ m.waiters = l.waiters
  /\ m.m_session # 0 <=> m.state = "running"

StartFailed(l, m) ==
  /\ l.state \in {"idle", "stopped"} /\ m.state = "stopped" /\ m.waiters = {}
  /\ m.m_session = 0 /\ m.terminal_error = "failed" /\ m.stop_reason = "startup_failure" /\ m.last_error # "ok"

Waiting(l, m) ==
  /\ Kept([l EXCEPT !.waiters = m.waiters], m)
  /\ \E w \in Waits :
       \/ l.state # "stopped" /\ m.waiters = l.waiters \cup {w}
       \/ w \in l.waiters /\ m.waiters = l.waiters \ {w}

StopBegins(l, m) ==
  /\ l.state \in {"starting", "running"} /\ m.state = "stopping" /\ m.m_session # 0
  /\ m.terminal_error = "ok" /\ m.stop_reason = "requested" /\ m.waiters = l.waiters

StopEnds(l, m) ==
  /\ l.state # "stopped" /\ m.state = "stopped" /\ m.waiters = {} /\ m.m_session = 0
  /\ m.terminal_error = "ok" /\ m.stop_reason = "requested"

SessionEnds(l, m) ==
  /\ l.state = "running" /\ m.state = "stopped" /\ m.waiters = {} /\ m.m_session = 0
  /\ m.stop_reason = IF m.terminal_error = "ok" THEN "completed" ELSE "runtime_failure"
  /\ m.terminal_error # "ok" => m.last_error # "ok"

Steps(l, m) ==
  \/ Kept(l, m) \/ StartBegins(l, m) \/ StartFailed(l, m) \/ Waiting(l, m)
  \/ StopBegins(l, m) \/ StopEnds(l, m) \/ SessionEnds(l, m)

-----------------------------------------------------------------------------
(* The member functions *)

\* The literals of the handlers are errors and reasons.
LEMMA Literals ==
  /\ {"ok", "aborted", "failed", "timed_out"} \subseteq Error /\ SessionResult \subseteq Error
  /\ {"requested", "completed", "startup_failure", "runtime_failure"} \subseteq StopReason
  /\ Starts \subseteq Operation /\ Waits \subseteq Operation
BY DEF Error, SessionResult, StopReason, Operation

\* complete_on touches nothing but the completions.
LEMMA complete_on_keeps ==
  ASSUME NEW l \in Members, NEW i \in Operation, NEW ec \in Error
  PROVE  LET m == complete_on(l, i, ec)
         IN  /\ m \in Members /\ Kept(l, m)
             /\ m.last_error = l.last_error /\ m.m_session = l.m_session
<1> DEFINE f == [l.completions EXCEPT ![i] = Append(@, ec)]
<1>1. l.completions \in [Operation -> Seq(Error)]
  BY DEF Members
<1>2. f \in [Operation -> Seq(Error)]
  BY <1>1
<1>3. complete_on(l, i, ec) = [l EXCEPT !.completions = f]
  BY DEF complete_on
<1> HIDE DEF f
<1>4. QED
  BY <1>2, <1>3, Zenon DEF Members, Kept

\* record_diagnostic touches nothing but the diagnostics.
LEMMA record_diagnostic_keeps ==
  ASSUME NEW l \in Members, NEW ec \in Error, ec # "ok"
  PROVE  LET m == record_diagnostic(l, ec)
         IN  m \in Members /\ Kept(l, m) /\ m.last_error = ec /\ m.m_session = l.m_session
BY Zenon DEF record_diagnostic, Members, Kept

\* Posting to the session touches nothing but its queue.
LEMMA post_to_session_keeps ==
  ASSUME NEW l \in Members, NEW h \in {"start", "request_stop", "force_close"}
  PROVE  LET m == post_to_session(l, h)
         IN  /\ m \in Members /\ Kept(l, m)
             /\ m.last_error = l.last_error /\ m.m_session = l.m_session
<1> DEFINE q == [l.sessions EXCEPT ![l.m_session].queue = Append(@, h)]
<1>1. l.sessions \in Seq(Session)
  BY DEF Members
<1>2. q \in Seq(Session)
  <2> DEFINE s == l.sessions
             k == l.m_session
  <2>1. Len(s) \in Nat /\ s \in [1..Len(s) -> Session]
    BY <1>1
  <2>2. ASSUME k \in 1..Len(s)
        PROVE  [s[k] EXCEPT !.queue = Append(@, h)] \in Session
    <3>1. s[k] \in Session
      BY <2>1, <2>2
    <3> HIDE DEF s, k
    <3>2. Append(s[k].queue, h) \in Seq({"start", "request_stop", "force_close"})
      BY <3>1 DEF Session
    <3>3. QED
      BY <3>1, <3>2 DEF Session
  <2>3. q = [s EXCEPT ![k] = [s[k] EXCEPT !.queue = Append(@, h)]]
    OBVIOUS
  <2> HIDE DEF q, s, k
  <2>4. q \in [1..Len(s) -> Session]
    BY <2>1, <2>2, <2>3, Zenon
  <2>5. QED
    BY <2>1, <2>4
<1>3. post_to_session(l, h) = IF l.m_session = 0 THEN l ELSE [l EXCEPT !.sessions = q]
  BY DEF post_to_session
<1> HIDE DEF q
<1>4. QED
  BY <1>2, <1>3, Zenon DEF Members, Kept

\* finish ends the generation as it is told.
LEMMA finish_ends ==
  ASSUME NEW l \in Members, NEW ec \in Error, NEW reason \in StopReason, l.state # "stopped"
  PROVE  LET m == finish(l, ec, reason)
         IN  /\ m \in Members /\ m.state = "stopped" /\ m.waiters = {}
             /\ m.terminal_error = ec /\ m.stop_reason = reason /\ m.m_session = l.m_session
             /\ m.last_error = IF l.last_error = "ok" THEN ec ELSE l.last_error
<1> DEFINE f == [i \in Operation |->
                   IF i \in l.waiters THEN Append(l.completions[i], ec) ELSE l.completions[i]]
           e == IF l.last_error = "ok" THEN ec ELSE l.last_error
<1>1. f \in [Operation -> Seq(Error)]
  BY DEF Members
<1>2. e \in Error
  BY DEF Members
<1>3. finish(l, ec, reason) =
        [l EXCEPT !.terminal_error = ec, !.stop_reason = reason, !.last_error = e,
                  !.shutdown_timer = FALSE, !.state = "stopped", !.completions = f,
                  !.waiters = {}]
  BY DEF finish
<1> DEFINE m == finish(l, ec, reason)
<1> HIDE DEF e, f, m
<1>4. m \in Members
  BY <1>1, <1>2, <1>3, ZenonT(30) DEF m, Members, State
<1>5. m.state = "stopped" /\ m.waiters = {} /\ m.terminal_error = ec /\ m.stop_reason = reason
  BY <1>3 DEF m, Members
<1>6. m.m_session = l.m_session /\ m.last_error = e
  BY <1>3 DEF m, Members
<1>7. QED
  BY <1>4, <1>5, <1>6 DEF m, e

\* maybe_finish ends a stop that has no session left.
LEMMA maybe_finish_ends ==
  ASSUME NEW l \in Members
  PROVE  LET m == maybe_finish(l)
         IN  /\ m \in Members
             /\ IF l.state = "stopping" /\ l.m_session = 0
                THEN /\ m.state = "stopped" /\ m.waiters = {} /\ m.m_session = 0
                     /\ m.terminal_error = l.terminal_error /\ m.stop_reason = l.stop_reason
                ELSE m = l
<1>1. l.terminal_error \in Error /\ l.stop_reason \in StopReason
  BY DEF Members
<1>2. QED
  BY <1>1, finish_ends DEF maybe_finish

-----------------------------------------------------------------------------
(* The handlers *)

\* What the fields of the handler that runs are, by its kind.
LEMMA RunningTask ==
  ASSUME NEW op, strand \in Seq(Task), Running(op)
  PROVE  /\ Tail(strand) \in Seq(Task)
         /\ op = "start" => Head(strand).id \in Starts
         /\ op \in {"wait", "cancel_wait"} => Head(strand).id \in Waits
         /\ op = "session_finished" => Head(strand).ec \in SessionResult
<1>1. Head(strand) \in Task /\ Head(strand).op = op /\ Tail(strand) \in Seq(Task)
  BY DEF Running
<1>2. QED
  BY <1>1 DEF Task

\* A queued start.
LEMMA StartSteps ==
  ASSUME Types, Cause, start_without_effect \/ start_on_strand
  PROVE  Types' /\ Steps(listener, listener')
<1> DEFINE i == Head(strand).id
<1>0. listener \in Members /\ strand \in Seq(Task)
  BY DEF Types
<1>1. Running("start") /\ strand' = Tail(strand)
  BY DEF start_without_effect, start_on_strand, Return
<1>2. i \in Operation /\ strand' \in Seq(Task)
  BY <1>0, <1>1, RunningTask, Literals
<1>3. CASE start_without_effect
  <2>1. \E ec \in Error : listener' = complete_on(listener, i, ec)
    BY <1>3, Literals DEF start_without_effect
  <2> HIDE DEF i
  <2>2. QED
    BY <1>0, <1>2, <2>1, complete_on_keeps DEF Types, Steps
<1>4. CASE start_on_strand
  <2> DEFINE starting == [listener EXCEPT !.generation = @ + 1, !.terminal_error = "ok",
                                          !.stop_reason = "none", !.last_error = "ok",
                                          !.state = "starting"]
             noted == record_diagnostic(starting, "failed")
             made == [starting EXCEPT !.sessions = Append(@, new_session),
                                      !.m_session = Len(listener.sessions) + 1,
                                      !.state = "running"]
  <2>1. /\ listener.state \in {"idle", "stopped"}
        /\ \/ listener' = starting
           \/ listener' = finish(complete_on(starting, i, "failed"), "failed", "startup_failure")
           \/ listener' = finish(complete_on(noted, i, "failed"), "failed", "startup_failure")
           \/ listener' = complete_on(made, i, "ok")
    BY <1>4 DEF start_on_strand
  <2>2. /\ starting \in Members /\ starting.state = "starting"
        /\ starting.terminal_error = "ok" /\ starting.waiters = listener.waiters
        /\ starting.sessions = listener.sessions /\ starting.m_session = 0
    <3>1. listener.generation + 1 \in Nat
      BY <1>0 DEF Members
    <3>2. listener.m_session = 0
      BY <2>1 DEF Cause, SessionWhileOpen
    <3>3. QED
      BY <1>0, <3>1, <3>2, Literals, Zenon DEF Members, State, StopReason
  <2> HIDE DEF i, starting
  <2>3. noted \in Members /\ noted.state = "starting" /\ noted.m_session = 0
    BY <2>2, record_diagnostic_keeps, Literals DEF Kept
  <2>4. /\ made \in Members /\ made.state = "running" /\ made.terminal_error = "ok"
        /\ made.waiters = listener.waiters /\ made.m_session # 0
    <3>1. new_session \in Session /\ starting.sessions \in Seq(Session)
      BY <2>2 DEF new_session, Session, Members
    <3>2. /\ Append(starting.sessions, new_session) \in Seq(Session)
          /\ Len(listener.sessions) + 1 \in Nat \ {0}
      BY <2>2, <3>1
    <3>3. QED
      BY <2>2, <3>2, Zenon DEF Members, State
  <2> HIDE DEF noted, made
  <2>5. CASE listener' = starting
    BY <1>2, <2>1, <2>2, <2>5 DEF Types, Steps, StartBegins
  <2>6. ASSUME NEW l \in Members, l.state = "starting", l.m_session = 0,
               listener' = finish(complete_on(l, i, "failed"), "failed", "startup_failure")
        PROVE  Types' /\ Steps(listener, listener')
    <3>1. /\ complete_on(l, i, "failed") \in Members
          /\ complete_on(l, i, "failed").state = "starting"
          /\ complete_on(l, i, "failed").m_session = 0
      BY <1>2, <2>6, complete_on_keeps, Literals DEF Kept
    <3>2. /\ listener' \in Members /\ listener'.state = "stopped" /\ listener'.waiters = {}
          /\ listener'.terminal_error = "failed" /\ listener'.stop_reason = "startup_failure"
          /\ listener'.last_error # "ok" /\ listener'.m_session = 0
      BY <2>6, <3>1, finish_ends, Literals
    <3>3. QED
      BY <1>2, <2>1, <3>2 DEF Types, Steps, StartFailed
  <2>7. CASE listener' = complete_on(made, i, "ok")
    <3>1. listener' \in Members /\ Kept(made, listener') /\ listener'.m_session = made.m_session
      BY <1>2, <2>4, <2>7, complete_on_keeps, Literals
    <3>2. QED
      BY <1>2, <2>1, <2>4, <3>1 DEF Types, Steps, StartBegins, Kept
  <2>8. QED
    BY <2>1, <2>2, <2>3, <2>5, <2>6, <2>7
<1>5. QED
  BY <1>3, <1>4

\* A queued wait, and its cancellation.
LEMMA WaitSteps ==
  ASSUME Types, wait_on_strand \/ cancel_wait
  PROVE  Types' /\ Steps(listener, listener')
<1> DEFINE i == Head(strand).id
           without == [listener EXCEPT !.waiters = @ \ {i}]
           with == [listener EXCEPT !.waiters = @ \cup {i}]
<1>0. listener \in Members /\ strand \in Seq(Task) /\ listener.terminal_error \in Error
  BY DEF Types, Members
<1>1. (Running("wait") \/ Running("cancel_wait")) /\ strand' = Tail(strand)
  BY DEF wait_on_strand, cancel_wait, Return
<1>2. i \in Waits /\ i \in Operation /\ strand' \in Seq(Task)
  BY <1>0, <1>1, RunningTask, Literals
<1>3. \/ \E ec \in Error : listener' = complete_on(listener, i, ec)
      \/ listener.state # "stopped" /\ listener' = with
      \/ i \in listener.waiters /\ listener' = complete_on(without, i, "aborted")
      \/ listener' = listener
  BY <1>0, Literals DEF wait_on_strand, cancel_wait
<1>4. /\ with \in Members /\ without \in Members
      /\ Kept([listener EXCEPT !.waiters = with.waiters], with)
      /\ Kept([listener EXCEPT !.waiters = without.waiters], without)
      /\ with.waiters = listener.waiters \cup {i} /\ without.waiters = listener.waiters \ {i}
      /\ without.state = listener.state
  BY <1>0, <1>2, Zenon DEF Members, Kept
<1> HIDE DEF i, with, without
<1>5. CASE \E ec \in Error : listener' = complete_on(listener, i, ec)
  BY <1>0, <1>2, <1>5, complete_on_keeps DEF Types, Steps
<1>6. CASE listener.state # "stopped" /\ listener' = with
  BY <1>2, <1>4, <1>6, Zenon DEF Types, Steps, Waiting
<1>7. CASE i \in listener.waiters /\ listener' = complete_on(without, i, "aborted")
  <2>0. listener' \in Members /\ Kept(without, listener')
    <3>1. without \in Members /\ i \in Operation /\ "aborted" \in Error
      BY <1>2, <1>4, Literals
    <3>2. QED
      BY <1>7, <3>1, complete_on_keeps
  <2>1. listener' \in Members /\ Kept(without, listener') /\ listener'.waiters = without.waiters
    BY <2>0 DEF Kept
  <2>2. Kept([listener EXCEPT !.waiters = listener'.waiters], listener')
    <3> DEFINE r == [listener EXCEPT !.waiters = without.waiters]
    <3>1. Kept(r, without)
      BY <1>4
    <3> HIDE DEF r
    <3>2. Kept(r, listener')
      BY <2>1, <3>1 DEF Kept
    <3>3. QED
      BY <2>1, <3>2 DEF r
  <2>3. QED
    BY <1>2, <1>4, <1>7, <2>1, <2>2 DEF Types, Steps, Waiting
<1>8. CASE listener' = listener
  BY <1>0, <1>2, <1>8 DEF Types, Steps, Kept
<1>9. QED
  BY <1>3, <1>5, <1>6, <1>7, <1>8

\* A queued stop.
LEMMA StopSteps ==
  ASSUME Types, Cause, stop_on_strand
  PROVE  Types' /\ Steps(listener, listener')
<1> DEFINE e == enter_stopping(listener)
           p == post_to_session(e, "request_stop")
           a == arm_shutdown_timer(p)
<1>0. listener \in Members /\ strand \in Seq(Task) /\ Running("stop") /\ strand' = Tail(strand)
  BY DEF Types, stop_on_strand, Return
<1>1. strand' \in Seq(Task)
  BY <1>0, RunningTask
<1>2. /\ e \in Members /\ e.state = "stopping" /\ e.stop_reason = "requested"
      /\ e.terminal_error = listener.terminal_error /\ e.waiters = listener.waiters
      /\ e.m_session = listener.m_session
  BY <1>0, Literals, Zenon DEF enter_stopping, Members, State
<1>3. listener' = CASE listener.state = "idle" -> finish(e, "ok", "requested")
                    [] listener.state \in {"starting", "running"} -> maybe_finish(a)
                    [] OTHER -> listener
  BY DEF stop_on_strand
<1> HIDE DEF e
<1>4. p \in Members /\ Kept(e, p)
  BY <1>2, post_to_session_keeps
<1> HIDE DEF p
<1>5. a \in Members /\ Kept(p, a)
  <2>1. (p.shutdown_timer \/ p.m_session # 0) \in BOOLEAN
    OBVIOUS
  <2>2. QED
    BY <1>4, <2>1, Zenon DEF arm_shutdown_timer, Members, Kept
<1> HIDE DEF a
<1>6. CASE listener.state = "idle"
  <2>1. listener' = finish(e, "ok", "requested")
    BY <1>3, <1>6
  <2>2. e.m_session = 0
    BY <1>2, <1>6 DEF Cause, SessionWhileOpen
  <2>3. /\ listener' \in Members /\ listener'.state = "stopped" /\ listener'.waiters = {}
        /\ listener'.terminal_error = "ok" /\ listener'.stop_reason = "requested"
        /\ listener'.m_session = 0
    BY <1>2, <2>1, <2>2, finish_ends, Literals
  <2>4. QED
    BY <1>1, <1>6, <2>3 DEF Types, Steps, StopEnds
<1>7. CASE listener.state \in {"starting", "running"}
  <2>1. listener' = maybe_finish(a)
    BY <1>3, <1>7
  <2>2. /\ a.state = "stopping" /\ a.stop_reason = "requested" /\ a.waiters = listener.waiters
        /\ a.terminal_error = "ok"
    BY <1>2, <1>4, <1>5, <1>7 DEF Kept, Cause
  <2>3. CASE a.m_session = 0
    <3>1. /\ listener' \in Members /\ listener'.state = "stopped" /\ listener'.waiters = {}
          /\ listener'.terminal_error = "ok" /\ listener'.stop_reason = "requested"
          /\ listener'.m_session = 0
      BY <1>5, <2>1, <2>2, <2>3, maybe_finish_ends
    <3>2. QED
      BY <1>1, <1>7, <3>1 DEF Types, Steps, StopEnds
  <2>4. CASE a.m_session # 0
    <3>1. listener' = a
      BY <1>5, <2>1, <2>4, maybe_finish_ends
    <3>2. QED
      BY <1>1, <1>5, <1>7, <2>2, <2>4, <3>1 DEF Types, Steps, StopBegins
  <2>5. QED
    BY <2>3, <2>4
<1>8. CASE listener.state \notin {"idle", "starting", "running"}
  BY <1>0, <1>1, <1>3, <1>8 DEF Types, Steps, Kept
<1>9. QED
  BY <1>6, <1>7, <1>8

\* The grace timer.
LEMMA TimerSteps ==
  ASSUME Types, shutdown_timer_handler
  PROVE  Types' /\ Steps(listener, listener')
<1> DEFINE d == record_diagnostic(listener, "timed_out")
<1>0. listener \in Members /\ strand' \in Seq(Task)
  BY RunningTask DEF Types, shutdown_timer_handler, Return
<1>1. d \in Members /\ Kept(listener, d)
  BY <1>0, record_diagnostic_keeps, Literals
<1>2. listener' = post_to_session(d, "force_close")
  BY DEF shutdown_timer_handler
<1> HIDE DEF d
<1>3. listener' \in Members /\ Kept(d, listener')
  BY <1>1, <1>2, post_to_session_keeps
<1>4. QED
  BY <1>0, <1>1, <1>3 DEF Types, Steps, Kept

\* The report of a session.
LEMMA SessionFinishedSteps ==
  ASSUME Types, Cause, session_finished
  PROVE  Types' /\ Steps(listener, listener')
<1> DEFINE ec == Head(strand).ec
           reset == [listener EXCEPT !.m_session = 0]
           noted == IF ec \in {"ok", "aborted"} THEN reset ELSE record_diagnostic(reset, ec)
           why == IF ec = "ok" THEN "completed" ELSE "runtime_failure"
<1>0. /\ listener \in Members /\ strand \in Seq(Task)
      /\ Running("session_finished") /\ strand' = Tail(strand)
  BY DEF Types, session_finished, Return
<1>1. ec \in Error /\ strand' \in Seq(Task)
  BY <1>0, RunningTask, Literals
<1>2. /\ reset \in Members /\ reset.state = listener.state
      /\ reset.terminal_error = listener.terminal_error
      /\ reset.stop_reason = listener.stop_reason /\ reset.waiters = listener.waiters
      /\ reset.last_error = listener.last_error /\ reset.m_session = 0
  BY <1>0, Zenon DEF Members
<1>3. listener' = IF listener.state = "running" THEN finish(noted, ec, why) ELSE maybe_finish(noted)
  BY DEF session_finished
<1> HIDE DEF ec, reset
<1>4. /\ noted \in Members /\ noted.state = listener.state
      /\ noted.terminal_error = listener.terminal_error
      /\ noted.stop_reason = listener.stop_reason /\ noted.waiters = listener.waiters
      /\ noted.last_error = listener.last_error \/ noted.last_error # "ok"
      /\ noted.m_session = 0
  <2>1. CASE ec \in {"ok", "aborted"}
    BY <1>2, <2>1
  <2>2. CASE ec \notin {"ok", "aborted"}
    BY <1>1, <1>2, <2>2, record_diagnostic_keeps DEF Kept
  <2>3. QED
    BY <2>1, <2>2
<1>5. why \in StopReason
  BY Literals
<1> HIDE DEF noted
<1>6. CASE listener.state = "running"
  <2>1. /\ listener' \in Members /\ listener'.state = "stopped" /\ listener'.waiters = {}
        /\ listener'.terminal_error = ec /\ listener'.stop_reason = why
        /\ ec # "ok" => listener'.last_error # "ok"
        /\ listener'.m_session = 0
    BY <1>1, <1>3, <1>4, <1>5, <1>6, finish_ends
  <2>2. QED
    BY <1>1, <1>6, <2>1 DEF Types, Steps, SessionEnds
<1>7. CASE listener.state = "stopping"
  <2>1. /\ listener' \in Members /\ listener'.state = "stopped" /\ listener'.waiters = {}
        /\ listener'.terminal_error = "ok" /\ listener'.stop_reason = "requested"
        /\ listener'.m_session = 0
    BY <1>3, <1>4, <1>7, maybe_finish_ends DEF Cause
  <2>2. QED
    BY <1>1, <1>7, <2>1 DEF Types, Steps, StopEnds
<1>8. CASE listener.state \notin {"running", "stopping"}
  <2>1. listener' = noted
    BY <1>3, <1>4, <1>8, maybe_finish_ends
  <2>2. QED
    BY <1>1, <1>4, <1>8, <2>1 DEF Types, Steps, Kept
<1>9. QED
  BY <1>6, <1>7, <1>8

-----------------------------------------------------------------------------
(* The other steps leave the generation as it is *)

\* Calls only queue handlers.
LEMMA ClientSteps ==
  ASSUME Types, Client
  PROVE  Types' /\ Steps(listener, listener')
<1>1. listener' = listener /\ strand \in Seq(Task)
  BY Zenon DEF Client, Types, do_async_start, CancelStart, do_async_wait, CancelWait,
         request_stop, post_stop
<1>2. strand' = strand \/ \E h \in Task : strand' = Append(strand, h)
  <2>1. CASE \E i \in Starts : do_async_start(i) \/ CancelStart(i)
    BY <2>1 DEF do_async_start, CancelStart, Task
  <2>2. CASE \E i \in Waits : do_async_wait(i) \/ CancelWait(i)
    BY <2>2 DEF do_async_wait, CancelWait, Task
  <2>3. CASE \E t \in Stoppers : request_stop(t) \/ post_stop(t)
    BY <2>3 DEF request_stop, post_stop, Task
  <2>4. QED
    BY <2>1, <2>2, <2>3 DEF Client
<1>3. strand' \in Seq(Task)
  BY <1>1, <1>2
<1>4. QED
  BY <1>1, <1>3 DEF Types, Steps, Kept

\* The timer only queues its handler.
LEMMA ExpirySteps ==
  ASSUME Types, shutdown_timer_expires \/ deliver
  PROVE  Types' /\ Steps(listener, listener')
<1>1. listener \in Members /\ strand \in Seq(Task) /\ listener.due \in Nat
  BY DEF Types, Members
<1>2. CASE shutdown_timer_expires
  <2>1. listener.due + 1 \in Nat
    BY <1>1
  <2>2. QED
    BY <1>1, <1>2, <2>1, Zenon DEF shutdown_timer_expires, Types, Members, Steps, Kept
<1>3. CASE deliver
  <2>1. listener.due - 1 \in Nat
    BY <1>1, <1>3 DEF deliver
  <2>2. [op |-> "shutdown"] \in Task
    BY DEF Task
  <2>3. strand' \in Seq(Task)
    BY <1>1, <1>3, <2>2 DEF deliver
  <2>4. QED
    BY <1>1, <1>3, <2>1, <2>3, Zenon DEF deliver, Types, Members, Steps, Kept
<1>4. QED
  BY <1>2, <1>3

\* What a step of a session does.
Report(s, ec) == [op |-> "session_finished", id |-> s, ec |-> ec]

Becomes(s, next) ==
  /\ listener' = [listener EXCEPT !.sessions[s] = next]
  /\ strand' = strand \/ \E ec \in SessionResult : strand' = Append(strand, Report(s, ec))

\* A session touches itself, and reports to the strand.
LEMMA SessionSteps ==
  ASSUME Types, NEW s \in 1..Len(listener.sessions),
         SessionStrand(s) \/ \E ec \in SessionResult : session_completes(s, ec)
  PROVE  Types' /\ Steps(listener, listener')
<1> DEFINE z == listener.sessions[s]
<1>0. /\ listener \in Members /\ strand \in Seq(Task)
      /\ listener.sessions \in Seq(Session) /\ z \in Session /\ s \in Nat
  BY DEF Types, Members
<1>1. popped(s) \in Session \/ z.queue = << >>
  <2>1. CASE z.queue # << >>
    <3>1. Tail(z.queue) \in Seq({"start", "request_stop", "force_close"})
      BY <1>0, <2>1 DEF Session
    <3>2. QED
      BY <1>0, <3>1, Zenon DEF popped, Session
  <2>2. QED
    BY <2>1
<1>2. \E next \in Session : Becomes(s, next)
  <2>1. ASSUME NEW next \in Session, NEW ec \in SessionResult, session_finish(s, next, ec)
        PROVE  \E n \in Session : Becomes(s, n)
    <3> DEFINE n == [next EXCEPT !.finished = TRUE]
    <3>1. n \in Session
      BY Zenon DEF Session
    <3>2. /\ listener' = [listener EXCEPT !.sessions[s] = n]
          /\ strand' = strand \/ strand' = Append(strand, Report(s, ec))
      BY <2>1 DEF session_finish, Report
    <3> HIDE DEF n
    <3>3. Becomes(s, n)
      BY <3>2 DEF Becomes
    <3>4. QED
      BY <3>1, <3>3
  <2>2. CASE SessionStrand(s)
    <3>1. z.queue # << >>
      BY <2>2 DEF SessionStrand, session_start, session_request_stop, session_force_close, session_runs
    <3>2. /\ popped(s) \in Session
          /\ [popped(s) EXCEPT !.session = "running"] \in Session
          /\ [popped(s) EXCEPT !.session = "returned"] \in Session
      BY <1>1, <3>1 DEF Session
    <3>3. "failed" \in SessionResult /\ "aborted" \in SessionResult
      BY DEF SessionResult
    <3>4. CASE session_start(s)
      <4>1. CASE session_finish(s, [popped(s) EXCEPT !.session = "returned"], "failed")
        BY <2>1, <3>2, <3>3, <4>1
      <4>2. CASE /\ listener' = [listener EXCEPT !.sessions[s] =
                                    [popped(s) EXCEPT !.session = "running"]]
                 /\ strand' = strand
        BY <3>2, <4>2, Zenon DEF Becomes
      <4>3. QED
        BY <3>4, <4>1, <4>2 DEF session_start
    <3>5. CASE session_request_stop(s)
      BY <3>2, <3>5, Zenon DEF session_request_stop, Becomes
    <3>6. CASE session_force_close(s)
      BY <2>1, <3>2, <3>3, <3>6 DEF session_force_close
    <3>7. QED
      BY <2>2, <3>4, <3>5, <3>6 DEF SessionStrand
  <2>3. CASE \E ec \in SessionResult : session_completes(s, ec)
    <3>1. [z EXCEPT !.session = "returned"] \in Session
      BY <1>0, Zenon DEF Session
    <3>2. QED
      BY <2>1, <2>3, <3>1 DEF session_completes
  <2>4. QED
    BY <2>2, <2>3
<1>3. PICK next \in Session : Becomes(s, next)
  BY <1>2
<1> DEFINE q == [listener.sessions EXCEPT ![s] = next]
<1>4. q \in Seq(Session)
  BY <1>0
<1>5. listener' = [listener EXCEPT !.sessions = q]
  BY <1>3 DEF Becomes
<1>6. strand' \in Seq(Task)
  <2>1. \A ec \in SessionResult : Report(s, ec) \in Task
    BY <1>0 DEF Task, Report
  <2>2. CASE strand' = strand
    BY <1>0, <2>2
  <2>3. CASE \E ec \in SessionResult : strand' = Append(strand, Report(s, ec))
    BY <1>0, <2>1, <2>3
  <2>4. QED
    BY <1>3, <2>2, <2>3 DEF Becomes
<1> HIDE DEF q
<1>7. QED
  BY <1>0, <1>4, <1>5, <1>6, Zenon DEF Types, Members, Steps, Kept

-----------------------------------------------------------------------------
(* Theorems *)

\* Every step is of one of the classes.
LEMMA EveryStep ==
  ASSUME Types, Cause, [Next]_vars
  PROVE  Types' /\ Steps(listener, listener')
<1>1. CASE UNCHANGED vars
  BY <1>1 DEF vars, Types, Steps, Kept
<1>2. CASE Strand
  BY <1>2, StartSteps, WaitSteps, StopSteps, TimerSteps, SessionFinishedSteps DEF Strand
<1>3. CASE Next /\ ~Strand
  BY <1>3, ClientSteps, ExpirySteps, SessionSteps DEF Next
<1>4. QED
  BY <1>1, <1>2, <1>3

\* The classes keep the cause.
LEMMA CauseKept ==
  ASSUME Types, Cause, Steps(listener, listener')
  PROVE  Cause'
<1> USE DEF Cause, SessionWhileOpen, StopReasonAgrees
<1>1. CASE Kept(listener, listener')
  BY <1>1 DEF Kept
<1>2. CASE StartBegins(listener, listener') \/ StartFailed(listener, listener')
  BY <1>2 DEF StartBegins, StartFailed
<1>3. CASE Waiting(listener, listener')
  <2>1. /\ listener'.state = listener.state /\ listener'.terminal_error = listener.terminal_error
        /\ listener'.stop_reason = listener.stop_reason
        /\ listener'.last_error = listener.last_error \/ listener'.last_error # "ok"
        /\ \/ listener'.m_session = listener.m_session
           \/ listener.state \notin {"running", "stopping"} /\ listener'.m_session = 0
    BY <1>3 DEF Waiting, Kept, Types, Members
  <2>2. QED
    BY <2>1
<1>4. CASE StopBegins(listener, listener') \/ StopEnds(listener, listener')
  BY <1>4 DEF StopBegins, StopEnds
<1>5. CASE SessionEnds(listener, listener')
  BY <1>5 DEF SessionEnds
<1>6. QED
  BY <1>1, <1>2, <1>3, <1>4, <1>5 DEF Steps

\* A new listener.
LEMMA CauseInitially == Init => Types /\ Cause
BY DEF Init, Types, Members, Cause, SessionWhileOpen, StopReasonAgrees, State, Error,
       SessionResult, StopReason

\* The two are invariant.
LEMMA CauseInvariant == Spec => [](Types /\ Cause)
<1>1. Types /\ Cause /\ [Next]_vars => (Types /\ Cause)'
  BY EveryStep, CauseKept
<1>2. QED
  BY CauseInitially, <1>1, PTL DEF Spec

\* maybe_finish is called wherever its condition can become true: no listener is
\* left stopping, or running, without a session that will end it, and none is
\* stopped with a session.
THEOREM SessionKept == Spec => []SessionWhileOpen
<1>1. Types /\ Cause => SessionWhileOpen
  BY DEF Cause
<1>2. QED
  BY <1>1, CauseInvariant, PTL

\* The stop reason, the terminal error and the diagnostics agree, in whatever order
\* stop_on_strand, session_finished and the timer's handler run.
THEOREM ReasonAgrees == Spec => []StopReasonAgrees
<1>1. Types /\ Cause => StopReasonAgrees
  BY DEF Cause
<1>2. QED
  BY <1>1, CauseInvariant, PTL

\* The socket listener implements the lifecycle of a listener.
THEOREM SocketRefinement == Spec => ImplementsLifecycle
<1>1. Init => Lifecycle!Init
  BY DEF Init, Lifecycle!Init
<1>2. Types /\ Cause /\ [Next]_vars => [Lifecycle!Next]_(Lifecycle!lifecycle)
  <2> SUFFICES ASSUME Types, Cause, [Next]_vars
               PROVE  [Lifecycle!Next]_(Lifecycle!lifecycle)
    OBVIOUS
  <2>1. Steps(listener, listener')
    BY EveryStep
  <2> USE DEF Lifecycle!Next, Lifecycle!lifecycle
  <2>2. CASE Kept(listener, listener')
    BY <2>2 DEF Kept
  <2>3. CASE StartBegins(listener, listener')
    BY <2>3 DEF StartBegins, Lifecycle!Start, Lifecycle!StartSucceeds
  <2>4. CASE StartFailed(listener, listener')
    BY <2>4 DEF StartFailed, Lifecycle!StartFails
  <2>5. CASE Waiting(listener, listener')
    <3>1. listener'.state = listener.state /\ listener'.terminal_error = listener.terminal_error
      BY <2>5 DEF Waiting, Kept, Types, Members
    <3>2. QED
      BY <2>5, <3>1 DEF Waiting, Lifecycle!Wait, Lifecycle!CancelWait
  <2>6. CASE StopBegins(listener, listener')
    BY <2>6 DEF StopBegins, Lifecycle!BeginStop
  <2>7. CASE StopEnds(listener, listener')
    <3>1. listener.state \in {"idle", "starting", "running", "stopping"}
      BY <2>7 DEF StopEnds, Types, Members, State
    <3>2. QED
      BY <2>7, <3>1 DEF StopEnds, Cause, Lifecycle!StopAtOnce, Lifecycle!Drained
  <2>8. CASE SessionEnds(listener, listener')
    BY <2>8 DEF SessionEnds, Lifecycle!StopAtOnce
  <2>9. QED
    BY <2>1, <2>2, <2>3, <2>4, <2>5, <2>6, <2>7, <2>8 DEF Steps
<1>3. QED
  BY <1>1, <1>2, CauseInvariant, PTL DEF Spec, ImplementsLifecycle, Lifecycle!Spec

-----------------------------------------------------------------------------
(***************************************************************************)
(* The books of a listener: whose session m_session is, where every call   *)
(* is, and how many generations there can be.                              *)
(***************************************************************************)

\* The handlers of a call, its cancellation, and the reports of a session.
Posted(i)  == {[op |-> "start", id |-> i], [op |-> "wait", id |-> i]}
Recalls(i) == {[op |-> "cancel_wait", id |-> i]}
Reports(s) == {Report(s, ec) : ec \in SessionResult}

\* m_session is the session that has not reported or whose report is queued, and
\* there are no reports of others.
Current(l, q) ==
  /\ l.m_session \in 0..Len(l.sessions)
  /\ \A s \in 1..Len(l.sessions) :
       /\ MeetsOnce(q, Reports(s))
       /\ Meets(q, Reports(s)) => l.sessions[s].finished
       /\ s = l.m_session <=> ~l.sessions[s].finished \/ Meets(q, Reports(s))
  /\ \A s \in Nat \ (1..Len(l.sessions)) : ~Meets(q, Reports(s))

\* A call is in one place: queued, waiting or completed, and then once.
InOnePlace(i, l, q, sub) ==
  /\ MeetsOnce(q, Posted(i)) /\ Len(l.completions[i]) <= 1
  /\ Meets(q, Posted(i)) => i \notin l.waiters /\ l.completions[i] = << >> /\ i \in sub
  /\ i \in l.waiters => l.completions[i] = << >> /\ i \in sub
  /\ l.completions[i] # << >> => i \in sub

Ledger(l, q, sub) == \A i \in Operation : InOnePlace(i, l, q, sub)

\* A cancellation on the strand was asked for.
Asked(q, X) == \A i \in Waits : Meets(q, Recalls(i)) => i \in X

\* A generation needs a start that has run, and a session a generation.
Ran(q, sub) == {i \in Starts : i \in sub /\ ~Meets(q, Posted(i))}

Bounded(l, q, sub) ==
  Len(l.sessions) <= l.generation /\ l.generation <= Cardinality(Ran(q, sub))

Calls ==
  /\ submitted \subseteq Operation /\ cancelled \subseteq Operation
  /\ stopper \in [Stoppers -> {"new", "checked", "returned"}]

LInv ==
  /\ Current(listener, strand) /\ Bounded(listener, strand, submitted)
  /\ Ledger(listener, strand, submitted) /\ Asked(strand, cancelled) /\ Calls

\* What the member functions leave alone, and how finish releases the waiters.
Calm(l, m) ==
  /\ m.m_session = l.m_session /\ m.generation = l.generation
  /\ Len(m.sessions) = Len(l.sessions)
  /\ \A s \in 1..Len(l.sessions) : m.sessions[s].finished = l.sessions[s].finished

Silent(l, m) == m.waiters = l.waiters /\ m.completions = l.completions

Releases(l, m) ==
  /\ m.state = "stopped" /\ m.waiters = {}
  /\ m.completions = [i \in Operation |->
                        IF i \in l.waiters THEN Append(l.completions[i], m.terminal_error)
                                           ELSE l.completions[i]]

\* complete_on invokes one handler.
LEMMA complete_on_calm ==
  ASSUME NEW l \in Members, NEW i \in Operation, NEW ec \in Error
  PROVE  LET m == complete_on(l, i, ec)
         IN  /\ Calm(l, m) /\ m.waiters = l.waiters /\ m.state = l.state
             /\ m.terminal_error = l.terminal_error
             /\ m.completions = [l.completions EXCEPT ![i] = Append(l.completions[i], ec)]
BY DEF complete_on, Members, Calm

\* The functions that change neither sessions nor calls.
LEMMA OthersCalm ==
  ASSUME NEW l \in Members
  PROVE  /\ \A ec : Calm(l, record_diagnostic(l, ec)) /\ Silent(l, record_diagnostic(l, ec))
         /\ Calm(l, enter_stopping(l)) /\ Silent(l, enter_stopping(l))
         /\ Calm(l, arm_shutdown_timer(l)) /\ Silent(l, arm_shutdown_timer(l))
BY DEF Members, record_diagnostic, enter_stopping, arm_shutdown_timer, Calm, Silent

\* Posting to the session changes its queue.
LEMMA post_to_session_calm ==
  ASSUME NEW l \in Members, NEW h
  PROVE  Calm(l, post_to_session(l, h)) /\ Silent(l, post_to_session(l, h))
<1>1. CASE l.m_session = 0
  BY <1>1 DEF post_to_session, Calm, Silent
<1>2. CASE l.m_session # 0
  <2> DEFINE k == l.m_session
             z == l.sessions
             y == [z[k] EXCEPT !.queue = Append(z[k].queue, h)]
             q == [z EXCEPT ![k] = y]
             m == [l EXCEPT !.sessions = q]
  <2>1. m = post_to_session(l, h)
    BY <1>2 DEF post_to_session
  <2>2. /\ m.m_session = l.m_session /\ m.generation = l.generation /\ m.sessions = q
        /\ m.waiters = l.waiters /\ m.completions = l.completions
    BY DEF Members
  <2>3. z \in Seq(Session) /\ Len(z) \in Nat /\ DOMAIN z = 1..Len(z)
    BY DEF Members
  <2>4. \A s \in 1..Len(z) : z[s] \in Session
    BY <2>3
  <2>5. k \in 1..Len(z) => y.finished = z[k].finished
    <3> DEFINE t == z[k]
    <3>1. k \in 1..Len(z) => t \in Session
      BY <2>4
    <3> HIDE DEF t
    <3>2. t \in Session => [t EXCEPT !.queue = Append(t.queue, h)].finished = t.finished
      BY DEF Session
    <3>3. QED
      BY <3>1, <3>2 DEF t
  <2> HIDE DEF y
  <2>6. DOMAIN q = 1..Len(z) /\ Len(q) = Len(z)
    BY <2>3
  <2>7. \A s \in 1..Len(z) : q[s].finished = z[s].finished
    BY <2>3, <2>5
  <2> HIDE DEF q, m
  <2>8. Calm(l, m) /\ Silent(l, m)
    BY <2>2, <2>6, <2>7 DEF Calm, Silent
  <2>9. QED
    BY <2>1, <2>8
<1>3. QED
  BY <1>1, <1>2

\* finish releases the waiters.
LEMMA finish_releases ==
  ASSUME NEW l \in Members, NEW ec, NEW reason, l.state # "stopped"
  PROVE  LET m == finish(l, ec, reason) IN Calm(l, m) /\ Releases(l, m)
BY DEF finish, Members, Calm, Releases

\* maybe_finish does so, or nothing.
LEMMA maybe_finish_releases ==
  ASSUME NEW l \in Members
  PROVE  LET m == maybe_finish(l) IN Calm(l, m) /\ (Silent(l, m) \/ Releases(l, m))
<1>1. CASE l.state = "stopping" /\ l.m_session = 0
  BY <1>1, finish_releases DEF maybe_finish
<1>2. CASE ~(l.state = "stopping" /\ l.m_session = 0)
  <2>1. maybe_finish(l) = l
    BY <1>2 DEF maybe_finish
  <2>2. QED
    BY <2>1 DEF Calm, Silent
<1>3. QED
  BY <1>1, <1>2

-----------------------------------------------------------------------------
(* The books and the strand *)

\* Which handlers are of a call, a cancellation or a session.
LEMMA Kinds ==
  ASSUME NEW h \in Task
  PROVE  /\ \A i : h \in Posted(i) <=> h.op \in {"start", "wait"} /\ h.id = i
         /\ \A i : h \in Recalls(i) <=> h.op = "cancel_wait" /\ h.id = i
         /\ \A s : h \in Reports(s) <=> h.op = "session_finished" /\ h.id = s
<1>1. CASE h \in [op : {"start"}, id : Starts]
  BY <1>1 DEF Posted, Recalls, Reports, Report
<1>2. CASE h \in [op : {"wait", "cancel_wait"}, id : Waits]
  BY <1>2 DEF Posted, Recalls, Reports, Report
<1>3. CASE h \in [op : {"stop", "shutdown"}]
  BY <1>3 DEF Posted, Recalls, Reports, Report
<1>4. CASE h \in [op : {"session_finished"}, id : Nat, ec : SessionResult]
  BY <1>4 DEF Posted, Recalls, Reports, Report
<1>5. QED
  BY <1>1, <1>2, <1>3, <1>4 DEF Task

\* The starts that ran are finitely many.
LEMMA RanFinite ==
  ASSUME NEW q, NEW sub
  PROVE  /\ IsFiniteSet(Ran(q, sub)) /\ Cardinality(Ran(q, sub)) \in Nat
         /\ Cardinality(Starts) \in Nat /\ Cardinality(Ran(q, sub)) <= Cardinality(Starts)
<1>1. Ran(q, sub) \subseteq Starts /\ IsFiniteSet(Starts)
  BY SocketCallsAssumption DEF Ran
<1>2. QED
  BY <1>1, FS_Subset, FS_CardinalityType

\* A handler taken off the strand; the call of a start or wait is then nowhere, and
\* a start has run.
LEMMA CallTaken ==
  ASSUME NEW l \in Members, NEW q \in Seq(Task), q # << >>, NEW sub,
         Ledger(l, q, sub), Bounded(l, q, sub)
  PROVE  /\ Ledger(l, Tail(q), sub) /\ Bounded(l, Tail(q), sub)
         /\ \A X : Asked(q, X) => Asked(Tail(q), X)
         /\ \A i \in Operation : Head(q) \in Posted(i) =>
              /\ ~Meets(Tail(q), Posted(i)) /\ i \notin l.waiters
              /\ l.completions[i] = << >> /\ i \in sub
         /\ \A i \in Starts : Head(q) \in Posted(i) =>
              l.generation + 1 <= Cardinality(Ran(Tail(q), sub))
<1>1. \A X : /\ Meets(q, X) <=> Meets(Tail(q), X) \/ Head(q) \in X
             /\ MeetsOnce(q, X) => MeetsOnce(Tail(q), X) /\ ~(Meets(Tail(q), X) /\ Head(q) \in X)
  BY TailMeets
<1>2. ASSUME NEW i \in Operation
      PROVE  /\ InOnePlace(i, l, Tail(q), sub)
             /\ Head(q) \in Posted(i) =>
                  /\ ~Meets(Tail(q), Posted(i)) /\ i \notin l.waiters
                  /\ l.completions[i] = << >> /\ i \in sub
  <2>1. InOnePlace(i, l, q, sub)
    BY DEF Ledger
  <2>2. QED
    BY <1>1, <2>1 DEF InOnePlace
<1>3. l.generation \in Nat /\ Len(l.sessions) \in Nat
  BY DEF Members
<1>4. Ran(q, sub) \subseteq Ran(Tail(q), sub)
  BY <1>1 DEF Ran
<1>5. Bounded(l, Tail(q), sub)
  <2>1. Cardinality(Ran(q, sub)) <= Cardinality(Ran(Tail(q), sub))
    BY <1>4, RanFinite, FS_Subset
  <2>2. QED
    BY <1>3, <2>1, RanFinite DEF Bounded
<1>6. ASSUME NEW i \in Starts, Head(q) \in Posted(i)
      PROVE  l.generation + 1 <= Cardinality(Ran(Tail(q), sub))
  <2>1. i \in Ran(Tail(q), sub) /\ i \notin Ran(q, sub)
    BY <1>1, <1>2, <1>6, Literals DEF Ran
  <2>2. Ran(q, sub) \cup {i} \subseteq Ran(Tail(q), sub)
    BY <1>4, <2>1
  <2>3. Cardinality(Ran(q, sub) \cup {i}) = Cardinality(Ran(q, sub)) + 1
    BY <2>1, RanFinite, FS_AddElement, Zenon
  <2>4. Cardinality(Ran(q, sub) \cup {i}) <= Cardinality(Ran(Tail(q), sub))
    BY <2>2, RanFinite, FS_Subset
  <2>5. QED
    BY <1>3, <2>3, <2>4, RanFinite DEF Bounded
<1>7. QED
  BY <1>1, <1>2, <1>5, <1>6 DEF Ledger, Asked

\* A handler posted: of no call, or of one that is made just now.
LEMMA CallPosted ==
  ASSUME NEW l \in Members, NEW q \in Seq(Task), NEW h \in Task, NEW sub,
         Ledger(l, q, sub), Bounded(l, q, sub)
  PROVE  /\ h.op \notin {"start", "wait"} =>
              Ledger(l, Append(q, h), sub) /\ Bounded(l, Append(q, h), sub)
         /\ \A i \in Operation : h \in Posted(i) /\ i \notin sub =>
              Ledger(l, Append(q, h), sub \cup {i}) /\ Bounded(l, Append(q, h), sub \cup {i})
<1>1. \A X : /\ Meets(Append(q, h), X) <=> Meets(q, X) \/ h \in X
             /\ MeetsOnce(q, X) /\ ~(Meets(q, X) /\ h \in X) => MeetsOnce(Append(q, h), X)
  BY AppendMeets
<1>2. \A i \in Operation : InOnePlace(i, l, q, sub)
  BY DEF Ledger
<1>3. ASSUME h.op \notin {"start", "wait"}
      PROVE  Ledger(l, Append(q, h), sub) /\ Bounded(l, Append(q, h), sub)
  <2>1. \A i : h \notin Posted(i)
    BY <1>3, Kinds
  <2>2. Ledger(l, Append(q, h), sub)
    BY <1>1, <1>2, <2>1 DEF Ledger, InOnePlace
  <2>3. Ran(Append(q, h), sub) = Ran(q, sub)
    BY <1>1, <2>1 DEF Ran
  <2>4. QED
    BY <2>2, <2>3 DEF Bounded
<1>4. ASSUME NEW j \in Operation, h \in Posted(j), j \notin sub
      PROVE  Ledger(l, Append(q, h), sub \cup {j}) /\ Bounded(l, Append(q, h), sub \cup {j})
  <2>1. \A i : h \in Posted(i) => i = j
    BY <1>4, Kinds
  <2>2. ~Meets(q, Posted(j)) /\ j \notin l.waiters /\ l.completions[j] = << >>
    BY <1>2, <1>4 DEF InOnePlace
  <2>3. Ledger(l, Append(q, h), sub \cup {j})
    BY <1>1, <1>2, <2>1, <2>2 DEF Ledger, InOnePlace
  <2>4. Ran(Append(q, h), sub \cup {j}) = Ran(q, sub)
    BY <1>1, <1>4, <2>1 DEF Ran
  <2>5. QED
    BY <2>3, <2>4 DEF Bounded
<1>5. QED
  BY <1>3, <1>4

\* A cancellation posted was asked for.
LEMMA RecallPosted ==
  ASSUME NEW q \in Seq(Task), NEW h \in Task, NEW X, NEW Y, Asked(q, X), X \subseteq Y,
         h.op = "cancel_wait" => h.id \in Y
  PROVE  Asked(Append(q, h), Y)
<1>1. \A i : Meets(Append(q, h), Recalls(i)) <=> Meets(q, Recalls(i)) \/ h \in Recalls(i)
  BY AppendMeets
<1>2. QED
  BY <1>1, Kinds DEF Asked

\* Handlers that are no report come and go.
LEMMA NoReport ==
  ASSUME NEW l, NEW q \in Seq(Task), Current(l, q)
  PROVE  /\ q # << >> /\ Head(q).op # "session_finished" => Current(l, Tail(q))
         /\ \A h \in Task : h.op # "session_finished" => Current(l, Append(q, h))
<1>1. ASSUME q # << >>, Head(q).op # "session_finished"
      PROVE  Current(l, Tail(q))
  <2>1. Head(q) \in Task /\ \A s : Head(q) \notin Reports(s)
    BY <1>1, Kinds, TailMeets
  <2>2. \A s : /\ Meets(q, Reports(s)) <=> Meets(Tail(q), Reports(s))
               /\ MeetsOnce(q, Reports(s)) => MeetsOnce(Tail(q), Reports(s))
    BY <1>1, <2>1, TailMeets
  <2>3. QED
    BY <2>2 DEF Current
<1>2. ASSUME NEW h \in Task, h.op # "session_finished"
      PROVE  Current(l, Append(q, h))
  <2>1. \A s : h \notin Reports(s)
    BY <1>2, Kinds
  <2>2. \A s : /\ Meets(q, Reports(s)) <=> Meets(Append(q, h), Reports(s))
               /\ MeetsOnce(q, Reports(s)) => MeetsOnce(Append(q, h), Reports(s))
    BY <2>1, AppendMeets
  <2>3. QED
    BY <2>2 DEF Current
<1>3. QED
  BY <1>1, <1>2

\* The report taken off the strand is that of m_session, and the last one.
LEMMA ReportTaken ==
  ASSUME NEW l \in Members, NEW q \in Seq(Task), q # << >>, Current(l, q),
         Head(q).op = "session_finished", NEW m, m.m_session = 0, m.sessions = l.sessions
  PROVE  Current(m, Tail(q))
<1> DEFINE r == Head(q).id
<1>1. Head(q) \in Task /\ Head(q).id \in Nat
  BY TailMeets DEF Task
<1>2. \A s : Head(q) \in Reports(s) <=> s = r
  BY <1>1, Kinds
<1>3. \A s : /\ Meets(q, Reports(s)) <=> Meets(Tail(q), Reports(s)) \/ Head(q) \in Reports(s)
             /\ MeetsOnce(q, Reports(s)) => /\ MeetsOnce(Tail(q), Reports(s))
                                            /\ ~(Meets(Tail(q), Reports(s)) /\ Head(q) \in Reports(s))
  BY TailMeets
<1>4. r \in 1..Len(l.sessions) /\ r = l.m_session
  BY <1>1, <1>2, <1>3 DEF Current
<1> HIDE DEF r
<1>5. \A s \in 1..Len(l.sessions) : l.sessions[s].finished /\ ~Meets(Tail(q), Reports(s))
  BY <1>2, <1>3, <1>4 DEF Current
<1>6. Len(l.sessions) \in Nat
  BY DEF Members
<1>7. QED
  BY <1>3, <1>5, <1>6 DEF Current

-----------------------------------------------------------------------------
(* The books along the call tree *)

\* A wait that nobody cancelled is told the truth.
Honest(l, m, X) ==
  \A i \in Waits \ X :
    m.completions[i] # l.completions[i]
      => m.state = "stopped" /\ m.completions[i] = <<m.terminal_error>>

\* The waiters released all at once: their completions are the first ones.
LEMMA LedgerTells ==
  ASSUME NEW l \in Members, NEW m \in Members, NEW q, NEW sub, NEW X,
         Ledger(l, q, sub), Silent(l, m) \/ Releases(l, m)
  PROVE  Ledger(m, q, sub) /\ Honest(l, m, X)
<1>1. CASE Silent(l, m)
  BY <1>1 DEF Ledger, InOnePlace, Silent, Honest
<1>2. CASE Releases(l, m)
  <2>1. ASSUME NEW i \in Operation
        PROVE  /\ InOnePlace(i, m, q, sub)
               /\ m.completions[i] # l.completions[i] =>
                    m.state = "stopped" /\ m.completions[i] = <<m.terminal_error>>
    <3>1. InOnePlace(i, l, q, sub)
      BY DEF Ledger
    <3>2. /\ m.waiters = {} /\ m.state = "stopped"
          /\ m.completions[i] = IF i \in l.waiters THEN Append(l.completions[i], m.terminal_error)
                                                   ELSE l.completions[i]
      BY <1>2 DEF Releases
    <3>3. CASE i \in l.waiters
      <4>1. l.completions[i] = << >> /\ i \in sub /\ ~Meets(q, Posted(i))
        BY <3>1, <3>3 DEF InOnePlace
      <4>2. m.completions[i] = <<m.terminal_error>> /\ Len(m.completions[i]) = 1
        BY <3>2, <3>3, <4>1
      <4>3. QED
        BY <3>1, <3>2, <4>1, <4>2 DEF InOnePlace
    <3>4. CASE i \notin l.waiters
      BY <3>1, <3>2, <3>4 DEF InOnePlace
    <3>5. QED
      BY <3>3, <3>4
  <2>2. QED
    BY <2>1, Literals DEF Ledger, Honest
<1>3. QED
  BY <1>1, <1>2

\* One call completed that was nowhere.
LEMMA LedgerComplete ==
  ASSUME NEW l \in Members, NEW q, NEW sub, NEW i \in Operation, NEW ec \in Error,
         Ledger(l, q, sub), ~Meets(q, Posted(i)), i \notin l.waiters,
         l.completions[i] = << >>, i \in sub
  PROVE  LET m == complete_on(l, i, ec)
         IN  /\ Ledger(m, q, sub) /\ Calm(l, m) /\ m \in Members /\ m.completions[i] = <<ec>>
             /\ m.state = l.state /\ m.terminal_error = l.terminal_error
             /\ \A j \in Operation \ {i} : m.completions[j] = l.completions[j]
<1> DEFINE m == complete_on(l, i, ec)
<1>1. /\ m.waiters = l.waiters /\ m \in Members /\ Calm(l, m)
      /\ m.state = l.state /\ m.terminal_error = l.terminal_error
      /\ m.completions = [l.completions EXCEPT ![i] = Append(l.completions[i], ec)]
      /\ l.completions \in [Operation -> Seq(Error)]
  <2>1. l.completions \in [Operation -> Seq(Error)]
    BY DEF Members
  <2>2. m \in Members
    BY complete_on_keeps
  <2>3. Calm(l, m) /\ m.waiters = l.waiters
    BY complete_on_calm, Zenon
  <2>4. m.state = l.state /\ m.terminal_error = l.terminal_error
    BY complete_on_calm, Zenon
  <2>5. m.completions = [l.completions EXCEPT ![i] = Append(l.completions[i], ec)]
    BY complete_on_calm, Zenon
  <2>6. QED
    BY <2>1, <2>2, <2>3, <2>4, <2>5
<1>2. Append(l.completions[i], ec) = <<ec>> /\ Len(<<ec>>) = 1
  OBVIOUS
<1> HIDE DEF m
<1>3. m.completions[i] = <<ec>> /\ \A j \in Operation \ {i} : m.completions[j] = l.completions[j]
  BY <1>1, <1>2
<1>4. \A j \in Operation : InOnePlace(j, l, q, sub)
  BY DEF Ledger
<1>5. InOnePlace(i, m, q, sub)
  BY <1>1, <1>2, <1>3, <1>4 DEF InOnePlace
<1>6. \A j \in Operation \ {i} : InOnePlace(j, m, q, sub)
  BY <1>1, <1>3, <1>4 DEF InOnePlace
<1>7. Ledger(m, q, sub)
  BY <1>5, <1>6 DEF Ledger
<1>8. QED
  BY <1>1, <1>3, <1>7 DEF m

\* Member functions in a row.
LEMMA CalmThen ==
  ASSUME NEW l, NEW k, NEW m, Calm(l, k), Calm(k, m)
  PROVE  Calm(l, m)
BY DEF Calm

\* The numbers of a listener that only calm functions touch.
LEMMA CalmNumbers ==
  ASSUME NEW l, NEW m, NEW q, NEW sub, Calm(l, m)
  PROVE  /\ Current(l, q) => Current(m, q)
         /\ Bounded(l, q, sub) => Bounded(m, q, sub)
<1>1. Current(l, q) => Current(m, q)
  BY DEF Calm, Current
<1>2. Bounded(l, q, sub) => Bounded(m, q, sub)
  BY DEF Calm, Bounded
<1>3. QED
  BY <1>1, <1>2

-----------------------------------------------------------------------------
(* The handlers of the strand keep the books *)

\* What a handler has to show, of the listener it leaves behind.
Right(m, q) ==
  /\ Current(m, q) /\ Bounded(m, q, submitted) /\ Ledger(m, q, submitted)
  /\ Honest(listener, m, cancelled)

\* How a handler begins: it is off the strand, and the books are right without it.
LEMMA Taken ==
  ASSUME Types, LInv, strand # << >>
  PROVE  LET q == Tail(strand)
         IN  /\ q \in Seq(Task) /\ Head(strand) \in Task /\ listener \in Members
             /\ Bounded(listener, q, submitted) /\ Ledger(listener, q, submitted)
             /\ Asked(q, cancelled)
             /\ Head(strand).op # "session_finished" => Current(listener, q)
             /\ \A i \in Operation : Head(strand) \in Posted(i) =>
                  /\ ~Meets(q, Posted(i)) /\ i \notin listener.waiters
                  /\ listener.completions[i] = << >> /\ i \in submitted
             /\ \A i \in Starts : Head(strand) \in Posted(i) =>
                  listener.generation + 1 <= Cardinality(Ran(q, submitted))
<1>1. /\ listener \in Members /\ strand \in Seq(Task)
      /\ Current(listener, strand) /\ Bounded(listener, strand, submitted)
      /\ Ledger(listener, strand, submitted) /\ Asked(strand, cancelled)
  BY DEF Types, LInv
<1>2. Head(strand) \in Task /\ Tail(strand) \in Seq(Task)
  BY <1>1, TailMeets
<1>3. QED
  BY <1>1, <1>2, CallTaken, NoReport

\* How it ends.
LEMMA Returned ==
  ASSUME Types, LInv, strand # << >>, Return, Right(listener', Tail(strand))
  PROVE  LInv' /\ Honest(listener, listener', cancelled)
<1>1. strand' = Tail(strand) /\ submitted' = submitted /\ cancelled' = cancelled /\ stopper' = stopper
  BY DEF Return
<1>2. Asked(Tail(strand), cancelled)
  BY Taken
<1>3. QED
  BY <1>1, <1>2 DEF Right, LInv, Calls

\* An early return of a start.
LEMMA start_without_effect_books ==
  ASSUME Types, LInv, start_without_effect
  PROVE  LInv' /\ Honest(listener, listener', cancelled)
<1> DEFINE i == Head(strand).id
           q == Tail(strand)
<1>1. Running("start") /\ Return /\ strand # << >> /\ Head(strand).op = "start"
  BY DEF start_without_effect, Running
<1>2. i \in Starts /\ i \in Operation /\ i \notin Waits
  BY <1>1, RunningTask, Literals, SocketCallsAssumption DEF Types
<1>3. PICK ec \in Error : listener' = complete_on(listener, i, ec)
  BY Literals DEF start_without_effect
<1>4. /\ listener \in Members /\ Bounded(listener, q, submitted)
      /\ Ledger(listener, q, submitted) /\ Current(listener, q)
      /\ ~Meets(q, Posted(i)) /\ i \notin listener.waiters
      /\ listener.completions[i] = << >> /\ i \in submitted
  <2>1. Head(strand) \in Posted(i)
    BY <1>1, Taken, Kinds
  <2>2. QED
    BY <1>1, <1>2, <2>1, Taken
<1> HIDE DEF i, q
<1>5. /\ Ledger(listener', q, submitted) /\ Calm(listener, listener')
      /\ \A j \in Operation \ {i} : listener'.completions[j] = listener.completions[j]
  BY <1>2, <1>3, <1>4, LedgerComplete
<1>6. Right(listener', q)
  BY <1>2, <1>4, <1>5, CalmNumbers, Literals DEF Right, Honest
<1>7. QED
  BY <1>1, <1>6, Returned DEF q

\* A new generation: it has a start of its own, and a session of its own if it has
\* one.
LEMMA start_on_strand_books ==
  ASSUME Types, Cause, LInv, start_on_strand
  PROVE  LInv' /\ Honest(listener, listener', cancelled)
<1> DEFINE i == Head(strand).id
           q == Tail(strand)
           starting == [listener EXCEPT !.generation = @ + 1, !.terminal_error = "ok",
                                        !.stop_reason = "none", !.last_error = "ok",
                                        !.state = "starting"]
           noted == record_diagnostic(starting, "failed")
           made == [starting EXCEPT !.sessions = Append(@, new_session),
                                    !.m_session = Len(listener.sessions) + 1,
                                    !.state = "running"]
<1>1. Running("start") /\ Return /\ strand # << >> /\ Head(strand).op = "start"
  BY DEF start_on_strand, Running
<1>2. i \in Starts /\ i \in Operation /\ i \notin Waits
  BY <1>1, RunningTask, Literals, SocketCallsAssumption DEF Types
<1>3. /\ listener.state \in {"idle", "stopped"}
      /\ \/ listener' = starting
         \/ listener' = finish(complete_on(starting, i, "failed"), "failed", "startup_failure")
         \/ listener' = finish(complete_on(noted, i, "failed"), "failed", "startup_failure")
         \/ listener' = complete_on(made, i, "ok")
  BY DEF start_on_strand
<1>4. /\ listener \in Members /\ Current(listener, q) /\ Bounded(listener, q, submitted)
      /\ Ledger(listener, q, submitted)
      /\ ~Meets(q, Posted(i)) /\ i \notin listener.waiters
      /\ listener.completions[i] = << >> /\ i \in submitted
      /\ listener.generation + 1 <= Cardinality(Ran(q, submitted))
  <2>1. Head(strand) \in Posted(i)
    BY <1>1, Taken, Kinds
  <2>2. QED
    BY <1>1, <1>2, <2>1, Taken
<1>5. /\ listener.m_session = 0 /\ listener.generation \in Nat
      /\ listener.sessions \in Seq(Session) /\ Len(listener.sessions) \in Nat
  BY <1>3, <1>4 DEF Cause, SessionWhileOpen, Members
<1> HIDE DEF i, q
<1>6. /\ starting \in Members /\ starting.state = "starting" /\ Silent(listener, starting)
      /\ starting.sessions = listener.sessions /\ starting.m_session = 0
      /\ starting.generation = listener.generation + 1
  <2>1. listener.generation + 1 \in Nat
    BY <1>5
  <2>2. QED
    BY <1>4, <1>5, <2>1, Literals, Zenon DEF Members, State, StopReason, Silent
<1> HIDE DEF starting
<1>7. Current(starting, q) /\ Bounded(starting, q, submitted) /\ Ledger(starting, q, submitted)
  <2>1. Current(starting, q)
    BY <1>4, <1>5, <1>6 DEF Current
  <2>2. Bounded(starting, q, submitted)
    BY <1>4, <1>5, <1>6, RanFinite DEF Bounded
  <2>3. Ledger(starting, q, submitted)
    BY <1>4, <1>6, LedgerTells
  <2>4. QED
    BY <2>1, <2>2, <2>3
\* It throws, and the call is left where it is.
<1>8. CASE listener' = starting
  <2>1. Right(listener', q)
    BY <1>6, <1>7, <1>8 DEF Right, Honest, Silent
  <2>2. QED
    BY <1>1, <2>1, Returned DEF q
\* It fails.
<1>9. ASSUME NEW l \in Members, l.state = "starting", Calm(starting, l), Silent(listener, l),
             listener' = finish(complete_on(l, i, "failed"), "failed", "startup_failure")
      PROVE  Right(listener', q)
  <2> DEFINE k == complete_on(l, i, "failed")
  <2>1. "failed" \in Error /\ "startup_failure" \in StopReason
    BY Literals
  <2>2. Ledger(l, q, submitted) /\ i \notin l.waiters /\ l.completions[i] = << >>
    BY <1>4, <1>9, LedgerTells DEF Silent
  <2>3. /\ Ledger(k, q, submitted) /\ Calm(l, k) /\ k \in Members /\ k.state = "starting"
        /\ \A j \in Operation \ {i} : k.completions[j] = l.completions[j]
    BY <1>2, <1>4, <1>9, <2>1, <2>2, LedgerComplete
  <2> HIDE DEF k
  <2>4. listener' = finish(k, "failed", "startup_failure")
    BY <1>9 DEF k
  <2>5. Calm(k, listener') /\ Releases(k, listener') /\ listener' \in Members
    BY <2>1, <2>3, <2>4, finish_releases, finish_ends
  <2>6. Ledger(listener', q, submitted) /\ Honest(k, listener', cancelled)
    BY <2>3, <2>5, LedgerTells
  <2>7. Honest(listener, listener', cancelled)
    <3>1. \A j \in Waits : k.completions[j] = listener.completions[j]
      BY <1>2, <1>9, <2>3, Literals DEF Silent
    <3>2. QED
      BY <2>6, <3>1 DEF Honest
  <2>8. Calm(starting, listener')
    BY <1>9, <2>3, <2>5, CalmThen
  <2>9. QED
    BY <1>7, <2>6, <2>7, <2>8, CalmNumbers DEF Right
<1>10. CASE listener' = finish(complete_on(starting, i, "failed"), "failed", "startup_failure")
  <2>1. Calm(starting, starting)
    BY DEF Calm
  <2>2. QED
    BY <1>1, <1>6, <1>9, <1>10, <2>1, Returned DEF q
<1>11. CASE listener' = finish(complete_on(noted, i, "failed"), "failed", "startup_failure")
  <2>1. Calm(starting, noted) /\ Silent(starting, noted) /\ noted \in Members
        /\ noted.state = "starting"
    BY <1>6, OthersCalm, record_diagnostic_keeps, Literals DEF Kept
  <2>2. Silent(listener, noted)
    BY <1>6, <2>1 DEF Silent
  <2> HIDE DEF noted
  <2>3. QED
    BY <1>1, <1>9, <1>11, <2>1, <2>2, Returned DEF q
\* It succeeds: m_session is the new session, and no other can report.
<1>12. CASE listener' = complete_on(made, i, "ok")
  <2> DEFINE n == Len(listener.sessions) + 1
             z == Append(listener.sessions, new_session)
  <2>1. new_session \in Session /\ new_session.finished = FALSE
    BY DEF new_session, Session
  <2>2. /\ z \in Seq(Session) /\ Len(z) = n /\ n \in Nat \ {0} /\ z[n] = new_session
        /\ \A s \in 1..Len(listener.sessions) : z[s] = listener.sessions[s]
    BY <1>5, <2>1
  <2>3. /\ made \in Members /\ made.sessions = z /\ made.m_session = n
        /\ made.generation = starting.generation /\ Silent(starting, made)
    BY <1>6, <2>2, Zenon DEF Members, State, Silent
  <2> HIDE DEF made, z, n
  <2>4. Current(made, q)
    <3>1. \A s \in 1..Len(listener.sessions) :
            s # n /\ z[s].finished /\ MeetsOnce(q, Reports(s)) /\ ~Meets(q, Reports(s))
      BY <1>4, <1>5, <2>2 DEF Current, n
    <3>2. \A s \in Nat \ (1..Len(listener.sessions)) : ~Meets(q, Reports(s))
      BY <1>4 DEF Current
    <3>3. ~Meets(q, Reports(n)) /\ MeetsOnce(q, Reports(n)) /\ ~z[n].finished
      BY <1>5, <2>1, <2>2, <3>2 DEF n, Meets, MeetsOnce
    <3>4. 1..n = (1..Len(listener.sessions)) \cup {n}
      BY <1>5 DEF n
    <3>5. Len(made.sessions) = n /\ made.m_session \in 0..n
      BY <2>2, <2>3
    <3>6. ASSUME NEW s \in 1..Len(made.sessions)
          PROVE  /\ MeetsOnce(q, Reports(s))
                 /\ Meets(q, Reports(s)) => made.sessions[s].finished
                 /\ s = made.m_session <=> ~made.sessions[s].finished \/ Meets(q, Reports(s))
      BY <2>3, <3>1, <3>3, <3>4, <3>5
    <3>7. \A s \in Nat \ (1..Len(made.sessions)) : ~Meets(q, Reports(s))
      BY <3>2, <3>4, <3>5
    <3>8. QED
      BY <3>5, <3>6, <3>7 DEF Current
  <2>5. Bounded(made, q, submitted)
    <3>1. Len(made.sessions) = Len(listener.sessions) + 1
      BY <2>2, <2>3 DEF n
    <3>2. QED
      BY <1>4, <1>5, <1>6, <2>3, <3>1, RanFinite DEF Bounded
  <2>6. /\ Ledger(made, q, submitted) /\ i \notin made.waiters /\ made.completions[i] = << >>
        /\ made.completions = listener.completions
    <3>1. Ledger(made, q, submitted)
      BY <1>6, <1>7, <2>3, LedgerTells, Zenon
    <3>2. made.waiters = listener.waiters /\ made.completions = listener.completions
      BY <1>6, <2>3 DEF Silent
    <3>3. QED
      BY <1>4, <3>1, <3>2
  <2>7. /\ Ledger(listener', q, submitted) /\ Calm(made, listener')
        /\ \A j \in Operation \ {i} : listener'.completions[j] = made.completions[j]
    BY <1>2, <1>4, <1>12, <2>3, <2>6, LedgerComplete, Literals
  <2>8. Right(listener', q)
    BY <1>2, <2>4, <2>5, <2>6, <2>7, CalmNumbers, Literals DEF Right, Honest
  <2>9. QED
    BY <1>1, <2>8, Returned DEF q
<1>13. QED
  BY <1>3, <1>8, <1>10, <1>11, <1>12

\* A queued wait: it completes or joins the waiters.
LEMMA wait_on_strand_books ==
  ASSUME Types, LInv, wait_on_strand
  PROVE  LInv' /\ Honest(listener, listener', cancelled)
<1> DEFINE i == Head(strand).id
           q == Tail(strand)
           with == [listener EXCEPT !.waiters = @ \cup {i}]
<1>1. Running("wait") /\ Return /\ strand # << >> /\ Head(strand).op = "wait"
  BY DEF wait_on_strand, Running
<1>2. i \in Waits /\ i \in Operation /\ listener.terminal_error \in Error
  BY <1>1, RunningTask, Literals DEF Types, Members
<1>3. \/ i \in cancelled /\ listener' = complete_on(listener, i, "aborted")
      \/ listener.state = "stopped" /\ listener' = complete_on(listener, i, listener.terminal_error)
      \/ listener' = with
  BY DEF wait_on_strand
<1>4. /\ listener \in Members /\ Bounded(listener, q, submitted)
      /\ Ledger(listener, q, submitted) /\ Current(listener, q)
      /\ ~Meets(q, Posted(i)) /\ i \notin listener.waiters
      /\ listener.completions[i] = << >> /\ i \in submitted
  <2>1. Head(strand) \in Posted(i)
    BY <1>1, Taken, Kinds, Zenon
  <2>2. QED
    BY <1>1, <1>2, <2>1, Taken
<1>5. /\ with.waiters = listener.waiters \cup {i} /\ with.completions = listener.completions
      /\ Calm(listener, with)
  BY <1>4 DEF Members, Calm
<1> HIDE DEF i, q, with
<1>6. ASSUME NEW ec \in Error, listener' = complete_on(listener, i, ec),
             i \in cancelled \/ (listener.state = "stopped" /\ ec = listener.terminal_error)
      PROVE  Right(listener', q)
  <2>1. /\ Ledger(listener', q, submitted) /\ Calm(listener, listener')
        /\ listener'.completions[i] = <<ec>> /\ listener'.state = listener.state
        /\ listener'.terminal_error = listener.terminal_error
        /\ \A j \in Operation \ {i} : listener'.completions[j] = listener.completions[j]
    BY <1>2, <1>4, <1>6, LedgerComplete
  <2>2. Honest(listener, listener', cancelled)
    BY <1>6, <2>1, Literals DEF Honest
  <2>3. QED
    BY <1>4, <2>1, <2>2, CalmNumbers DEF Right
<1>7. CASE listener' = with
  <2>1. Ledger(with, q, submitted)
    BY <1>4, <1>5 DEF Ledger, InOnePlace
  <2>2. Right(listener', q)
    BY <1>4, <1>5, <1>7, <2>1, CalmNumbers DEF Right, Honest
  <2>3. QED
    BY <1>1, <2>2, Returned DEF q
<1>8. CASE listener' # with
  <2>1. Right(listener', q)
    BY <1>2, <1>3, <1>6, <1>8, Literals
  <2>2. QED
    BY <1>1, <2>1, Returned DEF q
<1>9. QED
  BY <1>7, <1>8

\* A wait is cancelled that somebody cancelled.
LEMMA cancel_wait_books ==
  ASSUME Types, LInv, cancel_wait
  PROVE  LInv' /\ Honest(listener, listener', cancelled)
<1> DEFINE i == Head(strand).id
           q == Tail(strand)
           without == [listener EXCEPT !.waiters = @ \ {i}]
<1>1. Running("cancel_wait") /\ Return /\ strand # << >> /\ Head(strand).op = "cancel_wait"
  BY DEF cancel_wait, Running
<1>2. i \in Waits /\ i \in Operation
  BY <1>1, RunningTask, Literals DEF Types
<1>3. listener' = IF i \in listener.waiters THEN complete_on(without, i, "aborted") ELSE listener
  BY DEF cancel_wait
<1>4. /\ listener \in Members /\ Bounded(listener, q, submitted)
      /\ Ledger(listener, q, submitted) /\ Current(listener, q)
  BY <1>1, Taken
<1>5. i \in cancelled
  <2>1. Head(strand) \in Task /\ Head(strand) \in Recalls(i)
    BY <1>1, Taken, Kinds
  <2>2. Meets(strand, Recalls(i))
    BY <1>1, <2>1, TailMeets DEF Types
  <2>3. QED
    BY <1>2, <2>2 DEF LInv, Asked
<1>6. /\ without \in Members
      /\ without.waiters = listener.waiters \ {i} /\ without.completions = listener.completions
      /\ Calm(listener, without)
  BY <1>4 DEF Members, Calm
<1> HIDE DEF i, q, without
<1>7. CASE i \in listener.waiters
  <2>1. ~Meets(q, Posted(i)) /\ listener.completions[i] = << >> /\ i \in submitted
    BY <1>2, <1>4, <1>7 DEF Ledger, InOnePlace
  <2>2. Ledger(without, q, submitted)
    BY <1>4, <1>6 DEF Ledger, InOnePlace
  <2>3. /\ Ledger(listener', q, submitted) /\ Calm(without, listener')
        /\ \A j \in Operation \ {i} : listener'.completions[j] = without.completions[j]
    BY <1>2, <1>3, <1>6, <1>7, <2>1, <2>2, LedgerComplete, Literals
  <2>4. Honest(listener, listener', cancelled)
    BY <1>5, <1>6, <2>3, Literals DEF Honest
  <2>5. Right(listener', q)
    BY <1>4, <1>6, <2>3, <2>4, CalmThen, CalmNumbers DEF Right
  <2>6. QED
    BY <1>1, <2>5, Returned DEF q
<1>8. CASE i \notin listener.waiters
  <2>1. Right(listener', q)
    BY <1>3, <1>4, <1>8 DEF Right, Honest
  <2>2. QED
    BY <1>1, <2>1, Returned DEF q
<1>9. QED
  BY <1>7, <1>8

\* A handler that only calls member functions.
LEMMA CalmRight ==
  ASSUME NEW k \in Members, NEW m \in Members, NEW q, listener \in Members,
         Current(k, q), Bounded(k, q, submitted), Ledger(listener, q, submitted),
         Silent(listener, k), Calm(k, m), Silent(k, m) \/ Releases(k, m)
  PROVE  Right(m, q)
<1>1. Silent(listener, m) \/ Releases(listener, m)
  BY DEF Silent, Releases
<1>2. QED
  BY <1>1, LedgerTells, CalmNumbers DEF Right

\* A stop, and the grace timer.
LEMMA StopBooks ==
  ASSUME Types, LInv, stop_on_strand \/ shutdown_timer_handler
  PROVE  LInv' /\ Honest(listener, listener', cancelled)
<1> DEFINE q == Tail(strand)
           e == enter_stopping(listener)
           p == post_to_session(e, "request_stop")
           a == arm_shutdown_timer(p)
           d == record_diagnostic(listener, "timed_out")
<1>1. /\ Return /\ strand # << >> /\ Head(strand).op # "session_finished"
  BY DEF stop_on_strand, shutdown_timer_handler, Running
<1>2. /\ listener \in Members /\ Bounded(listener, q, submitted)
      /\ Ledger(listener, q, submitted) /\ Current(listener, q)
  BY <1>1, Taken
<1>3. \/ listener' = listener
      \/ listener' = finish(e, "ok", "requested")
      \/ listener' = maybe_finish(a)
      \/ listener' = post_to_session(d, "force_close")
  BY DEF stop_on_strand, shutdown_timer_handler
<1>4. /\ e \in Members /\ e.state = "stopping" /\ Calm(listener, e) /\ Silent(listener, e)
  <2>1. e \in Members /\ e.state = "stopping"
    BY <1>2, Literals, Zenon DEF enter_stopping, Members, State
  <2>2. QED
    BY <1>2, <2>1, OthersCalm
<1>5. d \in Members /\ Calm(listener, d) /\ Silent(listener, d)
  BY <1>2, record_diagnostic_keeps, OthersCalm, Literals
<1> HIDE DEF e, d, q
<1>6. p \in Members /\ Calm(e, p) /\ Silent(e, p)
  BY <1>4, post_to_session_keeps, post_to_session_calm
<1> HIDE DEF p
<1>7. a \in Members /\ Calm(p, a) /\ Silent(p, a)
  <2>1. (p.shutdown_timer \/ p.m_session # 0) \in BOOLEAN
    OBVIOUS
  <2>2. a \in Members
    BY <1>6, <2>1, Zenon DEF arm_shutdown_timer, Members
  <2>3. QED
    BY <1>6, <2>2, OthersCalm
<1> HIDE DEF a
<1>8. Calm(listener, a) /\ Silent(listener, a)
  BY <1>4, <1>6, <1>7, CalmThen DEF Silent
<1>9. Right(listener', q)
  <2>1. CASE listener' = listener
    BY <1>2, <2>1 DEF Right, Honest
  <2>2. CASE listener' = finish(e, "ok", "requested")
    <3>1. listener' \in Members /\ Calm(e, listener') /\ Releases(e, listener')
      BY <1>4, <2>2, finish_ends, finish_releases, Literals
    <3>2. Current(e, q) /\ Bounded(e, q, submitted)
      BY <1>2, <1>4, CalmNumbers
    <3>3. QED
      BY <1>2, <1>4, <3>1, <3>2, CalmRight
  <2>3. CASE listener' = maybe_finish(a)
    <3>1. /\ listener' \in Members /\ Calm(a, listener')
          /\ Silent(a, listener') \/ Releases(a, listener')
      BY <1>7, <2>3, maybe_finish_ends, maybe_finish_releases
    <3>2. Current(a, q) /\ Bounded(a, q, submitted)
      BY <1>2, <1>8, CalmNumbers
    <3>3. QED
      BY <1>2, <1>7, <1>8, <3>1, <3>2, CalmRight
  <2>4. CASE listener' = post_to_session(d, "force_close")
    <3>1. listener' \in Members /\ Calm(d, listener') /\ Silent(d, listener')
      BY <1>5, <2>4, post_to_session_keeps, post_to_session_calm
    <3>2. Current(d, q) /\ Bounded(d, q, submitted)
      BY <1>2, <1>5, CalmNumbers
    <3>3. QED
      BY <1>2, <1>5, <3>1, <3>2, CalmRight
  <2>5. QED
    BY <1>3, <2>1, <2>2, <2>3, <2>4
<1>10. QED
  BY <1>1, <1>9, Returned DEF q

\* The report of the session that m_session is.
LEMMA session_finished_books ==
  ASSUME Types, LInv, session_finished
  PROVE  LInv' /\ Honest(listener, listener', cancelled)
<1> DEFINE ec == Head(strand).ec
           q == Tail(strand)
           reset == [listener EXCEPT !.m_session = 0]
           noted == IF ec \in {"ok", "aborted"} THEN reset ELSE record_diagnostic(reset, ec)
           why == IF ec = "ok" THEN "completed" ELSE "runtime_failure"
<1>1. /\ Running("session_finished") /\ Return /\ strand # << >>
      /\ Head(strand).op = "session_finished"
  BY DEF session_finished, Running
<1>2. /\ listener \in Members /\ strand \in Seq(Task) /\ Bounded(listener, q, submitted)
      /\ Ledger(listener, q, submitted) /\ Current(listener, strand)
  BY <1>1, Taken DEF Types, LInv
<1>3. ec \in Error /\ why \in StopReason
  BY <1>1, <1>2, RunningTask, Literals
<1>4. listener' = IF listener.state = "running" THEN finish(noted, ec, why) ELSE maybe_finish(noted)
  BY DEF session_finished
<1>5. /\ reset \in Members /\ reset.state = listener.state /\ reset.m_session = 0
      /\ reset.sessions = listener.sessions /\ reset.generation = listener.generation
      /\ Silent(listener, reset)
  BY <1>2, Zenon DEF Members, Silent
<1> HIDE DEF reset, why
<1>6. Current(reset, q) /\ Bounded(reset, q, submitted)
  <2>1. Current(reset, q)
    BY <1>1, <1>2, <1>5, ReportTaken
  <2>2. Bounded(reset, q, submitted)
    BY <1>2, <1>5 DEF Bounded
  <2>3. QED
    BY <2>1, <2>2
<1> HIDE DEF ec, q
<1>7. /\ noted \in Members /\ noted.state = listener.state
      /\ Calm(reset, noted) /\ Silent(reset, noted)
  <2>1. CASE ec \in {"ok", "aborted"}
    BY <1>5, <2>1 DEF Calm, Silent
  <2>2. CASE ec \notin {"ok", "aborted"}
    <3>1. noted = record_diagnostic(reset, ec)
      BY <2>2
    <3>2. noted \in Members /\ noted.state = listener.state
      BY <1>3, <1>5, <2>2, <3>1, record_diagnostic_keeps DEF Kept
    <3>3. QED
      BY <1>5, <3>1, <3>2, OthersCalm
  <2>3. QED
    BY <2>1, <2>2
<1> HIDE DEF noted
<1>8. Silent(listener, noted) /\ Current(noted, q) /\ Bounded(noted, q, submitted)
  BY <1>5, <1>6, <1>7, CalmNumbers DEF Silent
<1>9. /\ listener' \in Members /\ Calm(noted, listener')
      /\ Silent(noted, listener') \/ Releases(noted, listener')
  <2>1. CASE listener.state = "running"
    BY <1>3, <1>4, <1>7, <2>1, finish_ends, finish_releases
  <2>2. CASE listener.state # "running"
    BY <1>4, <1>7, <2>2, maybe_finish_ends, maybe_finish_releases
  <2>3. QED
    BY <2>1, <2>2
<1>10. Right(listener', q)
  BY <1>2, <1>7, <1>8, <1>9, CalmRight
<1>11. QED
  BY <1>1, <1>10, Returned DEF q

-----------------------------------------------------------------------------
(* The other steps keep the books *)

\* A handler that is no call and no report is posted.
LEMMA OtherPosted ==
  ASSUME Types, LInv, NEW h \in Task, h.op \in {"stop", "shutdown", "cancel_wait"},
         NEW X, cancelled \subseteq X, h.op = "cancel_wait" => h.id \in X
  PROVE  LET q == Append(strand, h)
         IN  /\ Current(listener, q) /\ Bounded(listener, q, submitted)
             /\ Ledger(listener, q, submitted) /\ Asked(q, X)
<1>1. /\ listener \in Members /\ strand \in Seq(Task)
      /\ Current(listener, strand) /\ Bounded(listener, strand, submitted)
      /\ Ledger(listener, strand, submitted) /\ Asked(strand, cancelled)
  BY DEF Types, LInv
<1>2. h.op # "session_finished" /\ h.op \notin {"start", "wait"}
  OBVIOUS
<1>3. Current(listener, Append(strand, h))
  BY <1>1, <1>2, NoReport
<1>4. Bounded(listener, Append(strand, h), submitted) /\ Ledger(listener, Append(strand, h), submitted)
  BY <1>1, <1>2, CallPosted
<1>5. Asked(Append(strand, h), X)
  BY <1>1, RecallPosted
<1>6. QED
  BY <1>3, <1>4, <1>5

\* A call is made.
LEMMA CallMade ==
  ASSUME Types, LInv, NEW i \in Operation \ submitted, NEW h \in Task, h \in Posted(i)
  PROVE  LET q == Append(strand, h)
         IN  /\ Current(listener, q) /\ Bounded(listener, q, submitted \cup {i})
             /\ Ledger(listener, q, submitted \cup {i}) /\ Asked(q, cancelled)
<1>1. /\ listener \in Members /\ strand \in Seq(Task)
      /\ Current(listener, strand) /\ Bounded(listener, strand, submitted)
      /\ Ledger(listener, strand, submitted) /\ Asked(strand, cancelled)
  BY DEF Types, LInv
<1>2. h.op \in {"start", "wait"}
  BY Kinds
<1>3. Current(listener, Append(strand, h))
  BY <1>1, <1>2, NoReport, Zenon
<1>4. /\ Bounded(listener, Append(strand, h), submitted \cup {i})
      /\ Ledger(listener, Append(strand, h), submitted \cup {i})
  BY <1>1, CallPosted
<1>5. Asked(Append(strand, h), cancelled)
  BY <1>1, <1>2, RecallPosted
<1>6. QED
  BY <1>3, <1>4, <1>5

\* The calls.
LEMMA ClientBooks ==
  ASSUME Types, LInv, Client
  PROVE  LInv' /\ listener' = listener
<1>0. listener' = listener
  BY Zenon DEF Client, do_async_start, CancelStart, do_async_wait, CancelWait, request_stop, post_stop
<1>1. ASSUME NEW i \in Operation, NEW h \in Task, h \in Posted(i), i \notin submitted,
             submitted' = submitted \cup {i}, strand' = Append(strand, h),
             UNCHANGED <<cancelled, stopper>>
      PROVE  LInv'
  <2>1. LET q == Append(strand, h)
        IN  /\ Current(listener, q) /\ Bounded(listener, q, submitted \cup {i})
            /\ Ledger(listener, q, submitted \cup {i}) /\ Asked(q, cancelled)
    BY <1>1, CallMade
  <2>2. Calls'
    BY <1>1 DEF LInv, Calls
  <2>3. QED
    BY <1>0, <1>1, <2>1, <2>2 DEF LInv
<1>2. ASSUME NEW h \in Task, h.op \in {"stop", "cancel_wait"}, strand' = Append(strand, h),
             cancelled \subseteq cancelled', h.op = "cancel_wait" => h.id \in cancelled',
             submitted' = submitted, Calls'
      PROVE  LInv'
  <2>1. LET q == Append(strand, h)
        IN  /\ Current(listener, q) /\ Bounded(listener, q, submitted)
            /\ Ledger(listener, q, submitted) /\ Asked(q, cancelled')
    BY <1>2, OtherPosted
  <2>2. QED
    BY <1>0, <1>2, <2>1 DEF LInv
<1>3. ASSUME strand' = strand, submitted' = submitted, cancelled \subseteq cancelled', Calls'
      PROVE  LInv'
  BY <1>0, <1>3 DEF LInv, Asked
<1>4. ASSUME NEW i \in Starts, do_async_start(i) PROVE LInv'
  <2> DEFINE h == [op |-> "start", id |-> i]
  <2>1. h \in Task /\ h \in Posted(i) /\ i \in Operation
    BY Literals DEF Task, Posted
  <2>2. /\ i \notin submitted /\ submitted' = submitted \cup {i} /\ strand' = Append(strand, h)
        /\ UNCHANGED <<cancelled, stopper>>
    BY <1>4 DEF do_async_start
  <2> HIDE DEF h
  <2>3. QED
    BY <1>1, <2>1, <2>2
<1>5. ASSUME NEW i \in Waits, do_async_wait(i) PROVE LInv'
  <2> DEFINE h == [op |-> "wait", id |-> i]
  <2>1. h \in Task /\ h \in Posted(i) /\ i \in Operation
    BY Literals DEF Task, Posted
  <2>2. /\ i \notin submitted /\ submitted' = submitted \cup {i} /\ strand' = Append(strand, h)
        /\ UNCHANGED <<cancelled, stopper>>
    BY <1>5 DEF do_async_wait
  <2> HIDE DEF h
  <2>3. QED
    BY <1>1, <2>1, <2>2
<1>6. ASSUME NEW i \in Starts, CancelStart(i) PROVE LInv'
  <2>1. Calls'
    BY <1>6, Literals DEF CancelStart, LInv, Calls
  <2>2. QED
    BY <1>3, <1>6, <2>1 DEF CancelStart
<1>7. ASSUME NEW i \in Waits, CancelWait(i) PROVE LInv'
  <2> DEFINE h == [op |-> "cancel_wait", id |-> i]
  <2>1. h \in Task /\ h.op = "cancel_wait" /\ h.id = i
    BY DEF Task
  <2>2. /\ strand' = Append(strand, h) /\ submitted' = submitted
        /\ cancelled' = cancelled \cup {i}
    BY <1>7 DEF CancelWait
  <2>3. Calls'
    BY <1>7, Literals DEF CancelWait, LInv, Calls
  <2> HIDE DEF h
  <2>4. QED
    BY <1>2, <2>1, <2>2, <2>3
<1>8. ASSUME NEW t \in Stoppers, request_stop(t) \/ post_stop(t) PROVE LInv'
  <2> DEFINE h == [op |-> "stop"]
  <2>1. h \in Task /\ h.op = "stop"
    BY DEF Task
  <2>2. /\ strand' \in {strand, Append(strand, h)} /\ submitted' = submitted
        /\ cancelled' = cancelled
    BY <1>8 DEF request_stop, post_stop
  <2>3. Calls'
    BY <1>8 DEF request_stop, post_stop, LInv, Calls
  <2> HIDE DEF h
  <2>4. QED
    BY <1>2, <1>3, <2>1, <2>2, <2>3
<1>9. QED
  BY <1>0, <1>4, <1>5, <1>6, <1>7, <1>8 DEF Client

\* The timer.
LEMMA ExpiryBooks ==
  ASSUME Types, LInv, shutdown_timer_expires \/ deliver
  PROVE  LInv' /\ Silent(listener, listener')
<1> DEFINE h == [op |-> "shutdown"]
<1>1. h \in Task /\ h.op = "shutdown"
  BY DEF Task
<1>2. /\ strand' \in {strand, Append(strand, h)}
      /\ UNCHANGED <<submitted, cancelled, stopper>>
  BY DEF shutdown_timer_expires, deliver
<1>3. Calm(listener, listener') /\ Silent(listener, listener')
  BY Zenon DEF Types, Members, shutdown_timer_expires, deliver, Calm, Silent
<1> HIDE DEF h
<1>4. /\ Current(listener, strand') /\ Bounded(listener, strand', submitted)
      /\ Ledger(listener, strand', submitted) /\ Asked(strand', cancelled)
  BY <1>1, <1>2, OtherPosted, Zenon DEF LInv
<1>5. /\ Current(listener', strand') /\ Bounded(listener', strand', submitted)
      /\ Ledger(listener', strand', submitted)
  BY <1>3, <1>4, CalmNumbers DEF Silent, Ledger, InOnePlace
<1>6. QED
  BY <1>2, <1>3, <1>4, <1>5 DEF LInv, Calls

\* A session goes on, or reports for the first time.
GoesOn(s) ==
  \E next : /\ listener' = [listener EXCEPT !.sessions[s] = next]
            /\ \/ /\ next.finished = listener.sessions[s].finished
                  /\ strand' = strand
               \/ /\ ~listener.sessions[s].finished /\ next.finished = TRUE
                  /\ \E ec \in SessionResult : strand' = Append(strand, Report(s, ec))

LEMMA SessionGoesOn ==
  ASSUME Types, NEW s \in 1..Len(listener.sessions),
         SessionStrand(s) \/ \E ec \in SessionResult : session_completes(s, ec)
  PROVE  GoesOn(s) /\ UNCHANGED <<submitted, cancelled, stopper>>
<1> DEFINE z == listener.sessions[s]
<1>1. z \in Session
  BY DEF Types, Members
<1>2. ASSUME NEW next, next.finished = z.finished, DOMAIN next = DOMAIN z, NEW ec \in SessionResult,
             session_finish(s, next, ec)
      PROVE  GoesOn(s) /\ UNCHANGED <<submitted, cancelled, stopper>>
  <2> DEFINE n == [next EXCEPT !.finished = TRUE]
  <2>1. n.finished = TRUE
    BY <1>1, <1>2 DEF Session
  <2>2. /\ listener' = [listener EXCEPT !.sessions[s] = n]
        /\ strand' = IF z.finished THEN strand ELSE Append(strand, Report(s, ec))
        /\ UNCHANGED <<submitted, cancelled, stopper>>
    BY <1>2 DEF session_finish, Report
  <2> HIDE DEF n
  <2>3. z.finished \in BOOLEAN
    BY <1>1 DEF Session
  <2>4. QED
    BY <2>1, <2>2, <2>3, Zenon DEF GoesOn
<1>3. /\ popped(s).finished = z.finished /\ DOMAIN popped(s) = DOMAIN z
      /\ \A x : /\ [popped(s) EXCEPT !.session = x].finished = z.finished
                /\ DOMAIN [popped(s) EXCEPT !.session = x] = DOMAIN z
                /\ [z EXCEPT !.session = x].finished = z.finished
                /\ DOMAIN [z EXCEPT !.session = x] = DOMAIN z
  BY <1>1 DEF popped, Session
<1>4. "failed" \in SessionResult /\ "aborted" \in SessionResult
  BY DEF SessionResult
<1>5. CASE SessionStrand(s)
  <2>1. CASE session_start(s)
    <3>1. CASE session_finish(s, [popped(s) EXCEPT !.session = "returned"], "failed")
      BY <1>2, <1>3, <1>4, <3>1, Zenon
    <3>2. CASE /\ listener' = [listener EXCEPT !.sessions[s] =
                                  [popped(s) EXCEPT !.session = "running"]]
               /\ UNCHANGED <<strand, submitted, cancelled, stopper>>
      BY <1>3, <3>2, Zenon DEF GoesOn
    <3>3. QED
      BY <2>1, <3>1, <3>2 DEF session_start
  <2>2. CASE session_request_stop(s)
    BY <1>3, <2>2, Zenon DEF session_request_stop, GoesOn
  <2>3. CASE session_force_close(s)
    BY <1>2, <1>3, <1>4, <2>3 DEF session_force_close
  <2>4. QED
    BY <1>5, <2>1, <2>2, <2>3 DEF SessionStrand
<1>6. CASE \E ec \in SessionResult : session_completes(s, ec)
  BY <1>2, <1>3, <1>6, Zenon DEF session_completes
<1>7. QED
  BY <1>5, <1>6

\* The only session that can report for the first time is m_session.
LEMMA SessionBooks ==
  ASSUME Types, LInv, NEW s \in 1..Len(listener.sessions),
         SessionStrand(s) \/ \E ec \in SessionResult : session_completes(s, ec)
  PROVE  LInv' /\ Silent(listener, listener')
<1>1. GoesOn(s) /\ UNCHANGED <<submitted, cancelled, stopper>>
  BY SessionGoesOn
<1>2. PICK next : /\ listener' = [listener EXCEPT !.sessions[s] = next]
                  /\ \/ /\ next.finished = listener.sessions[s].finished
                        /\ strand' = strand
                     \/ /\ ~listener.sessions[s].finished /\ next.finished = TRUE
                        /\ \E ec \in SessionResult : strand' = Append(strand, Report(s, ec))
  BY <1>1, Zenon DEF GoesOn
<1> DEFINE z == listener.sessions
           y == [z EXCEPT ![s] = next]
<1>3. /\ listener \in Members /\ strand \in Seq(Task) /\ z \in Seq(Session)
      /\ Current(listener, strand) /\ Bounded(listener, strand, submitted)
      /\ Ledger(listener, strand, submitted) /\ Asked(strand, cancelled)
  BY DEF Types, Members, LInv
<1>4. /\ Silent(listener, listener') /\ listener'.sessions = y
      /\ listener'.m_session = listener.m_session /\ listener'.generation = listener.generation
  BY <1>2, <1>3 DEF Members, Silent
<1>5. /\ Len(y) = Len(z) /\ y[s] = next /\ Len(z) \in Nat
      /\ \A k \in 1..Len(z) : k # s => y[k] = z[k]
  BY <1>3
<1> HIDE DEF y
<1>6. \A q : Bounded(listener, q, submitted) => Bounded(listener', q, submitted)
  BY <1>4, <1>5 DEF Bounded
<1>7. \A q : Ledger(listener, q, submitted) => Ledger(listener', q, submitted)
  BY <1>4 DEF Ledger, InOnePlace, Silent
<1>8. Calls'
  BY <1>1 DEF LInv, Calls
<1>9. CASE next.finished = z[s].finished /\ strand' = strand
  <2>1. Calm(listener, listener')
    BY <1>4, <1>5, <1>9 DEF Calm
  <2>2. QED
    BY <1>1, <1>3, <1>4, <1>6, <1>7, <1>8, <1>9, <2>1, CalmNumbers, Zenon DEF LInv
<1>10. CASE /\ ~z[s].finished /\ next.finished = TRUE
            /\ \E ec \in SessionResult : strand' = Append(strand, Report(s, ec))
  <2>1. PICK ec \in SessionResult : strand' = Append(strand, Report(s, ec))
    BY <1>10
  <2> DEFINE h == Report(s, ec)
             q == Append(strand, h)
  <2>2. h \in Task /\ h.op = "session_finished" /\ h.id = s
    BY DEF Task, Report
  <2> HIDE DEF h
  <2>3. strand' = q
    BY <2>1 DEF h
  <2>4. \A r : h \in Reports(r) <=> r = s
    BY <2>2, Kinds
  <2>5. \A X : /\ Meets(q, X) <=> Meets(strand, X) \/ h \in X
               /\ MeetsOnce(strand, X) /\ ~(Meets(strand, X) /\ h \in X) => MeetsOnce(q, X)
    BY <1>3, <2>2, AppendMeets
  <2>6. Ledger(listener, q, submitted) /\ Bounded(listener, q, submitted)
    BY <1>3, <2>2, CallPosted
  <2>7. Asked(q, cancelled)
    BY <1>3, <2>2, RecallPosted
  <2> HIDE DEF q
  <2>8. ~Meets(strand, Reports(s)) /\ s = listener.m_session
    BY <1>3, <1>10 DEF Current
  <2>9. Current(listener', q)
    <3>1. listener'.m_session \in 0..Len(listener'.sessions)
      BY <1>3, <1>4, <1>5 DEF Current
    <3>2. ASSUME NEW r \in 1..Len(listener'.sessions)
          PROVE  /\ MeetsOnce(q, Reports(r))
                 /\ Meets(q, Reports(r)) => listener'.sessions[r].finished
                 /\ r = listener'.m_session <=>
                      ~listener'.sessions[r].finished \/ Meets(q, Reports(r))
      <4>1. CASE r = s
        BY <1>3, <1>4, <1>5, <1>10, <2>4, <2>5, <2>8, <4>1, Zenon DEF Current
      <4>2. CASE r # s
        BY <1>3, <1>4, <1>5, <2>4, <2>5, <4>2, Zenon DEF Current
      <4>3. QED
        BY <4>1, <4>2
    <3>3. \A r \in Nat \ (1..Len(listener'.sessions)) : ~Meets(q, Reports(r))
      BY <1>3, <1>4, <1>5, <2>4, <2>5 DEF Current
    <3>4. QED
      BY <3>1, <3>2, <3>3, Zenon DEF Current
  <2>10. QED
    BY <1>1, <1>4, <1>6, <1>7, <1>8, <2>3, <2>6, <2>7, <2>9 DEF LInv
<1>11. QED
  BY <1>2, <1>9, <1>10, Zenon

-----------------------------------------------------------------------------
(* The promises that rest on the books *)

\* Every step keeps the books and tells the truth to whoever waits.
LEMMA BooksKept ==
  ASSUME Types, Cause, LInv, [Next]_vars
  PROVE  LInv' /\ Honest(listener, listener', cancelled)
<1>1. CASE UNCHANGED vars
  BY <1>1 DEF vars, LInv, Calls, Honest
<1>2. CASE Client
  BY <1>2, ClientBooks DEF Honest
<1>3. CASE Strand
  BY <1>3, start_without_effect_books, start_on_strand_books, wait_on_strand_books,
     cancel_wait_books, StopBooks, session_finished_books DEF Strand
<1>4. CASE shutdown_timer_expires \/ deliver
  BY <1>4, ExpiryBooks DEF Honest, Silent
<1>5. CASE \E s \in 1..Len(listener.sessions) :
             SessionStrand(s) \/ \E ec \in SessionResult : session_completes(s, ec)
  BY <1>5, SessionBooks DEF Honest, Silent
<1>6. QED
  BY <1>1, <1>2, <1>3, <1>4, <1>5 DEF Next

\* The books are right from the beginning.
LEMMA BooksInitially ==
  ASSUME Init
  PROVE  LInv
<1>0. /\ listener.m_session = 0 /\ listener.sessions = << >> /\ listener.generation = 0
      /\ listener.waiters = {} /\ strand = << >> /\ submitted = {} /\ cancelled = {}
      /\ \A i \in Operation : listener.completions[i] = << >>
      /\ stopper \in [Stoppers -> {"new", "checked", "returned"}]
  BY DEF Init
<1>1. \A X : ~Meets(strand, X) /\ MeetsOnce(strand, X)
  BY <1>0, EmptyMeets
<1>2. Current(listener, strand)
  BY <1>0, <1>1 DEF Current
<1>3. Bounded(listener, strand, submitted)
  BY <1>0, RanFinite DEF Bounded
<1>4. Ledger(listener, strand, submitted) /\ Asked(strand, cancelled)
  BY <1>0, <1>1 DEF Ledger, InOnePlace, Asked
<1>5. QED
  BY <1>0, <1>2, <1>3, <1>4 DEF LInv, Calls

\* The inductive invariant of the session and of the calls.
THEOREM SocketBooks == Spec => [](Types /\ LInv)
<1>1. Init => LInv
  BY BooksInitially
<1>2. Types /\ Cause /\ LInv /\ [Next]_vars => LInv'
  BY BooksKept
<1>3. QED
  BY <1>1, <1>2, CauseInvariant, PTL DEF Spec

\* TypeOK: a generation and a session for each start at most, and no report is
\* queued but of a session there is.
THEOREM SocketTypes == Spec => []TypeOK
<1>1. Types /\ LInv => TypeOK
  <2> SUFFICES ASSUME Types, LInv PROVE TypeOK
    OBVIOUS
  <2> DEFINE n == Cardinality(Starts)
  <2>1. listener \in Members /\ strand \in Seq(Task) /\ Calls
    BY DEF Types, LInv
  <2>2. /\ n \in Nat /\ listener.generation \in 0..n
        /\ Len(listener.sessions) \in 0..n /\ listener.m_session \in 0..n
    BY <2>1, RanFinite DEF LInv, Bounded, Current, Members
  <2> HIDE DEF n
  <2>3. listener \in Listener
    <3>1. SessionId \cup {0} = 0..n
      BY <2>2 DEF SessionId, n
    <3>2. QED
      BY <2>1, <2>2, <3>1 DEF Listener, Members, n
  <2>4. ASSUME NEW k \in DOMAIN strand PROVE strand[k] \in Handler
    <3>1. strand[k] \in Task
      BY <2>1
    <3>2. CASE strand[k] \in [op : {"session_finished"}, id : Nat, ec : SessionResult]
      <4>1. Meets(strand, Reports(strand[k].id)) /\ strand[k].id \in Nat
        BY <3>1, <3>2, Kinds DEF Meets
      <4>2. strand[k].id \in 1..Len(listener.sessions)
        BY <4>1 DEF LInv, Current
      <4>3. strand[k].id \in SessionId
        BY <2>2, <4>1, <4>2 DEF SessionId, n
      <4>4. QED
        BY <3>2, <4>3 DEF Handler
    <3>3. QED
      BY <3>1, <3>2 DEF Task, Handler
  <2>5. strand \in Seq(Handler)
    BY <2>1, <2>4
  <2>6. QED
    BY <2>1, <2>3, <2>5 DEF TypeOK, Calls
<1>2. QED
  BY <1>1, SocketBooks, PTL

\* SessionIsCurrent: session_finished may reset m_session without asking whose
\* report it handles, for m_session is the only session with a report to make.
THEOREM SessionStaysCurrent == Spec => []SessionIsCurrent
<1>1. Types /\ LInv => SessionIsCurrent
  <2> SUFFICES ASSUME Types, LInv, NEW s \in DOMAIN listener.sessions
               PROVE  LET reports == Cardinality({k \in DOMAIN strand :
                            strand[k].op = "session_finished" /\ strand[k].id = s})
                      IN  /\ s = listener.m_session <=>
                               ~listener.sessions[s].finished \/ reports = 1
                          /\ reports <= (IF listener.sessions[s].finished THEN 1 ELSE 0)
    BY DEF SessionIsCurrent
  <2>1. /\ listener \in Members /\ strand \in Seq(Task) /\ s \in 1..Len(listener.sessions)
        /\ Current(listener, strand)
    BY DEF Types, LInv, Members
  <2> DEFINE R == {k \in DOMAIN strand : strand[k].op = "session_finished" /\ strand[k].id = s}
  <2>2. R = {k \in DOMAIN strand : strand[k] \in Reports(s)}
    <3>1. \A k \in DOMAIN strand : strand[k] \in Task
      BY <2>1
    <3>2. QED
      BY <3>1, Kinds
  <2>3. Cardinality(R) = IF Meets(strand, Reports(s)) THEN 1 ELSE 0
    <3> HIDE DEF R
    <3>1. (\A j, k \in R : j = k) /\ (Meets(strand, Reports(s)) <=> R # {})
      BY <2>1, <2>2, Zenon DEF Current, Meets, MeetsOnce
    <3>2. R = {} \/ \E k \in R : R = {k}
      BY <3>1
    <3>3. QED
      BY <3>1, <3>2, FS_EmptySet, FS_Singleton, Zenon
  <2>4. /\ Meets(strand, Reports(s)) => listener.sessions[s].finished
        /\ s = listener.m_session <=> ~listener.sessions[s].finished \/ Meets(strand, Reports(s))
    BY <2>1 DEF Current
  <2> HIDE DEF R
  <2>5. /\ s = listener.m_session <=> ~listener.sessions[s].finished \/ Cardinality(R) = 1
        /\ Cardinality(R) <= (IF listener.sessions[s].finished THEN 1 ELSE 0)
    BY <2>3, <2>4
  <2>6. QED
    BY <2>5 DEF R
<1>2. QED
  BY <1>1, SocketBooks, PTL

\* WaitTellsTheTruth: a wait that nobody cancelled completes only as the listener
\* stops, with the error it stopped with.
THEOREM WaitsAreTold == Spec => WaitTellsTheTruth
<1>1. Types /\ Cause /\ LInv /\ [Next]_vars => Honest(listener, listener', cancelled)
  BY BooksKept
<1>2. Honest(listener, listener', cancelled) =>
        [ \A i \in Waits \ cancelled :
            listener'.completions[i] # listener.completions[i]
              => /\ listener'.state = "stopped"
                 /\ listener'.completions[i] = <<listener'.terminal_error>> ]_vars
  BY DEF Honest
<1>3. QED
  BY <1>1, <1>2, CauseInvariant, SocketBooks, PTL DEF Spec, WaitTellsTheTruth

=============================================================================
