------------------------- MODULE EchoSessionProofs --------------------------
(***************************************************************************)
(* What a session of the examples promises, proved for every bound on the  *)
(* stale expiries of its deadline.                                         *)
(***************************************************************************)
EXTENDS EchoSession, QueueTheorems

\* A handler that goes on with the chain of operations, and one that may bring
\* an error the session must not report, or one the peer has to answer for.
Links  == {h \in Handler : h.op \in {"start", "transfer"}}
First  == {h \in Handler : h.op = "start"}
Faults == Code \ {"ok", "aborted", "bad"}
Brings(C) == {h \in Handler : h.op = "transfer" /\ h.ec \in C}

\* The operations an example has.
Operations ==
  CASE example = "HttpEcho"  -> {"read", "write"}
    [] example = "HttpsEcho" -> {"handshake", "read", "write", "shutdown"}
    [] OTHER                 -> Op

\* The chain is in one place: queued on the strand or with the socket, until the
\* session has completed.  So no session is lost, and none has two operations.
Chained(s, q) ==
  /\ s.handled \in {0, 1}
  /\ MeetsOnce(q, Links)
  /\ Meets(q, Links) <=> s.handled = 0 /\ s.transfer = "none"
  /\ s.handled = 1 => s.transfer = "none"
  /\ s.op = "none" <=> s.handled = 1 \/ Meets(q, First)
  /\ s.op \in Operations \cup {"none"}

\* No error is on its way that the session could report and should not: that of
\* a closed socket is late, any other is the peer's.
Carries(s, q, C) == Meets(q, Brings(C)) \/ (s.transfer = "flying" /\ s.ec \in C)

Blameless(s, q) ==
  /\ s.open <=> ~s.finished
  /\ ~s.finished => ~Carries(s, q, {"bad"})
  /\ ~s.broken => ~Carries(s, q, Faults) /\ s.reported \in {"none", "ok", "aborted"}

IInv == Chained(session, strand) /\ Blameless(session, strand)

Kept(s, q) == s \in Session /\ Chained(s, q) /\ Blameless(s, q)

-----------------------------------------------------------------------------
(* The socket and the owner of the session *)

\* What cancel_socket changes.
LEMMA cancel_socket_does ==
  ASSUME NEW s \in Session
  PROVE  LET m == cancel_socket(s)
         IN  /\ m \in Session
             /\ m.op = s.op /\ m.open = s.open /\ m.handled = s.handled
             /\ m.finished = s.finished /\ m.reported = s.reported /\ m.broken = s.broken
             /\ s.transfer # "waiting" => m.transfer = s.transfer /\ m.ec = s.ec
             /\ s.transfer = "waiting" => m.transfer = "flying" /\ m.ec = "aborted"
<1>1. CASE s.transfer = "waiting"
  <2> DEFINE m == [s EXCEPT !.transfer = "flying", !.ec = "aborted"]
  <2>1. m = cancel_socket(s)
    BY <1>1 DEF cancel_socket
  <2>2. m \in Session
    BY Zenon DEF Session, Code
  <2>3. QED
    BY <1>1, <2>1, <2>2, Zenon DEF Session
<1>2. CASE s.transfer # "waiting"
  BY <1>2 DEF cancel_socket
<1>3. QED
  BY <1>1, <1>2

\* Cancelling the socket keeps the chain, and blames nobody.
LEMMA CancelKept ==
  ASSUME NEW s, NEW q, Kept(s, q)
  PROVE  Kept(cancel_socket(s), q)
<1> DEFINE m == cancel_socket(s)
<1>1. /\ m \in Session
      /\ m.op = s.op /\ m.open = s.open /\ m.handled = s.handled
      /\ m.finished = s.finished /\ m.reported = s.reported /\ m.broken = s.broken
      /\ s.transfer # "waiting" => m.transfer = s.transfer /\ m.ec = s.ec
      /\ s.transfer = "waiting" => m.transfer = "flying" /\ m.ec = "aborted"
  BY cancel_socket_does DEF Kept
<1> SUFFICES Kept(m, q)
  OBVIOUS
<1> HIDE DEF m
<1>2. Chained(m, q)
  BY <1>1 DEF Kept, Chained
<1>3. \A C : "aborted" \notin C /\ ~Carries(s, q, C) => ~Carries(m, q, C)
  BY <1>1 DEF Carries
<1>4. Blameless(m, q)
  BY <1>1, <1>3 DEF Kept, Blameless, Faults
<1>5. QED
  BY <1>1, <1>2, <1>4 DEF Kept

\* A code the session may report: not that of the closed socket, unless the owner
\* has reported already, and an error only if the peer has to answer for it.
Reportable(s, ec) ==
  ec \in Code /\ (ec = "bad" => s.finished) /\ (ec \in Faults => s.broken)

\* The owner closes the socket and reports.
LEMMA FinishKept ==
  ASSUME NEW s, NEW q, NEW ec, Kept(s, q), Reportable(s, ec)
  PROVE  Kept(finish(s, ec), q)
<1>1. CASE s.finished
  BY <1>1 DEF finish
<1>2. CASE ~s.finished
  <2> DEFINE c == cancel_socket(s)
             m == [c EXCEPT !.open = FALSE, !.finished = TRUE, !.reported = ec]
  <2>1. Kept(c, q) /\ c \in Session /\ c.broken = s.broken
    BY CancelKept, cancel_socket_does DEF Kept
  <2>2. m = finish(s, ec)
    BY <1>2, <2>1 DEF finish, close_now, Session
  <2> SUFFICES Kept(m, q)
    BY <2>2
  <2> HIDE DEF c
  <2>3. /\ m \in Session
        /\ m.op = c.op /\ m.handled = c.handled /\ m.transfer = c.transfer /\ m.ec = c.ec
        /\ m.broken = c.broken /\ m.open = FALSE /\ m.finished = TRUE /\ m.reported = ec
    BY <1>2, <2>1, Zenon DEF Session, Reportable
  <2> HIDE DEF m
  <2>4. Chained(m, q)
    BY <2>1, <2>3 DEF Kept, Chained
  <2>5. \A C : Carries(m, q, C) <=> Carries(c, q, C)
    BY <2>3 DEF Carries
  <2>6. Blameless(m, q)
    BY <1>2, <2>1, <2>3, <2>5 DEF Kept, Blameless, Reportable, Faults
  <2>7. QED
    BY <2>3, <2>4, <2>6 DEF Kept
<1>3. QED
  BY <1>1, <1>2

-----------------------------------------------------------------------------
(* The chain of operations *)

\* A handler of the chain has been taken off the strand q and has not gone on yet.
Between(s, q) ==
  /\ s \in Session /\ s.handled = 0 /\ s.transfer = "none"
  /\ ~Meets(q, Links) /\ Blameless(s, q)

\* No start is queued where no link is.
LEMMA FirstIsLink ==
  ASSUME NEW q, ~Meets(q, Links)
  PROVE  ~Meets(q, First) /\ MeetsOnce(q, Links) /\ \A C : ~Meets(q, Brings(C))
BY DEF Meets, MeetsOnce, Links, First, Brings

\* The chain goes on with a transfer.
LEMMA BeginTransferKept ==
  ASSUME NEW s, NEW q, Between(s, q), s.op \in Operations
  PROVE  Kept(begin_transfer(s), q)
<1> DEFINE m == begin_transfer(s)
<1>1. /\ m \in Session
      /\ m.op = s.op /\ m.open = s.open /\ m.handled = s.handled
      /\ m.finished = s.finished /\ m.reported = s.reported /\ m.broken = s.broken
      /\ s.open => m.transfer = "waiting"
      /\ ~s.open => m.transfer = "flying" /\ m.ec = "bad"
  <2>1. CASE s.open
    BY <2>1, Zenon DEF begin_transfer, Between, Session
  <2>2. CASE ~s.open
    <3> DEFINE n == [s EXCEPT !.transfer = "flying", !.ec = "bad"]
    <3>1. m = n
      BY <2>2 DEF begin_transfer
    <3>2. n \in Session
      BY Zenon DEF Between, Session, Code
    <3>3. QED
      BY <2>2, <3>1, <3>2 DEF Between, Session
  <2>3. QED
    BY <2>1, <2>2
<1> SUFFICES Kept(m, q)
  OBVIOUS
<1> HIDE DEF m
<1>2. s.op # "none" /\ m.transfer # "none"
  BY <1>1 DEF Operations, Op
<1>3. Chained(m, q)
  BY <1>1, <1>2, FirstIsLink DEF Between, Chained
<1>4. Blameless(m, q)
  BY <1>1, FirstIsLink DEF Between, Blameless, Carries, Faults
<1>5. QED
  BY <1>1, <1>3, <1>4 DEF Kept

\* The deadline has no part in this.
LEMMA DeadlineApart ==
  ASSUME NEW s, NEW q, Between(s, q)
  PROVE  /\ Between(cancelDeadline(s), q) /\ cancelDeadline(s).op = s.op
         /\ Between(armDeadline(s), q)
         /\ \A ec : Reportable(s, ec) => Reportable(cancelDeadline(s), ec)
<1>1. \A m : /\ m \in Session /\ m.handled = s.handled /\ m.transfer = s.transfer
             /\ m.ec = s.ec /\ m.open = s.open /\ m.finished = s.finished
             /\ m.reported = s.reported /\ m.broken = s.broken
             => Between(m, q) /\ \A ec : Reportable(s, ec) => Reportable(m, ec)
  BY DEF Between, Blameless, Carries, Reportable
<1>2. s \in Session
  BY DEF Between
<1>3. QED
  BY <1>1, <1>2, Zenon DEF cancelDeadline, armDeadline, Session

\* The chain goes on with an operation.
LEMMA BeginKept ==
  ASSUME NEW s, NEW q, Between(s, q), NEW op \in Operations
  PROVE  Kept(begin_operation(s, op), q)
<1> DEFINE a == armDeadline(s)
           m == [a EXCEPT !.op = op]
<1>1. Between(a, q) /\ a \in Session
  BY DeadlineApart DEF Between
<1>2. begin_operation(s, op) = begin_transfer(m)
  BY DEF begin_operation
<1> HIDE DEF a
<1>3. op \in Op
  BY DEF Operations, Op
<1>4. /\ m \in Session /\ m.op = op /\ m.handled = a.handled /\ m.transfer = a.transfer
      /\ m.ec = a.ec /\ m.open = a.open /\ m.finished = a.finished
      /\ m.reported = a.reported /\ m.broken = a.broken
  BY <1>1, <1>3 DEF Session
<1> HIDE DEF m
<1>5. Between(m, q)
  BY <1>1, <1>4 DEF Between, Blameless, Carries
<1>6. QED
  BY <1>2, <1>4, <1>5, BeginTransferKept

\* The chain ends.
LEMMA CompleteKept ==
  ASSUME NEW s, NEW q, NEW ec, Between(s, q), Reportable(s, ec)
  PROVE  Kept(complete(s, ec), q)
<1> DEFINE c == cancelDeadline(s)
           m == [c EXCEPT !.op = "none", !.handled = 1]
<1>1. Between(c, q) /\ c \in Session /\ c.handled = 0 /\ Reportable(c, ec)
  BY DeadlineApart DEF Between
<1>2. complete(s, ec) = finish(m, ec)
  <2>1. [c EXCEPT !.op = "none", !.handled = @ + 1] = m
    BY <1>1 DEF Session
  <2>2. QED
    BY <2>1 DEF complete, Between
<1> HIDE DEF c
<1>3. /\ m \in Session /\ m.op = "none" /\ m.handled = 1 /\ m.transfer = c.transfer
      /\ m.ec = c.ec /\ m.open = c.open /\ m.finished = c.finished
      /\ m.reported = c.reported /\ m.broken = c.broken
  BY <1>1, Zenon DEF Session
<1> HIDE DEF m
<1>4. Chained(m, q)
  BY <1>1, <1>3, FirstIsLink DEF Between, Chained
<1>5. Blameless(m, q) /\ Reportable(m, ec)
  BY <1>1, <1>3 DEF Between, Blameless, Carries, Reportable
<1>6. QED
  BY <1>2, <1>3, <1>4, <1>5, FinishKept DEF Kept

\* What a handler of the chain may choose.
Choice(s, next) ==
  \/ \E op \in Operations : next = Begin(op)
  \/ \E ec : Reportable(s, ec) /\ next = Complete(ec)

\* Whatever it chooses, also when a coroutine throws instead.
LEMMA ContinueKept ==
  ASSUME NEW s, NEW q, Between(s, q), NEW next, Choice(s, next), NEW m \in continue(s, next)
  PROVE  Kept(m, q)
<1>1. CASE \E op \in Operations : next = Begin(op)
  <2>1. PICK op \in Operations : next = Begin(op)
    BY <1>1
  <2>2. next.begins /\ next.op = op
    BY <2>1 DEF Begin
  <2>3. Reportable(s, "aborted") /\ exception_to_error("aborted") = "aborted"
    BY DEF Reportable, Faults, Code, exception_to_error
  <2>4. m \in {complete(s, "aborted"), begin_operation(s, op)}
    BY <2>2, <2>3 DEF continue
  <2>5. QED
    BY <2>3, <2>4, CompleteKept, BeginKept
<1>2. CASE \E ec : Reportable(s, ec) /\ next = Complete(ec)
  <2>1. PICK ec : Reportable(s, ec) /\ next = Complete(ec)
    BY <1>2
  <2>2. ~next.begins /\ next.ec = ec
    BY <2>1 DEF Complete
  <2>3. m = complete(s, ec)
    BY <2>2 DEF continue
  <2>4. QED
    BY <2>1, <2>3, CompleteKept
<1>3. QED
  BY <1>1, <1>2 DEF Choice

\* The tables of the examples choose an operation of the example, or to complete
\* with no error or with the one that came.
LEMMA ContinuationsChoose ==
  ASSUME TypeOK, NEW s, NEW op \in Operations, NEW ec, Reportable(s, ec),
         NEW next \in Continuations(op, ec)
  PROVE  Choice(s, next)
<1>1. SUFFICES \/ next = Complete("ok") \/ next = Complete(ec)
               \/ \E o \in Operations : next = Begin(o)
  <2>1. Reportable(s, "ok")
    BY DEF Reportable, Faults, Code
  <2>2. QED
    BY <2>1 DEF Choice
<1>2. example \in {"CallbackEcho", "StreamEcho", "YieldEcho", "CoroutineEcho", "TlsEcho",
                   "HttpEcho", "HttpsEcho", "UdpEcho", "DatagramEcho"}
  BY EchoAssumption DEF TypeOK, Stream, Tls, Timed, Datagram
<1>3. CASE example \in {"CallbackEcho", "StreamEcho", "YieldEcho", "CoroutineEcho"}
  <2>1. next \in {Complete("ok"), Begin("write"), Begin("read")}
    BY <1>3 DEF Continuations, CallbackEcho, StreamEcho, YieldEcho, AwaitableEcho
  <2>2. Operations = Op
    BY <1>3 DEF Operations
  <2>3. QED
    BY <2>1, <2>2 DEF Op
<1>4. CASE example = "TlsEcho"
  <2>1. next \in {Complete("ok"), Complete(ec), Begin("shutdown"), Begin("greeting"),
                  Begin("write"), Begin("read")}
    BY <1>4 DEF Continuations, TlsEcho
  <2>2. Operations = Op
    BY <1>4 DEF Operations
  <2>3. QED
    BY <2>1, <2>2 DEF Op
<1>5. CASE example = "HttpEcho"
  <2>1. Operations = {"read", "write"}
    BY <1>5 DEF Operations
  <2>2. next \in {Complete("ok"), Complete(ec), Begin("write"), Begin("read")}
    BY <1>5, <2>1 DEF Continuations, HttpEcho, cleared
  <2>3. QED
    BY <2>1, <2>2
<1>6. CASE example = "HttpsEcho"
  <2>1. Operations = {"handshake", "read", "write", "shutdown"}
    BY <1>6 DEF Operations
  <2>2. next \in {Complete("ok"), Complete(ec), Begin("shutdown"), Begin("write"), Begin("read")}
    BY <1>6, <2>1 DEF Continuations, HttpsEcho, cleared
  <2>3. QED
    BY <2>1, <2>2
<1>7. CASE example \in {"UdpEcho", "DatagramEcho"}
  <2>1. next \in {Complete("ok"), Begin("send"), Begin("receive")}
    BY <1>7 DEF Continuations, UdpEcho, DatagramEcho
  <2>2. Operations = Op
    BY <1>7 DEF Operations
  <2>3. QED
    BY <2>1, <2>2 DEF Op
<1>8. QED
  BY <1>2, <1>3, <1>4, <1>5, <1>6, <1>7

-----------------------------------------------------------------------------
(* The strand *)

\* A handler that is no link of the chain comes and goes.
LEMMA OtherQueued ==
  ASSUME NEW s, NEW q \in Seq(Handler), Kept(s, q), NEW h \in Handler \ Links
  PROVE  Append(q, h) \in Seq(Handler) /\ Kept(s, Append(q, h))
<1>0. h \notin First /\ \A C : h \notin Brings(C)
  BY DEF Links, First, Brings
<1>1. /\ Append(q, h) \in Seq(Handler)
      /\ \A X : h \notin X => /\ Meets(Append(q, h), X) <=> Meets(q, X)
                              /\ MeetsOnce(q, X) => MeetsOnce(Append(q, h), X)
  BY AppendMeets
<1>2. Chained(s, Append(q, h))
  BY <1>0, <1>1 DEF Kept, Chained
<1>3. Blameless(s, Append(q, h))
  BY <1>0, <1>1 DEF Kept, Blameless, Carries
<1>4. QED
  BY <1>1, <1>2, <1>3 DEF Kept

LEMMA OtherTaken ==
  ASSUME NEW s, NEW q \in Seq(Handler), q # << >>, Kept(s, q), Head(q) \notin Links
  PROVE  Tail(q) \in Seq(Handler) /\ Kept(s, Tail(q))
<1>0. Head(q) \notin First /\ \A C : Head(q) \notin Brings(C)
  BY DEF Links, First, Brings
<1>1. /\ Tail(q) \in Seq(Handler)
      /\ \A X : Head(q) \notin X => /\ Meets(q, X) <=> Meets(Tail(q), X)
                                    /\ MeetsOnce(q, X) => MeetsOnce(Tail(q), X)
  BY TailMeets
<1>2. Chained(s, Tail(q))
  BY <1>0, <1>1 DEF Kept, Chained
<1>3. Blameless(s, Tail(q))
  BY <1>0, <1>1 DEF Kept, Blameless, Carries
<1>4. QED
  BY <1>1, <1>2, <1>3 DEF Kept

\* The link of the chain is taken: a start, or a transfer with a code the session
\* may report.
LEMMA LinkTaken ==
  ASSUME NEW s, NEW q \in Seq(Handler), q # << >>, Kept(s, q), Head(q) \in Links
  PROVE  /\ Tail(q) \in Seq(Handler) /\ Between(s, Tail(q))
         /\ Head(q).op = "transfer" => s.op \in Operations /\ Reportable(s, Head(q).ec)
<1>1. /\ Head(q) \in Handler /\ Tail(q) \in Seq(Handler)
      /\ \A X : /\ Meets(q, X) <=> Meets(Tail(q), X) \/ Head(q) \in X
                /\ MeetsOnce(q, X) => ~(Meets(Tail(q), X) /\ Head(q) \in X)
  BY TailMeets
<1>2. s \in Session /\ s.handled = 0 /\ s.transfer = "none" /\ ~Meets(Tail(q), Links)
  BY <1>1 DEF Kept, Chained
<1>3. Blameless(s, Tail(q))
  BY <1>1 DEF Kept, Blameless, Carries
<1>4. ASSUME Head(q).op = "transfer"
      PROVE  s.op \in Operations /\ Reportable(s, Head(q).ec)
  <2>1. Head(q).ec \in Code /\ \A C : Head(q).ec \in C => Head(q) \in Brings(C)
    BY <1>1, <1>4 DEF Handler, Brings
  <2>2. ~Meets(q, First)
    BY <1>1, <1>2, <1>4, FirstIsLink DEF First
  <2>3. s.op \in Operations
    BY <1>2, <2>2 DEF Kept, Chained
  <2>4. \A C : Head(q).ec \in C => Carries(s, q, C)
    BY <1>1, <2>1 DEF Carries
  <2>5. Reportable(s, Head(q).ec)
    BY <2>1, <2>4 DEF Kept, Blameless, Reportable
  <2>6. QED
    BY <2>3, <2>5
<1>5. QED
  BY <1>1, <1>2, <1>3, <1>4 DEF Between

-----------------------------------------------------------------------------
(* The steps *)

After == example' = example /\ strand' \in Seq(Handler) /\ Kept(session', strand')

\* The listener posts a stop.
LEMMA post_kept ==
  ASSUME TypeOK, IInv, NEW what \in {"request_stop", "force_close"}, post(what)
  PROVE  After
<1> DEFINE h == [op |-> what]
           m == [session EXCEPT !.posted = @ \cup {what}]
<1>1. h \in Handler \ Links /\ strand \in Seq(Handler)
  BY DEF Handler, Links, TypeOK
<1>2. /\ m \in Session /\ m.op = session.op /\ m.handled = session.handled
      /\ m.transfer = session.transfer /\ m.ec = session.ec /\ m.open = session.open
      /\ m.finished = session.finished /\ m.reported = session.reported
      /\ m.broken = session.broken
  BY DEF TypeOK, Session
<1>3. session' = m /\ strand' = Append(strand, h) /\ example' = example
  BY DEF post
<1> HIDE DEF h, m
<1>4. Kept(m, strand)
  BY <1>2 DEF Kept, IInv, Chained, Blameless, Carries
<1>5. QED
  BY <1>1, <1>3, <1>4, OtherQueued DEF After

\* The peer answers.
LEMMA transfer_completes_kept ==
  ASSUME TypeOK, IInv, NEW ec \in TransferResult(session.op), transfer_completes(ec)
  PROVE  After
<1> DEFINE m == session'
<1>0. ec \in Code \ {"bad", "aborted"} /\ session.transfer = "waiting"
  BY DEF TransferResult, Code, transfer_completes
<1>1. /\ m \in Session /\ m.op = session.op /\ m.handled = session.handled
      /\ m.transfer = "flying" /\ m.ec = ec /\ m.open = session.open
      /\ m.finished = session.finished /\ m.reported = session.reported
      /\ m.broken = (session.broken \/ ec # "ok")
  BY <1>0, Zenon DEF TypeOK, Session, transfer_completes
<1>2. strand' = strand /\ example' = example /\ strand \in Seq(Handler)
  BY DEF transfer_completes, TypeOK
<1> HIDE DEF m
<1>3. Chained(m, strand)
  BY <1>0, <1>1 DEF IInv, Chained
<1>4. Blameless(m, strand)
  BY <1>0, <1>1, Zenon DEF IInv, Blameless, Carries, Faults
<1>5. QED
  BY <1>1, <1>2, <1>3, <1>4 DEF After, Kept, m

\* The deadline expires, and its expiry is queued.
LEMMA deadline_kept ==
  ASSUME TypeOK, IInv, deadline_expires \/ deliver_deadline
  PROVE  After
<1> DEFINE m == session'
           h == [op |-> "deadline"]
<1>0. h \in Handler \ Links /\ strand \in Seq(Handler)
  BY DEF Handler, Links, TypeOK
<1>1. /\ m \in Session /\ m.op = session.op /\ m.handled = session.handled
      /\ m.transfer = session.transfer /\ m.ec = session.ec /\ m.open = session.open
      /\ m.finished = session.finished /\ m.reported = session.reported
      /\ m.broken = session.broken
  <2>1. session \in Session /\ session.expired \in 0..MaxStale /\ MaxStale \in Nat
    BY EchoAssumption DEF TypeOK, Session
  <2>2. CASE deadline_expires
    <3>1. session.expired + 1 \in 0..MaxStale
      BY <2>1, <2>2 DEF deadline_expires
    <3>2. m = [session EXCEPT !.armed = FALSE, !.expired = session.expired + 1]
      BY <2>1, <2>2 DEF deadline_expires, Session
    <3>3. QED
      BY <2>1, <3>1, <3>2, Zenon DEF Session
  <2>3. CASE deliver_deadline
    <3>1. session.expired - 1 \in 0..MaxStale
      BY <2>1, <2>3 DEF deliver_deadline
    <3>2. m = [session EXCEPT !.expired = session.expired - 1]
      BY <2>1, <2>3 DEF deliver_deadline, Session
    <3>3. QED
      BY <2>1, <3>1, <3>2 DEF Session
  <2>4. QED
    BY <2>2, <2>3
<1>2. example' = example /\ strand' \in {strand, Append(strand, h)}
  BY DEF deadline_expires, deliver_deadline
<1> HIDE DEF h, m
<1>3. Kept(m, strand)
  BY <1>1 DEF Kept, IInv, Chained, Blameless, Carries
<1>4. QED
  BY <1>0, <1>2, <1>3, OtherQueued, Zenon DEF After, m

\* The completion of a transfer is queued: the link moves from the socket to the
\* strand.
LEMMA deliver_transfer_kept ==
  ASSUME TypeOK, IInv, deliver_transfer
  PROVE  After
<1> DEFINE h == [op |-> "transfer", ec |-> session.ec]
           q == Append(strand, h)
           m == [session EXCEPT !.transfer = "none"]
<1>0. strand \in Seq(Handler) /\ session.transfer = "flying" /\ session.ec \in Code
  BY DEF TypeOK, Session, deliver_transfer
<1>1. h \in Handler /\ h \in Links /\ h \notin First
      /\ \A C : h \in Brings(C) <=> session.ec \in C
  BY <1>0 DEF Handler, Links, First, Brings
<1>2. /\ m \in Session /\ m.op = session.op /\ m.handled = session.handled
      /\ m.transfer = "none" /\ m.ec = session.ec /\ m.open = session.open
      /\ m.finished = session.finished /\ m.reported = session.reported
      /\ m.broken = session.broken
  BY DEF TypeOK, Session
<1>3. session' = m /\ strand' = q /\ example' = example
  BY DEF deliver_transfer
<1> HIDE DEF h, m
<1>4. /\ q \in Seq(Handler)
      /\ \A X : /\ Meets(q, X) <=> Meets(strand, X) \/ h \in X
                /\ MeetsOnce(strand, X) /\ ~(Meets(strand, X) /\ h \in X) => MeetsOnce(q, X)
  BY <1>0, <1>1, AppendMeets
<1> HIDE DEF q
<1>5. Chained(m, q)
  BY <1>0, <1>1, <1>2, <1>4 DEF IInv, Chained
<1>6. Blameless(m, q)
  BY <1>0, <1>1, <1>2, <1>4 DEF IInv, Blameless, Carries
<1>7. QED
  BY <1>2, <1>3, <1>4, <1>5, <1>6 DEF After, Kept

\* The handlers that are no link of the chain.
LEMMA OthersKept ==
  ASSUME TypeOK, IInv, deadline_handler \/ request_stop \/ force_close
  PROVE  After
<1> DEFINE q == Tail(strand)
<1>1. strand \in Seq(Handler) /\ strand # << >> /\ Head(strand) \notin Links
      /\ strand' = q /\ example' = example /\ Kept(session, strand)
  BY DEF TypeOK, IInv, Kept, Links, Running, Return, deadline_handler, request_stop, force_close
<1>2. q \in Seq(Handler) /\ Kept(session, q) /\ session \in Session
  BY <1>1, OtherTaken DEF Kept
<1> HIDE DEF q
<1>3. CASE deadline_handler
  <2> DEFINE c == cancel_socket(session)
             m == [c EXCEPT !.missed = session.transfer # "waiting"]
  <2>1. Kept(c, q) /\ c \in Session
    BY <1>2, CancelKept DEF Kept
  <2>2. session' = m
    BY <1>3 DEF deadline_handler
  <2> HIDE DEF c
  <2>3. /\ m \in Session /\ m.op = c.op /\ m.handled = c.handled
        /\ m.transfer = c.transfer /\ m.ec = c.ec /\ m.open = c.open
        /\ m.finished = c.finished /\ m.reported = c.reported /\ m.broken = c.broken
    BY <2>1, Zenon DEF Session
  <2> HIDE DEF m
  <2>4. Kept(m, q)
    BY <2>1, <2>3 DEF Kept, Chained, Blameless, Carries
  <2>5. QED
    BY <1>1, <1>2, <2>2, <2>4 DEF After
<1>4. CASE request_stop
  <2> DEFINE m == [session EXCEPT !.cancelled = TRUE]
  <2>1. /\ m \in Session /\ m.op = session.op /\ m.handled = session.handled
        /\ m.transfer = session.transfer /\ m.ec = session.ec /\ m.open = session.open
        /\ m.finished = session.finished /\ m.reported = session.reported
        /\ m.broken = session.broken
    BY <1>2, Zenon DEF Session
  <2>2. session' = cancel_socket(m)
    BY <1>4 DEF request_stop
  <2> HIDE DEF m
  <2>3. Kept(m, q)
    BY <1>2, <2>1 DEF Kept, Chained, Blameless, Carries
  <2>4. QED
    BY <1>1, <1>2, <2>2, <2>3, CancelKept DEF After
<1>5. CASE force_close
  <2>1. session' = finish(session, "aborted")
    BY <1>5 DEF force_close
  <2>2. Reportable(session, "aborted")
    BY DEF Reportable, Faults, Code
  <2>3. QED
    BY <1>1, <1>2, <2>1, <2>2, FinishKept DEF After
<1>6. QED
  BY <1>3, <1>4, <1>5

\* The first link: every example has a first operation.
LEMMA start_kept ==
  ASSUME TypeOK, IInv, start
  PROVE  After
<1>1. strand \in Seq(Handler) /\ strand # << >> /\ Head(strand).op = "start"
      /\ strand' = Tail(strand) /\ example' = example /\ Kept(session, strand)
      /\ session' = begin_operation(session, FirstOperation)
  BY DEF TypeOK, IInv, Kept, Running, Return, start
<1>2. Head(strand) \in Links
  BY <1>1, TailMeets DEF Links
<1>3. Tail(strand) \in Seq(Handler) /\ Between(session, Tail(strand))
  BY <1>1, <1>2, LinkTaken
<1>4. FirstOperation \in Operations
  <2>1. example \in Stream \cup Tls \cup Timed \cup Datagram
    BY EchoAssumption DEF TypeOK
  <2>2. QED
    BY <2>1 DEF FirstOperation, Operations, Stream, Tls, Timed, Datagram, Op
<1>5. QED
  BY <1>1, <1>3, <1>4, BeginKept DEF After

\* The other links.
LEMMA transfer_handler_kept ==
  ASSUME TypeOK, IInv, transfer_handler
  PROVE  After
<1> DEFINE ec == Head(strand).ec
           q  == Tail(strand)
<1>1. strand \in Seq(Handler) /\ strand # << >> /\ Head(strand).op = "transfer"
      /\ strand' = q /\ example' = example /\ Kept(session, strand)
  BY DEF TypeOK, IInv, Kept, Running, Return, transfer_handler
<1>2. Head(strand) \in Links
  BY <1>1, TailMeets DEF Links
<1>3. /\ q \in Seq(Handler) /\ Between(session, q)
      /\ session.op \in Operations /\ Reportable(session, ec)
  BY <1>1, <1>2, LinkTaken
<1>4. CASE \E next \in Continuations(session.op, ec) :
             session' \in continue(cancelDeadline(session), next)
  <2>1. PICK next \in Continuations(session.op, ec) :
               session' \in continue(cancelDeadline(session), next)
    BY <1>4
  <2>2. Between(cancelDeadline(session), q) /\ Reportable(cancelDeadline(session), ec)
    BY <1>3, DeadlineApart
  <2>3. Choice(cancelDeadline(session), next)
    BY <1>3, <2>1, <2>2, ContinuationsChoose
  <2>4. QED
    BY <1>1, <1>3, <2>1, <2>2, <2>3, ContinueKept DEF After
<1>5. CASE session' \in IF coroutine_cancelled(session)
                        THEN continue(session, Complete("ok"))
                        ELSE {begin_transfer(session)}
  <2>1. Choice(session, Complete("ok"))
    BY DEF Choice, Reportable, Faults, Code
  <2>2. CASE session' \in continue(session, Complete("ok"))
    BY <1>1, <1>3, <2>1, <2>2, ContinueKept DEF After
  <2>3. CASE session' = begin_transfer(session)
    BY <1>1, <1>3, <2>3, BeginTransferKept DEF After
  <2>4. QED
    BY <1>5, <2>2, <2>3
<1>6. QED
  BY <1>4, <1>5 DEF transfer_handler

-----------------------------------------------------------------------------
(* The promises *)

\* Every step keeps the types and the chain.
LEMMA StepKept ==
  ASSUME TypeOK, IInv, [Next]_vars
  PROVE  TypeOK' /\ IInv'
<1>1. After
  <2>1. CASE UNCHANGED vars
    BY <2>1 DEF vars, After, TypeOK, IInv, Kept
  <2>2. CASE Next
    BY <2>2, post_kept, transfer_completes_kept, deadline_kept, deliver_transfer_kept,
       OthersKept, start_kept, transfer_handler_kept DEF Next, Strand
  <2>3. QED
    BY <2>1, <2>2
<1>2. TypeOK'
  BY <1>1 DEF After, Kept, TypeOK
<1>3. IInv'
  BY <1>1 DEF After, Kept, IInv, Chained, Blameless, Carries, Operations
<1>4. QED
  BY <1>2, <1>3

\* A session starts with one link.
LEMMA InitKept ==
  ASSUME Init
  PROVE  TypeOK /\ IInv
<1> DEFINE h == [op |-> "start"]
<1>1. h \in Handler /\ h \in Links /\ h \in First /\ \A C : h \notin Brings(C)
  BY DEF Handler, Links, First, Brings
<1>2. strand = <<h>> /\ example \in Examples
  BY DEF Init
<1>3. session \in Session
  BY EchoAssumption DEF Init, Session, Code
<1> HIDE DEF h
<1>4. /\ strand \in Seq(Handler) /\ MeetsOnce(strand, Links)
      /\ Meets(strand, Links) /\ Meets(strand, First) /\ \A C : ~Meets(strand, Brings(C))
  BY <1>1, <1>2, SingleMeets
<1>5. QED
  BY <1>2, <1>3, <1>4 DEF Init, TypeOK, IInv, Chained, Blameless, Carries

\* The inductive invariant: the chain of a session is in exactly one place until
\* it completes, and no error is on its way that it must not report.
THEOREM ChainInvariant == Spec => [](TypeOK /\ IInv)
<1>1. Init => TypeOK /\ IInv
  BY InitKept
<1>2. TypeOK /\ IInv /\ [Next]_vars => (TypeOK /\ IInv)'
  BY StepKept
<1>3. QED
  BY <1>1, <1>2, PTL DEF Spec

\* TypeOK, and with it that no session reports the error of the socket its owner
\* has closed.
THEOREM SessionTypes == Spec => []TypeOK
BY ChainInvariant, PTL

\* HandledAtMostOnce: the completion handler is invoked once at most, and then no
\* operation is under way.
THEOREM HandledOnce == Spec => []HandledAtMostOnce
<1>1. IInv => HandledAtMostOnce
  BY DEF IInv, Chained, HandledAtMostOnce
<1>2. QED
  BY <1>1, ChainInvariant, PTL

\* StopIsNoFailure: a stop, a forced close or a deadline is never reported as a
\* failure; only the peer or the transport makes a session fail.
THEOREM StopNeverFails == Spec => []StopIsNoFailure
<1>1. IInv => StopIsNoFailure
  BY DEF IInv, Blameless, StopIsNoFailure
<1>2. QED
  BY <1>1, ChainInvariant, PTL

=============================================================================
