-------------------------- MODULE AcceptorPromises --------------------------
(***************************************************************************)
(* What AcceptorListener promises, proved for any number of calls,         *)
(* connections and sessions: the accept loop, the session limit, the       *)
(* completion of every call, and the delay before a retry.                 *)
(***************************************************************************)
EXTENDS AcceptorListenerProofs, AcceptBackoff, FiniteSetTheorems

\* The provers that try a leaf in turn, unless it names one.
USE SMTT(20), SMTT(30), ZenonT(30)

-----------------------------------------------------------------------------
(* The ledger of the calls *)

\* A call is in one place: queued, waiting or completed, and then once.
Posted(i) == {h \in Handler : h.op \in {"start", "wait"} /\ h.id = i}

InOnePlace(i, l, s, sub) ==
  /\ MeetsOnce(s, Posted(i)) /\ Len(l.completions[i]) <= 1
  /\ Meets(s, Posted(i)) => i \notin l.waiters /\ l.completions[i] = << >> /\ i \in sub
  /\ i \in l.waiters => l.completions[i] = << >> /\ i \in sub
  /\ l.completions[i] # << >> => i \in sub

Ledger(l, s, sub) == \A i \in Operation : InOnePlace(i, l, s, sub)

\* A cancellation on the strand was asked for.
Recalls(X) == {h \in Handler : h.op = "cancel_wait" /\ h.id \notin X}

Asked(s, X) == ~Meets(s, Recalls(X))

\* The invariant behind the promises: the books of the loop, and those of the calls.
LInv ==
  /\ Books(listener, strand)
  /\ Ledger(listener, strand, submitted)
  /\ Asked(strand, cancelled)

\* Who is told what: a wait that nobody cancelled.
Honest(l, m, X) ==
  \A i \in Waits \ X :
    m.completions[i] # l.completions[i]
      => m.state = "stopped" /\ m.completions[i] = <<m.terminal_error>>

\* A handler taken off the strand; the call of a start or wait is then nowhere.
LEMMA LedgerPop ==
  ASSUME NEW l, NEW s \in Seq(Handler), s # << >>, NEW sub, Ledger(l, s, sub)
  PROVE  /\ Ledger(l, Tail(s), sub)
         /\ \A i \in Operation : Head(s) \in Posted(i) =>
              /\ ~Meets(Tail(s), Posted(i)) /\ i \notin l.waiters
              /\ l.completions[i] = << >> /\ i \in sub
<1> SUFFICES ASSUME NEW i \in Operation
             PROVE  /\ InOnePlace(i, l, Tail(s), sub)
                    /\ Head(s) \in Posted(i) =>
                         /\ ~Meets(Tail(s), Posted(i)) /\ i \notin l.waiters
                         /\ l.completions[i] = << >> /\ i \in sub
  BY DEF Ledger
<1>1. InOnePlace(i, l, s, sub)
  BY DEF Ledger
<1>2. /\ Meets(s, Posted(i)) <=> Meets(Tail(s), Posted(i)) \/ Head(s) \in Posted(i)
      /\ MeetsOnce(s, Posted(i)) => /\ MeetsOnce(Tail(s), Posted(i))
                                    /\ ~(Meets(Tail(s), Posted(i)) /\ Head(s) \in Posted(i))
  BY TailMeets
<1>3. QED
  BY <1>1, <1>2 DEF InOnePlace

\* A handler posted: of no call, or of one that is made just now.
LEMMA LedgerPost ==
  ASSUME NEW l \in Listener, NEW s \in Seq(Handler), NEW h \in Handler, NEW sub,
         Ledger(l, s, sub)
  PROVE  /\ h.op \notin {"start", "wait"} => Ledger(l, Append(s, h), sub)
         /\ \A i \in Operation :
              h.id = i /\ i \notin sub => Ledger(l, Append(s, h), sub \cup {i})
<1>1. \A i \in Operation :
        /\ InOnePlace(i, l, s, sub)
        /\ Meets(Append(s, h), Posted(i)) <=> Meets(s, Posted(i)) \/ h \in Posted(i)
        /\ MeetsOnce(s, Posted(i)) /\ ~(Meets(s, Posted(i)) /\ h \in Posted(i))
             => MeetsOnce(Append(s, h), Posted(i))
  BY AppendMeets DEF Ledger
<1>2. ASSUME h.op \notin {"start", "wait"} PROVE Ledger(l, Append(s, h), sub)
  <2>1. \A i \in Operation : h \notin Posted(i)
    BY <1>2 DEF Posted
  <2>2. QED
    BY <1>1, <2>1 DEF Ledger, InOnePlace
<1>3. ASSUME NEW j \in Operation, h.id = j, j \notin sub
      PROVE  Ledger(l, Append(s, h), sub \cup {j})
  <2>1. \A i \in Operation : h \in Posted(i) => i = j
    BY <1>3 DEF Posted
  <2>2. ~Meets(s, Posted(j)) /\ j \notin l.waiters /\ l.completions[j] = << >>
    BY <1>1, <1>3 DEF InOnePlace
  <2>3. QED
    BY <1>1, <2>1, <2>2 DEF Ledger, InOnePlace
<1>4. QED
  BY <1>2, <1>3

\* The waiters released all at once: their completions are the first ones.
LEMMA LedgerTells ==
  ASSUME NEW l \in Listener, NEW m \in Listener, NEW s, NEW sub, NEW X,
         Ledger(l, s, sub), Silent(l, m) \/ Releases(l, m)
  PROVE  Ledger(m, s, sub) /\ Honest(l, m, X)
<1>1. CASE Silent(l, m)
  BY <1>1 DEF Ledger, InOnePlace, Silent, Honest
<1>2. CASE Releases(l, m)
  <2>1. ASSUME NEW i \in Operation
        PROVE  /\ InOnePlace(i, m, s, sub)
               /\ m.completions[i] # l.completions[i] =>
                    m.state = "stopped" /\ m.completions[i] = <<m.terminal_error>>
    <3>1. InOnePlace(i, l, s, sub)
      BY DEF Ledger
    <3>2. /\ m.waiters = {} /\ m.state = "stopped"
          /\ m.completions[i] = IF i \in l.waiters THEN Append(l.completions[i], m.terminal_error)
                                                   ELSE l.completions[i]
      BY <1>2 DEF Releases
    <3>3. CASE i \in l.waiters
      <4>1. l.completions[i] = << >> /\ i \in sub /\ ~Meets(s, Posted(i))
        BY <3>1, <3>3 DEF InOnePlace
      <4>2. m.completions[i] = <<m.terminal_error>> /\ Len(m.completions[i]) = 1
        BY <3>2, <3>3, <4>1
      <4>3. QED
        BY <3>1, <3>2, <4>1, <4>2 DEF InOnePlace
    <3>4. CASE i \notin l.waiters
      BY <3>1, <3>2, <3>4 DEF InOnePlace
    <3>5. QED
      BY <3>3, <3>4
  <2>2. QED
    BY <2>1 DEF Ledger, Honest, Operation
<1>3. QED
  BY <1>1, <1>2

\* A call that is nowhere completes.
LEMMA LedgerComplete ==
  ASSUME NEW l \in Listener, NEW s, NEW sub, NEW i \in Operation, NEW ec \in Error,
         Ledger(l, s, sub), ~Meets(s, Posted(i)), i \notin l.waiters,
         l.completions[i] = << >>, i \in sub
  PROVE  LET m == complete_on(l, i, ec)
         IN  /\ Ledger(m, s, sub) /\ m.waiters = l.waiters
             /\ m.completions = [l.completions EXCEPT ![i] = <<ec>>]
<1> DEFINE m == complete_on(l, i, ec)
<1>1. /\ m.waiters = l.waiters
      /\ m.completions = [l.completions EXCEPT ![i] = Append(l.completions[i], ec)]
      /\ l.completions \in [Operation -> Seq(Error)]
  BY DEF complete_on, Listener
<1>2. Append(l.completions[i], ec) = <<ec>> /\ Len(<<ec>>) = 1
  OBVIOUS
<1> HIDE DEF m
<1>3. m.completions = [l.completions EXCEPT ![i] = <<ec>>]
  BY <1>1, <1>2
<1>4. m.completions[i] = <<ec>> /\ \A j \in Operation \ {i} : m.completions[j] = l.completions[j]
  BY <1>1, <1>3
<1>5. \A j \in Operation : InOnePlace(j, l, s, sub)
  BY DEF Ledger
<1>6. InOnePlace(i, m, s, sub)
  BY <1>1, <1>2, <1>4, <1>5 DEF InOnePlace
<1>7. \A j \in Operation \ {i} : InOnePlace(j, m, s, sub)
  BY <1>1, <1>4, <1>5 DEF InOnePlace
<1>8. Ledger(m, s, sub)
  BY <1>6, <1>7 DEF Ledger
<1>9. QED
  BY <1>1, <1>3, <1>8 DEF m

-----------------------------------------------------------------------------
(* The handlers *)

\* What a handler leads to: the books are right, and nobody was told a lie.
Kept(l, m, s, sub, X) == Books(m, s) /\ Ledger(m, s, sub) /\ Honest(l, m, X)

\* A handler that only calls member functions.
LEMMA TellsKept ==
  ASSUME NEW l \in Listener, NEW k \in Listener, NEW m \in Listener, NEW s, NEW sub, NEW X,
         Ledger(l, s, sub), Silent(l, k), Silent(k, m) \/ Releases(k, m), Books(m, s)
  PROVE  Kept(l, m, s, sub, X)
<1>1. Silent(l, m) \/ Releases(l, m)
  BY DEF Silent, Releases
<1>2. QED
  BY <1>1, LedgerTells DEF Kept

\* A handler that completes a call of its own.
LEMMA CompletesKept ==
  ASSUME NEW l \in Listener, NEW k \in Listener, NEW s, NEW sub, NEW X,
         NEW i \in Operation, NEW ec \in Error,
         Ledger(l, s, sub), Silent(l, k) \/ Releases(l, k), Books(k, s),
         ~Meets(s, Posted(i)), i \notin l.waiters, l.completions[i] = << >>, i \in sub,
         i \in Waits \ X => k.state = "stopped" /\ ec = k.terminal_error
  PROVE  Kept(l, complete_on(k, i, ec), s, sub, X)
<1> DEFINE m == complete_on(k, i, ec)
<1>1. Ledger(k, s, sub) /\ Honest(l, k, X)
  BY LedgerTells
<1>2. k.completions[i] = << >> /\ i \notin k.waiters
  BY DEF Silent, Releases
<1>3. Ledger(m, s, sub) /\ m.completions = [k.completions EXCEPT ![i] = <<ec>>]
  BY <1>1, <1>2, LedgerComplete
<1>4. Books(m, s)
  BY CompleteBooks
<1>5. m.state = k.state /\ m.terminal_error = k.terminal_error
  BY DEF complete_on, Listener
<1>6. k.completions \in [Operation -> Seq(Error)]
  BY DEF Listener
<1> HIDE DEF m
<1>7. ASSUME NEW j \in Waits \ X, m.completions[j] # l.completions[j]
      PROVE  m.state = "stopped" /\ m.completions[j] = <<m.terminal_error>>
  <2>1. j \in Operation
    BY Literals
  <2>2. CASE j = i
    BY <1>3, <1>5, <1>6, <1>7, <2>2
  <2>3. CASE j # i
    <3>1. m.completions[j] = k.completions[j]
      BY <1>3, <1>6, <2>1, <2>3
    <3>2. QED
      BY <1>1, <1>5, <1>7, <3>1 DEF Honest
  <2>4. QED
    BY <2>2, <2>3
<1>8. Kept(l, m, s, sub, X)
  BY <1>3, <1>4, <1>7 DEF Kept, Honest
<1>9. QED
  BY <1>8 DEF m

\* What holds when a handler begins, its entry taken off the strand.
LEMMA Begun ==
  ASSUME TypeOK, LInv, NEW op, Running(op)
  PROVE  /\ listener \in Listener /\ strand \in Seq(Handler) /\ strand # << >>
         /\ Head(strand) \in Handler /\ Head(strand).op = op /\ Tail(strand) \in Seq(Handler)
         /\ Ledger(listener, Tail(strand), submitted) /\ Room(listener)
         /\ op # "accepted" => Balanced(listener, Tail(strand))
         /\ op # "accepted" /\ Head(strand) # RetryDone("ok") => Books(listener, Tail(strand))
         /\ op = "accepted" => /\ listener.accept_pending /\ Outstanding(listener) = 0
                               /\ ~Meets(Tail(strand), Accepts)
         /\ Asked(Tail(strand), cancelled)
         /\ op = "cancel_wait" => Head(strand).id \in cancelled
<1>1. /\ listener \in Listener /\ strand \in Seq(Handler) /\ strand # << >>
      /\ Head(strand) \in Handler /\ Head(strand).op = op /\ Tail(strand) \in Seq(Handler)
  BY RunningHandler DEF TypeOK, Running
<1>2. Ledger(listener, Tail(strand), submitted)
  BY <1>1, LedgerPop DEF LInv
<1>3. /\ Room(listener)
      /\ op # "accepted" => Balanced(listener, Tail(strand))
      /\ op # "accepted" /\ Head(strand) # RetryDone("ok") => Books(listener, Tail(strand))
      /\ op = "accepted" => /\ listener.accept_pending /\ Outstanding(listener) = 0
                            /\ ~Meets(Tail(strand), Accepts)
  BY <1>1, BooksPop DEF LInv
<1>4. ~Meets(Tail(strand), Recalls(cancelled)) /\ Head(strand) \notin Recalls(cancelled)
  BY <1>1, TailMeets DEF LInv, Asked
<1>5. op = "cancel_wait" => Head(strand).id \in cancelled
  BY <1>1, <1>4 DEF Recalls
<1>6. QED
  BY <1>1, <1>2, <1>3, <1>4, <1>5 DEF Asked

\* The handler of a start or of a wait begins: its call is nowhere else.
LEMMA BegunCall ==
  ASSUME TypeOK, LInv, NEW op \in {"start", "wait"}, Running(op)
  PROVE  LET i == Head(strand).id
         IN  /\ i \in Operation /\ (op = "start" => i \in Starts) /\ (op = "wait" => i \in Waits)
             /\ ~Meets(Tail(strand), Posted(i)) /\ i \notin listener.waiters
             /\ listener.completions[i] = << >> /\ i \in submitted
             /\ Books(listener, Tail(strand))
<1> DEFINE i == Head(strand).id
<1>1. Head(strand) \in Handler /\ Head(strand).op = op /\ strand \in Seq(Handler) /\ strand # << >>
  BY Begun
<1>2. i \in Operation /\ (op = "start" => i \in Starts) /\ (op = "wait" => i \in Waits)
  BY <1>1, HandlerShape, Literals
<1>3. Head(strand) \in Posted(i)
  BY <1>1 DEF Posted
<1>4. Ledger(listener, strand, submitted)
  BY DEF LInv
<1>5. Head(strand) # RetryDone("ok") /\ op # "accepted"
  BY <1>1 DEF RetryDone
<1>6. Books(listener, Tail(strand))
  BY <1>5, Begun
<1> HIDE DEF i
<1>7. /\ ~Meets(Tail(strand), Posted(i)) /\ i \notin listener.waiters
      /\ listener.completions[i] = << >> /\ i \in submitted
  BY <1>1, <1>2, <1>3, <1>4, LedgerPop, Zenon
<1>8. QED
  BY <1>2, <1>6, <1>7 DEF i

\* A start that comes too early or too late.
LEMMA start_without_effect_kept ==
  ASSUME TypeOK, LInv, start_without_effect
  PROVE  Kept(listener, listener', Tail(strand), submitted, cancelled)
<1> DEFINE i == Head(strand).id
<1>1. Running("start") /\ \E ec \in {"ok", "aborted"} : listener' = complete_on(listener, i, ec)
  BY DEF start_without_effect
<1>2. /\ i \in Operation /\ i \in Starts
      /\ ~Meets(Tail(strand), Posted(i)) /\ i \notin listener.waiters
      /\ listener.completions[i] = << >> /\ i \in submitted
      /\ Books(listener, Tail(strand))
  BY <1>1, BegunCall
<1>3. listener \in Listener /\ Ledger(listener, Tail(strand), submitted)
  BY <1>1, Begun
<1> HIDE DEF i
<1>4. i \notin Waits /\ Silent(listener, listener)
  BY <1>2, CallsAssumption DEF Silent
<1>5. PICK ec \in {"ok", "aborted"} : listener' = complete_on(listener, i, ec)
  BY <1>1
<1>6. ec \in Error
  BY Literals
<1>7. QED
  BY <1>2, <1>3, <1>4, <1>5, <1>6, CompletesKept, Zenon

\* The start handler opens the acceptor and begins the first accept, or fails.
LEMMA start_on_strand_opens_kept ==
  ASSUME TypeOK, IInv, LInv, start_on_strand_opens
  PROVE  Kept(listener, listener', Tail(strand), submitted, cancelled)
<1> DEFINE i == Head(strand).id
           s == Tail(strand)
           open == [listener EXCEPT !.acceptor = "open"]
           opened == complete_on(open, i, "fatal")
           threw == accept_next(open, TRUE, "startup_failure")
           next == accept_next(open, FALSE, "startup_failure")
           ran == [next EXCEPT !.state = "running"]
<1>0. Running("start") /\ listener.state = "starting"
  BY DEF start_on_strand_opens
<1>1. /\ i \in Operation /\ i \in Starts
      /\ ~Meets(s, Posted(i)) /\ i \notin listener.waiters
      /\ listener.completions[i] = << >> /\ i \in submitted
      /\ Books(listener, s)
  BY <1>0, BegunCall
<1>2. listener \in Listener /\ Ledger(listener, s, submitted) /\ s \in Seq(Handler)
  BY <1>0, Begun
<1>3. \/ listener' = finish(opened, "fatal", "startup_failure")
      \/ listener' = complete_on(threw, i, "failed")
      \/ listener' = complete_on(ran, i, "ok")
  BY Zenon DEF start_on_strand_opens
<1>4. /\ open \in Listener /\ open.state = "starting" /\ open.acceptor = "open"
      /\ open.in_flight = listener.in_flight /\ open.accept_pending = listener.accept_pending
      /\ open.sessions = listener.sessions /\ Silent(listener, open)
  BY <1>0, <1>2, Zenon DEF Listener, Silent
<1> SUFFICES Kept(listener, listener', s, submitted, cancelled)
  OBVIOUS
<1> HIDE DEF i, s, open
<1>5. Balanced(open, s) /\ Room(open)
  <2>1. ~listener.accept_pending
    BY <1>0 DEF IInv, Safe, Settled
  <2>2. Outstanding(listener) \in Nat /\ Queued(s) \in {0, 1}
    BY <1>2, OutstandingNat DEF Queued
  <2>3. Outstanding(listener) = 0
    BY <1>1, <2>1, <2>2 DEF Books, Balanced, Pending
  <2>4. listener.acceptor # "accepting"
    BY <1>2, <2>3, OutstandingNat
  <2>5. Outstanding(open) = Outstanding(listener)
    BY <1>4, <2>4 DEF Outstanding, Flying
  <2>6. Unmoved(listener, open)
    BY <1>4, <2>5 DEF Unmoved
  <2>7. QED
    BY <1>1, <2>6, UnmovedBooks DEF Books
<1>6. i \notin Waits /\ {"ok", "fatal", "failed"} \subseteq Error /\ "startup_failure" \in StopReason
  BY <1>1, CallsAssumption, Literals
<1>7. CASE listener' = finish(opened, "fatal", "startup_failure")
  <2>1. Books(open, s)
    BY <1>4, <1>5 DEF Books, Alive
  <2>2. Kept(listener, opened, s, submitted, cancelled) /\ opened \in Listener
    BY <1>1, <1>2, <1>4, <1>6, <2>1, CompletesKept, complete_on_type, Zenon
  <2>3. opened.state # "stopped"
    BY <1>4 DEF complete_on, Listener
  <2> HIDE DEF opened
  <2>4. Unmoved(opened, listener') /\ Releases(opened, listener') /\ listener' \in Listener
    BY <1>6, <1>7, <2>2, <2>3, finish_tells, finish_type
  <2>5. Ledger(listener', s, submitted) /\ Honest(opened, listener', cancelled)
    BY <2>2, <2>4, LedgerTells DEF Kept
  <2>6. Books(listener', s)
    BY <2>2, <2>4, UnmovedBooks DEF Kept, Books, Alive, Releases
  <2>7. \A j \in Waits : opened.completions[j] = listener.completions[j]
    <3>1. opened.completions = [listener.completions EXCEPT ![i] = <<"fatal">>]
      <4>1. /\ ~Meets(s, Posted(i)) /\ i \notin open.waiters /\ open.completions[i] = << >>
            /\ open.completions = listener.completions
        BY <1>1, <1>4 DEF Silent
      <4>2. Ledger(open, s, submitted)
        BY <1>2, <1>4, LedgerTells
      <4>3. QED
        BY <1>1, <1>4, <1>6, <4>1, <4>2, LedgerComplete DEF opened
    <3>2. listener.completions \in [Operation -> Seq(Error)]
      BY <1>2 DEF Listener
    <3>3. QED
      BY <1>6, <3>1, <3>2, Literals
  <2>8. QED
    BY <2>5, <2>6, <2>7 DEF Kept, Honest
<1>8. CASE listener' = complete_on(threw, i, "failed")
  <2>1. threw \in Listener /\ Books(threw, s) /\ (Silent(open, threw) \/ Releases(open, threw))
    BY <1>2, <1>4, <1>5, <1>6, AcceptNextBooks, accept_next_type, Zenon
  <2> HIDE DEF threw
  <2>2. Silent(listener, threw) \/ Releases(listener, threw)
    BY <1>4, <2>1 DEF Silent, Releases
  <2>3. QED
    BY <1>1, <1>2, <1>6, <1>8, <2>1, <2>2, CompletesKept, Zenon
<1>9. CASE listener' = complete_on(ran, i, "ok")
  <2>1. /\ next \in Listener /\ Books(next, s) /\ (Silent(open, next) \/ Releases(open, next))
        /\ next.state = "starting"
        /\ next.accept_pending \/ Cardinality(next.sessions) >= max_active_sessions
    BY <1>2, <1>4, <1>5, <1>6, AcceptNextBooks, accept_next_type, Zenon
  <2> HIDE DEF next
  <2>2. Silent(listener, next)
    BY <1>4, <2>1 DEF Silent, Releases
  <2>3. /\ ran \in Listener /\ Unmoved(next, ran) /\ Silent(next, ran)
        /\ ran.accept_pending = next.accept_pending /\ ran.sessions = next.sessions
    BY <2>1, Zenon DEF Listener, State, Unmoved, Silent, Outstanding, Flying
  <2> HIDE DEF ran
  <2>4. Books(ran, s)
    BY <2>1, <2>3, UnmovedBooks DEF Books, Alive
  <2>5. Silent(listener, ran)
    BY <2>2, <2>3 DEF Silent
  <2>6. QED
    BY <1>1, <1>2, <1>6, <1>9, <2>3, <2>4, <2>5, CompletesKept, Zenon
<1>10. QED
  BY <1>3, <1>7, <1>8, <1>9, Zenon

\* A wait completes at once, or becomes a waiter.
LEMMA wait_on_strand_kept ==
  ASSUME TypeOK, LInv, wait_on_strand
  PROVE  Kept(listener, listener', Tail(strand), submitted, cancelled)
<1> DEFINE i == Head(strand).id
           s == Tail(strand)
           waiting == [listener EXCEPT !.waiters = @ \cup {i}]
<1>0. Running("wait")
  BY DEF wait_on_strand
<1>1. /\ i \in Operation /\ i \in Waits
      /\ ~Meets(s, Posted(i)) /\ i \notin listener.waiters
      /\ listener.completions[i] = << >> /\ i \in submitted
      /\ Books(listener, s)
  BY <1>0, BegunCall
<1>2. /\ listener \in Listener /\ Ledger(listener, s, submitted)
      /\ Silent(listener, listener) /\ listener.terminal_error \in Error
  BY <1>0, Begun DEF Silent, Listener
<1>3. \/ i \in cancelled /\ listener' = complete_on(listener, i, "aborted")
      \/ listener.state = "stopped" /\ listener' = complete_on(listener, i, listener.terminal_error)
      \/ listener' = waiting
  BY DEF wait_on_strand
<1> SUFFICES Kept(listener, listener', s, submitted, cancelled)
  OBVIOUS
<1> HIDE DEF i, s
<1>4. CASE i \in cancelled /\ listener' = complete_on(listener, i, "aborted")
  BY <1>1, <1>2, <1>4, CompletesKept, Literals
<1>5. CASE listener.state = "stopped" /\ listener' = complete_on(listener, i, listener.terminal_error)
  BY <1>1, <1>2, <1>5, CompletesKept, Zenon
<1>6. CASE listener' = waiting
  <2>1. /\ Unmoved(listener, waiting) /\ waiting.state = listener.state
        /\ waiting.retry_timer = listener.retry_timer /\ waiting.in_flight = listener.in_flight
        /\ waiting.completions = listener.completions
        /\ waiting.waiters = listener.waiters \cup {i}
    BY <1>2 DEF Listener, Unmoved, Outstanding, Flying
  <2> HIDE DEF waiting
  <2>2. Books(waiting, s)
    BY <1>1, <2>1, SameBooks
  <2>3. \A j \in Operation : InOnePlace(j, listener, s, submitted)
    BY <1>2 DEF Ledger
  <2>4. \A j \in Operation : InOnePlace(j, waiting, s, submitted)
    BY <1>1, <2>1, <2>3 DEF InOnePlace
  <2>5. QED
    BY <1>6, <2>1, <2>2, <2>4 DEF Kept, Ledger, Honest
<1>7. QED
  BY <1>3, <1>4, <1>5, <1>6

\* A cancelled waiter is let go, and told so.
LEMMA cancel_wait_kept ==
  ASSUME TypeOK, LInv, cancel_wait
  PROVE  Kept(listener, listener', Tail(strand), submitted, cancelled)
<1> DEFINE i == Head(strand).id
           s == Tail(strand)
           without == [listener EXCEPT !.waiters = @ \ {i}]
<1>0. Running("cancel_wait")
  BY DEF cancel_wait
<1>1. /\ listener \in Listener /\ Ledger(listener, s, submitted)
      /\ Head(strand) \in Handler /\ Head(strand).op = "cancel_wait" /\ i \in cancelled
  BY <1>0, Begun
<1>2. Head(strand) # RetryDone("ok")
  BY <1>1 DEF RetryDone
<1>3. Books(listener, s) /\ i \in Operation
  BY <1>0, <1>1, <1>2, Begun, HandlerShape, Literals
<1>4. \/ i \in listener.waiters /\ listener' = complete_on(without, i, "aborted")
      \/ listener' = listener
  BY DEF cancel_wait
<1> SUFFICES Kept(listener, listener', s, submitted, cancelled)
  OBVIOUS
<1> HIDE DEF i, s
<1>5. CASE listener' = listener
  BY <1>1, <1>3, <1>5 DEF Kept, Honest
<1>6. CASE i \in listener.waiters /\ listener' = complete_on(without, i, "aborted")
  <2>1. /\ without \in Listener
        /\ Unmoved(listener, without) /\ without.state = listener.state
        /\ without.retry_timer = listener.retry_timer /\ without.in_flight = listener.in_flight
        /\ without.completions = listener.completions
        /\ without.waiters = listener.waiters \ {i}
    BY <1>1, Zenon DEF Listener, Unmoved, Outstanding, Flying
  <2> HIDE DEF without
  <2>2. Books(without, s)
    BY <1>3, <2>1, SameBooks
  <2>3. \A j \in Operation : InOnePlace(j, listener, s, submitted)
    BY <1>1 DEF Ledger
  <2>4. /\ ~Meets(s, Posted(i)) /\ i \notin without.waiters
        /\ without.completions[i] = << >> /\ i \in submitted
    BY <1>3, <1>6, <2>1, <2>3 DEF InOnePlace
  <2>5. Ledger(without, s, submitted)
    BY <2>1, <2>3 DEF InOnePlace, Ledger
  <2>6. Silent(without, without)
    BY DEF Silent
  <2>7. Kept(without, listener', s, submitted, cancelled)
    BY <1>1, <1>3, <1>6, <2>1, <2>2, <2>4, <2>5, <2>6, CompletesKept, Literals, Zenon
  <2>8. QED
    BY <2>1, <2>7 DEF Kept, Honest
<1>7. QED
  BY <1>4, <1>5, <1>6

\* A completed accept: the session it brings has room, and the loop goes on.
LEMMA accepted_kept ==
  ASSUME TypeOK, LInv, accepted
  PROVE  Kept(listener, listener', Tail(strand), submitted, cancelled)
<1> DEFINE ec   == Head(strand).ec
           s    == Tail(strand)
           done == [listener EXCEPT !.accept_pending = FALSE]
           id   == Len(listener.connections) + 1
           kept(first) == [done EXCEPT !.accept_errors = 0,
                                       !.connections = Append(@, new_connection(first)),
                                       !.sessions = @ \cup {id}]
           noted == record_diagnostic(done, "failed")
           rejected == [noted EXCEPT !.accept_errors = 0,
                                     !.connections = Append(@, rejected_connection)]
<1>0. Running("accepted")
  BY DEF accepted
<1>1. /\ listener \in Listener /\ s \in Seq(Handler) /\ Ledger(listener, s, submitted)
      /\ Room(listener) /\ listener.accept_pending
      /\ Outstanding(listener) = 0 /\ ~Meets(s, Accepts)
      /\ Head(strand) \in Handler /\ Head(strand).op = "accepted"
  BY <1>0, Begun
<1>2. ec \in Error
  BY <1>1, HandlerShape, Literals
<1>3. \/ listener.state # "running" /\ listener' = maybe_finish(done)
      \/ listener' = retry_accept(done, ec)
      \/ \E throws \in BOOLEAN :
           \/ listener' = accept_next(rejected, throws, "runtime_failure")
           \/ \E first \in {"start", "force_close"} :
                listener' = accept_next(kept(first), throws, "runtime_failure")
  BY DEF accepted
<1>4. /\ done \in Listener /\ done.state = listener.state /\ ~done.accept_pending
      /\ done.sessions = listener.sessions /\ Silent(listener, done)
      /\ done.acceptor = listener.acceptor /\ done.in_flight = listener.in_flight
      /\ done.connections = listener.connections
  BY <1>1, Zenon DEF Listener, Silent
<1>5. id \in Nat \ {0}
  BY <1>1 DEF Listener
<1> SUFFICES Kept(listener, listener', s, submitted, cancelled)
  OBVIOUS
<1> HIDE DEF ec, s, done, id
<1>6. Outstanding(done) = 0 /\ Balanced(done, s)
  BY <1>1, <1>4 DEF Balanced, Queued, Meets, MeetsOnce, Outstanding, Flying, Pending
<1>7. Cardinality(listener.sessions) \in Nat /\ Cardinality(listener.sessions) + 1 <= max_active_sessions
  BY <1>1 DEF Room, Pending
<1>8. Room(done)
  BY <1>1, <1>4, <1>7, OptionsAssumption DEF Room, Pending
<1>9. "failed" \in Error /\ "runtime_failure" \in StopReason
  BY Literals
<1>10. CASE listener.state # "running" /\ listener' = maybe_finish(done)
  <2>1. Books(done, s)
    BY <1>4, <1>6, <1>8, <1>10 DEF Books, Alive
  <2>2. listener' \in Listener /\ Books(listener', s) /\ (Silent(done, listener') \/ Releases(done, listener'))
    BY <1>4, <1>10, <2>1, MaybeFinishBooks, maybe_finish_type
  <2>3. QED
    BY <1>1, <1>4, <2>2, TellsKept
<1>11. CASE listener' = retry_accept(done, ec)
  <2>1. listener' \in Listener /\ Books(listener', s) /\ (Silent(done, listener') \/ Releases(done, listener'))
    BY <1>2, <1>4, <1>6, <1>8, <1>11, RetryAcceptBooks, retry_accept_type
  <2>2. QED
    BY <1>1, <1>4, <2>1, TellsKept
<1>12. ASSUME NEW k \in Listener, NEW throws \in BOOLEAN, Silent(done, k),
              Balanced(k, s), Room(k), listener' = accept_next(k, throws, "runtime_failure")
       PROVE  Kept(listener, listener', s, submitted, cancelled)
  <2>1. listener' \in Listener /\ Books(listener', s) /\ (Silent(k, listener') \/ Releases(k, listener'))
    BY <1>1, <1>9, <1>12, AcceptNextBooks, accept_next_type
  <2>2. Silent(listener, k)
    BY <1>4, <1>12 DEF Silent
  <2>3. QED
    BY <1>1, <2>1, <2>2, TellsKept
<1>13. ASSUME NEW throws \in BOOLEAN, listener' = accept_next(rejected, throws, "runtime_failure")
       PROVE  Kept(listener, listener', s, submitted, cancelled)
  <2>1. noted \in Listener /\ Quiet(done, noted)
    BY <1>4, <1>9, record_diagnostic_type, OthersQuiet
  <2> HIDE DEF noted
  <2>2. Append(noted.connections, rejected_connection) \in Seq(Connection)
    <3>1. rejected_connection \in Connection /\ noted.connections \in Seq(Connection)
      BY <2>1 DEF rejected_connection, Connection, Listener
    <3>2. QED
      BY <3>1
  <2>3. rejected \in Listener /\ Quiet(noted, rejected)
    BY <2>1, <2>2, Zenon DEF Listener, Quiet, Unmoved, Silent, Outstanding, Flying
  <2> HIDE DEF rejected
  <2>4. Quiet(done, rejected)
    BY <2>1, <2>3, QuietThen
  <2>5. Balanced(rejected, s) /\ Room(rejected) /\ Silent(done, rejected)
    BY <1>6, <1>8, <2>4, UnmovedBooks DEF Quiet
  <2>6. QED
    BY <1>12, <1>13, <2>3, <2>5
<1>14. ASSUME NEW throws \in BOOLEAN, NEW first \in {"start", "force_close"},
              listener' = accept_next(kept(first), throws, "runtime_failure")
       PROVE  Kept(listener, listener', s, submitted, cancelled)
  <2> DEFINE k == kept(first)
  <2>1. Append(done.connections, new_connection(first)) \in Seq(Connection)
    <3>1. new_connection(first) \in Connection /\ done.connections \in Seq(Connection)
      BY <1>4 DEF new_connection, Connection, Listener
    <3>2. QED
      BY <3>1
  <2>2. done.sessions \cup {id} \in SUBSET (Nat \ {0})
    BY <1>4, <1>5 DEF Listener
  <2>3. /\ k \in Listener /\ k.sessions = done.sessions \cup {id} /\ Silent(done, k)
        /\ k.accept_pending = done.accept_pending
        /\ k.acceptor = done.acceptor /\ k.in_flight = done.in_flight
    BY <1>4, <2>1, <2>2, Zenon DEF Listener, Silent
  <2> HIDE DEF kept
  <2>4. Balanced(k, s)
    BY <1>6, <2>3 DEF Balanced, Outstanding, Flying, Pending
  <2>5. IsFiniteSet(k.sessions) /\ Cardinality(k.sessions) <= Cardinality(listener.sessions) + 1
    <3>1. IsFiniteSet(listener.sessions) /\ k.sessions = listener.sessions \cup {id}
      BY <1>1, <1>4, <2>3 DEF Room
    <3>2. /\ IsFiniteSet(listener.sessions \cup {id})
          /\ \/ Cardinality(listener.sessions \cup {id}) = Cardinality(listener.sessions)
             \/ Cardinality(listener.sessions \cup {id}) = Cardinality(listener.sessions) + 1
      BY <3>1, FS_AddElement
    <3>3. QED
      BY <1>7, <3>1, <3>2
  <2>6. Room(k)
    <3>1. Cardinality(k.sessions) \in Nat
      BY <2>5, FS_CardinalityType
    <3>2. QED
      BY <1>4, <1>7, <2>3, <2>5, <3>1, OptionsAssumption DEF Room, Pending
  <2>7. QED
    BY <1>12, <1>14, <2>3, <2>4, <2>6
<1>15. QED
  BY <1>3, <1>10, <1>11, <1>13, <1>14

\* A session that ends makes room, which accept_next uses.
LEMMA session_finished_kept ==
  ASSUME TypeOK, LInv, session_finished
  PROVE  Kept(listener, listener', Tail(strand), submitted, cancelled)
<1> DEFINE ec     == Head(strand).ec
           c      == Head(strand).id
           s      == Tail(strand)
           erased == [listener EXCEPT !.sessions = @ \ {c}]
           noted  == IF ec \in {"ok", "aborted"} THEN erased
                                                 ELSE record_diagnostic(erased, ec)
           next(throws) == accept_next(noted, throws, "runtime_failure")
<1>0. Running("session_finished")
  BY DEF session_finished
<1>1. /\ listener \in Listener /\ s \in Seq(Handler) /\ Ledger(listener, s, submitted)
      /\ Room(listener) /\ Balanced(listener, s)
      /\ Head(strand) \in Handler /\ Head(strand).op = "session_finished"
  BY <1>0, Begun
<1>2. ec \in Error
  BY <1>1, HandlerShape, Literals
<1>3. \/ listener.state # "running" /\ listener' = maybe_finish(noted)
      \/ \E throws \in BOOLEAN : listener' = maybe_finish(next(throws))
  BY DEF session_finished
<1>4. /\ erased \in Listener /\ erased.state = listener.state
      /\ erased.accept_pending = listener.accept_pending
      /\ erased.acceptor = listener.acceptor /\ erased.in_flight = listener.in_flight
      /\ erased.sessions = listener.sessions \ {c} /\ Silent(listener, erased)
  BY <1>1, Zenon DEF Listener, Silent
<1> SUFFICES Kept(listener, listener', s, submitted, cancelled)
  OBVIOUS
<1> HIDE DEF ec, c, s, erased
<1>5. Room(erased)
  <2>1. IsFiniteSet(listener.sessions) /\ erased.sessions \in SUBSET listener.sessions
    BY <1>1, <1>4 DEF Room
  <2>2. /\ IsFiniteSet(erased.sessions) /\ Cardinality(erased.sessions) <= Cardinality(listener.sessions)
        /\ Cardinality(erased.sessions) \in Nat /\ Cardinality(listener.sessions) \in Nat
    BY <2>1, FS_Subset, FS_CardinalityType
  <2>3. QED
    BY <1>1, <1>4, <2>2, OptionsAssumption DEF Room, Pending
<1>6. Balanced(erased, s)
  BY <1>1, <1>4 DEF Balanced, Outstanding, Flying, Pending
<1>7. /\ noted \in Listener /\ Silent(listener, noted) /\ noted.state = listener.state
      /\ Balanced(noted, s) /\ Room(noted)
  <2> DEFINE r == record_diagnostic(erased, ec)
  <2>1. r \in Listener /\ Quiet(erased, r)
    BY <1>2, <1>4, record_diagnostic_type, OthersQuiet
  <2>2. r.state = erased.state
    BY <1>4 DEF record_diagnostic, Listener
  <2> HIDE DEF r
  <2>3. /\ r \in Listener /\ Silent(listener, r) /\ r.state = listener.state
        /\ Balanced(r, s) /\ Room(r)
    BY <1>4, <1>5, <1>6, <2>1, <2>2, UnmovedBooks DEF Quiet, Silent
  <2>4. noted = r \/ noted = erased
    BY DEF r
  <2> HIDE DEF noted
  <2>5. QED
    BY <1>4, <1>5, <1>6, <2>3, <2>4
<1> HIDE DEF noted
<1>8. CASE listener.state # "running" /\ listener' = maybe_finish(noted)
  <2>1. Books(noted, s)
    BY <1>7, <1>8 DEF Books, Alive
  <2>2. listener' \in Listener /\ Books(listener', s) /\ (Silent(noted, listener') \/ Releases(noted, listener'))
    BY <1>7, <1>8, <2>1, MaybeFinishBooks, maybe_finish_type
  <2>3. QED
    BY <1>1, <1>7, <2>2, TellsKept
<1>9. ASSUME NEW throws \in BOOLEAN, listener' = maybe_finish(next(throws))
      PROVE  Kept(listener, listener', s, submitted, cancelled)
  <2> DEFINE n == next(throws)
  <2>1. n \in Listener /\ Books(n, s) /\ (Silent(noted, n) \/ Releases(noted, n))
    BY <1>1, <1>7, AcceptNextBooks, accept_next_type, Literals
  <2> HIDE DEF n
  <2>2. /\ listener' \in Listener /\ Books(listener', s)
        /\ Silent(n, listener') \/ Releases(n, listener')
        /\ listener' = n \/ n.state = "stopping"
    <3>1. listener' = maybe_finish(n)
      BY <1>9 DEF n
    <3>2. QED
      BY <2>1, <3>1, MaybeFinishBooks, maybe_finish_type, maybe_finish_tells
  <2>3. CASE listener' = n
    BY <1>1, <1>7, <2>1, <2>2, <2>3, TellsKept
  <2>4. CASE n.state = "stopping"
    <3>1. Silent(listener, n)
      BY <1>7, <2>1, <2>4 DEF Silent, Releases
    <3>2. QED
      BY <1>1, <2>1, <2>2, <3>1, TellsKept
  <2>5. QED
    BY <2>2, <2>3, <2>4
<1>10. QED
  BY <1>3, <1>8, <1>9

\* The retry timer, the shutdown timer and a stop.
LEMMA TimersKept ==
  ASSUME TypeOK, LInv, retry_timer_handler \/ shutdown_timer_handler \/ stop_on_strand
  PROVE  Kept(listener, listener', Tail(strand), submitted, cancelled)
<1> DEFINE s == Tail(strand)
<1>0. Silent(listener, listener)
  BY DEF Silent
<1>1. CASE retry_timer_handler
  <2>1. Running("retry")
    BY <1>1 DEF retry_timer_handler
  <2>2. /\ listener \in Listener /\ s \in Seq(Handler) /\ Ledger(listener, s, submitted)
        /\ Room(listener) /\ Balanced(listener, s)
        /\ Head(strand) # RetryDone("ok") => Books(listener, s)
    BY <2>1, Begun
  <2>3. \/ Head(strand).ec = "aborted" /\ listener' = maybe_finish(listener)
        \/ \E throws \in BOOLEAN : listener' = accept_next(listener, throws, "runtime_failure")
    BY <1>1 DEF retry_timer_handler
  <2>4. Head(strand).ec = "aborted" => Head(strand) # RetryDone("ok")
    BY DEF RetryDone
  <2> HIDE DEF s
  <2>5. listener' \in Listener /\ Books(listener', s) /\ (Silent(listener, listener') \/ Releases(listener, listener'))
    <3>1. CASE Head(strand).ec = "aborted" /\ listener' = maybe_finish(listener)
      BY <2>2, <2>4, <3>1, MaybeFinishBooks, maybe_finish_type
    <3>2. ASSUME NEW throws \in BOOLEAN, listener' = accept_next(listener, throws, "runtime_failure")
          PROVE  /\ listener' \in Listener /\ Books(listener', s)
                 /\ Silent(listener, listener') \/ Releases(listener, listener')
      BY <2>2, <3>2, AcceptNextBooks, accept_next_type, Literals
    <3>3. QED
      BY <2>3, <3>1, <3>2
  <2>6. Kept(listener, listener', s, submitted, cancelled)
    BY <1>0, <2>2, <2>5, TellsKept
  <2>7. QED
    BY <2>6 DEF s
<1>2. CASE shutdown_timer_handler
  <2> DEFINE d == record_diagnostic(listener, "timed_out")
             m == post_force_close(d)
  <2>1. Running("shutdown") /\ listener' = m
    BY <1>2 DEF shutdown_timer_handler
  <2>2. Head(strand).op = "shutdown" /\ Head(strand) # RetryDone("ok")
    BY <2>1, Begun DEF RetryDone
  <2>3. listener \in Listener /\ Ledger(listener, s, submitted) /\ Books(listener, s)
    BY <2>1, <2>2, Begun
  <2>4. d \in Listener /\ Quiet(listener, d)
    BY <2>3, record_diagnostic_type, OthersQuiet, Literals
  <2>5. d.state = listener.state /\ d.retry_timer = listener.retry_timer /\ d.in_flight = listener.in_flight
    BY <2>3 DEF record_diagnostic, Listener
  <2> HIDE DEF d, s
  <2>6. m \in Listener /\ Quiet(listener, m)
    BY <2>4, post_force_close_type, OthersQuiet, QuietThen
  <2>7. m.state = d.state /\ m.retry_timer = d.retry_timer /\ m.in_flight = d.in_flight
    BY <2>4 DEF post_force_close, Listener
  <2> HIDE DEF m
  <2>8. Books(m, s) /\ Silent(listener, m)
    BY <2>3, <2>5, <2>6, <2>7, SameBooks DEF Quiet
  <2>9. Kept(listener, m, s, submitted, cancelled)
    BY <1>0, <2>3, <2>6, <2>8, TellsKept
  <2>10. QED
    BY <2>1, <2>9 DEF s
<1>3. CASE stop_on_strand
  <2>1. Running("stop") /\ listener' = begin_stop(listener, "ok", "requested")
    BY <1>3 DEF stop_on_strand
  <2>2. Head(strand).op = "stop" /\ Head(strand) # RetryDone("ok")
    BY <2>1, Begun DEF RetryDone
  <2>3. listener \in Listener /\ Ledger(listener, s, submitted) /\ Books(listener, s)
    BY <2>1, <2>2, Begun
  <2> HIDE DEF s
  <2>4. listener' \in Listener /\ Books(listener', s) /\ (Silent(listener, listener') \/ Releases(listener, listener'))
    BY <2>1, <2>3, BeginStopBooks, begin_stop_type, Literals
  <2>5. Kept(listener, listener', s, submitted, cancelled)
    BY <1>0, <2>3, <2>4, TellsKept
  <2>6. QED
    BY <2>5 DEF s
<1>4. QED
  BY <1>1, <1>2, <1>3

\* Every handler of the listener strand.
LEMMA StrandKept ==
  ASSUME TypeOK, IInv, LInv, Strand
  PROVE  LInv' /\ Honest(listener, listener', cancelled)
<1>1. ASSUME NEW op, Running(op), Return, Kept(listener, listener', Tail(strand), submitted, cancelled)
      PROVE  LInv' /\ Honest(listener, listener', cancelled)
  <2>1. Asked(Tail(strand), cancelled)
    BY <1>1, Begun
  <2>2. strand' = Tail(strand) /\ submitted' = submitted /\ cancelled' = cancelled
    BY <1>1 DEF Return
  <2>3. QED
    BY <1>1, <2>1, <2>2 DEF LInv, Kept
<1>2. CASE start_without_effect
  <2>1. Running("start") /\ Return
    BY <1>2 DEF start_without_effect
  <2>2. QED
    BY <1>1, <1>2, <2>1, start_without_effect_kept
<1>3. CASE start_on_strand
  <2>1. listener \in Listener /\ UNCHANGED <<strand, submitted, cancelled>> /\ Books(listener, strand)
        /\ Ledger(listener, strand, submitted)
    BY <1>3 DEF TypeOK, LInv, start_on_strand
  <2>2. Quiet(listener, listener') /\ listener'.state = "starting"
    BY <1>3, <2>1 DEF start_on_strand, Listener, Quiet, Unmoved, Silent, Outstanding, Flying
  <2>3. listener' \in Listener
    BY <1>3, StrandType DEF TypeOK, Strand
  <2>4. Books(listener', strand)
    BY <2>1, <2>2, UnmovedBooks DEF Quiet, Books, Alive
  <2>5. Ledger(listener', strand, submitted) /\ Honest(listener, listener', cancelled)
    BY <2>1, <2>2, <2>3, LedgerTells DEF Quiet
  <2>6. QED
    BY <2>1, <2>4, <2>5 DEF LInv
<1>4. CASE start_on_strand_opens
  <2>1. Running("start") /\ Return
    BY <1>4 DEF start_on_strand_opens
  <2>2. QED
    BY <1>1, <1>4, <2>1, start_on_strand_opens_kept
<1>5. CASE wait_on_strand
  <2>1. Running("wait") /\ Return
    BY <1>5 DEF wait_on_strand
  <2>2. QED
    BY <1>1, <1>5, <2>1, wait_on_strand_kept
<1>6. CASE cancel_wait
  <2>1. Running("cancel_wait") /\ Return
    BY <1>6 DEF cancel_wait
  <2>2. QED
    BY <1>1, <1>6, <2>1, cancel_wait_kept
<1>7. CASE accepted
  <2>1. Running("accepted") /\ Return
    BY <1>7 DEF accepted
  <2>2. QED
    BY <1>1, <1>7, <2>1, accepted_kept
<1>8. CASE session_finished
  <2>1. Running("session_finished") /\ Return
    BY <1>8 DEF session_finished
  <2>2. QED
    BY <1>1, <1>8, <2>1, session_finished_kept
<1>9. CASE retry_timer_handler \/ shutdown_timer_handler \/ stop_on_strand
  <2>1. \E op : Running(op) /\ Return
    BY <1>9 DEF retry_timer_handler, shutdown_timer_handler, stop_on_strand
  <2>2. QED
    BY <1>1, <1>9, <2>1, TimersKept
<1>10. QED
  BY <1>2, <1>3, <1>4, <1>5, <1>6, <1>7, <1>8, <1>9 DEF Strand

-----------------------------------------------------------------------------
(* Clients, the operating system and the sessions *)

\* Client calls post; nobody is told anything.
LEMMA ClientKept ==
  ASSUME TypeOK, LInv, Client
  PROVE  LInv' /\ listener' = listener
<1>0. /\ listener \in Listener /\ strand \in Seq(Handler)
      /\ Books(listener, strand) /\ Ledger(listener, strand, submitted)
      /\ Asked(strand, cancelled)
  BY DEF TypeOK, LInv
<1>1. ASSUME NEW h \in Handler, h.op # "accepted", h.op = "cancel_wait" => h.id \in cancelled'
      PROVE  /\ Books(listener, Append(strand, h))
             /\ cancelled \subseteq cancelled' => Asked(Append(strand, h), cancelled')
  <2>1. Books(listener, Append(strand, h))
    BY <1>0, <1>1, BooksPost
  <2>2. ASSUME cancelled \subseteq cancelled' PROVE Asked(Append(strand, h), cancelled')
    <3>1. h \notin Recalls(cancelled') /\ Recalls(cancelled') \subseteq Recalls(cancelled)
      BY <1>1, <2>2 DEF Recalls
    <3>2. ~Meets(strand, Recalls(cancelled'))
      BY <1>0, <3>1 DEF Asked, Meets
    <3>3. QED
      BY <1>0, <3>1, <3>2, AppendMeets DEF Asked
  <2>3. QED
    BY <2>1, <2>2
<1>2. ASSUME NEW i \in Starts, do_async_start(i) PROVE LInv' /\ listener' = listener
  <2> DEFINE h == [op |-> "start", id |-> i]
  <2>1. h \in Handler /\ h.op = "start" /\ h.id = i /\ i \in Operation
    BY PostedHandlers, Literals
  <2>2. /\ i \notin submitted /\ submitted' = submitted \cup {i} /\ strand' = Append(strand, h)
        /\ listener' = listener /\ cancelled' = cancelled
    BY <1>2 DEF do_async_start
  <2> HIDE DEF h
  <2>3. Ledger(listener, strand', submitted')
    BY <1>0, <2>1, <2>2, LedgerPost
  <2>4. QED
    BY <1>1, <2>1, <2>2, <2>3 DEF LInv
<1>3. ASSUME NEW i \in Waits, do_async_wait(i) PROVE LInv' /\ listener' = listener
  <2> DEFINE h == [op |-> "wait", id |-> i]
  <2>1. h \in Handler /\ h.op = "wait" /\ h.id = i /\ i \in Operation
    BY PostedHandlers, Literals
  <2>2. /\ i \notin submitted /\ submitted' = submitted \cup {i} /\ strand' = Append(strand, h)
        /\ listener' = listener /\ cancelled' = cancelled
    BY <1>3 DEF do_async_wait
  <2> HIDE DEF h
  <2>3. Ledger(listener, strand', submitted')
    BY <1>0, <2>1, <2>2, LedgerPost
  <2>4. QED
    BY <1>1, <2>1, <2>2, <2>3 DEF LInv
<1>4. ASSUME NEW i \in Starts, CancelStart(i) PROVE LInv' /\ listener' = listener
  <2>1. cancelled' = cancelled \cup {i} /\ UNCHANGED <<listener, strand, submitted>>
    BY <1>4 DEF CancelStart
  <2>2. Recalls(cancelled') \subseteq Recalls(cancelled)
    BY <2>1 DEF Recalls
  <2>3. Asked(strand, cancelled')
    BY <1>0, <2>2 DEF Asked, Meets
  <2>4. QED
    BY <1>0, <2>1, <2>3 DEF LInv
<1>5. ASSUME NEW i \in Waits, CancelWait(i) PROVE LInv' /\ listener' = listener
  <2> DEFINE h == [op |-> "cancel_wait", id |-> i]
  <2>1. h \in Handler /\ h.op = "cancel_wait" /\ h.id = i
    BY PostedHandlers
  <2>2. /\ cancelled' = cancelled \cup {i} /\ strand' = Append(strand, h)
        /\ UNCHANGED <<listener, submitted>>
    BY <1>5 DEF CancelWait
  <2> HIDE DEF h
  <2>3. Ledger(listener, strand', submitted)
    BY <1>0, <2>1, <2>2, LedgerPost
  <2>4. Books(listener, strand') /\ Asked(strand', cancelled')
    BY <1>1, <2>1, <2>2, Zenon
  <2>5. QED
    BY <2>2, <2>3, <2>4 DEF LInv
<1>6. ASSUME NEW t \in Stoppers, request_stop(t) PROVE LInv' /\ listener' = listener
  BY <1>6 DEF request_stop, LInv
<1>7. ASSUME NEW t \in Stoppers, post_stop(t) PROVE LInv' /\ listener' = listener
  <2> DEFINE h == [op |-> "stop"]
  <2>1. h \in Handler /\ h.op = "stop"
    BY PostedHandlers
  <2>2. strand' = Append(strand, h) /\ UNCHANGED <<listener, submitted, cancelled>>
    BY <1>7 DEF post_stop
  <2> HIDE DEF h
  <2>3. Ledger(listener, strand', submitted)
    BY <1>0, <2>1, <2>2, LedgerPost
  <2>4. Books(listener, strand') /\ Asked(strand', cancelled')
    BY <1>1, <2>1, <2>2
  <2>5. QED
    BY <2>2, <2>3, <2>4 DEF LInv
<1>8. QED
  BY <1>2, <1>3, <1>4, <1>5, <1>6, <1>7 DEF Client

\* A completion on its way to the strand is counted wherever it is.
LEMMA InputOutputKept ==
  ASSUME TypeOK, LInv, InputOutput
  PROVE  LInv' /\ Silent(listener, listener')
<1> DEFINE f == listener.in_flight
<1>0. /\ listener \in Listener /\ strand \in Seq(Handler) /\ f \in [Completion -> Nat]
      /\ Books(listener, strand) /\ Ledger(listener, strand, submitted)
      /\ Asked(strand, cancelled)
  BY DEF TypeOK, LInv, Listener
<1>00. listener' \in Listener /\ UNCHANGED <<submitted, cancelled>>
  BY InputOutputType, Zenon DEF TypeOK, InputOutput, accept_completes, retry_timer_expires,
                         shutdown_timer_expires, deliver
<1>1. /\ listener'.state = listener.state /\ listener'.accept_pending = listener.accept_pending
      /\ listener'.sessions = listener.sessions /\ Silent(listener, listener')
  BY <1>0, Zenon DEF InputOutput, accept_completes, retry_timer_expires, shutdown_timer_expires,
              deliver, Listener, Silent
<1>2. Ledger(listener', strand, submitted)
  BY <1>0, <1>00, <1>1, LedgerTells
<1>3. SUFFICES /\ Balanced(listener', strand') /\ Alive(listener', strand')
               /\ \/ strand' = strand
                  \/ \E c \in Completion : strand' = Append(strand, c)
  <2>1. Room(listener')
    BY <1>0, <1>1 DEF Books, Room, Pending
  <2>2. \A c \in Completion : c \in Handler /\ c.op \notin {"start", "wait", "cancel_wait"}
    BY PostedHandlers DEF Completion, AcceptDone, RetryDone, ShutdownDue
  <2>3. Ledger(listener', strand', submitted)
    BY <1>0, <1>00, <1>2, <1>3, <2>2, LedgerPost, Zenon
  <2>4. Asked(strand', cancelled)
    <3>1. \A c \in Completion : c \notin Recalls(cancelled)
      BY <2>2 DEF Recalls
    <3>2. \A c \in Completion : Asked(Append(strand, c), cancelled)
      BY <1>0, <2>2, <3>1, AppendMeets, Zenon DEF Asked
    <3>3. QED
      BY <1>0, <1>3, <3>2, Zenon
  <2>5. QED
    BY <1>00, <1>1, <1>3, <2>1, <2>3, <2>4 DEF LInv, Books
<1> HIDE DEF f
<1>4. ASSUME NEW ec \in AcceptResult, accept_completes(ec)
      PROVE  Balanced(listener', strand') /\ Alive(listener', strand') /\ strand' = strand
  <2>1. /\ listener.acceptor = "accepting" /\ listener'.acceptor = "open" /\ strand' = strand
        /\ listener'.in_flight = [f EXCEPT ![AcceptDone(ec)] = @ + 1]
        /\ listener'.retry_timer = listener.retry_timer
    BY <1>0, <1>4 DEF accept_completes, Listener, f
  <2>2. /\ listener'.in_flight[AcceptDone(ec)] = f[AcceptDone(ec)] + 1
        /\ \A e \in AcceptResult \ {ec} : listener'.in_flight[AcceptDone(e)] = f[AcceptDone(e)]
        /\ listener'.in_flight[RetryDone("ok")] = f[RetryDone("ok")]
    BY <1>0, <2>1, CompletionsApart, CompletionMembers
  <2>3. \A e \in AcceptResult : f[AcceptDone(e)] \in Nat
    BY <1>0, CompletionMembers
  <2>4. Outstanding(listener') = Outstanding(listener)
    BY <2>1, <2>2, <2>3 DEF Outstanding, Flying, AcceptResult, f
  <2>5. Balanced(listener', strand)
    BY <1>0, <1>1, <2>4 DEF Books, Balanced, Pending
  <2>6. Alive(listener', strand)
    BY <1>0, <1>1, <2>1, <2>2, Zenon DEF Books, Alive, Retries, f
  <2>7. QED
    BY <2>1, <2>5, <2>6
<1>5. CASE retry_timer_expires
  <2>1. /\ listener'.acceptor = listener.acceptor /\ strand' = strand
        /\ listener'.in_flight = [f EXCEPT ![RetryDone("ok")] = f[RetryDone("ok")] + 1]
    BY <1>0, <1>5 DEF retry_timer_expires, Listener, f
  <2>2. \A ec \in AcceptResult : listener'.in_flight[AcceptDone(ec)] = f[AcceptDone(ec)]
    BY <1>0, <2>1, CompletionsApart, CompletionMembers
  <2>3. Outstanding(listener') = Outstanding(listener)
    BY <2>1, <2>2, SameOutstanding, Zenon DEF f
  <2>4. listener'.in_flight[RetryDone("ok")] > 0
    BY <1>0, <2>1, CompletionMembers
  <2>5. Balanced(listener', strand)
    BY <1>0, <1>1, <2>3 DEF Books, Balanced, Pending
  <2>6. Alive(listener', strand)
    BY <2>4 DEF Alive, Retries
  <2>7. QED
    BY <2>1, <2>5, <2>6
<1>6. CASE shutdown_timer_expires
  <2>1. /\ listener'.acceptor = listener.acceptor /\ strand' = strand
        /\ listener'.retry_timer = listener.retry_timer
        /\ listener'.in_flight = [f EXCEPT ![ShutdownDue] = f[ShutdownDue] + 1]
    BY <1>0, <1>6 DEF shutdown_timer_expires, Listener, f
  <2>2. \A ec \in AcceptResult : listener'.in_flight[AcceptDone(ec)] = f[AcceptDone(ec)]
    BY <1>0, <2>1, CompletionsApart, CompletionMembers
  <2>3. Outstanding(listener') = Outstanding(listener)
    BY <2>1, <2>2, SameOutstanding, Zenon DEF f
  <2>4. listener'.in_flight[RetryDone("ok")] = f[RetryDone("ok")]
    BY <1>0, <2>1, CompletionMembers, CompletionsApart
  <2>5. Balanced(listener', strand)
    BY <1>0, <1>1, <2>3 DEF Books, Balanced, Pending
  <2>6. Alive(listener', strand)
    BY <1>0, <1>1, <2>1, <2>4, Zenon DEF Books, Alive, Retries, f
  <2>7. QED
    BY <2>1, <2>5, <2>6
<1>7. ASSUME NEW c \in Completion, deliver(c)
      PROVE  /\ Balanced(listener', strand') /\ Alive(listener', strand')
             /\ strand' = Append(strand, c)
  <2>1. /\ listener'.acceptor = listener.acceptor /\ strand' = Append(strand, c)
        /\ listener'.retry_timer = listener.retry_timer
        /\ f[c] > 0 /\ listener'.in_flight = [f EXCEPT ![c] = f[c] - 1]
    BY <1>0, <1>7 DEF deliver, Listener, f
  <2>2. c \in Handler
    BY PostedHandlers
  <2>3. /\ Meets(strand', Accepts) <=> Meets(strand, Accepts) \/ c \in Accepts
        /\ MeetsOnce(strand, Accepts) /\ ~(Meets(strand, Accepts) /\ c \in Accepts)
             => MeetsOnce(strand', Accepts)
    BY <1>0, <2>1, <2>2, AppendMeets
  <2>4. Meets(strand', {RetryDone("ok")}) <=> Meets(strand, {RetryDone("ok")}) \/ c \in {RetryDone("ok")}
    BY <1>0, <2>1, <2>2, AppendMeets
  <2>5. /\ Outstanding(listener) \in Nat /\ Outstanding(listener') \in Nat /\ Pending(listener) \in {0, 1}
        /\ Pending(listener') = Pending(listener)
        /\ Balanced(listener, strand)
    BY <1>0, <1>00, <1>1, OutstandingNat DEF Books, Pending
  <2>6. Balanced(listener', strand')
    <3>1. CASE c \in Accepts
      <4>1. PICK ec \in AcceptResult : c = AcceptDone(ec)
        BY <3>1 DEF Completion, Accepts, RetryDone, ShutdownDue
      <4>2. /\ listener'.in_flight[AcceptDone(ec)] = f[AcceptDone(ec)] - 1
            /\ \A e \in AcceptResult \ {ec} : listener'.in_flight[AcceptDone(e)] = f[AcceptDone(e)]
            /\ \A e \in AcceptResult : f[AcceptDone(e)] \in Nat
        BY <1>0, <2>1, <4>1, CompletionsApart, CompletionMembers, Zenon
      <4>3. Outstanding(listener') = Outstanding(listener) - 1
        <5>0. /\ Flying(listener', ec) = Flying(listener, ec) - 1
              /\ \A e \in AcceptResult \ {ec} : Flying(listener', e) = Flying(listener, e)
              /\ \A e \in AcceptResult : Flying(listener, e) \in Nat
          BY <4>2 DEF Flying, f
        <5>1. /\ Flying(listener', "ok") = Flying(listener, "ok") - (IF ec = "ok" THEN 1 ELSE 0)
              /\ Flying(listener', "transient") = Flying(listener, "transient") - (IF ec = "transient" THEN 1 ELSE 0)
              /\ Flying(listener', "fatal") = Flying(listener, "fatal") - (IF ec = "fatal" THEN 1 ELSE 0)
              /\ Flying(listener', "aborted") = Flying(listener, "aborted") - (IF ec = "aborted" THEN 1 ELSE 0)
          BY <5>0 DEF AcceptResult
        <5>2. /\ Flying(listener, "ok") \in Nat /\ Flying(listener, "transient") \in Nat
              /\ Flying(listener, "fatal") \in Nat /\ Flying(listener, "aborted") \in Nat
              /\ ec = "ok" \/ ec = "transient" \/ ec = "fatal" \/ ec = "aborted"
          BY <5>0 DEF AcceptResult
        <5> DEFINE r == IF listener.acceptor = "accepting" THEN 1 ELSE 0
        <5>3. /\ r \in Nat
              /\ Outstanding(listener) = r + Flying(listener, "ok") + Flying(listener, "transient")
                                         + Flying(listener, "fatal") + Flying(listener, "aborted")
              /\ Outstanding(listener') = r + Flying(listener', "ok") + Flying(listener', "transient")
                                          + Flying(listener', "fatal") + Flying(listener', "aborted")
          BY <2>1 DEF Outstanding
        <5> HIDE DEF r
        <5>4. CASE ec = "ok"
          BY <5>1, <5>2, <5>3, <5>4
        <5>5. CASE ec = "transient"
          BY <5>1, <5>2, <5>3, <5>5
        <5>6. CASE ec = "fatal"
          BY <5>1, <5>2, <5>3, <5>6
        <5>7. CASE ec = "aborted"
          BY <5>1, <5>2, <5>3, <5>7
        <5>8. QED
          BY <5>2, <5>4, <5>5, <5>6, <5>7
      <4>4. QED
        BY <2>3, <2>5, <3>1, <4>3 DEF Balanced, Queued
    <3>2. CASE c \notin Accepts
      <4>1. c \in {RetryDone("ok"), RetryDone("aborted"), ShutdownDue}
        BY <2>2, <3>2 DEF Completion, Accepts, AcceptDone
      <4>2. \A ec \in AcceptResult : listener'.in_flight[AcceptDone(ec)] = f[AcceptDone(ec)]
        BY <1>0, <2>1, <4>1, CompletionsApart, CompletionMembers
      <4>3. Outstanding(listener') = Outstanding(listener)
        BY <2>1, <4>2, SameOutstanding, Zenon DEF f
      <4>4. QED
        BY <2>3, <2>5, <3>2, <4>3 DEF Balanced, Queued
    <3>3. QED
      BY <3>1, <3>2
  <2>7. Alive(listener', strand')
    <3>1. CASE c = RetryDone("ok")
      BY <2>4, <3>1 DEF Alive, Retries
    <3>2. CASE c # RetryDone("ok")
      <4>1. listener'.in_flight[RetryDone("ok")] = f[RetryDone("ok")]
        BY <1>0, <2>1, <3>2, CompletionMembers, Zenon
      <4>2. QED
        BY <1>0, <1>1, <2>1, <2>4, <4>1, Zenon DEF Books, Alive, Retries, f
    <3>3. QED
      BY <3>1, <3>2
  <2>8. QED
    BY <2>1, <2>6, <2>7
<1>8. QED
  BY <1>4, <1>5, <1>6, <1>7 DEF InputOutput

\* Sessions that begin, run and end do not touch the books.
LEMMA SessionsKept ==
  ASSUME TypeOK, LInv, Sessions
  PROVE  LInv' /\ Silent(listener, listener')
<1>0. /\ listener \in Listener /\ strand \in Seq(Handler)
      /\ Books(listener, strand) /\ Ledger(listener, strand, submitted)
      /\ Asked(strand, cancelled)
  BY DEF TypeOK, LInv
<1>1. /\ \E x : listener' = [listener EXCEPT !.connections = x]
      /\ UNCHANGED <<submitted, cancelled>>
      /\ \/ strand' = strand
         \/ \E c \in 1..Len(listener.connections), ec \in SessionResult :
              strand' = Append(strand, [op |-> "session_finished", id |-> c, ec |-> ec])
  BY DEF Sessions, ConnectionStrand, connection_start, connection_request_stop,
         connection_force_close, session_completes, connection_finish, SessionResult
<1>2. listener' \in Listener
  BY SessionsType DEF TypeOK
<1>3. /\ Unmoved(listener, listener') /\ Silent(listener, listener')
      /\ listener'.state = listener.state /\ listener'.retry_timer = listener.retry_timer
      /\ listener'.in_flight = listener.in_flight
  BY <1>0, <1>1 DEF Listener, Unmoved, Silent, Outstanding, Flying
<1>4. Books(listener', strand) /\ Ledger(listener', strand, submitted)
  BY <1>0, <1>2, <1>3, SameBooks, LedgerTells
<1>5. ASSUME NEW h \in Handler, h.op = "session_finished"
      PROVE  /\ Books(listener', Append(strand, h)) /\ Ledger(listener', Append(strand, h), submitted)
             /\ Asked(Append(strand, h), cancelled)
  <2>1. Books(listener', Append(strand, h)) /\ Ledger(listener', Append(strand, h), submitted)
    BY <1>0, <1>2, <1>4, <1>5, BooksPost, LedgerPost
  <2>2. h \notin Recalls(cancelled)
    BY <1>5 DEF Recalls
  <2>3. QED
    BY <1>0, <2>1, <2>2, AppendMeets DEF Asked
<1>6. CASE strand' = strand
  BY <1>0, <1>1, <1>3, <1>4, <1>6 DEF LInv
<1>7. ASSUME NEW c \in 1..Len(listener.connections), NEW ec \in SessionResult,
             strand' = Append(strand, [op |-> "session_finished", id |-> c, ec |-> ec])
      PROVE  LInv' /\ Silent(listener, listener')
  <2> DEFINE h == [op |-> "session_finished", id |-> c, ec |-> ec]
  <2>1. c \in Nat \ {0}
    BY <1>0 DEF Listener
  <2>2. h \in Handler /\ h.op = "session_finished"
    BY <2>1, PostedHandlers
  <2>3. strand' = Append(strand, h)
    BY <1>7
  <2> HIDE DEF h
  <2>4. QED
    BY <1>1, <1>3, <1>5, <2>2, <2>3 DEF LInv
<1>8. QED
  BY <1>1, <1>6, <1>7, Zenon

-----------------------------------------------------------------------------
(* The promises *)

\* Every step keeps the books and tells the truth to whoever waits.
LEMMA StepKept ==
  ASSUME TypeOK, IInv, LInv, [Next]_vars
  PROVE  LInv' /\ Honest(listener, listener', cancelled)
<1>1. CASE UNCHANGED vars
  BY <1>1 DEF vars, LInv, Honest
<1>2. CASE Client
  BY <1>2, ClientKept DEF Honest
<1>3. CASE InputOutput
  BY <1>3, InputOutputKept DEF Honest, Silent
<1>4. CASE Strand
  BY <1>4, StrandKept
<1>5. CASE Sessions
  BY <1>5, SessionsKept DEF Honest, Silent
<1>6. QED
  BY <1>1, <1>2, <1>3, <1>4, <1>5 DEF Next

\* The books are right from the beginning.
LEMMA InitKept ==
  ASSUME Init
  PROVE  LInv
<1>0. /\ listener.acceptor = "closed" /\ ~listener.accept_pending /\ listener.state = "idle"
      /\ listener.sessions = {} /\ listener.waiters = {} /\ submitted = {} /\ strand = << >>
      /\ \A c \in Completion : listener.in_flight[c] = 0
      /\ \A i \in Operation : listener.completions[i] = << >>
  BY DEF Init
<1>1. strand \in Seq(Handler) /\ \A X : ~Meets(strand, X) /\ MeetsOnce(strand, X)
  BY <1>0, EmptyMeets
<1>2. MeetsOnce(strand, Accepts) /\ Queued(strand) = 0
  BY <1>1 DEF Queued
<1>3. Balanced(listener, strand)
  BY <1>0, <1>2, CompletionMembers DEF Balanced, Outstanding, Flying, Pending, AcceptResult
<1>4. Room(listener)
  BY <1>0, FS_EmptySet, OptionsAssumption DEF Room, Pending
<1>5. Books(listener, strand)
  BY <1>0, <1>3, <1>4 DEF Books, Alive
<1>6. Ledger(listener, strand, submitted)
  BY <1>0, <1>1 DEF Ledger, InOnePlace
<1>7. QED
  BY <1>1, <1>5, <1>6 DEF LInv, Asked

\* The inductive invariant of the accept loop and of the calls.
THEOREM BooksInvariant == Spec => []LInv
<1>1. Init => LInv
  BY InitKept
<1>2. TypeOK /\ IInv /\ LInv /\ [Next]_vars => LInv'
  BY StepKept
<1>3. QED
  BY <1>1, <1>2, Invariance, PTL DEF Spec

\* AcceptPendingIsExact: m_accept_pending is true exactly while one accept is with
\* the reactor, in flight or queued, through every close, stop and restart.
THEOREM AcceptPendingExact == Spec => []AcceptPendingIsExact
<1>1. TypeOK /\ LInv => AcceptPendingIsExact
  <2> SUFFICES ASSUME TypeOK, LInv PROVE AcceptPendingIsExact
    OBVIOUS
  <2>1. strand \in Seq(Handler) /\ Balanced(listener, strand)
    BY DEF TypeOK, LInv, Books
  <2> DEFINE Q == {k \in DOMAIN strand : strand[k].op = "accepted"}
  <2>2. Q = {k \in DOMAIN strand : strand[k] \in Accepts}
    BY <2>1 DEF Accepts
  <2>3. Cardinality(Q) = Queued(strand)
    <3>1. CASE Meets(strand, Accepts)
      <4>1. PICK k \in DOMAIN strand : strand[k] \in Accepts
        BY <3>1 DEF Meets
      <4>2. Q = {k}
        BY <2>1, <2>2, <4>1 DEF Balanced, MeetsOnce
      <4>3. QED
        BY <3>1, <4>2, FS_Singleton, Zenon DEF Queued
    <3>2. CASE ~Meets(strand, Accepts)
      <4>1. Q = {}
        BY <2>2, <3>2 DEF Meets
      <4>2. QED
        BY <3>2, <4>1, FS_EmptySet DEF Queued
    <3>3. QED
      BY <3>1, <3>2
  <2>4. QED
    BY <2>1, <2>3, Zenon DEF AcceptPendingIsExact, Balanced, Outstanding, Flying, Pending
<1>2. QED
  BY <1>1, TypeCorrect, BooksInvariant, PTL

\* AcceptLoopAlive: a running listener never loses its accept loop.
THEOREM LoopAlive == Spec => []AcceptLoopAlive
<1>1. LInv => AcceptLoopAlive
  BY DEF LInv, Books, Alive, Retries, Meets, AcceptLoopAlive
<1>2. QED
  BY <1>1, BooksInvariant, PTL

\* ActiveSessionsBounded: the session limit holds although it is tested when the
\* accept begins and not when the session does.
THEOREM SessionsBounded == Spec => []ActiveSessionsBounded
<1>1. LInv => ActiveSessionsBounded
  <2> SUFFICES ASSUME LInv PROVE ActiveSessionsBounded
    OBVIOUS
  <2>1. Cardinality(listener.sessions) \in Nat
    BY DEF LInv, Books, Room
  <2>2. QED
    BY <2>1, OptionsAssumption DEF LInv, Books, Room, Pending, ActiveSessionsBounded
<1>2. QED
  BY <1>1, BooksInvariant, PTL

\* CompletedAtMostOnce: no handler of async_start or async_wait is invoked twice.
THEOREM CompletesOnce == Spec => []CompletedAtMostOnce
<1>1. LInv => CompletedAtMostOnce
  BY DEF LInv, Ledger, InOnePlace, CompletedAtMostOnce
<1>2. QED
  BY <1>1, BooksInvariant, PTL

\* WaitTellsTheTruth: a wait that nobody cancelled completes only as the listener
\* stops, with the error it stopped with.
THEOREM WaitsAreTold == Spec => WaitTellsTheTruth
<1>1. TypeOK /\ IInv /\ LInv /\ [Next]_vars => Honest(listener, listener', cancelled)
  BY StepKept
<1>2. Honest(listener, listener', cancelled) =>
        [ \A i \in Waits \ cancelled :
            listener'.completions[i] # listener.completions[i]
              => /\ listener'.state = "stopped"
                 /\ listener'.completions[i] = <<listener'.terminal_error>> ]_vars
  BY DEF Honest
<1>3. QED
  BY <1>1, <1>2, Invariance, BooksInvariant, PTL DEF Spec, WaitTellsTheTruth

-----------------------------------------------------------------------------
(* The delay before a retry *)

\* A number in range is its own remainder.
LEMMA Remainder ==
  ASSUME NEW n \in Nat \ {0}, NEW a \in 0..(n - 1)
  PROVE  a % n = a
OBVIOUS

\* accept_retry_delay never overflows: for options the constructor accepts, the loop
\* begins in the range up to the limit, and an iteration doubles the delay exactly
\* or cuts it off at the limit, however close to the end of the representation.
THEOREM BackoffStep ==
  ASSUME NEW o \in Valid, NEW delay \in 0..o.max_accept_error_backoff
  PROVE  LET limit == o.max_accept_error_backoff
             next  == doubled(delay, limit)
         IN  /\ o.accept_error_backoff \in 0..limit
             /\ next \in delay..limit
             /\ next = IF 2 * delay < limit THEN 2 * delay ELSE limit
<1> DEFINE limit == o.max_accept_error_backoff
<1>1. /\ MaxRep \in Nat /\ limit \in Int /\ limit <= MaxRep
      /\ o.accept_error_backoff \in 0..limit
  <2>1. MaxRep \in Nat /\ o.accept_error_backoff \in Rep /\ limit \in Rep
    BY RepAssumption DEF Valid, Options
  <2>2. o.accept_error_backoff >= 0 /\ limit >= o.accept_error_backoff
    BY DEF Valid, validate_acceptor_options
  <2>3. QED
    BY <2>1, <2>2 DEF Rep
<1> HIDE DEF limit
<1>2. limit \in Nat /\ delay \in 0..limit
  BY <1>1 DEF limit
<1>3. CASE delay > limit \div 2
  BY <1>1, <1>2, <1>3 DEF doubled, limit
<1>4. CASE ~(delay > limit \div 2)
  <2> DEFINE a == 2 * delay + MaxRep + 1
             n == 2 * (MaxRep + 1)
  <2>1. 2 * delay <= limit
    BY <1>2, <1>4
  <2>2. n \in Nat \ {0} /\ a \in 0..(n - 1)
    BY <1>1, <1>2, <2>1
  <2>3. a % n = a
    <3> HIDE DEF a, n
    <3> QED BY <2>2, Remainder
  <2>4. wrapped(2 * delay) = 2 * delay
    BY <1>1, <1>2, <2>3 DEF wrapped
  <2>5. doubled(delay, limit) = 2 * delay
    BY <1>4, <2>4 DEF doubled
  <2>6. QED
    BY <1>1, <1>2, <2>1, <2>5 DEF limit
<1>5. QED
  BY <1>3, <1>4

=============================================================================
