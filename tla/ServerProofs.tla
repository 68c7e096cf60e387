---------------------------- MODULE ServerProofs ----------------------------
(***************************************************************************)
(* The invariants of Server, for any number of listeners and of calls.     *)
(*                                                                         *)
(* What the bookkeeping of a call needs to know of the listeners is two    *)
(* sets: the listeners that hold its child, and those about to run its     *)
(* completion.  Book relates the operation group to these sets, and IInv   *)
(* is the inductive invariant: the types, listeners that are in order      *)
(* (Sound) and the books of every call.  An action changes one group, one  *)
(* listener or both; StepIInv says what it does to each, and puts the two  *)
(* together.  How many children a call waits for is said with Sized, which *)
(* needs no library; that this is Cardinality is shown where it is used.   *)
(* The last section follows a call that nobody cancels, for the programs   *)
(* around the server (EchoMainProofs).                                     *)
(***************************************************************************)
EXTENDS Server, QueueTheorems

\* The provers that try a leaf in turn, unless it names one.
USE SMTT(20), SMTT(30), ZenonT(30)

-----------------------------------------------------------------------------
(* Queues *)

\* An element erased.
LEMMA EraseMeets ==
  ASSUME NEW S, NEW s \in Seq(S), NEW k \in DOMAIN s, NEW X
  PROVE  /\ erase(s, k) \in Seq(S)
         /\ Meets(s, X) <=> Meets(erase(s, k), X) \/ s[k] \in X
         /\ MeetsOnce(s, X) => /\ MeetsOnce(erase(s, k), X)
                               /\ ~(Meets(erase(s, k), X) /\ s[k] \in X)
<1> DEFINE t == erase(s, k)
           up(n) == IF n < k THEN n ELSE n + 1
           down(n) == IF n < k THEN n ELSE n - 1
<1>0. Len(s) \in Nat \ {0} /\ DOMAIN s = 1..Len(s) /\ k \in 1..Len(s)
  OBVIOUS
<1>1. \A n \in 1..(Len(s) - 1) : up(n) \in 1..Len(s) /\ up(n) # k
  BY <1>0
<1>2. \A n \in 1..Len(s) : n # k => down(n) \in 1..(Len(s) - 1) /\ up(down(n)) = n
  BY <1>0
<1>3. \A m, n \in 1..(Len(s) - 1) : up(m) = up(n) => m = n
  BY <1>0
<1>4. DOMAIN t = 1..(Len(s) - 1) /\ \A n \in 1..(Len(s) - 1) : t[n] = s[up(n)]
  BY DEF erase
<1>5. t \in Seq(S)
  <2>1. Len(s) - 1 \in Nat /\ \A n \in 1..(Len(s) - 1) : s[up(n)] \in S
    BY <1>0, <1>1
  <2>2. QED
    BY <2>1 DEF erase
<1> HIDE DEF t, up, down
<1>6. ASSUME Meets(s, X) PROVE Meets(t, X) \/ s[k] \in X
  <2>1. PICK n \in 1..Len(s) : s[n] \in X
    BY <1>0, <1>6 DEF Meets
  <2>2. CASE n # k
    BY <1>2, <1>4, <2>1, <2>2 DEF Meets
  <2>3. QED
    BY <2>1, <2>2
<1>7. ASSUME Meets(t, X) \/ s[k] \in X PROVE Meets(s, X)
  BY <1>0, <1>1, <1>4, <1>7 DEF Meets
<1>8. ASSUME MeetsOnce(s, X) PROVE MeetsOnce(t, X) /\ ~(Meets(t, X) /\ s[k] \in X)
  <2>1. ASSUME NEW m \in 1..(Len(s) - 1), NEW n \in 1..(Len(s) - 1), t[m] \in X, t[n] \in X
        PROVE  m = n
    <3>1. s[up(m)] \in X /\ s[up(n)] \in X /\ up(m) \in DOMAIN s /\ up(n) \in DOMAIN s
      BY <1>0, <1>1, <1>4, <2>1
    <3>2. up(m) = up(n)
      BY <1>8, <3>1 DEF MeetsOnce
    <3>3. QED
      BY <1>3, <3>2
  <2>2. ASSUME NEW n \in 1..(Len(s) - 1), t[n] \in X, s[k] \in X PROVE FALSE
    <3>1. s[up(n)] \in X /\ up(n) \in DOMAIN s /\ up(n) # k
      BY <1>0, <1>1, <1>4, <2>2
    <3>2. QED
      BY <1>8, <2>2, <3>1 DEF MeetsOnce
  <2>3. QED
    BY <1>4, <2>1, <2>2 DEF Meets, MeetsOnce
<1>9. QED
  BY <1>5, <1>6, <1>7, <1>8 DEF t

-----------------------------------------------------------------------------
(* A listener and the calls *)

\* The handlers that stand for the child of a.
Kids(a) == {h \in Task : h.op \in {"start", "wait", "one"} /\ h.id = a}

\* Listener l holds the child of a.
Has(a, l) == Meets(l.strand, Kids(a)) \/ Meets(l.waiters, {a})

\* It does so in one place.
Once(a, l) ==
  /\ MeetsOnce(l.strand, Kids(a)) /\ MeetsOnce(l.waiters, {a})
  /\ ~(Meets(l.strand, Kids(a)) /\ Meets(l.waiters, {a}))

\* The strand of l is about to complete a.
Ending(a, l) == Meets(l.strand, {Completes(a)})

\* The calls whose child the listener holds, and those it is about to complete.
Calls(l) == {a \in Operation : Has(a, l)}
Ends(l)  == {a \in Operation : Ending(a, l)}

Finals == {Completes(a) : a \in Operation}

\* A completion under way holds the strand; no child is in two places.
Sound(l) == FirstOnly(l.strand, Finals) /\ \A a \in Operation : Once(a, l)

\* The handlers that are posted.
LEMMA HandlersMade ==
  /\ \A a \in Operation, ec \in Error : One(a, ec) \in Kids(a)
  /\ \A a \in Operation : Completes(a) \in Task /\ Completes(a) \in Finals
  /\ [op |-> "stop"] \in Task
  /\ \A a \in Starts : [op |-> "start", id |-> a] \in Kids(a)
  /\ \A a \in Waits : [op |-> "wait", id |-> a] \in Kids(a)
  /\ \A a \in Waits : [op |-> "cancel_wait", id |-> a] \in Task
<1>1. \A a \in Operation, ec \in Error : One(a, ec) \in Task
  BY DEF Task, One
<1>2. \A a \in Starts : [op |-> "start", id |-> a] \in Task
  BY DEF Task
<1>3. \A a \in Waits : [op |-> "wait", id |-> a] \in Task
  BY DEF Task
<1>4. \A a \in Waits : [op |-> "cancel_wait", id |-> a] \in Task
  BY DEF Task
<1>5. \A a \in Operation : Completes(a) \in Task /\ Completes(a) \in Finals
  BY Zenon DEF Task, Completes, Finals
<1>6. [op |-> "stop"] \in Task
  BY DEF Task
<1>7. QED
  BY <1>1, <1>2, <1>3, <1>4, <1>5, <1>6 DEF Kids, One

\* What the kind of a handler tells.
LEMMA HandlerKinds ==
  ASSUME NEW h \in Task
  PROVE  /\ h.op \in {"start", "wait", "one"} => h.id \in Operation /\ h \in Kids(h.id)
         /\ h.op = "start" => h.id \in Starts
         /\ h.op \in {"wait", "cancel_wait"} => h.id \in Waits
         /\ h.op = "one" => h.ec \in Error
         /\ h.op = "completes" => h.id \in Operation /\ h = Completes(h.id)
         /\ h \in Finals <=> h.op = "completes"
         /\ h.op \notin {"start", "wait", "one"} => \A a : h \notin Kids(a)
<1>1. h.op = "start" => h.id \in Starts
  BY DEF Task
<1>2. h.op \in {"wait", "cancel_wait"} => h.id \in Waits
  BY DEF Task
<1>3. h.op = "one" => h.id \in Operation /\ h.ec \in Error
  BY DEF Task
<1>4. h.op = "completes" => h.id \in Operation /\ h = Completes(h.id)
  BY DEF Task, Completes
<1>5. h \in Finals => h.op = "completes"
  BY DEF Finals, Completes
<1>6. h.op = "completes" => h \in Finals
  BY <1>4 DEF Finals
<1>7. QED
  BY <1>1, <1>2, <1>3, <1>4, <1>5, <1>6 DEF Kids, Operation

\* No handler is of two kinds.
LEMMA KidsApart ==
  /\ \A h, a : h \in Kids(a) => h \in Task /\ h \notin Finals /\ h.id = a
  /\ \A a, b : Completes(a) \notin Kids(b)
  /\ \A a, b : Completes(a) = Completes(b) => a = b
  /\ \A h, a : h \in Kids(a) => h # Completes(a)
BY DEF Kids, Finals, Completes

\* Only the strand and the waiters matter.
LEMMA SameQueues ==
  ASSUME NEW l, NEW m, m.strand = l.strand, m.waiters = l.waiters
  PROVE  Calls(m) = Calls(l) /\ Ends(m) = Ends(l) /\ (Sound(m) <=> Sound(l))
BY DEF Calls, Ends, Sound, Has, Ending, Once

\* The first handler taken off the strand.
LEMMA PopsTask ==
  ASSUME NEW l \in Listener, Sound(l), l.strand # << >>, NEW m,
         m.strand = Tail(l.strand), m.waiters = l.waiters
  PROVE  LET h == Head(l.strand)
         IN  /\ h \in Task /\ Sound(m) /\ Ends(m) = {}
             /\ \A a \in Operation : h \in Kids(a) =>
                  a \in Calls(l) /\ Calls(m) = Calls(l) \ {a} /\ Ends(l) = {}
             /\ (\A a \in Operation : h \notin Kids(a)) => Calls(m) = Calls(l)
             /\ h \notin Finals => Ends(l) = {}
             /\ \A a \in Operation : h = Completes(a) => Ends(l) = {a}
<1> DEFINE h == Head(l.strand)
<1>0. l.strand \in Seq(Task) /\ h \in Task
  BY DEF Listener
<1>1. ~Meets(m.strand, Finals)
  BY <1>0, FirstOnlyKept DEF Sound
<1>2. \A X : /\ Meets(l.strand, X) <=> Meets(m.strand, X) \/ h \in X
             /\ MeetsOnce(l.strand, X) =>
                  MeetsOnce(m.strand, X) /\ ~(Meets(m.strand, X) /\ h \in X)
  BY <1>0, TailMeets
<1>3. m.strand \in Seq(Task)
  BY <1>0
<1> HIDE DEF h
<1>4. FirstOnly(m.strand, Finals)
  BY <1>1, <1>3, FirstOnlyKept, Zenon
<1>5. \A a \in Operation : ~Meets(m.strand, {Completes(a)})
  BY <1>1 DEF Meets, Finals
<1>6. Ends(m) = {} /\ \A a \in Operation : a \in Ends(l) <=> h = Completes(a)
  BY <1>2, <1>5 DEF Ends, Ending
<1>7. \A a \in Operation : Once(a, m)
  BY <1>2 DEF Once, Sound
<1>8. Sound(m)
  BY <1>4, <1>7 DEF Sound
<1>9. ASSUME NEW a \in Operation, h \in Kids(a)
      PROVE  a \in Calls(l) /\ Calls(m) = Calls(l) \ {a} /\ h \notin Finals
  <2>1. \A b \in Operation : h \in Kids(b) <=> b = a
    BY <1>9, KidsApart
  <2>2. Has(a, l) /\ ~Has(a, m)
    BY <1>2, <1>9 DEF Has, Once, Sound
  <2>3. \A b \in Operation : b # a => (Has(b, m) <=> Has(b, l))
    BY <1>2, <2>1 DEF Has
  <2>4. QED
    BY <1>9, <2>2, <2>3, KidsApart DEF Calls
<1>10. ASSUME \A a \in Operation : h \notin Kids(a) PROVE Calls(m) = Calls(l)
  BY <1>2, <1>10 DEF Calls, Has
<1>11. h \notin Finals => Ends(l) = {}
  BY <1>6 DEF Finals, Ends
<1>12. \A a \in Operation : h = Completes(a) => Ends(l) = {a}
  BY <1>6, KidsApart DEF Ends
<1>13. QED
  BY <1>0, <1>6, <1>8, <1>9, <1>10, <1>11, <1>12 DEF h

\* finish: every waiter becomes a child that is done, on the strand.
LEMMA FinishKeeps ==
  ASSUME NEW l \in Listener, Sound(l), NEW ec \in Error
  PROVE  /\ finish(l, ec) \in Listener /\ Sound(finish(l, ec))
         /\ Calls(finish(l, ec)) = Calls(l) /\ Ends(finish(l, ec)) = Ends(l)
<1> DEFINE f == [k \in DOMAIN l.waiters |-> One(l.waiters[k], ec)]
           m == finish(l, ec)
<1>0. /\ l.strand \in Seq(Task) /\ l.waiters \in Seq(Waits)
      /\ \A k \in DOMAIN l.waiters : l.waiters[k] \in Operation
  BY DEF Listener, Operation
<1>1. \A k \in DOMAIN f : One(l.waiters[k], ec) \in Task /\ One(l.waiters[k], ec) \notin Finals
  BY <1>0, HandlersMade, KidsApart
<1>2. f \in Seq(Task)
  BY <1>0, <1>1
<1>3. m.strand = l.strand \o f /\ m.waiters = << >>
  BY DEF finish, Listener
<1>4. m \in Listener
  <2> HIDE DEF f
  <2>1. l.strand \o f \in Seq(Task) /\ << >> \in Seq(Waits) /\ "stopped" \in State
    BY <1>0, <1>2 DEF State
  <2>2. m = [l EXCEPT !.state = "stopped", !.terminal_error = ec, !.waiters = << >>,
                      !.strand = l.strand \o f]
    BY DEF finish, f
  <2>3. QED
    BY <2>1, <2>2, Zenon DEF Listener
<1> HIDE DEF m
<1>5. \A k \in DOMAIN f : \A a \in Operation : f[k] \in Kids(a) <=> l.waiters[k] \in {a}
  BY <1>0, HandlersMade, KidsApart
<1>6. \A k \in DOMAIN f : f[k] \notin Finals
  BY <1>1
<1>7. DOMAIN f = DOMAIN l.waiters
  OBVIOUS
<1> HIDE DEF f
<1>8. ~Meets(f, Finals) /\ \A a \in Operation : ~Meets(f, {Completes(a)})
  BY <1>6 DEF Meets, Finals
<1>9. \A a \in Operation : /\ Meets(f, Kids(a)) <=> Meets(l.waiters, {a})
                           /\ MeetsOnce(f, Kids(a)) <=> MeetsOnce(l.waiters, {a})
  BY <1>5, <1>7 DEF Meets, MeetsOnce
<1>10. FirstOnly(m.strand, Finals)
  BY <1>0, <1>2, <1>3, <1>8, FirstOnlyKept DEF Sound
<1>11. \A X : /\ Meets(m.strand, X) <=> Meets(l.strand, X) \/ Meets(f, X)
              /\ MeetsOnce(l.strand, X) /\ MeetsOnce(f, X)
                   /\ ~(Meets(l.strand, X) /\ Meets(f, X)) => MeetsOnce(m.strand, X)
  BY <1>0, <1>2, <1>3, ConcatMeets
<1>12. \A X : ~Meets(m.waiters, X) /\ MeetsOnce(m.waiters, X)
  BY <1>3, EmptyMeets
<1>13. \A a \in Operation : Once(a, m) /\ (Has(a, m) <=> Has(a, l))
  BY <1>9, <1>11, <1>12, Zenon DEF Once, Has, Sound
<1>14. QED
  BY <1>4, <1>8, <1>10, <1>11, <1>13 DEF Sound, Calls, Ends, Ending, m

Holders(a) == {i \in Listeners : a \in Calls(listener[i])}
Enders(a)  == {i \in Listeners : a \in Ends(listener[i])}

-----------------------------------------------------------------------------
(* The books of a call *)

\* Listeners the group still has to submit its child to.
Ahead(g) ==
  CASE g.pc = "snapshot" -> 1..g.size
    [] g.pc = "submit"   -> g.at..g.size
    [] g.pc = "check"    -> (g.at + 1)..g.size
    [] OTHER             -> {}

\* Where the call is in its loop over the listeners.
Placed(g) ==
  /\ g.pc = "new" => g.size = 0 /\ g.completions = << >>
  /\ g.pc \in {"new", "snapshot"} => g.at = 1 /\ g.initiation = {}
  /\ g.pc \in {"submit", "check"} => g.at <= g.size /\ g.initiation \subseteq 1..(g.at - 1)
  /\ g.pc \in {"check", "initiation", "stop"} => g.size > 0
  /\ g.pc \in {"completes", "stop", "returned"} => g.initiation = {}
  /\ g.rejected => g.pc = "returned"
  /\ g.initiation \subseteq 1..g.size
  /\ g.emit <= g.size

\* S has n elements: they can be numbered from 1 to n.
Sized(S, n) ==
  \E f \in [1..n -> S] : /\ \A j, k \in 1..n : f[j] = f[k] => j = k
                         /\ \A x \in S : \E k \in 1..n : f[k] = x

\* The children that are not done; H: the listeners that hold one.
Pending(g, H) == Ahead(g) \cup g.initiation \cup H

Counted(g, H) ==
  /\ H \subseteq 1..g.size
  /\ H \cap (Ahead(g) \cup g.initiation) = {}
  /\ IF g.rejected THEN H = {} ELSE Sized(Pending(g, H), g.remaining)

\* The call waits for children.
Pends(g) == IF g.size = 0 THEN g.pc = "snapshot" ELSE g.remaining > 0 /\ ~g.rejected

\* E: the listeners that are about to complete the call.
Concluded(g, E) ==
  /\ \A i, j \in E : i = j
  /\ E # {} => g.size > 0 /\ g.pc # "completes"
  /\ g.pc = "completes" \/ E # {} => ~Pends(g) /\ ~g.rejected
  /\ g.pc # "new" =>
       IF Pends(g) \/ g.pc = "completes" \/ E # {}
       THEN g.completions = << >>
       ELSE Len(g.completions) = 1

Book(g, H, E) == Placed(g) /\ Counted(g, H) /\ Concluded(g, E)

\* The listeners of a snapshot.
LEMMA SnapshotSize ==
  ASSUME NEW n \in Nat
  PROVE  Sized(1..n, n) /\ Sized({}, 0)
<1>1. \A m \in Nat : Sized(1..m, m)
  <2> SUFFICES ASSUME NEW m \in Nat PROVE Sized(1..m, m)
    OBVIOUS
  <2>1. [k \in 1..m |-> k] \in [1..m -> 1..m]
    OBVIOUS
  <2>2. QED
    BY <2>1, Zenon DEF Sized
<1>2. 1..0 = {} /\ 0 \in Nat
  OBVIOUS
<1>3. QED
  BY <1>1, <1>2

\* One element less, as long as there is one.
LEMMA SizedLess ==
  ASSUME NEW S, NEW n \in Nat, Sized(S, n)
  PROVE  /\ n = 0 <=> S = {}
         /\ \A x \in S : n - 1 \in Nat /\ Sized(S \ {x}, n - 1)
<1>1. PICK f \in [1..n -> S] : /\ \A j, k \in 1..n : f[j] = f[k] => j = k
                               /\ \A x \in S : \E k \in 1..n : f[k] = x
  BY DEF Sized
<1>2. n = 0 <=> S = {}
  <2>1. n = 0 => 1..n = {}
    OBVIOUS
  <2>2. n # 0 => 1 \in 1..n
    OBVIOUS
  <2>3. QED
    BY <1>1, <2>1, <2>2
<1>3. ASSUME NEW x \in S PROVE n - 1 \in Nat /\ Sized(S \ {x}, n - 1)
  <2>1. PICK p \in 1..n : f[p] = x
    BY <1>1
  <2> DEFINE m == n - 1
             g == [k \in 1..m |-> IF k = p THEN f[n] ELSE f[k]]
  <2>2. m \in Nat /\ n \in 1..n /\ 1..n = (1..m) \cup {n} /\ n \notin 1..m
    OBVIOUS
  <2> HIDE DEF m
  <2>3. g \in [1..m -> S \ {x}]
    BY <1>1, <2>1, <2>2
  <2>4. \A j, k \in 1..m : g[j] = g[k] => j = k
    BY <1>1, <2>2
  <2>5. ASSUME NEW y \in S \ {x} PROVE \E k \in 1..m : g[k] = y
    <3>1. PICK k \in 1..n : f[k] = y
      BY <1>1
    <3>2. k # p
      BY <2>1, <3>1
    <3>3. CASE k = n
      <4>1. p \in 1..m /\ g[p] = y
        BY <2>2, <3>1, <3>2, <3>3, Zenon
      <4>2. QED
        BY <4>1
    <3>4. CASE k # n
      <4>1. k \in 1..m /\ g[k] = y
        BY <2>2, <3>1, <3>2, <3>4
      <4>2. QED
        BY <4>1
    <3>5. QED
      BY <3>3, <3>4
  <2> HIDE DEF g
  <2>6. QED
    BY <2>2, <2>3, <2>4, <2>5, Zenon DEF Sized, m
<1>4. QED
  BY <1>2, <1>3

\* One element more.
LEMMA SizedMore ==
  ASSUME NEW S, NEW n \in Nat, Sized(S, n), NEW x, x \notin S
  PROVE  Sized(S \cup {x}, n + 1)
<1>1. PICK f \in [1..n -> S] : /\ \A j, k \in 1..n : f[j] = f[k] => j = k
                               /\ \A y \in S : \E k \in 1..n : f[k] = y
  BY DEF Sized
<1> DEFINE m == n + 1
           g == [k \in 1..m |-> IF k = m THEN x ELSE f[k]]
<1>2. m \in 1..m /\ 1..m = (1..n) \cup {m} /\ m \notin 1..n
  OBVIOUS
<1> HIDE DEF m
<1>3. g \in [1..m -> S \cup {x}]
  BY <1>1, <1>2
<1>4. \A j, k \in 1..m : g[j] = g[k] => j = k
  BY <1>1, <1>2
<1>5. \A y \in S \cup {x} : \E k \in 1..m : g[k] = y
  BY <1>1, <1>2
<1> HIDE DEF g
<1>6. QED
  BY <1>3, <1>4, <1>5, Zenon DEF Sized, m

\* Ahead, case by case.
LEMMA AheadOf ==
  ASSUME NEW g
  PROVE  /\ g.pc = "snapshot" => Ahead(g) = 1..g.size
         /\ g.pc = "submit" => Ahead(g) = g.at..g.size
         /\ g.pc = "check" => Ahead(g) = (g.at + 1)..g.size
         /\ g.pc \notin {"snapshot", "submit", "check"} => Ahead(g) = {}
<1>1. g.pc = "snapshot" => Ahead(g) = 1..g.size
  BY DEF Ahead
<1>2. g.pc = "submit" => Ahead(g) = g.at..g.size
  BY DEF Ahead
<1>3. g.pc = "check" => Ahead(g) = (g.at + 1)..g.size
  BY DEF Ahead
<1>4. g.pc \notin {"snapshot", "submit", "check"} => Ahead(g) = {}
  BY DEF Ahead
<1>5. QED
  BY <1>1, <1>2, <1>3, <1>4

\* The pending children are listeners of the snapshot, and m_remaining is zero
\* when there is none.
LEMMA PendingSized ==
  ASSUME NEW g \in Group, NEW H, Placed(g), Counted(g, H)
  PROVE  /\ Pending(g, H) \subseteq 1..g.size
         /\ ~g.rejected => (g.remaining = 0 <=> Pending(g, H) = {})
<1>1. g.size \in 0..N /\ N \in Nat /\ g.at \in Nat \ {0} /\ g.remaining \in Nat
  BY ServerAssumption DEF Group
<1>2. Ahead(g) \subseteq 1..g.size
  BY <1>1, AheadOf
<1>3. Pending(g, H) \subseteq 1..g.size
  BY <1>2, Zenon DEF Pending, Counted, Placed
<1>4. ~g.rejected => Sized(Pending(g, H), g.remaining)
  BY Zenon DEF Counted
<1>5. QED
  BY <1>1, <1>3, <1>4, SizedLess, Zenon

\* One of them is done.
LEMMA PendingLess ==
  ASSUME NEW g \in Group, NEW H, Placed(g), Counted(g, H), ~g.rejected, NEW i \in Pending(g, H)
  PROVE  /\ Pending(g, H) \subseteq 1..g.size
         /\ g.remaining \in 1..N /\ g.remaining - 1 \in 0..N
         /\ Sized(Pending(g, H) \ {i}, g.remaining - 1)
         /\ g.remaining - 1 = 0 <=> Pending(g, H) \ {i} = {}
<1>1. g.remaining \in 0..N /\ g.remaining \in Nat /\ N \in Nat
  BY ServerAssumption DEF Group
<1>2. g.remaining - 1 \in Nat /\ Sized(Pending(g, H) \ {i}, g.remaining - 1)
  BY <1>1, SizedLess, Zenon DEF Counted
<1>3. g.remaining - 1 = 0 <=> Pending(g, H) \ {i} = {}
  BY <1>2, SizedLess, Zenon
<1>4. g.remaining \in 1..N /\ g.remaining - 1 \in 0..N
  BY <1>1, <1>2
<1>5. QED
  BY <1>2, <1>3, <1>4, PendingSized, Zenon

\* No child is submitted before the call has begun.
LEMMA SnapshotPends ==
  ASSUME NEW g \in Group, NEW H, Placed(g), Counted(g, H), g.pc = "snapshot", ~g.rejected
  PROVE  H = {} /\ (g.remaining = 0 <=> g.size = 0)
<1>1. Ahead(g) = 1..g.size /\ g.size \in Nat
  BY ServerAssumption DEF Ahead, Group
<1>2. H = {}
  BY <1>1 DEF Counted
<1>3. Pending(g, H) = {} <=> g.size = 0
  BY <1>1, <1>2 DEF Pending, Placed
<1>4. QED
  BY <1>2, <1>3, PendingSized

\* The child of listener g.at is submitted.
LEMMA SubmitBook ==
  ASSUME NEW g \in Group, NEW H, NEW E, Book(g, H, E), g.pc = "submit"
  PROVE  LET m == [g EXCEPT !.pc = "check"]
         IN  m \in Group /\ g.at \in Listeners \ H /\ Book(m, H \cup {g.at}, E)
<1> DEFINE m == [g EXCEPT !.pc = "check"]
<1>1. m \in Group
  BY DEF Group
<1>2. /\ m.pc = "check" /\ m.size = g.size /\ m.remaining = g.remaining /\ m.at = g.at
      /\ m.initiation = g.initiation /\ m.rejected = g.rejected
      /\ m.completions = g.completions /\ m.emit = g.emit
  BY DEF Group
<1> HIDE DEF m
<1>3. /\ g.at \in Nat \ {0} /\ g.size \in Nat /\ g.size <= N /\ N \in Nat /\ g.at <= g.size
      /\ g.initiation \subseteq 1..(g.at - 1) /\ ~g.rejected
  BY ServerAssumption DEF Book, Placed, Group
<1>4. Ahead(g) = Ahead(m) \cup {g.at} /\ g.at \notin Ahead(m) /\ Ahead(m) \subseteq 1..g.size
  BY <1>2, <1>3, AheadOf
<1>5. g.at \in 1..m.size /\ g.at \notin g.initiation
  BY <1>2, <1>3
<1>6. g.at \in Listeners \ H
  BY <1>3, <1>4 DEF Book, Counted, Listeners
<1>7. Pending(m, H \cup {g.at}) = Pending(g, H)
  BY <1>2, <1>4 DEF Pending
<1>8. Placed(m)
  BY <1>2, <1>3 DEF Book, Placed
<1>9. Counted(m, H \cup {g.at})
  <2>1. H \subseteq 1..g.size /\ H \cap (Ahead(g) \cup g.initiation) = {}
    BY DEF Book, Counted
  <2>2. H \cup {g.at} \subseteq 1..m.size
    BY <1>2, <1>5, <2>1, Zenon
  <2>3. (H \cup {g.at}) \cap (Ahead(m) \cup m.initiation) = {}
    BY <1>2, <1>4, <1>5, <2>1
  <2>4. QED
    BY <1>2, <1>3, <1>7, <2>2, <2>3, Zenon DEF Book, Counted
<1>10. Concluded(m, E)
  BY <1>2, <1>3 DEF Book, Concluded, Pends
<1>11. QED
  BY <1>1, <1>6, <1>8, <1>9, <1>10 DEF Book, m

\* The loop in start goes on to the next listener.
LEMMA ChecksBook ==
  ASSUME NEW g \in Group, NEW H, NEW E, Book(g, H, E), g.pc = "check"
  PROVE  next_child(g) \in Group /\ g.at \in Listeners /\ Book(next_child(g), H, E)
<1> DEFINE m == next_child(g)
<1>0. /\ g.at \in Nat \ {0} /\ g.size \in Nat /\ g.size <= N /\ N \in Nat /\ g.at <= g.size
      /\ g.initiation \subseteq 1..(g.at - 1) /\ ~g.rejected
  BY ServerAssumption DEF Book, Placed, Group
<1>1. m \in Group
  <2>1. g.at + 1 \in 1..(N + 1)
    BY <1>0
  <2>2. QED
    BY <2>1, Zenon DEF Group, next_child
<1>2. /\ m.pc = (IF g.at = g.size THEN "initiation" ELSE "submit") /\ m.at = g.at + 1
      /\ m.initiation = g.initiation /\ m.size = g.size
      /\ m.remaining = g.remaining /\ m.rejected = g.rejected
      /\ m.completions = g.completions /\ m.emit = g.emit
  BY DEF Group, next_child
<1> HIDE DEF m
<1>3. Ahead(m) = Ahead(g)
  <2>1. g.at = g.size => (g.at + 1)..g.size = {}
    BY <1>0
  <2>2. QED
    BY <1>2, <2>1, AheadOf, Zenon
<1>4. Placed(m)
  BY <1>0, <1>2 DEF Book, Placed
<1>5. Counted(m, H)
  BY <1>2, <1>3 DEF Book, Counted, Pending
<1>6. Concluded(m, E)
  BY <1>0, <1>2 DEF Book, Concluded, Pends
<1>7. QED
  BY <1>0, <1>1, <1>4, <1>5, <1>6 DEF Book, m, Listeners

-----------------------------------------------------------------------------
(* The inductive invariant *)

Controls == [state : State, generation : Nat]

\* The types of all but the groups and the queues.
Threads ==
  /\ control \in Controls
  /\ loop \in [Caller -> Loop]
  /\ stopper \in [Stoppers -> {"new", "locked", "returned"}]
  /\ registered \in 0..N

\* Every listener and the books of every call are in order.
Ordered ==
  /\ group \in [Operation -> Group]
  /\ listener \in [Listeners -> Listener]
  /\ \A i \in Listeners : Sound(listener[i])
  /\ \A a \in Operation : Book(group[a], Holders(a), Enders(a))

IInv == Threads /\ Ordered

\* Every state of a loop over listeners.
LEMMA LoopTypes ==
  /\ \A n \in 0..N : begin_loop(n) \in Loop
  /\ \A l \in Loop : l.done < l.of =>
       /\ next_listener(l) \in Loop /\ [l EXCEPT !.passed = TRUE] \in Loop
       /\ l.done + 1 \in Listeners
<1>1. N \in Nat
  BY ServerAssumption
<1>2. \A n \in 0..N : begin_loop(n) \in Loop
  BY <1>1 DEF begin_loop, Loop
<1>3. ASSUME NEW l \in Loop, l.done < l.of
      PROVE  /\ next_listener(l) \in Loop /\ [l EXCEPT !.passed = TRUE] \in Loop
             /\ l.done + 1 \in Listeners
  <2>1. l.done \in 0..N /\ l.of \in 0..N /\ l.done + 1 \in 0..N
    BY <1>1, <1>3 DEF Loop
  <2>2. NoLoop \in Loop
    BY <1>1, <1>2 DEF NoLoop
  <2>3. [l EXCEPT !.done = @ + 1, !.passed = FALSE] \in Loop
    BY <2>1, Zenon DEF Loop
  <2>4. next_listener(l) \in Loop
    BY <2>2, <2>3 DEF next_listener
  <2>5. [l EXCEPT !.passed = TRUE] \in Loop
    BY Zenon DEF Loop
  <2>6. l.done + 1 \in Listeners
    BY <1>1, <2>1 DEF Listeners
  <2>7. QED
    BY <2>4, <2>5, <2>6
<1>4. QED
  BY <1>2, <1>3

\* Every operation of server_control keeps its type.
LEMMA ControlTypes ==
  ASSUME NEW c \in Controls, NEW ec \in Error
  PROVE  /\ begin_start(c) \in Controls /\ request_stop(c) \in Controls
         /\ finish_start(c, ec).control \in Controls /\ finish_start(c, ec).ec \in Error
         /\ finish_wait(c, ec).control \in Controls /\ finish_wait(c, ec).ec \in Error
<1>1. begin_start(c) \in Controls
  BY DEF Controls, begin_start, State
<1>2. request_stop(c) \in Controls
  BY DEF Controls, request_stop, stop_requested, State
<1>3. finish_start(c, ec).control \in Controls /\ finish_start(c, ec).ec \in Error
  <2>1. ec # "ok" => finish_start(c, ec) = [control |-> request_stop(c), ec |-> ec]
    BY DEF finish_start
  <2>2. ec = "ok" /\ c.state = "starting" =>
          finish_start(c, ec) = [control |-> [c EXCEPT !.state = "running"], ec |-> "ok"]
    BY DEF finish_start
  <2>3. ec = "ok" /\ c.state = "running" =>
          finish_start(c, ec) = [control |-> c, ec |-> "ok"]
    BY DEF finish_start
  <2>4. ec = "ok" /\ c.state \notin {"starting", "running"} =>
          finish_start(c, ec) = [control |-> c, ec |-> "aborted"]
    BY DEF finish_start
  <2>5. [c EXCEPT !.state = "running"] \in Controls /\ {"ok", "aborted"} \subseteq Error
    BY DEF Controls, State, Error
  <2>6. QED
    BY <1>2, <2>1, <2>2, <2>3, <2>4, <2>5
<1>4. finish_wait(c, ec).control \in Controls /\ finish_wait(c, ec).ec \in Error
  BY DEF finish_wait, Controls, State
<1>5. QED
  BY <1>1, <1>2, <1>3, <1>4

-----------------------------------------------------------------------------
(* The handlers of a listener *)

\* Listener m holds and ends the same calls as l.
Alike(m, l) == m \in Listener /\ Sound(m) /\ Calls(m) = Calls(l) /\ Ends(m) = Ends(l)

Pop(l) == [l EXCEPT !.strand = Tail(@)]

\* A handler taken by the strand.
LEMMA Pops ==
  ASSUME NEW l \in Listener, Sound(l), l.strand # << >>
  PROVE  LET h == Head(l.strand)
         IN  /\ h \in Task /\ Pop(l) \in Listener /\ Sound(Pop(l)) /\ Ends(Pop(l)) = {}
             /\ Pop(l).waiters = l.waiters /\ Pop(l).state = l.state
             /\ Pop(l).terminal_error = l.terminal_error
             /\ h.op \in {"start", "wait", "one"} =>
                  /\ h.id \in Calls(l) /\ Calls(Pop(l)) = Calls(l) \ {h.id}
                  /\ Ends(l) = {}
             /\ h.op \notin {"start", "wait", "one"} => Calls(Pop(l)) = Calls(l)
             /\ h.op # "completes" => Ends(l) = {}
             /\ h.op = "completes" => Ends(l) = {h.id}
<1> DEFINE h == Head(l.strand)
           m == Pop(l)
<1>1. l.strand \in Seq(Task) /\ Tail(l.strand) \in Seq(Task) /\ h \in Task
  BY DEF Listener
<1>2. /\ m \in Listener /\ m.strand = Tail(l.strand) /\ m.waiters = l.waiters
      /\ m.state = l.state /\ m.terminal_error = l.terminal_error
  BY <1>1, Zenon DEF Pop, Listener
<1> HIDE DEF m
<1>3. /\ Sound(m) /\ Ends(m) = {}
      /\ \A a \in Operation : h \in Kids(a) =>
           a \in Calls(l) /\ Calls(m) = Calls(l) \ {a} /\ Ends(l) = {}
      /\ (\A a \in Operation : h \notin Kids(a)) => Calls(m) = Calls(l)
      /\ h \notin Finals => Ends(l) = {}
      /\ \A a \in Operation : h = Completes(a) => Ends(l) = {a}
  BY <1>2, PopsTask
<1> HIDE DEF h
<1>4. /\ h.op \in {"start", "wait", "one"} => h.id \in Operation /\ h \in Kids(h.id)
      /\ h.op = "completes" => h.id \in Operation /\ h = Completes(h.id)
      /\ h \in Finals <=> h.op = "completes"
      /\ h.op \notin {"start", "wait", "one"} => \A a : h \notin Kids(a)
  BY <1>1, HandlerKinds
<1>5. QED
  BY <1>1, <1>2, <1>3, <1>4 DEF h, m

\* A new state or terminal error of a listener.
LEMMA Marks ==
  ASSUME NEW l \in Listener, Sound(l), NEW st \in State, NEW ec \in Error
  PROVE  LET m == [l EXCEPT !.state = st, !.terminal_error = ec]
         IN  /\ m \in Listener /\ Sound(m) /\ Calls(m) = Calls(l) /\ Ends(m) = Ends(l)
             /\ m.waiters = l.waiters
<1> DEFINE m == [l EXCEPT !.state = st, !.terminal_error = ec]
<1>1. m \in Listener /\ m.strand = l.strand /\ m.waiters = l.waiters
  BY Zenon DEF Listener
<1> HIDE DEF m
<1>2. QED
  BY <1>1, SameQueues, Zenon DEF m

-----------------------------------------------------------------------------
(* The invariant *)

\* The invariant holds when no call was made yet.
LEMMA InitIInv == Init => IInv
<1> SUFFICES ASSUME Init PROVE IInv
  OBVIOUS
<1>1. Threads
  <2>1. NoLoop \in Loop
    BY LoopTypes, ServerAssumption DEF NoLoop
  <2>2. QED
    BY <2>1 DEF Init, Threads, Controls, State
<1>2. group \in [Operation -> Group] /\ listener \in [Listeners -> Listener]
  <2>1. << >> \in Seq(Waits) /\ << >> \in Seq(Task) /\ << >> \in Seq(Error)
    OBVIOUS
  <2>2. 0 \in 0..N /\ 1 \in 1..(N + 1)
    BY ServerAssumption
  <2>3. group \in [Operation -> Group]
    BY <2>1, <2>2 DEF Init, Group, Error
  <2>4. listener \in [Listeners -> Listener]
    BY <2>1 DEF Init, Listener, State, Error
  <2>5. QED
    BY <2>3, <2>4
<1>3. \A i \in Listeners : listener[i].strand = << >> /\ listener[i].waiters = << >>
  BY DEF Init
<1>4. \A i \in Listeners : /\ Sound(listener[i]) /\ Calls(listener[i]) = {}
                           /\ Ends(listener[i]) = {}
  BY <1>3, EmptyMeets DEF Sound, Once, Calls, Has, Ends, Ending
<1>5. \A a \in Operation : Holders(a) = {} /\ Enders(a) = {}
  BY <1>4 DEF Holders, Enders
<1>6. ASSUME NEW a \in Operation PROVE Book(group[a], {}, {})
  <2> DEFINE g == group[a]
  <2>1. /\ g.pc = "new" /\ g.size = 0 /\ g.at = 1 /\ g.remaining = 0 /\ g.initiation = {}
        /\ g.emit = 0 /\ g.rejected = FALSE /\ g.completions = << >>
    BY DEF Init
  <2> HIDE DEF g
  <2>2. Placed(g)
    BY <2>1 DEF Placed
  <2>3. Pending(g, {}) = {} /\ Ahead(g) = {}
    BY <2>1, AheadOf DEF Pending
  <2>4. Counted(g, {})
    BY <2>1, <2>3, SnapshotSize, Zenon DEF Counted
  <2>5. Concluded(g, {})
    BY <2>1 DEF Concluded
  <2>6. QED
    BY <2>2, <2>4, <2>5 DEF Book, g
<1>7. QED
  BY <1>1, <1>2, <1>4, <1>5, <1>6, Zenon DEF IInv, Ordered

\* Every step keeps the inductive invariant: one fact for each kind of action, after
\* those about what the actions have in common.
LEMMA StepIInv == IInv /\ Next => IInv'
\* Flags of the group that the books do not show.
<1>SameBook. ASSUME NEW g \in Group, NEW m \in Group, NEW H, NEW E, Book(g, H, E),
                    m.pc = g.pc, m.size = g.size, m.at = g.at, m.remaining = g.remaining,
                    m.initiation = g.initiation, m.rejected = g.rejected,
                    m.completions = g.completions, m.emit <= m.size
             PROVE  Book(m, H, E)
  BY <1>SameBook DEF Book, Placed, Counted, Concluded, Pends, Pending, Ahead
\* One listener changes: what becomes of the holders and enders of each call.
<1>ListenerChanges.
  ASSUME Ordered, NEW i \in Listeners, NEW m \in Listener, Sound(m),
         listener' = [listener EXCEPT ![i] = m]
  PROVE  /\ listener' \in [Listeners -> Listener]
         /\ \A j \in Listeners : Sound(listener'[j])
         /\ \A b \in Operation :
              /\ Holders(b)' = IF b \in Calls(m) THEN Holders(b) \cup {i} ELSE Holders(b) \ {i}
              /\ Enders(b)' = IF b \in Ends(m) THEN Enders(b) \cup {i} ELSE Enders(b) \ {i}
  <2> USE <1>ListenerChanges
  <2>1. \A j \in Listeners : listener'[j] = IF j = i THEN m ELSE listener[j]
    BY DEF Ordered
  <2>2. \A j \in Listeners : Sound(listener'[j])
    BY <2>1 DEF Ordered
  <2>3. \A b \in Operation : Holders(b)' = {j \in Listeners : b \in Calls(listener'[j])}
    BY DEF Holders, Calls, Has, Operation, Kids, Task
  <2>4. \A b \in Operation : Enders(b)' = {j \in Listeners : b \in Ends(listener'[j])}
    BY DEF Enders
  <2>5. QED
    BY <2>1, <2>2, <2>3, <2>4 DEF Ordered, Holders, Enders
\* The group of one call changes, and no listener.
<1>GroupStep. ASSUME Ordered, NEW a \in Operation, NEW m \in Group, Book(m, Holders(a), Enders(a)),
                     group' = [group EXCEPT ![a] = m], UNCHANGED listener
              PROVE  Ordered'
  <2> USE <1>GroupStep
  <2>1. \A b \in Operation : Holders(b)' = Holders(b) /\ Enders(b)' = Enders(b)
    BY DEF Holders, Enders
  <2>2. \A b \in Operation : group'[b] = IF b = a THEN m ELSE group[b]
    BY DEF Ordered
  <2>3. QED
    BY <2>1, <2>2 DEF Ordered
\* A listener becomes one that is alike; a group may change with it.
<1>QuietStep. ASSUME Ordered, NEW i \in Listeners, NEW m, Alike(m, listener[i]),
                     listener' = [listener EXCEPT ![i] = m],
                     group' \in [Operation -> Group],
                     \A b \in Operation : Book(group'[b], Holders(b), Enders(b))
              PROVE  Ordered'
  <2> USE <1>QuietStep
  <2>1. \A b \in Operation : Holders(b)' = Holders(b) /\ Enders(b)' = Enders(b)
    BY <1>ListenerChanges DEF Holders, Enders, Alike
  <2>2. QED
    BY <2>1, <1>ListenerChanges DEF Ordered, Alike
\* The same with no change of a group.
<1>QuietListener. ASSUME Ordered, NEW i \in Listeners, NEW m, Alike(m, listener[i]),
                         listener' = [listener EXCEPT ![i] = m], group' = group
                  PROVE  Ordered'
  BY <1>QuietListener, <1>QuietStep, Zenon DEF Ordered
\* A handler posted: it is a child's, or neither a child's nor a completion.
<1>PostsTask. ASSUME NEW l \in Listener, Sound(l), NEW h \in Task, NEW m,
                     m.strand = Append(l.strand, h), m.waiters = l.waiters, h \notin Finals
              PROVE  /\ (\A a \in Operation : h \notin Kids(a)) =>
                          Sound(m) /\ Calls(m) = Calls(l) /\ Ends(m) = Ends(l)
                     /\ \A a \in Operation : h \in Kids(a) /\ a \notin Calls(l) =>
                          Sound(m) /\ Calls(m) = Calls(l) \cup {a} /\ Ends(m) = Ends(l)
  <2> USE <1>PostsTask
  <2>0. l.strand \in Seq(Task)
    BY DEF Listener
  <2>1. FirstOnly(m.strand, Finals)
    BY <2>0, FirstOnlyKept DEF Sound
  <2>2. \A X : /\ Meets(m.strand, X) <=> Meets(l.strand, X) \/ h \in X
               /\ MeetsOnce(l.strand, X) /\ ~(Meets(l.strand, X) /\ h \in X)
                    => MeetsOnce(m.strand, X)
    BY <2>0, AppendMeets
  <2>3. Ends(m) = Ends(l)
    <3>1. \A a \in Operation : h # Completes(a)
      BY DEF Finals
    <3>2. QED
      BY <2>2, <3>1 DEF Ends, Ending
  <2>4. ASSUME \A a \in Operation : h \notin Kids(a)
        PROVE  Sound(m) /\ Calls(m) = Calls(l)
    BY <2>1, <2>2, <2>4 DEF Sound, Calls, Has, Once
  <2>5. ASSUME NEW a \in Operation, h \in Kids(a), a \notin Calls(l)
        PROVE  Sound(m) /\ Calls(m) = Calls(l) \cup {a}
    <3>1. \A b \in Operation : h \in Kids(b) <=> b = a
      BY <2>5, KidsApart
    <3>2. \A b \in Operation : Has(b, m) <=> Has(b, l) \/ b = a
      BY <2>2, <3>1 DEF Has
    <3>3. \A b \in Operation : Once(b, m)
      BY <2>2, <2>5, <3>1, Zenon DEF Once, Sound, Calls, Has
    <3>4. QED
      BY <2>1, <3>2, <3>3 DEF Sound, Calls
  <2>6. QED
    BY <2>3, <2>4, <2>5
\* A handler posted to a listener.
<1>Posts. ASSUME NEW l \in Listener, Sound(l), NEW h \in Task
          PROVE  /\ post(l, h) \in Listener
                 /\ h.op \in {"stop", "cancel_wait"} =>
                      /\ Sound(post(l, h)) /\ Calls(post(l, h)) = Calls(l)
                      /\ Ends(post(l, h)) = Ends(l)
                 /\ \A a \in Operation : h \in Kids(a) /\ a \notin Calls(l) =>
                      /\ Sound(post(l, h)) /\ Calls(post(l, h)) = Calls(l) \cup {a}
                      /\ Ends(post(l, h)) = Ends(l)
  <2> USE <1>Posts
  <2> DEFINE m == post(l, h)
  <2>1. Append(l.strand, h) \in Seq(Task)
    BY DEF Listener
  <2>2. m \in Listener /\ m.strand = Append(l.strand, h) /\ m.waiters = l.waiters
    BY <2>1, Zenon DEF post, Listener
  <2> HIDE DEF m
  <2>3. ASSUME h.op \in {"stop", "cancel_wait"}
        PROVE  Sound(m) /\ Calls(m) = Calls(l) /\ Ends(m) = Ends(l)
    <3>1. h \notin Finals /\ \A a \in Operation : h \notin Kids(a)
      BY <2>3, HandlerKinds
    <3>2. QED
      BY <2>2, <3>1, <1>PostsTask
  <2>4. ASSUME NEW a \in Operation, h \in Kids(a), a \notin Calls(l)
        PROVE  Sound(m) /\ Calls(m) = Calls(l) \cup {a} /\ Ends(m) = Ends(l)
    <3>1. h \notin Finals
      BY <2>4, KidsApart
    <3>2. QED
      BY <2>2, <2>4, <3>1, <1>PostsTask
  <2>5. QED
    BY <2>2, <2>3, <2>4 DEF m
\* A child that was taken off the strand reports back.
<1>Replies. ASSUME NEW l \in Listener, NEW a \in Operation, a \in Calls(l), Ends(l) = {},
                   NEW p \in Listener, Sound(p), Calls(p) = Calls(l) \ {a}, Ends(p) = {},
                   NEW ec \in Error
            PROVE  Alike(post(p, One(a, ec)), l)
  <2> USE <1>Replies
  <2>1. One(a, ec) \in Kids(a) /\ One(a, ec) \in Task
    BY HandlersMade DEF Kids
  <2> DEFINE h == One(a, ec)
  <2> HIDE DEF h
  <2>2. /\ post(p, h) \in Listener /\ Sound(post(p, h))
        /\ Calls(post(p, h)) = Calls(p) \cup {a} /\ Ends(post(p, h)) = Ends(p)
    BY <2>1, <1>Posts DEF h
  <2>3. Calls(p) \cup {a} = Calls(l)
    OBVIOUS
  <2>4. QED
    BY <2>2, <2>3 DEF h, Alike
\* start_on_strand puts a child that is done in the place of a start.
<1>StartOnStrand. ASSUME Ordered, NEW i \in Listeners, start_on_strand(i)
                  PROVE  Ordered'
  <2> USE <1>StartOnStrand
  <2> DEFINE l == listener[i]
             a == Head(l.strand).id
             p == Pop(l)
             opened == [p EXCEPT !.state = "running", !.terminal_error = "ok"]
  <2>0. l \in Listener /\ Sound(l) /\ l.strand # << >> /\ Head(l.strand).op = "start"
    BY DEF Ordered, start_on_strand, Handler
  <2>1. /\ p \in Listener /\ Sound(p) /\ Ends(p) = {} /\ a \in Calls(l) /\ a \in Operation
        /\ Calls(p) = Calls(l) \ {a} /\ Ends(l) = {}
    BY <2>0, Pops DEF Calls
  <2>2. "ok" \in Error /\ "failed" \in Error /\ "aborted" \in Error /\ "running" \in State
    BY DEF Error, State
  <2>3. /\ opened \in Listener /\ Sound(opened) /\ Ends(opened) = {}
        /\ Calls(opened) = Calls(l) \ {a}
    <3> HIDE DEF l, a, p
    <3>1. QED
      BY <2>1, <2>2, Marks, Zenon
  <2>4. \/ listener' = [listener EXCEPT ![i] = post(opened, One(a, "ok"))]
        \/ listener' = [listener EXCEPT ![i] = finish(post(opened, One(a, "failed")), "failed")]
        \/ listener' = [listener EXCEPT ![i] = post(finish(opened, "failed"), One(a, "failed"))]
        \/ listener' = [listener EXCEPT ![i] = post(p, One(a, "ok"))]
        \/ listener' = [listener EXCEPT ![i] = post(p, One(a, "aborted"))]
    BY Zenon DEF start_on_strand, popped, Pop
  <2>5. group' = group
    BY DEF start_on_strand
  <2>6. \A ec \in Error : Alike(post(p, One(a, ec)), l) /\ Alike(post(opened, One(a, ec)), l)
    <3> HIDE DEF l, a, p, opened
    <3>1. QED
      BY <2>0, <2>1, <2>3, <1>Replies
  <2>7. Alike(finish(post(opened, One(a, "failed")), "failed"), l)
    <3> DEFINE q == post(opened, One(a, "failed"))
    <3>1. Alike(q, l)
      BY <2>2, <2>6
    <3> HIDE DEF l, q
    <3>2. Alike(finish(q, "failed"), l)
      BY <2>2, <3>1, FinishKeeps DEF Alike
    <3>3. QED
      BY <3>2 DEF q
  <2>8. Alike(post(finish(opened, "failed"), One(a, "failed")), l)
    <3> DEFINE q == finish(opened, "failed")
    <3> HIDE DEF l, a, p, opened
    <3>1. q \in Listener /\ Sound(q) /\ Calls(q) = Calls(l) \ {a} /\ Ends(q) = {}
      BY <2>2, <2>3, FinishKeeps
    <3> HIDE DEF q
    <3>2. Alike(post(q, One(a, "failed")), l)
      BY <2>0, <2>1, <2>2, <3>1, <1>Replies
    <3>3. QED
      BY <3>2 DEF q
  <2> HIDE DEF a, p, opened
  <2>9. QED
    BY <2>2, <2>4, <2>5, <2>6, <2>7, <2>8, <1>QuietListener
\* wait_on_strand makes a waiter of the child, or reports at once.
<1>WaitOnStrand. ASSUME Ordered, NEW i \in Listeners, wait_on_strand(i)
                 PROVE  Ordered'
  \* A waiter added.
  <2>AddsWaiter. ASSUME NEW l \in Listener, Sound(l), NEW a \in Waits, a \notin Calls(l), NEW m,
                        m.strand = l.strand, m.waiters = Append(l.waiters, a)
                 PROVE  Sound(m) /\ Calls(m) = Calls(l) \cup {a} /\ Ends(m) = Ends(l)
    <3> USE <2>AddsWaiter
    <3>0. l.waiters \in Seq(Waits) /\ a \in Operation
      BY DEF Listener, Operation
    <3>1. \A X : /\ Meets(m.waiters, X) <=> Meets(l.waiters, X) \/ a \in X
                 /\ MeetsOnce(l.waiters, X) /\ ~(Meets(l.waiters, X) /\ a \in X)
                      => MeetsOnce(m.waiters, X)
      BY <3>0, AppendMeets
    <3>2. \A b \in Operation : Has(b, m) <=> Has(b, l) \/ b = a
      BY <3>1 DEF Has
    <3>3. \A b \in Operation : Once(b, m)
      BY <3>0, <3>1, Zenon DEF Once, Sound, Calls, Has
    <3>4. QED
      BY <3>0, <3>2, <3>3 DEF Sound, Calls, Ends, Ending
  <2> USE <1>WaitOnStrand
  <2> DEFINE l == listener[i]
             a == Head(l.strand).id
             p == Pop(l)
             w == [p EXCEPT !.waiters = Append(@, a)]
  <2>0. l \in Listener /\ Sound(l) /\ l.strand # << >> /\ Head(l.strand).op = "wait"
    BY DEF Ordered, wait_on_strand, Handler
  <2>1. /\ p \in Listener /\ Sound(p) /\ Ends(p) = {} /\ a \in Calls(l) /\ a \in Operation
        /\ Calls(p) = Calls(l) \ {a} /\ Ends(l) = {} /\ Head(l.strand) \in Task
    BY <2>0, Pops DEF Calls
  <2>2. a \in Waits /\ "aborted" \in Error /\ p.terminal_error \in Error
    BY <2>0, <2>1, HandlerKinds DEF Error, Listener
  <2>3. \/ listener' = [listener EXCEPT ![i] = post(p, One(a, "aborted"))]
        \/ listener' = [listener EXCEPT ![i] = post(p, One(a, p.terminal_error))]
        \/ listener' = [listener EXCEPT ![i] = w]
    BY Zenon DEF wait_on_strand, popped, Pop
  <2>4. group' = group
    BY DEF wait_on_strand
  <2>5. \A ec \in Error : Alike(post(p, One(a, ec)), l)
    <3> HIDE DEF l, a, p
    <3>1. QED
      BY <2>0, <2>1, <1>Replies
  <2>6. Alike(w, l)
    <3> HIDE DEF l, a, p
    <3>1. Append(p.waiters, a) \in Seq(Waits)
      BY <2>1, <2>2 DEF Listener
    <3>2. w \in Listener /\ w.strand = p.strand /\ w.waiters = Append(p.waiters, a)
      BY <2>1, <3>1 DEF Listener
    <3> HIDE DEF w
    <3>3. Sound(w) /\ Calls(w) = Calls(p) \cup {a} /\ Ends(w) = {}
      BY <2>1, <2>2, <3>2, <2>AddsWaiter
    <3>4. Calls(p) \cup {a} = Calls(l)
      BY <2>1
    <3>5. QED
      BY <2>1, <3>2, <3>3, <3>4 DEF Alike
  <2> HIDE DEF a, p, w
  <2>7. QED
    BY <2>2, <2>3, <2>4, <2>5, <2>6, <1>QuietListener
\* cancel_wait makes of a waiter a child that is done.
<1>CancelWait. ASSUME Ordered, NEW i \in Listeners, cancel_wait(i)
               PROVE  Ordered'
  \* A waiter erased.
  <2>ErasesWaiter. ASSUME NEW l \in Listener, Sound(l), NEW k \in DOMAIN l.waiters, NEW m,
                          m.strand = l.strand, m.waiters = erase(l.waiters, k)
                   PROVE  /\ Sound(m) /\ Calls(m) = Calls(l) \ {l.waiters[k]} /\ Ends(m) = Ends(l)
                          /\ l.waiters[k] \in Calls(l)
    <3> USE <2>ErasesWaiter
    <3> DEFINE a == l.waiters[k]
    <3>0. l.waiters \in Seq(Waits) /\ a \in Operation
      BY DEF Listener, Operation
    <3>1. \A X : /\ Meets(l.waiters, X) <=> Meets(m.waiters, X) \/ a \in X
                 /\ MeetsOnce(l.waiters, X) =>
                      MeetsOnce(m.waiters, X) /\ ~(Meets(m.waiters, X) /\ a \in X)
      BY <3>0, EraseMeets
    <3> HIDE DEF a
    <3>2. Has(a, l) /\ ~Has(a, m)
      BY <3>0, <3>1 DEF Has, Once, Sound
    <3>3. \A b \in Operation : b # a => (Has(b, m) <=> Has(b, l))
      BY <3>1 DEF Has
    <3>4. \A b \in Operation : Once(b, m)
      BY <3>1 DEF Once, Sound
    <3>5. QED
      BY <3>0, <3>2, <3>3, <3>4 DEF Sound, Calls, Ends, Ending, a
  <2> USE <1>CancelWait
  <2> DEFINE l == listener[i]
             a == Head(l.strand).id
             p == Pop(l)
             w(k) == [p EXCEPT !.waiters = erase(@, k)]
  <2>0. l \in Listener /\ Sound(l) /\ l.strand # << >> /\ Head(l.strand).op = "cancel_wait"
    BY DEF Ordered, cancel_wait, Handler
  <2>1. /\ p \in Listener /\ Sound(p) /\ Ends(p) = {} /\ Calls(p) = Calls(l)
        /\ Ends(l) = {} /\ Head(l.strand) \in Task
    BY <2>0, Pops
  <2>2. a \in Waits /\ a \in Operation /\ "aborted" \in Error
    BY <2>0, <2>1, HandlerKinds DEF Error, Operation
  <2>3. \/ listener' = [listener EXCEPT ![i] = p]
        \/ \E k \in DOMAIN p.waiters :
             /\ p.waiters[k] = a
             /\ listener' = [listener EXCEPT ![i] = post(w(k), One(a, "aborted"))]
    BY Zenon DEF cancel_wait, popped, Pop
  <2>4. group' = group
    BY DEF cancel_wait
  <2>5. Alike(p, l)
    BY <2>1 DEF Alike
  <2>6. ASSUME NEW k \in DOMAIN p.waiters, p.waiters[k] = a
        PROVE  Alike(post(w(k), One(a, "aborted")), l)
    <3> HIDE DEF l, a, p
    <3>1. erase(p.waiters, k) \in Seq(Waits)
      BY <2>1, EraseMeets DEF Listener
    <3> DEFINE v == w(k)
    <3>2. v \in Listener /\ v.strand = p.strand /\ v.waiters = erase(p.waiters, k)
      BY <2>1, <3>1 DEF Listener
    <3> HIDE DEF v
    <3>3. Sound(v) /\ Calls(v) = Calls(p) \ {a} /\ Ends(v) = {} /\ a \in Calls(p)
      BY <2>1, <2>6, <3>2, <2>ErasesWaiter
    <3>4. Alike(post(v, One(a, "aborted")), l)
      BY <2>0, <2>1, <2>2, <3>2, <3>3, <1>Replies
    <3>5. QED
      BY <3>4 DEF v
  <2> HIDE DEF a, p, w
  <2>7. QED
    BY <2>3, <2>4, <2>5, <2>6, <1>QuietListener
\* stop_on_strand and what a listener does on its own.
<1>StopsAndDrains. ASSUME Ordered, NEW i \in Listeners,
                          stop_on_strand(i) \/ runtime_failure(i) \/ drains(i)
                   PROVE  Ordered'
  <2> USE <1>StopsAndDrains
  <2> DEFINE l == listener[i]
  <2>0. l \in Listener /\ Sound(l) /\ group' = group
    BY DEF Ordered, stop_on_strand, runtime_failure, drains
  <2>1. "ok" \in Error /\ "failed" \in Error /\ "stopping" \in State
    BY DEF Error, State
  <2>2. CASE stop_on_strand(i)
    <3> DEFINE p == Pop(l)
               q == [p EXCEPT !.state = "stopping"]
    <3>0. l.strand # << >> /\ Head(l.strand).op = "stop"
      BY <2>2 DEF stop_on_strand, Handler
    <3>1. p \in Listener /\ Sound(p) /\ Ends(p) = Ends(l) /\ Calls(p) = Calls(l)
      BY <2>0, <3>0, Pops, Zenon
    <3>2. \/ listener' = [listener EXCEPT ![i] = finish(p, "ok")]
          \/ listener' = [listener EXCEPT ![i] = q]
          \/ listener' = [listener EXCEPT ![i] = p]
      BY <2>2, Zenon DEF stop_on_strand, popped, Pop
    <3> HIDE DEF p, l
    <3>3. Alike(p, l) /\ Alike(finish(p, "ok"), l)
      BY <2>1, <3>1, FinishKeeps DEF Alike
    <3>4. Alike(q, l)
      <4>1. q \in Listener /\ q.strand = p.strand /\ q.waiters = p.waiters
        BY <2>1, <3>1 DEF Listener
      <4>2. QED
        BY <3>1, <4>1, SameQueues, Zenon DEF Alike
    <3> HIDE DEF q
    <3>5. QED
      BY <2>0, <3>2, <3>3, <3>4, <1>QuietListener DEF l
  <2>3. CASE runtime_failure(i)
    <3> DEFINE q == [l EXCEPT !.state = "stopping", !.terminal_error = "failed"]
    <3>1. listener' = [listener EXCEPT ![i] = q]
      BY <2>3, Zenon DEF runtime_failure, Ordered
    <3>2. Alike(q, l)
      BY <2>0, <2>1, Marks, Zenon DEF Alike
    <3> HIDE DEF q
    <3>3. QED
      BY <2>0, <3>1, <3>2, <1>QuietListener, Zenon
  <2>4. CASE drains(i)
    <3>1. listener' = [listener EXCEPT ![i] = finish(l, l.terminal_error)]
      BY <2>4 DEF drains, Ordered
    <3>2. l.terminal_error \in Error
      BY <2>0 DEF Listener
    <3>3. Alike(finish(l, l.terminal_error), l)
      BY <2>0, <3>2, FinishKeeps DEF Alike
    <3>4. QED
      BY <2>0, <3>1, <3>3, <1>QuietListener, Zenon
  <2>5. QED
    BY <2>2, <2>3, <2>4
\* one: listener i gives its child back.
<1>OneBook. ASSUME NEW g \in Group, NEW H, NEW E, Book(g, H, E), NEW i \in H, NEW ec \in Error
            PROVE  LET m == counted(g, ec)
                   IN  /\ m \in Group /\ E = {}
                       /\ Book(m, H \ {i}, IF m.remaining = 0 THEN {i} ELSE {})
  <2> USE <1>OneBook
  <2> DEFINE m == counted(g, ec)
             P == Pending(g, H)
             F == IF m.remaining = 0 THEN {i} ELSE {}
  <2>0. /\ ~g.rejected /\ Placed(g) /\ Counted(g, H) /\ Concluded(g, E)
        /\ g.size \in Nat /\ g.size > 0 /\ H \subseteq 1..g.size
    BY ServerAssumption DEF Book, Counted, Group
  <2>1. i \in P
    BY DEF Pending
  <2>2. /\ P \subseteq 1..g.size /\ g.remaining \in 1..N /\ g.remaining - 1 \in 0..N
        /\ g.remaining - 1 = 0 <=> P \ {i} = {}
    BY <2>0, <2>1, PendingLess, Zenon
  <2>s. Sized(P \ {i}, g.remaining - 1)
    BY <2>0, <2>1, PendingLess, Zenon
  <2>4. m \in Group
    BY <2>2, Zenon DEF Group, counted
  <2>5. /\ m.pc = g.pc /\ m.at = g.at /\ m.initiation = g.initiation /\ m.size = g.size
        /\ m.remaining = g.remaining - 1 /\ m.rejected = g.rejected
        /\ m.completions = g.completions /\ m.emit = g.emit
    BY DEF Group, counted
  <2> HIDE DEF m, P
  <2>6. Ahead(m) = Ahead(g)
    BY <2>5 DEF Ahead
  <2>7. i \notin Ahead(g) \cup g.initiation
    BY <2>0 DEF Counted
  <2>8. Pending(m, H \ {i}) = P \ {i}
    BY <2>5, <2>6, <2>7 DEF Pending, P
  <2>9. Placed(m)
    BY <2>0, <2>5 DEF Placed
  <2>10. Counted(m, H \ {i})
    BY <2>0, <2>1, <2>2, <2>s, <2>5, <2>6, <2>8, Zenon DEF Counted
  <2>11. E = {} /\ g.pc # "completes" /\ g.pc # "new" /\ g.completions = << >>
    BY <2>0, <2>1, <2>2 DEF Concluded, Pends, Placed
  <2>12. Concluded(m, F)
    BY <2>0, <2>1, <2>2, <2>5, <2>11 DEF Concluded, Pends
  <2>13. QED
    BY <2>4, <2>9, <2>10, <2>11, <2>12 DEF Book, m
\* one: the listener gives the child back and the group counts it.
<1>OneStep. ASSUME Ordered, NEW i \in Listeners, one(i)
            PROVE  Ordered'
  \* The last child makes way for the completion of its call.
  <2>Concludes. ASSUME NEW l \in Listener, Sound(l), l.strand # << >>, NEW a \in Operation,
                       Head(l.strand) \in Kids(a), NEW m,
                       m.strand = <<Completes(a)>> \o Tail(l.strand), m.waiters = l.waiters
                PROVE  Sound(m) /\ Calls(m) = Calls(l) \ {a} /\ Ends(m) = {a}
    <3> USE <2>Concludes
    <3> DEFINE p == [l EXCEPT !.strand = Tail(@)]
               c == <<Completes(a)>>
    <3>0. p.strand \in Seq(Task) /\ p.strand = Tail(l.strand) /\ p.waiters = l.waiters
      BY DEF Listener
    <3> HIDE DEF p
    <3>1. ~Meets(p.strand, Finals)
      BY <3>0, FirstOnlyKept DEF Sound, Listener
    <3>2. Sound(p) /\ Ends(p) = {} /\ Calls(p) = Calls(l) \ {a}
      BY <3>0, PopsTask
    <3>3. Completes(a) \in Task
      BY HandlersMade
    <3>4. \A X : /\ c \in Seq(Task) /\ MeetsOnce(c, X) /\ FirstOnly(c, X)
                 /\ Meets(c, X) <=> Completes(a) \in X
      BY <3>3, SingleMeets
    <3> HIDE DEF c
    <3>5. m.strand = c \o p.strand
      BY <3>0 DEF c
    <3>6. /\ FirstOnly(m.strand, Finals)
          /\ \A X : /\ Meets(m.strand, X) <=> Completes(a) \in X \/ Meets(p.strand, X)
                    /\ MeetsOnce(p.strand, X) /\ ~(Completes(a) \in X /\ Meets(p.strand, X))
                         => MeetsOnce(m.strand, X)
      <4>1. FirstOnly(c \o p.strand, Finals)
        BY <3>0, <3>1, <3>4, FirstOnlyKept, Zenon
      <4>2. ASSUME NEW X
            PROVE  /\ Meets(c \o p.strand, X) <=> Completes(a) \in X \/ Meets(p.strand, X)
                   /\ MeetsOnce(p.strand, X) /\ ~(Completes(a) \in X /\ Meets(p.strand, X))
                        => MeetsOnce(c \o p.strand, X)
        BY <3>0, <3>4, ConcatMeets, Zenon
      <4>3. QED
        BY <3>5, <4>1, <4>2, Zenon
    <3>7. \A b \in Operation : Once(b, m) /\ (Has(b, m) <=> Has(b, p))
      BY <3>0, <3>2, <3>6, KidsApart, Zenon DEF Once, Has, Sound
    <3>8. \A b \in Operation : Ending(b, m) <=> b = a
      BY <3>2, <3>6, KidsApart DEF Ending, Ends
    <3>9. QED
      BY <3>2, <3>6, <3>7, <3>8 DEF Sound, Calls, Ends
  <2> USE <1>OneStep
  <2>a. PICK a \in Operation : a = Head(listener[i].strand).id
    <3>1. /\ listener[i] \in Listener /\ Sound(listener[i]) /\ listener[i].strand # << >>
          /\ Head(listener[i].strand).op = "one"
      BY Zenon DEF Ordered, one, Handler
    <3>2. QED
      BY <3>1, Pops DEF Calls
  <2> DEFINE l == listener[i]
             ec == Head(l.strand).ec
             g == counted(group[a], ec)
             m == [l EXCEPT !.strand =
                     (IF g.remaining = 0 THEN <<Completes(a)>> ELSE << >>) \o Tail(@)]
  <2>0. l \in Listener /\ Sound(l) /\ l.strand # << >> /\ Head(l.strand).op = "one"
    BY Zenon DEF Ordered, one, Handler
  <2>1. /\ Pop(l) \in Listener /\ Sound(Pop(l)) /\ Ends(Pop(l)) = {}
        /\ a \in Calls(l)
        /\ Calls(Pop(l)) = Calls(l) \ {a} /\ Ends(l) = {} /\ Head(l.strand) \in Task
    BY <2>a, <2>0, Pops
  <2>2. ec \in Error /\ Head(l.strand) \in Kids(a) /\ Completes(a) \in Task
    BY <2>a, <2>0, <2>1, HandlerKinds, HandlersMade
  <2>3. /\ group' = [group EXCEPT ![a] = g] /\ listener' = [listener EXCEPT ![i] = m]
    BY <2>a, Zenon DEF one, Ordered
  <2>4. i \in Holders(a)
    BY <2>1 DEF Holders
  <2>5. group[a] \in Group /\ Book(group[a], Holders(a), Enders(a))
    BY <2>1 DEF Ordered
  <2> HIDE DEF l, ec
  <2>6. /\ g \in Group /\ Enders(a) = {}
        /\ Book(g, Holders(a) \ {i}, IF g.remaining = 0 THEN {i} ELSE {})
    BY <2>2, <2>4, <2>5, <1>OneBook, Zenon
  <2>7. /\ m \in Listener /\ Sound(m) /\ Calls(m) = Calls(l) \ {a}
        /\ Ends(m) = IF g.remaining = 0 THEN {a} ELSE {}
    <3> HIDE DEF g
    <3>1. l.strand \in Seq(Task) /\ Tail(l.strand) \in Seq(Task)
      BY <2>0 DEF Listener
    <3>2. CASE g.remaining = 0
      <4> DEFINE s == <<Completes(a)>> \o Tail(l.strand)
      <4>1. s \in Seq(Task)
        BY <2>2, <3>1
      <4>2. m = [l EXCEPT !.strand = s]
        BY <3>2
      <4>3. s = <<Completes(a)>> \o Tail(l.strand)
        OBVIOUS
      <4> HIDE DEF s, m
      <4>4. m \in Listener /\ m.strand = s /\ m.waiters = l.waiters
        BY <2>0, <4>1, <4>2 DEF Listener
      <4>5. Sound(m) /\ Calls(m) = Calls(l) \ {a} /\ Ends(m) = {a}
        BY <2>0, <2>1, <2>2, <4>3, <4>4, <2>Concludes
      <4>6. QED
        BY <3>2, <4>4, <4>5
    <3>3. CASE g.remaining # 0
      <4>1. << >> \o Tail(l.strand) = Tail(l.strand)
        BY <3>1
      <4>2. m = Pop(l)
        BY <3>3, <4>1 DEF Pop
      <4>3. QED
        BY <2>1, <3>3, <4>2, Zenon
    <3>4. QED
      BY <3>2, <3>3, Zenon
  <2> HIDE DEF g, m
  <2>8. /\ Holders(a)' = Holders(a) \ {i}
        /\ Enders(a)' = IF g.remaining = 0 THEN {i} ELSE {}
        /\ \A b \in Operation : b # a => Holders(b)' = Holders(b) /\ Enders(b)' = Enders(b)
        /\ listener' \in [Listeners -> Listener] /\ \A j \in Listeners : Sound(listener'[j])
    <3>1. \A b \in Operation :
            /\ Holders(b)' = IF b \in Calls(m) THEN Holders(b) \cup {i} ELSE Holders(b) \ {i}
            /\ Enders(b)' = IF b \in Ends(m) THEN Enders(b) \cup {i} ELSE Enders(b) \ {i}
      BY <2>3, <2>7, <1>ListenerChanges, Zenon
    <3>2. \A b \in Operation : i \in Holders(b) <=> b \in Calls(l)
      BY DEF Holders, l
    <3>3. \A b \in Operation : i \notin Enders(b)
      BY <2>1 DEF Enders, l
    <3>4. ASSUME NEW b \in Operation, b # a
          PROVE  Holders(b)' = Holders(b) /\ Enders(b)' = Enders(b)
      <4>1. (b \in Calls(m) <=> b \in Calls(l)) /\ b \notin Ends(m)
        BY <2>7, <3>4
      <4>2. QED
        BY <3>1, <3>2, <3>3, <4>1, Zenon
    <3>5. Holders(a)' = Holders(a) \ {i}
      BY <2>1, <2>7, <3>1
    <3>6. Enders(a)' = IF g.remaining = 0 THEN {i} ELSE {}
      BY <2>1, <2>6, <2>7, <3>1
    <3>7. listener' \in [Listeners -> Listener] /\ \A j \in Listeners : Sound(listener'[j])
      BY <2>3, <2>7, <1>ListenerChanges, Zenon
    <3>8. QED
      BY <3>4, <3>5, <3>6, <3>7
  <2>9. \A b \in Operation : group'[b] = IF b = a THEN g ELSE group[b]
    BY <2>3 DEF Ordered
  <2>10. group' \in [Operation -> Group]
    BY <2>3, <2>6 DEF Ordered
  <2>11. \A b \in Operation : Book(group'[b], Holders(b)', Enders(b)')
    <3> TAKE b \in Operation
    <3>1. CASE b = a
      BY <2>6, <2>8, <2>9, <3>1
    <3>2. CASE b # a
      BY <2>8, <2>9, <3>2 DEF Ordered
    <3>3. QED
      BY <3>1, <3>2
  <2>12. QED
    BY <2>8, <2>10, <2>11 DEF Ordered
\* The completion handler of a call runs: its code, and the books afterwards.
<1>CompleteBook. ASSUME Threads, Ordered, NEW a \in Operation, complete(a),
                        group[a].pc = "completes" \/ Enders(a) # {}
                 PROVE  /\ control' \in Controls
                        /\ \E m \in Group : group' = [group EXCEPT ![a] = m] /\ Book(m, Holders(a), {})
  \* The completion handler runs: on the thread of the call, or on a strand of E.
  <2>CompletesBook. ASSUME NEW g \in Group, NEW H, NEW E, Book(g, H, E), g.pc = "completes" \/ E # {},
                           NEW ec \in Error
                    PROVE  LET m == [g EXCEPT !.completions = Append(@, ec),
                                              !.pc = IF g.pc # "completes" THEN @
                                                     ELSE IF g.size = 0 THEN "returned" ELSE "initiation"]
                           IN  m \in Group /\ Book(m, H, {})
    <3> USE <2>CompletesBook
    <3> DEFINE pc == IF g.pc # "completes" THEN g.pc
                     ELSE IF g.size = 0 THEN "returned" ELSE "initiation"
               m == [g EXCEPT !.completions = Append(@, ec),
                              !.pc = IF g.pc # "completes" THEN @
                                     ELSE IF g.size = 0 THEN "returned" ELSE "initiation"]
    <3>0. /\ Placed(g) /\ Counted(g, H) /\ Concluded(g, E) /\ g.size \in Nat
          /\ Append(g.completions, ec) \in Seq(Error)
      BY ServerAssumption DEF Book, Group
    <3>1. m \in Group
      BY <3>0, Zenon DEF Group
    <3>2. /\ m.pc = pc /\ m.completions = Append(g.completions, ec)
          /\ m.size = g.size /\ m.remaining = g.remaining /\ m.at = g.at
          /\ m.initiation = g.initiation /\ m.rejected = g.rejected /\ m.emit = g.emit
      BY DEF Group
    <3> HIDE DEF m
    <3>3. ~Pends(g) /\ ~g.rejected /\ g.pc # "new" => g.completions = << >>
      BY <3>0 DEF Concluded
    <3>4. g.pc # "new" /\ ~Pends(g) /\ ~g.rejected
      BY <3>0 DEF Concluded, Placed
    <3>5. Len(m.completions) = 1
      BY <3>2, <3>3, <3>4
    <3>6. Ahead(m) = Ahead(g)
      BY <3>2, AheadOf, Zenon
    <3>7. Placed(m)
      BY <3>0, <3>2, <3>4 DEF Placed
    <3>8. Counted(m, H)
      BY <3>0, <3>2, <3>6 DEF Counted, Pending
    <3>9. ~Pends(m) /\ m.pc # "completes"
      BY <3>2, <3>4 DEF Pends
    <3>10. Concluded(m, {})
      BY <3>5, <3>9 DEF Concluded
    <3>11. QED
      BY <3>1, <3>7, <3>8, <3>10 DEF Book, m
  <2> USE <1>CompleteBook
  <2> DEFINE r == IF a \in Starts THEN finish_start(control, group[a].first_ec)
                                  ELSE finish_wait(control, group[a].first_ec)
             g == group[a]
             m == [g EXCEPT !.completions = Append(@, r.ec),
                            !.pc = IF g.pc # "completes" THEN @
                                   ELSE IF g.size = 0 THEN "returned" ELSE "initiation"]
  <2>1. g \in Group /\ Book(g, Holders(a), Enders(a)) /\ g.first_ec \in Error
    BY DEF Ordered, Group
  <2>2. r.ec \in Error /\ r.control \in Controls
    BY <2>1, ControlTypes DEF Threads
  <2>3. control' = r.control
    BY DEF complete
  <2>4. group' = [group EXCEPT ![a] = m]
    BY Zenon DEF complete, Ordered
  <2>5. m \in Group /\ Book(m, Holders(a), {})
    <3> HIDE DEF r, g
    <3>1. g.pc = "completes" \/ Enders(a) # {}
      BY DEF g
    <3>2. QED
      BY <2>1, <2>2, <3>1, <2>CompletesBook, Zenon
  <2>6. QED
    BY <2>2, <2>3, <2>4, <2>5, Zenon
\* one_completes.
<1>OneCompletes. ASSUME Threads, Ordered, NEW i \in Listeners, one_completes(i)
                 PROVE  control' \in Controls /\ Ordered'
  <2> USE <1>OneCompletes
  <2>0. /\ listener[i] \in Listener /\ Sound(listener[i]) /\ listener[i].strand # << >>
        /\ Head(listener[i].strand).op = "completes"
    BY DEF Ordered, one_completes, Handler
  <2>1. PICK a \in Operation : a = Head(listener[i].strand).id
    BY <2>0, Pops, HandlerKinds
  <2> DEFINE l == listener[i]
             p == Pop(l)
  <2>2. /\ p \in Listener /\ Sound(p) /\ Ends(p) = {} /\ Calls(p) = Calls(l) /\ Ends(l) = {a}
    BY <2>0, <2>1, Pops
  <2>3. complete(a) /\ listener' = [listener EXCEPT ![i] = p]
    BY <2>1 DEF one_completes, popped, Pop
  <2>4. i \in Enders(a)
    BY <2>2 DEF Enders
  <2>5. Enders(a) = {i}
    BY <2>4 DEF Ordered, Book, Concluded
  <2>6. control' \in Controls
    BY <2>3, <2>4, <1>CompleteBook
  <2>7. PICK m \in Group : group' = [group EXCEPT ![a] = m] /\ Book(m, Holders(a), {})
    BY <2>3, <2>4, <1>CompleteBook
  <2> HIDE DEF p
  <2>8. \A b \in Operation :
          /\ Holders(b)' = IF b \in Calls(p) THEN Holders(b) \cup {i} ELSE Holders(b) \ {i}
          /\ Enders(b)' = Enders(b) \ {i}
    BY <2>2, <2>3, <1>ListenerChanges, Zenon
  <2>9. \A b \in Operation : Holders(b)' = Holders(b)
    BY <2>2, <2>8 DEF Holders
  <2>10. \A b \in Operation : Enders(b)' = IF b = a THEN {} ELSE Enders(b)
    BY <2>2, <2>5, <2>8 DEF Enders
  <2>11. \A b \in Operation : group'[b] = IF b = a THEN m ELSE group[b]
    BY <2>7 DEF Ordered
  <2>12. \A b \in Operation : Book(group'[b], Holders(b)', Enders(b)')
    <3> TAKE b \in Operation
    <3>1. CASE b = a
      BY <2>7, <2>9, <2>10, <2>11, <3>1
    <3>2. CASE b # a
      BY <2>9, <2>10, <2>11, <3>2 DEF Ordered
    <3>3. QED
      BY <3>1, <3>2
  <2>13. group' \in [Operation -> Group]
    BY <2>7 DEF Ordered
  <2>14. listener' \in [Listeners -> Listener] /\ \A j \in Listeners : Sound(listener'[j])
    BY <2>2, <2>3, <1>ListenerChanges, Zenon
  <2>15. QED
    BY <2>6, <2>12, <2>13, <2>14 DEF Ordered
\* The steps of a call that touch no queue.
<1>CallSteps. ASSUME Threads, Ordered, NEW a \in Operation,
                     \/ snapshot(a) \/ start_begins(a) \/ start_rejected(a) \/ submit_throws(a)
                     \/ initiation_one(a) \/ initiation_done(a) \/ stop_if_requested(a) \/ cancel(a)
              PROVE  Ordered'
  \* The call takes its snapshot of r listeners.
  <2>SnapshotBook. ASSUME NEW g \in Group, NEW H, NEW E, Book(g, H, E), g.pc = "new", NEW r \in 0..N,
                          NEW pc \in {"snapshot", "submit", "completes"},
                          pc = "submit" => r > 0, pc = "completes" => r = 0
                   PROVE  LET m == [g EXCEPT !.size = r, !.remaining = r, !.pc = pc]
                          IN  m \in Group /\ Book(m, H, E)
    <3> USE <2>SnapshotBook
    <3> DEFINE m == [g EXCEPT !.size = r, !.remaining = r, !.pc = pc]
    <3>1. m \in Group
      BY Zenon DEF Group
    <3>2. /\ m.size = r /\ m.remaining = r /\ m.pc = pc /\ m.at = g.at
          /\ m.initiation = g.initiation /\ m.rejected = g.rejected
          /\ m.completions = g.completions /\ m.emit = g.emit
      BY DEF Group
    <3> HIDE DEF m
    <3>3. /\ g.size = 0 /\ g.at = 1 /\ g.initiation = {} /\ g.completions = << >>
          /\ H = {} /\ E = {} /\ g.rejected \in BOOLEAN /\ ~g.rejected /\ g.emit = 0
      BY ServerAssumption DEF Book, Placed, Counted, Concluded, Group
    <3>4. Ahead(m) = 1..r
      <4>1. 1..0 = {}
        OBVIOUS
      <4>2. QED
        BY <3>2, <3>3, <4>1, AheadOf, Zenon
    <3>5. Sized(1..r, r)
      BY SnapshotSize, ServerAssumption
    <3>6. Placed(m)
      BY <3>2, <3>3, ServerAssumption DEF Placed
    <3>7. Counted(m, H)
      BY <3>2, <3>3, <3>4, <3>5 DEF Counted, Pending
    <3>8. Concluded(m, E)
      BY <3>2, <3>3 DEF Concluded, Pends
    <3>9. QED
      BY <3>1, <3>6, <3>7, <3>8 DEF Book, m
  \* begin_start succeeds.
  <2>BeginsBook. ASSUME NEW g \in Group, NEW H, NEW E, Book(g, H, E), g.pc = "snapshot"
                 PROVE  LET m == [g EXCEPT !.pc = IF g.size = 0 THEN "completes" ELSE "submit"]
                        IN  m \in Group /\ Book(m, H, E)
    <3> USE <2>BeginsBook
    <3> DEFINE m == [g EXCEPT !.pc = IF g.size = 0 THEN "completes" ELSE "submit"]
    <3>1. m \in Group
      BY DEF Group
    <3>2. /\ m.pc = (IF g.size = 0 THEN "completes" ELSE "submit")
          /\ m.size = g.size /\ m.remaining = g.remaining /\ m.at = g.at
          /\ m.initiation = g.initiation /\ m.rejected = g.rejected
          /\ m.completions = g.completions /\ m.emit = g.emit
      BY DEF Group
    <3> HIDE DEF m
    <3>3. /\ g.at = 1 /\ g.initiation = {} /\ ~g.rejected /\ g.size \in Nat /\ g.emit <= g.size
      BY ServerAssumption DEF Book, Placed, Group
    <3>4. Ahead(m) = Ahead(g)
      <4>1. 1..0 = {}
        OBVIOUS
      <4>2. QED
        BY <3>2, <3>3, <4>1, AheadOf, Zenon
    <3>5. Placed(m)
      BY <3>2, <3>3 DEF Placed
    <3>6. Counted(m, H)
      BY <3>2, <3>4 DEF Book, Counted, Pending
    <3>7. g.remaining = 0 <=> g.size = 0
      BY <3>3, SnapshotPends DEF Book
    <3>8. Concluded(m, E)
      BY <3>2, <3>3, <3>7 DEF Book, Concluded, Pends, Group
    <3>9. QED
      BY <3>1, <3>5, <3>6, <3>8 DEF Book, m
  \* begin_start fails: the call is refused before a child exists.
  <2>RejectedBook.
    ASSUME NEW g \in Group, NEW H, NEW E, Book(g, H, E), g.pc = "snapshot", NEW ec \in Error
    PROVE  LET m == [g EXCEPT !.pc = "returned", !.rejected = TRUE,
                              !.completions = Append(@, ec)]
           IN  m \in Group /\ Book(m, H, E)
    <3> USE <2>RejectedBook
    <3> DEFINE m == [g EXCEPT !.pc = "returned", !.rejected = TRUE,
                              !.completions = Append(@, ec)]
    <3>0. g.completions \in Seq(Error) /\ Append(g.completions, ec) \in Seq(Error)
      BY DEF Group
    <3>1. m \in Group
      BY <3>0, Zenon DEF Group
    <3>2. /\ m.pc = "returned" /\ m.rejected = TRUE /\ m.completions = Append(g.completions, ec)
          /\ m.size = g.size /\ m.remaining = g.remaining /\ m.at = g.at
          /\ m.initiation = g.initiation /\ m.emit = g.emit
      BY DEF Group
    <3> HIDE DEF m
    <3>3. /\ g.at = 1 /\ g.initiation = {} /\ ~g.rejected /\ g.size \in Nat /\ g.emit <= g.size
      BY ServerAssumption DEF Book, Placed, Group
    <3>4. H = {} /\ (g.remaining = 0 <=> g.size = 0)
      BY <3>3, SnapshotPends DEF Book
    <3>5. Pends(g)
      BY <3>3, <3>4, ServerAssumption DEF Pends, Group
    <3>6. g.completions = << >> /\ E = {}
      BY <3>5 DEF Book, Concluded
    <3>7. Len(m.completions) = 1
      BY <3>2, <3>6
    <3>8. Placed(m)
      BY <3>2, <3>3 DEF Placed
    <3>9. Counted(m, H)
      BY <3>2, <3>3, <3>4, AheadOf DEF Counted
    <3>10. Concluded(m, E)
      BY <3>2, <3>6, <3>7 DEF Concluded, Pends
    <3>11. QED
      BY <3>1, <3>8, <3>9, <3>10 DEF Book, m
  \* Its submission fails.
  <2>ThrowsBook. ASSUME NEW g \in Group, NEW H, NEW E, Book(g, H, E), g.pc = "submit"
                 PROVE  LET m == next_child([g EXCEPT !.initiation = @ \cup {g.at}])
                        IN  m \in Group /\ Book(m, H, E)
    <3> USE <2>ThrowsBook
    <3> DEFINE m == next_child([g EXCEPT !.initiation = @ \cup {g.at}])
    <3>0. /\ g.at \in Nat \ {0} /\ g.size \in Nat /\ g.size <= N /\ N \in Nat /\ g.at <= g.size
          /\ g.initiation \subseteq 1..(g.at - 1) /\ ~g.rejected
      BY ServerAssumption DEF Book, Placed, Group
    <3>1. m \in Group
      <4>1. g.at + 1 \in 1..(N + 1) /\ g.initiation \cup {g.at} \in SUBSET Listeners
        BY <3>0 DEF Listeners
      <4>2. m = [g EXCEPT !.initiation = g.initiation \cup {g.at}, !.at = g.at + 1,
                          !.pc = IF g.at = g.size THEN "initiation" ELSE "submit"]
        BY DEF next_child, Group
      <4>3. QED
        BY <4>1, <4>2, Zenon DEF Group
    <3>2. /\ m.pc = (IF g.at = g.size THEN "initiation" ELSE "submit") /\ m.at = g.at + 1
          /\ m.initiation = g.initiation \cup {g.at} /\ m.size = g.size
          /\ m.remaining = g.remaining /\ m.rejected = g.rejected
          /\ m.completions = g.completions /\ m.emit = g.emit
      BY DEF Group, next_child
    <3> HIDE DEF m
    <3>3. Ahead(m) = (g.at + 1)..g.size
      <4>1. g.at = g.size => (g.at + 1)..g.size = {}
        BY <3>0
      <4>2. QED
        BY <3>2, <4>1, AheadOf, Zenon
    <3>4. Ahead(g) = Ahead(m) \cup {g.at}
      BY <3>0, <3>3, AheadOf
    <3>5. Ahead(m) \cup m.initiation = Ahead(g) \cup g.initiation
      BY <3>2, <3>4
    <3>6. Pending(m, H) = Pending(g, H)
      BY <3>5 DEF Pending
    <3>7. Placed(m)
      BY <3>0, <3>2 DEF Book, Placed
    <3>8. Counted(m, H)
      BY <3>2, <3>5, <3>6 DEF Book, Counted
    <3>9. Concluded(m, E)
      BY <3>0, <3>2 DEF Book, Concluded, Pends
    <3>10. QED
      BY <3>1, <3>7, <3>8, <3>9 DEF Book, m
  \* A child that failed to be submitted is counted.
  <2>InitiationBook. ASSUME NEW g \in Group, NEW H, NEW E, Book(g, H, E), g.pc = "initiation",
                            NEW i \in g.initiation
                     PROVE  LET k == counted([g EXCEPT !.initiation = @ \ {i}], "failed")
                                m == [k EXCEPT !.pc = IF k.remaining = 0 THEN "completes" ELSE @]
                            IN  m \in Group /\ Book(m, H, E)
    <3> USE <2>InitiationBook
    <3> DEFINE k == counted([g EXCEPT !.initiation = @ \ {i}], "failed")
               m == [k EXCEPT !.pc = IF k.remaining = 0 THEN "completes" ELSE @]
               P == Pending(g, H)
    <3>0. /\ Ahead(g) = {} /\ ~g.rejected /\ Placed(g) /\ Counted(g, H) /\ Concluded(g, E)
          /\ g.size > 0
      BY AheadOf DEF Book, Placed
    <3>1. i \in P
      BY DEF Pending
    <3>2. /\ P \subseteq 1..g.size /\ g.remaining \in 1..N /\ g.remaining - 1 \in 0..N
          /\ g.remaining - 1 = 0 <=> P \ {i} = {}
      BY <3>0, <3>1, PendingLess, Zenon
    <3>s. Sized(P \ {i}, g.remaining - 1)
      BY <3>0, <3>1, PendingLess, Zenon
    <3>3. g.remaining - 1 \in 0..N /\ g.initiation \ {i} \in SUBSET Listeners
      BY <3>1, <3>2, ServerAssumption DEF Group
    <3>4. m \in Group /\ k \in Group
      BY <3>3, Zenon DEF Group, counted, Error
    <3>5. /\ m.pc = (IF g.remaining - 1 = 0 THEN "completes" ELSE "initiation")
          /\ m.at = g.at /\ m.initiation = g.initiation \ {i} /\ m.size = g.size
          /\ m.remaining = g.remaining - 1 /\ m.rejected = g.rejected
          /\ m.completions = g.completions /\ m.emit = g.emit
      BY DEF Group, counted
    <3> HIDE DEF m, k, P
    <3>6. i \notin H /\ Pending(m, H) = P \ {i} /\ Ahead(m) = {}
      <4>1. i \notin H
        BY <3>0 DEF Counted
      <4>2. Ahead(m) = {}
        BY <3>5, AheadOf
      <4>3. QED
        BY <3>0, <3>5, <4>1, <4>2 DEF Pending, P
    <3>7. m.pc = "completes" => m.initiation = {}
      BY <3>1, <3>2, <3>5, <3>6, Zenon DEF Pending
    <3>8. Placed(m)
      BY <3>0, <3>5, <3>7 DEF Placed
    <3>9. Counted(m, H)
      BY <3>0, <3>1, <3>2, <3>s, <3>5, <3>6 DEF Counted
    <3>10. E = {} /\ g.completions = << >>
      BY <3>0, <3>1, <3>2 DEF Concluded, Pends
    <3>11. Concluded(m, E)
      BY <3>0, <3>1, <3>2, <3>5, <3>10 DEF Concluded, Pends
    <3>12. QED
      BY <3>4, <3>8, <3>9, <3>11 DEF Book, m, k
  \* The call returns, its children submitted and its failures counted.
  <2>ReturnsBook. ASSUME NEW g \in Group, NEW H, NEW E, Book(g, H, E), g.pc \in {"initiation", "stop"},
                         g.initiation = {}, NEW pc \in {"stop", "returned"}
                  PROVE  LET m == [g EXCEPT !.pc = pc] IN m \in Group /\ Book(m, H, E)
    <3> USE <2>ReturnsBook
    <3> DEFINE m == [g EXCEPT !.pc = pc]
    <3>1. m \in Group
      BY DEF Group
    <3>2. /\ m.pc = pc /\ m.size = g.size /\ m.remaining = g.remaining /\ m.at = g.at
          /\ m.initiation = g.initiation /\ m.rejected = g.rejected
          /\ m.completions = g.completions /\ m.emit = g.emit
      BY DEF Group
    <3> HIDE DEF m
    <3>3. Ahead(m) = Ahead(g)
      BY <3>2, AheadOf, Zenon
    <3>4. Placed(m)
      BY <3>2 DEF Book, Placed
    <3>5. Counted(m, H)
      BY <3>2, <3>3 DEF Book, Counted, Pending
    <3>6. Concluded(m, E)
      BY <3>2 DEF Book, Placed, Concluded, Pends
    <3>7. QED
      BY <3>1, <3>4, <3>5, <3>6 DEF Book, m
  <2> USE <1>CallSteps
  <2> DEFINE g == group[a]
  <2>0. g \in Group /\ Book(g, Holders(a), Enders(a))
    BY DEF Ordered
  <2>u. listener' = listener
    BY DEF snapshot, start_begins, start_rejected, submit_throws, initiation_one,
           initiation_done, stop_if_requested, cancel
  <2>1. CASE snapshot(a)
    <3> DEFINE pc == IF a \in Starts THEN "snapshot"
                     ELSE IF registered = 0 THEN "completes" ELSE "submit"
               m == [g EXCEPT !.size = registered, !.remaining = registered, !.pc = pc]
    <3>1. g.pc = "new" /\ group' = [group EXCEPT ![a] = m]
      BY <2>1, Zenon DEF snapshot, Ordered
    <3>2. /\ registered \in 0..N /\ pc \in {"snapshot", "submit", "completes"}
          /\ pc = "submit" => registered > 0
          /\ pc = "completes" => registered = 0
      BY ServerAssumption DEF Threads
    <3>3. m \in Group /\ Book(m, Holders(a), Enders(a))
      <4> HIDE DEF pc, g
      <4>1. QED
        BY <2>0, <3>1, <3>2, <2>SnapshotBook, Zenon
    <3> HIDE DEF m
    <3>4. QED
      BY <2>u, <3>1, <3>3, <1>GroupStep, Zenon
  <2>2. CASE start_begins(a)
    <3> DEFINE m == [g EXCEPT !.pc = IF g.size = 0 THEN "completes" ELSE "submit"]
    <3>1. g.pc = "snapshot" /\ group' = [group EXCEPT ![a] = m]
      BY <2>2 DEF start_begins, Ordered
    <3>2. m \in Group /\ Book(m, Holders(a), Enders(a))
      BY <2>0, <3>1, <2>BeginsBook
    <3> HIDE DEF m
    <3>3. QED
      BY <2>u, <3>1, <3>2, <1>GroupStep, Zenon
  <2>3. CASE start_rejected(a)
    <3> DEFINE m == [g EXCEPT !.pc = "returned", !.rejected = TRUE,
                              !.completions = Append(@, "aborted")]
    <3>1. g.pc = "snapshot" /\ group' = [group EXCEPT ![a] = m]
      BY <2>3, Zenon DEF start_rejected, Ordered
    <3>2. m \in Group /\ Book(m, Holders(a), Enders(a))
      <4>1. "aborted" \in Error
        BY DEF Error
      <4>2. QED
        BY <2>0, <3>1, <4>1, <2>RejectedBook, Zenon
    <3> HIDE DEF m
    <3>3. QED
      BY <2>u, <3>1, <3>2, <1>GroupStep, Zenon
  <2>4. CASE submit_throws(a)
    <3> DEFINE m == next_child([g EXCEPT !.initiation = @ \cup {g.at}])
    <3>1. g.pc = "submit" /\ group' = [group EXCEPT ![a] = m]
      BY <2>4 DEF submit_throws
    <3>2. m \in Group /\ Book(m, Holders(a), Enders(a))
      BY <2>0, <3>1, <2>ThrowsBook
    <3> HIDE DEF m
    <3>3. QED
      BY <2>u, <3>1, <3>2, <1>GroupStep, Zenon
  <2>5. CASE initiation_one(a)
    <3> DEFINE k(i) == counted([g EXCEPT !.initiation = @ \ {i}], "failed")
               m(i) == [k(i) EXCEPT !.pc = IF k(i).remaining = 0 THEN "completes" ELSE @]
    <3>1. PICK i \in g.initiation : g.pc = "initiation" /\ group' = [group EXCEPT ![a] = m(i)]
      BY <2>5, Zenon DEF initiation_one, Ordered
    <3>2. m(i) \in Group /\ Book(m(i), Holders(a), Enders(a))
      BY <2>0, <3>1, <2>InitiationBook
    <3> HIDE DEF m
    <3>3. QED
      BY <2>u, <3>1, <3>2, <1>GroupStep, Zenon
  <2>6. CASE initiation_done(a) \/ stop_if_requested(a)
    <3> DEFINE m(pc) == [g EXCEPT !.pc = pc]
    <3>1. \E pc \in {"stop", "returned"} :
            /\ g.pc \in {"initiation", "stop"} /\ g.initiation = {}
            /\ group' = [group EXCEPT ![a] = m(pc)]
      BY <2>0, <2>6 DEF initiation_done, stop_if_requested, Ordered, Book, Placed
    <3>2. PICK pc \in {"stop", "returned"} :
            /\ g.pc \in {"initiation", "stop"} /\ g.initiation = {}
            /\ group' = [group EXCEPT ![a] = m(pc)]
      BY <3>1, Zenon
    <3>3. m(pc) \in Group /\ Book(m(pc), Holders(a), Enders(a))
      BY <2>0, <3>2, <2>ReturnsBook, Zenon
    <3> HIDE DEF m
    <3>4. QED
      BY <2>u, <3>2, <3>3, <1>GroupStep, Zenon
  <2>7. CASE cancel(a)
    <3> DEFINE m == [g EXCEPT !.cancelled = TRUE, !.emit = 1]
    <3>1. g.remaining > 0 /\ ~g.rejected /\ group' = [group EXCEPT ![a] = m]
      BY <2>7, Zenon DEF cancel, Ordered
    <3>2. g.size \in 1..N
      <4>1. g.size \in 0..N /\ g.remaining # 0
        BY <2>0, <3>1 DEF Group
      <4>2. Pending(g, Holders(a)) # {} /\ Pending(g, Holders(a)) \subseteq 1..g.size
        BY <2>0, <3>1, <4>1, PendingSized DEF Book
      <4>3. QED
        BY <4>1, <4>2, ServerAssumption
    <3>e. 1 \in 0..N
      BY <3>2, ServerAssumption
    <3>3. /\ m \in Group /\ m.emit = 1 /\ m.pc = g.pc /\ m.size = g.size /\ m.at = g.at
          /\ m.remaining = g.remaining /\ m.initiation = g.initiation
          /\ m.rejected = g.rejected /\ m.completions = g.completions
      BY <2>0, <3>e, Zenon DEF Group
    <3> HIDE DEF m, g
    <3>4. Book(m, Holders(a), Enders(a))
      BY <2>0, <3>2, <3>3, <1>SameBook
    <3>5. QED
      BY <2>u, <3>1, <3>3, <3>4, <1>GroupStep, Zenon
  <2>8. QED
    BY <2>1, <2>2, <2>3, <2>4, <2>5, <2>6, <2>7
\* submit: the group hands its child to the listener.
<1>SubmitStep. ASSUME Ordered, NEW a \in Operation, submit(a)
               PROVE  Ordered'
  <2> USE <1>SubmitStep
  <2> DEFINE g == group[a]
             m == [g EXCEPT !.pc = "check"]
             h == [op |-> IF a \in Starts THEN "start" ELSE "wait", id |-> a]
  <2>0. g \in Group /\ Book(g, Holders(a), Enders(a)) /\ g.pc = "submit"
    BY DEF Ordered, submit
  <2>1. m \in Group /\ g.at \in Listeners \ Holders(a) /\ Book(m, Holders(a) \cup {g.at}, Enders(a))
    BY <2>0, SubmitBook
  <2>2. PICK i \in Listeners : i = g.at
    BY <2>1
  <2> DEFINE l == listener[i]
             p == post(l, h)
  <2>3. group' = [group EXCEPT ![a] = m] /\ listener' = [listener EXCEPT ![i] = p]
    BY <2>2 DEF submit, post, Ordered
  <2>4. l \in Listener /\ Sound(l) /\ a \notin Calls(l)
    BY <2>1, <2>2 DEF Ordered, Holders
  <2>5. h \in Kids(a) /\ h \in Task
    BY HandlersMade DEF Kids, Operation
  <2> HIDE DEF h, g, l
  <2>6. p \in Listener /\ Sound(p) /\ Calls(p) = Calls(l) \cup {a} /\ Ends(p) = Ends(l)
    BY <2>4, <2>5, <1>Posts
  <2> HIDE DEF p, m
  <2>7. /\ listener' \in [Listeners -> Listener] /\ \A j \in Listeners : Sound(listener'[j])
        /\ \A b \in Operation :
          /\ Holders(b)' = IF b \in Calls(p) THEN Holders(b) \cup {i} ELSE Holders(b) \ {i}
          /\ Enders(b)' = IF b \in Ends(p) THEN Enders(b) \cup {i} ELSE Enders(b) \ {i}
    BY <2>3, <2>6, <1>ListenerChanges, Zenon
  <2>8. \A b \in Operation : Enders(b)' = Enders(b)
    BY <2>6, <2>7 DEF Enders, l
  <2>9. Holders(a)' = Holders(a) \cup {i}
    BY <2>6, <2>7
  <2>10. \A b \in Operation : b # a => Holders(b)' = Holders(b)
    BY <2>6, <2>7 DEF Holders, l
  <2>11. \A b \in Operation : group'[b] = IF b = a THEN m ELSE group[b]
    BY <2>3 DEF Ordered
  <2>12. group' \in [Operation -> Group]
    BY <2>1, <2>3 DEF Ordered
  <2>13. \A b \in Operation : Book(group'[b], Holders(b)', Enders(b)')
    <3> TAKE b \in Operation
    <3>1. CASE b = a
      BY <2>1, <2>2, <2>8, <2>9, <2>11, <3>1
    <3>2. CASE b # a
      BY <2>8, <2>10, <2>11, <3>2 DEF Ordered
    <3>3. QED
      BY <3>1, <3>2
  <2>14. QED
    BY <2>7, <2>12, <2>13 DEF Ordered
\* emit: the child learns of the cancellation.
<1>EmitStep. ASSUME Ordered, NEW a \in Operation, NEW i \in Listeners, NEW g \in Group,
                    Book(g, Holders(a), Enders(a)), emit(a, i, g)
             PROVE  Ordered'
  <2> USE <1>EmitStep
  <2> DEFINE f == [g EXCEPT !.flagged = @ \cup {i}]
  <2>1. f \in Group /\ Book(f, Holders(a), Enders(a))
    <3>1. /\ f \in Group /\ f.emit = g.emit /\ f.pc = g.pc /\ f.size = g.size /\ f.at = g.at
          /\ f.remaining = g.remaining /\ f.initiation = g.initiation
          /\ f.rejected = g.rejected /\ f.completions = g.completions
      BY DEF Group
    <3>2. g.emit <= g.size
      BY DEF Book, Placed
    <3> HIDE DEF f
    <3>3. QED
      BY <3>1, <3>2, <1>SameBook
  <2>2. PICK m \in Group : Book(m, Holders(a), Enders(a)) /\ group' = [group EXCEPT ![a] = m]
    <3>1. CASE i \in Connected(a)
      BY <2>1, <3>1, Zenon DEF emit
    <3>2. CASE i \notin Connected(a)
      BY <3>2, Zenon DEF emit
    <3>3. QED
      BY <3>1, <3>2
  <2>3. CASE listener' = listener
    BY <2>2, <2>3, <1>GroupStep, Zenon
  <2>4. CASE a \in Waits /\ listener' = [listener EXCEPT ![i].strand =
                                          Append(@, [op |-> "cancel_wait", id |-> a])]
    <3> DEFINE h == [op |-> "cancel_wait", id |-> a]
               l == listener[i]
               p == post(l, h)
    <3>1. h \in Task /\ h.op = "cancel_wait"
      BY <2>4, HandlersMade
    <3>2. l \in Listener /\ Sound(l)
      BY DEF Ordered
    <3>3. listener' = [listener EXCEPT ![i] = p]
      BY <2>4 DEF post, Ordered
    <3> HIDE DEF h
    <3>4. Alike(p, l)
      BY <3>1, <3>2, <1>Posts DEF Alike
    <3>5. /\ group' \in [Operation -> Group]
          /\ \A b \in Operation : Book(group'[b], Holders(b), Enders(b))
      <4>1. \A b \in Operation : group'[b] = IF b = a THEN m ELSE group[b]
        BY <2>2 DEF Ordered
      <4>2. QED
        BY <2>2, <4>1 DEF Ordered
    <3> HIDE DEF p
    <3>6. QED
      BY <3>3, <3>4, <3>5, <1>QuietStep, Zenon
  <2>5. QED
    BY <2>3, <2>4 DEF emit
\* submit_checks and cancel_emits.
<1>CancelSteps. ASSUME Ordered, NEW a \in Operation, submit_checks(a) \/ cancel_emits(a)
                PROVE  Ordered'
  <2> USE <1>CancelSteps
  <2> DEFINE g == group[a]
  <2>0. g \in Group /\ Book(g, Holders(a), Enders(a))
    BY DEF Ordered
  <2>1. CASE submit_checks(a)
    <3>1. next_child(g) \in Group /\ g.at \in Listeners
            /\ Book(next_child(g), Holders(a), Enders(a))
      BY <2>0, <2>1, ChecksBook DEF submit_checks
    <3>2. CASE emit(a, g.at, next_child(g))
      BY <3>1, <3>2, <1>EmitStep
    <3>3. CASE group' = [group EXCEPT ![a] = next_child(g)] /\ listener' = listener
      BY <3>1, <3>3, <1>GroupStep, Zenon
    <3>4. QED
      BY <2>1, <3>2, <3>3 DEF submit_checks
  <2>2. CASE cancel_emits(a)
    <3> DEFINE m == [g EXCEPT !.emit = IF @ = g.size THEN 0 ELSE @ + 1]
               e == IF g.emit = g.size THEN 0 ELSE g.emit + 1
    <3>1. /\ g.emit \in Nat /\ g.emit > 0 /\ g.size \in Nat /\ g.emit <= g.size
          /\ g.size <= N /\ N \in Nat /\ emit(a, g.emit, m)
      BY <2>0, <2>2, ServerAssumption DEF cancel_emits, Book, Placed, Group
    <3>2. e \in 0..N /\ e <= g.size /\ g.emit \in Listeners
      BY <3>1 DEF Listeners
    <3>3. m = [g EXCEPT !.emit = e]
      OBVIOUS
    <3> HIDE DEF e, g
    <3>4. /\ m \in Group /\ m.emit = e /\ m.pc = g.pc /\ m.size = g.size /\ m.at = g.at
          /\ m.remaining = g.remaining /\ m.initiation = g.initiation
          /\ m.rejected = g.rejected /\ m.completions = g.completions
      <4> HIDE DEF m
      <4>1. QED
        BY <2>0, <3>2, <3>3 DEF Group
    <3> HIDE DEF m
    <3>5. Book(m, Holders(a), Enders(a))
      BY <2>0, <3>2, <3>4, <1>SameBook
    <3>6. QED
      BY <3>1, <3>2, <3>4, <3>5, <1>EmitStep
  <2>3. QED
    BY <2>1, <2>2
\* caller_completes.
<1>CallerCompletes. ASSUME Threads, Ordered, NEW a \in Operation, caller_completes(a)
                    PROVE  control' \in Controls /\ Ordered'
  <2> USE <1>CallerCompletes
  <2>0. group[a].pc = "completes" /\ complete(a) /\ listener' = listener
    BY DEF caller_completes
  <2>1. Enders(a) = {}
    BY <2>0 DEF Ordered, Book, Concluded
  <2>2. control' \in Controls
    BY <2>0, <1>CompleteBook
  <2>3. PICK m \in Group : group' = [group EXCEPT ![a] = m] /\ Book(m, Holders(a), {})
    BY <2>0, <1>CompleteBook
  <2>4. QED
    BY <2>0, <2>1, <2>2, <2>3, <1>GroupStep, Zenon
\* A loop posts a stop.
<1>LoopSteps. ASSUME Threads, Ordered, NEW c \in Caller, LoopStep(c)
              PROVE  loop' \in [Caller -> Loop] /\ Ordered'
  <2> USE <1>LoopSteps
  <2>0. loop[c] \in Loop /\ loop[c].done < loop[c].of
    BY DEF Threads, LoopStep, loop_check, loop_post, Looping
  <2>1. /\ next_listener(loop[c]) \in Loop /\ [loop[c] EXCEPT !.passed = TRUE] \in Loop
        /\ loop[c].done + 1 \in Listeners
    BY <2>0, LoopTypes
  <2>2. CASE loop_check(c)
    <3>1. listener' = listener /\ group' = group
      BY <2>2 DEF loop_check
    <3>2. Ordered'
      BY <3>1 DEF Ordered, Holders, Enders
    <3>3. loop' \in [Caller -> Loop]
      BY <2>1, <2>2 DEF loop_check, Threads
    <3>4. QED
      BY <3>2, <3>3
  <2>3. CASE loop_post(c)
    <3>0. PICK i \in Listeners : i = loop[c].done + 1
      BY <2>1
    <3> DEFINE h == [op |-> "stop"]
               l == listener[i]
               p == post(l, h)
    <3>1. h \in Task /\ h.op = "stop"
      BY HandlersMade
    <3>2. l \in Listener /\ Sound(l)
      BY DEF Ordered
    <3>3. listener' = [listener EXCEPT ![i] = p] /\ group' = group
      BY <2>3, <3>0 DEF loop_post, post, Ordered
    <3>4. loop' \in [Caller -> Loop]
      BY <2>1, <2>3 DEF loop_post, Threads
    <3> HIDE DEF h
    <3>5. Alike(p, l)
      BY <3>1, <3>2, <1>Posts DEF Alike
    <3> HIDE DEF p
    <3>6. QED
      BY <3>3, <3>4, <3>5, <1>QuietListener, Zenon
  <2>4. QED
    BY <2>2, <2>3 DEF LoopStep
\* The types of the threads, action by action.
<1>ThreadsKept. ASSUME Threads, Ordered, Next
                PROVE  Threads'
  <2> USE <1>ThreadsKept
  <2>1. ASSUME NEW n \in 0..N, NEW c
        PROVE  [loop EXCEPT ![c] = begin_loop(n)] \in [Caller -> Loop]
    BY <2>1, LoopTypes, Zenon DEF Threads
  <2>2. \A a \in Operation : group[a].size \in 0..N
    BY DEF Ordered, Group
  <2>3. ASSUME NEW a \in Operation, snapshot(a) \/ cancel(a) \/ cancel_emits(a)
                                      \/ submit(a) \/ submit_throws(a) \/ submit_checks(a)
                                      \/ start_rejected(a) \/ initiation_done(a)
        PROVE  Threads'
    BY <2>3, Zenon DEF Threads, snapshot, cancel, cancel_emits, submit, submit_throws,
                submit_checks, start_rejected, initiation_done
  <2>4. ASSUME NEW a \in Operation, start_begins(a) PROVE Threads'
    <3>1. begin_start(control) \in Controls
      BY ControlTypes DEF Threads, Error
    <3>2. QED
      BY <2>4, <3>1 DEF Threads, start_begins
  <2>5. ASSUME NEW a \in Operation, initiation_one(a) \/ stop_if_requested(a) PROVE Threads'
    <3>1. /\ control' = control /\ stopper' = stopper /\ registered' = registered
          /\ loop' = loop \/ loop' = [loop EXCEPT ![a] = begin_loop(group[a].size)]
      BY <2>5 DEF initiation_one, stop_if_requested
    <3>2. loop' \in [Caller -> Loop]
      BY <2>1, <2>2, <3>1 DEF Threads
    <3>3. QED
      BY <3>1, <3>2 DEF Threads
  <2>6. ASSUME NEW a \in Operation, caller_completes(a) PROVE Threads'
    BY <2>6, <1>CallerCompletes DEF Threads, caller_completes
  <2>7. ASSUME NEW t \in Stoppers, server_request_stop(t) \/ server_request_stop_returns(t)
        PROVE  Threads'
    <3>1. request_stop(control) \in Controls
      BY ControlTypes DEF Threads, Error
    <3>2. CASE server_request_stop(t)
      BY <2>1, <3>1, <3>2 DEF Threads, server_request_stop
    <3>3. CASE server_request_stop_returns(t)
      BY <3>3 DEF Threads, server_request_stop_returns
    <3>4. QED
      BY <2>7, <3>2, <3>3
  <2>8. ASSUME NEW c \in Caller, LoopStep(c) PROVE Threads'
    BY <2>8, <1>LoopSteps, Zenon DEF Threads, LoopStep, loop_check, loop_post
  <2>9. ASSUME NEW i \in Listeners, StrandStep(i) \/ drains(i) \/ runtime_failure(i)
        PROVE  Threads'
    <3>1. CASE start_on_strand(i) \/ wait_on_strand(i) \/ cancel_wait(i) \/ stop_on_strand(i)
                 \/ drains(i) \/ runtime_failure(i)
      BY <3>1, Zenon DEF Threads, start_on_strand, wait_on_strand, cancel_wait, stop_on_strand,
                  drains, runtime_failure
    <3>2. CASE one(i)
      <4> DEFINE a == Head(listener[i].strand).id
                 g == counted(group[a], Head(listener[i].strand).ec)
      <4>1. a \in Operation
        <5>1. /\ listener[i] \in Listener /\ Sound(listener[i]) /\ listener[i].strand # << >>
              /\ Head(listener[i].strand).op = "one"
          BY <3>2, Zenon DEF Ordered, one, Handler
        <5>2. QED
          BY <5>1, Pops DEF Calls
      <4>2. g.size \in 0..N
        BY <4>1 DEF Ordered, Group, counted
      <4>3. /\ control' = control /\ stopper' = stopper /\ registered' = registered
            /\ loop' = loop \/ loop' = [loop EXCEPT ![i] = begin_loop(g.size)]
        BY <3>2, Zenon DEF one
      <4> HIDE DEF a, g
      <4>4. loop' \in [Caller -> Loop]
        BY <2>1, <4>2, <4>3 DEF Threads
      <4>5. QED
        BY <4>3, <4>4 DEF Threads
    <3>3. CASE one_completes(i)
      BY <3>3, <1>OneCompletes, Zenon DEF Threads, one_completes
    <3>4. QED
      BY <2>9, <3>1, <3>2, <3>3 DEF StrandStep
  <2>10. ASSUME add_listener PROVE Threads'
    BY <2>10, ServerAssumption DEF Threads, add_listener
  <2>11. QED
    BY <2>3, <2>4, <2>5, <2>6, <2>7, <2>8, <2>9, <2>10 DEF Next, Progress, CallStep
\* Every action keeps the queues and the books in order.
<1>OrderedKept. ASSUME Threads, Ordered, Next
                PROVE  Ordered'
  <2> USE <1>OrderedKept
  <2>1. ASSUME NEW a \in Operation, snapshot(a) \/ cancel(a) \/ CallStep(a) \/ cancel_emits(a)
        PROVE  Ordered'
    BY <2>1, <1>CallSteps, <1>SubmitStep, <1>CancelSteps, <1>CallerCompletes DEF CallStep
  <2>2. ASSUME NEW i \in Listeners, StrandStep(i) \/ drains(i) \/ runtime_failure(i)
        PROVE  Ordered'
    BY <2>2, <1>StartOnStrand, <1>WaitOnStrand, <1>CancelWait, <1>StopsAndDrains, <1>OneStep, <1>OneCompletes
       DEF StrandStep
  <2>3. ASSUME NEW c \in Caller, LoopStep(c) PROVE Ordered'
    BY <2>3, <1>LoopSteps
  <2>4. ASSUME \/ \E t \in Stoppers : server_request_stop(t) \/ server_request_stop_returns(t)
               \/ add_listener
        PROVE  Ordered'
    <3>1. listener' = listener /\ group' = group
      BY <2>4 DEF server_request_stop, server_request_stop_returns, add_listener
    <3>2. QED
      BY <3>1 DEF Ordered, Holders, Enders
  <2>5. QED
    BY <2>1, <2>2, <2>3, <2>4 DEF Next, Progress
<1>1. QED
  BY <1>ThreadsKept, <1>OrderedKept DEF IInv

\* The inductive invariant.
THEOREM ServerInvariant == Spec => []IInv
<1>1. Init => IInv
  BY InitIInv
<1>2. IInv /\ [Next]_vars => IInv'
  <2>1. IInv /\ Next => IInv'
    BY StepIInv
  <2>2. IInv /\ UNCHANGED vars => IInv'
    BY DEF IInv, Threads, Ordered, Holders, Enders, vars
  <2>3. QED
    BY <2>1, <2>2
<1>3. QED
  BY <1>1, <1>2, PTL DEF Spec

-----------------------------------------------------------------------------
(* The properties *)

\* "completion is scheduled exactly once", in whatever order children report,
\* submissions fail and cancellations and stops come.
THEOREM CompletesOnce == Spec => []CompletedExactlyOnce
<1>1. ASSUME IInv PROVE CompletedExactlyOnce
  <2> SUFFICES ASSUME NEW a \in Operation, group[a].pc # "new"
               PROVE  CASE Pends(group[a]) -> group[a].completions = << >> /\ ~Completing(a)
                        [] Completing(a)   -> group[a].completions = << >>
                        [] OTHER           -> Len(group[a].completions) = 1
    BY DEF CompletedExactlyOnce, Pends
  <2>1. Concluded(group[a], Enders(a))
    BY <1>1 DEF IInv, Ordered, Book
  <2>2. Completing(a) <=> group[a].pc = "completes" \/ Enders(a) # {}
    BY DEF Completing, Enders, Ends, Ending, Meets
  <2>3. CASE Pends(group[a])
    <3>1. group[a].completions = << >> /\ ~Completing(a)
      BY <2>1, <2>2, <2>3 DEF Concluded
    <3>2. QED
      BY <2>3, <3>1
  <2>4. CASE ~Pends(group[a]) /\ Completing(a)
    <3>1. group[a].completions = << >>
      BY <2>1, <2>2, <2>4 DEF Concluded
    <3>2. QED
      BY <2>4, <3>1
  <2>5. CASE ~Pends(group[a]) /\ ~Completing(a)
    <3>1. Len(group[a].completions) = 1
      BY <2>1, <2>2, <2>5 DEF Concluded
    <3>2. QED
      BY <2>5, <3>1
  <2>6. QED
    BY <2>3, <2>4, <2>5
<1>2. QED
  BY <1>1, ServerInvariant, PTL

\* What a step does to server_control.
LEMMA ControlSteps ==
  ASSUME Threads, Ordered, Next
  PROVE  \/ control' = control
         \/ control' = request_stop(control)
         \/ \E a \in Operation : start_begins(a)
         \/ \E ec \in Error : \/ control' = finish_start(control, ec).control
                              \/ control' = finish_wait(control, ec).control
<1>1. ASSUME NEW a \in Operation, complete(a)
      PROVE  \E ec \in Error : \/ control' = finish_start(control, ec).control
                               \/ control' = finish_wait(control, ec).control
  <2>1. group[a].first_ec \in Error
    BY DEF Ordered, Group
  <2>2. \/ control' = finish_start(control, group[a].first_ec).control
        \/ control' = finish_wait(control, group[a].first_ec).control
    BY <1>1 DEF complete
  <2>3. QED
    BY <2>1, <2>2
<1>2. ASSUME NEW i \in Listeners, one_completes(i)
      PROVE  \E a \in Operation : complete(a)
  <2>1. /\ listener[i] \in Listener /\ Sound(listener[i]) /\ listener[i].strand # << >>
        /\ Head(listener[i].strand).op = "completes"
    BY <1>2 DEF Ordered, one_completes, Handler
  <2>2. Head(listener[i].strand).id \in Operation
    BY <2>1, Pops, HandlerKinds
  <2>3. QED
    BY <1>2, <2>2 DEF one_completes
<1>3. ASSUME NEW a \in Operation, snapshot(a) \/ cancel(a) \/ CallStep(a) \/ cancel_emits(a)
      PROVE  control' = control \/ start_begins(a) \/ complete(a)
  BY <1>3, Zenon DEF snapshot, cancel, CallStep, cancel_emits, start_rejected, submit,
              submit_throws, submit_checks, initiation_one, initiation_done,
              caller_completes, stop_if_requested
<1>4. ASSUME NEW i \in Listeners, StrandStep(i) \/ drains(i) \/ runtime_failure(i)
      PROVE  control' = control \/ one_completes(i)
  BY <1>4, Zenon DEF StrandStep, start_on_strand, wait_on_strand, cancel_wait, stop_on_strand,
              one, drains, runtime_failure
<1>5. ASSUME \/ \E t \in Stoppers : server_request_stop(t) \/ server_request_stop_returns(t)
             \/ \E c \in Caller : LoopStep(c)
             \/ add_listener
      PROVE  control' = control \/ control' = request_stop(control)
  BY <1>5, Zenon DEF server_request_stop, server_request_stop_returns, LoopStep, loop_check,
              loop_post, add_listener
<1>6. QED
  BY <1>1, <1>2, <1>3, <1>4, <1>5, Zenon DEF Next, Progress

\* A stop that was requested is not undone by a start, however late it completes.
THEOREM StopSticks == Spec => StopIsSticky
<1>1. ASSUME IInv, Next, control.state = "stopping"
      PROVE  control'.state \in {"stopping", "stopped"}
  <2>0. control \in Controls /\ request_stop(control) = control
    BY <1>1 DEF IInv, Threads, request_stop, stop_requested
  <2>1. ASSUME NEW ec \in Error
        PROVE  /\ finish_start(control, ec).control = control
               /\ finish_wait(control, ec).control.state = "stopped"
    <3>1. finish_wait(control, ec).control.state = "stopped"
      BY <2>0 DEF finish_wait, Controls
    <3>2. ec # "ok" => finish_start(control, ec).control = control
      BY <2>0 DEF finish_start
    <3>3. ec = "ok" => finish_start(control, ec) = [control |-> control, ec |-> "aborted"]
      BY <1>1 DEF finish_start
    <3>4. QED
      BY <3>1, <3>2, <3>3
  <2>2. \A a \in Operation : ~start_begins(a)
    BY <1>1 DEF start_begins
  <2>3. QED
    BY <1>1, <2>0, <2>1, <2>2, ControlSteps DEF IInv
<1>2. IInv /\ [Next]_vars =>
        [control.state = "stopping" => control'.state \in {"stopping", "stopped"}]_control
  BY <1>1 DEF vars
<1>3. QED
  BY <1>2, ServerInvariant, PTL DEF Spec, StopIsSticky

-----------------------------------------------------------------------------
(* The generations of the server *)

\* A generation for each start that began, at most; only a start has a snapshot
\* before it begins.
Began == {a \in Starts : group[a].pc \notin {"new", "snapshot"}}

Generations ==
  /\ \E B \in SUBSET Began : Sized(B, control.generation)
  /\ \A a \in Operation : group[a].pc = "snapshot" => a \in Starts

\* No call goes back to before its start.
LEMMA CallsGoOn ==
  ASSUME Threads, Ordered, Next, NEW b \in Operation
  PROVE  \/ group'[b].pc = group[b].pc
         \/ group[b].pc = "new" /\ group'[b].pc = "snapshot" /\ b \in Starts
         \/ group'[b].pc \notin {"new", "snapshot"}
<1>0. \A a \in Operation : group[a] \in Group
  BY DEF Ordered
<1>2. ASSUME NEW a \in Operation, snapshot(a)
      PROVE  \/ group'[b].pc = group[b].pc
             \/ group[b].pc = "new" /\ group'[b].pc = "snapshot" /\ b \in Starts
             \/ group'[b].pc \notin {"new", "snapshot"}
  BY <1>0, <1>2 DEF snapshot, Ordered, Group
<1> DEFINE goes(a, m) ==
             /\ group' = [group EXCEPT ![a] = m]
             /\ m.pc = group[a].pc \/ m.pc \notin {"new", "snapshot"}
<1>1. ASSUME NEW a \in Operation, NEW m, goes(a, m)
      PROVE  group'[b].pc = group[b].pc \/ group'[b].pc \notin {"new", "snapshot"}
  BY <1>1 DEF Ordered
<1>3. ASSUME NEW a \in Operation,
             \/ start_begins(a) \/ start_rejected(a) \/ submit(a) \/ initiation_done(a)
             \/ stop_if_requested(a) \/ cancel(a) \/ complete(a)
      PROVE  group'[b].pc = group[b].pc \/ group'[b].pc \notin {"new", "snapshot"}
  <2> DEFINE g == group[a]
  <2>0. g \in Group /\ group \in [Operation -> Group]
    BY DEF Ordered
  <2>1. CASE start_begins(a)
    BY <2>0, <2>1 DEF start_begins, Group
  <2>2. CASE start_rejected(a)
    BY <2>0, <2>2 DEF start_rejected, Group
  <2>3. CASE submit(a) \/ initiation_done(a) \/ stop_if_requested(a)
    <3>1. \E pc \in {"check", "stop", "returned"} : group' = [group EXCEPT ![a].pc = pc]
      BY <2>3 DEF submit, initiation_done, stop_if_requested
    <3>2. QED
      BY <2>0, <3>1 DEF Group
  <2>4. CASE cancel(a)
    BY <2>0, <2>4 DEF cancel, Group
  <2>5. CASE complete(a)
    BY <2>0, <2>5 DEF complete, Group
  <2>6. QED
    BY <1>3, <2>1, <2>2, <2>3, <2>4, <2>5
<1>4. ASSUME NEW a \in Operation, submit_throws(a) \/ initiation_one(a)
      PROVE  group'[b].pc = group[b].pc \/ group'[b].pc \notin {"new", "snapshot"}
  <2>1. CASE submit_throws(a)
    <3> DEFINE m == next_child([group[a] EXCEPT !.initiation = @ \cup {group[a].at}])
    <3>1. group' = [group EXCEPT ![a] = m]
      BY <2>1 DEF submit_throws
    <3>2. m.pc \in {"initiation", "submit"}
      BY <1>0 DEF next_child, Group
    <3> HIDE DEF m
    <3>3. QED
      BY <1>1, <3>1, <3>2
  <2>2. CASE initiation_one(a)
    <3> DEFINE k(i) == counted([group[a] EXCEPT !.initiation = @ \ {i}], "failed")
               m(i) == [k(i) EXCEPT !.pc = IF k(i).remaining = 0 THEN "completes" ELSE @]
    <3>1. PICK i : group' = [group EXCEPT ![a] = m(i)] /\ group[a].pc = "initiation"
      BY <2>2, Zenon DEF initiation_one
    <3>2. m(i).pc \in {"initiation", "completes"}
      BY <1>0, <3>1 DEF counted, Group
    <3> HIDE DEF m
    <3>3. QED
      BY <1>1, <3>1, <3>2
  <2>3. QED
    BY <1>4, <2>1, <2>2
<1>5. ASSUME NEW a \in Operation, submit_checks(a) \/ cancel_emits(a)
      PROVE  group'[b].pc = group[b].pc \/ group'[b].pc \notin {"new", "snapshot"}
  <2>1. ASSUME NEW i, NEW g \in Group, emit(a, i, g),
               g.pc = group[a].pc \/ g.pc \notin {"new", "snapshot"}
        PROVE  group'[b].pc = group[b].pc \/ group'[b].pc \notin {"new", "snapshot"}
    <3> DEFINE f == [g EXCEPT !.flagged = @ \cup {i}]
    <3>1. f.pc = g.pc
      BY DEF Group
    <3>2. group' = [group EXCEPT ![a] = f] \/ group' = [group EXCEPT ![a] = g]
      BY <2>1, Zenon DEF emit
    <3> HIDE DEF f
    <3>3. QED
      BY <1>1, <2>1, <3>1, <3>2
  <2>2. CASE submit_checks(a)
    <3>1. next_child(group[a]) \in Group
      BY <2>2, ChecksBook DEF submit_checks, Ordered
    <3>2. next_child(group[a]).pc \in {"initiation", "submit"}
      BY <1>0 DEF next_child, Group
    <3>3. \/ \E i : emit(a, i, next_child(group[a]))
          \/ group' = [group EXCEPT ![a] = next_child(group[a])]
      BY <2>2 DEF submit_checks
    <3>4. QED
      BY <1>1, <2>1, <3>1, <3>2, <3>3
  <2>3. CASE cancel_emits(a)
    <3> DEFINE m == [group[a] EXCEPT !.emit = IF @ = group[a].size THEN 0 ELSE @ + 1]
    <3>1. m.pc = group[a].pc /\ [m EXCEPT !.flagged = @ \cup {group[a].emit}].pc = group[a].pc
      BY <1>0 DEF Group
    <3>2. \/ group' = [group EXCEPT ![a] = [m EXCEPT !.flagged = @ \cup {group[a].emit}]]
          \/ group' = [group EXCEPT ![a] = m]
      BY <2>3, Zenon DEF cancel_emits, emit
    <3> HIDE DEF m
    <3>3. QED
      BY <1>1, <3>1, <3>2, Zenon
  <2>4. QED
    BY <1>5, <2>2, <2>3
<1>6. ASSUME NEW i \in Listeners, StrandStep(i) \/ drains(i) \/ runtime_failure(i)
      PROVE  group'[b].pc = group[b].pc \/ group'[b].pc \notin {"new", "snapshot"}
  <2>1. CASE one(i)
    BY <1>0, <2>1, Zenon DEF one, counted, Ordered, Group
  <2>2. CASE one_completes(i)
    <3>1. /\ listener[i] \in Listener /\ Sound(listener[i]) /\ listener[i].strand # << >>
          /\ Head(listener[i].strand).op = "completes"
      BY <2>2 DEF Ordered, one_completes, Handler
    <3>2. Head(listener[i].strand).id \in Operation
      BY <3>1, Pops, HandlerKinds
    <3>3. QED
      BY <1>3, <2>2, <3>2 DEF one_completes
  <2>3. CASE group' = group
    BY <2>3
  <2>4. QED
    BY <1>6, <2>1, <2>2, <2>3, Zenon DEF StrandStep, start_on_strand, wait_on_strand,
       cancel_wait, stop_on_strand, drains, runtime_failure
<1>7. ASSUME \/ \E t \in Stoppers : server_request_stop(t) \/ server_request_stop_returns(t)
             \/ \E c \in Caller : LoopStep(c)
             \/ add_listener
      PROVE  group' = group
  BY <1>7, Zenon DEF server_request_stop, server_request_stop_returns, LoopStep, loop_check,
              loop_post, add_listener
<1>8. QED
  BY <1>2, <1>3, <1>4, <1>5, <1>6, <1>7, Zenon DEF Next, Progress, CallStep, caller_completes

\* There is a generation for each start that began, at most.
LEMMA GenerationsInvariant == Spec => []Generations
\* Every step keeps it so.
<1>GenerationsKept. ASSUME IInv, Generations, Next
                    PROVE  Generations'
  <2> USE <1>GenerationsKept
  <2>0. Starts \subseteq Operation
    BY DEF Operation
  <2>1. \A a \in Operation : group'[a].pc = "snapshot" => a \in Starts
    BY CallsGoOn DEF IInv, Generations
  <2>2. Began \subseteq Began'
    <3>1. \A a \in Starts : group[a].pc \notin {"new", "snapshot"} =>
                              group'[a].pc \notin {"new", "snapshot"}
      BY <2>0, CallsGoOn DEF IInv
    <3>2. QED
      BY <3>1 DEF Began
  <2>3. PICK B \in SUBSET Began : Sized(B, control.generation)
    BY DEF Generations
  <2>4. control \in Controls
    BY DEF IInv, Threads
  <2>5. CASE control'.generation = control.generation
    BY <2>1, <2>2, <2>3, <2>5 DEF Generations
  <2>6. CASE \E a \in Operation : start_begins(a)
    <3>1. PICK a \in Operation : start_begins(a)
      BY <2>6
    <3>2. a \in Starts /\ a \notin Began /\ a \in Began'
      <4>1. group[a].pc = "snapshot" /\ a \in Starts
        BY <3>1 DEF start_begins, Generations
      <4>2. group'[a].pc \notin {"new", "snapshot"}
        BY <3>1 DEF start_begins, IInv, Ordered, Group
      <4>3. QED
        BY <4>1, <4>2 DEF Began
    <3>3. B \in SUBSET (Began') /\ B \cup {a} \in SUBSET (Began')
      BY <2>2, <3>2
    <3>4. control.generation \in Nat /\ Sized(B \cup {a}, control.generation + 1)
      BY <2>3, <2>4, <3>2, SizedMore DEF Controls
    <3>5. control'.generation \in {control.generation, control.generation + 1}
      BY <2>4, <3>1 DEF start_begins, begin_start, Controls
    <3>6. QED
      BY <2>1, <2>3, <3>3, <3>4, <3>5 DEF Generations
  <2>7. CASE control' = request_stop(control)
    BY <2>4, <2>5, <2>7 DEF request_stop, Controls
  <2>8. CASE \E ec \in Error : \/ control' = finish_start(control, ec).control
                               \/ control' = finish_wait(control, ec).control
    <3>1. PICK ec \in Error : \/ control' = finish_start(control, ec).control
                              \/ control' = finish_wait(control, ec).control
      BY <2>8
    <3>2. finish_wait(control, ec).control.generation = control.generation
      BY <2>4 DEF finish_wait, Controls
    <3>3. request_stop(control).generation = control.generation
      BY <2>4 DEF request_stop, Controls
    <3>4. finish_start(control, ec).control.generation = control.generation
      <4>1. CASE ec # "ok"
        BY <3>3, <4>1 DEF finish_start
      <4>2. CASE ec = "ok" /\ control.state = "starting"
        BY <2>4, <4>2 DEF finish_start, Controls
      <4>3. CASE ec = "ok" /\ control.state = "running"
        BY <2>4, <4>3 DEF finish_start, Controls
      <4>4. CASE ec = "ok" /\ control.state \notin {"starting", "running"}
        BY <2>4, <4>4 DEF finish_start, Controls
      <4>5. QED
        BY <4>1, <4>2, <4>3, <4>4
    <3>5. QED
      BY <2>5, <3>1, <3>2, <3>4
  <2>9. QED
    BY <2>5, <2>6, <2>7, <2>8, ControlSteps DEF IInv
<1>1. Init => Generations
  <2> SUFFICES ASSUME Init PROVE Generations
    OBVIOUS
  <2>1. control.generation = 0 /\ \A a \in Operation : group[a].pc = "new"
    BY DEF Init
  <2>2. {} \in SUBSET Began /\ Sized({}, 0)
    BY SnapshotSize
  <2>3. QED
    BY <2>1, <2>2 DEF Generations
<1>2. IInv /\ Generations /\ [Next]_vars => Generations'
  BY <1>GenerationsKept, Zenon DEF Generations, Began, vars
<1>3. QED
  BY <1>1, <1>2, ServerInvariant, PTL DEF Spec

-----------------------------------------------------------------------------
(* The lifecycle of a listener *)

Outcome(l) == IF l.terminal_error = "ok" THEN "ok" ELSE "failed"
Waiting(l) == {l.waiters[k] : k \in DOMAIN l.waiters}

\* From l to m in a step of the lifecycle, or in no step of it.
Lives(l, m) ==
  \/ /\ m.state = l.state /\ Outcome(m) = Outcome(l)
     /\ \/ Waiting(m) = Waiting(l)
        \/ \E w \in Waits : \/ l.state # "stopped" /\ Waiting(m) = Waiting(l) \cup {w}
                            \/ Waiting(m) = Waiting(l) \ {w}
  \/ /\ l.state \in {"idle", "stopped"}
     /\ \/ m.state = "running" /\ Outcome(m) = "ok" /\ Waiting(m) = Waiting(l)
        \/ m.state = "stopped" /\ Outcome(m) = "failed" /\ Waiting(m) = {}
  \/ l.state = "running" /\ m.state = "stopping" /\ Waiting(m) = Waiting(l)
  \/ l.state = "idle" /\ m.state = "stopped" /\ Outcome(m) = "ok" /\ Waiting(m) = {}
  \/ l.state = "stopping" /\ m.state = "stopped" /\ Outcome(m) = Outcome(l) /\ Waiting(m) = {}

\* The listeners the server model assumes do no more than AcceptorListener and
\* SocketListener are proved to do.
THEOREM ListenersLive == Spec => ListenersKeepLifecycle
\* Lives is a step of ListenerLifecycle.
<1>LivesIsStep. ASSUME NEW i \in Listeners, Lives(listener[i], listener'[i])
                PROVE  [Lifecycle(i)!Next]_(Lifecycle(i)!lifecycle)
  <2> USE <1>LivesIsStep
  <2>1. \A l : Outcome(l) \in {"ok", "failed"}
    BY DEF Outcome
  <2>2. QED
    BY <2>1, Zenon DEF Lives, Outcome, Waiting, Lifecycle!Next, Lifecycle!lifecycle,
      Lifecycle!Start, Lifecycle!StartSucceeds, Lifecycle!StartFails, Lifecycle!BeginStop,
      Lifecycle!StopAtOnce, Lifecycle!Drained, Lifecycle!Wait, Lifecycle!CancelWait
\* Every step takes every listener along its lifecycle, or leaves it where it is.
<1>AllLive. ASSUME Threads, Ordered, Next
            PROVE  \A j \in Listeners : Lives(listener[j], listener'[j])
  \* One listener changes: it lives, and the others rest.
  <2>OneLives. ASSUME listener \in [Listeners -> Listener], NEW i \in Listeners, NEW m,
                      listener' = [listener EXCEPT ![i] = m], Lives(listener[i], m)
               PROVE  \A j \in Listeners : Lives(listener[j], listener'[j])
    <3> USE <2>OneLives
    <3>1. \A j \in Listeners : listener'[j] = IF j = i THEN m ELSE listener[j]
      OBVIOUS
    <3>2. \A l : Lives(l, l)
      BY DEF Lives
    <3>3. QED
      BY <3>1, <3>2
  \* finish and post, as the lifecycle sees them.
  <2>RecordsLive. ASSUME NEW l \in Listener
                  PROVE  /\ \A ec \in Error :
                              /\ finish(l, ec).state = "stopped" /\ finish(l, ec).terminal_error = ec
                              /\ Waiting(finish(l, ec)) = {}
                         /\ \A h : /\ post(l, h).state = l.state
                                   /\ Outcome(post(l, h)) = Outcome(l) /\ Waiting(post(l, h)) = Waiting(l)
                         /\ /\ Pop(l).state = l.state
                            /\ Outcome(Pop(l)) = Outcome(l) /\ Waiting(Pop(l)) = Waiting(l)
    <3> USE <2>RecordsLive
    <3>1. ASSUME NEW ec \in Error
          PROVE  /\ finish(l, ec).state = "stopped" /\ finish(l, ec).terminal_error = ec
                 /\ finish(l, ec).waiters = << >>
      BY DEF finish, Listener
    <3>2. \A m : m.waiters = << >> => Waiting(m) = {}
      BY DEF Waiting
    <3>3. ASSUME NEW h
          PROVE  /\ post(l, h).state = l.state /\ post(l, h).terminal_error = l.terminal_error
                 /\ post(l, h).waiters = l.waiters
      BY DEF post, Listener
    <3>4. /\ Pop(l).state = l.state /\ Pop(l).terminal_error = l.terminal_error
          /\ Pop(l).waiters = l.waiters
      BY DEF Pop, Listener
    <3>5. QED
      BY <3>1, <3>2, <3>3, <3>4 DEF Outcome, Waiting
  \* start_on_strand is a step of the lifecycle.
  <2>StartLives. ASSUME Ordered, NEW i \in Listeners, start_on_strand(i)
                 PROVE  \A j \in Listeners : Lives(listener[j], listener'[j])
    <3> USE <2>StartLives
    <3> DEFINE l == listener[i]
               a == Head(l.strand).id
               p == Pop(l)
               fresh == p.state \in {"idle", "stopped"}
               opened == [p EXCEPT !.state = "running", !.terminal_error = "ok"]
    <3>0. l \in Listener /\ Sound(l) /\ l.strand # << >>
      BY DEF Ordered, start_on_strand, Handler
    <3>1. /\ p \in Listener /\ Sound(p) /\ p.state = l.state
          /\ Outcome(p) = Outcome(l) /\ Waiting(p) = Waiting(l)
      BY <3>0, Pops, <2>RecordsLive, Zenon
    <3>2. \/ fresh /\ listener' = [listener EXCEPT ![i] = post(opened, One(a, "ok"))]
          \/ fresh /\ listener' = [listener EXCEPT ![i] =
                                     finish(post(opened, One(a, "failed")), "failed")]
          \/ fresh /\ listener' = [listener EXCEPT ![i] =
                                     post(finish(opened, "failed"), One(a, "failed"))]
          \/ \E h : listener' = [listener EXCEPT ![i] = post(p, h)]
      BY Zenon DEF start_on_strand, popped, Pop
    <3> HIDE DEF p
    <3>3. /\ opened \in Listener /\ Sound(opened) /\ opened.state = "running"
          /\ Outcome(opened) = "ok" /\ Waiting(opened) = Waiting(l)
      <4>1. opened.state = "running" /\ opened.terminal_error = "ok" /\ opened.waiters = p.waiters
        BY <3>1 DEF Listener
      <4>2. opened \in Listener /\ Sound(opened)
        BY <3>1, Marks, Zenon DEF State, Error
      <4> HIDE DEF opened
      <4>3. QED
        BY <3>1, <4>1, <4>2 DEF Outcome, Waiting
    <3>4. One(a, "failed") \in Task /\ "failed" \in Error /\ Outcome(l) \in {"ok", "failed"}
      <4>1. a \in Operation /\ "failed" \in Error
        BY <3>0, Pops, Zenon DEF Calls, Error, start_on_strand, Handler
      <4>2. QED
        BY <4>1, HandlersMade DEF Kids, Outcome
    <3> HIDE DEF opened, l, a
    <3>5. \A h : Lives(l, post(p, h))
      BY <3>1, <2>RecordsLive DEF Lives
    <3>6. fresh => \A h : Lives(l, post(opened, h))
      BY <3>1, <3>3, <2>RecordsLive DEF Lives
    <3>7. fresh => Lives(l, finish(post(opened, One(a, "failed")), "failed"))
      <4> DEFINE q == post(opened, One(a, "failed"))
      <4>1. q \in Listener
        <5>1. Append(opened.strand, One(a, "failed")) \in Seq(Task)
          BY <3>3, <3>4 DEF Listener
        <5>2. QED
          BY <3>3, <5>1 DEF post, Listener
      <4> HIDE DEF q
      <4>2. fresh => Lives(l, finish(q, "failed"))
        BY <3>1, <3>4, <4>1, <2>RecordsLive DEF Lives, Outcome
      <4>3. QED
        BY <4>2 DEF q
    <3>8. fresh => Lives(l, post(finish(opened, "failed"), One(a, "failed")))
      <4> DEFINE q == finish(opened, "failed")
      <4>1. q \in Listener
        BY <3>3, <3>4, FinishKeeps
      <4>2. q.state = "stopped" /\ Outcome(q) = "failed" /\ Waiting(q) = {}
        BY <3>3, <3>4, <2>RecordsLive DEF Outcome
      <4> HIDE DEF q
      <4>3. fresh => Lives(l, post(q, One(a, "failed")))
        BY <3>1, <4>1, <4>2, <2>RecordsLive DEF Lives
      <4>4. QED
        BY <4>3 DEF q
    <3>9. QED
      BY <3>2, <3>5, <3>6, <3>7, <3>8, <2>OneLives DEF Ordered, l
  \* wait_on_strand and cancel_wait are steps of the lifecycle.
  <2>WaitLives. ASSUME Ordered, NEW i \in Listeners, wait_on_strand(i) \/ cancel_wait(i)
                PROVE  \A j \in Listeners : Lives(listener[j], listener'[j])
    \* Who waits, as the queue lemmas put it.
    <3>WaitingMeets. ASSUME NEW l, NEW a
                     PROVE  a \in Waiting(l) <=> Meets(l.waiters, {a})
      BY <3>WaitingMeets DEF Waiting, Meets
    <3> USE <2>WaitLives
    <3> DEFINE l == listener[i]
               a == Head(l.strand).id
               p == Pop(l)
               w == [p EXCEPT !.waiters = Append(@, a)]
               v(k) == [p EXCEPT !.waiters = erase(@, k)]
    <3>0. /\ l \in Listener /\ Sound(l) /\ l.strand # << >>
          /\ Head(l.strand).op \in {"wait", "cancel_wait"}
      BY DEF Ordered, wait_on_strand, cancel_wait, Handler
    <3>1. /\ p \in Listener /\ Sound(p) /\ p.state = l.state
          /\ Outcome(p) = Outcome(l) /\ Waiting(p) = Waiting(l)
      BY <3>0, Pops, <2>RecordsLive, Zenon
    <3>2. a \in Waits /\ a \in Operation
      BY <3>0, Pops, HandlerKinds DEF Operation
    <3>3. \/ \E h : listener' = [listener EXCEPT ![i] = post(p, h)]
          \/ listener' = [listener EXCEPT ![i] = p]
          \/ p.state # "stopped" /\ listener' = [listener EXCEPT ![i] = w]
          \/ \E k \in DOMAIN p.waiters : \E h :
               p.waiters[k] = a /\ listener' = [listener EXCEPT ![i] = post(v(k), h)]
      BY Zenon DEF wait_on_strand, cancel_wait, popped, Pop
    <3> HIDE DEF l, a, p
    <3>4. Lives(l, p) /\ \A h : Lives(l, post(p, h))
      BY <3>1, <2>RecordsLive DEF Lives
    <3>5. p.state # "stopped" => Lives(l, w)
      <4>1. w.state = p.state /\ w.terminal_error = p.terminal_error
              /\ w.waiters = Append(p.waiters, a)
        BY <3>1 DEF Listener
      <4>2. p.waiters \in Seq(Waits)
        BY <3>1 DEF Listener
      <4> HIDE DEF w
      <4>3. \A b : b \in Waiting(w) <=> b \in Waiting(p) \/ b = a
        <5>1. \A b : Meets(w.waiters, {b}) <=> Meets(p.waiters, {b}) \/ a \in {b}
          BY <3>2, <4>1, <4>2, AppendMeets
        <5>2. QED
          BY <5>1, <3>WaitingMeets, Zenon
      <4>4. Waiting(w) = Waiting(l) \cup {a}
        BY <3>1, <4>3
      <4>5. Outcome(w) = Outcome(l)
        BY <3>1, <4>1 DEF Outcome
      <4>6. QED
        BY <3>1, <3>2, <4>1, <4>4, <4>5 DEF Lives
    <3>6. ASSUME NEW k \in DOMAIN p.waiters, p.waiters[k] = a, NEW h
          PROVE  Lives(l, post(v(k), h))
      <4> DEFINE u == v(k)
      <4>1. erase(p.waiters, k) \in Seq(Waits) /\ p.waiters \in Seq(Waits)
        BY <3>1, EraseMeets DEF Listener
      <4>2. /\ u \in Listener /\ u.state = p.state /\ u.terminal_error = p.terminal_error
            /\ u.waiters = erase(p.waiters, k)
        BY <3>1, <4>1 DEF Listener
      <4> HIDE DEF u
      <4>3. \A b : /\ Meets(p.waiters, {b}) <=> Meets(u.waiters, {b}) \/ a \in {b}
                   /\ MeetsOnce(p.waiters, {b}) => ~(Meets(u.waiters, {b}) /\ a \in {b})
        BY <3>6, <4>1, <4>2, EraseMeets
      <4>4. MeetsOnce(p.waiters, {a})
        BY <3>1, <3>2 DEF Sound, Once
      <4>5. \A b : b \in Waiting(p) <=> b \in Waiting(u) \/ b = a
        BY <4>3, <3>WaitingMeets, Zenon
      <4>6. a \notin Waiting(u)
        BY <4>3, <4>4, <3>WaitingMeets
      <4>7. Waiting(u) = Waiting(l) \ {a} /\ Outcome(u) = Outcome(l)
        BY <3>1, <4>2, <4>5, <4>6 DEF Outcome
      <4>8. Lives(l, post(u, h))
        BY <3>1, <3>2, <4>2, <4>7, <2>RecordsLive DEF Lives
      <4>9. QED
        BY <4>8 DEF u
    <3> HIDE DEF w, v
    <3>7. QED
      BY <3>3, <3>4, <3>5, <3>6, <2>OneLives DEF Ordered, l
  \* Every other step of the strand, and the posts of the other threads.
  <2>OthersLive. ASSUME Ordered, NEW i \in Listeners, NEW m, listener' = [listener EXCEPT ![i] = m],
                        m.state = listener[i].state, m.terminal_error = listener[i].terminal_error,
                        m.waiters = listener[i].waiters
                 PROVE  \A j \in Listeners : Lives(listener[j], listener'[j])
    <3> USE <2>OthersLive
    <3>1. Lives(listener[i], m)
      BY DEF Lives, Outcome, Waiting
    <3>2. QED
      BY <3>1, <2>OneLives, Zenon DEF Ordered
  \* stop_on_strand, failures and drains are steps of the lifecycle.
  <2>StopLives. ASSUME Ordered, NEW i \in Listeners,
                       stop_on_strand(i) \/ runtime_failure(i) \/ drains(i)
                PROVE  \A j \in Listeners : Lives(listener[j], listener'[j])
    <3> USE <2>StopLives
    <3> DEFINE l == listener[i]
               p == Pop(l)
    <3>0. l \in Listener /\ Sound(l) /\ "ok" \in Error /\ l.terminal_error \in Error
      BY Zenon DEF Ordered, Error, Listener
    <3>1. CASE stop_on_strand(i)
      <4>0. /\ p \in Listener /\ p.state = l.state
            /\ Outcome(p) = Outcome(l) /\ Waiting(p) = Waiting(l)
        BY <3>0, <3>1, Pops, <2>RecordsLive DEF stop_on_strand, Handler
      <4>1. CASE p.state = "idle"
        <5>1. listener' = [listener EXCEPT ![i] = finish(p, "ok")]
          BY <3>1, <4>1, Zenon DEF stop_on_strand, popped, Pop
        <5> HIDE DEF p
        <5>2. Lives(l, finish(p, "ok"))
          BY <3>0, <4>0, <4>1, <2>RecordsLive, Zenon DEF Lives, Outcome
        <5>3. QED
          BY <5>1, <5>2, <2>OneLives, Zenon DEF Ordered
      <4>2. CASE p.state = "running"
        <5> DEFINE q == [p EXCEPT !.state = "stopping"]
        <5>1. listener' = [listener EXCEPT ![i] = q]
          BY <3>1, <4>2 DEF stop_on_strand, popped, Pop
        <5>2. q.state = "stopping" /\ q.waiters = p.waiters
          BY <4>0 DEF Listener
        <5> HIDE DEF p, q
        <5>3. Lives(l, q)
          BY <4>0, <4>2, <5>2, Zenon DEF Lives, Waiting
        <5>4. QED
          BY <5>1, <5>3, <2>OneLives, Zenon DEF Ordered
      <4>3. CASE p.state \notin {"idle", "running"}
        <5>1. listener' = [listener EXCEPT ![i] = p]
          BY <3>1, <4>3, Zenon DEF stop_on_strand, popped, Pop
        <5>2. Lives(l, p)
          BY <4>0, Zenon DEF Lives
        <5>3. QED
          BY <5>1, <5>2, <2>OneLives, Zenon DEF Ordered
      <4>4. QED
        BY <4>1, <4>2, <4>3
    <3>2. CASE runtime_failure(i)
      <4> DEFINE q == [l EXCEPT !.state = "stopping", !.terminal_error = "failed"]
      <4>1. listener' = [listener EXCEPT ![i] = q] /\ l.state = "running"
        BY <3>2, Zenon DEF runtime_failure, Ordered
      <4>2. q.state = "stopping" /\ q.waiters = l.waiters
        BY <3>0 DEF Listener
      <4>3. Lives(l, q)
        BY <4>1, <4>2 DEF Lives, Waiting
      <4>4. QED
        BY <4>1, <4>3, <2>OneLives, Zenon DEF Ordered
    <3>3. CASE drains(i)
      <4>1. /\ listener' = [listener EXCEPT ![i] = finish(l, l.terminal_error)]
            /\ l.state = "stopping"
        BY <3>3 DEF drains, Ordered
      <4>2. Lives(l, finish(l, l.terminal_error))
        BY <3>0, <4>1, <2>RecordsLive, Zenon DEF Lives, Outcome
      <4>3. QED
        BY <4>1, <4>2, <2>OneLives, Zenon DEF Ordered
    <3>4. QED
      BY <3>1, <3>2, <3>3
  <2> USE <1>AllLive
  <2>1. CASE listener' = listener
    BY <2>1 DEF Lives
  <2>2. ASSUME NEW i \in Listeners, NEW s, listener' = [listener EXCEPT ![i].strand = s]
        PROVE  \A j \in Listeners : Lives(listener[j], listener'[j])
    <3> DEFINE m == [listener[i] EXCEPT !.strand = s]
    <3>1. listener' = [listener EXCEPT ![i] = m]
      BY <2>2 DEF Ordered
    <3>2. /\ m.state = listener[i].state /\ m.terminal_error = listener[i].terminal_error
          /\ m.waiters = listener[i].waiters
      BY DEF Ordered, Listener
    <3> HIDE DEF m
    <3>3. QED
      BY <3>1, <3>2, <2>OthersLive, Zenon
  <2>3. ASSUME NEW a \in Operation, snapshot(a) \/ cancel(a) \/ CallStep(a) \/ cancel_emits(a)
        PROVE  \/ listener' = listener
               \/ \E i \in Listeners : \E s : listener' = [listener EXCEPT ![i].strand = s]
    <3>0. group[a] \in Group /\ Book(group[a], Holders(a), Enders(a))
      BY DEF Ordered
    <3>1. CASE submit(a)
      <4>1. group[a].at \in Listeners
        BY <3>0, <3>1, SubmitBook, Zenon DEF submit
      <4>2. QED
        BY <3>1, <4>1, Zenon DEF submit
    <3>2. ASSUME NEW i \in Listeners, NEW g, emit(a, i, g)
          PROVE  \/ listener' = listener
                 \/ \E s : listener' = [listener EXCEPT ![i].strand = s]
      BY <3>2, Zenon DEF emit
    <3>3. CASE submit_checks(a)
      <4>1. group[a].at \in Listeners
        BY <3>0, <3>3, ChecksBook DEF submit_checks
      <4>2. QED
        BY <3>2, <3>3, <4>1 DEF submit_checks
    <3>4. CASE cancel_emits(a)
      <4>1. group[a].emit \in Listeners
        BY <3>0, <3>4, ServerAssumption DEF cancel_emits, Group, Listeners
      <4>2. QED
        BY <3>2, <3>4, <4>1 DEF cancel_emits
    <3>5. QED
      BY <2>3, <3>1, <3>3, <3>4, Zenon DEF CallStep, snapshot, cancel, start_begins, start_rejected,
         submit_throws, initiation_one, initiation_done, caller_completes, stop_if_requested
  <2>4. ASSUME NEW c \in Caller, LoopStep(c)
        PROVE  \/ listener' = listener
               \/ \E i \in Listeners : \E s : listener' = [listener EXCEPT ![i].strand = s]
    <3>1. CASE loop_check(c)
      BY <3>1 DEF loop_check
    <3>2. CASE loop_post(c)
      <4>1. loop[c].done + 1 \in Listeners
        BY <3>2, LoopTypes, Zenon DEF Threads, loop_post, Looping
      <4>2. QED
        BY <3>2, <4>1, Zenon DEF loop_post
    <3>3. QED
      BY <2>4, <3>1, <3>2 DEF LoopStep
  <2>5. ASSUME NEW i \in Listeners, one(i) \/ one_completes(i)
        PROVE  \E s : listener' = [listener EXCEPT ![i].strand = s]
    BY <2>5, Zenon DEF one, one_completes, popped, Ordered
  <2>6. ASSUME \/ \E t \in Stoppers : server_request_stop(t) \/ server_request_stop_returns(t)
               \/ add_listener
        PROVE  listener' = listener
    BY <2>6 DEF server_request_stop, server_request_stop_returns, add_listener
  <2>7. QED
    BY <2>1, <2>2, <2>3, <2>4, <2>5, <2>6, <2>StartLives, <2>WaitLives, <2>StopLives
       DEF Next, Progress, StrandStep
<1>1. IInv /\ [Next]_vars =>
        [\A i \in Listeners : [Lifecycle(i)!Next]_(Lifecycle(i)!lifecycle)]_listener
  <2>1. ASSUME IInv, Next, NEW i \in Listeners
        PROVE  [Lifecycle(i)!Next]_(Lifecycle(i)!lifecycle)
    BY <2>1, <1>AllLive, <1>LivesIsStep DEF IInv
  <2>2. QED
    BY <2>1 DEF vars
<1>2. QED
  BY <1>1, ServerInvariant, PTL DEF Spec, ListenersKeepLifecycle

-----------------------------------------------------------------------------
(* What a step does to a call that nobody cancels *)

\* Listener l has a handler of this kind to run, or an error to report.
Asks(l, op) == Meets(l.strand, {h \in Task : h.op = op})
Warns(l)    == Meets(l.strand, {h \in Task : h.op = "one" /\ h.ec # "ok"})

\* A call has reported an error, or will.
Troubled(g) ==
  \/ g.first_ec # "ok" \/ g.initiation # {}
  \/ g.completions # << >> /\ Head(g.completions) # "ok"

\* No call is cancelled.
Uncancelled ==
  /\ \A a \in Operation : ~group[a].cancelled /\ group[a].emit = 0 /\ group[a].flagged = {}
  /\ \A i \in Listeners : ~Asks(listener[i], "cancel_wait")

\* A call that completed has nothing ahead, no failed submission and no child.
LEMMA DoneIsDone ==
  ASSUME IInv, NEW a \in Operation, group[a].completions # << >>
  PROVE  /\ group[a].pc \notin {"new", "snapshot", "submit", "completes"}
         /\ Ahead(group[a]) = {} /\ group[a].initiation = {} /\ Holders(a) = {}
         /\ Enders(a) = {}
<1> DEFINE g == group[a]
           H == Holders(a)
<1>1. g \in Group /\ Placed(g) /\ Counted(g, H) /\ Concluded(g, Enders(a))
  BY DEF IInv, Ordered, Book
<1>2. g.pc # "new" /\ ~Pends(g) /\ g.pc # "completes" /\ Enders(a) = {}
  BY <1>1, Zenon DEF Placed, Concluded
<1> HIDE DEF g, H
<1>3. g.remaining \in Nat /\ g.size \in Nat /\ g.at \in Nat
  BY <1>1, ServerAssumption DEF Group
<1>4. Ahead(g) = {} /\ g.initiation = {} /\ H = {}
  <2>1. CASE g.rejected
    BY <1>1, <2>1, AheadOf, Zenon DEF Placed, Counted
  <2>2. CASE ~g.rejected
    <3>1. g.size # 0 => g.remaining = 0
      BY <1>2, <1>3, <2>2 DEF Pends
    <3>2. Pending(g, H) \subseteq 1..g.size /\ (g.remaining = 0 <=> Pending(g, H) = {})
      BY <1>1, <2>2, PendingSized, Zenon
    <3>3. Pending(g, H) = {}
      BY <1>3, <3>1, <3>2
    <3>4. QED
      BY <3>3 DEF Pending
  <2>3. QED
    BY <2>1, <2>2
<1>5. g.pc \notin {"snapshot", "submit"}
  <2>1. g.pc = "snapshot" => g.size # 0 /\ Ahead(g) = 1..g.size
    BY <1>2, AheadOf, Zenon DEF Pends
  <2>2. g.pc = "submit" => g.at <= g.size /\ Ahead(g) = g.at..g.size
    BY <1>1, AheadOf, Zenon DEF Placed
  <2>3. QED
    BY <1>3, <1>4, <2>1, <2>2
<1>6. QED
  BY <1>2, <1>4, <1>5, Zenon DEF g, H

\* The first handler taken.
LEMMA Taking ==
  ASSUME NEW l \in Listener, l.strand # << >>
  PROVE  LET m == Pop(l)
             h == Head(l.strand)
         IN  /\ h \in Task /\ m \in Listener /\ m.strand = Tail(l.strand)
             /\ \A op : Asks(l, op) <=> Asks(m, op) \/ h.op = op
             /\ Warns(l) <=> Warns(m) \/ (h.op = "one" /\ h.ec # "ok")
             /\ m.state = l.state /\ m.terminal_error = l.terminal_error
             /\ m.waiters = l.waiters
<1> DEFINE m == Pop(l)
           h == Head(l.strand)
<1>1. l.strand \in Seq(Task)
  BY DEF Listener
<1>2. /\ m \in Listener /\ m.strand = Tail(l.strand) /\ m.state = l.state
      /\ m.terminal_error = l.terminal_error /\ m.waiters = l.waiters
  BY DEF Pop, Listener
<1>3. h \in Task /\ \A X : Meets(l.strand, X) <=> Meets(m.strand, X) \/ h \in X
  BY <1>1, <1>2, TailMeets
<1> HIDE DEF m, h
<1>4. QED
  BY <1>2, <1>3, Zenon DEF Asks, Warns, m, h

\* From l to m no error is lost, and the handlers of these kinds are the same.
Keeps(l, m, ops) ==
  /\ m \in Listener /\ (Warns(l) => Warns(m))
  /\ \A op \in ops : Asks(m, op) <=> Asks(l, op)

\* What the server sees of the listener besides its strand.
Same(l, m) ==
  m.state = l.state /\ m.terminal_error = l.terminal_error /\ m.waiters = l.waiters

\* The handler at the head of a strand.
LEMMA HeadOf ==
  ASSUME IInv, NEW i \in Listeners, NEW op, Handler(i, op)
  PROVE  LET l == listener[i]
             h == Head(l.strand)
         IN  /\ l \in Listener /\ l.strand # << >> /\ h \in Task /\ h.op = op
             /\ popped(i) = Pop(l) /\ Asks(l, op)
             /\ group \in [Operation -> Group]
<1>1. listener[i] \in Listener /\ listener[i].strand # << >> /\ Head(listener[i].strand).op = op
  BY DEF IInv, Ordered, Handler
<1>2. QED
  BY <1>1, Taking, Zenon DEF popped, Pop, IInv, Ordered

\* From g to m: nothing is cancelled, the snapshot is taken once, an error stays,
\* and the call completes once, with an error if there was one.
Moves(g, m) ==
  /\ ~m.cancelled /\ m.emit = 0 /\ m.flagged = {}
  /\ g.pc # "new" => m.pc # "new" /\ m.size = g.size
  /\ g.pc = "new" /\ m.pc # "new" => m.size = registered
  /\ g.first_ec # "ok" => m.first_ec # "ok"
  /\ g.initiation # {} => m.initiation # {} \/ m.first_ec # "ok"
  /\ IF m.completions = g.completions
     THEN g.completions # << >> => m.first_ec = g.first_ec
     ELSE /\ g.completions = << >> /\ m.first_ec = g.first_ec
          /\ \E ec : m.completions = <<ec>> /\ (ec = "ok" => g.first_ec = "ok")

\* The same children are still to be submitted.
Still(g, m) == Ahead(m) = Ahead(g) /\ (m.pc = "new" <=> g.pc = "new")

\* The group of a call that is not cancelled.
LEMMA GroupOf ==
  ASSUME IInv, Uncancelled, NEW a \in Operation
  PROVE  LET g == group[a]
         IN  /\ g \in Group /\ Placed(g) /\ Counted(g, Holders(a)) /\ group \in [Operation -> Group]
             /\ ~g.cancelled /\ g.emit = 0 /\ g.flagged = {}
             /\ g.size \in 0..N /\ g.size \in Nat /\ g.at \in Nat \ {0}
             /\ registered \in 0..N /\ registered \in Nat
<1>1. group[a] \in Group /\ registered \in 0..N
  BY DEF IInv, Ordered, Threads
<1>2. /\ group[a].size \in 0..N /\ group[a].size \in Nat /\ group[a].at \in Nat \ {0}
      /\ registered \in Nat
  BY <1>1, ServerAssumption DEF Group
<1>3. QED
  BY <1>1, <1>2, Zenon DEF IInv, Ordered, Book, Uncancelled

\* g at another place in the loop.
Place(g, at, pc) == [g EXCEPT !.at = at, !.pc = pc]

Placing(g, m, at, pc) ==
  /\ Moves(g, m) /\ m.at = at /\ m.pc = pc
  /\ m.size = g.size /\ m.completions = g.completions

\* Another place in the loop, and nothing else.
LEMMA PlaceMoves ==
  ASSUME IInv, Uncancelled, NEW a \in Operation, NEW at, NEW pc, pc # "new",
         group[a].pc # "new"
  PROVE  Placing(group[a], Place(group[a], at, pc), at, pc)
<1> DEFINE m == Place(group[a], at, pc)
<1>1. /\ m.at = at /\ m.pc = pc /\ m.size = group[a].size
      /\ m.first_ec = group[a].first_ec /\ m.initiation = group[a].initiation
      /\ m.completions = group[a].completions
      /\ m.cancelled = group[a].cancelled /\ m.emit = group[a].emit
      /\ m.flagged = group[a].flagged
  BY GroupOf DEF Group, Place
<1> HIDE DEF m
<1>2. Moves(group[a], m)
  BY <1>1, GroupOf, Zenon DEF Moves
<1>3. Placing(group[a], m, at, pc)
  BY <1>1, <1>2, Zenon DEF Placing
<1>4. QED
  BY <1>3, Zenon DEF m

\* snapshot.
LEMMA SnapshotMoves ==
  ASSUME IInv, Uncancelled, NEW a \in Operation, snapshot(a)
  PROVE  \E m : /\ group' = [group EXCEPT ![a] = m] /\ Moves(group[a], m)
                /\ m.pc # "new" /\ Ahead(m) = 1..registered
                /\ m.completions = group[a].completions
<1> DEFINE g == group[a]
           pc == IF a \in Starts THEN "snapshot"
                 ELSE IF registered = 0 THEN "completes" ELSE "submit"
           m == [g EXCEPT !.size = registered, !.remaining = registered, !.pc = pc]
<1>1. g.pc = "new" /\ group' = [group EXCEPT ![a] = m]
  BY Zenon DEF snapshot, IInv, Ordered
<1>2. /\ m.size = registered /\ m.pc = pc /\ m.at = g.at
      /\ m.first_ec = g.first_ec /\ m.initiation = g.initiation
      /\ m.completions = g.completions /\ m.cancelled = g.cancelled /\ m.emit = g.emit
      /\ m.flagged = g.flagged
  BY GroupOf DEF Group
<1> HIDE DEF m
<1>3. g.at = 1 /\ g.completions = << >>
  BY <1>1, GroupOf, Zenon DEF Placed
<1>4. Moves(g, m)
  BY <1>1, <1>2, <1>3, GroupOf, Zenon DEF Moves
<1>5. Ahead(m) = 1..registered
  <2>1. registered = 0 => 1..registered = {}
    OBVIOUS
  <2>2. QED
    BY <1>2, <1>3, <2>1, AheadOf, Zenon
<1>6. QED
  BY <1>1, <1>2, <1>4, <1>5, Zenon

\* The steps of the caller that leave the children alone.
LEMMA CallerMoves ==
  ASSUME IInv, Uncancelled, NEW a \in Operation,
         \/ start_begins(a) \/ submit_checks(a) \/ initiation_done(a) \/ stop_if_requested(a)
  PROVE  \E m : /\ group' = [group EXCEPT ![a] = m] /\ Moves(group[a], m) /\ Still(group[a], m)
                /\ m.completions = group[a].completions /\ listener' = listener
<1> DEFINE g == group[a]
           m(at, p) == Place(g, at, p)
<1>0. /\ g \in Group /\ Placed(g) /\ group \in [Operation -> Group]
      /\ g.size \in Nat /\ g.at \in Nat \ {0} /\ ~g.cancelled
  BY GroupOf, Zenon
<1>1. CASE start_begins(a)
  <2> DEFINE p == IF g.size = 0 THEN "completes" ELSE "submit"
  <2>1. g.pc = "snapshot" /\ group' = [group EXCEPT ![a] = m(g.at, p)] /\ listener' = listener
    BY <1>0, <1>1, Zenon DEF start_begins, Group, Place
  <2>2. Moves(g, m(g.at, p)) /\ m(g.at, p).at = g.at /\ m(g.at, p).pc = p
        /\ m(g.at, p).size = g.size /\ m(g.at, p).completions = g.completions
    <3>1. p # "new" /\ g.pc # "new"
      BY <2>1
    <3> HIDE DEF p
    <3>2. Placing(g, m(g.at, p), g.at, p)
      BY <3>1, PlaceMoves, Zenon
    <3>3. QED
      BY <3>2, Zenon DEF Placing
  <2>3. g.at = 1 /\ Ahead(g) = 1..g.size
    BY <1>0, <2>1, AheadOf DEF Placed
  <2> HIDE DEF m
  <2>4. Ahead(m(g.at, p)) = 1..g.size
    <3>1. g.size = 0 => 1..g.size = {}
      OBVIOUS
    <3>2. QED
      BY <2>2, <2>3, <3>1, AheadOf, Zenon
  <2>5. QED
    BY <2>1, <2>2, <2>3, <2>4, Zenon DEF Still
<1>2. CASE submit_checks(a)
  <2> DEFINE p == IF g.at = g.size THEN "initiation" ELSE "submit"
             n == g.at + 1
  <2>1. g.pc = "check" /\ group' = [group EXCEPT ![a] = m(n, p)] /\ listener' = listener
    BY <1>0, <1>2 DEF submit_checks, next_child, Place
  <2>2. Moves(g, m(n, p)) /\ m(n, p).at = n /\ m(n, p).pc = p
        /\ m(n, p).size = g.size /\ m(n, p).completions = g.completions
    <3>1. p # "new" /\ g.pc # "new"
      BY <2>1
    <3> HIDE DEF p, n
    <3>2. Placing(g, m(n, p), n, p)
      BY <3>1, PlaceMoves, Zenon
    <3>3. QED
      BY <3>2, Zenon DEF Placing
  <2>3. Ahead(g) = n..g.size
    BY <1>0, <2>1, AheadOf
  <2> HIDE DEF m
  <2>4. Ahead(m(n, p)) = n..g.size
    <3>1. g.at = g.size => n..g.size = {}
      BY <1>0
    <3>2. QED
      BY <2>2, <3>1, AheadOf, Zenon
  <2>5. QED
    BY <2>1, <2>2, <2>3, <2>4, Zenon DEF Still
<1>3. CASE initiation_done(a) \/ stop_if_requested(a)
  <2>1. PICK p \in {"stop", "returned"} :
          /\ g.pc \in {"initiation", "stop"} /\ group' = [group EXCEPT ![a] = m(g.at, p)]
          /\ listener' = listener
    BY <1>0, <1>3, Zenon DEF initiation_done, stop_if_requested, Group, Place
  <2>2. Moves(g, m(g.at, p)) /\ m(g.at, p).pc = p /\ m(g.at, p).completions = g.completions
    <3>1. p # "new" /\ g.pc # "new"
      BY <2>1
    <3>2. Placing(g, m(g.at, p), g.at, p)
      BY <3>1, PlaceMoves, Zenon
    <3>3. QED
      BY <3>2, Zenon DEF Placing
  <2> HIDE DEF m
  <2>3. Ahead(g) = {} /\ Ahead(m(g.at, p)) = {}
    BY <2>1, <2>2, AheadOf
  <2>4. QED
    BY <2>1, <2>2, <2>3, Zenon DEF Still
<1>4. QED
  BY <1>1, <1>2, <1>3

\* A start that is rejected is told so.
LEMMA RejectMoves ==
  ASSUME IInv, Uncancelled, NEW a \in Operation, start_rejected(a)
  PROVE  \E m : /\ group' = [group EXCEPT ![a] = m] /\ Moves(group[a], m) /\ Troubled(m)
                /\ m.pc # "new" /\ listener' = listener /\ group[a].pc = "snapshot"
<1> DEFINE g == group[a]
           m == [g EXCEPT !.pc = "returned", !.rejected = TRUE,
                          !.completions = Append(@, "aborted")]
<1>1. g.pc = "snapshot" /\ group' = [group EXCEPT ![a] = m] /\ listener' = listener
  BY Zenon DEF start_rejected, IInv, Ordered
<1>2. g.completions = << >>
  BY <1>1, DoneIsDone
<1>3. /\ m.size = g.size /\ m.pc = "returned" /\ m.first_ec = g.first_ec
      /\ m.initiation = g.initiation /\ m.completions = Append(g.completions, "aborted")
      /\ m.cancelled = g.cancelled /\ m.emit = g.emit /\ m.flagged = g.flagged
  BY GroupOf DEF Group
<1> HIDE DEF m
<1>4. m.completions = <<"aborted">> /\ m.completions # << >> /\ Head(m.completions) = "aborted"
  BY <1>2, <1>3
<1>5. Moves(g, m)
  <2>1. m.completions # g.completions
    BY <1>2, <1>4
  <2>2. \E ec : m.completions = <<ec>> /\ (ec = "ok" => g.first_ec = "ok")
    BY <1>4
  <2>3. QED
    BY <1>1, <1>2, <1>3, <2>1, <2>2, GroupOf, Zenon DEF Moves
<1>6. QED
  BY <1>1, <1>3, <1>4, <1>5, Zenon DEF Troubled

\* A child that is submitted leaves the loop for the strand.
LEMMA SubmitMoves ==
  ASSUME IInv, Uncancelled, NEW a \in Operation, submit(a)
  PROVE  \E m, j, h : 
           /\ group' = [group EXCEPT ![a] = m] /\ Moves(group[a], m)
           /\ m.pc # "new" /\ group[a].pc = "submit" /\ m.completions = group[a].completions
           /\ Ahead(group[a]) = Ahead(m) \cup {j}
           /\ j \in 1..group[a].size /\ j \in Listeners /\ h \in Task
           /\ h.op = (IF a \in Starts THEN "start" ELSE "wait")
           /\ listener' = [listener EXCEPT ![j] = post(listener[j], h)]
<1> DEFINE g == group[a]
           m == Place(g, g.at, "check")
           j == g.at
           h == [op |-> IF a \in Starts THEN "start" ELSE "wait", id |-> a]
<1>0. /\ g \in Group /\ Placed(g) /\ group \in [Operation -> Group]
      /\ g.size \in Nat /\ g.at \in Nat \ {0} /\ g.size \in 0..N
      /\ listener \in [Listeners -> Listener]
  BY GroupOf, Zenon DEF IInv, Ordered
<1>1. g.pc = "submit" /\ group' = [group EXCEPT ![a] = m]
  BY <1>0, Zenon DEF submit, Group, Place
<1>2. /\ Moves(g, m) /\ m.at = g.at /\ m.pc = "check" /\ m.size = g.size
      /\ m.completions = g.completions
  <2>1. g.pc # "new" /\ "check" # "new"
    BY <1>1
  <2>2. Placing(g, m, g.at, "check")
    BY <2>1, PlaceMoves, Zenon
  <2>3. QED
    BY <2>2, Zenon DEF Placing
<1> HIDE DEF m
<1>3. g.at <= g.size /\ Ahead(g) = g.at..g.size /\ Ahead(m) = (g.at + 1)..g.size
  BY <1>0, <1>1, <1>2, AheadOf, Zenon DEF Placed
<1>4. Ahead(g) = Ahead(m) \cup {j} /\ j \in 1..g.size /\ j \in Listeners
  BY <1>0, <1>3, ServerAssumption DEF Listeners
<1>5. h \in Task /\ h.op = IF a \in Starts THEN "start" ELSE "wait"
  BY ServerAssumption DEF Task, Operation
<1>6. listener' = [listener EXCEPT ![j] = post(listener[j], h)]
  BY <1>0, <1>4, Zenon DEF submit, post
<1>7. QED
  BY <1>1, <1>2, <1>4, <1>5, <1>6, Zenon

\* A submission that throws is remembered.
LEMMA ThrowMoves ==
  ASSUME IInv, Uncancelled, NEW a \in Operation, submit_throws(a)
  PROVE  \E m : /\ group' = [group EXCEPT ![a] = m] /\ Moves(group[a], m) /\ Troubled(m)
                /\ m.pc # "new" /\ m.completions = group[a].completions /\ listener' = listener
                /\ group[a].pc = "submit"
<1> DEFINE g == group[a]
           f == [g EXCEPT !.initiation = @ \cup {g.at}]
           m == next_child(f)
<1>1. g.pc = "submit" /\ group' = [group EXCEPT ![a] = m] /\ listener' = listener
  BY Zenon DEF submit_throws
<1>2. /\ m.size = g.size /\ m.pc # "new" /\ m.first_ec = g.first_ec
      /\ m.initiation = g.initiation \cup {g.at} /\ m.completions = g.completions
      /\ m.cancelled = g.cancelled /\ m.emit = g.emit /\ m.flagged = g.flagged
  <2>1. /\ f.size = g.size /\ f.first_ec = g.first_ec
        /\ f.initiation = g.initiation \cup {g.at} /\ f.completions = g.completions
        /\ f.cancelled = g.cancelled /\ f.emit = g.emit /\ f.flagged = g.flagged
        /\ DOMAIN f = DOMAIN g
    BY GroupOf DEF Group
  <2>2. DOMAIN g = {"pc", "size", "at", "remaining", "first_ec", "initiation", "cancelled",
                    "emit", "flagged", "rejected", "completions"}
    BY GroupOf, Zenon DEF Group
  <2> HIDE DEF f
  <2>3. QED
    BY <2>1, <2>2 DEF next_child
<1> HIDE DEF m
<1>3. m.initiation # {}
  BY <1>2
<1>4. QED
  BY <1>1, <1>2, <1>3, GroupOf, Zenon DEF Moves, Troubled

\* A child that is counted before the call completes.
LEMMA CountMoves ==
  ASSUME NEW g, NEW m, g.completions = << >>, ~g.cancelled, g.emit = 0, g.flagged = {},
         g.pc # "new", m.pc # "new",
         m.size = g.size, m.completions = g.completions, m.cancelled = g.cancelled,
         m.emit = g.emit, m.flagged = g.flagged,
         NEW ec, m.first_ec = IF g.first_ec = "ok" THEN ec ELSE g.first_ec,
         m.initiation = g.initiation \/ ec # "ok"
  PROVE  Moves(g, m) /\ (ec # "ok" => Troubled(m))
BY DEF Moves, Troubled

\* A submission that threw is counted as failed.
LEMMA InitiationMoves ==
  ASSUME IInv, Uncancelled, NEW a \in Operation, initiation_one(a)
  PROVE  \E m : /\ group' = [group EXCEPT ![a] = m] /\ Moves(group[a], m) /\ Troubled(m)
                /\ m.pc # "new" /\ m.completions = group[a].completions /\ listener' = listener
                /\ group[a].pc = "initiation"
<1> DEFINE g == group[a]
<1>1. PICK i \in g.initiation :
        LET f == counted([g EXCEPT !.initiation = @ \ {i}], "failed")
        IN  group' = [group EXCEPT ![a] = [f EXCEPT !.pc = IF f.remaining = 0 THEN "completes" ELSE @]]
  BY Zenon DEF initiation_one
<1> DEFINE e == [g EXCEPT !.initiation = @ \ {i}]
           f == counted(e, "failed")
           m == [f EXCEPT !.pc = IF f.remaining = 0 THEN "completes" ELSE @]
<1>2. group' = [group EXCEPT ![a] = m] /\ g.pc = "initiation" /\ listener' = listener
  BY <1>1, Zenon DEF initiation_one
<1>3. g.completions = << >>
  BY <1>1, DoneIsDone
<1>4. /\ e.size = g.size /\ e.pc = g.pc /\ e.first_ec = g.first_ec
      /\ e.completions = g.completions
      /\ e.cancelled = g.cancelled /\ e.emit = g.emit /\ e.flagged = g.flagged
      /\ DOMAIN e = DOMAIN g
  BY GroupOf DEF Group
<1>5. DOMAIN g = {"pc", "size", "at", "remaining", "first_ec", "initiation", "cancelled",
                  "emit", "flagged", "rejected", "completions"}
  BY GroupOf DEF Group
<1> HIDE DEF e
<1>6. /\ f.size = g.size /\ f.pc = g.pc
      /\ f.first_ec = (IF g.first_ec = "ok" THEN "failed" ELSE g.first_ec)
      /\ f.completions = g.completions
      /\ f.cancelled = g.cancelled /\ f.emit = g.emit /\ f.flagged = g.flagged
      /\ DOMAIN f = DOMAIN g
  BY <1>4, <1>5 DEF counted
<1> HIDE DEF f
<1>7. /\ m.size = g.size /\ m.pc # "new"
      /\ m.first_ec = (IF g.first_ec = "ok" THEN "failed" ELSE g.first_ec)
      /\ m.completions = g.completions
      /\ m.cancelled = g.cancelled /\ m.emit = g.emit /\ m.flagged = g.flagged
  BY <1>2, <1>5, <1>6
<1>8. Moves(g, m) /\ Troubled(m)
  <2> HIDE DEF m, g
  <2>1. ~g.cancelled /\ g.emit = 0 /\ g.flagged = {} /\ g.pc # "new"
    BY <1>2, GroupOf DEF g
  <2>2. QED
    BY <1>3, <1>7, <2>1, CountMoves, Zenon
<1> HIDE DEF m
<1>9. QED
  BY <1>2, <1>7, <1>8, Zenon

\* The call completes, with an error if there was one or if a stop overtook it.
LEMMA CompleteMoves ==
  ASSUME IInv, Uncancelled, NEW a \in Operation, complete(a),
         group[a].pc = "completes" \/ Enders(a) # {}
  PROVE  \E m, ec :
           /\ group' = [group EXCEPT ![a] = m] /\ Moves(group[a], m) /\ Still(group[a], m)
           /\ m.completions = <<ec>> /\ ec \in Error
           /\ a \in Starts /\ stop_requested(control) => ec # "ok"
           /\ stop_requested(control) => stop_requested(control')
<1> DEFINE g == group[a]
           r == IF a \in Starts THEN finish_start(control, g.first_ec)
                                ELSE finish_wait(control, g.first_ec)
           pc == IF g.pc # "completes" THEN g.pc
                 ELSE IF g.size = 0 THEN "returned" ELSE "initiation"
           m == [g EXCEPT !.completions = Append(@, r.ec), !.pc = pc]
<1>0. g \in Group /\ g.first_ec \in Error /\ control \in Controls
  BY GroupOf, Zenon DEF Group, IInv, Threads
<1>1. group' = [group EXCEPT ![a] = m]
  BY Zenon DEF complete, IInv, Ordered
<1>2. g.completions = << >> /\ g.pc # "new"
  <2>1. g.completions = << >>
    BY DoneIsDone
  <2>2. Concluded(g, Enders(a)) /\ Placed(g)
    BY DEF IInv, Ordered, Book
  <2>3. QED
    BY <2>1, <2>2 DEF Concluded, Placed
<1>3. r.ec \in Error /\ (r.ec = "ok" => g.first_ec = "ok")
  BY <1>0, ControlTypes, Zenon DEF finish_start, finish_wait
<1>4. /\ a \in Starts /\ stop_requested(control) => r.ec # "ok"
      /\ stop_requested(control) => stop_requested(control')
  <2>1. control' = r.control
    BY Zenon DEF complete
  <2>2. CASE a \in Starts
    <3>1. r = finish_start(control, g.first_ec)
      BY <2>2
    <3>2. stop_requested(control) => r.ec # "ok" /\ r.control = control
      BY <3>1 DEF finish_start, stop_requested, request_stop
    <3>3. QED
      BY <2>1, <3>2
  <2>3. CASE a \notin Starts
    <3>1. r = finish_wait(control, g.first_ec)
      BY <2>3
    <3>2. r.control.state = "stopped"
      BY <1>0, <3>1 DEF finish_wait, Controls
    <3>3. QED
      BY <2>1, <2>3, <3>2 DEF stop_requested
  <2>4. QED
    BY <2>2, <2>3
<1> HIDE DEF r
<1>5. /\ m.size = g.size /\ m.pc = pc /\ m.first_ec = g.first_ec /\ m.at = g.at
      /\ m.initiation = g.initiation /\ m.completions = Append(g.completions, r.ec)
      /\ m.cancelled = g.cancelled /\ m.emit = g.emit /\ m.flagged = g.flagged
  BY <1>0 DEF Group
<1> HIDE DEF m
<1>6. m.completions = <<r.ec>> /\ m.completions # g.completions
  BY <1>2, <1>5
<1>7. Moves(g, m)
  BY <1>2, <1>3, <1>5, <1>6, GroupOf, Zenon DEF Moves
<1>8. Still(g, m)
  <2>1. Ahead(m) = Ahead(g)
    <3>1. CASE g.pc = "completes"
      BY <1>5, <3>1, AheadOf, Zenon
    <3>2. CASE g.pc # "completes"
      BY <1>5, <3>2 DEF Ahead
    <3>3. QED
      BY <3>1, <3>2
  <2>2. QED
    BY <1>2, <1>5, <2>1 DEF Still
<1>9. QED
  BY <1>1, <1>3, <1>4, <1>6, <1>7, <1>8, Zenon

\* The handlers a program's listeners have besides the reports.
Requests == {"start", "wait", "stop", "cancel_wait"}

\* A child reports: an error leaves the strand for the call.
LEMMA OneRuns ==
  ASSUME IInv, Uncancelled, NEW i \in Listeners, one(i)
  PROVE  \E a \in Operation : \E m, n :
           /\ group' = [group EXCEPT ![a] = m] /\ Moves(group[a], m) /\ Still(group[a], m)
           /\ m.completions = group[a].completions
           /\ listener' = [listener EXCEPT ![i] = n] /\ Same(listener[i], n)
           /\ \A op \in Requests : Asks(n, op) <=> Asks(listener[i], op)
           /\ Warns(listener[i]) => Warns(n) \/ Troubled(m)
           /\ loop' = loop \/ Troubled(m)
<1>0. /\ listener[i] \in Listener /\ Sound(listener[i]) /\ listener[i].strand # << >>
      /\ Head(listener[i].strand).op = "one" /\ Head(listener[i].strand) \in Task
  BY HeadOf, Zenon DEF IInv, Ordered, one
<1>1. PICK a \in Operation : a = Head(listener[i].strand).id
  BY <1>0, HandlerKinds
<1> DEFINE l == listener[i]
           h == Head(l.strand)
           g == group[a]
           m == counted(g, h.ec)
           q == IF m.remaining = 0 THEN <<Completes(a)>> ELSE << >>
           n == [l EXCEPT !.strand = q \o Tail(@)]
<1>2. /\ group' = [group EXCEPT ![a] = m] /\ listener' = [listener EXCEPT ![i] = n]
      /\ loop' = loop \/ h.ec # "ok"
  BY <1>1, Zenon DEF one, IInv, Ordered, stops
<1>3. i \in Holders(a)
  BY <1>0, <1>1, Pops DEF Holders
<1>4. g.completions = << >> /\ g.pc # "new"
  <2>1. g.completions = << >>
    BY <1>3, DoneIsDone
  <2>2. g.size # 0
    BY <1>3, GroupOf DEF Counted
  <2>3. QED
    BY <2>1, <2>2, GroupOf DEF Placed
<1>5. /\ m.size = g.size /\ m.pc = g.pc /\ m.at = g.at
      /\ m.first_ec = (IF g.first_ec = "ok" THEN h.ec ELSE g.first_ec)
      /\ m.initiation = g.initiation /\ m.completions = g.completions
      /\ m.cancelled = g.cancelled /\ m.emit = g.emit /\ m.flagged = g.flagged
  BY GroupOf DEF Group, counted
<1>6. Moves(g, m) /\ (h.ec # "ok" => Troubled(m)) /\ Still(g, m)
  <2> HIDE DEF m, h
  <2>1. ~g.cancelled /\ g.emit = 0 /\ g.flagged = {}
    BY GroupOf
  <2>2. Ahead(m) = Ahead(g)
    BY <1>5 DEF Ahead
  <2> HIDE DEF g
  <2>3. QED
    BY <1>4, <1>5, <2>1, <2>2, CountMoves, Zenon DEF Still
<1>7. q \in Seq(Task) /\ \A X : Meets(q, X) => Completes(a) \in X
  <2>1. Completes(a) \in Task
    BY HandlersMade
  <2> HIDE DEF m
  <2>2. QED
    BY <2>1 DEF Meets
<1>8. l.strand \in Seq(Task) /\ Tail(l.strand) \in Seq(Task)
  BY <1>0 DEF Listener
<1>9. n.strand = q \o Tail(l.strand) /\ Same(l, n)
  BY <1>0, Zenon DEF Listener, Same
<1> HIDE DEF q, n, m
<1>10. \A X : Meets(n.strand, X) <=> Meets(q, X) \/ Meets(Tail(l.strand), X)
  <2> DEFINE t == Tail(l.strand)
  <2>1. q \in Seq(Task) /\ t \in Seq(Task) /\ n.strand = q \o t
    BY <1>7, <1>8, <1>9
  <2> HIDE DEF t
  <2>2. \A X : Meets(n.strand, X) <=> Meets(q, X) \/ Meets(t, X)
    BY <2>1, ConcatMeets
  <2>3. QED
    BY <2>2 DEF t
<1>11. \A X : Meets(l.strand, X) <=> Meets(Tail(l.strand), X) \/ h \in X
  BY <1>0, <1>8, TailMeets
<1>12. \A op \in Requests : Asks(n, op) <=> Asks(l, op)
  <2> SUFFICES ASSUME NEW op \in Requests PROVE Asks(n, op) <=> Asks(l, op)
    OBVIOUS
  <2>1. op # "one" /\ op # "completes"
    BY DEF Requests
  <2>2. Completes(a) \notin {x \in Task : x.op = op} /\ h \notin {x \in Task : x.op = op}
    BY <1>0, <2>1 DEF Completes
  <2> HIDE DEF l, h
  <2>3. QED
    BY <1>7, <1>10, <1>11, <2>2 DEF Asks
<1>13. Warns(l) => Warns(n) \/ Troubled(m)
  BY <1>6, <1>10, <1>11, Zenon DEF Warns
<1>14. loop' = loop \/ Troubled(m)
  BY <1>2, <1>6
<1>15. QED
  BY <1>2, <1>5, <1>6, <1>9, <1>12, <1>13, <1>14, Zenon

\* The last child completes the call.
LEMMA OneEnds ==
  ASSUME IInv, Uncancelled, NEW i \in Listeners, one_completes(i)
  PROVE  \E a \in Operation : \E n :
           /\ complete(a) /\ Enders(a) # {}
           /\ listener' = [listener EXCEPT ![i] = n] /\ Same(listener[i], n)
           /\ Keeps(listener[i], n, Requests)
<1> DEFINE l == listener[i]
           h == Head(l.strand)
<1>0. /\ l \in Listener /\ Sound(l) /\ l.strand # << >> /\ h.op = "completes" /\ h \in Task
      /\ popped(i) = Pop(l)
  BY HeadOf, Zenon DEF IInv, Ordered, one_completes
<1>1. h.id \in Operation /\ h.id \in Ends(l)
  BY <1>0, HandlerKinds, Pops
<1>2. complete(h.id) /\ listener' = [listener EXCEPT ![i] = Pop(l)]
  BY <1>0 DEF one_completes
<1>3. Enders(h.id) # {}
  BY <1>1 DEF Enders
<1>4. Same(l, Pop(l)) /\ Keeps(l, Pop(l), Requests)
  BY <1>0, Taking, Zenon DEF Same, Keeps, Requests
<1>5. QED
  BY <1>1, <1>2, <1>3, <1>4, Zenon

=============================================================================
