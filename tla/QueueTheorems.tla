--------------------------- MODULE QueueTheorems ---------------------------
(***************************************************************************)
(* Facts about the queues of the models: which handlers are queued, and    *)
(* whether in one place only, as handlers are put at the end and taken off *)
(* the front.                                                              *)
(***************************************************************************)
EXTENDS Integers, Sequences, TLAPS

\* An element of X is in the sequence; in one place at most.
Meets(s, X)     == \E k \in DOMAIN s : s[k] \in X
MeetsOnce(s, X) == \A j, k \in DOMAIN s : s[j] \in X /\ s[k] \in X => j = k

\* An element at the end.
LEMMA AppendMeets ==
  ASSUME NEW S, NEW s \in Seq(S), NEW h \in S, NEW X
  PROVE  /\ Append(s, h) \in Seq(S)
         /\ Meets(Append(s, h), X) <=> Meets(s, X) \/ h \in X
         /\ MeetsOnce(s, X) /\ ~(Meets(s, X) /\ h \in X) => MeetsOnce(Append(s, h), X)
<1> DEFINE t == Append(s, h)
<1>1. /\ t \in Seq(S) /\ Len(s) \in Nat /\ DOMAIN s = 1..Len(s) /\ DOMAIN t = 1..(Len(s) + 1)
      /\ \A k \in 1..Len(s) : t[k] = s[k]
      /\ t[Len(s) + 1] = h
  OBVIOUS
<1> HIDE DEF t
<1>2. Meets(t, X) <=> Meets(s, X) \/ h \in X
  <2>1. ASSUME Meets(t, X) PROVE Meets(s, X) \/ h \in X
    <3>1. PICK k \in 1..(Len(s) + 1) : t[k] \in X
      BY <1>1, <2>1 DEF Meets
    <3>2. k \in 1..Len(s) \/ k = Len(s) + 1
      BY <1>1, <3>1
    <3>3. QED
      BY <1>1, <3>1, <3>2 DEF Meets
  <2>2. ASSUME Meets(s, X) PROVE Meets(t, X)
    <3>1. PICK k \in 1..Len(s) : s[k] \in X
      BY <1>1, <2>2 DEF Meets
    <3>2. k \in 1..(Len(s) + 1) /\ t[k] \in X
      BY <1>1, <3>1
    <3>3. QED
      BY <1>1, <3>2 DEF Meets
  <2>3. ASSUME h \in X PROVE Meets(t, X)
    BY <1>1, <2>3 DEF Meets
  <2>4. QED
    BY <2>1, <2>2, <2>3
<1>3. ASSUME MeetsOnce(s, X), ~(Meets(s, X) /\ h \in X) PROVE MeetsOnce(t, X)
  <2> SUFFICES ASSUME NEW j \in 1..(Len(s) + 1), NEW k \in 1..(Len(s) + 1), t[j] \in X, t[k] \in X
               PROVE  j = k
    BY <1>1 DEF MeetsOnce
  <2>1. (j \in 1..Len(s) \/ j = Len(s) + 1) /\ (k \in 1..Len(s) \/ k = Len(s) + 1)
    BY <1>1
  <2>2. CASE j \in 1..Len(s) /\ k \in 1..Len(s)
    BY <1>1, <1>3, <2>2 DEF MeetsOnce
  <2>3. CASE ~(j \in 1..Len(s) /\ k \in 1..Len(s))
    BY <1>1, <1>3, <2>1, <2>3 DEF Meets
  <2>4. QED
    BY <2>2, <2>3
<1>4. QED
  BY <1>1, <1>2, <1>3 DEF t

\* Without the first element.
LEMMA TailMeets ==
  ASSUME NEW S, NEW s \in Seq(S), s # << >>, NEW X
  PROVE  /\ Head(s) \in S /\ Tail(s) \in Seq(S)
         /\ Meets(s, X) <=> Meets(Tail(s), X) \/ Head(s) \in X
         /\ MeetsOnce(s, X) => MeetsOnce(Tail(s), X) /\ ~(Meets(Tail(s), X) /\ Head(s) \in X)
<1> DEFINE t == Tail(s)
<1>1. /\ t \in Seq(S) /\ Head(s) \in S /\ Len(s) \in Nat \ {0} /\ DOMAIN s = 1..Len(s)
      /\ DOMAIN t = 1..(Len(s) - 1) /\ Head(s) = s[1]
      /\ \A k \in 1..(Len(s) - 1) : t[k] = s[k + 1]
  OBVIOUS
<1> HIDE DEF t
<1>2. ASSUME Meets(s, X) PROVE Meets(t, X) \/ Head(s) \in X
  <2>1. PICK k \in 1..Len(s) : s[k] \in X
    BY <1>1, <1>2 DEF Meets
  <2>2. k = 1 \/ (k - 1 \in 1..(Len(s) - 1) /\ t[k - 1] = s[k])
    BY <1>1
  <2>3. QED
    BY <1>1, <2>1, <2>2 DEF Meets
<1>3. ASSUME Meets(t, X) \/ Head(s) \in X PROVE Meets(s, X)
  <2>1. ASSUME Meets(t, X) PROVE Meets(s, X)
    <3>1. PICK k \in 1..(Len(s) - 1) : t[k] \in X
      BY <1>1, <2>1 DEF Meets
    <3>2. k + 1 \in 1..Len(s) /\ s[k + 1] \in X
      BY <1>1, <3>1
    <3>3. QED
      BY <1>1, <3>2 DEF Meets
  <2>2. ASSUME Head(s) \in X PROVE Meets(s, X)
    <3>1. 1 \in 1..Len(s) /\ s[1] \in X
      BY <1>1, <2>2
    <3>2. QED
      BY <1>1, <3>1 DEF Meets
  <2>3. QED
    BY <1>3, <2>1, <2>2
<1>4. ASSUME MeetsOnce(s, X) PROVE MeetsOnce(t, X) /\ ~(Meets(t, X) /\ Head(s) \in X)
  <2>1. ASSUME NEW j \in 1..(Len(s) - 1), NEW k \in 1..(Len(s) - 1), t[j] \in X, t[k] \in X
        PROVE  j = k
    <3>1. j + 1 \in 1..Len(s) /\ k + 1 \in 1..Len(s) /\ s[j + 1] \in X /\ s[k + 1] \in X
      BY <1>1, <2>1
    <3>2. j + 1 = k + 1
      BY <1>1, <1>4, <3>1, Zenon DEF MeetsOnce
    <3>3. QED
      BY <3>2
  <2>2. ASSUME NEW k \in 1..(Len(s) - 1), t[k] \in X, Head(s) \in X
        PROVE  FALSE
    <3>1. k + 1 \in 1..Len(s) /\ 1 \in 1..Len(s) /\ s[k + 1] \in X /\ s[1] \in X
      BY <1>1, <2>2
    <3>2. k + 1 = 1
      BY <1>1, <1>4, <3>1 DEF MeetsOnce
    <3>3. QED
      BY <3>2
  <2>3. QED
    BY <1>1, <2>1, <2>2 DEF Meets, MeetsOnce
<1>5. QED
  BY <1>1, <1>2, <1>3, <1>4 DEF t

\* Two sequences in a row.
LEMMA ConcatMeets ==
  ASSUME NEW S, NEW s \in Seq(S), NEW t \in Seq(S), NEW X
  PROVE  /\ s \o t \in Seq(S)
         /\ Meets(s \o t, X) <=> Meets(s, X) \/ Meets(t, X)
         /\ MeetsOnce(s, X) /\ MeetsOnce(t, X) /\ ~(Meets(s, X) /\ Meets(t, X))
              => MeetsOnce(s \o t, X)
<1> DEFINE u == s \o t
<1>1. /\ u \in Seq(S) /\ Len(s) \in Nat /\ Len(t) \in Nat
      /\ DOMAIN s = 1..Len(s) /\ DOMAIN t = 1..Len(t) /\ DOMAIN u = 1..(Len(s) + Len(t))
      /\ \A k \in 1..(Len(s) + Len(t)) : u[k] = IF k <= Len(s) THEN s[k] ELSE t[k - Len(s)]
  OBVIOUS
<1> HIDE DEF u
<1>2. ASSUME Meets(u, X) PROVE Meets(s, X) \/ Meets(t, X)
  <2>1. PICK k \in 1..(Len(s) + Len(t)) : u[k] \in X
    BY <1>1, <1>2 DEF Meets
  <2>2. \/ k \in 1..Len(s) /\ s[k] \in X
        \/ k - Len(s) \in 1..Len(t) /\ t[k - Len(s)] \in X
    BY <1>1, <2>1
  <2>3. QED
    BY <1>1, <2>2, Zenon DEF Meets
<1>3. ASSUME Meets(s, X) PROVE Meets(u, X)
  BY <1>1, <1>3 DEF Meets
<1>4. ASSUME Meets(t, X) PROVE Meets(u, X)
  <2>1. PICK k \in 1..Len(t) : t[k] \in X
    BY <1>1, <1>4 DEF Meets
  <2>2. /\ Len(s) + k \in 1..(Len(s) + Len(t)) /\ ~(Len(s) + k <= Len(s))
        /\ (Len(s) + k) - Len(s) = k
    BY <1>1
  <2>3. u[Len(s) + k] = t[k]
    BY <1>1, <2>2
  <2>4. QED
    BY <1>1, <2>1, <2>2, <2>3 DEF Meets
<1>5. ASSUME MeetsOnce(s, X), MeetsOnce(t, X), ~(Meets(s, X) /\ Meets(t, X))
      PROVE  MeetsOnce(u, X)
  <2> SUFFICES ASSUME NEW j \in 1..(Len(s) + Len(t)), NEW k \in 1..(Len(s) + Len(t)),
                      u[j] \in X, u[k] \in X
               PROVE  j = k
    BY <1>1 DEF MeetsOnce
  <2>1. /\ \/ j \in 1..Len(s) /\ s[j] \in X
           \/ j - Len(s) \in 1..Len(t) /\ t[j - Len(s)] \in X
        /\ \/ k \in 1..Len(s) /\ s[k] \in X
           \/ k - Len(s) \in 1..Len(t) /\ t[k - Len(s)] \in X
    BY <1>1
  <2>2. CASE j \in 1..Len(s) /\ s[j] \in X /\ k \in 1..Len(s) /\ s[k] \in X
    BY <1>1, <1>5, <2>2, Zenon DEF MeetsOnce
  <2>3. CASE /\ j - Len(s) \in 1..Len(t) /\ t[j - Len(s)] \in X
             /\ k - Len(s) \in 1..Len(t) /\ t[k - Len(s)] \in X
    <3>1. j - Len(s) = k - Len(s)
      BY <1>1, <1>5, <2>3, Zenon DEF MeetsOnce
    <3>2. QED
      BY <1>1, <3>1
  <2>4. QED
    BY <1>1, <1>5, <2>1, <2>2, <2>3, Zenon DEF Meets
<1>6. QED
  BY <1>1, <1>2, <1>3, <1>4, <1>5 DEF u

\* Elements of X come first only.
FirstOnly(s, X) == \A k \in DOMAIN s : s[k] \in X => k = 1

\* How sequences whose X comes first are made, and what is left of one.
LEMMA FirstOnlyKept ==
  ASSUME NEW S, NEW s \in Seq(S), NEW X
  PROVE  /\ ~Meets(s, X) => FirstOnly(s, X)
         /\ \A h \in S : FirstOnly(s, X) /\ h \notin X => FirstOnly(Append(s, h), X)
         /\ \A t \in Seq(S) : FirstOnly(s, X) /\ ~Meets(t, X) => FirstOnly(s \o t, X)
         /\ s # << >> /\ FirstOnly(s, X) => ~Meets(Tail(s), X)
<1>0. Len(s) \in Nat /\ DOMAIN s = 1..Len(s)
  OBVIOUS
<1>1. ~Meets(s, X) => FirstOnly(s, X)
  BY DEF Meets, FirstOnly
<1>2. ASSUME NEW h \in S, FirstOnly(s, X), h \notin X PROVE FirstOnly(Append(s, h), X)
  <2>1. /\ DOMAIN Append(s, h) = 1..(Len(s) + 1)
        /\ \A k \in 1..(Len(s) + 1) : Append(s, h)[k] = IF k <= Len(s) THEN s[k] ELSE h
    BY <1>0
  <2>2. QED
    BY <1>0, <1>2, <2>1 DEF FirstOnly
<1>3. ASSUME NEW t \in Seq(S), FirstOnly(s, X), ~Meets(t, X) PROVE FirstOnly(s \o t, X)
  <2>1. /\ DOMAIN (s \o t) = 1..(Len(s) + Len(t)) /\ Len(t) \in Nat /\ DOMAIN t = 1..Len(t)
        /\ \A k \in 1..(Len(s) + Len(t)) :
             (s \o t)[k] = IF k <= Len(s) THEN s[k] ELSE t[k - Len(s)]
    BY <1>0
  <2>2. QED
    BY <1>0, <1>3, <2>1 DEF FirstOnly, Meets
<1>4. ASSUME s # << >>, FirstOnly(s, X) PROVE ~Meets(Tail(s), X)
  <2>1. /\ DOMAIN Tail(s) = 1..(Len(s) - 1)
        /\ \A k \in 1..(Len(s) - 1) : Tail(s)[k] = s[k + 1]
    BY <1>0, <1>4
  <2>2. QED
    BY <1>0, <1>4, <2>1 DEF FirstOnly, Meets
<1>5. QED
  BY <1>1, <1>2, <1>3, <1>4

\* A sequence of one element.
LEMMA SingleMeets ==
  ASSUME NEW S, NEW h \in S, NEW X
  PROVE  /\ <<h>> \in Seq(S) /\ MeetsOnce(<<h>>, X) /\ FirstOnly(<<h>>, X)
         /\ Meets(<<h>>, X) <=> h \in X
BY DEF Meets, MeetsOnce, FirstOnly

\* The empty sequence.
LEMMA EmptyMeets ==
  ASSUME NEW S, NEW X
  PROVE  << >> \in Seq(S) /\ ~Meets(<< >>, X) /\ MeetsOnce(<< >>, X) /\ FirstOnly(<< >>, X)
BY DEF Meets, MeetsOnce, FirstOnly

=============================================================================
