-------------------------- MODULE DockerEventsProofs --------------------------
(***************************************************************************)
(* Theorems about DockerEvents: the cursor, which is coarser than the      *)
(* events it counts, skips none of them, and the memory of the events of   *)
(* its second keeps them from being handed on twice.                       *)
(***************************************************************************)
EXTENDS DockerEvents, FiniteSetTheorems, SequenceTheorems, TLAPS

-----------------------------------------------------------------------------
\* Sets of numbers, and the sequences the events go through.

\* A set of the first numbers is the interval up to its size.
LEMMA InitialSegment ==
  ASSUME NEW n \in Nat, NEW S \in SUBSET (1..n),
         \A k \in S : 1..k \subseteq S
  PROVE  IsFiniteSet(S) /\ Cardinality(S) \in 0..n /\ S = 1..Cardinality(S)
<1> DEFINE c == Cardinality(S)
<1>1. IsFiniteSet(1..n) /\ Cardinality(1..n) = n
  BY FS_Interval
<1>2. IsFiniteSet(S) /\ c \in Nat /\ c <= n
  <2>1. IsFiniteSet(S) /\ c <= Cardinality(1..n)
    BY <1>1, FS_Subset
  <2> QED BY <1>1, <2>1, FS_CardinalityType
<1>3. IsFiniteSet(1..c) /\ Cardinality(1..c) = c
  BY <1>2, FS_Interval
<1>4. ASSUME NEW k \in S PROVE k \in 1..c
  <2>1. k \in Nat /\ k >= 1 /\ 1..k \subseteq S
    OBVIOUS
  <2>2. Cardinality(1..k) = k
    BY <2>1, FS_Interval
  <2>3. k <= c
    BY <1>2, <2>1, <2>2, FS_Subset
  <2> QED BY <1>2, <2>1, <2>3
<1> HIDE DEF c
<1>5. S \in SUBSET (1..c)
  BY <1>4
<1>6. S = 1..c
  BY <1>3, <1>5, FS_Subset DEF c
<1> QED BY <1>2, <1>6 DEF c

LEMMA Looser ==
  ASSUME NEW c \in Nat, NEW d \in Nat, NEW b \in Nat, NEW x \in Nat, NEW n \in Nat, c <= d + b + x, b <= n
  PROVE  c <= d + b + (x + n) /\ c <= d + 0 + (x + n)
OBVIOUS

LEMMA ConcatAppend ==
  ASSUME NEW S, NEW s \in Seq(S), NEW t \in Seq(S), NEW e \in S
  PROVE  s \o (t \o <<e>>) = Append(s \o t, e)
<1>1. <<e>> \in Seq(S)
  OBVIOUS
<1>2. (s \o t) \o <<e>> = s \o (t \o <<e>>)
  BY <1>1, ConcatAssociative
<1>3. s \o t \in Seq(S)
  BY ConcatProperties
<1>4. Append(s \o t, e) = (s \o t) \o <<e>>
  BY <1>3, AppendIsConcat
<1> QED BY <1>2, <1>4

\* Giving the first of a batch to the service keeps the events in hand as they are.
LEMMA MoveHead ==
  ASSUME NEW S, NEW s \in Seq(S), NEW q \in Seq(S), q # <<>>
  PROVE  Append(s, Head(q)) \o Tail(q) = s \o q
<1>1. /\ Head(q) \in S /\ Head(q) = q[1] /\ Tail(q) \in Seq(S) /\ Len(Tail(q)) = Len(q) - 1
      /\ \A i \in 1..(Len(q) - 1) : Tail(q)[i] = q[i + 1]
      /\ Len(q) \in Nat \ {0} /\ Len(s) \in Nat
  BY HeadTailProperties, EmptySeq, LenProperties
<1> DEFINE a == Append(s, Head(q))
           t == Tail(q)
<1>2. /\ a \in Seq(S) /\ Len(a) = Len(s) + 1 /\ a[Len(s) + 1] = q[1]
      /\ \A i \in 1..Len(s) : a[i] = s[i]
  BY <1>1, AppendProperties
<1>3. /\ t \in Seq(S) /\ Len(t) = Len(q) - 1
      /\ \A i \in 1..(Len(q) - 1) : t[i] = q[i + 1]
  BY <1>1
<1> HIDE DEF a, t
<1>4. /\ a \o t \in Seq(S) /\ Len(a \o t) = Len(a) + Len(t)
      /\ \A i \in 1..(Len(a) + Len(t)) : (a \o t)[i] = IF i <= Len(a) THEN a[i] ELSE t[i - Len(a)]
  BY <1>2, <1>3, ConcatProperties
<1>5. /\ s \o q \in Seq(S) /\ Len(s \o q) = Len(s) + Len(q)
      /\ \A i \in 1..(Len(s) + Len(q)) : (s \o q)[i] = IF i <= Len(s) THEN s[i] ELSE q[i - Len(s)]
  BY ConcatProperties
<1>6. Len(a \o t) = Len(s \o q) /\ Len(a \o t) = Len(s) + Len(q)
  BY <1>1, <1>2, <1>3, <1>4, <1>5
<1>7. ASSUME NEW i \in 1..(Len(s) + Len(q)) PROVE (a \o t)[i] = (s \o q)[i]
  <2>1. CASE i <= Len(s)
    BY <1>1, <1>2, <1>3, <1>4, <1>5, <2>1
  <2>2. CASE i = Len(s) + 1
    <3>1. i <= Len(a) /\ ~(i <= Len(s)) /\ i - Len(s) = 1 /\ i \in 1..(Len(a) + Len(t))
      BY <1>1, <1>2, <1>3, <2>2
    <3> QED BY <1>2, <1>4, <1>5, <2>2, <3>1
  <2>3. CASE i > Len(s) + 1
    <3>1. /\ ~(i <= Len(a)) /\ ~(i <= Len(s)) /\ i \in 1..(Len(a) + Len(t))
          /\ i - Len(a) \in 1..(Len(q) - 1) /\ (i - Len(a)) + 1 = i - Len(s)
      BY <1>1, <1>2, <1>3, <2>3
    <3>2. (a \o t)[i] = t[i - Len(a)] /\ t[i - Len(a)] = q[i - Len(s)] /\ (s \o q)[i] = q[i - Len(s)]
      BY <1>3, <1>4, <1>5, <3>1
    <3> QED BY <3>2
  <2>4. i <= Len(s) \/ i = Len(s) + 1 \/ i > Len(s) + 1
    <3>1. Len(s) \in Nat /\ Len(q) \in Nat
      BY <1>1
    <3> QED BY <3>1
  <2> QED BY <2>1, <2>2, <2>3, <2>4
<1>8. a \o t = s \o q
  BY <1>4, <1>5, <1>6, <1>7, SeqEqual
<1> QED BY <1>8 DEF a, t

-----------------------------------------------------------------------------
\* The invariant.

Typed ==
  /\ log \in Seq(1..MaxTime) /\ Len(log) <= MaxEvents /\ clock \in 1..MaxTime
  /\ since \in 1..clock /\ seen \subseteq 1..Len(log)
  /\ stream \in [passed : 0..Len(log), due : 0..Len(log), batch : Seq(Events)]
  /\ phase \in {"idle", "streaming", "emitting"}
  /\ queue \in Seq(Events) /\ emitted \in Seq(Events)
  /\ pruned \in BOOLEAN /\ lost \subseteq Events /\ faults \in 0..MaxFaults
  /\ \A k \in 1..Len(stream.batch) : stream.batch[k] <= stream.passed
  /\ phase # "streaming" => stream = NoStream
  /\ phase # "emitting" => queue = <<>>

\* The daemon's log is in the order of its seconds.
Ordered ==
  /\ \A j, k \in 1..Len(log) : j <= k => log[j] <= log[k]
  /\ \A k \in 1..Len(log) : log[k] <= clock

Bounded ==
  /\ Len(stream.batch) <= BatchCap
  /\ Cardinality(seen) <= MaxDedupe + Len(stream.batch) + faults * BatchCap

\* The events taken from a stream: those in hand or handed on, and those dropped.
Handled == Range(InHand) \cup lost

Increasing(s) == \A i, j \in 1..Len(s) : i < j => s[i] < s[j]

\* What is remembered, was passed over or is older than the cursor was taken.
Covered ==
  /\ seen \subseteq Handled
  /\ 1..stream.passed \subseteq Handled
  /\ \A k \in 1..Len(log) : log[k] < since => k \in Handled

\* Before the first pruning, what was taken is remembered, and the stream does
\* not run ahead of it.
Exact ==
  ~pruned =>
    \E m \in 0..Len(log) :
      seen = 1..m /\ Handled = 1..m /\ stream.passed <= m /\ Increasing(InHand)

IInv == Typed /\ Ordered /\ Bounded /\ Covered /\ Exact

LEMMA Typing ==
  ASSUME Typed
  PROVE  /\ Len(log) \in 0..MaxEvents /\ MaxEvents \in Nat
         /\ log \in [1..Len(log) -> 1..MaxTime] /\ DOMAIN log = 1..Len(log)
         /\ stream.passed \in 0..Len(log) /\ stream.due \in 0..Len(log) /\ stream.batch \in Seq(Events)
         /\ stream = [passed |-> stream.passed, due |-> stream.due, batch |-> stream.batch]
         /\ Len(stream.batch) \in Nat
         /\ since \in Nat /\ clock \in Nat /\ faults \in Nat
         /\ MaxTime \in Nat /\ MaxDedupe \in Nat /\ BatchCap \in Nat /\ BatchCap <= MaxDedupe
         /\ InHand \in Seq(Events) /\ Len(InHand) \in Nat
         /\ InHand = (emitted \o queue) \o stream.batch
         /\ IsFiniteSet(seen) /\ Cardinality(seen) \in Nat
<1>1. /\ Len(log) \in 0..MaxEvents /\ MaxEvents \in Nat
      /\ log \in [1..Len(log) -> 1..MaxTime] /\ DOMAIN log = 1..Len(log)
  BY LenProperties, DockerAssumption DEF Typed
<1>2. /\ stream.passed \in 0..Len(log) /\ stream.due \in 0..Len(log) /\ stream.batch \in Seq(Events)
      /\ stream = [passed |-> stream.passed, due |-> stream.due, batch |-> stream.batch]
  BY DEF Typed
<1>3. since \in Nat /\ clock \in Nat /\ faults \in Nat /\ Len(stream.batch) \in Nat
  BY <1>2, LenProperties, DockerAssumption DEF Typed
<1>4. MaxTime \in Nat /\ MaxDedupe \in Nat /\ BatchCap \in Nat /\ BatchCap <= MaxDedupe
  BY DockerAssumption
<1>5. InHand \in Seq(Events) /\ InHand = (emitted \o queue) \o stream.batch
  <2>1. emitted \o queue \in Seq(Events)
    BY ConcatProperties DEF Typed
  <2> QED BY <1>2, <2>1, ConcatProperties DEF InHand
<1>6. Len(InHand) \in Nat
  BY <1>5, LenProperties
<1>7. IsFiniteSet(seen) /\ Cardinality(seen) \in Nat
  <2>1. IsFiniteSet(1..Len(log))
    BY <1>1, FS_Interval
  <2> QED BY <2>1, FS_Subset, FS_CardinalityType DEF Typed
<1> QED BY <1>1, <1>2, <1>3, <1>4, <1>5, <1>6, <1>7

LEMMA InvInit == Init => IInv
<1> SUFFICES ASSUME Init PROVE IInv
  OBVIOUS
<1>1. /\ log = <<>> /\ clock = 1 /\ since = 1 /\ seen = {} /\ stream = NoStream
      /\ phase = "idle" /\ queue = <<>> /\ emitted = <<>> /\ pruned = FALSE /\ lost = {} /\ faults = 0
  BY DEF Init
<1>2. /\ stream.passed = 0 /\ stream.due = 0 /\ stream.batch = <<>>
      /\ stream \in [passed : {0}, due : {0}, batch : {<<>>}]
  BY <1>1 DEF NoStream
<1>3. \A S : <<>> \in Seq(S) /\ Len(<<>>) = 0
  BY EmptySeq
<1>4. Typed
  <2>1. Len(log) = 0 /\ 0 \in 0..Len(log)
    BY <1>1, <1>3
  <2>2. stream \in [passed : 0..Len(log), due : 0..Len(log), batch : Seq(Events)]
    BY <1>2, <1>3, <2>1
  <2>3. log \in Seq(1..MaxTime) /\ queue \in Seq(Events) /\ emitted \in Seq(Events)
    BY <1>1, <1>3
  <2>4. clock \in 1..MaxTime /\ since \in 1..clock /\ faults \in 0..MaxFaults /\ Len(log) <= MaxEvents
    BY <1>1, <2>1, DockerAssumption
  <2>5. \A k \in 1..Len(stream.batch) : stream.batch[k] <= stream.passed
    BY <1>2, <1>3
  <2> QED BY <1>1, <2>2, <2>3, <2>4, <2>5 DEF Typed
<1>5. Ordered
  BY <1>1, <1>3 DEF Ordered
<1>6. Bounded
  BY <1>1, <1>2, <1>3, FS_EmptySet, DockerAssumption DEF Bounded
<1>7. Covered
  BY <1>1, <1>2, <1>3 DEF Covered
<1>8. InHand = <<>>
  BY <1>1, <1>2, <1>3, ConcatEmptySeq DEF InHand
<1>9. Exact
  <2>1. Range(InHand) = {} /\ Len(InHand) = 0
    BY <1>3, <1>8 DEF Range
  <2>2. Handled = 1..0 /\ seen = 1..0 /\ stream.passed <= 0 /\ Increasing(InHand) /\ 0 \in 0..Len(log)
    BY <1>1, <1>2, <1>3, <2>1 DEF Handled, Increasing
  <2> QED BY <2>2 DEF Exact
<1> QED BY <1>4, <1>5, <1>6, <1>7, <1>9 DEF IInv

-----------------------------------------------------------------------------
\* The daemon's steps.

LEMMA OccurStep == IInv /\ Occur => IInv'
<1> SUFFICES ASSUME IInv, Occur PROVE IInv'
  OBVIOUS
<1>1. /\ Typed /\ Ordered /\ Bounded /\ Covered /\ Exact
  BY DEF IInv
<1>2. /\ Len(log) < MaxEvents /\ log' = Append(log, clock)
      /\ UNCHANGED <<clock, since, seen, stream, phase, queue, emitted, pruned, lost, faults>>
  BY DEF Occur, client
<1>0. /\ Len(log) \in Nat /\ clock \in Nat /\ since \in Nat /\ since <= clock
      /\ \A k \in 1..Len(log) : log[k] \in Nat
  <2>1. log \in [1..Len(log) -> 1..MaxTime] /\ Len(log) \in Nat /\ since \in Nat /\ clock \in Nat
    BY <1>1, Typing
  <2>2. since <= clock
    BY <1>1 DEF Typed
  <2> QED BY <2>1, <2>2
<1>3. /\ log' \in Seq(1..MaxTime) /\ Len(log') = Len(log) + 1 /\ log'[Len(log) + 1] = clock
      /\ \A k \in 1..Len(log) : log'[k] = log[k]
  BY <1>1, <1>2, AppendProperties, Typing DEF Typed
<1>4. InHand' = InHand /\ Handled' = Handled
  BY <1>2 DEF InHand, Handled
<1>5. stream' \in [passed : 0..Len(log'), due : 0..Len(log'), batch : Seq(Events)]
  <2>1. 0..Len(log) \subseteq 0..Len(log')
    BY <1>0, <1>3
  <2>2. stream \in [passed : 0..Len(log), due : 0..Len(log), batch : Seq(Events)]
    BY <1>1 DEF Typed
  <2> QED BY <1>2, <2>1, <2>2
<1>6. seen' \subseteq 1..Len(log')
  <2>1. 1..Len(log) \subseteq 1..Len(log')
    BY <1>0, <1>3
  <2>2. seen \subseteq 1..Len(log)
    BY <1>1, Typing DEF Typed
  <2> QED BY <1>2, <2>1, <2>2
<1>7. Typed'
  BY <1>0, <1>1, <1>2, <1>3, <1>5, <1>6, DockerAssumption DEF Typed
<1>8. Ordered'
  <2>1. ASSUME NEW k \in 1..Len(log') PROVE log'[k] <= clock' /\ (k \notin 1..Len(log) => log'[k] = clock)
    <3>1. CASE k \in 1..Len(log)
      <4>1. log'[k] = log[k] /\ log[k] <= clock
        BY <1>1, <1>3, <3>1, Typing DEF Ordered
      <4> QED BY <1>2, <3>1, <4>1
    <3>2. CASE k \notin 1..Len(log)
      <4>1. k = Len(log) + 1
        BY <1>0, <1>3, <3>2
      <4> QED BY <1>0, <1>2, <1>3, <3>2, <4>1
    <3> QED BY <3>1, <3>2
  <2>2. ASSUME NEW j \in 1..Len(log'), NEW k \in 1..Len(log'), j <= k PROVE log'[j] <= log'[k]
    <3>1. CASE k \in 1..Len(log)
      <4>1. j \in 1..Len(log)
        BY <1>0, <1>3, <2>2, <3>1
      <4>2. log[j] <= log[k]
        BY <1>1, <2>2, <3>1, <4>1, Typing DEF Ordered
      <4> QED BY <1>3, <3>1, <4>1, <4>2
    <3>2. CASE k \notin 1..Len(log)
      <4>1. log'[k] = clock /\ log'[j] <= clock'
        BY <2>1, <2>2, <3>2
      <4> QED BY <1>2, <4>1
    <3> QED BY <3>1, <3>2
  <2> QED BY <2>1, <2>2 DEF Ordered
<1>9. Bounded'
  BY <1>1, <1>2 DEF Bounded
<1>10. Covered'
  <2>1. ASSUME NEW k \in 1..Len(log'), log'[k] < since PROVE k \in Handled
    <3>1. ~(clock < since)
      BY <1>0
    <3>2. k # Len(log) + 1
      BY <1>2, <1>3, <2>1, <3>1
    <3>3. k \in 1..Len(log)
      BY <1>0, <1>3, <3>2
    <3> QED BY <1>1, <1>3, <2>1, <3>3 DEF Covered
  <2> QED BY <1>1, <1>2, <1>4, <2>1 DEF Covered
<1>11. Exact'
  <2>1. 0..Len(log) \subseteq 0..Len(log')
    BY <1>0, <1>3
  <2> QED BY <1>1, <1>2, <1>4, <2>1 DEF Exact
<1> QED BY <1>7, <1>8, <1>9, <1>10, <1>11 DEF IInv

LEMMA TickStep == IInv /\ Tick => IInv'
<1> SUFFICES ASSUME IInv, Tick PROVE IInv'
  OBVIOUS
<1>1. /\ Typed /\ Ordered /\ Bounded /\ Covered /\ Exact
  BY DEF IInv
<1>2. /\ clock < MaxTime /\ clock' = clock + 1
      /\ UNCHANGED <<log, since, seen, stream, phase, queue, emitted, pruned, lost, faults>>
  BY DEF Tick, client
<1>3. InHand' = InHand /\ Handled' = Handled
  BY <1>2 DEF InHand, Handled
<1>4. Typed'
  BY <1>1, <1>2, DockerAssumption DEF Typed
<1>5. Ordered'
  <2>1. clock \in Nat /\ \A k \in 1..Len(log) : log[k] \in 1..MaxTime
    BY <1>1, Typing DEF Typed
  <2>2. MaxTime \in Nat
    BY DockerAssumption
  <2>3. ASSUME NEW k \in 1..Len(log) PROVE log[k] <= clock + 1
    <3>1. log[k] <= clock
      BY <1>1 DEF Ordered
    <3> QED BY <2>1, <2>2, <3>1
  <2> QED BY <1>1, <1>2, <2>3 DEF Ordered
<1>6. Bounded' /\ Covered' /\ Exact'
  BY <1>1, <1>2, <1>3 DEF Bounded, Covered, Exact
<1> QED BY <1>4, <1>5, <1>6 DEF IInv

-----------------------------------------------------------------------------
\* read_events.

LEMMA ConnectStep == IInv /\ Connect => IInv'
<1> SUFFICES ASSUME IInv, Connect PROVE IInv'
  OBVIOUS
<1>1. /\ Typed /\ Ordered /\ Bounded /\ Covered /\ Exact
  BY DEF IInv
<1> DEFINE c == Cardinality(Older)
<1>2. /\ phase = "idle" /\ phase' = "streaming"
      /\ stream' = [passed |-> c, due |-> Len(log), batch |-> <<>>]
      /\ UNCHANGED <<log, clock, since, seen, queue, emitted, pruned, lost, faults>>
  BY DEF Connect, daemon
<1>3. c \in 0..Len(log) /\ Older = 1..c
  <2>1. Older \in SUBSET (1..Len(log)) /\ Len(log) \in Nat
    BY <1>1, Typing DEF Older
  <2>2. ASSUME NEW k \in Older PROVE 1..k \subseteq Older
    <3>1. k \in 1..Len(log) /\ log[k] < since
      BY <1>1, Typing DEF Older
    <3>2. ASSUME NEW j \in 1..k PROVE j \in Older
      <4>1. j \in 1..Len(log) /\ j <= k
        <5>1. Len(log) \in Nat
          BY <1>1, Typing
        <5> QED BY <3>1, <5>1
      <4>2. log[j] <= log[k] /\ log[j] \in Nat /\ log[k] \in Nat /\ since \in Nat
        <5>1. log[j] <= log[k] /\ log[k] < since
          BY <1>1, <3>1, <4>1 DEF Ordered
        <5>2. log[j] \in 1..MaxTime /\ log[k] \in 1..MaxTime /\ since \in Nat
          BY <1>1, <3>1, <4>1, Typing
        <5> QED BY <5>1, <5>2
      <4>3. DOMAIN log = 1..Len(log) /\ log[j] < since
        <5>1. DOMAIN log = 1..Len(log)
          BY <1>1, Typing
        <5> QED BY <3>1, <4>2, <5>1
      <4> QED BY <4>1, <4>3 DEF Older
    <3> QED BY <3>2
  <2> QED BY <2>1, <2>2, InitialSegment
<1> HIDE DEF c
<1>4. stream = NoStream /\ stream.batch = <<>> /\ stream.passed = 0
  BY <1>1, <1>2 DEF Typed, NoStream
<1>5. stream'.batch = <<>> /\ stream'.passed = c /\ stream'.due = Len(log)
  BY <1>2
<1>6. InHand' = InHand /\ Handled' = Handled
  BY <1>2, <1>4, <1>5 DEF InHand, Handled
<1>7. Typed'
  <2>1. <<>> \in Seq(Events) /\ Len(<<>>) = 0
    BY EmptySeq
  <2>2. Len(log) \in 0..Len(log)
    BY <1>1, Typing
  <2>3. stream' \in [passed : 0..Len(log), due : 0..Len(log), batch : Seq(Events)]
    BY <1>2, <1>3, <2>1, <2>2
  <2> QED BY <1>1, <1>2, <1>5, <2>1, <2>3 DEF Typed
<1>8. Ordered' /\ Bounded'
  BY <1>1, <1>2, <1>4, <1>5 DEF Ordered, Bounded
<1>9. 1..c \subseteq Handled
  BY <1>1, <1>3, Typing DEF Older, Covered
<1>10. Covered'
  BY <1>1, <1>2, <1>5, <1>6, <1>9 DEF Covered
<1>11. Exact'
  <2>1. ASSUME NEW m \in 0..Len(log), Handled = 1..m PROVE c <= m
    <3>1. c \in Nat /\ m \in Nat
      BY <1>1, <1>3, Typing
    <3>2. CASE c = 0
      BY <3>1, <3>2
    <3>3. CASE c # 0
      <4>1. c \in 1..m
        BY <1>9, <2>1, <3>1, <3>3
      <4> QED BY <3>1, <4>1
    <3> QED BY <3>2, <3>3
  <2> QED BY <1>1, <1>2, <1>5, <1>6, <2>1 DEF Exact
<1> QED BY <1>7, <1>8, <1>10, <1>11 DEF IInv

\* What a line of the stream adds.
LEMMA Taking ==
  ASSUME Typed, Consume
  PROVE  LET k == stream.passed + 1 IN
         /\ phase = "streaming" /\ Len(stream.batch) < BatchCap /\ k \in 1..Len(log) /\ k \in Events
         /\ stream'.passed = k /\ stream'.due = stream.due /\ stream'.batch \in Seq(Events)
         /\ stream' = [passed |-> k, due |-> stream'.due, batch |-> stream'.batch]
         /\ seen' = seen \cup {k}
         /\ k \in seen => stream'.batch = stream.batch /\ InHand' = InHand
         /\ k \notin seen => stream'.batch = Append(stream.batch, k) /\ InHand' = Append(InHand, k)
         /\ UNCHANGED <<log, clock, since, phase, queue, emitted, pruned, lost, faults>>
<1> DEFINE k == stream.passed + 1
<1>1. /\ phase = "streaming" /\ ~(Len(stream.batch) >= BatchCap) /\ stream.passed < Len(log)
      /\ stream' = [stream EXCEPT !.passed = k, !.batch = @ \o Taken(k)]
      /\ seen' = seen \cup {k}
      /\ UNCHANGED <<log, clock, since, phase, queue, emitted, pruned, lost, faults>>
  BY DEF Consume, Full, daemon
<1>0. /\ Len(log) \in 0..MaxEvents /\ MaxEvents \in Nat /\ stream.passed \in 0..Len(log)
      /\ stream.batch \in Seq(Events) /\ Len(stream.batch) \in Nat /\ BatchCap \in Nat
      /\ stream = [passed |-> stream.passed, due |-> stream.due, batch |-> stream.batch]
  BY Typing
<1>2. Len(stream.batch) < BatchCap /\ k \in 1..Len(log) /\ k \in Events
  BY <1>0, <1>1 DEF Events
<1>3. stream' = [passed |-> k, due |-> stream.due, batch |-> stream.batch \o Taken(k)]
  BY <1>0, <1>1
<1> HIDE DEF k
<1>4. stream'.passed = k /\ stream'.due = stream.due /\ stream'.batch = stream.batch \o Taken(k)
  BY <1>3
<1>6. CASE k \in seen
  <2>1. Taken(k) = <<>>
    BY <1>6 DEF Taken
  <2>2. stream'.batch = stream.batch
    BY <1>0, <1>4, <2>1, ConcatEmptySeq
  <2>3. InHand' = InHand
    BY <1>1, <2>2 DEF InHand
  <2> QED BY <1>0, <1>1, <1>2, <1>3, <1>4, <1>6, <2>2, <2>3 DEF k
<1>7. CASE k \notin seen
  <2>1. Taken(k) = <<k>>
    BY <1>7 DEF Taken
  <2>2. stream'.batch = Append(stream.batch, k) /\ stream'.batch \in Seq(Events)
    BY <1>0, <1>2, <1>4, <2>1, AppendIsConcat, AppendProperties
  <2>3. emitted \o queue \in Seq(Events)
    BY ConcatProperties DEF Typed
  <2>4. InHand' = (emitted \o queue) \o (stream.batch \o <<k>>)
    BY <1>1, <1>4, <2>1 DEF InHand
  <2>5. InHand' = Append(InHand, k)
    <3>1. PICK given : given = emitted \o queue
      OBVIOUS
    <3>2. given \in Seq(Events) /\ InHand = given \o stream.batch /\ k \in Events
      BY <1>2, <2>3, <3>1 DEF InHand
    <3>3. given \o (stream.batch \o <<k>>) = Append(given \o stream.batch, k)
      BY <1>0, <3>2, ConcatAppend
    <3> QED BY <2>4, <3>1, <3>2, <3>3
  <2> QED BY <1>1, <1>2, <1>3, <1>4, <1>7, <2>2, <2>5 DEF k
<1> QED BY <1>6, <1>7

LEMMA ConsumeStep == IInv /\ Consume => IInv'
<1> SUFFICES ASSUME IInv, Consume PROVE IInv'
  OBVIOUS
<1>1. /\ Typed /\ Ordered /\ Bounded /\ Covered /\ Exact
  BY DEF IInv
<1> DEFINE k == stream.passed + 1
<1>2. /\ phase = "streaming" /\ Len(stream.batch) < BatchCap /\ k \in 1..Len(log) /\ k \in Events
      /\ stream'.passed = k /\ stream'.due = stream.due /\ stream'.batch \in Seq(Events)
      /\ stream' = [passed |-> k, due |-> stream'.due, batch |-> stream'.batch]
      /\ seen' = seen \cup {k}
      /\ k \in seen => stream'.batch = stream.batch /\ InHand' = InHand
      /\ k \notin seen => stream'.batch = Append(stream.batch, k) /\ InHand' = Append(InHand, k)
      /\ UNCHANGED <<log, clock, since, phase, queue, emitted, pruned, lost, faults>>
  BY <1>1, Taking
<1>3. k = stream.passed + 1 /\ k \in Nat
  BY <1>1, Typing
<1> HIDE DEF k
<1>4. ASSUME k \notin seen
      PROVE  /\ Len(stream'.batch) = Len(stream.batch) + 1 /\ Len(stream.batch) \in Nat
             /\ stream'.batch[Len(stream.batch) + 1] = k
             /\ \A j \in 1..Len(stream.batch) : stream'.batch[j] = stream.batch[j]
  <2>1. stream.batch \in Seq(Events) /\ stream'.batch = Append(stream.batch, k)
    BY <1>1, <1>2, <1>4, Typing
  <2> QED BY <1>2, <2>1, AppendProperties, LenProperties
<1>5. Typed'
  <2>1. stream' \in [passed : 0..Len(log), due : 0..Len(log), batch : Seq(Events)]
    BY <1>1, <1>2, Typing
  <2>2. \A j \in 1..Len(stream'.batch) : stream'.batch[j] <= stream'.passed
    <3>1. \A j \in 1..Len(stream.batch) : stream.batch[j] <= k
      <4>1. SUFFICES ASSUME NEW j \in 1..Len(stream.batch) PROVE stream.batch[j] <= k
        OBVIOUS
      <4>2. stream.batch[j] \in Nat
        <5>1. stream.batch \in Seq(Events)
          BY <1>1, Typing
        <5>2. \A q \in Seq(Events) : \A i \in 1..Len(q) : q[i] \in Events
          BY ElementOfSeq
        <5> QED BY <5>1, <5>2 DEF Events
      <4>3. stream.batch[j] <= stream.passed /\ stream.passed \in Nat
        <5>1. \A i \in 1..Len(stream.batch) : stream.batch[i] <= stream.passed
          BY <1>1 DEF Typed
        <5>2. stream.passed \in 0..Len(log) /\ Len(log) \in 0..MaxEvents
          BY <1>1, Typing
        <5> QED BY <5>1, <5>2
      <4> QED
        <5>1. k = stream.passed + 1 /\ stream.passed \in Nat
          BY <1>3, <4>3
        <5> QED BY <4>2, <4>3, <5>1
    <3>2. CASE k \in seen
      BY <1>2, <3>1, <3>2
    <3>3. CASE k \notin seen
      <4>1. Len(stream.batch) \in Nat
        BY <1>1, Typing
      <4> QED BY <1>2, <1>3, <1>4, <3>1, <3>3, <4>1
    <3> QED BY <3>2, <3>3
  <2>3. seen' \subseteq 1..Len(log)
    BY <1>1, <1>2 DEF Typed
  <2> QED BY <1>1, <1>2, <2>1, <2>2, <2>3 DEF Typed
<1>6. Ordered'
  BY <1>1, <1>2 DEF Ordered
<1>7. Bounded'
  <2>1. CASE k \in seen
    <3>1. seen' = seen
      BY <1>2, <2>1
    <3> QED BY <1>1, <1>2, <2>1, <3>1 DEF Bounded
  <2>2. CASE k \notin seen
    <3>1. Cardinality(seen') = Cardinality(seen) + 1
      BY <1>1, <1>2, <2>2, Typing, FS_AddElement
    <3>2. PICK extra : extra = faults * BatchCap /\ extra \in Nat
      BY <1>1, Typing
    <3>3. Cardinality(seen) <= MaxDedupe + Len(stream.batch) + extra
      BY <1>1, <3>2 DEF Bounded
    <3>4. Cardinality(seen') <= MaxDedupe + Len(stream'.batch) + extra
      <4>1. MaxDedupe \in Nat /\ Len(stream.batch) \in Nat /\ Cardinality(seen) \in Nat
        BY <1>1, Typing
      <4>2. Len(stream'.batch) = Len(stream.batch) + 1
        BY <1>4, <2>2
      <4> QED BY <3>1, <3>2, <3>3, <4>1, <4>2
    <3>5. Len(stream'.batch) <= BatchCap
      BY <1>1, <1>2, <1>4, <2>2, Typing
    <3> QED BY <1>2, <3>2, <3>4, <3>5 DEF Bounded
  <2> QED BY <2>1, <2>2
<1>8. Range(InHand') = Range(InHand) \cup (IF k \in seen THEN {} ELSE {k})
  <2>1. CASE k \in seen
    BY <1>2, <2>1
  <2>2. CASE k \notin seen
    <3>1. InHand \in Seq(Events) /\ <<k>> \in Seq(Events)
      BY <1>1, <1>2, Typing
    <3>2. InHand' = InHand \o <<k>>
      BY <1>2, <2>2, <3>1, AppendIsConcat
    <3>3. Range(<<k>>) = {k}
      BY <1>2 DEF Range
    <3>4. Range(InHand \o <<k>>) = Range(InHand) \cup Range(<<k>>)
      BY <3>1, RangeConcatenation
    <3> QED BY <2>2, <3>2, <3>3, <3>4
  <2> QED BY <2>1, <2>2
<1>9. Handled' = Handled \cup {k}
  <2>1. k \in seen => k \in Handled
    BY <1>1 DEF Covered
  <2> QED BY <1>2, <1>8, <2>1 DEF Handled
<1>10. Covered'
  <2>1. 1..k \subseteq 1..stream.passed \cup {k}
    BY <1>1, <1>3, Typing
  <2> QED BY <1>1, <1>2, <1>9, <2>1 DEF Covered
<1>11. Exact'
  <2>1. SUFFICES ASSUME ~pruned
                 PROVE  \E n \in 0..Len(log) :
                          seen' = 1..n /\ Handled' = 1..n /\ k <= n /\ Increasing(InHand')
    BY <1>2 DEF Exact
  <2>2. PICK m \in 0..Len(log) :
          seen = 1..m /\ Handled = 1..m /\ stream.passed <= m /\ Increasing(InHand)
    BY <1>1, <2>1 DEF Exact
  <2>3. m \in Nat /\ stream.passed \in Nat /\ Len(log) \in Nat
    BY <1>1, Typing
  <2>4. CASE k \in seen
    <3>1. seen' = seen /\ Handled' = Handled /\ InHand' = InHand /\ k <= m
      BY <1>2, <1>9, <2>2, <2>3, <2>4
    <3> QED BY <2>2, <3>1
  <2>5. CASE k \notin seen
    <3>1. k = m + 1 /\ k \in 0..Len(log)
      BY <1>2, <1>3, <2>2, <2>3, <2>5
    <3>2. seen' = 1..k /\ Handled' = 1..k
      BY <1>2, <1>9, <2>2, <2>3, <3>1
    <3>3. /\ Len(InHand') = Len(InHand) + 1 /\ InHand'[Len(InHand) + 1] = k /\ Len(InHand) \in Nat
          /\ \A j \in 1..Len(InHand) : InHand'[j] = InHand[j]
      <4>1. InHand \in Seq(Events) /\ k \in Events /\ InHand' = Append(InHand, k)
        BY <1>1, <1>2, <2>5, Typing
      <4> QED BY <4>1, AppendProperties, LenProperties
    <3>4. \A j \in 1..Len(InHand) : InHand[j] \in 1..m
      <4>1. Range(InHand) = {InHand[j] : j \in 1..Len(InHand)}
        BY <1>1, Typing, RangeEquality
      <4> QED BY <2>2, <4>1 DEF Handled
    <3>5. Increasing(InHand')
      <4>1. SUFFICES ASSUME NEW i \in 1..(Len(InHand) + 1), NEW j \in 1..(Len(InHand) + 1), i < j
                     PROVE  InHand'[i] < InHand'[j]
        BY <3>3 DEF Increasing
      <4>2. i \in 1..Len(InHand)
        BY <3>3, <4>1
      <4>3. CASE j \in 1..Len(InHand)
        BY <2>2, <3>3, <4>1, <4>2, <4>3 DEF Increasing
      <4>4. CASE j = Len(InHand) + 1
        BY <2>3, <3>1, <3>3, <3>4, <4>2, <4>4
      <4> QED BY <3>3, <4>3, <4>4
    <3> QED BY <2>3, <3>1, <3>2, <3>5
  <2> QED BY <2>4, <2>5
<1> QED BY <1>5, <1>6, <1>7, <1>10, <1>11 DEF IInv

\* The second of an event of the batch is in the log, after all that come before it.
LEMMA CursorIs ==
  ASSUME Typed, Ordered
  PROVE  /\ Cursor(stream.batch) \in 1..clock
         /\ \A k \in 1..Len(log) : log[k] < Cursor(stream.batch) =>
              log[k] < since \/ k \in 1..stream.passed
<1>1. CASE stream.batch = <<>>
  <2>1. Cursor(stream.batch) = since
    BY <1>1 DEF Cursor
  <2> QED BY <2>1 DEF Typed
<1>2. CASE stream.batch # <<>>
  <2> DEFINE b == stream.batch
             l == b[Len(b)]
  <2>1. b \in Seq(Events) /\ b # <<>> /\ Len(b) \in Nat \ {0}
    BY <1>2, Typing, EmptySeq
  <2>2. Len(b) \in 1..Len(b)
    BY <2>1
  <2>3. l \in Events
    BY <2>1, <2>2, ElementOfSeq
  <2>4. l <= stream.passed
    BY <2>2 DEF Typed
  <2>5. l \in 1..Len(log) /\ l \in Nat /\ stream.passed \in Nat /\ Len(log) \in Nat
    <3>1. PICK p, n : p = stream.passed /\ n = Len(log) /\ p \in 0..n /\ n \in Nat
      BY Typing
    <3> HIDE DEF l
    <3>2. l \in Nat /\ l >= 1 /\ l <= p
      <4>1. MaxEvents \in Nat
        BY Typing
      <4>2. l \in 1..MaxEvents
        BY <2>3 DEF Events
      <4> QED BY <2>4, <3>1, <4>1, <4>2
    <3> QED BY <3>1, <3>2
  <2>6. Cursor(b) = log[l]
    BY <2>1 DEF Cursor, Last
  <2> HIDE DEF l
  <2>7. log[l] \in 1..clock
    <3>1. log[l] \in 1..MaxTime
      BY <2>5, Typing
    <3>2. log[l] <= clock /\ clock \in Nat /\ MaxTime \in Nat
      BY <2>5, Typing DEF Ordered
    <3> QED BY <3>1, <3>2
  <2>8. ASSUME NEW k \in 1..Len(log), log[k] < log[l] PROVE k \in 1..stream.passed
    <3>1. log[k] \in Nat /\ log[l] \in Nat
      <4>1. log[k] \in 1..MaxTime /\ log[l] \in 1..MaxTime
        BY <2>5, Typing
      <4> QED BY <4>1
    <3>2. ~(l <= k)
      BY <2>5, <2>8, <3>1 DEF Ordered
    <3> QED BY <2>4, <2>5, <3>2
  <2> QED BY <2>6, <2>7, <2>8
<1> QED BY <1>1, <1>2

LEMMA Pruning ==
  ASSUME IsFiniteSet(seen), NEW half \in Halves(seen), NEW bound \in Nat, Cardinality(seen) <= 2 * bound
  PROVE  half \subseteq seen /\ Cardinality(half) <= bound
<1>1. half \subseteq seen /\ Cardinality(half) = Cardinality(seen) \div 2
  BY DEF Halves, kSubset
<1>2. Cardinality(seen) \in Nat
  BY FS_CardinalityType
<1> QED BY <1>1, <1>2

\* What is left of the memory after a pruning.
LEMMA PruneIs ==
  ASSUME Typed, Bounded, Prune, NEW extra \in Nat, extra = faults * BatchCap
  PROVE  /\ seen' \subseteq seen /\ Cardinality(seen') <= MaxDedupe + extra
         /\ pruned' \in BOOLEAN /\ (~pruned' => ~pruned /\ seen' = seen)
<1>1. IF Cardinality(seen) > MaxDedupe THEN seen' \in Halves(seen) /\ pruned' = TRUE
                                       ELSE seen' = seen /\ pruned' = pruned
  BY DEF Prune
<1>2. /\ Cardinality(seen) <= MaxDedupe + Len(stream.batch) + extra /\ Len(stream.batch) <= BatchCap
      /\ Cardinality(seen) \in Nat /\ MaxDedupe \in Nat /\ BatchCap \in Nat /\ BatchCap <= MaxDedupe
      /\ Len(stream.batch) \in Nat /\ IsFiniteSet(seen)
  BY Typing DEF Bounded
<1>3. CASE Cardinality(seen) > MaxDedupe
  <2>1. MaxDedupe + extra \in Nat /\ Cardinality(seen) <= 2 * (MaxDedupe + extra)
    BY <1>2
  <2>2. seen' \in Halves(seen)
    BY <1>1, <1>3
  <2>3. seen' \subseteq seen /\ Cardinality(seen') <= MaxDedupe + extra
    BY <1>2, <2>1, <2>2, Pruning
  <2> QED BY <1>1, <1>3, <2>3
<1>4. CASE ~(Cardinality(seen) > MaxDedupe)
  <2>1. seen' = seen
    BY <1>1, <1>4
  <2>2. Cardinality(seen') <= MaxDedupe + extra
    BY <1>2, <1>4, <2>1
  <2> QED BY <1>1, <1>4, <2>1, <2>2 DEF Typed
<1> QED BY <1>3, <1>4

LEMMA EndBatchStep == IInv /\ EndBatch => IInv'
<1> SUFFICES ASSUME IInv, EndBatch PROVE IInv'
  OBVIOUS
<1>1. /\ Typed /\ Ordered /\ Bounded /\ Covered /\ Exact
  BY DEF IInv
<1>2. /\ phase = "streaming" /\ phase' = "emitting" /\ stream' = NoStream
      /\ since' = Cursor(stream.batch) /\ queue' = stream.batch
      /\ UNCHANGED <<log, clock, emitted, lost, faults>>
  BY DEF EndBatch, daemon
<1>4. /\ stream'.batch = <<>> /\ stream'.passed = 0 /\ stream'.due = 0
      /\ stream' \in [passed : {0}, due : {0}, batch : {<<>>}]
  BY <1>2 DEF NoStream
<1>5. \A S : <<>> \in Seq(S) /\ Len(<<>>) = 0
  BY EmptySeq
<1>6. PICK extra : extra = faults * BatchCap /\ extra \in Nat
  BY <1>1, Typing
<1>7. /\ seen' \subseteq seen /\ Cardinality(seen') <= MaxDedupe + extra
      /\ pruned' \in BOOLEAN /\ (~pruned' => ~pruned /\ seen' = seen)
  BY <1>1, <1>6, PruneIs DEF EndBatch
<1>8. InHand' = InHand
  <2>1. queue = <<>> /\ emitted \in Seq(Events) /\ stream.batch \in Seq(Events)
    BY <1>1, <1>2, Typing DEF Typed
  <2>2. emitted \o stream.batch \in Seq(Events)
    BY <2>1, ConcatProperties
  <2>3. InHand' = (emitted \o stream.batch) \o <<>>
    BY <1>2, <1>4 DEF InHand
  <2>4. InHand = (emitted \o <<>>) \o stream.batch
    BY <2>1 DEF InHand
  <2>5. (emitted \o stream.batch) \o <<>> = emitted \o stream.batch
    BY <2>2, ConcatEmptySeq
  <2>6. emitted \o <<>> = emitted
    BY <2>1, ConcatEmptySeq
  <2> QED BY <2>3, <2>4, <2>5, <2>6
<1>15. Handled' = Handled
  BY <1>2, <1>8 DEF Handled
<1>9. since' \in 1..clock
  BY <1>1, <1>2, CursorIs
<1>10. Typed'
  <2>1. 0 \in 0..Len(log) /\ Len(log) \in Nat
    BY <1>1, Typing
  <2>2. stream' \in [passed : 0..Len(log), due : 0..Len(log), batch : Seq(Events)]
    BY <1>4, <1>5, <2>1
  <2>3. pruned' \in BOOLEAN /\ seen' \subseteq 1..Len(log) /\ queue' \in Seq(Events)
    BY <1>1, <1>2, <1>7, Typing DEF Typed
  <2>4. \A k \in 1..Len(stream'.batch) : stream'.batch[k] <= stream'.passed
    BY <1>4, <1>5
  <2> QED BY <1>1, <1>2, <1>9, <2>2, <2>3, <2>4 DEF Typed
<1>11. Ordered'
  BY <1>1, <1>2 DEF Ordered
<1>12. Bounded'
  <2>1. MaxDedupe \in Nat /\ BatchCap \in Nat /\ faults' = faults /\ Len(stream'.batch) = 0
    BY <1>1, <1>2, <1>4, <1>5, Typing
  <2>2. MaxDedupe + Len(stream'.batch) + faults' * BatchCap = MaxDedupe + extra
    BY <1>6, <2>1
  <2> QED BY <1>7, <2>1, <2>2 DEF Bounded
<1>13. Covered'
  <2>1. \A k \in 1..Len(log) : log[k] < Cursor(stream.batch) => k \in Handled
    BY <1>1, CursorIs DEF Covered
  <2>2. 1..stream'.passed = {}
    BY <1>4
  <2> QED BY <1>1, <1>2, <1>7, <1>15, <2>1, <2>2 DEF Covered
<1>14. Exact'
  <2>1. \A m \in 0..Len(log) : stream'.passed <= m
    BY <1>1, <1>4, Typing
  <2> QED BY <1>1, <1>2, <1>7, <1>8, <1>15, <2>1 DEF Exact
<1> QED BY <1>10, <1>11, <1>12, <1>13, <1>14 DEF IInv

\* Dropping the events in hand makes them lost, and nothing else.
LEMMA Dropping ==
  ASSUME NEW q \in Seq(Events), emitted \in Seq(Events), InHand = emitted \o q,
         InHand' = emitted, lost' = lost \cup Range(q)
  PROVE  /\ Handled' = Handled
         /\ Increasing(InHand) => Increasing(InHand')
         /\ lost \subseteq Events => lost' \subseteq Events
<1>1. Range(emitted \o q) = Range(emitted) \cup Range(q) /\ Range(q) \in SUBSET Events
  BY RangeConcatenation, RangeOfSeq
<1>2. /\ Len(emitted) \in Nat /\ Len(q) \in Nat /\ Len(emitted \o q) = Len(emitted) + Len(q)
      /\ \A i \in 1..Len(emitted) : (emitted \o q)[i] = emitted[i]
  BY ConcatProperties, LenProperties
<1>3. ASSUME Increasing(InHand) PROVE Increasing(emitted)
  <2>1. SUFFICES ASSUME NEW i \in 1..Len(emitted), NEW j \in 1..Len(emitted), i < j
                 PROVE  emitted[i] < emitted[j]
    BY DEF Increasing
  <2>2. i \in 1..Len(emitted \o q) /\ j \in 1..Len(emitted \o q)
    BY <1>2
  <2>3. (emitted \o q)[i] < (emitted \o q)[j]
    BY <1>3, <2>1, <2>2 DEF Increasing
  <2> QED BY <1>2, <2>3
<1> QED BY <1>1, <1>3 DEF Handled

\* A stream that fails, or the enrichment of what it delivered: what is left behind
\* is what it had taken at most.
LEMMA DroppedBatchStep ==
  ASSUME IInv, phase = "streaming", phase' = "idle", stream' = NoStream,
         faults < MaxFaults, faults' = faults + 1, lost' = lost \cup Range(stream.batch),
         UNCHANGED <<log, clock, since, queue, emitted>>,
         Prune \/ UNCHANGED <<seen, pruned>>
  PROVE  IInv'
<1>1. /\ Typed /\ Ordered /\ Bounded /\ Covered /\ Exact
  BY DEF IInv
<1>2. /\ stream'.batch = <<>> /\ stream'.passed = 0 /\ stream'.due = 0
      /\ stream' \in [passed : {0}, due : {0}, batch : {<<>>}]
  BY DEF NoStream
<1>3. \A S : <<>> \in Seq(S) /\ Len(<<>>) = 0
  BY EmptySeq
<1>4. PICK extra : extra = faults * BatchCap /\ extra \in Nat
  BY <1>1, Typing
<1>5. /\ MaxDedupe \in Nat /\ BatchCap \in Nat /\ faults \in Nat /\ Len(stream.batch) \in Nat
      /\ Cardinality(seen) \in Nat /\ stream.batch \in Seq(Events) /\ Len(log) \in Nat
  BY <1>1, Typing
<1>6. /\ seen' \subseteq seen /\ Cardinality(seen') <= MaxDedupe + 0 + (extra + BatchCap)
      /\ pruned' \in BOOLEAN /\ (~pruned' => ~pruned /\ seen' = seen)
  <2>1. CASE Prune
    <3>1. /\ seen' \subseteq seen /\ Cardinality(seen') <= MaxDedupe + extra
          /\ pruned' \in BOOLEAN /\ (~pruned' => ~pruned /\ seen' = seen)
      BY <1>1, <1>4, <2>1, PruneIs
    <3>2. IsFiniteSet(seen')
      BY <1>1, <3>1, Typing, FS_Subset
    <3>3. Cardinality(seen') \in Nat
      BY <3>2, FS_CardinalityType
    <3> QED BY <1>4, <1>5, <3>1, <3>3
  <2>2. CASE UNCHANGED <<seen, pruned>>
    <3>1. Cardinality(seen) <= MaxDedupe + Len(stream.batch) + extra /\ Len(stream.batch) <= BatchCap
      BY <1>1, <1>4 DEF Bounded
    <3>2. Cardinality(seen) <= MaxDedupe + 0 + (extra + BatchCap)
      BY <1>4, <1>5, <3>1, Looser
    <3> QED BY <1>1, <2>2, <3>2 DEF Typed
  <2> QED BY <2>1, <2>2
<1>7. /\ Handled' = Handled /\ lost' \subseteq Events
      /\ Increasing(InHand) => Increasing(InHand')
  <2>1. queue = <<>> /\ emitted \in Seq(Events) /\ lost \subseteq Events
    BY <1>1 DEF Typed
  <2>2. emitted \o <<>> = emitted
    BY <2>1, ConcatEmptySeq
  <2>3. InHand = emitted \o stream.batch /\ InHand' = emitted
    BY <1>2, <2>1, <2>2 DEF InHand
  <2> QED BY <1>5, <2>1, <2>3, Dropping
<1>8. Typed'
  <2>0. 0 \in 0..Len(log)
    BY <1>5
  <2>1. stream' \in [passed : 0..Len(log), due : 0..Len(log), batch : Seq(Events)]
    BY <1>2, <1>3, <2>0
  <2>2. \A k \in 1..Len(stream'.batch) : stream'.batch[k] <= stream'.passed
    BY <1>2, <1>3
  <2>3. faults' \in 0..MaxFaults
    BY <1>1, DockerAssumption DEF Typed
  <2> QED BY <1>1, <1>6, <1>7, <2>1, <2>2, <2>3 DEF Typed
<1>9. Ordered'
  BY <1>1 DEF Ordered
<1>10. Bounded'
  <2>1. faults' * BatchCap = extra + BatchCap
    BY <1>4, <1>5
  <2> QED BY <1>2, <1>3, <1>5, <1>6, <2>1 DEF Bounded
<1>11. Covered'
  <2>1. 1..stream'.passed = {}
    BY <1>2
  <2> QED BY <1>1, <1>6, <1>7, <2>1 DEF Covered
<1>12. Exact'
  <2>1. \A m \in 0..Len(log) : stream'.passed <= m
    BY <1>2, <1>5
  <2> QED BY <1>1, <1>6, <1>7, <2>1 DEF Exact
<1> QED BY <1>8, <1>9, <1>10, <1>11, <1>12 DEF IInv

LEMMA StreamFailsStep == IInv /\ StreamFails => IInv'
BY DroppedBatchStep DEF StreamFails, daemon

LEMMA EnrichFailsStep == IInv /\ EnrichFails => IInv'
BY DroppedBatchStep DEF EnrichFails, daemon

-----------------------------------------------------------------------------
\* run.

LEMMA EmitStep == IInv /\ Emit => IInv'
<1> SUFFICES ASSUME IInv, Emit PROVE IInv'
  OBVIOUS
<1>1. /\ Typed /\ Ordered /\ Bounded /\ Covered /\ Exact
  BY DEF IInv
<1>2. /\ phase = "emitting" /\ queue # <<>>
      /\ emitted' = Append(emitted, Head(queue)) /\ queue' = Tail(queue)
      /\ UNCHANGED <<log, clock, since, seen, stream, phase, pruned, lost, faults>>
  BY DEF Emit, daemon, client
<1>3. queue \in Seq(Events) /\ emitted \in Seq(Events)
  BY <1>1 DEF Typed
<1>4. queue' \in Seq(Events) /\ emitted' \in Seq(Events)
  BY <1>2, <1>3, HeadTailProperties, AppendProperties
<1>5. emitted' \o queue' = emitted \o queue
  BY <1>2, <1>3, MoveHead
<1>6. InHand' = InHand /\ Handled' = Handled
  BY <1>2, <1>5 DEF InHand, Handled
<1>7. Typed'
  BY <1>1, <1>2, <1>4 DEF Typed
<1>8. Ordered' /\ Bounded' /\ Covered' /\ Exact'
  BY <1>1, <1>2, <1>6 DEF Ordered, Bounded, Covered, Exact
<1> QED BY <1>7, <1>8 DEF IInv

LEMMA EmitFailsStep == IInv /\ EmitFails => IInv'
<1> SUFFICES ASSUME IInv, EmitFails PROVE IInv'
  OBVIOUS
<1>1. /\ Typed /\ Ordered /\ Bounded /\ Covered /\ Exact
  BY DEF IInv
<1>2. /\ phase = "emitting" /\ faults < MaxFaults /\ faults' = faults + 1 /\ queue' = <<>>
      /\ lost' = lost \cup Range(queue)
      /\ UNCHANGED <<log, clock, since, seen, stream, phase, emitted, pruned>>
  BY DEF EmitFails, daemon, client
<1>7. /\ Handled' = Handled /\ lost' \subseteq Events
      /\ Increasing(InHand) => Increasing(InHand')
  <2>1. /\ stream.batch = <<>> /\ emitted \in Seq(Events) /\ queue \in Seq(Events)
        /\ lost \subseteq Events
    BY <1>1, <1>2 DEF Typed, NoStream
  <2>2. emitted \o queue \in Seq(Events)
    BY <2>1, ConcatProperties
  <2>3. emitted \o <<>> = emitted /\ (emitted \o queue) \o <<>> = emitted \o queue
    BY <2>1, <2>2, ConcatEmptySeq
  <2>4. InHand = emitted \o queue
    BY <2>1, <2>3 DEF InHand
  <2>5. InHand' = emitted
    BY <1>2, <2>1, <2>3 DEF InHand
  <2> QED BY <1>2, <2>1, <2>4, <2>5, Dropping
<1>3. Typed'
  <2>1. <<>> \in Seq(Events)
    BY EmptySeq
  <2>2. faults' \in 0..MaxFaults
    BY <1>1, <1>2, DockerAssumption DEF Typed
  <2> QED BY <1>1, <1>2, <1>7, <2>1, <2>2 DEF Typed
<1>4. Ordered'
  BY <1>1, <1>2 DEF Ordered
<1>5. Bounded'
  <2>1. /\ MaxDedupe \in Nat /\ BatchCap \in Nat /\ faults \in Nat /\ Len(stream.batch) \in Nat
        /\ Cardinality(seen) \in Nat
    BY <1>1, Typing
  <2>2. PICK extra : extra = faults * BatchCap /\ extra \in Nat
    BY <2>1
  <2>3. faults' * BatchCap = extra + BatchCap
    BY <1>2, <2>1, <2>2
  <2>4. Cardinality(seen) <= MaxDedupe + Len(stream.batch) + extra /\ Len(stream.batch) <= BatchCap
    BY <1>1, <2>2 DEF Bounded
  <2>5. Cardinality(seen') <= MaxDedupe + Len(stream'.batch) + (extra + BatchCap) /\ Len(stream'.batch) <= BatchCap
    <3>1. extra \in Nat
      BY <2>2
    <3>2. Cardinality(seen) <= MaxDedupe + Len(stream.batch) + (extra + BatchCap)
      BY <2>1, <2>4, <3>1, Looser
    <3> QED BY <1>2, <2>4, <3>2
  <2> QED BY <2>3, <2>5 DEF Bounded
<1>6. Covered' /\ Exact'
  BY <1>1, <1>2, <1>7 DEF Covered, Exact
<1> QED BY <1>3, <1>4, <1>5, <1>6 DEF IInv

LEMMA SleepStep == IInv /\ Sleep => IInv'
<1> SUFFICES ASSUME IInv, Sleep PROVE IInv'
  OBVIOUS
<1>1. /\ Typed /\ Ordered /\ Bounded /\ Covered /\ Exact
  BY DEF IInv
<1>2. /\ phase = "emitting" /\ queue = <<>> /\ phase' = "idle"
      /\ UNCHANGED <<log, clock, since, seen, stream, queue, emitted, pruned, lost, faults>>
  BY DEF Sleep, daemon, client
<1>3. InHand' = InHand /\ Handled' = Handled
  BY <1>2 DEF InHand, Handled
<1>4. Typed'
  BY <1>1, <1>2 DEF Typed
<1>5. Ordered' /\ Bounded' /\ Covered' /\ Exact'
  BY <1>1, <1>2, <1>3 DEF Ordered, Bounded, Covered, Exact
<1> QED BY <1>4, <1>5 DEF IInv

-----------------------------------------------------------------------------
\* Theorems.

LEMMA InvStep == IInv /\ [Next]_vars => IInv'
<1> SUFFICES ASSUME IInv, [Next]_vars PROVE IInv'
  OBVIOUS
<1>1. CASE UNCHANGED vars
  BY <1>1 DEF vars, daemon, client, IInv, Typed, Ordered, Bounded, Covered, Exact, InHand, Handled
<1> QED
  BY <1>1, OccurStep, TickStep, ConnectStep, ConsumeStep, EndBatchStep, StreamFailsStep,
     EnrichFailsStep, EmitStep, EmitFailsStep, SleepStep DEF Next, Polling

\* The inductive invariant: the daemon's log is in order, and whatever is older
\* than the cursor, was passed over or is remembered has been taken.
THEOREM Invariance == Spec => []IInv
BY InvInit, InvStep, PTL DEF Spec

\* Type correctness, and the bound of the memory of events: only the batch under
\* way exceeds MAX_DEDUPE_ENTRIES, and what failed streams left behind.
THEOREM TypeCorrect == Spec => []TypeOK
<1>1. ASSUME IInv PROVE TypeOK
  <2>1. Typed /\ Bounded
    BY <1>1 DEF IInv
  <2> QED BY <2>1, Typing DEF Typed, Bounded, TypeOK
<1> QED BY <1>1, Invariance, PTL

\* The cursor of read_events passes no event that was not taken, however long the
\* log, whatever the batches, the memory and the failures: what is missing was in
\* the hand of a stream or a batch that failed.
THEOREM CursorSkipsNothing == Spec => []NothingSkipped
<1>1. ASSUME IInv PROVE NothingSkipped
  <2>1. Typed /\ Covered
    BY <1>1 DEF IInv
  <2> QED BY <2>1, Typing DEF Covered, Handled, NothingSkipped
<1> QED BY <1>1, Invariance, PTL

\* Asking for the cursor's second again, or for what a broken stream had left,
\* repeats and reorders nothing before the memory is pruned.
THEOREM EachEventOnce == Spec => []InOrderOnce
<1>1. ASSUME IInv PROVE InOrderOnce
  <2>1. Typed /\ Exact
    BY <1>1 DEF IInv
  <2>2. InHand \in Seq(Events) /\ Len(log) \in Nat
    BY <2>1, Typing
  <2>3. DOMAIN InHand = 1..Len(InHand)
    BY <2>2, LenProperties
  <2>4. ASSUME NEW m \in 0..Len(log), Handled = 1..m, NEW k \in Range(InHand)
        PROVE  1..k \subseteq Handled
    <3>1. k \in 1..m /\ m \in Nat
      BY <2>2, <2>4 DEF Handled
    <3> QED BY <2>4, <3>1
  <2> QED BY <2>1, <2>3, <2>4 DEF Exact, InOrderOnce, Increasing, Handled
<1> QED BY <1>1, Invariance, PTL
=============================================================================
