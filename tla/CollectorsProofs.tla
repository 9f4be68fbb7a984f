--------------------------- MODULE CollectorsProofs ---------------------------
(***************************************************************************)
(* Theorems about Collectors, for every deployment and every bound,        *)
(* however often the process is started again: the request listener keeps  *)
(* the order of the datagrams and loses only those a full queue refuses,   *)
(* the integrity collector announces every change before it compares with  *)
(* it, the HAProxy collector hands on once what it polls again and again,  *)
(* and the Docker collector has told what it remembers of the ports.       *)
(***************************************************************************)
EXTENDS Collectors, FiniteSetTheorems, SequenceTheorems, TLAPS

-----------------------------------------------------------------------------
\* Increasing sequences of numbers.

Increasing(s) == \A i, j \in 1..Len(s) : i < j => s[i] < s[j]
Below(s, t) == \A i \in 1..Len(s), j \in 1..Len(t) : s[i] < t[j]

LEMMA Appended ==
  ASSUME NEW S \in SUBSET Nat, NEW s \in Seq(S), NEW e \in S
  PROVE  /\ Append(s, e) \in Seq(S) /\ Len(Append(s, e)) = Len(s) + 1 /\ Len(s) \in Nat
         /\ \A i \in 1..Len(Append(s, e)) : Append(s, e)[i] = IF i <= Len(s) THEN s[i] ELSE e
         /\ Range(Append(s, e)) = Range(s) \cup {e}
<1> DEFINE a == Append(s, e)
<1>1. /\ a \in Seq(S) /\ Len(a) = Len(s) + 1 /\ Len(s) \in Nat /\ a[Len(s) + 1] = e
      /\ \A i \in 1..Len(s) : a[i] = s[i]
      /\ DOMAIN a = 1..Len(a) /\ DOMAIN s = 1..Len(s)
  BY AppendProperties, LenProperties
<1> HIDE DEF a
<1>2. \A i \in 1..Len(a) : a[i] = IF i <= Len(s) THEN s[i] ELSE e
  BY <1>1
<1>3. 1..Len(a) = 1..Len(s) \cup {Len(s) + 1}
  BY <1>1
<1>4. Range(a) = Range(s) \cup {e}
  BY <1>1, <1>3 DEF Range
<1> QED BY <1>1, <1>2, <1>4 DEF a

LEMMA Beheaded ==
  ASSUME NEW S, NEW s \in Seq(S), s # <<>>
  PROVE  /\ Head(s) \in S /\ Head(s) = s[1] /\ Tail(s) \in Seq(S)
         /\ Len(s) \in Nat /\ Len(s) >= 1 /\ Len(Tail(s)) = Len(s) - 1
         /\ \A i \in 1..Len(Tail(s)) : i + 1 \in 1..Len(s) /\ Tail(s)[i] = s[i + 1]
         /\ Range(s) = {Head(s)} \cup Range(Tail(s))
<1> DEFINE t == Tail(s)
<1>1. /\ Head(s) \in S /\ t \in Seq(S) /\ Len(t) = Len(s) - 1
      /\ \A i \in 1..Len(t) : t[i] = s[i + 1]
      /\ Len(s) \in Nat /\ Len(s) # 0 /\ Head(s) = s[1]
  BY HeadTailProperties, EmptySeq, LenProperties
<1>2. DOMAIN s = 1..Len(s) /\ DOMAIN t = 1..Len(t)
  BY <1>1, LenProperties
<1> HIDE DEF t
<1>3. Len(s) >= 1 /\ \A i \in 1..Len(t) : i + 1 \in 1..Len(s)
  BY <1>1
<1>4. Range(s) = {Head(s)} \cup Range(t)
  <2>1. ASSUME NEW j \in 1..Len(s) PROVE s[j] \in {Head(s)} \cup Range(t)
    <3>1. CASE j = 1
      BY <1>1, <3>1
    <3>2. CASE j # 1
      <4>1. j - 1 \in 1..Len(t) /\ (j - 1) + 1 = j
        BY <1>1, <3>2
      <4> QED BY <1>1, <1>2, <4>1 DEF Range
    <3> QED BY <3>1, <3>2
  <2>2. Head(s) \in Range(s)
    BY <1>1, <1>2, <1>3 DEF Range
  <2>3. ASSUME NEW i \in 1..Len(t) PROVE t[i] \in Range(s)
    BY <1>1, <1>2, <1>3 DEF Range
  <2> QED BY <1>2, <2>1, <2>2, <2>3 DEF Range
<1> QED BY <1>1, <1>3, <1>4 DEF t

LEMMA Joined ==
  ASSUME NEW S \in SUBSET Nat, NEW s \in Seq(S), NEW t \in Seq(S),
         Increasing(s), Increasing(t), Below(s, t)
  PROVE  s \o t \in Seq(S) /\ Increasing(s \o t) /\ Range(s \o t) = Range(s) \cup Range(t)
<1>1. /\ s \o t \in Seq(S) /\ Len(s \o t) = Len(s) + Len(t) /\ Len(s) \in Nat /\ Len(t) \in Nat
      /\ \A i \in 1..(Len(s) + Len(t)) : (s \o t)[i] = IF i <= Len(s) THEN s[i] ELSE t[i - Len(s)]
  BY ConcatProperties, LenProperties
<1>2. ASSUME NEW i \in 1..(Len(s) + Len(t)), NEW j \in 1..(Len(s) + Len(t)), i < j
      PROVE  (s \o t)[i] < (s \o t)[j]
  <2>1. CASE j <= Len(s)
    <3>1. i \in 1..Len(s) /\ j \in 1..Len(s) /\ i <= Len(s)
      BY <1>1, <1>2, <2>1
    <3> QED BY <1>1, <1>2, <2>1, <3>1 DEF Increasing
  <2>2. CASE j > Len(s) /\ i <= Len(s)
    <3>1. i \in 1..Len(s) /\ j - Len(s) \in 1..Len(t) /\ ~(j <= Len(s))
      BY <1>1, <2>2
    <3> QED BY <1>1, <2>2, <3>1 DEF Below
  <2>3. CASE i > Len(s)
    <3>1. /\ i - Len(s) \in 1..Len(t) /\ j - Len(s) \in 1..Len(t) /\ i - Len(s) < j - Len(s)
          /\ ~(i <= Len(s)) /\ ~(j <= Len(s))
      BY <1>1, <1>2, <2>3
    <3>2. t[i - Len(s)] < t[j - Len(s)]
      BY <3>1 DEF Increasing
    <3> QED BY <1>1, <3>1, <3>2
  <2>4. j <= Len(s) \/ (j > Len(s) /\ i <= Len(s)) \/ i > Len(s)
    BY <1>1
  <2> QED BY <2>1, <2>2, <2>3, <2>4
<1>3. Increasing(s \o t)
  BY <1>1, <1>2 DEF Increasing
<1>4. Range(s \o t) = Range(s) \cup Range(t)
  BY RangeConcatenation
<1> QED BY <1>1, <1>3, <1>4

-----------------------------------------------------------------------------
\* RequestCollector.

Arrived == 1..arrived

RequestTyped ==
  /\ listening \in BOOLEAN /\ arrived \in Nat /\ current \in 0..arrived
  /\ invalid \subseteq Arrived /\ refused \subseteq Arrived /\ failed \subseteq Arrived
  /\ inbox \in Seq(Arrived) /\ served \in Seq(Arrived) /\ Len(inbox) <= Waiting
  /\ ~listening => inbox = <<>> /\ current = 0

\* What was served came before what is with the service, and that before what waits.
RequestOrder ==
  /\ Increasing(served) /\ Increasing(inbox) /\ Below(served, inbox)
  /\ current # 0 => /\ \A i \in 1..Len(served) : served[i] < current
                    /\ \A j \in 1..Len(inbox) : current < inbox[j]

WithService == IF current = 0 THEN {} ELSE {current}
Accounted == Range(served) \cup WithService \cup Range(inbox) \cup invalid \cup refused \cup failed
RequestCover == listening => Arrived = Accounted

RequestInv == RequestTyped /\ RequestOrder /\ RequestCover

LEMMA EmptyRange == Range(<<>>) = {} /\ Len(<<>>) = 0 /\ \A S : <<>> \in Seq(S)
BY EmptySeq DEF Range

LEMMA RequestStart ==
  ASSUME listening = TRUE, arrived = 0, invalid = {}, inbox = <<>>, current = 0,
         served = <<>>, refused = {}, failed = {}
  PROVE  RequestInv
<1>1. RequestTyped
  <2>1. 0 <= Waiting
    BY RequestAssumption
  <2> QED BY <2>1, EmptyRange DEF RequestTyped
<1>2. RequestOrder
  BY EmptyRange DEF RequestOrder, Increasing, Below
<1>3. RequestCover
  BY EmptyRange DEF RequestCover, Accounted, WithService, Arrived
<1> QED BY <1>1, <1>2, <1>3 DEF RequestInv

LEMMA RequestAgain == RequestFresh => RequestInv'
<1> SUFFICES ASSUME RequestFresh PROVE RequestInv'
  OBVIOUS
<1>1. /\ listening' = TRUE /\ arrived' = 0 /\ invalid' = {} /\ inbox' = <<>> /\ current' = 0
      /\ served' = <<>> /\ refused' = {} /\ failed' = {}
  BY DEF RequestFresh
<1>2. RequestTyped'
  <2>1. 0 <= Waiting
    BY RequestAssumption
  <2> QED BY <1>1, <2>1, EmptyRange DEF RequestTyped
<1>3. RequestOrder'
  BY <1>1, EmptyRange DEF RequestOrder, Increasing, Below
<1>4. RequestCover'
  BY <1>1, EmptyRange DEF RequestCover, Accounted, WithService, Arrived
<1> QED BY <1>2, <1>3, <1>4 DEF RequestInv

LEMMA DatagramStep == RequestInv /\ Datagram => RequestInv'
<1> SUFFICES ASSUME RequestInv, Datagram PROVE RequestInv'
  OBVIOUS
<1> DEFINE m == arrived + 1
<1>1. RequestTyped /\ RequestOrder /\ RequestCover
  BY DEF RequestInv
<1>2. /\ listening /\ listening' = listening /\ arrived' = m /\ current' = current
      /\ invalid' \in {invalid, invalid \cup {m}} /\ served' = served /\ failed' = failed
      /\ Put(m)
  BY DEF Datagram
<1>3. arrived \in Nat /\ m \in Nat /\ Arrived' = Arrived \cup {m} /\ \A k \in Arrived : k < m
  BY <1>1, <1>2 DEF RequestTyped, Arrived
<1>4. /\ served \in Seq(Arrived') /\ inbox \in Seq(Arrived') /\ Arrived' \subseteq Nat /\ m \in Arrived'
      /\ Len(served) \in Nat /\ Len(inbox) \in Nat
      /\ \A i \in 1..Len(served) : served[i] < m
      /\ \A i \in 1..Len(inbox) : inbox[i] < m
      /\ current \in Nat /\ current < m
  <2>1. served \in Seq(Arrived) /\ inbox \in Seq(Arrived)
    BY <1>1 DEF RequestTyped
  <2>2. /\ Len(served) \in Nat /\ Len(inbox) \in Nat
        /\ \A i \in 1..Len(served) : served[i] \in Arrived
        /\ \A i \in 1..Len(inbox) : inbox[i] \in Arrived
    BY <2>1, ElementOfSeq, LenProperties
  <2>3. served \in Seq(Arrived') /\ inbox \in Seq(Arrived')
    BY <1>3, <2>1
  <2>4. Arrived' \subseteq Nat
    BY <1>2, <1>3 DEF Arrived
  <2>5. current \in Nat /\ current < m
    BY <1>1 DEF RequestTyped
  <2> QED BY <1>3, <2>2, <2>3, <2>4, <2>5
<1> HIDE DEF m
<1>5. CASE Len(inbox) < Waiting
  <2>1. inbox' = Append(inbox, m) /\ refused' = refused
    BY <1>2, <1>5 DEF Put
  <2>2. /\ inbox' \in Seq(Arrived') /\ Len(inbox') = Len(inbox) + 1
        /\ \A i \in 1..Len(inbox') : inbox'[i] = IF i <= Len(inbox) THEN inbox[i] ELSE m
        /\ Range(inbox') = Range(inbox) \cup {m}
    BY <1>4, <2>1, Appended
  <2>3. RequestTyped'
    <3>1. Len(inbox') <= Waiting
      BY <1>4, <1>5, <2>2, RequestAssumption
    <3>2. current' \in 0..arrived'
      BY <1>2, <1>3, <1>4
    <3> QED BY <1>1, <1>2, <1>3, <1>4, <2>1, <2>2, <3>1, <3>2 DEF RequestTyped
  <2>4. RequestOrder'
    <3>1. ASSUME NEW i \in 1..Len(inbox'), NEW j \in 1..Len(inbox'), i < j PROVE inbox'[i] < inbox'[j]
      <4>1. i \in 1..Len(inbox) /\ i <= Len(inbox)
        BY <1>4, <2>2, <3>1
      <4>2. CASE j <= Len(inbox)
        <5>1. j \in 1..Len(inbox)
          BY <1>4, <4>2
        <5> QED BY <1>1, <2>2, <3>1, <4>1, <4>2, <5>1 DEF RequestOrder, Increasing
      <4>3. CASE ~(j <= Len(inbox))
        BY <1>4, <2>2, <4>1, <4>3
      <4> QED BY <4>2, <4>3
    <3>2. ASSUME NEW i \in 1..Len(served), NEW j \in 1..Len(inbox') PROVE served[i] < inbox'[j]
      <4>1. CASE j <= Len(inbox)
        <5>1. j \in 1..Len(inbox)
          BY <1>4, <4>1
        <5> QED BY <1>1, <2>2, <4>1, <5>1 DEF RequestOrder, Below
      <4>2. CASE ~(j <= Len(inbox))
        BY <1>4, <2>2, <4>2
      <4> QED BY <4>1, <4>2
    <3>3. ASSUME current # 0, NEW j \in 1..Len(inbox') PROVE current < inbox'[j]
      <4>1. CASE j <= Len(inbox)
        <5>1. j \in 1..Len(inbox)
          BY <1>4, <4>1
        <5> QED BY <1>1, <2>2, <3>3, <4>1, <5>1 DEF RequestOrder
      <4>2. CASE ~(j <= Len(inbox))
        BY <1>4, <2>2, <4>2
      <4> QED BY <4>1, <4>2
    <3> QED BY <1>1, <1>2, <3>1, <3>2, <3>3 DEF RequestOrder, Increasing, Below
  <2>5. RequestCover'
    <3>1. Arrived = Accounted
      BY <1>1, <1>2 DEF RequestCover
    <3>2. Accounted' = Accounted \cup {m}
      BY <1>2, <2>1, <2>2 DEF Accounted, WithService
    <3> QED BY <1>3, <3>1, <3>2 DEF RequestCover
  <2> QED BY <2>3, <2>4, <2>5 DEF RequestInv
<1>6. CASE ~(Len(inbox) < Waiting)
  <2>1. inbox' = inbox /\ refused' = refused \cup {m}
    BY <1>2, <1>6 DEF Put
  <2>2. RequestTyped'
    <3>1. current' \in 0..arrived'
      BY <1>2, <1>3, <1>4
    <3> QED BY <1>1, <1>2, <1>3, <1>4, <2>1, <3>1 DEF RequestTyped
  <2>3. RequestOrder'
    BY <1>1, <1>2, <2>1 DEF RequestOrder, Increasing, Below
  <2>4. RequestCover'
    <3>1. Arrived = Accounted
      BY <1>1, <1>2 DEF RequestCover
    <3>2. Accounted' = Accounted \cup {m}
      BY <1>2, <2>1 DEF Accounted, WithService
    <3> QED BY <1>3, <3>1, <3>2 DEF RequestCover
  <2> QED BY <2>2, <2>3, <2>4 DEF RequestInv
<1> QED BY <1>5, <1>6

LEMMA DecodeStep == RequestInv /\ Decode => RequestInv'
<1> SUFFICES ASSUME RequestInv, Decode PROVE RequestInv'
  OBVIOUS
<1>1. RequestTyped /\ RequestOrder /\ RequestCover
  BY DEF RequestInv
<1>2. /\ listening /\ current = 0 /\ inbox # <<>>
      /\ current' = (IF Head(inbox) \in invalid THEN 0 ELSE Head(inbox))
      /\ inbox' = Tail(inbox)
      /\ UNCHANGED <<listening, arrived, invalid, refused, served, failed>>
  BY DEF Decode, received
<1>3. inbox \in Seq(Arrived) /\ Arrived' = Arrived /\ Arrived \subseteq Nat /\ arrived \in Nat
  BY <1>1, <1>2 DEF RequestTyped, Arrived
<1>4. /\ Head(inbox) \in Arrived /\ Head(inbox) = inbox[1] /\ inbox' \in Seq(Arrived)
      /\ Len(inbox) \in Nat /\ Len(inbox) >= 1 /\ Len(inbox') = Len(inbox) - 1
      /\ \A i \in 1..Len(inbox') : i + 1 \in 1..Len(inbox) /\ inbox'[i] = inbox[i + 1]
      /\ Range(inbox) = {Head(inbox)} \cup Range(inbox')
  BY <1>2, <1>3, Beheaded
<1>5. RequestTyped'
  <2>1. Len(inbox') <= Waiting
    BY <1>1, <1>4, RequestAssumption DEF RequestTyped
  <2>2. current' \in 0..arrived
    BY <1>2, <1>3, <1>4 DEF Arrived
  <2> QED BY <1>1, <1>2, <1>3, <1>4, <2>1, <2>2 DEF RequestTyped
<1>6. RequestOrder'
  <2>1. ASSUME NEW i \in 1..Len(inbox'), NEW j \in 1..Len(inbox'), i < j PROVE inbox'[i] < inbox'[j]
    <3>1. i + 1 \in 1..Len(inbox) /\ j + 1 \in 1..Len(inbox) /\ i + 1 < j + 1
      BY <1>4, <2>1
    <3>2. inbox[i + 1] < inbox[j + 1]
      BY <1>1, <3>1 DEF RequestOrder, Increasing
    <3> QED BY <1>4, <3>2
  <2>2. ASSUME NEW i \in 1..Len(served), NEW j \in 1..Len(inbox') PROVE served[i] < inbox'[j]
    BY <1>1, <1>4 DEF RequestOrder, Below
  <2>3. ASSUME current' # 0
        PROVE  /\ \A i \in 1..Len(served) : served[i] < current'
               /\ \A j \in 1..Len(inbox') : current' < inbox'[j]
    <3>1. current' = inbox[1] /\ 1 \in 1..Len(inbox)
      BY <1>2, <1>4, <2>3
    <3>2. ASSUME NEW j \in 1..Len(inbox') PROVE inbox[1] < inbox[j + 1]
      <4>1. 1 < j + 1
        BY <1>4
      <4> QED BY <1>1, <1>4, <3>1, <4>1 DEF RequestOrder, Increasing
    <3> QED BY <1>1, <1>4, <3>1, <3>2 DEF RequestOrder, Below
  <2> QED BY <1>1, <1>2, <2>1, <2>2, <2>3 DEF RequestOrder, Increasing, Below
<1>7. RequestCover'
  <2>1. Arrived = Accounted
    BY <1>1, <1>2 DEF RequestCover
  <2>2. Accounted' = Accounted
    <3>1. CASE Head(inbox) \in invalid
      BY <1>2, <1>4, <3>1 DEF Accounted, WithService
    <3>2. CASE Head(inbox) \notin invalid
      <4>1. Head(inbox) # 0
        BY <1>3, <1>4 DEF Arrived
      <4> QED BY <1>2, <1>4, <3>2, <4>1 DEF Accounted, WithService
    <3> QED BY <3>1, <3>2
  <2> QED BY <1>3, <2>1, <2>2 DEF RequestCover
<1> QED BY <1>5, <1>6, <1>7 DEF RequestInv

LEMMA ServeStep == RequestInv /\ Serve => RequestInv'
<1> SUFFICES ASSUME RequestInv, Serve PROVE RequestInv'
  OBVIOUS
<1>1. RequestTyped /\ RequestOrder /\ RequestCover
  BY DEF RequestInv
<1>2. /\ current # 0 /\ served' = Append(served, current) /\ current' = 0
      /\ UNCHANGED <<listening, arrived, invalid, refused, inbox, failed>>
  BY DEF Serve, received
<1>3. /\ served \in Seq(Arrived) /\ current \in Arrived /\ Arrived' = Arrived
      /\ Arrived \in SUBSET Nat
  BY <1>1, <1>2 DEF RequestTyped, Arrived
<1>4. /\ served' \in Seq(Arrived) /\ Len(served') = Len(served) + 1 /\ Len(served) \in Nat
      /\ \A i \in 1..Len(served') : served'[i] = IF i <= Len(served) THEN served[i] ELSE current
      /\ Range(served') = Range(served) \cup {current}
  BY <1>2, <1>3, Appended
<1>5. RequestTyped'
  <2>1. current' \in 0..arrived
    BY <1>1, <1>2 DEF RequestTyped
  <2> QED BY <1>1, <1>2, <1>3, <1>4, <2>1 DEF RequestTyped
<1>6. RequestOrder'
  <2>1. ASSUME NEW i \in 1..Len(served'), NEW j \in 1..Len(served'), i < j PROVE served'[i] < served'[j]
    <3>1. i \in 1..Len(served) /\ i <= Len(served)
      BY <1>4, <2>1
    <3>2. CASE j <= Len(served)
      <4>1. j \in 1..Len(served)
        BY <1>4, <3>2
      <4> QED BY <1>1, <1>4, <2>1, <3>1, <3>2, <4>1 DEF RequestOrder, Increasing
    <3>3. CASE ~(j <= Len(served))
      BY <1>1, <1>2, <1>4, <3>1, <3>3 DEF RequestOrder
    <3> QED BY <3>2, <3>3
  <2>2. ASSUME NEW i \in 1..Len(served'), NEW j \in 1..Len(inbox) PROVE served'[i] < inbox[j]
    <3>1. CASE i <= Len(served)
      <4>1. i \in 1..Len(served)
        BY <1>4, <3>1
      <4> QED BY <1>1, <1>4, <3>1, <4>1 DEF RequestOrder, Below
    <3>2. CASE ~(i <= Len(served))
      BY <1>1, <1>2, <1>4, <3>2 DEF RequestOrder
    <3> QED BY <3>1, <3>2
  <2> QED BY <1>1, <1>2, <2>1, <2>2 DEF RequestOrder, Increasing, Below
<1>7. RequestCover'
  <2>1. Accounted' = Accounted
    BY <1>2, <1>4 DEF Accounted, WithService
  <2> QED BY <1>1, <1>2, <1>3, <2>1 DEF RequestCover
<1> QED BY <1>5, <1>6, <1>7 DEF RequestInv

LEMMA ServeFailsStep == RequestInv /\ ServeFails => RequestInv'
<1> SUFFICES ASSUME RequestInv, ServeFails PROVE RequestInv'
  OBVIOUS
<1>1. RequestTyped /\ RequestOrder /\ RequestCover
  BY DEF RequestInv
<1>2. /\ current # 0 /\ failed' = failed \cup {current} /\ current' = 0 /\ listening' \in BOOLEAN
      /\ inbox' = (IF listening' THEN inbox ELSE <<>>)
      /\ UNCHANGED <<arrived, invalid, refused, served>>
  BY DEF ServeFails, received
<1>3. current \in Arrived /\ Arrived' = Arrived /\ listening
  BY <1>1, <1>2 DEF RequestTyped, Arrived
<1>4. RequestTyped'
  <2>1. inbox' \in Seq(Arrived) /\ Len(inbox') <= Waiting
    <3>1. 0 <= Waiting
      BY RequestAssumption
    <3> QED BY <1>1, <1>2, <3>1, EmptyRange DEF RequestTyped
  <2>2. current' \in 0..arrived
    BY <1>1, <1>2 DEF RequestTyped
  <2> QED BY <1>1, <1>2, <1>3, <2>1, <2>2 DEF RequestTyped
<1>5. RequestOrder'
  <2>1. CASE listening'
    BY <1>1, <1>2, <2>1 DEF RequestOrder, Increasing, Below
  <2>2. CASE ~listening'
    BY <1>1, <1>2, <2>2, EmptyRange DEF RequestOrder, Increasing, Below
  <2> QED BY <2>1, <2>2
<1>6. RequestCover'
  <2>1. SUFFICES ASSUME listening' PROVE Arrived' = Accounted'
    BY DEF RequestCover
  <2>2. Accounted' = Accounted
    BY <1>2, <2>1 DEF Accounted, WithService
  <2> QED BY <1>1, <1>3, <2>2 DEF RequestCover
<1> QED BY <1>4, <1>5, <1>6 DEF RequestInv

LEMMA RequestQuiet == RequestInv /\ UNCHANGED requests => RequestInv'
<1> SUFFICES ASSUME RequestInv, UNCHANGED requests PROVE RequestInv'
  OBVIOUS
<1> QED BY DEF requests, received, RequestInv, RequestTyped, RequestOrder, RequestCover, Accounted,
           WithService, Arrived, Increasing, Below

\* What is in hand is a sequence in the order of arrival.
LEMMA RequestImplies == RequestInv => RequestTypeOK /\ RequestsInOrder
<1> SUFFICES ASSUME RequestInv PROVE RequestTypeOK /\ RequestsInOrder
  OBVIOUS
<1> DEFINE middle == IF current = 0 THEN <<>> ELSE <<current>>
           first == served \o middle
<1>1. RequestTyped /\ RequestOrder /\ RequestCover
  BY DEF RequestInv
<1>2. /\ served \in Seq(Arrived) /\ inbox \in Seq(Arrived) /\ Arrived \in SUBSET Nat
      /\ Len(served) \in Nat /\ Len(inbox) \in Nat
      /\ current # 0 => current \in Arrived
  <2>1. Arrived \in SUBSET Nat /\ (current # 0 => current \in Arrived)
    BY <1>1 DEF RequestTyped, Arrived
  <2> QED BY <1>1, <2>1, LenProperties DEF RequestTyped
<1>3. /\ middle \in Seq(Arrived) /\ Increasing(middle) /\ Below(served, middle)
      /\ Below(middle, inbox) /\ Range(middle) = WithService
  <2>1. CASE current = 0
    BY <2>1, EmptyRange DEF Increasing, Below, WithService
  <2>2. CASE current # 0
    <3>1. /\ middle = <<current>> /\ middle \in Seq(Arrived) /\ Len(middle) = 1 /\ middle[1] = current
          /\ DOMAIN middle = 1..1
      BY <1>2, <2>2
    <3>2. 1..Len(middle) = {1} /\ 1..1 = {1}
      BY <3>1
    <3> HIDE DEF middle
    <3>3. Increasing(middle)
      BY <3>1, <3>2 DEF Increasing
    <3>4. Below(served, middle) /\ Below(middle, inbox)
      BY <1>1, <2>2, <3>1, <3>2 DEF Below, RequestOrder
    <3>5. Range(middle) = {current}
      BY <3>1, <3>2 DEF Range
    <3> QED BY <2>2, <3>1, <3>3, <3>4, <3>5 DEF WithService
  <2> QED BY <2>1, <2>2
<1> HIDE DEF middle
<1>4. first \in Seq(Arrived) /\ Increasing(first) /\ Range(first) = Range(served) \cup WithService
  BY <1>1, <1>2, <1>3, Joined DEF RequestOrder
<1>5. Below(first, inbox)
  <2>1. /\ Len(first) = Len(served) + Len(middle) /\ Len(middle) \in Nat
        /\ \A i \in 1..(Len(served) + Len(middle)) :
             first[i] = IF i <= Len(served) THEN served[i] ELSE middle[i - Len(served)]
    BY <1>2, <1>3, ConcatProperties, LenProperties
  <2> HIDE DEF first
  <2>2. ASSUME NEW i \in 1..Len(first), NEW j \in 1..Len(inbox) PROVE first[i] < inbox[j]
    <3>1. CASE i <= Len(served)
      <4>1. i \in 1..Len(served)
        BY <1>2, <3>1
      <4> QED BY <1>1, <2>1, <3>1, <4>1 DEF RequestOrder, Below
    <3>2. CASE ~(i <= Len(served))
      <4>1. i - Len(served) \in 1..Len(middle)
        BY <1>2, <2>1, <3>2
      <4> QED BY <1>3, <2>1, <3>2, <4>1 DEF Below
    <3> QED BY <3>1, <3>2
  <2> QED BY <2>2 DEF Below
<1>6. Taken = first \o inbox
  BY <1>2, <1>3, ConcatAssociative DEF Taken, middle
<1>7. /\ Taken \in Seq(Arrived) /\ Increasing(Taken)
      /\ Range(Taken) = Range(served) \cup WithService \cup Range(inbox)
  <2> HIDE DEF first
  <2> QED BY <1>1, <1>2, <1>4, <1>5, <1>6, Joined DEF RequestOrder
<1>8. DOMAIN Taken = 1..Len(Taken) /\ \A i \in 1..Len(Taken) : Taken[i] \in Arrived
  BY <1>7, ElementOfSeq, LenProperties
<1>9. RequestTypeOK
  BY <1>1, <1>8 DEF RequestTypeOK, RequestTyped, Arrived, Range
<1>10. RequestsInOrder
  <2>1. \A i, j \in DOMAIN Taken : i < j => Taken[i] < Taken[j]
    BY <1>7, <1>8 DEF Increasing
  <2>2. listening => Arrived = Range(Taken) \cup invalid \cup refused \cup failed
    BY <1>1, <1>7 DEF RequestCover, Accounted
  <2> QED BY <2>1, <2>2 DEF RequestsInOrder, Arrived
<1> QED BY <1>9, <1>10

-----------------------------------------------------------------------------
\* IntegrityCollector.

Found == [subject : Subjects, state : Contents \cup {Gone}]

\* Every difference gets into the findings.
LEMMA AllFound ==
  ASSUME NEW S, IsFiniteSet(S), NEW q \in SetToSeqs(S)
  PROVE  q \in Seq(S) /\ Range(q) = S
<1> DEFINE n == Cardinality(S)
<1>1. n \in Nat
  BY FS_CardinalityType
<1>2. /\ q \in [1..n -> S]
      /\ \A i, j \in 1..n : i # j => q[i] # q[j]
  BY DEF SetToSeqs
<1>3. q \in Seq(S)
  BY <1>1, <1>2
<1>4. Range(q) \in SUBSET S /\ q \in [1..n -> Range(q)]
  BY <1>2 DEF Range
<1>5. q \in Bijection(1..n, Range(q))
  BY <1>2, <1>4 DEF Bijection, Injection, Surjection, IsInjective, Range
<1>6. IsFiniteSet(1..n) /\ Cardinality(1..n) = n
  BY <1>1, FS_Interval
<1>7. Cardinality(Range(q)) = n
  BY <1>5, <1>6, FS_Bijection DEF ExistsBijection
<1>8. Range(q) = S
  BY <1>4, <1>7, FS_Subset
<1> QED BY <1>3, <1>8

LEMMA DifferencesFinite ==
  ASSUME NEW T, IsFiniteSet(T), NEW now
  PROVE  IsFiniteSet(Differences(T, now))
<1> DEFINE U == {s \in T : now[s] # remembered[s]}
           f == [s \in U |-> [subject |-> s, state |-> now[s]]]
<1>1. IsFiniteSet(U)
  BY FS_Subset
<1>2. f \in Surjection(U, Differences(T, now))
  BY DEF Surjection, Differences
<1> QED BY <1>1, <1>2, FS_Surjection

IntegrityTyped ==
  /\ actual \in State /\ remembered \in State /\ announced \in State
  /\ snapshot \in [phase : {"rest", "containers", "hash", "files", "stopped"},
                   inventory : [Containers -> Contents \cup {Gone}], stored : BOOLEAN]
  /\ findings \in Seq(Found)
  /\ findings # <<>> => snapshot.phase \in {"containers", "files"}
  /\ snapshot.stored => findings # <<>>
  /\ excused \subseteq Subjects

Same(subjects) == \A s \in subjects \ excused : remembered[s] = announced[s]

\* What a comparison has found and not yet announced is still among the findings.
ToAnnounce(subjects, now) ==
  /\ \A k \in 1..Len(findings) : findings[k].subject \in subjects
  /\ \A k, l \in 1..Len(findings) :
       findings[k].subject = findings[l].subject => findings[k].state = findings[l].state
  /\ \A s \in subjects \ excused :
       /\ \A k \in 1..Len(findings) : findings[k].subject = s => findings[k].state = now[s]
       /\ announced[s] = now[s] \/ \E k \in 1..Len(findings) : findings[k].subject = s

IntegrityHeld ==
  /\ snapshot.phase \in {"rest", "hash"} => Same(Subjects)
  /\ snapshot.phase = "containers" => Same(Files) /\ ToAnnounce(Containers, snapshot.inventory)
                                      /\ \A k \in 1..Len(findings) :
                                           findings[k].state = snapshot.inventory[findings[k].subject]
  /\ snapshot.phase = "files" => Same(Containers) /\ ToAnnounce(Files, actual)

IntegrityInv == IntegrityTyped /\ IntegrityHeld

LEMMA RestingTyped ==
  Resting \in [phase : {"rest"}, inventory : [Containers -> Contents \cup {Gone}], stored : {FALSE}]
BY DEF Resting

LEMMA IntegrityStart == IntegrityInit => IntegrityInv
<1> SUFFICES ASSUME IntegrityInit PROVE IntegrityInv
  OBVIOUS
<1>1. actual \in State
  BY IntegrityAssumption DEF IntegrityInit, State
<1>2. remembered \in State /\ announced = remembered
  BY DEF IntegrityInit, State
<1>3. snapshot = Resting /\ findings = <<>> /\ excused = {}
  BY DEF IntegrityInit
<1> QED BY <1>1, <1>2, <1>3, RestingTyped, EmptyRange DEF IntegrityInv, IntegrityTyped, IntegrityHeld, Same

LEMMA IntegrityAgain == IntegrityInv /\ IntegrityFresh => IntegrityInv'
<1> SUFFICES ASSUME IntegrityInv, IntegrityFresh PROVE IntegrityInv'
  OBVIOUS
<1>1. actual' \in State /\ remembered' \in State /\ announced' = remembered'
  BY DEF IntegrityInv, IntegrityTyped, IntegrityFresh, State
<1>2. snapshot' = Resting /\ findings' = <<>> /\ excused' = {}
  BY DEF IntegrityFresh
<1>3. IntegrityTyped'
  BY <1>1, <1>2, RestingTyped, EmptyRange DEF IntegrityTyped
<1>4. IntegrityHeld'
  BY <1>1, <1>2, RestingTyped DEF IntegrityHeld, Same
<1> QED BY <1>3, <1>4 DEF IntegrityInv

LEMMA AlterStep == ASSUME NEW s \in Subjects PROVE IntegrityInv /\ Alter(s) => IntegrityInv'
<1> SUFFICES ASSUME IntegrityInv, Alter(s) PROVE IntegrityInv'
  OBVIOUS
<1>1. IntegrityTyped /\ IntegrityHeld
  BY DEF IntegrityInv
<1>2. PICK x \in Contents \cup {Gone} : actual' = [actual EXCEPT ![s] = x]
  BY DEF Alter
<1>3. /\ excused' = (IF s \in Files /\ snapshot.phase = "files" THEN excused \cup {s} ELSE excused)
      /\ UNCHANGED <<remembered, snapshot, findings, announced>>
  BY DEF Alter
<1>4. IntegrityTyped'
  <2>1. actual' \in State
    BY <1>1, <1>2 DEF IntegrityTyped, State
  <2>2. excused' \subseteq Subjects
    BY <1>1, <1>3 DEF IntegrityTyped
  <2> QED BY <1>1, <1>3, <2>1, <2>2 DEF IntegrityTyped
<1>5. IntegrityHeld'
  <2>1. CASE snapshot.phase # "files"
    <3>1. excused' = excused
      BY <1>3, <2>1
    <3> QED BY <1>1, <1>3, <2>1, <3>1 DEF IntegrityHeld, Same, ToAnnounce
  <2>2. CASE snapshot.phase = "files"
    <3>1. Same(Containers) /\ ToAnnounce(Files, actual)
      BY <1>1, <2>2 DEF IntegrityHeld
    <3>2. \A t \in Files \ excused' : t \in Files \ excused /\ actual'[t] = actual[t]
      BY <1>1, <1>2, <1>3, <2>2 DEF IntegrityTyped, State, Subjects
    <3>3. \A c \in Containers \ excused' : c \in Containers \ excused
      BY <1>3
    <3> QED BY <1>3, <2>2, <3>1, <3>2, <3>3 DEF IntegrityHeld, Same, ToAnnounce
  <2> QED BY <2>1, <2>2
<1> QED BY <1>4, <1>5 DEF IntegrityInv

\* The findings of a comparison.
LEMMA Comparison ==
  ASSUME IntegrityTyped, NEW subjects, IsFiniteSet(subjects), subjects \subseteq Subjects,
         Same(subjects), findings' \in SetToSeqs(Differences(subjects, actual)),
         UNCHANGED <<announced, excused>>
  PROVE  /\ findings' \in Seq(Found)
         /\ \A k \in 1..Len(findings') :
              /\ findings'[k].subject \in subjects
              /\ findings'[k].state = actual[findings'[k].subject]
         /\ \A s \in subjects \ excused :
              announced[s] = actual[s] \/ \E k \in 1..Len(findings') : findings'[k].subject = s
<1> DEFINE D == Differences(subjects, actual)
<1>1. findings' \in Seq(D) /\ Range(findings') = D
  BY DifferencesFinite, AllFound
<1>2. D \subseteq Found /\ \A d \in D : d.subject \in subjects /\ d.state = actual[d.subject]
  BY DEF Differences, Found, IntegrityTyped, State
<1>3. DOMAIN findings' = 1..Len(findings') /\ \A k \in 1..Len(findings') : findings'[k] \in D
  BY <1>1, ElementOfSeq, LenProperties
<1>4. findings' \in Seq(Found)
  BY <1>1, <1>2
<1>5. ASSUME NEW s \in subjects \ excused, announced[s] # actual[s]
      PROVE  \E k \in 1..Len(findings') : findings'[k].subject = s
  <2>1. actual[s] # remembered[s]
    BY <1>5 DEF Same
  <2>2. [subject |-> s, state |-> actual[s]] \in D
    BY <2>1 DEF Differences
  <2>3. PICK k \in 1..Len(findings') : findings'[k] = [subject |-> s, state |-> actual[s]]
    BY <1>1, <1>3, <2>2 DEF Range
  <2> QED BY <2>3
<1> HIDE DEF D
<1> QED BY <1>2, <1>3, <1>4, <1>5

LEMMA InventoryStep == IntegrityInv /\ Inventory => IntegrityInv'
<1> SUFFICES ASSUME IntegrityInv, Inventory PROVE IntegrityInv'
  OBVIOUS
<1>1. IntegrityTyped /\ IntegrityHeld
  BY DEF IntegrityInv
<1>2. /\ snapshot.phase = "rest"
      /\ snapshot' = [Resting EXCEPT !.phase = "containers", !.inventory = [c \in Containers |-> actual[c]]]
      /\ findings' \in SetToSeqs(Differences(Containers, actual))
      /\ UNCHANGED <<actual, remembered, announced, excused>>
  BY DEF Inventory
<1>3. /\ snapshot'.phase = "containers" /\ snapshot'.stored = FALSE
      /\ \A c \in Containers : snapshot'.inventory[c] = actual[c]
      /\ snapshot' \in [phase : {"containers"}, inventory : [Containers -> Contents \cup {Gone}], stored : BOOLEAN]
  <2>1. [c \in Containers |-> actual[c]] \in [Containers -> Contents \cup {Gone}]
    BY <1>1 DEF IntegrityTyped, State, Subjects
  <2> QED BY <1>2, <2>1, RestingTyped
<1>4. Same(Files) /\ Same(Containers)
  BY <1>1, <1>2 DEF IntegrityHeld, Same, Subjects
<1>5. /\ findings' \in Seq(Found)
      /\ \A k \in 1..Len(findings') :
           findings'[k].subject \in Containers /\ findings'[k].state = actual[findings'[k].subject]
      /\ \A s \in Containers \ excused :
           announced[s] = actual[s] \/ \E k \in 1..Len(findings') : findings'[k].subject = s
  BY <1>1, <1>2, <1>4, Comparison, IntegrityAssumption DEF Subjects
<1>6. IntegrityTyped'
  BY <1>1, <1>2, <1>3, <1>5 DEF IntegrityTyped
<1>7. IntegrityHeld'
  <2>1. \A k \in 1..Len(findings') :
          findings'[k].subject \in Containers /\ findings'[k].state = snapshot'.inventory[findings'[k].subject]
    BY <1>3, <1>5
  <2>2. ToAnnounce(Containers, snapshot.inventory)'
    <3>1. \A s \in Containers \ excused :
            announced[s] = snapshot'.inventory[s] \/ \E k \in 1..Len(findings') : findings'[k].subject = s
      BY <1>3, <1>5
    <3>2. \A k, l \in 1..Len(findings') :
            findings'[k].subject = findings'[l].subject => findings'[k].state = findings'[l].state
      BY <2>1
    <3>3. \A s \in Containers : \A k \in 1..Len(findings') :
            findings'[k].subject = s => findings'[k].state = snapshot'.inventory[s]
      BY <2>1
    <3>4. excused' = excused /\ announced' = announced
      BY <1>2
    <3> QED BY <2>1, <3>1, <3>2, <3>3, <3>4 DEF ToAnnounce
  <2> QED BY <1>2, <1>3, <1>4, <2>1, <2>2 DEF IntegrityHeld, Same
<1> QED BY <1>6, <1>7 DEF IntegrityInv

LEMMA HashFilesStep == IntegrityInv /\ HashFiles => IntegrityInv'
<1> SUFFICES ASSUME IntegrityInv, HashFiles PROVE IntegrityInv'
  OBVIOUS
<1>1. IntegrityTyped /\ IntegrityHeld
  BY DEF IntegrityInv
<1>2. /\ snapshot.phase = "hash" /\ snapshot' = [Resting EXCEPT !.phase = "files"]
      /\ findings' \in SetToSeqs(Differences(Files, actual))
      /\ UNCHANGED <<actual, remembered, announced, excused>>
  BY DEF HashFiles
<1>3. /\ snapshot'.phase = "files" /\ snapshot'.stored = FALSE
      /\ snapshot' \in [phase : {"files"}, inventory : [Containers -> Contents \cup {Gone}], stored : BOOLEAN]
  BY <1>2, RestingTyped
<1>4. Same(Files) /\ Same(Containers)
  BY <1>1, <1>2 DEF IntegrityHeld, Same, Subjects
<1>5. /\ findings' \in Seq(Found)
      /\ \A k \in 1..Len(findings') :
           findings'[k].subject \in Files /\ findings'[k].state = actual[findings'[k].subject]
      /\ \A s \in Files \ excused :
           announced[s] = actual[s] \/ \E k \in 1..Len(findings') : findings'[k].subject = s
  BY <1>1, <1>2, <1>4, Comparison, IntegrityAssumption DEF Subjects
<1>6. IntegrityTyped'
  BY <1>1, <1>2, <1>3, <1>5 DEF IntegrityTyped
<1>7. IntegrityHeld'
  BY <1>2, <1>3, <1>4, <1>5 DEF IntegrityHeld, Same, ToAnnounce
<1> QED BY <1>6, <1>7 DEF IntegrityInv

LEMMA InventoryFailsStep == IntegrityInv /\ InventoryFails => IntegrityInv'
<1> SUFFICES ASSUME IntegrityInv, InventoryFails PROVE IntegrityInv'
  OBVIOUS
<1>1. IntegrityTyped /\ IntegrityHeld
  BY DEF IntegrityInv
<1>2. /\ snapshot.phase = "rest" /\ snapshot' = [Resting EXCEPT !.phase = "hash"]
      /\ UNCHANGED <<actual, remembered, findings, announced, excused>>
  BY DEF InventoryFails
<1>3. /\ snapshot'.phase = "hash" /\ snapshot'.stored = FALSE
      /\ snapshot' \in [phase : {"hash"}, inventory : [Containers -> Contents \cup {Gone}], stored : BOOLEAN]
  BY <1>2, RestingTyped
<1>4. IntegrityTyped'
  BY <1>1, <1>2, <1>3 DEF IntegrityTyped
<1>5. IntegrityHeld'
  BY <1>1, <1>2, <1>3 DEF IntegrityHeld, Same
<1> QED BY <1>4, <1>5 DEF IntegrityInv

LEMMA ProcessStep == IntegrityInv /\ Process => IntegrityInv'
<1> SUFFICES ASSUME IntegrityInv, Process PROVE IntegrityInv'
  OBVIOUS
<1>1. IntegrityTyped /\ IntegrityHeld
  BY DEF IntegrityInv
<1>2. /\ findings # <<>> /\ snapshot' = [snapshot EXCEPT !.stored = TRUE]
      /\ UNCHANGED <<actual, remembered, findings, announced, excused>>
  BY DEF Process
<1>3. snapshot'.phase = snapshot.phase /\ snapshot'.inventory = snapshot.inventory
  BY <1>1, <1>2 DEF IntegrityTyped
<1>4. IntegrityTyped'
  BY <1>1, <1>2, <1>3 DEF IntegrityTyped
<1>5. IntegrityHeld'
  BY <1>1, <1>2, <1>3 DEF IntegrityHeld, Same, ToAnnounce
<1> QED BY <1>4, <1>5 DEF IntegrityInv

LEMMA RecordStep == IntegrityInv /\ Record => IntegrityInv'
<1> SUFFICES ASSUME IntegrityInv, Record PROVE IntegrityInv'
  OBVIOUS
<1> DEFINE f == Head(findings)
<1>1. IntegrityTyped /\ IntegrityHeld
  BY DEF IntegrityInv
<1>2. /\ findings # <<>> /\ announced' = [announced EXCEPT ![f.subject] = f.state]
      /\ excused' = (IF f.subject \in Files /\ actual[f.subject] # f.state
                     THEN excused ELSE excused \ {f.subject})
      /\ findings' = Tail(findings) /\ snapshot' = [snapshot EXCEPT !.stored = FALSE]
      /\ UNCHANGED <<actual, remembered>>
  BY DEF Record
<1>3. /\ f \in Found /\ f = findings[1] /\ 1 \in 1..Len(findings) /\ findings' \in Seq(Found)
      /\ \A k \in 1..Len(findings') : k + 1 \in 1..Len(findings) /\ findings'[k] = findings[k + 1]
      /\ \A k \in 1..Len(findings) : k = 1 \/ \E l \in 1..Len(findings') : findings'[l] = findings[k]
  <2>1. findings \in Seq(Found)
    BY <1>1 DEF IntegrityTyped
  <2>2. /\ f \in Found /\ f = findings[1] /\ findings' \in Seq(Found)
        /\ Len(findings) \in Nat /\ Len(findings) >= 1 /\ Len(findings') = Len(findings) - 1
        /\ \A k \in 1..Len(findings') : k + 1 \in 1..Len(findings) /\ findings'[k] = findings[k + 1]
    BY <1>2, <2>1, Beheaded
  <2>3. ASSUME NEW k \in 1..Len(findings), k # 1
        PROVE  \E l \in 1..Len(findings') : findings'[l] = findings[k]
    <3>1. k - 1 \in 1..Len(findings') /\ (k - 1) + 1 = k
      BY <2>2, <2>3
    <3> QED BY <2>2, <3>1
  <2> HIDE DEF f
  <2>4. 1 \in 1..Len(findings)
    BY <2>2
  <2> QED BY <2>2, <2>3, <2>4
<1>4. /\ snapshot'.phase = snapshot.phase /\ snapshot'.inventory = snapshot.inventory
      /\ snapshot'.stored = FALSE /\ snapshot.phase \in {"containers", "files"}
  BY <1>1, <1>2 DEF IntegrityTyped
<1> HIDE DEF f
<1>5. /\ f.subject \in Subjects /\ f.state \in Contents \cup {Gone}
      /\ announced'[f.subject] = f.state
      /\ \A s \in Subjects : s # f.subject => announced'[s] = announced[s]
      /\ announced' \in State
  BY <1>1, <1>2, <1>3 DEF IntegrityTyped, State, Found
<1>6. IntegrityTyped'
  <2>1. excused' \subseteq Subjects
    BY <1>1, <1>2 DEF IntegrityTyped
  <2>2. snapshot' \in [phase : {"rest", "containers", "hash", "files", "stopped"},
                       inventory : [Containers -> Contents \cup {Gone}], stored : BOOLEAN]
    BY <1>1, <1>2 DEF IntegrityTyped
  <2> QED BY <1>1, <1>2, <1>3, <1>4, <1>5, <2>1, <2>2 DEF IntegrityTyped
<1>7. ASSUME snapshot.phase = "containers" PROVE IntegrityHeld'
  <2>1. /\ Same(Files) /\ ToAnnounce(Containers, snapshot.inventory)
        /\ \A k \in 1..Len(findings) : findings[k].state = snapshot.inventory[findings[k].subject]
    BY <1>1, <1>7 DEF IntegrityHeld
  <2>2. f.subject \in Containers /\ f.subject \notin Files /\ f.state = snapshot.inventory[f.subject]
    BY <1>3, <2>1, IntegrityAssumption DEF ToAnnounce
  <2>3. excused' = excused \ {f.subject}
    BY <1>2, <2>2
  <2>4. Same(Files)'
    BY <1>2, <1>5, <2>1, <2>2, <2>3 DEF Same, Subjects
  <2>5. ASSUME NEW k \in 1..Len(findings')
        PROVE  /\ findings'[k].subject \in Containers
               /\ findings'[k].state = snapshot.inventory[findings'[k].subject]
    <3>1. k + 1 \in 1..Len(findings) /\ findings'[k] = findings[k + 1]
      BY <1>3
    <3>2. /\ findings[k + 1].subject \in Containers
          /\ findings[k + 1].state = snapshot.inventory[findings[k + 1].subject]
      BY <2>1, <3>1 DEF ToAnnounce
    <3> QED BY <3>1, <3>2
  <2>6. ASSUME NEW s \in Containers \ excused'
        PROVE  announced'[s] = snapshot.inventory[s] \/ \E k \in 1..Len(findings') : findings'[k].subject = s
    <3>1. CASE s = f.subject
      BY <1>5, <2>2, <3>1
    <3>2. CASE s # f.subject
      <4>1. s \in Containers \ excused
        BY <2>3, <2>6, <3>2
      <4>2. announced[s] = snapshot.inventory[s] \/ \E k \in 1..Len(findings) : findings[k].subject = s
        BY <2>1, <4>1 DEF ToAnnounce
      <4>3. announced'[s] = announced[s]
        BY <1>5, <3>2 DEF Subjects
      <4>4. ASSUME NEW k \in 1..Len(findings), findings[k].subject = s
            PROVE  \E l \in 1..Len(findings') : findings'[l].subject = s
        <5>1. k # 1
          BY <1>3, <3>2, <4>4
        <5>2. PICK l \in 1..Len(findings') : findings'[l] = findings[k]
          BY <1>3, <5>1
        <5> QED BY <4>4, <5>2
      <4> QED BY <4>2, <4>3, <4>4
    <3> QED BY <3>1, <3>2
  <2>7. ToAnnounce(Containers, snapshot.inventory)'
    BY <1>4, <2>5, <2>6 DEF ToAnnounce
  <2> QED BY <1>4, <1>7, <2>4, <2>5, <2>7 DEF IntegrityHeld
<1>8. ASSUME snapshot.phase = "files" PROVE IntegrityHeld'
  <2>1. Same(Containers) /\ ToAnnounce(Files, actual)
    BY <1>1, <1>8 DEF IntegrityHeld
  <2>2. f.subject \in Files /\ f.subject \notin Containers
    BY <1>3, <2>1, IntegrityAssumption DEF ToAnnounce
  <2>3. Same(Containers)'
    BY <1>2, <1>5, <2>1, <2>2 DEF Same, Subjects
  <2>4. /\ \A k \in 1..Len(findings') : findings'[k].subject \in Files
        /\ \A k, l \in 1..Len(findings') :
             findings'[k].subject = findings'[l].subject => findings'[k].state = findings'[l].state
        /\ \A k \in 1..Len(findings') : findings'[k].subject = f.subject => findings'[k].state = f.state
    <3>1. /\ \A k \in 1..Len(findings) : findings[k].subject \in Files
          /\ \A k, l \in 1..Len(findings) :
               findings[k].subject = findings[l].subject => findings[k].state = findings[l].state
      BY <2>1 DEF ToAnnounce
    <3>2. \A k \in 1..Len(findings') : findings'[k].subject \in Files
      BY <1>3, <3>1
    <3>3. ASSUME NEW k \in 1..Len(findings'), NEW l \in 1..Len(findings'),
                 findings'[k].subject = findings'[l].subject
          PROVE  findings'[k].state = findings'[l].state
      <4>1. /\ k + 1 \in 1..Len(findings) /\ findings'[k] = findings[k + 1]
            /\ l + 1 \in 1..Len(findings) /\ findings'[l] = findings[l + 1]
        BY <1>3
      <4>2. findings[k + 1].subject = findings[l + 1].subject
        BY <3>3, <4>1
      <4>3. findings[k + 1].state = findings[l + 1].state
        BY <3>1, <4>1, <4>2
      <4> QED BY <4>1, <4>3
    <3>4. ASSUME NEW k \in 1..Len(findings'), findings'[k].subject = f.subject
          PROVE  findings'[k].state = f.state
      BY <1>3, <3>1, <3>4
    <3> QED BY <3>2, <3>3, <3>4
  <2>5. ASSUME NEW s \in Files \ excused'
        PROVE  /\ \A k \in 1..Len(findings') : findings'[k].subject = s => findings'[k].state = actual[s]
               /\ announced'[s] = actual[s] \/ \E k \in 1..Len(findings') : findings'[k].subject = s
    <3>1. CASE s = f.subject
      <4>1. f.state = actual[s]
        <5>1. CASE actual[f.subject] # f.state
          <6>1. s \notin excused
            BY <1>2, <2>2, <2>5, <5>1
          <6> QED BY <1>3, <2>1, <2>5, <3>1, <6>1 DEF ToAnnounce
        <5> QED BY <3>1, <5>1
      <4> QED BY <1>5, <2>4, <3>1, <4>1
    <3>2. CASE s # f.subject
      <4>1. s \in Files \ excused
        BY <1>2, <2>5, <3>2
      <4>2. /\ \A k \in 1..Len(findings) : findings[k].subject = s => findings[k].state = actual[s]
            /\ announced[s] = actual[s] \/ \E k \in 1..Len(findings) : findings[k].subject = s
        BY <2>1, <4>1 DEF ToAnnounce
      <4>3. announced'[s] = announced[s]
        BY <1>5, <3>2 DEF Subjects
      <4>4. ASSUME NEW k \in 1..Len(findings), findings[k].subject = s
            PROVE  \E l \in 1..Len(findings') : findings'[l].subject = s
        <5>1. k # 1
          BY <1>3, <3>2, <4>4
        <5>2. PICK l \in 1..Len(findings') : findings'[l] = findings[k]
          BY <1>3, <5>1
        <5> QED BY <4>4, <5>2
      <4>5. \A k \in 1..Len(findings') : findings'[k].subject = s => findings'[k].state = actual[s]
        BY <1>3, <4>2
      <4> QED BY <4>2, <4>3, <4>4, <4>5
    <3> QED BY <3>1, <3>2
  <2>6. ToAnnounce(Files, actual)'
    BY <1>2, <2>4, <2>5 DEF ToAnnounce
  <2> QED BY <1>4, <1>8, <2>3, <2>6 DEF IntegrityHeld
<1> QED BY <1>4, <1>6, <1>7, <1>8 DEF IntegrityInv

LEMMA FindingFailsStep == IntegrityInv /\ FindingFails => IntegrityInv'
<1> SUFFICES ASSUME IntegrityInv, FindingFails PROVE IntegrityInv'
  OBVIOUS
<1>1. IntegrityTyped /\ IntegrityHeld
  BY DEF IntegrityInv
<1>2. /\ findings # <<>> /\ findings' = <<>>
      /\ snapshot' = [Resting EXCEPT !.phase = IF snapshot.phase = "containers" THEN "hash" ELSE "stopped"]
      /\ excused' = (IF snapshot.phase = "containers"
                     THEN excused \cup {c \in Containers : announced[c] # remembered[c]} ELSE excused)
      /\ UNCHANGED <<actual, remembered, announced>>
  BY DEF FindingFails
<1>3. /\ snapshot'.phase = (IF snapshot.phase = "containers" THEN "hash" ELSE "stopped")
      /\ snapshot'.stored = FALSE
      /\ snapshot' \in [phase : {"hash", "stopped"}, inventory : [Containers -> Contents \cup {Gone}],
                        stored : BOOLEAN]
  BY <1>2, RestingTyped
<1>4. IntegrityTyped'
  <2>1. excused' \subseteq Subjects
    BY <1>1, <1>2 DEF IntegrityTyped, Subjects
  <2> QED BY <1>1, <1>2, <1>3, <2>1, EmptyRange DEF IntegrityTyped
<1>5. IntegrityHeld'
  <2>1. CASE snapshot.phase = "containers"
    <3>1. Same(Files)
      BY <1>1, <2>1 DEF IntegrityHeld
    <3>2. \A s \in Subjects \ excused' : remembered[s] = announced[s]
      BY <1>2, <2>1, <3>1 DEF Same, Subjects
    <3> QED BY <1>2, <1>3, <2>1, <3>2 DEF IntegrityHeld, Same
  <2>2. CASE snapshot.phase # "containers"
    BY <1>3, <2>2 DEF IntegrityHeld
  <2> QED BY <2>1, <2>2
<1> QED BY <1>4, <1>5 DEF IntegrityInv

LEMMA ContainersDoneStep == IntegrityInv /\ ContainersDone => IntegrityInv'
<1> SUFFICES ASSUME IntegrityInv, ContainersDone PROVE IntegrityInv'
  OBVIOUS
<1>1. IntegrityTyped /\ IntegrityHeld
  BY DEF IntegrityInv
<1>2. /\ snapshot.phase = "containers" /\ findings = <<>>
      /\ remembered' = [s \in Subjects |->
           IF s \in Containers THEN snapshot.inventory[s] ELSE remembered[s]]
      /\ snapshot' = [Resting EXCEPT !.phase = "hash"]
      /\ UNCHANGED <<actual, findings, announced, excused>>
  BY DEF ContainersDone
<1>3. /\ snapshot'.phase = "hash" /\ snapshot'.stored = FALSE
      /\ snapshot' \in [phase : {"hash"}, inventory : [Containers -> Contents \cup {Gone}], stored : BOOLEAN]
  BY <1>2, RestingTyped
<1>4. IntegrityTyped'
  <2>1. remembered' \in State
    BY <1>1, <1>2 DEF IntegrityTyped, State
  <2> QED BY <1>1, <1>2, <1>3, <2>1 DEF IntegrityTyped
<1>5. IntegrityHeld'
  <2>1. Same(Files) /\ ToAnnounce(Containers, snapshot.inventory)
    BY <1>1, <1>2 DEF IntegrityHeld
  <2>2. \A c \in Containers \ excused : announced[c] = snapshot.inventory[c]
    <3>1. 1..Len(findings) = {}
      BY <1>2, EmptyRange
    <3> QED BY <2>1, <3>1 DEF ToAnnounce
  <2>3. \A s \in Subjects \ excused : remembered'[s] = announced[s]
    BY <1>2, <2>1, <2>2 DEF Same, Subjects
  <2> QED BY <1>2, <1>3, <2>3 DEF IntegrityHeld, Same
<1> QED BY <1>4, <1>5 DEF IntegrityInv

LEMMA RehashFilesStep == IntegrityInv /\ RehashFiles => IntegrityInv'
<1> SUFFICES ASSUME IntegrityInv, RehashFiles PROVE IntegrityInv'
  OBVIOUS
<1>1. IntegrityTyped /\ IntegrityHeld
  BY DEF IntegrityInv
<1>2. /\ snapshot.phase = "files" /\ findings = <<>>
      /\ remembered' = [s \in Subjects |-> IF s \in Files THEN actual[s] ELSE remembered[s]]
      /\ snapshot' = Resting
      /\ UNCHANGED <<actual, findings, announced, excused>>
  BY DEF RehashFiles, Rehashed
<1>3. /\ snapshot'.phase = "rest" /\ snapshot'.stored = FALSE
      /\ snapshot' \in [phase : {"rest"}, inventory : [Containers -> Contents \cup {Gone}], stored : BOOLEAN]
  BY <1>2, RestingTyped
<1>4. IntegrityTyped'
  <2>1. remembered' \in State
    BY <1>1, <1>2 DEF IntegrityTyped, State
  <2> QED BY <1>1, <1>2, <1>3, <2>1 DEF IntegrityTyped
<1>5. IntegrityHeld'
  <2>1. Same(Containers) /\ ToAnnounce(Files, actual)
    BY <1>1, <1>2 DEF IntegrityHeld
  <2>2. \A s \in Files \ excused : announced[s] = actual[s]
    <3>1. 1..Len(findings) = {}
      BY <1>2, EmptyRange
    <3> QED BY <2>1, <3>1 DEF ToAnnounce
  <2>3. \A s \in Subjects \ excused : remembered'[s] = announced[s]
    BY <1>2, <2>1, <2>2 DEF Same, Subjects
  <2> QED BY <1>2, <1>3, <2>3 DEF IntegrityHeld, Same
<1> QED BY <1>4, <1>5 DEF IntegrityInv

LEMMA IntegrityQuiet == IntegrityInv /\ UNCHANGED integrity => IntegrityInv'
BY DEF integrity, IntegrityInv, IntegrityTyped, IntegrityHeld, Same, ToAnnounce

LEMMA IntegrityImplies == IntegrityInv => IntegrityTypeOK /\ ChangesAnnounced
BY DEF IntegrityInv, IntegrityTyped, IntegrityHeld, IntegrityTypeOK, ChangesAnnounced, Same


-----------------------------------------------------------------------------
\* Least elements, induction, and what a fold computes.

LEMMA LeastElement ==
  ASSUME NEW S \in SUBSET Nat, S # {}
  PROVE  \E m \in S : \A n \in S : m <= n
<1> DEFINE R == {x \in Nat \X Nat : x[1] < x[2]}
<1>1. IsWellFoundedOn(R, Nat)
  BY NatLessThanWellFounded DEF OpToRel
<1>2. PICK m \in S : \A n \in S : <<n, m>> \notin R
  <2> HIDE DEF R
  <2> QED BY <1>1, WFMin
<1>3. \A n \in S : <<n, m>> \in Nat \X Nat
  OBVIOUS
<1>4. \A n \in S : ~(n < m)
  BY <1>2, <1>3
<1> QED BY <1>4

LEMMA Induction ==
  ASSUME NEW S, 0 \in S, \A n \in Nat : n \in S => n + 1 \in S
  PROVE  Nat \subseteq S
<1> SUFFICES ASSUME Nat \ S # {} PROVE FALSE
  OBVIOUS
<1>1. PICK m \in Nat \ S : \A n \in Nat \ S : m <= n
  BY LeastElement
<1>2. m # 0 /\ m - 1 \in Nat
  BY <1>1
<1>3. m - 1 \in S
  BY <1>1, <1>2
<1> QED BY <1>1, <1>2, <1>3

\* The greatest of some of the first numbers.
LEMMA MaxIs ==
  ASSUME NEW b \in Nat, NEW S \in SUBSET (1..b), S # {}
  PROVE  Max(S) \in S /\ \A n \in S : Max(S) >= n
<1> DEFINE T == {b - n : n \in S}
<1>1. T \in SUBSET Nat /\ T # {}
  <2>1. \A n \in S : b - n \in Nat
    OBVIOUS
  <2> QED BY <2>1
<1>2. PICK m \in T : \A n \in T : m <= n
  BY <1>1, LeastElement
<1>3. PICK k \in S : m = b - k
  OBVIOUS
<1>4. \A n \in S : n <= k
  <2>1. \A n \in S : b - k <= b - n
    BY <1>2, <1>3
  <2> QED BY <2>1
<1>5. \E x \in S : \A n \in S : x >= n
  BY <1>4
<1> QED BY <1>5 DEF Max

\* What FoldLeft computes on the first k places, for every set of them.
IsFolding(g, k, S, start, step, s) ==
  /\ g \in [SUBSET (1..k) -> S]
  /\ \A T \in SUBSET (1..k) :
       g[T] = IF T = {} THEN start ELSE step[s[Max(T)]][g[T \ {Max(T)}]]

LEMMA MaxOf ==
  ASSUME NEW k \in Nat, NEW T \in SUBSET (1..(k + 1)), k + 1 \in T
  PROVE  Max(T) = k + 1 /\ T \ {k + 1} \in SUBSET (1..k)
<1>1. \A y \in T : k + 1 >= y
  OBVIOUS
<1>2. \A x \in T : (\A y \in T : x >= y) => x = k + 1
  BY <1>1
<1>3. Max(T) \in T /\ \A y \in T : Max(T) >= y
  BY <1>1 DEF Max
<1>4. Max(T) = k + 1
  BY <1>2, <1>3
<1>5. \A x \in 1..(k + 1) : x # k + 1 => x \in 1..k
  OBVIOUS
<1> QED BY <1>4, <1>5

LEMMA FoldingExists ==
  ASSUME NEW S, NEW E, NEW s \in Seq(E), NEW start \in S, NEW step \in [E -> [S -> S]]
  PROVE  \E g : IsFolding(g, Len(s), S, start, step, s)
<1> DEFINE P == {k \in Nat : k <= Len(s) => \E g : IsFolding(g, k, S, start, step, s)}
<1>1. 0 \in P
  <2>1. SUBSET (1..0) = {{}}
    OBVIOUS
  <2>2. IsFolding([T \in SUBSET (1..0) |-> start], 0, S, start, step, s)
    BY <2>1 DEF IsFolding
  <2> QED BY <2>2
<1>2. ASSUME NEW k \in Nat, k \in P PROVE k + 1 \in P
  <2> SUFFICES ASSUME k + 1 <= Len(s)
               PROVE  \E g : IsFolding(g, k + 1, S, start, step, s)
    OBVIOUS
  <2>1. PICK g : IsFolding(g, k, S, start, step, s)
    BY <1>2, LenProperties
  <2>2. s[k + 1] \in E
    BY ElementOfSeq
  <2> DEFINE h == [T \in SUBSET (1..(k + 1)) |->
                     IF k + 1 \in T THEN step[s[k + 1]][g[T \ {k + 1}]] ELSE g[T]]
  <2>3. \A T \in SUBSET (1..(k + 1)) : k + 1 \notin T => T \in SUBSET (1..k)
    OBVIOUS
  <2>4. \A T \in SUBSET (1..(k + 1)) : h[T] \in S
    <3> SUFFICES ASSUME NEW T \in SUBSET (1..(k + 1)) PROVE h[T] \in S
      OBVIOUS
    <3>1. CASE k + 1 \in T
      <4>1. g[T \ {k + 1}] \in S
        BY <2>1, <3>1, MaxOf DEF IsFolding
      <4> QED BY <2>2, <3>1, <4>1
    <3>2. CASE k + 1 \notin T
      BY <2>1, <2>3, <3>2 DEF IsFolding
    <3> QED BY <3>1, <3>2
  <2>5. ASSUME NEW T \in SUBSET (1..(k + 1))
        PROVE  h[T] = IF T = {} THEN start ELSE step[s[Max(T)]][h[T \ {Max(T)}]]
    <3>1. CASE k + 1 \in T
      <4>1. /\ Max(T) = k + 1 /\ T # {} /\ T \ {k + 1} \in SUBSET (1..(k + 1))
            /\ k + 1 \notin T \ {k + 1}
        BY <3>1, MaxOf
      <4> QED BY <3>1, <4>1
    <3>2. CASE k + 1 \notin T
      <4>1. T \in SUBSET (1..k) /\ h[T] = g[T]
        BY <2>3, <3>2
      <4>2. T \ {Max(T)} \in SUBSET (1..k) /\ T \ {Max(T)} \in SUBSET (1..(k + 1))
        BY <4>1
      <4>3. k + 1 \notin T \ {Max(T)}
        BY <3>2
      <4>4. h[T \ {Max(T)}] = g[T \ {Max(T)}]
        BY <4>2, <4>3
      <4> HIDE DEF h
      <4> QED BY <2>1, <4>1, <4>4 DEF IsFolding
    <3> QED BY <3>1, <3>2
  <2>6. h \in [SUBSET (1..(k + 1)) -> S]
    BY <2>4
  <2> HIDE DEF h
  <2> QED BY <2>5, <2>6 DEF IsFolding
<1>3. Nat \subseteq P
  <2> HIDE DEF P
  <2> QED BY <1>1, <1>2, Induction
<1> QED BY <1>3, LenProperties

\* it computes as FoldLeft does, as long as it stays in S.
Follows(it, N, S, start, step, s) ==
  \A T \in SUBSET (1..N) :
    /\ T = {} => it[T] = start
    /\ T # {} /\ it[T \ {Max(T)}] \in S => it[T] = step[s[Max(T)]][it[T \ {Max(T)}]]

\* What it has computed after each element.
IsChain(h, N, S, start, step, s) ==
  /\ h \in [0..N -> S]
  /\ h[0] = start
  /\ \A n \in 1..N : h[n] = step[s[n]][h[n - 1]]

\* Then it takes one element after the other.
LEMMA FoldChain ==
  ASSUME NEW S, NEW E, NEW s \in Seq(E), NEW start \in S, NEW step \in [E -> [S -> S]],
         NEW it, Follows(it, Len(s), S, start, step, s)
  PROVE  \E h : IsChain(h, Len(s), S, start, step, s) /\ it[1..Len(s)] = h[Len(s)]
<1> DEFINE N == Len(s)
           h == [n \in 0..N |-> it[1..n]]
           P == {n \in Nat : n <= N => h[n] \in S}
<1>1. N \in Nat /\ \A n \in 1..N : s[n] \in E
  BY LenProperties, ElementOfSeq
<1>2. h[0] = start
  <2>1. 1..0 = {} /\ 0 \in 0..N
    BY <1>1
  <2> QED BY <2>1 DEF Follows
<1>3. ASSUME NEW n \in 1..N, h[n - 1] \in S PROVE h[n] = step[s[n]][h[n - 1]] /\ h[n] \in S
  <2>1. /\ n - 1 \in Nat /\ n = (n - 1) + 1 /\ n \in 0..N /\ n - 1 \in 0..N
        /\ n \in 1..n /\ 1..n \in SUBSET (1..n) /\ 1..n \in SUBSET (1..N)
    BY <1>1
  <2>2. Max(1..n) = n
    BY <2>1, MaxOf
  <2>3. (1..n) \ {n} = 1..(n - 1)
    BY <2>1
  <2>4. it[(1..n) \ {Max(1..n)}] \in S
    BY <1>3, <2>1, <2>2, <2>3
  <2>5. it[1..n] = step[s[Max(1..n)]][it[(1..n) \ {Max(1..n)}]]
    BY <2>1, <2>4 DEF Follows
  <2>6. h[n] = it[1..n] /\ h[n - 1] = it[1..(n - 1)]
    BY <2>1
  <2>7. h[n] = step[s[n]][h[n - 1]]
    BY <2>2, <2>3, <2>5, <2>6
  <2>8. step[s[n]] \in [S -> S]
    BY <1>1
  <2> HIDE DEF h
  <2> QED BY <1>3, <2>7, <2>8
<1>4. \A n \in 0..N : h[n] \in S
  <2>1. 0 \in P
    BY <1>2
  <2>2. ASSUME NEW n \in Nat, n \in P PROVE n + 1 \in P
    <3> SUFFICES ASSUME n + 1 <= N PROVE h[n + 1] \in S
      OBVIOUS
    <3>1. n + 1 \in 1..N /\ (n + 1) - 1 = n /\ h[n] \in S
      BY <1>1, <2>2
    <3> HIDE DEF h
    <3> QED BY <1>3, <3>1
  <2>3. Nat \subseteq P
    <3> HIDE DEF P
    <3> QED BY <2>1, <2>2, Induction
  <2> HIDE DEF h
  <2> QED BY <1>1, <2>3
<1>5. h \in [0..N -> S] /\ it[1..N] = h[N]
  BY <1>1, <1>4
<1>6. \A n \in 1..N : h[n] = step[s[n]][h[n - 1]]
  <2>1. \A n \in 1..N : n - 1 \in 0..N
    BY <1>1
  <2> HIDE DEF h
  <2> QED BY <1>3, <1>4, <2>1
<1> HIDE DEF h
<1> QED BY <1>2, <1>5, <1>6 DEF IsChain

-----------------------------------------------------------------------------
\* The lines of a poll, one after the other.

LineState == [known : SUBSET Keys, new : Seq(Keys), full : BOOLEAN]

LEMMA LineTyped ==
  ASSUME NEW st \in LineState, NEW key \in Keys PROVE Line(st, key) \in LineState
BY AppendProperties DEF Line, LineState, Remember

\* h: what the first lines make of the memory.
IsReading(h, lines, start) ==
  /\ h \in [0..Len(lines) -> LineState]
  /\ h[0] = start
  /\ \A n \in 1..Len(lines) : h[n] = Line(h[n - 1], lines[n])
  /\ FoldLeft(Line, start, lines) = h[Len(lines)]

\* The lines one after the other.
LEMMA LinesFolded ==
  ASSUME NEW lines \in Seq(Keys), NEW start \in LineState
  PROVE  \E h : IsReading(h, lines, start)
<1> DEFINE N == Len(lines)
           IsIt(g) == g = [T \in SUBSET (DOMAIN lines) |->
                         IF T = {} THEN start ELSE Line(g[T \ {Max(T)}], lines[Max(T)])]
           it == CHOOSE g : IsIt(g)
           step == [key \in Keys |-> [st \in LineState |-> Line(st, key)]]
<1>1. N \in Nat /\ DOMAIN lines = 1..N /\ \A n \in 1..N : lines[n] \in Keys
  BY LenProperties, ElementOfSeq
<1>2. FoldLeft(Line, start, lines) = it[DOMAIN lines]
  BY DEF FoldLeft, MapThenFoldSet
<1>3. step \in [Keys -> [LineState -> LineState]]
  BY LineTyped
<1>4. \A key \in Keys, st \in LineState : step[key][st] = Line(st, key)
  OBVIOUS
<1> HIDE DEF step
<1>5. PICK g : IsFolding(g, N, LineState, start, step, lines)
  BY <1>3, FoldingExists
<1>6. \A T \in SUBSET (1..N) : T # {} => Max(T) \in T /\ lines[Max(T)] \in Keys
  BY <1>1, MaxIs
<1>7. IsIt(g)
  <2>1. ASSUME NEW T \in SUBSET (1..N)
        PROVE  g[T] = IF T = {} THEN start ELSE Line(g[T \ {Max(T)}], lines[Max(T)])
    <3>1. T \ {Max(T)} \in SUBSET (1..N)
      OBVIOUS
    <3>2. g[T \ {Max(T)}] \in LineState
      BY <1>5, <3>1 DEF IsFolding
    <3> QED BY <1>4, <1>5, <1>6, <3>2 DEF IsFolding
  <2>2. g = [T \in SUBSET (1..N) |-> g[T]]
    BY <1>5 DEF IsFolding
  <2> HIDE DEF N
  <2> QED BY <1>1, <2>1, <2>2
<1>8. IsIt(it)
  BY <1>7
<1> HIDE DEF it
<1>9. Follows(it, N, LineState, start, step, lines)
  <2>1. ASSUME NEW T \in SUBSET (1..N)
        PROVE  it[T] = IF T = {} THEN start ELSE Line(it[T \ {Max(T)}], lines[Max(T)])
    BY <1>1, <1>8
  <2> QED BY <1>4, <1>6, <2>1 DEF Follows
<1>10. PICK h : IsChain(h, N, LineState, start, step, lines) /\ it[1..N] = h[N]
  BY <1>3, <1>9, FoldChain
<1>11. \A n \in 1..N : h[n] = Line(h[n - 1], lines[n])
  <2>1. \A n \in 1..N : n - 1 \in 0..N
    BY <1>1
  <2> QED BY <1>1, <1>4, <1>10, <2>1 DEF IsChain
<1> QED BY <1>1, <1>2, <1>10, <1>11 DEF IsChain, IsReading

\* What the first n lines have made of the memory.
Reading(st, n, lines) ==
  /\ st \in LineState /\ Cardinality(st.known) <= MaxMemory
  /\ \A i \in 1..Len(st.new) : \E m \in 1..n : st.new[i] = lines[m]
  /\ \A i, j \in 1..Len(st.new) : st.new[i] = st.new[j] => i = j
  /\ \A k \in st.known : k \in memory \/ \E i \in 1..Len(st.new) : st.new[i] = k
  /\ ~st.full => /\ \A k \in memory : k \in st.known
                 /\ \A i \in 1..Len(st.new) : st.new[i] \in st.known /\ st.new[i] \notin memory

LEMMA ReadingLine ==
  ASSUME NEW lines \in Seq(Keys), \A i, j \in 1..Len(lines) : i # j => lines[i] # lines[j],
         NEW n \in Nat, n + 1 \in 1..Len(lines), NEW st, Reading(st, n, lines)
  PROVE  Reading(Line(st, lines[n + 1]), n + 1, lines)
<1> DEFINE key == lines[n + 1]
           next == Line(st, key)
<1>1. /\ st \in LineState /\ Cardinality(st.known) <= MaxMemory
      /\ \A i \in 1..Len(st.new) : \E m \in 1..n : st.new[i] = lines[m]
      /\ \A i, j \in 1..Len(st.new) : st.new[i] = st.new[j] => i = j
      /\ \A k \in st.known : k \in memory \/ \E i \in 1..Len(st.new) : st.new[i] = k
      /\ ~st.full => /\ \A k \in memory : k \in st.known
                     /\ \A i \in 1..Len(st.new) : st.new[i] \in st.known /\ st.new[i] \notin memory
  BY DEF Reading
<1>2. /\ Len(lines) \in Nat /\ n + 1 <= Len(lines) /\ key \in Keys
      /\ \A m \in 1..n : m \in 1..(n + 1) /\ m \in 1..Len(lines) /\ lines[m] # key
  <2>1. \A m \in 1..n : m \in 1..(n + 1) /\ m \in 1..Len(lines) /\ m # n + 1
    BY LenProperties
  <2> QED BY <2>1, LenProperties, ElementOfSeq
<1> HIDE DEF key
<1>3. CASE key \in st.known
  <2>1. next = st
    BY <1>3 DEF Line
  <2> QED BY <1>1, <1>2, <2>1 DEF Reading, key
<1>4. CASE key \notin st.known
  <2>1. st.known \subseteq Keys /\ st.new \in Seq(Keys) /\ st.full \in BOOLEAN /\ Len(st.new) \in Nat
    BY <1>1, LenProperties DEF LineState
  <2>2. /\ next.known = Remember(st.known, key)
        /\ next.new = Append(st.new, key)
        /\ next.full = (st.full \/ Cardinality(st.known) >= MaxMemory)
    BY <1>4 DEF Line
  <2>3. next \in LineState
    BY <1>1, <1>2, LineTyped
  <2>4. Cardinality(next.known) <= MaxMemory
    <3>1. IsFiniteSet(st.known) /\ IsFiniteSet({}) /\ Cardinality({}) = 0 /\ Cardinality(st.known) \in Nat
      BY <2>1, ProxyAssumption, FS_Subset, FS_EmptySet, FS_CardinalityType
    <3>2. Cardinality(st.known \cup {key}) = Cardinality(st.known) + 1
      BY <1>4, <3>1, FS_AddElement
    <3>3. Cardinality({} \cup {key}) = 1
      <4>1. {} \cup {key} = {key}
        OBVIOUS
      <4> QED BY <4>1, FS_Singleton
    <3>4. CASE Cardinality(st.known) >= MaxMemory
      BY <2>2, <3>3, <3>4, ProxyAssumption DEF Remember
    <3>5. CASE ~(Cardinality(st.known) >= MaxMemory)
      BY <2>2, <3>1, <3>2, <3>5, ProxyAssumption DEF Remember
    <3> QED BY <3>4, <3>5
  <2> DEFINE new == next.new
             L == Len(st.new)
  <2>5. /\ Len(new) = L + 1 /\ new[L + 1] = key /\ \A i \in 1..L : new[i] = st.new[i]
    BY <1>2, <2>1, <2>2, AppendProperties
  <2>6. /\ \A i \in 1..Len(new) : i \in 1..L \/ i = L + 1
        /\ \A i \in 1..L : i \in 1..Len(new)
        /\ L + 1 \in 1..Len(new)
    BY <2>1, <2>5
  <2>7. \A i \in 1..L : st.new[i] # key
    BY <1>1, <1>2
  <2> HIDE DEF next, new, L
  <2>8. \A i \in 1..Len(new) : \E m \in 1..(n + 1) : new[i] = lines[m]
    <3>1. n + 1 \in 1..(n + 1) /\ key = lines[n + 1]
      BY DEF key
    <3>2. ASSUME NEW i \in 1..L PROVE \E m \in 1..(n + 1) : new[i] = lines[m]
      BY <1>1, <1>2, <2>5 DEF L
    <3> QED BY <2>5, <2>6, <3>1, <3>2
  <2>9. \A i, j \in 1..Len(new) : new[i] = new[j] => i = j
    <3>1. \A i, j \in 1..L : new[i] = new[j] => i = j
      BY <1>1, <2>5 DEF L
    <3> QED BY <2>5, <2>6, <2>7, <3>1
  <2>10. \A k \in next.known : k \in memory \/ \E i \in 1..Len(new) : new[i] = k
    <3>1. \A k \in next.known : k = key \/ k \in st.known
      BY <2>2 DEF Remember
    <3>2. ASSUME NEW k \in st.known, k \notin memory PROVE \E i \in 1..Len(new) : new[i] = k
      <4>1. PICK i \in 1..L : st.new[i] = k
        BY <1>1, <3>2 DEF L
      <4> QED BY <2>5, <2>6, <4>1
    <3> QED BY <2>5, <2>6, <3>1, <3>2
  <2>11. ASSUME ~next.full
         PROVE  /\ \A k \in memory : k \in next.known
                /\ \A i \in 1..Len(new) : new[i] \in next.known /\ new[i] \notin memory
    <3>1. ~st.full /\ next.known = st.known \cup {key}
      BY <2>2, <2>11 DEF Remember
    <3>2. key \notin memory
      BY <1>1, <1>4, <3>1
    <3>3. \A i \in 1..L : new[i] \in next.known /\ new[i] \notin memory
      BY <1>1, <2>5, <3>1 DEF L
    <3> QED BY <1>1, <2>5, <2>6, <3>1, <3>2, <3>3
  <2> QED BY <2>3, <2>4, <2>8, <2>9, <2>10, <2>11 DEF Reading, next, new, key
<1> QED BY <1>3, <1>4

LEMMA AllRead ==
  ASSUME memory \subseteq Keys, Cardinality(memory) <= MaxMemory,
         NEW lines \in Seq(Keys), \A i, j \in 1..Len(lines) : i # j => lines[i] # lines[j]
  PROVE  Reading(FoldLeft(Line, [known |-> memory, new |-> <<>>, full |-> FALSE], lines), Len(lines), lines)
<1> DEFINE start == [known |-> memory, new |-> <<>>, full |-> FALSE]
<1>1. start \in LineState
  BY EmptyRange DEF LineState
<1>2. Reading(start, 0, lines)
  BY <1>1, EmptyRange DEF Reading
<1> HIDE DEF start
<1>3. PICK h : IsReading(h, lines, start)
  BY <1>1, LinesFolded
<1> DEFINE P == {n \in Nat : n <= Len(lines) => Reading(h[n], n, lines)}
<1>4. 0 \in P
  BY <1>2, <1>3 DEF IsReading
<1>5. ASSUME NEW n \in Nat, n \in P PROVE n + 1 \in P
  <2> SUFFICES ASSUME n + 1 <= Len(lines) PROVE Reading(h[n + 1], n + 1, lines)
    OBVIOUS
  <2>1. n + 1 \in 1..Len(lines) /\ (n + 1) - 1 = n /\ Reading(h[n], n, lines)
    BY <1>5, LenProperties
  <2>2. h[n + 1] = Line(h[n], lines[n + 1])
    BY <1>3, <2>1 DEF IsReading
  <2>3. Reading(Line(h[n], lines[n + 1]), n + 1, lines)
    BY <2>1, ReadingLine
  <2> QED BY <2>2, <2>3
<1>6. Nat \subseteq P
  <2> HIDE DEF P
  <2> QED BY <1>4, <1>5, Induction
<1>7. Reading(h[Len(lines)], Len(lines), lines)
  BY <1>6, LenProperties
<1> QED BY <1>3, <1>7 DEF IsReading, start

-----------------------------------------------------------------------------
\* What a batch tells.

Event == [what : {"active_session", "proxy_error"}, of : Keys \cup Rows, count : Nat]

\* What the n events of a sequence tell about x.
Value(e, what, x) == IF e.what = what /\ e.of = x THEN e.count ELSE 0
Owed(q, what, x) ==
  FoldLeft(LAMBDA sum, e : IF e.what = what /\ e.of = x THEN sum + e.count ELSE sum, 0, q)

LEMMA ValueNat == \A what, x : \A e \in Event : Value(e, what, x) \in Nat
BY DEF Event, Value

\* h: what the first events tell.
IsCounting(h, q, what, x) ==
  /\ h \in [0..Len(q) -> Nat]
  /\ h[0] = 0
  /\ \A n \in 1..Len(q) : h[n] = h[n - 1] + Value(q[n], what, x)
  /\ Owed(q, what, x) = h[Len(q)]

\* The events one after the other.
LEMMA OwedFolded ==
  ASSUME NEW q \in Seq(Event), NEW what, NEW x
  PROVE  \E h : IsCounting(h, q, what, x)
<1> DEFINE N == Len(q)
           Plus(sum, e) == IF e.what = what /\ e.of = x THEN sum + e.count ELSE sum
           IsIt(g) == g = [T \in SUBSET (DOMAIN q) |->
                         IF T = {} THEN 0 ELSE Plus(g[T \ {Max(T)}], q[Max(T)])]
           it == CHOOSE g : IsIt(g)
           step == [e \in Event |-> [sum \in Nat |-> Plus(sum, e)]]
<1>1. N \in Nat /\ DOMAIN q = 1..N /\ \A n \in 1..N : q[n] \in Event
  BY LenProperties, ElementOfSeq
<1>2. Owed(q, what, x) = it[DOMAIN q]
  BY DEF Owed, FoldLeft, MapThenFoldSet
<1>3. step \in [Event -> [Nat -> Nat]]
  BY DEF Event
<1>4. \A e \in Event, sum \in Nat : step[e][sum] = Plus(sum, e) /\ Plus(sum, e) = sum + Value(e, what, x)
  BY DEF Event, Value
<1> HIDE DEF step, Plus
<1>5. PICK g : IsFolding(g, N, Nat, 0, step, q)
  BY <1>3, FoldingExists
<1>6. \A T \in SUBSET (1..N) : T # {} => Max(T) \in T /\ q[Max(T)] \in Event
  BY <1>1, MaxIs
<1>7. IsIt(g)
  <2>1. ASSUME NEW T \in SUBSET (1..N)
        PROVE  g[T] = IF T = {} THEN 0 ELSE Plus(g[T \ {Max(T)}], q[Max(T)])
    <3>1. T \ {Max(T)} \in SUBSET (1..N)
      OBVIOUS
    <3>2. g[T \ {Max(T)}] \in Nat
      BY <1>5, <3>1 DEF IsFolding
    <3> QED BY <1>4, <1>5, <1>6, <3>2 DEF IsFolding
  <2>2. g = [T \in SUBSET (1..N) |-> g[T]]
    BY <1>5 DEF IsFolding
  <2> HIDE DEF N
  <2> QED BY <1>1, <2>1, <2>2
<1>8. IsIt(it)
  BY <1>7
<1> HIDE DEF it
<1>9. Follows(it, N, Nat, 0, step, q)
  <2>1. ASSUME NEW T \in SUBSET (1..N)
        PROVE  it[T] = IF T = {} THEN 0 ELSE Plus(it[T \ {Max(T)}], q[Max(T)])
    BY <1>1, <1>8
  <2> QED BY <1>4, <1>6, <2>1 DEF Follows
<1>10. PICK h : IsChain(h, N, Nat, 0, step, q) /\ it[1..N] = h[N]
  BY <1>3, <1>9, FoldChain
<1>11. \A n \in 1..N : h[n] = h[n - 1] + Value(q[n], what, x)
  <2>1. \A n \in 1..N : n - 1 \in 0..N
    BY <1>1
  <2> QED BY <1>1, <1>4, <1>10, <2>1 DEF IsChain
<1> QED BY <1>1, <1>2, <1>10, <1>11 DEF IsChain, IsCounting

LEMMA OwedType == ASSUME NEW q \in Seq(Event), NEW what, NEW x PROVE Owed(q, what, x) \in Nat
<1>1. PICK h : IsCounting(h, q, what, x)
  BY OwedFolded
<1> QED BY <1>1, LenProperties DEF IsCounting

\* Events that are about something else tell nothing.
LEMMA OwedNone ==
  ASSUME NEW q \in Seq(Event), NEW what, NEW x, \A n \in 1..Len(q) : Value(q[n], what, x) = 0
  PROVE  Owed(q, what, x) = 0
<1>1. PICK h : IsCounting(h, q, what, x)
  BY OwedFolded
<1> DEFINE P == {n \in Nat : n <= Len(q) => h[n] = 0}
<1>2. 0 \in P
  BY <1>1 DEF IsCounting
<1>3. ASSUME NEW n \in Nat, n \in P PROVE n + 1 \in P
  <2> SUFFICES ASSUME n + 1 <= Len(q) PROVE h[n + 1] = 0
    OBVIOUS
  <2>1. n + 1 \in 1..Len(q) /\ (n + 1) - 1 = n /\ h[n] = 0
    BY <1>3, LenProperties
  <2> QED BY <1>1, <2>1 DEF IsCounting
<1>4. Nat \subseteq P
  <2> HIDE DEF P
  <2> QED BY <1>2, <1>3, Induction
<1> QED BY <1>1, <1>4, LenProperties DEF IsCounting

\* Of events of which one is about x, that one tells.
LEMMA OwedOne ==
  ASSUME NEW q \in Seq(Event), NEW what, NEW x, NEW m \in 1..Len(q),
         \A n \in 1..Len(q) : n # m => Value(q[n], what, x) = 0
  PROVE  Owed(q, what, x) = Value(q[m], what, x)
<1> DEFINE v == Value(q[m], what, x)
<1>1. PICK h : IsCounting(h, q, what, x)
  BY OwedFolded
<1>2. Len(q) \in Nat /\ v \in Nat
  BY LenProperties, ElementOfSeq, ValueNat
<1> DEFINE P == {n \in Nat : n <= Len(q) => h[n] = IF n < m THEN 0 ELSE v}
<1>3. 0 \in P
  BY <1>1 DEF IsCounting
<1>4. ASSUME NEW n \in Nat, n \in P PROVE n + 1 \in P
  <2> SUFFICES ASSUME n + 1 <= Len(q) PROVE h[n + 1] = IF n + 1 < m THEN 0 ELSE v
    OBVIOUS
  <2>1. n + 1 \in 1..Len(q) /\ (n + 1) - 1 = n /\ h[n] = IF n < m THEN 0 ELSE v
    BY <1>2, <1>4
  <2>2. h[n + 1] = h[n] + Value(q[n + 1], what, x)
    BY <1>1, <2>1 DEF IsCounting
  <2>3. CASE n + 1 = m
    BY <1>2, <2>1, <2>2, <2>3
  <2>4. CASE n + 1 # m
    <3>1. Value(q[n + 1], what, x) = 0
      BY <2>1, <2>4
    <3> HIDE DEF v
    <3> QED BY <1>2, <2>1, <2>2, <2>4, <3>1
  <2> QED BY <2>3, <2>4
<1>5. Nat \subseteq P
  <2> HIDE DEF P
  <2> QED BY <1>3, <1>4, Induction
<1>6. Len(q) \in P /\ ~(Len(q) < m)
  BY <1>2, <1>5
<1> QED BY <1>1, <1>6 DEF IsCounting

\* The first event tells its part, the others theirs.
LEMMA OwedHead ==
  ASSUME NEW q \in Seq(Event), NEW what, NEW x, q # <<>>
  PROVE  Owed(q, what, x) = Value(Head(q), what, x) + Owed(Tail(q), what, x)
<1> DEFINE t == Tail(q)
           v == Value(Head(q), what, x)
<1>1. /\ Head(q) \in Event /\ Head(q) = q[1] /\ t \in Seq(Event)
      /\ Len(q) \in Nat /\ Len(q) >= 1 /\ Len(t) = Len(q) - 1
      /\ \A i \in 1..Len(t) : i + 1 \in 1..Len(q) /\ t[i] = q[i + 1]
  BY Beheaded
<1> HIDE DEF t
<1>2. PICK h : IsCounting(h, q, what, x)
  BY OwedFolded
<1>3. PICK g : IsCounting(g, t, what, x)
  BY <1>1, OwedFolded
<1>4. v \in Nat
  BY <1>1, ValueNat
<1> DEFINE P == {n \in Nat : n <= Len(t) => h[n + 1] = v + g[n]}
<1>5. 0 \in P
  <2>1. 1 \in 1..Len(q) /\ 1 - 1 = 0
    BY <1>1
  <2>2. h[1] = h[0] + Value(q[1], what, x)
    BY <1>2, <2>1 DEF IsCounting
  <2> QED BY <1>1, <1>2, <1>3, <1>4, <2>2 DEF IsCounting
<1>6. ASSUME NEW n \in Nat, n \in P PROVE n + 1 \in P
  <2> SUFFICES ASSUME n + 1 <= Len(t) PROVE h[(n + 1) + 1] = v + g[n + 1]
    OBVIOUS
  <2>1. /\ n + 1 \in 1..Len(t) /\ (n + 1) - 1 = n /\ h[n + 1] = v + g[n]
        /\ (n + 1) + 1 \in 1..Len(q) /\ ((n + 1) + 1) - 1 = n + 1 /\ n \in 0..Len(t)
    BY <1>1, <1>6
  <2>2. t[n + 1] = q[(n + 1) + 1]
    BY <1>1, <2>1
  <2>3. h[(n + 1) + 1] = h[n + 1] + Value(t[n + 1], what, x)
    BY <1>2, <2>1, <2>2 DEF IsCounting
  <2>4. g[n + 1] = g[n] + Value(t[n + 1], what, x)
    BY <1>3, <2>1 DEF IsCounting
  <2>5. g[n] \in Nat /\ Value(t[n + 1], what, x) \in Nat
    <3>1. t[n + 1] \in Event
      BY <1>1, <2>1, ElementOfSeq
    <3> QED BY <1>3, <2>1, <3>1, ValueNat DEF IsCounting
  <2> HIDE DEF v
  <2> QED BY <1>4, <2>1, <2>3, <2>4, <2>5
<1>7. Nat \subseteq P
  <2> HIDE DEF P
  <2> QED BY <1>5, <1>6, Induction
<1>8. Len(t) \in P /\ Len(t) + 1 = Len(q) /\ Len(t) \in Nat
  BY <1>1, <1>7
<1> QED BY <1>2, <1>3, <1>8 DEF t, IsCounting

-----------------------------------------------------------------------------
\* The sessions and counters of HAProxy.

WorldTyped ==
  open \subseteq Keys /\ errors \in [Rows -> Nat] /\ total \in [Rows -> Nat] /\ reset \in BOOLEAN
MemoryTyped ==
  /\ memory \subseteq Keys /\ Cardinality(memory) <= MaxMemory
  /\ memoryCleared \in BOOLEAN /\ lost \in BOOLEAN
ReadTyped ==
  /\ DOMAIN previous \subseteq Rows
  /\ previous \in [DOMAIN previous -> Nat] /\ base \in [DOMAIN previous -> Nat]
Poll == [stopped : BOOLEAN, answered : SUBSET {"sessions", "stats"},
         sessions : SUBSET Keys, stats : [Rows -> Nat] \cup {Empty}]
PollTyped ==
  /\ poll \in Poll
  /\ "stats" \in poll.answered => poll.stats \in [Rows -> Nat]
BatchTyped ==
  /\ batch \in Seq(Event)
  /\ \A n \in 1..Len(batch) :
       IF batch[n].what = "active_session" THEN batch[n].of \in Keys /\ batch[n].count = 1
                                           ELSE batch[n].of \in Rows
HandedTyped == reported \in [Keys -> 0..2] /\ counted \in [Rows -> Nat]

ProxyTyped ==
  /\ WorldTyped /\ MemoryTyped /\ ReadTyped /\ PollTyped /\ BatchTyped /\ HandedTyped
  /\ poll.stopped \/ batch # <<>> => poll.answered = {}

\* How far a has gone beyond b.
Beyond(a, b) == IF a > b THEN a - b ELSE 0

\* What is told, or about to be, of a counter and of a session.
ErrorsTold(r) == counted[r] + Owed(batch, "proxy_error", r)
SessionsSeen(k) == reported[k] + Owed(batch, "active_session", k)

\* What is told of a counter, and what the next polls may add to it, is never
\* more than has happened since the start.
NoErrorTwice == \A r \in Rows :
  /\ r \in DOMAIN previous => ErrorsTold(r) + Beyond(errors[r], previous[r]) <= total[r]
  /\ r \notin DOMAIN previous => ErrorsTold(r) = 0
  /\ "stats" \in poll.answered =>
       (ErrorsTold(r) + Growth(r, poll.stats)) + Beyond(errors[r], poll.stats[r]) <= total[r]

\* Until HAProxy restarts its counters only grow, and all they grow by is told.
NoErrorLost == ~reset => \A r \in Rows :
  /\ r \in DOMAIN previous => base[r] <= previous[r] /\ previous[r] <= errors[r]
  /\ "stats" \in poll.answered =>
       /\ poll.stats[r] <= errors[r]
       /\ r \in DOMAIN previous => previous[r] <= poll.stats[r]
  /\ r \in DOMAIN previous /\ ~lost => ErrorsTold(r) = previous[r] - base[r]

\* A key in the memory was told, and told once until the memory is full.
SessionsTold == ~lost => \A k \in Keys :
  /\ k \in memory => SessionsSeen(k) > 0
  /\ ~memoryCleared => SessionsSeen(k) = (IF k \in memory THEN 1 ELSE 0)

ProxyInv == ProxyTyped /\ NoErrorTwice /\ NoErrorLost /\ SessionsTold

LEMMA NothingOwed == \A what, x : Owed(<<>>, what, x) = 0
<1>1. <<>> \in Seq(Event) /\ 1..Len(<<>>) = {}
  BY EmptyRange
<1> QED BY <1>1, OwedNone

LEMMA AsleepTyped ==
  /\ Asleep \in [stopped : {FALSE}, answered : {{}}, sessions : SUBSET Keys, stats : {Empty}]
  /\ Asleep.answered = {} /\ Asleep.stopped = FALSE
BY DEF Asleep

\* No poll under way and no events.
LEMMA NothingBuilt == ASSUME poll = Asleep, batch = <<>> PROVE PollTyped /\ BatchTyped
<1>1. poll \in Poll /\ poll.answered = {}
  BY AsleepTyped DEF Poll
<1>2. 1..Len(batch) = {} /\ batch \in Seq(Event)
  BY EmptyRange
<1> QED BY <1>1, <1>2 DEF PollTyped, BatchTyped

LEMMA ProxyBlank ==
  ASSUME WorldTyped, total = [r \in Rows |-> 0], reset = FALSE,
         memory = {}, previous = Empty, poll = Asleep, batch = <<>>, base = Empty,
         memoryCleared = FALSE, lost = FALSE,
         reported = [k \in Keys |-> 0], counted = [r \in Rows |-> 0]
  PROVE  ProxyInv
<1>1. DOMAIN previous = {} /\ Cardinality({}) = 0
  BY FS_EmptySet DEF Empty
<1>2. MemoryTyped
  <2>1. memory \subseteq Keys /\ memoryCleared \in BOOLEAN /\ lost \in BOOLEAN
    OBVIOUS
  <2>2. Cardinality(memory) = 0 /\ 0 <= MaxMemory
    BY <1>1, ProxyAssumption
  <2> QED BY <2>1, <2>2 DEF MemoryTyped
<1>3. ReadTyped
  BY <1>1 DEF ReadTyped, Empty
<1>4. HandedTyped
  BY DEF HandedTyped
<1>5. ProxyTyped
  BY <1>2, <1>3, <1>4, NothingBuilt, AsleepTyped DEF ProxyTyped
<1>6. /\ \A r \in Rows : ErrorsTold(r) = 0
      /\ \A k \in Keys : SessionsSeen(k) = 0
  BY NothingOwed DEF ErrorsTold, SessionsSeen
<1>7. NoErrorTwice /\ NoErrorLost /\ SessionsTold
  BY <1>1, <1>6, AsleepTyped DEF NoErrorTwice, NoErrorLost, SessionsTold
<1> QED BY <1>5, <1>7 DEF ProxyInv

LEMMA ProxyStart == ProxyInit => ProxyInv
<1> SUFFICES ASSUME ProxyInit PROVE ProxyInv
  OBVIOUS
<1>1. WorldTyped /\ total = [r \in Rows |-> 0]
  BY DEF ProxyInit, WorldTyped
<1> QED BY <1>1, ProxyBlank DEF ProxyInit

LEMMA ProxyAgain == ProxyInv /\ ProxyFresh => ProxyInv'
<1> SUFFICES ASSUME ProxyInv, ProxyFresh PROVE ProxyInv'
  OBVIOUS
<1>1. /\ total' = [r \in Rows |-> 0]
      /\ reset' = FALSE /\ memory' = {} /\ previous' = Empty /\ poll' = Asleep
      /\ batch' = <<>> /\ base' = Empty /\ memoryCleared' = FALSE /\ lost' = FALSE
      /\ reported' = [k \in Keys |-> 0] /\ counted' = [r \in Rows |-> 0]
      /\ UNCHANGED <<open, errors>>
  BY DEF ProxyFresh
<1>2. WorldTyped'
  BY <1>1 DEF ProxyInv, ProxyTyped, WorldTyped
<1>3. DOMAIN previous' = {} /\ Cardinality({}) = 0
  BY <1>1, FS_EmptySet DEF Empty
<1>4. MemoryTyped'
  <2>1. memory' \subseteq Keys /\ memoryCleared' \in BOOLEAN /\ lost' \in BOOLEAN
    BY <1>1
  <2>2. Cardinality(memory') = 0 /\ 0 <= MaxMemory
    BY <1>1, <1>3, ProxyAssumption
  <2> QED BY <2>1, <2>2 DEF MemoryTyped
<1>5. ReadTyped'
  BY <1>1, <1>3 DEF ReadTyped, Empty
<1>6. HandedTyped'
  BY <1>1 DEF HandedTyped
<1>7. (PollTyped /\ BatchTyped)'
  <2>1. poll' \in Poll /\ poll'.answered = {}
    BY <1>1, AsleepTyped DEF Poll
  <2>2. 1..Len(batch') = {} /\ batch' \in Seq(Event)
    BY <1>1, EmptyRange
  <2> QED BY <2>1, <2>2 DEF PollTyped, BatchTyped
<1>8. ProxyTyped'
  BY <1>1, <1>2, <1>4, <1>5, <1>6, <1>7, AsleepTyped DEF ProxyTyped
<1>9. /\ \A r \in Rows : ErrorsTold(r)' = 0
      /\ \A k \in Keys : SessionsSeen(k)' = 0
  BY <1>1, NothingOwed DEF ErrorsTold, SessionsSeen
<1>10. NoErrorTwice' /\ NoErrorLost' /\ SessionsTold'
  BY <1>1, <1>3, <1>9, AsleepTyped DEF NoErrorTwice, NoErrorLost, SessionsTold
<1> QED BY <1>8, <1>10 DEF ProxyInv

\* What the counters, the readings and the events say are numbers.
LEMMA ProxyNumbers ==
  ASSUME ProxyTyped, NEW r \in Rows
  PROVE  /\ errors[r] \in Nat /\ total[r] \in Nat /\ counted[r] \in Nat
         /\ Owed(batch, "proxy_error", r) \in Nat /\ ErrorsTold(r) \in Nat
         /\ r \in DOMAIN previous => previous[r] \in Nat /\ base[r] \in Nat
         /\ "stats" \in poll.answered => poll.stats[r] \in Nat /\ Growth(r, poll.stats) \in Nat
<1>1. errors[r] \in Nat /\ total[r] \in Nat /\ counted[r] \in Nat
  BY DEF ProxyTyped, WorldTyped, HandedTyped
<1>2. Owed(batch, "proxy_error", r) \in Nat
  BY OwedType DEF ProxyTyped, BatchTyped
<1>3. r \in DOMAIN previous => previous[r] \in Nat /\ base[r] \in Nat
  BY DEF ProxyTyped, ReadTyped
<1>4. "stats" \in poll.answered => poll.stats[r] \in Nat
  BY DEF ProxyTyped, PollTyped
<1> QED BY <1>1, <1>2, <1>3, <1>4 DEF ErrorsTold, Growth

LEMMA SessionNumbers ==
  ASSUME ProxyTyped, NEW k \in Keys
  PROVE  /\ SessionsSeen(k) \in Nat /\ reported[k] \in 0..2
         /\ Owed(batch, "active_session", k) \in Nat
<1>1. Owed(batch, "active_session", k) \in Nat
  BY OwedType DEF ProxyTyped, BatchTyped
<1>2. reported[k] \in 0..2
  BY DEF ProxyTyped, HandedTyped
<1> QED BY <1>1, <1>2 DEF SessionsSeen

LEMMA SessionStep == ASSUME NEW k \in Keys PROVE ProxyInv /\ Session(k) => ProxyInv'
<1> SUFFICES ASSUME ProxyInv, Session(k) PROVE ProxyInv'
  OBVIOUS
<1>1. /\ open \subseteq Keys => open' \subseteq Keys
      /\ UNCHANGED <<errors, total, reset, memory, previous, poll, batch, base, memoryCleared, lost,
                     reported, counted>>
  BY DEF Session, task, handed
<1>2. WorldTyped'
  BY <1>1 DEF ProxyInv, ProxyTyped, WorldTyped
<1>3. ProxyTyped'
  BY <1>1, <1>2 DEF ProxyInv, ProxyTyped, MemoryTyped, ReadTyped, PollTyped, BatchTyped, HandedTyped
<1>4. NoErrorTwice' /\ NoErrorLost' /\ SessionsTold'
  BY <1>1 DEF ProxyInv, NoErrorTwice, NoErrorLost, SessionsTold, ErrorsTold, SessionsSeen, Growth
<1> QED BY <1>3, <1>4 DEF ProxyInv

LEMMA ProxyErrorStep == ASSUME NEW r \in Rows PROVE ProxyInv /\ ProxyError(r) => ProxyInv'
<1> SUFFICES ASSUME ProxyInv, ProxyError(r) PROVE ProxyInv'
  OBVIOUS
<1>0. ProxyTyped /\ NoErrorTwice /\ NoErrorLost /\ SessionsTold
  BY DEF ProxyInv
<1>1. /\ errors' = [errors EXCEPT ![r] = @ + 1] /\ total' = [total EXCEPT ![r] = @ + 1]
      /\ UNCHANGED <<open, reset, memory, previous, poll, batch, base, memoryCleared, lost,
                     reported, counted>>
  BY DEF ProxyError, task, handed
<1>2. errors \in [Rows -> Nat] /\ total \in [Rows -> Nat] /\ open \subseteq Keys /\ reset \in BOOLEAN
  BY <1>0 DEF ProxyTyped, WorldTyped
<1>3. WorldTyped'
  <2>1. errors' \in [Rows -> Nat] /\ total' \in [Rows -> Nat]
    BY <1>1, <1>2
  <2> QED BY <1>1, <1>2, <2>1 DEF WorldTyped
<1>4. ProxyTyped'
  BY <1>0, <1>1, <1>3
  DEF ProxyTyped, MemoryTyped, ReadTyped, PollTyped, BatchTyped, HandedTyped
<1>5. \A x \in Rows : ErrorsTold(x)' = ErrorsTold(x) /\ Growth(x, poll.stats)' = Growth(x, poll.stats)
  BY <1>1 DEF ErrorsTold, Growth
<1>6. \A x \in Rows :
        /\ errors'[x] = errors[x] + (IF x = r THEN 1 ELSE 0)
        /\ total'[x] = total[x] + (IF x = r THEN 1 ELSE 0)
  <2> SUFFICES ASSUME NEW x \in Rows
               PROVE  /\ errors'[x] = errors[x] + (IF x = r THEN 1 ELSE 0)
                      /\ total'[x] = total[x] + (IF x = r THEN 1 ELSE 0)
    OBVIOUS
  <2>1. errors[x] \in Nat /\ total[x] \in Nat
    BY <1>2
  <2>2. /\ errors'[x] = IF x = r THEN errors[x] + 1 ELSE errors[x]
        /\ total'[x] = IF x = r THEN total[x] + 1 ELSE total[x]
    BY <1>1, <1>2
  <2> QED BY <2>1, <2>2
<1>7. NoErrorTwice'
  BY <1>0, <1>1, <1>5, <1>6, ProxyNumbers DEF NoErrorTwice, Beyond
<1>8. NoErrorLost'
  BY <1>0, <1>1, <1>5, <1>6, ProxyNumbers DEF NoErrorLost
<1>9. SessionsTold'
  BY <1>0, <1>1 DEF SessionsTold, SessionsSeen
<1> QED BY <1>4, <1>7, <1>8, <1>9 DEF ProxyInv

LEMMA ProxyRestartStep == ProxyInv /\ ProxyRestart => ProxyInv'
<1> SUFFICES ASSUME ProxyInv, ProxyRestart PROVE ProxyInv'
  OBVIOUS
<1>0. ProxyTyped /\ NoErrorTwice /\ NoErrorLost /\ SessionsTold
  BY DEF ProxyInv
<1>1. /\ errors' = [x \in Rows |-> 0] /\ open' = {} /\ reset' = TRUE
      /\ UNCHANGED <<total, memory, previous, poll, batch, base, memoryCleared, lost,
                     reported, counted>>
  BY DEF ProxyRestart, task, handed
<1>2. WorldTyped'
  BY <1>0, <1>1 DEF ProxyTyped, WorldTyped
<1>3. ProxyTyped'
  BY <1>0, <1>1, <1>2
  DEF ProxyTyped, MemoryTyped, ReadTyped, PollTyped, BatchTyped, HandedTyped
<1>4. \A x \in Rows :
        /\ ErrorsTold(x)' = ErrorsTold(x) /\ Growth(x, poll.stats)' = Growth(x, poll.stats)
        /\ errors'[x] = 0
  BY <1>1 DEF ErrorsTold, Growth
<1>5. NoErrorTwice'
  BY <1>0, <1>1, <1>4, ProxyNumbers DEF NoErrorTwice, Beyond
<1>6. NoErrorLost'
  BY <1>1 DEF NoErrorLost
<1>7. SessionsTold'
  BY <1>0, <1>1 DEF SessionsTold, SessionsSeen
<1> QED BY <1>3, <1>5, <1>6, <1>7 DEF ProxyInv

LEMMA AnswerStep == ProxyInv /\ Answer => ProxyInv'
<1> SUFFICES ASSUME ProxyInv, Answer PROVE ProxyInv'
  OBVIOUS
<1>0. ProxyTyped /\ NoErrorTwice /\ NoErrorLost /\ SessionsTold
  BY DEF ProxyInv
<1>1. /\ ~poll.stopped /\ batch = <<>>
      /\ UNCHANGED <<open, errors, total, reset, memory, previous, batch, base, memoryCleared, lost,
                     reported, counted>>
  BY DEF Answer, world, handed
<1>2. poll \in Poll /\ errors \in [Rows -> Nat] /\ open \subseteq Keys
  BY <1>0 DEF ProxyTyped, PollTyped, WorldTyped
<1>3. \A x \in Rows : ErrorsTold(x)' = ErrorsTold(x)
  BY <1>1 DEF ErrorsTold
<1>4. SessionsTold'
  BY <1>0, <1>1 DEF SessionsTold, SessionsSeen
<1>5. ASSUME PollTyped', ~poll'.stopped PROVE ProxyTyped'
  BY <1>0, <1>1, <1>5
  DEF ProxyTyped, WorldTyped, MemoryTyped, ReadTyped, BatchTyped, HandedTyped
<1>6. CASE poll' = [poll EXCEPT !.answered = @ \cup {"sessions"}, !.sessions = open]
  <2>1. /\ poll'.answered = poll.answered \cup {"sessions"} /\ poll'.stats = poll.stats
        /\ poll'.stopped = poll.stopped /\ poll' \in Poll
    BY <1>2, <1>6 DEF Poll
  <2>2. "stats" \in poll'.answered <=> "stats" \in poll.answered
    BY <2>1
  <2>3. ProxyTyped'
    BY <1>0, <1>1, <1>5, <2>1, <2>2 DEF ProxyTyped, PollTyped
  <2>4. \A x \in Rows : Growth(x, poll.stats)' = Growth(x, poll.stats)
    BY <1>1, <2>1 DEF Growth
  <2>5. NoErrorTwice'
    BY <1>0, <1>1, <1>3, <2>1, <2>2, <2>4 DEF NoErrorTwice
  <2>6. NoErrorLost'
    BY <1>0, <1>1, <1>3, <2>1, <2>2 DEF NoErrorLost
  <2> QED BY <1>4, <2>3, <2>5, <2>6 DEF ProxyInv
<1>7. CASE poll' = [poll EXCEPT !.answered = @ \cup {"stats"}, !.stats = errors]
  <2>1. /\ poll'.answered = poll.answered \cup {"stats"} /\ poll'.stats = errors
        /\ poll'.stopped = poll.stopped /\ poll' \in Poll
    BY <1>2, <1>7 DEF Poll
  <2>2. ProxyTyped'
    BY <1>1, <1>2, <1>5, <2>1 DEF PollTyped
  <2>3. ASSUME NEW x \in Rows
        PROVE  /\ x \in DOMAIN previous => ErrorsTold(x) + Beyond(errors[x], previous[x]) <= total[x]
               /\ x \notin DOMAIN previous => ErrorsTold(x) = 0
               /\ (ErrorsTold(x) + Growth(x, errors)) + Beyond(errors[x], errors[x]) <= total[x]
    <3>1. /\ x \in DOMAIN previous => ErrorsTold(x) + Beyond(errors[x], previous[x]) <= total[x]
          /\ x \notin DOMAIN previous => ErrorsTold(x) = 0
      BY <1>0 DEF NoErrorTwice
    <3>2. /\ errors[x] \in Nat /\ total[x] \in Nat /\ ErrorsTold(x) \in Nat
          /\ x \in DOMAIN previous => previous[x] \in Nat
      BY <1>0, ProxyNumbers
    <3>3. Beyond(errors[x], errors[x]) = 0
      BY <3>2 DEF Beyond
    <3>4. CASE x \in DOMAIN previous
      <4>1. Growth(x, errors) = Beyond(errors[x], previous[x])
        BY <3>2, <3>4 DEF Growth, Beyond
      <4>2. Beyond(errors[x], previous[x]) \in Nat
        BY <3>2, <3>4 DEF Beyond
      <4> QED BY <3>1, <3>2, <3>3, <3>4, <4>1, <4>2
    <3>5. CASE x \notin DOMAIN previous
      <4>1. Growth(x, errors) = 0
        BY <3>5 DEF Growth
      <4> QED BY <3>1, <3>2, <3>3, <3>5, <4>1
    <3> QED BY <3>4, <3>5
  <2>4. \A x \in Rows : Growth(x, poll.stats)' = Growth(x, errors)
    BY <1>1, <2>1 DEF Growth
  <2>5. NoErrorTwice'
    BY <1>1, <1>3, <2>1, <2>3, <2>4 DEF NoErrorTwice
  <2>6. NoErrorLost'
    BY <1>0, <1>1, <1>3, <2>1, ProxyNumbers DEF NoErrorLost
  <2> QED BY <1>4, <2>2, <2>5, <2>6 DEF ProxyInv
<1> QED BY <1>6, <1>7 DEF Answer

LEMMA AskFailsStep == ProxyInv /\ AskFails => ProxyInv'
<1> SUFFICES ASSUME ProxyInv, AskFails PROVE ProxyInv'
  OBVIOUS
<1>0. ProxyTyped /\ NoErrorTwice /\ NoErrorLost /\ SessionsTold
  BY DEF ProxyInv
<1>1. /\ poll' = Asleep
      /\ UNCHANGED <<open, errors, total, reset, memory, previous, batch, base, memoryCleared, lost,
                     reported, counted>>
  BY DEF AskFails, world, handed
<1>2. poll'.answered = {} /\ poll' \in Poll
  BY <1>1, AsleepTyped DEF Poll
<1>3. ProxyTyped'
  BY <1>0, <1>1, <1>2
  DEF ProxyTyped, WorldTyped, MemoryTyped, ReadTyped, PollTyped, BatchTyped, HandedTyped
<1>4. \A x \in Rows : ErrorsTold(x)' = ErrorsTold(x)
  BY <1>1 DEF ErrorsTold
<1>5. NoErrorTwice' /\ NoErrorLost'
  BY <1>0, <1>1, <1>2, <1>4 DEF NoErrorTwice, NoErrorLost
<1>6. SessionsTold'
  BY <1>0, <1>1 DEF SessionsTold, SessionsSeen
<1> QED BY <1>3, <1>5, <1>6 DEF ProxyInv

\* SetToSeq lists what is in a finite set, once.
LEMMA Listed ==
  ASSUME NEW S, IsFiniteSet(S)
  PROVE  SetToSeq(S) \in SetToSeqs(S)
<1> DEFINE n == Cardinality(S)
<1>1. n \in Nat /\ ExistsBijection(1..n, S)
  BY FS_CardinalityType
<1>2. PICK f : f \in Bijection(1..n, S)
  BY <1>1 DEF ExistsBijection
<1>3. f \in [1..n -> S] /\ IsInjective(f)
  BY <1>2 DEF Bijection, Injection
<1>4. SetToSeq(S) \in [1..n -> S] /\ IsInjective(SetToSeq(S))
  BY <1>3 DEF SetToSeq
<1> QED BY <1>4 DEF SetToSeqs, IsInjective

\* A sequence that lists a finite set.
LEMMA Listing ==
  ASSUME NEW S, IsFiniteSet(S), NEW q \in SetToSeqs(S)
  PROVE  /\ q \in Seq(S) /\ \A i, j \in 1..Len(q) : i # j => q[i] # q[j]
         /\ \A x \in S : \E i \in 1..Len(q) : q[i] = x
         /\ \A i \in 1..Len(q) : q[i] \in S
<1>1. q \in Seq(S) /\ Range(q) = S
  BY AllFound
<1>2. /\ q \in [1..Cardinality(S) -> S] /\ Cardinality(S) \in Nat
      /\ \A i, j \in 1..Cardinality(S) : i # j => q[i] # q[j]
  BY FS_CardinalityType DEF SetToSeqs
<1>3. DOMAIN q = 1..Len(q) /\ DOMAIN q = 1..Cardinality(S)
  BY <1>1, <1>2, LenProperties
<1> QED BY <1>1, <1>2, <1>3 DEF Range

SessionEvent(k) == [what |-> "active_session", of |-> k, count |-> 1]
ErrorEvent(r, n) == [what |-> "proxy_error", of |-> r, count |-> n]

LEMMA ValueOf ==
  ASSUME NEW x, NEW y, NEW n
  PROVE  /\ Value(SessionEvent(y), "active_session", x) = IF y = x THEN 1 ELSE 0
         /\ Value(SessionEvent(y), "proxy_error", x) = 0
         /\ Value(ErrorEvent(y, n), "active_session", x) = 0
         /\ Value(ErrorEvent(y, n), "proxy_error", x) = IF y = x THEN n ELSE 0
BY DEF Value, SessionEvent, ErrorEvent

\* q: an event for each new session and one for each counter that has grown, by g.
IsBuilt(q, new, grown, g) ==
  /\ q \in Seq(Event) /\ Len(q) = Len(new) + Len(grown)
  /\ new \in Seq(Keys) /\ grown \in Seq(Rows)
  /\ \A n \in 1..Len(new) : q[n] = SessionEvent(new[n])
  /\ \A n \in 1..Len(grown) : q[Len(new) + n] = ErrorEvent(grown[n], g[grown[n]])

LEMMA BuiltParts ==
  ASSUME NEW new \in Seq(Keys), NEW grown \in Seq(Rows), NEW g \in [Rows -> Nat], NEW q,
         q = [n \in DOMAIN new |-> SessionEvent(new[n])]
               \o [n \in DOMAIN grown |-> ErrorEvent(grown[n], g[grown[n]])]
  PROVE  IsBuilt(q, new, grown, g)
<1> DEFINE a == [n \in DOMAIN new |-> SessionEvent(new[n])]
           b == [n \in DOMAIN grown |-> ErrorEvent(grown[n], g[grown[n]])]
           L == Len(new)
           M == Len(grown)
<1>1. /\ L \in Nat /\ M \in Nat /\ DOMAIN new = 1..L /\ DOMAIN grown = 1..M
      /\ \A n \in 1..L : new[n] \in Keys
      /\ \A n \in 1..M : grown[n] \in Rows
  BY LenProperties, ElementOfSeq
<1> HIDE DEF L, M
<1>2. \A k \in Keys : SessionEvent(k) \in Event
  BY DEF SessionEvent, Event
<1>3. \A r \in Rows, n \in Nat : ErrorEvent(r, n) \in Event
  BY DEF ErrorEvent, Event
<1>4. a \in [1..L -> Event] /\ \A n \in 1..L : a[n] = SessionEvent(new[n])
  BY <1>1, <1>2
<1>5. b \in [1..M -> Event] /\ \A n \in 1..M : b[n] = ErrorEvent(grown[n], g[grown[n]])
  BY <1>1, <1>3
<1> HIDE DEF a, b
<1>6. a \in Seq(Event) /\ Len(a) = L /\ b \in Seq(Event) /\ Len(b) = M
  <2>1. a \in Seq(Event) /\ b \in Seq(Event)
    BY <1>1, <1>4, <1>5
  <2> QED BY <1>1, <1>4, <1>5, <2>1, LenProperties
<1>7. /\ a \o b \in Seq(Event) /\ Len(a \o b) = L + M
      /\ \A n \in 1..L + M : (a \o b)[n] = IF n <= L THEN a[n] ELSE b[n - L]
  BY <1>6, ConcatProperties
<1>8. q = a \o b
  BY DEF a, b
<1>9. \A n \in 1..L : n \in 1..L + M /\ n <= L
  BY <1>1
<1>10. \A n \in 1..M : L + n \in 1..L + M /\ ~(L + n <= L) /\ (L + n) - L = n
  BY <1>1
<1>11. \A n \in 1..L : q[n] = SessionEvent(new[n])
  BY <1>4, <1>7, <1>8, <1>9
<1>12. \A n \in 1..M : q[L + n] = ErrorEvent(grown[n], g[grown[n]])
  BY <1>5, <1>7, <1>8, <1>10
<1> QED BY <1>7, <1>8, <1>11, <1>12 DEF IsBuilt, L, M

\* The events are of one kind up to the last new session, and of the other after it.
LEMMA BuiltAt ==
  ASSUME NEW q, NEW new, NEW grown, NEW g, IsBuilt(q, new, grown, g), NEW n \in 1..Len(q)
  PROVE  \/ n \in 1..Len(new) /\ q[n] = SessionEvent(new[n])
         \/ \E m \in 1..Len(grown) : n = Len(new) + m /\ q[n] = ErrorEvent(grown[m], g[grown[m]])
<1> DEFINE L == Len(new)
           M == Len(grown)
<1>1. L \in Nat /\ M \in Nat /\ Len(q) = L + M
  BY LenProperties DEF IsBuilt
<1> HIDE DEF L, M
<1>2. n \in 1..L \/ (n - L \in 1..M /\ n = L + (n - L))
  BY <1>1
<1> QED BY <1>2 DEF IsBuilt, L, M

LEMMA BuiltTyped ==
  ASSUME NEW q, NEW new, NEW grown, NEW g, IsBuilt(q, new, grown, g)
  PROVE  /\ q \in Seq(Event)
         /\ \A n \in 1..Len(q) :
              IF q[n].what = "active_session" THEN q[n].of \in Keys /\ q[n].count = 1
                                              ELSE q[n].of \in Rows
<1>1. q \in Seq(Event) /\ new \in Seq(Keys) /\ grown \in Seq(Rows)
  BY DEF IsBuilt
<1>2. /\ \A k : SessionEvent(k).what = "active_session" /\ SessionEvent(k).of = k /\ SessionEvent(k).count = 1
      /\ \A r, n : ErrorEvent(r, n).what # "active_session" /\ ErrorEvent(r, n).of = r
  BY DEF SessionEvent, ErrorEvent
<1>3. ASSUME NEW n \in 1..Len(q)
      PROVE  IF q[n].what = "active_session" THEN q[n].of \in Keys /\ q[n].count = 1
                                              ELSE q[n].of \in Rows
  <2>1. CASE n \in 1..Len(new) /\ q[n] = SessionEvent(new[n])
    <3>1. new[n] \in Keys
      BY <1>1, <2>1, ElementOfSeq
    <3> QED BY <1>2, <2>1, <3>1
  <2>2. CASE \E m \in 1..Len(grown) :
               n = Len(new) + m /\ q[n] = ErrorEvent(grown[m], g[grown[m]])
    <3>1. PICK m \in 1..Len(grown) : q[n] = ErrorEvent(grown[m], g[grown[m]])
      BY <2>2
    <3>2. grown[m] \in Rows
      BY <1>1, ElementOfSeq
    <3> QED BY <1>2, <3>1, <3>2
  <2> QED BY <2>1, <2>2, BuiltAt
<1> QED BY <1>1, <1>3

LEMMA BuiltSessions ==
  ASSUME NEW q, NEW new, NEW grown, NEW g, IsBuilt(q, new, grown, g), NEW k,
         \A i, j \in 1..Len(new) : new[i] = new[j] => i = j
  PROVE  Owed(q, "active_session", k) = IF \E i \in 1..Len(new) : new[i] = k THEN 1 ELSE 0
<1>1. q \in Seq(Event) /\ \A i \in 1..Len(new) : i \in 1..Len(q)
  <2>1. Len(q) = Len(new) + Len(grown) /\ Len(new) \in Nat /\ Len(grown) \in Nat
    BY LenProperties DEF IsBuilt
  <2> QED BY <2>1 DEF IsBuilt
<1>2. \A n \in 1..Len(q) : n \in 1..Len(new) \/ Value(q[n], "active_session", k) = 0
  BY BuiltAt, ValueOf
<1>3. \A n \in 1..Len(new) : Value(q[n], "active_session", k) = IF new[n] = k THEN 1 ELSE 0
  <2> SUFFICES ASSUME NEW n \in 1..Len(new)
               PROVE  Value(q[n], "active_session", k) = IF new[n] = k THEN 1 ELSE 0
    OBVIOUS
  <2>1. q[n] = SessionEvent(new[n])
    BY DEF IsBuilt
  <2>2. Value(SessionEvent(new[n]), "active_session", k) = IF new[n] = k THEN 1 ELSE 0
    BY ValueOf
  <2> QED BY <2>1, <2>2
<1>4. CASE \E i \in 1..Len(new) : new[i] = k
  <2>1. PICK i \in 1..Len(new) : new[i] = k
    BY <1>4
  <2>2. \A n \in 1..Len(q) : n # i => Value(q[n], "active_session", k) = 0
    BY <1>2, <1>3, <2>1
  <2>3. Owed(q, "active_session", k) = Value(q[i], "active_session", k)
    BY <1>1, <2>2, OwedOne
  <2> QED BY <1>3, <1>4, <2>1, <2>3
<1>5. CASE ~ \E i \in 1..Len(new) : new[i] = k
  <2>1. \A n \in 1..Len(q) : Value(q[n], "active_session", k) = 0
    BY <1>2, <1>3, <1>5
  <2>2. Owed(q, "active_session", k) = 0
    BY <1>1, <2>1, OwedNone
  <2> QED BY <1>5, <2>2
<1> QED BY <1>4, <1>5

LEMMA BuiltErrors ==
  ASSUME NEW g \in [Rows -> Nat], NEW q, NEW new, NEW grown, IsBuilt(q, new, grown, g), NEW r \in Rows,
         \A i, j \in 1..Len(grown) : i # j => grown[i] # grown[j],
         \A i \in 1..Len(grown) : grown[i] \in Rows,
         g[r] > 0 => \E i \in 1..Len(grown) : grown[i] = r
  PROVE  Owed(q, "proxy_error", r) = g[r]
<1>1. /\ q \in Seq(Event) /\ Len(new) \in Nat
      /\ \A i \in 1..Len(grown) : Len(new) + i \in 1..Len(q)
  <2>1. Len(q) = Len(new) + Len(grown) /\ Len(new) \in Nat /\ Len(grown) \in Nat
    BY LenProperties DEF IsBuilt
  <2> QED BY <2>1 DEF IsBuilt
<1>2. \A n \in 1..Len(q) : \/ Value(q[n], "proxy_error", r) = 0
                           \/ \E m \in 1..Len(grown) : n = Len(new) + m
  <2> SUFFICES ASSUME NEW n \in 1..Len(q)
               PROVE  \/ Value(q[n], "proxy_error", r) = 0
                      \/ \E m \in 1..Len(grown) : n = Len(new) + m
    OBVIOUS
  <2>1. CASE q[n] = SessionEvent(new[n])
    <3>1. Value(SessionEvent(new[n]), "proxy_error", r) = 0
      BY ValueOf
    <3> QED BY <2>1, <3>1
  <2>2. CASE \E m \in 1..Len(grown) : n = Len(new) + m /\ q[n] = ErrorEvent(grown[m], g[grown[m]])
    BY <2>2
  <2>3. \/ q[n] = SessionEvent(new[n])
        \/ \E m \in 1..Len(grown) : n = Len(new) + m /\ q[n] = ErrorEvent(grown[m], g[grown[m]])
    BY BuiltAt
  <2> QED BY <2>1, <2>2, <2>3
<1>3. \A m \in 1..Len(grown) :
        Value(q[Len(new) + m], "proxy_error", r) = IF grown[m] = r THEN g[r] ELSE 0
  <2> SUFFICES ASSUME NEW m \in 1..Len(grown)
               PROVE  Value(q[Len(new) + m], "proxy_error", r) = IF grown[m] = r THEN g[r] ELSE 0
    OBVIOUS
  <2>1. q[Len(new) + m] = ErrorEvent(grown[m], g[grown[m]])
    BY DEF IsBuilt
  <2>2. Value(ErrorEvent(grown[m], g[grown[m]]), "proxy_error", r)
          = IF grown[m] = r THEN g[grown[m]] ELSE 0
    BY ValueOf
  <2> QED BY <2>1, <2>2
<1>4. CASE \E i \in 1..Len(grown) : grown[i] = r
  <2>1. PICK i \in 1..Len(grown) : grown[i] = r
    BY <1>4
  <2>2. \A m \in 1..Len(grown) : m # i => Value(q[Len(new) + m], "proxy_error", r) = 0
    BY <1>3, <2>1
  <2>3. \A n \in 1..Len(q) : n # Len(new) + i => Value(q[n], "proxy_error", r) = 0
    BY <1>2, <2>2
  <2>4. Owed(q, "proxy_error", r) = Value(q[Len(new) + i], "proxy_error", r)
    BY <1>1, <2>3, OwedOne
  <2> QED BY <1>3, <2>1, <2>4
<1>5. CASE ~ \E i \in 1..Len(grown) : grown[i] = r
  <2>1. \A n \in 1..Len(q) : Value(q[n], "proxy_error", r) = 0
    BY <1>2, <1>3, <1>5
  <2>2. Owed(q, "proxy_error", r) = 0
    BY <1>1, <2>1, OwedNone
  <2>3. g[r] \in Nat /\ ~(g[r] > 0)
    BY <1>5
  <2> QED BY <2>2, <2>3
<1> QED BY <1>4, <1>5

\* The counters as the readings after this poll, and the batch that tells their growth.
LEMMA BuildStep == ProxyInv /\ Build => ProxyInv'
<1> SUFFICES ASSUME ProxyInv, Build PROVE ProxyInv'
  OBVIOUS
<1>0. ProxyTyped /\ NoErrorTwice /\ NoErrorLost /\ SessionsTold
  BY DEF ProxyInv
<1> DEFINE g == [r \in Rows |-> Growth(r, poll.stats)]
           G == {r \in Rows : Growth(r, poll.stats) > 0}
           grown == SetToSeq(G)
           first == [known |-> memory, new |-> <<>>, full |-> FALSE]
<1>1. PICK lines \in SetToSeqs(poll.sessions) :
        LET seen == FoldLeft(Line, first, lines) IN
          /\ memory' = seen.known
          /\ memoryCleared' = (memoryCleared \/ seen.full)
          /\ batch' = [n \in DOMAIN seen.new |-> [what |-> "active_session", of |-> seen.new[n], count |-> 1]]
                   \o [n \in DOMAIN grown |-> [what |-> "proxy_error", of |-> grown[n],
                                               count |-> Growth(grown[n], poll.stats)]]
  BY DEF Build
<1>2. /\ poll.answered = {"sessions", "stats"} /\ previous' = poll.stats
      /\ base' = [r \in Rows |-> IF r \in DOMAIN base THEN base[r] ELSE poll.stats[r]]
      /\ poll' = Asleep
      /\ UNCHANGED <<open, errors, total, reset, lost, reported, counted>>
  BY DEF Build, world, handed
<1>3. /\ "stats" \in poll.answered /\ batch = <<>> /\ poll.stats \in [Rows -> Nat]
      /\ poll.sessions \subseteq Keys /\ IsFiniteSet(poll.sessions)
  <2>1. poll.sessions \subseteq Keys
    BY <1>0 DEF ProxyTyped, PollTyped, Poll
  <2> QED BY <1>0, <1>2, <2>1, ProxyAssumption, FS_Subset DEF ProxyTyped, PollTyped
<1> DEFINE seen == FoldLeft(Line, first, lines)
<1>4. Reading(seen, Len(lines), lines)
  <2>1. /\ lines \in Seq(poll.sessions)
        /\ \A i, j \in 1..Len(lines) : i # j => lines[i] # lines[j]
    BY <1>3, Listing
  <2>2. lines \in Seq(Keys)
    BY <1>3, <2>1
  <2>3. memory \subseteq Keys /\ Cardinality(memory) <= MaxMemory
    BY <1>0 DEF ProxyTyped, MemoryTyped
  <2> QED BY <2>1, <2>2, <2>3, AllRead
<1>5. memory' = seen.known /\ memoryCleared' = (memoryCleared \/ seen.full)
  BY <1>1
<1>6. /\ seen.known \subseteq Keys /\ seen.new \in Seq(Keys) /\ seen.full \in BOOLEAN
      /\ Cardinality(seen.known) <= MaxMemory
      /\ \A i, j \in 1..Len(seen.new) : seen.new[i] = seen.new[j] => i = j
      /\ \A k \in seen.known : k \in memory \/ \E i \in 1..Len(seen.new) : seen.new[i] = k
      /\ ~seen.full => /\ \A k \in memory : k \in seen.known
                       /\ \A i \in 1..Len(seen.new) : seen.new[i] \in seen.known /\ seen.new[i] \notin memory
  BY <1>4 DEF Reading, LineState
<1>7. /\ grown \in Seq(Rows) /\ \A i, j \in 1..Len(grown) : i # j => grown[i] # grown[j]
      /\ \A r \in G : \E i \in 1..Len(grown) : grown[i] = r
      /\ \A i \in 1..Len(grown) : grown[i] \in Rows
  <2>1. IsFiniteSet(G) /\ G \subseteq Rows
    BY ProxyAssumption, FS_Subset
  <2> HIDE DEF G
  <2>2. /\ grown \in Seq(G) /\ \A i, j \in 1..Len(grown) : i # j => grown[i] # grown[j]
        /\ \A r \in G : \E i \in 1..Len(grown) : grown[i] = r
        /\ \A i \in 1..Len(grown) : grown[i] \in G
    BY <2>1, Listed, Listing
  <2> HIDE DEF grown
  <2>3. Seq(G) \subseteq Seq(Rows)
    BY <2>1
  <2> QED BY <2>1, <2>2, <2>3
<1>8. \A r \in Rows : g[r] \in Nat /\ g[r] = Growth(r, poll.stats)
  BY <1>0, <1>3, ProxyNumbers
<1>9. g \in [Rows -> Nat]
  BY <1>8
<1>10. IsBuilt(batch', seen.new, grown, g)
  <2>1. batch' = [n \in DOMAIN seen.new |-> SessionEvent(seen.new[n])]
                   \o [n \in DOMAIN grown |-> ErrorEvent(grown[n], g[grown[n]])]
    <3>1. \A n \in DOMAIN grown : g[grown[n]] = Growth(grown[n], poll.stats)
      <4>1. DOMAIN grown = 1..Len(grown)
        BY <1>7, LenProperties
      <4> QED BY <1>7, <1>8, <4>1
    <3> HIDE DEF g, grown, seen
    <3>2. [n \in DOMAIN grown |-> ErrorEvent(grown[n], g[grown[n]])]
            = [n \in DOMAIN grown |-> ErrorEvent(grown[n], Growth(grown[n], poll.stats))]
      BY <3>1
    <3> QED BY <1>1, <3>2 DEF seen, SessionEvent, ErrorEvent
  <2> HIDE DEF g, grown, seen
  <2> QED BY <1>6, <1>7, <1>9, <2>1, BuiltParts
<1>11. \A k \in Keys :
         Owed(batch', "active_session", k) = IF \E i \in 1..Len(seen.new) : seen.new[i] = k THEN 1 ELSE 0
  <2> HIDE DEF g, grown, seen
  <2> QED BY <1>6, <1>10, BuiltSessions
<1>12. \A r \in Rows : Owed(batch', "proxy_error", r) = g[r]
  <2> SUFFICES ASSUME NEW r \in Rows PROVE Owed(batch', "proxy_error", r) = g[r]
    OBVIOUS
  <2>1. g[r] > 0 => \E i \in 1..Len(grown) : grown[i] = r
    BY <1>7, <1>8
  <2> HIDE DEF g, G, grown, seen
  <2>2. /\ \A i, j \in 1..Len(grown) : i # j => grown[i] # grown[j]
        /\ \A i \in 1..Len(grown) : grown[i] \in Rows
    BY <1>7
  <2> QED BY <1>9, <1>10, <2>1, <2>2, BuiltErrors
<1> HIDE DEF g, grown, seen
<1>13. BatchTyped'
  BY <1>10, BuiltTyped DEF BatchTyped
<1>14. DOMAIN base = DOMAIN previous /\ DOMAIN previous \subseteq Rows
  BY <1>0 DEF ProxyTyped, ReadTyped
<1>15. /\ DOMAIN previous' = Rows /\ DOMAIN base' = Rows
       /\ \A r \in Rows : /\ previous'[r] = poll.stats[r]
                          /\ base'[r] = IF r \in DOMAIN previous THEN base[r] ELSE poll.stats[r]
  <2>1. DOMAIN poll.stats = Rows
    BY <1>3
  <2> QED BY <1>2, <1>14, <2>1
<1>16. ReadTyped'
  <2>1. \A r \in Rows : base'[r] \in Nat
    BY <1>0, <1>3, <1>15, ProxyNumbers
  <2>2. base' = [r \in Rows |-> base'[r]]
    BY <1>2
  <2>3. base' \in [Rows -> Nat] /\ previous' \in [Rows -> Nat]
    BY <1>2, <1>3, <2>1, <2>2
  <2> QED BY <1>15, <2>3 DEF ReadTyped
<1>17. ProxyTyped'
  <2>1. poll'.answered = {} /\ poll' \in Poll
    BY <1>2, AsleepTyped DEF Poll
  <2>2. WorldTyped' /\ HandedTyped' /\ PollTyped'
    BY <1>0, <1>2, <2>1 DEF ProxyTyped, WorldTyped, HandedTyped, PollTyped
  <2>3. MemoryTyped'
    <3>1. memory' \subseteq Keys /\ Cardinality(memory') <= MaxMemory
      BY <1>5, <1>6
    <3>2. memoryCleared' \in BOOLEAN /\ lost' \in BOOLEAN
      BY <1>0, <1>2, <1>5, <1>6 DEF ProxyTyped, MemoryTyped
    <3> QED BY <3>1, <3>2 DEF MemoryTyped
  <2> QED BY <1>13, <1>16, <2>1, <2>2, <2>3 DEF ProxyTyped
<1>18. \A r \in Rows : /\ ErrorsTold(r) = counted[r] /\ ErrorsTold(r)' = ErrorsTold(r) + g[r]
                       /\ counted[r] \in Nat
  <2>1. \A r \in Rows : counted[r] \in Nat /\ Owed(batch, "proxy_error", r) = 0
    BY <1>0, <1>3, ProxyNumbers, NothingOwed
  <2> QED BY <1>2, <1>12, <2>1 DEF ErrorsTold
<1>19. NoErrorTwice'
  <2>1. \A r \in Rows : (ErrorsTold(r) + g[r]) + Beyond(errors[r], poll.stats[r]) <= total[r]
    BY <1>0, <1>3, <1>8 DEF NoErrorTwice
  <2>2. poll'.answered = {}
    BY <1>2, AsleepTyped
  <2> QED BY <1>2, <1>15, <1>18, <2>1, <2>2 DEF NoErrorTwice
<1>20. NoErrorLost'
  <2> SUFFICES ASSUME ~reset, NEW r \in Rows
               PROVE  /\ base'[r] <= previous'[r] /\ previous'[r] <= errors[r]
                      /\ ~lost => ErrorsTold(r)' = previous'[r] - base'[r]
    <3>1. poll'.answered = {}
      BY <1>2, AsleepTyped
    <3> QED BY <1>2, <1>15, <3>1 DEF NoErrorLost
  <2>1. /\ poll.stats[r] <= errors[r]
        /\ r \in DOMAIN previous =>
             /\ base[r] <= previous[r] /\ previous[r] <= poll.stats[r]
             /\ ~lost => ErrorsTold(r) = previous[r] - base[r]
    BY <1>0, <1>3 DEF NoErrorLost
  <2>2. r \notin DOMAIN previous => ErrorsTold(r) = 0
    BY <1>0 DEF NoErrorTwice
  <2>3. /\ errors[r] \in Nat /\ poll.stats[r] \in Nat
        /\ r \in DOMAIN previous => previous[r] \in Nat /\ base[r] \in Nat
    BY <1>0, <1>3, ProxyNumbers
  <2>4. g[r] = IF r \notin DOMAIN previous \/ poll.stats[r] < previous[r] THEN 0 ELSE poll.stats[r] - previous[r]
    BY <1>8 DEF Growth
  <2>5. CASE r \in DOMAIN previous
    <3>1. base'[r] = base[r] /\ previous'[r] = poll.stats[r] /\ g[r] = poll.stats[r] - previous[r]
      BY <1>15, <2>1, <2>3, <2>4, <2>5
    <3> QED BY <1>18, <2>1, <2>3, <2>5, <3>1
  <2>6. CASE r \notin DOMAIN previous
    <3>1. base'[r] = poll.stats[r] /\ previous'[r] = poll.stats[r] /\ g[r] = 0
      BY <1>15, <2>4, <2>6
    <3> QED BY <1>18, <2>1, <2>2, <2>3, <2>6, <3>1
  <2> QED BY <2>5, <2>6
<1>21. SessionsTold'
  <2> SUFFICES ASSUME ~lost, NEW k \in Keys
               PROVE  /\ k \in memory' => SessionsSeen(k)' > 0
                      /\ ~memoryCleared' => SessionsSeen(k)' = (IF k \in memory' THEN 1 ELSE 0)
    BY <1>2 DEF SessionsTold
  <2>1. /\ SessionsSeen(k) = reported[k] /\ reported[k] \in Nat
        /\ SessionsSeen(k)' = reported[k] + (IF \E i \in 1..Len(seen.new) : seen.new[i] = k THEN 1 ELSE 0)
    <3>1. reported[k] \in 0..2 /\ Owed(batch, "active_session", k) = 0
      BY <1>0, <1>3, SessionNumbers, NothingOwed
    <3> QED BY <1>2, <1>11, <3>1 DEF SessionsSeen
  <2>2. /\ k \in memory => reported[k] > 0
        /\ ~memoryCleared => reported[k] = (IF k \in memory THEN 1 ELSE 0)
    BY <1>0, <2>1 DEF SessionsTold
  <2>3. k \in memory' => SessionsSeen(k)' > 0
    <3>1. k \in memory' => k \in memory \/ \E i \in 1..Len(seen.new) : seen.new[i] = k
      BY <1>5, <1>6
    <3> QED BY <2>1, <2>2, <3>1
  <2>4. ASSUME ~memoryCleared' PROVE SessionsSeen(k)' = (IF k \in memory' THEN 1 ELSE 0)
    <3>1. ~memoryCleared /\ ~seen.full
      BY <1>0, <1>5, <1>6, <2>4 DEF ProxyTyped, MemoryTyped
    <3>2. CASE k \in memory
      <4>1. k \in memory' /\ ~ \E i \in 1..Len(seen.new) : seen.new[i] = k
        BY <1>5, <1>6, <3>1, <3>2
      <4> QED BY <2>1, <2>2, <3>1, <3>2, <4>1
    <3>3. CASE k \notin memory
      <4>1. k \in memory' <=> \E i \in 1..Len(seen.new) : seen.new[i] = k
        BY <1>5, <1>6, <3>1, <3>3
      <4>2. reported[k] = 0
        BY <2>2, <3>1, <3>3
      <4> QED BY <2>1, <4>1, <4>2
    <3> QED BY <3>2, <3>3
  <2> QED BY <2>3, <2>4
<1> QED BY <1>17, <1>19, <1>20, <1>21 DEF ProxyInv

\* What a failed poll leaves in the memories, and no event of it.
LEMMA BuildFailsStep == ProxyInv /\ BuildFails => ProxyInv'
<1> SUFFICES ASSUME ProxyInv, BuildFails PROVE ProxyInv'
  OBVIOUS
<1>0. ProxyTyped /\ NoErrorTwice /\ NoErrorLost
  BY DEF ProxyInv
<1> DEFINE first == [known |-> memory, new |-> <<>>, full |-> FALSE]
<1>1. /\ poll.answered = {"sessions", "stats"} /\ poll' = Asleep /\ lost' = TRUE
      /\ UNCHANGED <<open, errors, total, reset, batch, reported, counted>>
  BY DEF BuildFails, world, handed
<1>2. PICK through \in SUBSET poll.sessions, done \in SUBSET Rows :
        /\ \E lines \in SetToSeqs(through) :
             LET seen == FoldLeft(Line, first, lines) IN
               memory' = seen.known /\ memoryCleared' = (memoryCleared \/ seen.full)
        /\ previous' = [r \in DOMAIN previous \cup done |->
                          IF r \in done THEN poll.stats[r] ELSE previous[r]]
        /\ base' = [r \in DOMAIN base \cup done |->
                      IF r \in DOMAIN base THEN base[r] ELSE poll.stats[r]]
  BY DEF BuildFails
<1>3. PICK lines \in SetToSeqs(through) :
        LET seen == FoldLeft(Line, first, lines) IN
          memory' = seen.known /\ memoryCleared' = (memoryCleared \/ seen.full)
  BY <1>2
<1>4. /\ "stats" \in poll.answered /\ batch = <<>> /\ poll.stats \in [Rows -> Nat]
      /\ through \subseteq Keys /\ IsFiniteSet(through)
  <2>1. through \subseteq Keys
    BY <1>0 DEF ProxyTyped, PollTyped, Poll
  <2> QED BY <1>0, <1>1, <2>1, ProxyAssumption, FS_Subset DEF ProxyTyped, PollTyped
<1>5. MemoryTyped'
  <2> DEFINE seen == FoldLeft(Line, first, lines)
  <2>1. /\ lines \in Seq(through)
        /\ \A i, j \in 1..Len(lines) : i # j => lines[i] # lines[j]
    BY <1>4, Listing
  <2>2. lines \in Seq(Keys)
    BY <1>4, <2>1
  <2>3. memory \subseteq Keys /\ Cardinality(memory) <= MaxMemory /\ memoryCleared \in BOOLEAN
    BY <1>0 DEF ProxyTyped, MemoryTyped
  <2>4. Reading(seen, Len(lines), lines)
    BY <2>1, <2>2, <2>3, AllRead
  <2>5. memory' = seen.known /\ memoryCleared' = (memoryCleared \/ seen.full)
    BY <1>3
  <2> HIDE DEF seen
  <2>6. seen.known \subseteq Keys /\ Cardinality(seen.known) <= MaxMemory /\ seen.full \in BOOLEAN
    BY <2>4 DEF Reading, LineState
  <2> QED BY <1>1, <2>3, <2>5, <2>6 DEF MemoryTyped
<1>6. /\ DOMAIN base = DOMAIN previous /\ DOMAIN previous \subseteq Rows
      /\ DOMAIN previous' = DOMAIN previous \cup done /\ DOMAIN base' = DOMAIN previous \cup done
      /\ \A r \in DOMAIN previous' :
           /\ previous'[r] = IF r \in done THEN poll.stats[r] ELSE previous[r]
           /\ base'[r] = IF r \in DOMAIN previous THEN base[r] ELSE poll.stats[r]
  BY <1>0, <1>2 DEF ProxyTyped, ReadTyped
<1>7. ReadTyped'
  <2>1. \A r \in DOMAIN previous' : r \in Rows /\ previous'[r] \in Nat /\ base'[r] \in Nat
    BY <1>0, <1>4, <1>6, ProxyNumbers
  <2>2. /\ previous' = [r \in DOMAIN previous' |-> previous'[r]]
        /\ base' = [r \in DOMAIN base' |-> base'[r]]
    BY <1>2
  <2> QED BY <1>6, <2>1, <2>2 DEF ReadTyped
<1>8. poll'.answered = {} /\ poll' \in Poll
  BY <1>1, AsleepTyped DEF Poll
<1>9. ProxyTyped'
  <2>1. WorldTyped' /\ HandedTyped' /\ PollTyped' /\ BatchTyped'
    BY <1>0, <1>1, <1>8 DEF ProxyTyped, WorldTyped, HandedTyped, PollTyped, BatchTyped
  <2> QED BY <1>5, <1>7, <1>8, <2>1 DEF ProxyTyped
<1>10. \A r \in Rows : ErrorsTold(r)' = ErrorsTold(r) /\ ErrorsTold(r) \in Nat
  BY <1>0, <1>1, ProxyNumbers DEF ErrorsTold
<1>11. NoErrorTwice'
  <2> SUFFICES ASSUME NEW r \in Rows
               PROVE  /\ r \in DOMAIN previous' =>
                           ErrorsTold(r) + Beyond(errors[r], previous'[r]) <= total[r]
                      /\ r \notin DOMAIN previous' => ErrorsTold(r) = 0
    BY <1>1, <1>8, <1>10 DEF NoErrorTwice
  <2>1. /\ r \in DOMAIN previous => ErrorsTold(r) + Beyond(errors[r], previous[r]) <= total[r]
        /\ r \notin DOMAIN previous => ErrorsTold(r) = 0
        /\ (ErrorsTold(r) + Growth(r, poll.stats)) + Beyond(errors[r], poll.stats[r]) <= total[r]
    BY <1>0, <1>4 DEF NoErrorTwice
  <2>2. /\ Growth(r, poll.stats) \in Nat /\ poll.stats[r] \in Nat
        /\ errors[r] \in Nat /\ total[r] \in Nat /\ ErrorsTold(r) \in Nat
    BY <1>0, <1>4, ProxyNumbers
  <2>3. CASE r \in done
    BY <1>6, <2>1, <2>2, <2>3 DEF Beyond
  <2>4. CASE r \notin done
    BY <1>6, <2>1, <2>4
  <2> QED BY <2>3, <2>4
<1>12. NoErrorLost'
  <2> SUFFICES ASSUME ~reset, NEW r \in Rows, r \in DOMAIN previous'
               PROVE  base'[r] <= previous'[r] /\ previous'[r] <= errors[r]
    BY <1>1, <1>8 DEF NoErrorLost
  <2>1. /\ r \in DOMAIN previous => base[r] <= previous[r] /\ previous[r] <= errors[r]
        /\ poll.stats[r] <= errors[r]
        /\ r \in DOMAIN previous => previous[r] <= poll.stats[r]
    BY <1>0, <1>4 DEF NoErrorLost
  <2>2. /\ poll.stats[r] \in Nat
        /\ r \in DOMAIN previous => previous[r] \in Nat /\ base[r] \in Nat
    BY <1>0, <1>4, ProxyNumbers
  <2> QED BY <1>6, <2>1, <2>2
<1>13. SessionsTold'
  BY <1>1 DEF SessionsTold
<1> QED BY <1>9, <1>11, <1>12, <1>13 DEF ProxyInv

LEMMA EmitStep == ProxyInv /\ Emit => ProxyInv'
<1> SUFFICES ASSUME ProxyInv, Emit PROVE ProxyInv'
  OBVIOUS
<1>0. ProxyTyped /\ NoErrorTwice /\ NoErrorLost /\ SessionsTold
  BY DEF ProxyInv
<1> DEFINE e == Head(batch)
<1>1. /\ batch # <<>> /\ batch' = Tail(batch)
      /\ UNCHANGED <<open, errors, total, reset, memory, previous, poll, base, memoryCleared, lost>>
      /\ IF e.what = "active_session"
         THEN reported' = [reported EXCEPT ![e.of] = Min({@ + 1, 2})] /\ UNCHANGED counted
         ELSE counted' = [counted EXCEPT ![e.of] = @ + e.count] /\ UNCHANGED reported
  BY DEF Emit, world
<1>2. batch \in Seq(Event) /\ reported \in [Keys -> 0..2] /\ counted \in [Rows -> Nat]
  BY <1>0 DEF ProxyTyped, BatchTyped, HandedTyped
<1>3. /\ e \in Event /\ e = batch[1] /\ batch' \in Seq(Event) /\ 1 \in 1..Len(batch)
      /\ \A i \in 1..Len(batch') : i + 1 \in 1..Len(batch) /\ batch'[i] = batch[i + 1]
  BY <1>1, <1>2, Beheaded
<1>4. /\ e.what \in {"active_session", "proxy_error"} /\ e.count \in Nat
      /\ IF e.what = "active_session" THEN e.of \in Keys /\ e.count = 1 ELSE e.of \in Rows
  BY <1>0, <1>3 DEF ProxyTyped, BatchTyped, Event
<1>5. \A what, x : Owed(batch, what, x) = Value(e, what, x) + Owed(batch', what, x)
  BY <1>1, <1>2, OwedHead
<1> HIDE DEF e
<1>6. BatchTyped'
  BY <1>0, <1>3 DEF ProxyTyped, BatchTyped
<1>7. \A n \in 0..2 : Min({n + 1, 2}) = (IF n = 2 THEN 2 ELSE n + 1)
  BY DEF Min
<1>8. /\ \A r \in Rows : /\ counted'[r] = counted[r] + Value(e, "proxy_error", r)
                         /\ counted[r] \in Nat /\ Value(e, "proxy_error", r) \in Nat
                         /\ Owed(batch', "proxy_error", r) \in Nat
      /\ \A k \in Keys : /\ reported'[k] = (IF Value(e, "active_session", k) = 0 THEN reported[k]
                                            ELSE IF reported[k] = 2 THEN 2 ELSE reported[k] + 1)
                         /\ reported[k] \in 0..2 /\ Value(e, "active_session", k) \in {0, 1}
                         /\ Owed(batch', "active_session", k) \in Nat
  <2>1. /\ \A r \in Rows : Owed(batch', "proxy_error", r) \in Nat
        /\ \A k \in Keys : Owed(batch', "active_session", k) \in Nat
    BY <1>3, OwedType
  <2>2. CASE e.what = "active_session"
    <3>1. \A k \in Keys : reported'[k] = IF k = e.of THEN Min({reported[k] + 1, 2}) ELSE reported[k]
      BY <1>1, <1>2, <1>4, <2>2
    <3>2. /\ \A r \in Rows : Value(e, "proxy_error", r) = 0
          /\ \A k \in Keys : Value(e, "active_session", k) = IF k = e.of THEN 1 ELSE 0
      BY <1>4, <2>2 DEF Value
    <3>3. \A r \in Rows : counted'[r] = counted[r] /\ counted[r] \in Nat
      BY <1>1, <1>2, <2>2
    <3>4. \A k \in Keys : reported[k] \in 0..2
      BY <1>2
    <3>5. \A k \in Keys : reported'[k] = (IF Value(e, "active_session", k) = 0 THEN reported[k]
                                          ELSE IF reported[k] = 2 THEN 2 ELSE reported[k] + 1)
      BY <1>7, <3>1, <3>2, <3>4
    <3> QED BY <2>1, <3>2, <3>3, <3>4, <3>5
  <2>3. CASE e.what = "proxy_error"
    <3>1. \A r \in Rows : counted'[r] = IF r = e.of THEN counted[r] + e.count ELSE counted[r]
      BY <1>1, <1>2, <1>4, <2>3
    <3>2. /\ \A r \in Rows : Value(e, "proxy_error", r) = IF r = e.of THEN e.count ELSE 0
          /\ \A k \in Keys : Value(e, "active_session", k) = 0
      BY <1>4, <2>3 DEF Value
    <3>3. \A k \in Keys : reported'[k] = reported[k] /\ reported[k] \in 0..2
      BY <1>1, <1>2, <2>3
    <3>4. \A r \in Rows : counted[r] \in Nat
      BY <1>2
    <3>5. \A r \in Rows : counted'[r] = counted[r] + Value(e, "proxy_error", r)
      BY <3>1, <3>2, <3>4
    <3> QED BY <1>4, <2>1, <3>2, <3>3, <3>4, <3>5
  <2> QED BY <1>4, <2>2, <2>3
<1>9. HandedTyped'
  <2>1. CASE e.what = "active_session"
    <3>1. \A n \in 0..2 : Min({n + 1, 2}) \in 0..2
      BY <1>7
    <3>2. reported' = [reported EXCEPT ![e.of] = Min({@ + 1, 2})] /\ e.of \in Keys /\ counted' = counted
      BY <1>1, <1>4, <2>1
    <3>3. reported' \in [Keys -> 0..2]
      BY <1>2, <3>1, <3>2
    <3> QED BY <1>2, <3>2, <3>3 DEF HandedTyped
  <2>2. CASE e.what # "active_session"
    <3>1. counted' \in [Rows -> Nat] /\ reported' = reported
      BY <1>1, <1>2, <1>4, <2>2
    <3> QED BY <1>2, <3>1 DEF HandedTyped
  <2> QED BY <2>1, <2>2
<1>10. ProxyTyped'
  BY <1>0, <1>1, <1>6, <1>9 DEF ProxyTyped, WorldTyped, MemoryTyped, ReadTyped, PollTyped
<1>11. \A r \in Rows : ErrorsTold(r)' = ErrorsTold(r)
  BY <1>5, <1>8 DEF ErrorsTold
<1>12. NoErrorTwice'
  <2>1. \A r \in Rows : Growth(r, poll.stats)' = Growth(r, poll.stats)
    BY <1>1 DEF Growth
  <2> QED BY <1>0, <1>1, <1>11, <2>1 DEF NoErrorTwice
<1>13. NoErrorLost'
  BY <1>0, <1>1, <1>11 DEF NoErrorLost
<1>14. SessionsTold'
  <2> SUFFICES ASSUME ~lost, NEW k \in Keys
               PROVE  /\ k \in memory => SessionsSeen(k)' > 0
                      /\ ~memoryCleared => SessionsSeen(k)' = (IF k \in memory THEN 1 ELSE 0)
    BY <1>1 DEF SessionsTold
  <2>1. /\ k \in memory => SessionsSeen(k) > 0
        /\ ~memoryCleared => SessionsSeen(k) = (IF k \in memory THEN 1 ELSE 0)
    BY <1>0 DEF SessionsTold
  <2>2. /\ SessionsSeen(k) = reported[k] + (Value(e, "active_session", k) + Owed(batch', "active_session", k))
        /\ SessionsSeen(k)' = reported'[k] + Owed(batch', "active_session", k)
    BY <1>5 DEF SessionsSeen
  <2> QED BY <1>8, <2>1, <2>2
<1> QED BY <1>10, <1>12, <1>13, <1>14 DEF ProxyInv

LEMMA BatchFailsStep == ProxyInv /\ BatchFails => ProxyInv'
<1> SUFFICES ASSUME ProxyInv, BatchFails PROVE ProxyInv'
  OBVIOUS
<1>0. ProxyTyped /\ NoErrorTwice /\ NoErrorLost /\ SessionsTold
  BY DEF ProxyInv
<1>1. /\ batch # <<>> /\ batch' = <<>> /\ lost' = TRUE
      /\ UNCHANGED <<open, errors, total, reset, memory, previous, base, memoryCleared, reported, counted>>
  BY DEF BatchFails, world, handed
<1>2. PICK stopped \in BOOLEAN : poll' = [Asleep EXCEPT !.stopped = stopped]
  BY DEF BatchFails
<1>3. poll'.answered = {} /\ poll' \in Poll
  BY <1>2, AsleepTyped DEF Poll
<1>4. BatchTyped' /\ PollTyped'
  <2>1. 1..Len(batch') = {} /\ batch' \in Seq(Event)
    BY <1>1, EmptyRange
  <2> QED BY <1>3, <2>1 DEF BatchTyped, PollTyped
<1>5. ProxyTyped'
  <2>1. MemoryTyped'
    BY <1>0, <1>1 DEF ProxyTyped, MemoryTyped
  <2> QED BY <1>0, <1>1, <1>3, <1>4, <2>1 DEF ProxyTyped, WorldTyped, ReadTyped, HandedTyped
<1>6. \A r \in Rows : ErrorsTold(r)' = counted[r]
  <2>1. \A r \in Rows : Owed(batch', "proxy_error", r) = 0 /\ counted[r] \in Nat
    BY <1>0, <1>1, NothingOwed, ProxyNumbers
  <2> QED BY <1>1, <2>1 DEF ErrorsTold
<1>7. NoErrorTwice'
  <2> SUFFICES ASSUME NEW r \in Rows
               PROVE  /\ r \in DOMAIN previous => counted[r] + Beyond(errors[r], previous[r]) <= total[r]
                      /\ r \notin DOMAIN previous => counted[r] = 0
    BY <1>1, <1>3, <1>6 DEF NoErrorTwice
  <2>1. /\ r \in DOMAIN previous => ErrorsTold(r) + Beyond(errors[r], previous[r]) <= total[r]
        /\ r \notin DOMAIN previous => ErrorsTold(r) = 0
    BY <1>0 DEF NoErrorTwice
  <2>2. /\ ErrorsTold(r) = counted[r] + Owed(batch, "proxy_error", r) /\ counted[r] \in Nat
        /\ Owed(batch, "proxy_error", r) \in Nat /\ total[r] \in Nat /\ errors[r] \in Nat
        /\ r \in DOMAIN previous => previous[r] \in Nat
    BY <1>0, ProxyNumbers DEF ErrorsTold
  <2> QED BY <2>1, <2>2 DEF Beyond
<1>8. NoErrorLost'
  BY <1>0, <1>1, <1>3 DEF NoErrorLost
<1>9. SessionsTold'
  BY <1>1 DEF SessionsTold
<1> QED BY <1>5, <1>7, <1>8, <1>9 DEF ProxyInv

\* A step of another part.
LEMMA ProxyQuiet == ProxyInv /\ UNCHANGED proxy => ProxyInv'
<1> SUFFICES ASSUME ProxyInv, UNCHANGED proxy PROVE ProxyInv'
  OBVIOUS
<1>1. UNCHANGED <<open, errors, total, reset, memory, previous, poll, batch, base, memoryCleared, lost,
                  reported, counted>>
  BY DEF proxy, world, task, handed
<1>2. ProxyTyped'
  BY <1>1
  DEF ProxyInv, ProxyTyped, WorldTyped, MemoryTyped, ReadTyped, PollTyped, BatchTyped, HandedTyped
<1>3. NoErrorTwice' /\ NoErrorLost' /\ SessionsTold'
  BY <1>1 DEF ProxyInv, NoErrorTwice, NoErrorLost, SessionsTold, ErrorsTold, SessionsSeen, Growth
<1> QED BY <1>2, <1>3 DEF ProxyInv

LEMMA ProxyStep == ProxyInv /\ Proxy => ProxyInv'
BY SessionStep, ProxyErrorStep, ProxyRestartStep, AnswerStep, AskFailsStep, BuildStep, BuildFailsStep,
   EmitStep, BatchFailsStep
DEF Proxy, Traffic

LEMMA ProxyImplies == ProxyInv => ProxyTypeOK /\ HandedOnOnce
<1> SUFFICES ASSUME ProxyInv PROVE ProxyTypeOK /\ HandedOnOnce
  OBVIOUS
<1>0. ProxyTyped /\ NoErrorTwice /\ NoErrorLost /\ SessionsTold
  BY DEF ProxyInv
<1>1. ProxyTypeOK
  <2>1. \A r \in DOMAIN previous : r \in Rows
    BY <1>0 DEF ProxyTyped, ReadTyped
  <2>2. \A r \in DOMAIN previous : r \in Rows /\ previous[r] \in Nat /\ base[r] \in Nat
    BY <1>0, <2>1, ProxyNumbers
  <2>3. poll.sessions \subseteq Keys
    BY <1>0 DEF ProxyTyped, PollTyped, Poll
  <2> QED BY <1>0, <2>2, <2>3 DEF ProxyTypeOK, ProxyTyped, WorldTyped, MemoryTyped, HandedTyped
<1>2. /\ \A r \in Rows : counted[r] + Pending("proxy_error", r) = ErrorsTold(r)
      /\ \A k \in Keys : reported[k] + Pending("active_session", k) = SessionsSeen(k)
  BY DEF Pending, Owed, ErrorsTold, SessionsSeen
<1>3. ASSUME NEW r \in Rows
      PROVE  /\ ErrorsTold(r) <= total[r]
             /\ (r \in DOMAIN previous /\ ~reset /\ ~lost) => ErrorsTold(r) = previous[r] - base[r]
  <2>1. /\ errors[r] \in Nat /\ total[r] \in Nat /\ ErrorsTold(r) \in Nat
        /\ r \in DOMAIN previous => previous[r] \in Nat
    BY <1>0, ProxyNumbers
  <2>2. r \in DOMAIN previous => Beyond(errors[r], previous[r]) \in Nat
    BY <2>1 DEF Beyond
  <2>3. ErrorsTold(r) <= total[r]
    BY <1>0, <2>1, <2>2 DEF NoErrorTwice
  <2> QED BY <1>0, <2>3 DEF NoErrorLost
<1>4. HandedOnOnce
  BY <1>0, <1>2, <1>3 DEF HandedOnOnce, SessionsTold
<1> QED BY <1>1, <1>4

-----------------------------------------------------------------------------
\* What the events of Docker make of the memory.

Ports == {Closed, Published}
ContainerIds == Names \X Nat
Descriptions == [image : Images, ports : Ports]
Logged == [action : {"start", "die", "create"}, id : ContainerIds, name : Names, image : Images]
Inspected == [event : Logged, ports : Ports]
Output == [listed : BOOLEAN, id : ContainerIds,
           type : {"docker_start", "docker_crash", "docker_create"},
           findings : SUBSET {"image_change", "port_change"}, ports : Ports]

\* Memories of containers, by id and by name.
Memories == UNION {[D -> Descriptions] : D \in SUBSET (Names \cup ContainerIds)}

LEMMA MemoryIs ==
  ASSUME NEW m \in Memories
  PROVE  /\ DOMAIN m \subseteq Names \cup ContainerIds
         /\ \A x \in DOMAIN m : m[x] \in Descriptions
BY DEF Memories

LEMMA WithIs ==
  ASSUME NEW m, NEW x, NEW v
  PROVE  /\ DOMAIN With(m, x, v) = DOMAIN m \cup {x}
         /\ With(m, x, v)[x] = v
         /\ \A y \in DOMAIN m : y # x => With(m, x, v)[y] = m[y]
BY DEF With

LEMMA WithTyped ==
  ASSUME NEW m \in Memories, NEW x \in Names \cup ContainerIds, NEW v \in Descriptions
  PROVE  With(m, x, v) \in Memories
<1> DEFINE D == DOMAIN m \cup {x}
<1>1. D \in SUBSET (Names \cup ContainerIds)
  BY MemoryIs
<1>2. \A y \in D : (IF y = x THEN v ELSE m[y]) \in Descriptions
  BY MemoryIs
<1>3. With(m, x, v) \in [D -> Descriptions]
  BY <1>2 DEF With
<1> HIDE DEF D
<1> QED BY <1>1, <1>3 DEF Memories

\* The event that is handed on for an inspected one, and how often.
Told(m, r) ==
  [listed |-> FALSE, id |-> r.event.id, type |-> Type(r.event.action), findings |-> Compared(m, r),
   ports |-> r.ports]
Copies(m, r) == [k \in 1..(1 + Cardinality(Compared(m, r))) |-> Told(m, r)]
Stored(m, r) == With(With(m, r.event.name, Description(r)), r.event.id, Description(r))

LEMMA EnrichIs ==
  ASSUME NEW st, NEW r
  PROVE  Enrich(st, r) = [memory |-> Stored(st.memory, r), out |-> st.out \o Copies(st.memory, r)]
BY DEF Enrich, Stored, Copies, Told

LEMMA StoredIs ==
  ASSUME NEW m \in Memories, NEW r \in Inspected
  PROVE  /\ Stored(m, r) \in Memories
         /\ r.event.id \in DOMAIN Stored(m, r) /\ Stored(m, r)[r.event.id].ports = r.ports
         /\ DOMAIN m \subseteq DOMAIN Stored(m, r)
         /\ \A i \in ContainerIds : i \in DOMAIN m /\ i # r.event.id => Stored(m, r)[i] = m[i]
<1> DEFINE d == Description(r)
           n == r.event.name
           id == r.event.id
           first == With(m, n, d)
           second == With(first, id, d)
<1>1. /\ d \in Descriptions /\ d.ports = r.ports
      /\ n \in Names /\ id \in ContainerIds /\ n \in Names \cup ContainerIds /\ id \in Names \cup ContainerIds
  BY DEF Inspected, Logged, Description, Descriptions
<1>2. \A i \in ContainerIds : i # n
  BY <1>1, FindingsAssumption DEF ContainerIds
<1>3. Stored(m, r) = second
  BY DEF Stored
<1> HIDE DEF d, n
<1>4. /\ first \in Memories /\ DOMAIN first = DOMAIN m \cup {n}
      /\ \A y \in DOMAIN m : y # n => first[y] = m[y]
  <2>1. first \in Memories
    BY <1>1, WithTyped
  <2>2. DOMAIN first = DOMAIN m \cup {n} /\ \A y \in DOMAIN m : y # n => first[y] = m[y]
    BY DEF With
  <2> QED BY <2>1, <2>2
<1> HIDE DEF first
<1>5. /\ second \in Memories /\ DOMAIN second = DOMAIN first \cup {id} /\ second[id] = d
      /\ \A y \in DOMAIN first : y # id => second[y] = first[y]
  <2>1. second \in Memories
    BY <1>1, <1>4, WithTyped
  <2>2. /\ DOMAIN second = DOMAIN first \cup {id} /\ second[id] = d
        /\ \A y \in DOMAIN first : y # id => second[y] = first[y]
    BY DEF With
  <2> QED BY <2>1, <2>2
<1> HIDE DEF second
<1>6. \A i \in ContainerIds : i \in DOMAIN m /\ i # id => second[i] = m[i]
  BY <1>2, <1>4, <1>5
<1> QED BY <1>1, <1>3, <1>4, <1>5, <1>6

LEMMA CopiesAre ==
  ASSUME NEW m \in Memories, NEW r \in Inspected
  PROVE  /\ Copies(m, r) \in Seq(Output) /\ Len(Copies(m, r)) >= 1
         /\ \A k \in 1..Len(Copies(m, r)) : Copies(m, r)[k] = Told(m, r)
<1> DEFINE c == 1 + Cardinality(Compared(m, r))
<1>1. Compared(m, r) \in SUBSET {"image_change", "port_change"}
  BY DEF Compared
<1>2. c \in Nat /\ c >= 1
  <2>1. IsFiniteSet({"image_change", "port_change"})
    <3>1. {"image_change", "port_change"} = {"image_change"} \cup {"port_change"}
      OBVIOUS
    <3>2. IsFiniteSet({"image_change"})
      BY FS_Singleton
    <3>3. IsFiniteSet({"image_change"} \cup {"port_change"})
      BY <3>2, FS_AddElement
    <3> QED BY <3>1, <3>3
  <2>2. IsFiniteSet(Compared(m, r))
    BY <1>1, <2>1, FS_Subset
  <2> QED BY <2>2, FS_CardinalityType
<1>3. r.event.id \in ContainerIds /\ r.ports \in Ports
  BY DEF Inspected, Logged
<1>4. Type(r.event.action) \in {"docker_start", "docker_crash", "docker_create"}
  BY DEF Type
<1>5. Told(m, r) \in Output
  BY <1>1, <1>3, <1>4 DEF Told, Output
<1> HIDE DEF c
<1>6. Copies(m, r) = [k \in 1..c |-> Told(m, r)]
  BY DEF Copies, c
<1>7. Copies(m, r) \in [1..c -> Output]
  BY <1>5, <1>6
<1>8. Copies(m, r) \in Seq(Output) /\ Len(Copies(m, r)) = c
  BY <1>2, <1>6, <1>7
<1> QED BY <1>2, <1>6, <1>8

EnrichState == [memory : Memories, out : Seq(Output)]

LEMMA EnrichTyped ==
  ASSUME NEW st \in EnrichState, NEW r \in Inspected PROVE Enrich(st, r) \in EnrichState
<1>1. st.memory \in Memories /\ st.out \in Seq(Output)
  BY DEF EnrichState
<1>2. Stored(st.memory, r) \in Memories /\ Copies(st.memory, r) \in Seq(Output)
  BY <1>1, StoredIs, CopiesAre
<1>3. st.out \o Copies(st.memory, r) \in Seq(Output)
  BY <1>1, <1>2, ConcatProperties
<1> QED BY <1>2, <1>3, EnrichIs DEF EnrichState

\* h: what the first events of the batch make of the memory and of the outbox.
IsEnriching(h, q, start) ==
  /\ h \in [0..Len(q) -> EnrichState]
  /\ h[0] = start
  /\ \A n \in 1..Len(q) : h[n] = Enrich(h[n - 1], q[n])
  /\ FoldLeft(Enrich, start, q) = h[Len(q)]

\* The events one after the other.
LEMMA EnrichFolded ==
  ASSUME NEW q \in Seq(Inspected), NEW start \in EnrichState
  PROVE  \E h : IsEnriching(h, q, start)
<1> DEFINE N == Len(q)
           IsIt(g) == g = [T \in SUBSET (DOMAIN q) |->
                         IF T = {} THEN start ELSE Enrich(g[T \ {Max(T)}], q[Max(T)])]
           it == CHOOSE g : IsIt(g)
           step == [r \in Inspected |-> [st \in EnrichState |-> Enrich(st, r)]]
<1>1. N \in Nat /\ DOMAIN q = 1..N /\ \A n \in 1..N : q[n] \in Inspected
  BY LenProperties, ElementOfSeq
<1>2. FoldLeft(Enrich, start, q) = it[DOMAIN q]
  BY DEF FoldLeft, MapThenFoldSet
<1>3. step \in [Inspected -> [EnrichState -> EnrichState]]
  BY EnrichTyped
<1>4. \A r \in Inspected, st \in EnrichState : step[r][st] = Enrich(st, r)
  OBVIOUS
<1> HIDE DEF step
<1>5. PICK g : IsFolding(g, N, EnrichState, start, step, q)
  BY <1>3, FoldingExists
<1>6. \A T \in SUBSET (1..N) : T # {} => Max(T) \in T /\ q[Max(T)] \in Inspected
  BY <1>1, MaxIs
<1>7. IsIt(g)
  <2>1. ASSUME NEW T \in SUBSET (1..N)
        PROVE  g[T] = IF T = {} THEN start ELSE Enrich(g[T \ {Max(T)}], q[Max(T)])
    <3>1. T \ {Max(T)} \in SUBSET (1..N)
      OBVIOUS
    <3>2. g[T \ {Max(T)}] \in EnrichState
      BY <1>5, <3>1 DEF IsFolding
    <3> QED BY <1>4, <1>5, <1>6, <3>2 DEF IsFolding
  <2>2. g = [T \in SUBSET (1..N) |-> g[T]]
    BY <1>5 DEF IsFolding
  <2> HIDE DEF N
  <2> QED BY <1>1, <2>1, <2>2
<1>8. IsIt(it)
  BY <1>7
<1> HIDE DEF it
<1>9. Follows(it, N, EnrichState, start, step, q)
  <2>1. ASSUME NEW T \in SUBSET (1..N)
        PROVE  it[T] = IF T = {} THEN start ELSE Enrich(it[T \ {Max(T)}], q[Max(T)])
    BY <1>1, <1>8
  <2> QED BY <1>4, <1>6, <2>1 DEF Follows
<1>10. PICK h : IsChain(h, N, EnrichState, start, step, q) /\ it[1..N] = h[N]
  BY <1>3, <1>9, FoldChain
<1>11. \A n \in 1..N : h[n] = Enrich(h[n - 1], q[n])
  <2>1. \A n \in 1..N : n - 1 \in 0..N
    BY <1>1
  <2> QED BY <1>1, <1>4, <1>10, <2>1 DEF IsChain
<1> QED BY <1>1, <1>2, <1>10, <1>11 DEF IsChain, IsEnriching

\* The n-th output tells the ports of i.
Tells(out, n, i) == ~out[n].listed /\ out[n].id = i

\* What is told, or about to be, is of a container in the memory.
Telling(m, out, d) ==
  /\ \A n \in 1..Len(out) : ~out[n].listed => out[n].id \in DOMAIN m
  /\ DOMAIN d \subseteq DOMAIN m

\* Handed on one after the other, the outputs tell every change of the ports that
\* are remembered: the last one of a container has what the memory has,
TellsLast(m, out) == \A n \in 1..Len(out) :
  ~out[n].listed /\ (\A k \in 1..Len(out) : k > n => ~Tells(out, k, out[n].id)) =>
    out[n].ports = m[out[n].id].ports
\* one that reports no change has what was told before it,
TellsFirst(out, d) == \A n \in 1..Len(out) :
  (/\ ~out[n].listed /\ "port_change" \notin out[n].findings
   /\ out[n].id \in DOMAIN d /\ \A k \in 1..Len(out) : k < n => ~Tells(out, k, out[n].id))
  => d[out[n].id] = out[n].ports
\* or what the one before it has,
TellsOn(out) == \A k, n \in 1..Len(out) :
  (/\ ~out[n].listed /\ "port_change" \notin out[n].findings
   /\ k < n /\ Tells(out, k, out[n].id)
   /\ \A l \in 1..Len(out) : k < l /\ l < n => ~Tells(out, l, out[n].id))
  => out[k].ports = out[n].ports
\* and what no output tells has been told.
ToldRest(m, out, d) == \A i \in DOMAIN d :
  (\A n \in 1..Len(out) : ~Tells(out, n, i)) => d[i] = m[i].ports

AllTold(m, out, d) == TellsLast(m, out) /\ TellsFirst(out, d) /\ TellsOn(out) /\ ToldRest(m, out, d)

\* The outputs after one more event.
WithCopies(m, out, r) == out \o Copies(m, r)

LEMMA Enriched ==
  ASSUME NEW m \in Memories, NEW out \in Seq(Output), NEW r \in Inspected,
         NEW new, new = WithCopies(m, out, r)
  PROVE  /\ Len(out) \in Nat /\ Len(new) \in Nat /\ Len(out) < Len(new)
         /\ \A n \in 1..Len(out) : n \in 1..Len(new) /\ new[n] = out[n]
         /\ \A n \in 1..Len(new) : n \in 1..Len(out) \/ (n > Len(out) /\ new[n] = Told(m, r))
<1> DEFINE c == Copies(m, r)
           L == Len(out)
           C == Len(c)
<1>1. /\ c \in Seq(Output) /\ L \in Nat /\ C \in Nat /\ C >= 1
      /\ \A k \in 1..C : c[k] = Told(m, r)
  BY CopiesAre, LenProperties
<1> HIDE DEF c
<1>2. /\ Len(out \o c) = L + C
      /\ \A n \in 1..L + C : (out \o c)[n] = IF n <= L THEN out[n] ELSE c[n - L]
  BY <1>1, ConcatProperties
<1>3. new = out \o c
  BY DEF c, WithCopies
<1> HIDE DEF L, C
<1>4. \A n \in 1..L : n \in 1..L + C /\ new[n] = out[n]
  BY <1>1, <1>2, <1>3
<1>5. \A n \in 1..L + C : n \in 1..L \/ (n > L /\ new[n] = Told(m, r))
  <2> SUFFICES ASSUME NEW n \in 1..L + C, ~(n \in 1..L) PROVE n > L /\ new[n] = Told(m, r)
    OBVIOUS
  <2>1. n > L /\ ~(n <= L) /\ n - L \in 1..C
    BY <1>1
  <2> QED BY <1>1, <1>2, <1>3, <2>1
<1>6. Len(new) = L + C /\ L + C \in Nat /\ L < L + C
  BY <1>1, <1>2, <1>3
<1> QED BY <1>1, <1>4, <1>5, <1>6 DEF L

LEMMA ToldIs ==
  ASSUME NEW m \in Memories, NEW r \in Inspected
  PROVE  /\ ~Told(m, r).listed /\ Told(m, r).id = r.event.id /\ Told(m, r).ports = r.ports
         /\ r.event.id \in ContainerIds
         /\ "port_change" \notin Told(m, r).findings /\ r.event.id \in DOMAIN m =>
              m[r.event.id].ports = r.ports
<1>1. r.event.id \in ContainerIds
  BY DEF Inspected, Logged
<1>2. /\ ~Told(m, r).listed /\ Told(m, r).id = r.event.id /\ Told(m, r).ports = r.ports
      /\ Told(m, r).findings = Compared(m, r)
  BY DEF Told
<1>3. "port_change" \notin Compared(m, r) /\ r.event.id \in DOMAIN m => m[r.event.id].ports = r.ports
  BY DEF Compared
<1> QED BY <1>1, <1>2, <1>3

LEMMA TellingEnrich ==
  ASSUME NEW m \in Memories, NEW out \in Seq(Output), NEW r \in Inspected,
         NEW d, DOMAIN d \subseteq ContainerIds, Telling(m, out, d)
  PROVE  /\ Telling(Stored(m, r), WithCopies(m, out, r), d)
         /\ AllTold(m, out, d) => AllTold(Stored(m, r), WithCopies(m, out, r), d)
<1> DEFINE new == WithCopies(m, out, r)
           s == Stored(m, r)
           i == r.event.id
           e == Told(m, r)
           L == Len(out)
<1>1. /\ L \in Nat /\ Len(new) \in Nat /\ L < Len(new)
      /\ \A n \in 1..L : n \in 1..Len(new) /\ new[n] = out[n]
      /\ \A n \in 1..Len(new) : n \in 1..L \/ (n > L /\ new[n] = e)
  <2> HIDE DEF e
  <2>1. e = Told(m, r)
    BY DEF e
  <2> QED BY <2>1, Enriched
<1>2. /\ i \in DOMAIN s /\ s[i].ports = r.ports /\ DOMAIN m \subseteq DOMAIN s
      /\ \A x \in ContainerIds : x \in DOMAIN m /\ x # i => s[x] = m[x]
  BY StoredIs
<1>3. /\ ~e.listed /\ e.id = i /\ e.ports = r.ports /\ i \in ContainerIds
      /\ "port_change" \notin e.findings /\ i \in DOMAIN m => m[i].ports = r.ports
  BY ToldIs
<1>4. /\ \A n \in 1..L : out[n].id \in ContainerIds /\ (~out[n].listed => out[n].id \in DOMAIN m)
      /\ DOMAIN d \subseteq DOMAIN m
  <2>1. \A n \in 1..L : out[n].id \in ContainerIds
    <3>1. \A n \in 1..L : out[n] \in Output
      BY ElementOfSeq
    <3> QED BY <3>1 DEF Output
  <2> QED BY <2>1 DEF Telling
<1> HIDE DEF new, s, e, i
<1>5. Telling(s, new, d)
  BY <1>1, <1>2, <1>3, <1>4 DEF Telling
<1>6. \A x : \A n \in 1..L : Tells(new, n, x) <=> Tells(out, n, x)
  BY <1>1 DEF Tells
<1>7. \A n \in 1..Len(new) : n > L => new[n] = e /\ Tells(new, n, i)
  <2>1. \A n \in 1..Len(new) : n > L => n \notin 1..L
    BY <1>1
  <2> QED BY <1>1, <1>3, <2>1 DEF Tells
<1>8. L + 1 \in 1..Len(new) /\ L + 1 > L /\ \A n \in 1..L : n < L + 1 /\ n <= L
  BY <1>1
<1>9. ASSUME AllTold(m, out, d) PROVE AllTold(s, new, d)
  <2>0. TellsLast(m, out) /\ TellsFirst(out, d) /\ TellsOn(out) /\ ToldRest(m, out, d)
    BY <1>9 DEF AllTold
  <2>1. ASSUME NEW n \in 1..Len(new), ~new[n].listed,
               \A k \in 1..Len(new) : k > n => ~Tells(new, k, new[n].id)
        PROVE  new[n].ports = s[new[n].id].ports
    <3>1. CASE n \in 1..L
      <4>1. new[n] = out[n] /\ L + 1 > n
        BY <1>1, <1>8, <3>1
      <4>2. out[n].id # i
        BY <1>7, <1>8, <2>1, <4>1
      <4>3. \A k \in 1..L : k > n => ~Tells(out, k, out[n].id)
        BY <1>1, <1>6, <2>1, <4>1
      <4>4. out[n].ports = m[out[n].id].ports
        BY <2>0, <2>1, <3>1, <4>1, <4>3 DEF TellsLast
      <4>5. s[out[n].id] = m[out[n].id]
        BY <1>2, <1>4, <2>1, <3>1, <4>1, <4>2
      <4> QED BY <4>1, <4>4, <4>5
    <3>2. CASE n > L
      BY <1>2, <1>3, <1>7, <3>2
    <3> QED BY <1>1, <3>1, <3>2
  <2>2. ASSUME NEW n \in 1..Len(new), "port_change" \notin new[n].findings, ~new[n].listed,
               new[n].id \in DOMAIN d, \A k \in 1..Len(new) : k < n => ~Tells(new, k, new[n].id)
        PROVE  d[new[n].id] = new[n].ports
    <3>1. CASE n \in 1..L
      <4>1. new[n] = out[n]
        BY <1>1, <3>1
      <4>2. \A k \in 1..L : k < n => ~Tells(out, k, out[n].id)
        BY <1>1, <1>6, <2>2, <4>1
      <4> QED BY <2>0, <2>2, <3>1, <4>1, <4>2 DEF TellsFirst
    <3>2. CASE n > L
      <4>1. new[n] = e /\ new[n].id = i
        BY <1>3, <1>7, <3>2
      <4>2. \A k \in 1..L : k \in 1..Len(new) /\ k < n
        BY <1>1, <3>2
      <4>3. \A k \in 1..L : ~Tells(out, k, i)
        BY <1>6, <2>2, <4>1, <4>2
      <4>4. d[i] = m[i].ports
        BY <2>0, <2>2, <4>1, <4>3 DEF ToldRest
      <4> QED BY <1>3, <1>4, <2>2, <4>1, <4>4
    <3> QED BY <1>1, <3>1, <3>2
  <2>3. ASSUME NEW k \in 1..Len(new), NEW n \in 1..Len(new), "port_change" \notin new[n].findings,
               ~new[n].listed, k < n, Tells(new, k, new[n].id),
               \A l \in 1..Len(new) : k < l /\ l < n => ~Tells(new, l, new[n].id)
        PROVE  new[k].ports = new[n].ports
    <3>1. CASE n \in 1..L
      <4>1. new[n] = out[n] /\ k \in 1..L /\ new[k] = out[k]
        <5>1. k \in 1..L
          BY <1>1, <2>3, <3>1
        <5> QED BY <1>1, <3>1, <5>1
      <4>2. Tells(out, k, out[n].id) /\ \A l \in 1..L : k < l /\ l < n => ~Tells(out, l, out[n].id)
        BY <1>1, <1>6, <2>3, <4>1
      <4>3. out[k].ports = out[n].ports
        BY <2>0, <2>3, <3>1, <4>1, <4>2 DEF TellsOn
      <4> QED BY <4>1, <4>3
    <3>2. CASE n > L /\ k > L
      BY <1>7, <3>2
    <3>3. CASE n > L /\ k \in 1..L
      <4>1. new[n] = e /\ new[n].id = i /\ new[k] = out[k] /\ new[n].ports = r.ports
        BY <1>1, <1>3, <1>7, <3>3
      <4>2. \A l \in 1..L : l > k => k < l /\ l < n /\ l \in 1..Len(new)
        BY <1>1, <3>3
      <4>3. out[k].id = i /\ ~out[k].listed
        BY <2>3, <4>1 DEF Tells
      <4>4. \A l \in 1..L : l > k => ~Tells(out, l, i)
        BY <1>6, <2>3, <4>1, <4>2
      <4>5. out[k].ports = m[i].ports
        BY <2>0, <3>3, <4>3, <4>4 DEF TellsLast
      <4>6. i \in DOMAIN m
        BY <1>4, <3>3, <4>3
      <4>7. m[i].ports = r.ports
        BY <1>3, <2>3, <4>1, <4>6
      <4> QED BY <4>1, <4>5, <4>7
    <3> QED BY <1>1, <3>1, <3>2, <3>3
  <2>4. ASSUME NEW x \in DOMAIN d, \A n \in 1..Len(new) : ~Tells(new, n, x)
        PROVE  d[x] = s[x].ports
    <3>1. x # i
      BY <1>7, <1>8, <2>4
    <3>2. \A n \in 1..L : ~Tells(out, n, x)
      BY <1>1, <1>6, <2>4
    <3>3. d[x] = m[x].ports
      BY <2>0, <3>2 DEF ToldRest
    <3>4. s[x] = m[x]
      BY <1>2, <1>4, <3>1
    <3> QED BY <3>3, <3>4
  <2>5. TellsLast(s, new)
    BY <2>1 DEF TellsLast
  <2>6. TellsFirst(new, d)
    BY <2>2 DEF TellsFirst
  <2>7. TellsOn(new)
    BY <2>3 DEF TellsOn
  <2>8. ToldRest(s, new, d)
    BY <2>4 DEF ToldRest
  <2> QED BY <2>5, <2>6, <2>7, <2>8 DEF AllTold
<1> QED BY <1>5, <1>9 DEF new, s

\* The whole batch.
LEMMA TellingRead ==
  ASSUME NEW q \in Seq(Inspected), NEW m \in Memories, NEW d, DOMAIN d \subseteq ContainerIds,
         Telling(m, <<>>, d)
  PROVE  LET result == FoldLeft(Enrich, [memory |-> m, out |-> <<>>], q) IN
           /\ result.memory \in Memories /\ result.out \in Seq(Output)
           /\ Telling(result.memory, result.out, d)
           /\ AllTold(m, <<>>, d) => AllTold(result.memory, result.out, d)
<1> DEFINE start == [memory |-> m, out |-> <<>>]
           Good(st) == /\ Telling(st.memory, st.out, d)
                       /\ AllTold(m, <<>>, d) => AllTold(st.memory, st.out, d)
<1>1. start \in EnrichState /\ Good(start)
  BY EmptyRange DEF EnrichState
<1> HIDE DEF start, Good
<1>2. PICK h : IsEnriching(h, q, start)
  BY <1>1, EnrichFolded
<1>3. ASSUME NEW st \in EnrichState, NEW r \in Inspected, Good(st) PROVE Good(Enrich(st, r))
  <2>1. st.memory \in Memories /\ st.out \in Seq(Output)
    BY DEF EnrichState
  <2>2. /\ Enrich(st, r).memory = Stored(st.memory, r)
        /\ Enrich(st, r).out = WithCopies(st.memory, st.out, r)
    BY EnrichIs DEF WithCopies
  <2>3. Telling(st.memory, st.out, d)
    BY <1>3 DEF Good
  <2>4. /\ Telling(Stored(st.memory, r), WithCopies(st.memory, st.out, r), d)
        /\ AllTold(st.memory, st.out, d) => AllTold(Stored(st.memory, r), WithCopies(st.memory, st.out, r), d)
    BY <2>1, <2>3, TellingEnrich
  <2> QED BY <1>3, <2>2, <2>4 DEF Good
<1> DEFINE P == {n \in Nat : n <= Len(q) => Good(h[n])}
<1>4. 0 \in P
  BY <1>1, <1>2 DEF IsEnriching
<1>5. ASSUME NEW n \in Nat, n \in P PROVE n + 1 \in P
  <2> SUFFICES ASSUME n + 1 <= Len(q) PROVE Good(h[n + 1])
    OBVIOUS
  <2>1. n + 1 \in 1..Len(q) /\ (n + 1) - 1 = n /\ Good(h[n]) /\ n \in 0..Len(q)
    BY <1>5, LenProperties
  <2>2. h[n + 1] = Enrich(h[n], q[n + 1]) /\ h[n] \in EnrichState
    BY <1>2, <2>1 DEF IsEnriching
  <2>3. q[n + 1] \in Inspected
    BY <2>1, ElementOfSeq
  <2> QED BY <1>3, <2>1, <2>2, <2>3
<1>6. Nat \subseteq P
  <2> HIDE DEF P
  <2> QED BY <1>4, <1>5, Induction
<1>7. Good(h[Len(q)]) /\ h[Len(q)] \in EnrichState
  BY <1>2, <1>6, LenProperties DEF IsEnriching
<1>8. h[Len(q)] = FoldLeft(Enrich, start, q)
  BY <1>2 DEF IsEnriching
<1>9. Good(FoldLeft(Enrich, start, q)) /\ FoldLeft(Enrich, start, q) \in EnrichState
  BY <1>7, <1>8
<1> QED BY <1>9 DEF Good, EnrichState, start

-----------------------------------------------------------------------------
\* The containers.

ContainersTyped == container \in [Names -> [id : Nat, image : Images, ports : Ports]]
FeedTyped == raw \in Seq(Logged) /\ read \in Seq(Inspected) /\ Len(read) <= DockerCap
HeldTyped == known \in Memories /\ outbox \in Seq(Output) /\ untold \in BOOLEAN
ToldTyped == DOMAIN told \subseteq ContainerIds /\ told \in [DOMAIN told -> Ports]
Stage ==
  /\ docker \in {"inventory", "reading", "stopped"}
  /\ read # <<>> => docker = "reading" /\ outbox = <<>>
  /\ outbox # <<>> => docker = "reading"

DockerTyped == ContainersTyped /\ FeedTyped /\ HeldTyped /\ ToldTyped /\ Stage

DockerTells ==
  /\ Telling(known, outbox, told)
  /\ ~untold => AllTold(known, outbox, told)

DockerInv == DockerTyped /\ DockerTells

\* No outputs.
LEMMA NoOutput ==
  ASSUME NEW m, NEW d
  PROVE  /\ Telling(m, <<>>, d) <=> DOMAIN d \subseteq DOMAIN m
         /\ AllTold(m, <<>>, d) <=> \A i \in DOMAIN d : d[i] = m[i].ports
<1>1. 1..Len(<<>>) = {}
  BY EmptyRange
<1>2. Telling(m, <<>>, d) <=> DOMAIN d \subseteq DOMAIN m
  BY <1>1 DEF Telling
<1>3. TellsLast(m, <<>>)
  BY <1>1 DEF TellsLast
<1>4. TellsFirst(<<>>, d)
  BY <1>1 DEF TellsFirst
<1>5. TellsOn(<<>>)
  BY <1>1 DEF TellsOn
<1>6. ToldRest(m, <<>>, d) <=> \A i \in DOMAIN d : d[i] = m[i].ports
  BY <1>1 DEF ToldRest
<1> QED BY <1>2, <1>3, <1>4, <1>5, <1>6 DEF AllTold

LEMMA DockerStart == DockerInit => DockerInv
<1> SUFFICES ASSUME DockerInit PROVE DockerInv
  OBVIOUS
<1>1. /\ container = [n \in Names |-> [id |-> 0, image |-> CHOOSE i \in Images : TRUE, ports |-> Closed]]
      /\ raw = <<>> /\ known = Nothing /\ docker = "inventory" /\ read = <<>> /\ outbox = <<>>
      /\ told = Nothing /\ untold = FALSE
  BY DEF DockerInit
<1>2. ContainersTyped
  <2>1. (CHOOSE i \in Images : TRUE) \in Images
    BY FindingsAssumption
  <2> QED BY <1>1, <2>1 DEF ContainersTyped, Ports
<1>3. FeedTyped
  BY <1>1, EmptyRange, FindingsAssumption DEF FeedTyped
<1>4. DOMAIN Nothing = {} /\ Nothing \in [{} -> Descriptions] /\ Nothing \in [{} -> Ports]
  BY DEF Nothing
<1>5. known \in Memories
  BY <1>1, <1>4 DEF Memories
<1>6. HeldTyped /\ ToldTyped /\ Stage
  BY <1>1, <1>4, <1>5, EmptyRange DEF HeldTyped, ToldTyped, Stage
<1>7. DockerTells
  BY <1>1, <1>4, NoOutput DEF DockerTells
<1> QED BY <1>2, <1>3, <1>6, <1>7 DEF DockerInv, DockerTyped

LEMMA DockerAgain == DockerInv /\ DockerFresh => DockerInv'
<1> SUFFICES ASSUME DockerInv, DockerFresh PROVE DockerInv'
  OBVIOUS
<1>1. /\ container' = container
      /\ raw' = <<>> /\ known' = Nothing /\ docker' = "inventory" /\ read' = <<>> /\ outbox' = <<>>
      /\ told' = Nothing /\ untold' = FALSE
  BY DEF DockerFresh
<1>2. ContainersTyped'
  BY <1>1 DEF DockerInv, DockerTyped, ContainersTyped
<1>3. FeedTyped'
  BY <1>1, EmptyRange, FindingsAssumption DEF FeedTyped
<1>4. DOMAIN Nothing = {} /\ Nothing \in [{} -> Descriptions] /\ Nothing \in [{} -> Ports]
  BY DEF Nothing
<1>5. known' \in Memories
  BY <1>1, <1>4 DEF Memories
<1>6. HeldTyped' /\ ToldTyped' /\ Stage'
  BY <1>1, <1>4, <1>5, EmptyRange DEF HeldTyped, ToldTyped, Stage
<1>7. DockerTells'
  <2>1. 1..Len(outbox') = {} /\ DOMAIN told' = {}
    BY <1>1, <1>4, EmptyRange
  <2> QED BY <2>1 DEF DockerTells, AllTold, Telling, TellsLast, TellsFirst, TellsOn, ToldRest
<1> QED BY <1>2, <1>3, <1>6, <1>7 DEF DockerInv, DockerTyped

\* What is told does not depend on the daemon and on what is read.
LEMMA TellsStill ==
  ASSUME DockerTells, UNCHANGED <<known, outbox, told>>, ~untold' => ~untold
  PROVE  DockerTells'
BY DEF DockerTells, AllTold, Telling, TellsLast, TellsFirst, TellsOn, ToldRest, Tells

LEMMA LogStep ==
  ASSUME DockerInv, NEW n \in Names, NEW action \in {"start", "die", "create"},
         NEW now \in [id : Nat, image : Images, ports : Ports], Log(n, action, now)
  PROVE  DockerInv'
<1>0. DockerTyped /\ DockerTells
  BY DEF DockerInv
<1> DEFINE l == [action |-> action, id |-> <<n, now.id>>, name |-> n, image |-> now.image]
<1>1. /\ container' = [container EXCEPT ![n] = now] /\ raw' = Append(raw, l)
      /\ UNCHANGED <<known, docker, read, outbox, told, untold>>
  BY DEF Log
<1>2. ContainersTyped'
  BY <1>0, <1>1 DEF DockerTyped, ContainersTyped
<1>3. l \in Logged
  BY DEF Logged, ContainerIds
<1> HIDE DEF l
<1>4. raw' \in Seq(Logged)
  BY <1>0, <1>1, <1>3, AppendProperties DEF DockerTyped, FeedTyped
<1>5. DockerTyped'
  BY <1>0, <1>1, <1>2, <1>4 DEF DockerTyped, FeedTyped, HeldTyped, ToldTyped, Stage
<1>6. DockerTells'
  BY <1>0, <1>1, TellsStill
<1> QED BY <1>5, <1>6 DEF DockerInv

LEMMA StartOrDieStep == ASSUME NEW n \in Names PROVE DockerInv /\ StartOrDie(n) => DockerInv'
<1> SUFFICES ASSUME DockerInv, StartOrDie(n) PROVE DockerInv'
  OBVIOUS
<1> DEFINE c == container[n]
<1>1. c \in [id : Nat, image : Images, ports : Ports]
  BY DEF DockerInv, DockerTyped, ContainersTyped
<1>2. /\ [c EXCEPT !.ports = Published] \in [id : Nat, image : Images, ports : Ports]
      /\ [c EXCEPT !.ports = Closed] \in [id : Nat, image : Images, ports : Ports]
  BY <1>1 DEF Ports
<1>3. \/ Log(n, "start", [c EXCEPT !.ports = Published])
      \/ Log(n, "die", [c EXCEPT !.ports = Closed])
  BY DEF StartOrDie
<1> HIDE DEF c
<1> QED BY <1>2, <1>3, LogStep

LEMMA RecreateStep == ASSUME NEW n \in Names PROVE DockerInv /\ Recreate(n) => DockerInv'
<1> SUFFICES ASSUME DockerInv, Recreate(n) PROVE DockerInv'
  OBVIOUS
<1>1. container[n] \in [id : Nat, image : Images, ports : Ports]
  BY DEF DockerInv, DockerTyped, ContainersTyped
<1>2. PICK i \in Images : Log(n, "create", [id |-> container[n].id + 1, image |-> i, ports |-> Closed])
  BY DEF Recreate
<1>3. [id |-> container[n].id + 1, image |-> i, ports |-> Closed] \in [id : Nat, image : Images, ports : Ports]
  BY <1>1 DEF Ports
<1> QED BY <1>2, <1>3, LogStep

LEMMA ListContainersStep == DockerInv /\ ListContainers => DockerInv'
<1> SUFFICES ASSUME DockerInv, ListContainers PROVE DockerInv'
  OBVIOUS
<1>0. DockerTyped /\ DockerTells
  BY DEF DockerInv
<1> DEFINE Entry(n) == [listed |-> TRUE, id |-> <<n, container[n].id>>, type |-> "docker_create",
                        findings |-> {}, ports |-> Closed]
           Entries == {Entry(n) : n \in Names}
<1>1. /\ docker = "inventory" /\ docker' = "reading" /\ outbox' \in SetToSeqs(Entries)
      /\ UNCHANGED <<container, raw, known, read, told, untold>>
  BY DEF ListContainers
<1>2. outbox = <<>> /\ read = <<>>
  BY <1>0, <1>1 DEF DockerTyped, Stage
<1>3. \A n \in Names : Entry(n) \in Output /\ Entry(n).listed
  <2>1. \A n \in Names : container[n].id \in Nat
    BY <1>0 DEF DockerTyped, ContainersTyped
  <2> QED BY <2>1 DEF Output, ContainerIds, Ports
<1>4. IsFiniteSet(Entries)
  <2>1. IsFiniteSet(Names)
    BY FindingsAssumption
  <2> DEFINE f == [n \in Names |-> Entry(n)]
  <2> HIDE DEF Entry
  <2>2. f \in Surjection(Names, Entries)
    BY DEF Surjection
  <2> QED BY <2>1, <2>2, FS_Surjection
<1>5. outbox' \in Seq(Entries) /\ \A k \in 1..Len(outbox') : outbox'[k] \in Entries
  <2> HIDE DEF Entries
  <2> QED BY <1>1, <1>4, Listing
<1>6. Entries \subseteq Output /\ \A x \in Entries : x.listed
  <2> HIDE DEF Entry
  <2> QED BY <1>3
<1> HIDE DEF Entries
<1>7. outbox' \in Seq(Output)
  BY <1>5, <1>6
<1>8. DockerTyped'
  BY <1>0, <1>1, <1>2, <1>7 DEF DockerTyped, ContainersTyped, FeedTyped, HeldTyped, ToldTyped, Stage
<1>9. \A k \in 1..Len(outbox') : outbox'[k].listed
  BY <1>5, <1>6
<1>10. /\ DOMAIN told \subseteq DOMAIN known
       /\ ~untold => \A i \in DOMAIN told : told[i] = known[i].ports
  BY <1>0, <1>2, NoOutput DEF DockerTells
<1>11. Telling(known, outbox, told)'
  BY <1>1, <1>9, <1>10 DEF Telling
<1>12. ~untold => (TellsLast(known, outbox) /\ TellsFirst(outbox, told) /\ TellsOn(outbox))'
  BY <1>9 DEF TellsLast, TellsFirst, TellsOn
<1>13. ~untold => ToldRest(known, outbox, told)'
  BY <1>1, <1>10 DEF ToldRest
<1>14. DockerTells'
  BY <1>1, <1>11, <1>12, <1>13 DEF DockerTells, AllTold
<1> QED BY <1>8, <1>14 DEF DockerInv

LEMMA ListFailsStep == DockerInv /\ ListFails => DockerInv'
<1> SUFFICES ASSUME DockerInv, ListFails PROVE DockerInv'
  OBVIOUS
<1>1. /\ docker = "inventory" /\ docker' = "reading"
      /\ UNCHANGED <<container, raw, known, read, outbox, told, untold>>
  BY DEF ListFails
<1>2. DockerTyped'
  BY <1>1 DEF DockerInv, DockerTyped, ContainersTyped, FeedTyped, HeldTyped, ToldTyped, Stage
<1>3. DockerTells'
  BY <1>1, TellsStill DEF DockerInv
<1> QED BY <1>2, <1>3 DEF DockerInv

LEMMA TakeEventStep ==
  ASSUME DockerInv, raw # <<>>, NEW ports \in Ports, TakeEvent(ports) PROVE DockerInv'
<1>0. DockerTyped /\ DockerTells
  BY DEF DockerInv
<1> DEFINE e == Head(raw)
           seen == [event |-> e, ports |-> ports]
<1>1. /\ docker = "reading" /\ outbox = <<>> /\ Len(read) < DockerCap
      /\ read' = Append(read, seen) /\ raw' = Tail(raw)
      /\ UNCHANGED <<container, known, docker, outbox, told, untold>>
  BY DEF TakeEvent
<1>2. raw \in Seq(Logged) /\ read \in Seq(Inspected)
  BY <1>0 DEF DockerTyped, FeedTyped
<1>3. e \in Logged /\ raw' \in Seq(Logged)
  BY <1>1, <1>2, Beheaded
<1>4. seen \in Inspected
  <2> HIDE DEF e
  <2> QED BY <1>3 DEF Inspected
<1> HIDE DEF seen, e
<1>5. read' \in Seq(Inspected) /\ Len(read') = Len(read) + 1 /\ Len(read) \in Nat
  BY <1>1, <1>2, <1>4, AppendProperties, LenProperties
<1>6. FeedTyped'
  BY <1>1, <1>3, <1>5, FindingsAssumption DEF FeedTyped
<1>7. DockerTyped'
  BY <1>0, <1>1, <1>6 DEF DockerTyped, ContainersTyped, HeldTyped, ToldTyped, Stage
<1>8. DockerTells'
  BY <1>0, <1>1, TellsStill
<1> QED BY <1>7, <1>8 DEF DockerInv

LEMMA InspectStep == DockerInv /\ (Inspect \/ InspectFails) => DockerInv'
<1> SUFFICES ASSUME DockerInv, Inspect \/ InspectFails PROVE DockerInv'
  OBVIOUS
<1>1. Closed \in Ports
  BY DEF Ports
<1>2. CASE Inspect
  <2> DEFINE e == Head(raw)
             ports == IF <<e.name, container[e.name].id>> = e.id THEN container[e.name].ports ELSE Closed
  <2>1. raw # <<>> /\ TakeEvent(ports)
    BY <1>2 DEF Inspect
  <2>2. e \in Logged
    BY <2>1, Beheaded DEF DockerInv, DockerTyped, FeedTyped
  <2>3. e.name \in Names
    BY <2>2 DEF Logged
  <2> HIDE DEF e
  <2>4. container[e.name].ports \in Ports
    BY <2>3 DEF DockerInv, DockerTyped, ContainersTyped
  <2>5. ports \in Ports
    BY <1>1, <2>4
  <2> HIDE DEF ports
  <2> QED BY <2>1, <2>5, TakeEventStep
<1>3. CASE InspectFails
  BY <1>1, <1>3, TakeEventStep DEF InspectFails
<1> QED BY <1>2, <1>3

LEMMA EndReadStep == DockerInv /\ EndRead => DockerInv'
<1> SUFFICES ASSUME DockerInv, EndRead PROVE DockerInv'
  OBVIOUS
<1>0. DockerTyped /\ DockerTells
  BY DEF DockerInv
<1> DEFINE result == FoldLeft(Enrich, [memory |-> known, out |-> <<>>], read)
<1>1. /\ read # <<>> /\ known' = result.memory /\ outbox' = result.out /\ read' = <<>>
      /\ UNCHANGED <<container, raw, docker, told, untold>>
  BY DEF EndRead
<1>2. /\ outbox = <<>> /\ docker = "reading" /\ read \in Seq(Inspected) /\ known \in Memories
      /\ DOMAIN told \subseteq ContainerIds
  BY <1>0, <1>1 DEF DockerTyped, Stage, FeedTyped, HeldTyped, ToldTyped
<1>3. Telling(known, <<>>, told) /\ (~untold => AllTold(known, <<>>, told))
  BY <1>0, <1>2 DEF DockerTells
<1>4. /\ result.memory \in Memories /\ result.out \in Seq(Output)
      /\ Telling(result.memory, result.out, told)
      /\ AllTold(known, <<>>, told) => AllTold(result.memory, result.out, told)
  BY <1>2, <1>3, TellingRead
<1> HIDE DEF result
<1>5. DockerTyped'
  <2>1. FeedTyped'
    BY <1>0, <1>1, EmptyRange, FindingsAssumption DEF DockerTyped, FeedTyped
  <2>2. HeldTyped'
    BY <1>0, <1>1, <1>4 DEF DockerTyped, HeldTyped
  <2> QED BY <1>0, <1>1, <1>2, <2>1, <2>2 DEF DockerTyped, ContainersTyped, ToldTyped, Stage
<1>6. Telling(known, outbox, told)'
  <2>1. Telling(known', outbox', told)
    BY <1>1, <1>4
  <2> QED BY <1>1, <2>1 DEF Telling
<1>7. ~untold => AllTold(known, outbox, told)'
  <2>1. ~untold => AllTold(known', outbox', told)
    BY <1>1, <1>3, <1>4
  <2> QED BY <1>1, <2>1 DEF AllTold, TellsLast, TellsFirst, TellsOn, ToldRest
<1>8. DockerTells'
  BY <1>1, <1>6, <1>7 DEF DockerTells
<1> QED BY <1>5, <1>8 DEF DockerInv

LEMMA StreamFailsStep == DockerInv /\ StreamFails => DockerInv'
<1> SUFFICES ASSUME DockerInv, StreamFails PROVE DockerInv'
  OBVIOUS
<1>1. /\ read' = <<>> /\ untold' = TRUE
      /\ UNCHANGED <<container, raw, known, docker, outbox, told>>
  BY DEF StreamFails
<1>2. FeedTyped'
  BY <1>1, EmptyRange, FindingsAssumption DEF DockerInv, DockerTyped, FeedTyped
<1>3. DockerTyped'
  BY <1>1, <1>2 DEF DockerInv, DockerTyped, ContainersTyped, HeldTyped, ToldTyped, Stage
<1>4. DockerTells'
  BY <1>1, TellsStill DEF DockerInv
<1> QED BY <1>3, <1>4 DEF DockerInv

LEMMA EnrichFailsStep == DockerInv /\ EnrichFails => DockerInv'
<1> SUFFICES ASSUME DockerInv, EnrichFails PROVE DockerInv'
  OBVIOUS
<1>0. DockerTyped /\ DockerTells
  BY DEF DockerInv
<1>1. /\ read # <<>> /\ read' = <<>> /\ untold' = TRUE
      /\ UNCHANGED <<container, raw, docker, outbox, told>>
  BY DEF EnrichFails
<1>2. PICK k \in 1..Len(read) :
        known' = FoldLeft(Enrich, [memory |-> known, out |-> <<>>], SubSeq(read, 1, k)).memory
  BY DEF EnrichFails
<1> DEFINE q == SubSeq(read, 1, k)
           result == FoldLeft(Enrich, [memory |-> known, out |-> <<>>], q)
<1>3. /\ outbox = <<>> /\ read \in Seq(Inspected) /\ known \in Memories
      /\ DOMAIN told \subseteq ContainerIds /\ Telling(known, <<>>, told)
  BY <1>0, <1>1 DEF DockerTyped, Stage, FeedTyped, HeldTyped, ToldTyped, DockerTells
<1>4. q \in Seq(Inspected)
  <2>1. Len(read) \in Nat /\ \A n \in 1..Len(read) : read[n] \in Inspected
    BY <1>3, LenProperties, ElementOfSeq
  <2>2. k \in Int /\ 1 \in Int /\ \A n \in 1..k : read[n] \in Inspected
    BY <2>1
  <2> QED BY <2>2, SubSeqProperties
<1> HIDE DEF q
<1>5. result.memory \in Memories /\ Telling(result.memory, result.out, told)
  BY <1>3, <1>4, TellingRead
<1>6. known' = result.memory
  BY <1>2 DEF q
<1> HIDE DEF result
<1>7. DockerTyped'
  <2>1. FeedTyped'
    BY <1>0, <1>1, EmptyRange, FindingsAssumption DEF DockerTyped, FeedTyped
  <2>2. HeldTyped'
    BY <1>0, <1>1, <1>5, <1>6 DEF DockerTyped, HeldTyped
  <2> QED BY <1>0, <1>1, <2>1, <2>2 DEF DockerTyped, ContainersTyped, ToldTyped, Stage
<1>8. DockerTells'
  <2>1. DOMAIN told' \subseteq DOMAIN known' /\ outbox' = <<>>
    BY <1>1, <1>3, <1>5, <1>6 DEF Telling
  <2>2. Telling(known', <<>>, told')
    BY <2>1, NoOutput
  <2>3. Telling(known, outbox, told)'
    BY <2>1, <2>2 DEF Telling
  <2> QED BY <1>1, <2>3 DEF DockerTells
<1> QED BY <1>7, <1>8 DEF DockerInv

\* The first output is handed on, and recorded as told when the code says so.
LEMMA HandOnTells ==
  ASSUME NEW m \in Memories, NEW q \in Seq(Output), NEW t, NEW e, NEW d, NEW after, q # <<>>, t = Tail(q), e = Head(q),
         DOMAIN d \subseteq ContainerIds, Telling(m, q, d), AllTold(m, q, d),
         ~e.listed /\ (e.id \notin DOMAIN d \/ "port_change" \in e.findings) =>
           after = With(d, e.id, e.ports),
         ~(~e.listed /\ (e.id \notin DOMAIN d \/ "port_change" \in e.findings)) => after = d
  PROVE  /\ TellsLast(m, t) /\ TellsFirst(t, after) /\ TellsOn(t) /\ ToldRest(m, t, after)
<1> DEFINE N == Len(t)
<1>1. /\ e = q[1] /\ t \in Seq(Output) /\ Len(q) \in Nat /\ N = Len(q) - 1 /\ Len(q) >= 1
      /\ \A i \in 1..N : i + 1 \in 1..Len(q) /\ t[i] = q[i + 1]
  BY Beheaded
<1> HIDE DEF N
<1>2. /\ N \in Nat /\ 1 \in 1..Len(q)
      /\ \A k \in 1..Len(q) : k = 1 \/ (k - 1 \in 1..N /\ k = (k - 1) + 1)
  BY <1>1
<1>3. \A x : \A k \in 1..N : Tells(t, k, x) <=> Tells(q, k + 1, x)
  BY <1>1 DEF Tells
<1>4. \A x : Tells(q, 1, x) <=> ~e.listed /\ e.id = x
  BY <1>1 DEF Tells
<1>5. TellsLast(m, q) /\ TellsFirst(q, d) /\ TellsOn(q) /\ ToldRest(m, q, d)
  BY DEF AllTold
\* What an event of a container tells is what is told of it then.
<1>6. ASSUME ~e.listed PROVE e.id \in DOMAIN after /\ after[e.id] = e.ports
  <2>1. CASE e.id \notin DOMAIN d \/ "port_change" \in e.findings
    <3>1. after = [y \in DOMAIN d \cup {e.id} |-> IF y = e.id THEN e.ports ELSE d[y]]
      BY <1>6, <2>1 DEF With
    <3> QED BY <3>1
  <2>2. CASE ~(e.id \notin DOMAIN d \/ "port_change" \in e.findings)
    <3>1. \A k \in 1..Len(q) : ~(k < 1)
      OBVIOUS
    <3>2. d[e.id] = e.ports
      BY <1>1, <1>2, <1>5, <1>6, <2>2, <3>1 DEF TellsFirst
    <3> QED BY <2>2, <3>2
  <2> QED BY <2>1, <2>2
<1>7. \A x : x # e.id \/ e.listed => (x \in DOMAIN after <=> x \in DOMAIN d)
                                      /\ (x \in DOMAIN d => after[x] = d[x])
  <2>1. CASE ~e.listed /\ (e.id \notin DOMAIN d \/ "port_change" \in e.findings)
    <3>1. after = With(d, e.id, e.ports)
      BY <2>1
    <3> QED BY <2>1, <3>1 DEF With
  <2>2. CASE ~(~e.listed /\ (e.id \notin DOMAIN d \/ "port_change" \in e.findings))
    <3>1. after = d
      BY <2>2
    <3> QED BY <3>1
  <2> QED BY <2>1, <2>2
<1>8. TellsLast(m, t)
  <2> SUFFICES ASSUME NEW n \in 1..N, ~t[n].listed, \A k \in 1..N : k > n => ~Tells(t, k, t[n].id)
               PROVE  t[n].ports = m[t[n].id].ports
    BY DEF TellsLast, N
  <2>1. n + 1 \in 1..Len(q) /\ t[n] = q[n + 1]
    BY <1>1
  <2>2. ASSUME NEW k \in 1..Len(q), k > n + 1 PROVE ~Tells(q, k, t[n].id)
    <3>1. k - 1 \in 1..N /\ k = (k - 1) + 1 /\ k - 1 > n
      BY <1>2, <2>2
    <3>2. ~Tells(t, k - 1, t[n].id)
      BY <3>1
    <3> QED BY <1>3, <3>1, <3>2
  <2> QED BY <1>5, <2>1, <2>2 DEF TellsLast
<1>9. TellsFirst(t, after)
  <2> SUFFICES ASSUME NEW n \in 1..N, ~t[n].listed, "port_change" \notin t[n].findings,
                      t[n].id \in DOMAIN after, \A k \in 1..N : k < n => ~Tells(t, k, t[n].id)
               PROVE  after[t[n].id] = t[n].ports
    BY DEF TellsFirst, N
  <2>1. n + 1 \in 1..Len(q) /\ t[n] = q[n + 1] /\ 1 < n + 1
    BY <1>1
  <2>2. ASSUME NEW k \in 1..Len(q), 1 < k, k < n + 1 PROVE ~Tells(q, k, t[n].id)
    <3>1. k - 1 \in 1..N /\ k = (k - 1) + 1 /\ k - 1 < n
      BY <1>2, <2>2
    <3>2. ~Tells(t, k - 1, t[n].id)
      BY <3>1
    <3> QED BY <1>3, <3>1, <3>2
  <2>3. CASE Tells(q, 1, t[n].id)
    <3>1. ~e.listed /\ e.id = t[n].id
      BY <1>4, <2>3
    <3>2. q[1].ports = q[n + 1].ports
      BY <1>2, <1>5, <2>1, <2>2, <2>3 DEF TellsOn
    <3> QED BY <1>1, <1>6, <2>1, <3>1, <3>2
  <2>4. CASE ~Tells(q, 1, t[n].id)
    <3>1. t[n].id \in DOMAIN d /\ after[t[n].id] = d[t[n].id]
      BY <1>4, <1>7, <2>4
    <3>2. ASSUME NEW k \in 1..Len(q), k < n + 1 PROVE ~Tells(q, k, t[n].id)
      <4>1. k = 1 \/ 1 < k
        BY <1>1
      <4> QED BY <2>2, <2>4, <3>2, <4>1
    <3>3. d[q[n + 1].id] = q[n + 1].ports
      BY <1>5, <2>1, <3>1, <3>2 DEF TellsFirst
    <3> QED BY <2>1, <3>1, <3>3
  <2> QED BY <2>3, <2>4
<1>10. TellsOn(t)
  <2>1. ASSUME NEW k \in 1..N, NEW n \in 1..N, ~t[n].listed, "port_change" \notin t[n].findings,
                      k < n, Tells(t, k, t[n].id),
                      \A l \in 1..N : k < l /\ l < n => ~Tells(t, l, t[n].id)
        PROVE  t[k].ports = t[n].ports
    <3>1. /\ n + 1 \in 1..Len(q) /\ t[n] = q[n + 1] /\ k + 1 \in 1..Len(q) /\ t[k] = q[k + 1]
          /\ k + 1 < n + 1 /\ Tells(q, k + 1, t[n].id)
      BY <1>1, <1>3, <2>1
    <3>2. ASSUME NEW l \in 1..Len(q), k + 1 < l, l < n + 1 PROVE ~Tells(q, l, t[n].id)
      <4>1. l - 1 \in 1..N /\ l = (l - 1) + 1 /\ k < l - 1 /\ l - 1 < n
        BY <1>2, <3>2
      <4>2. ~Tells(t, l - 1, t[n].id)
        BY <2>1, <4>1
      <4> QED BY <1>3, <4>1, <4>2
    <3> QED BY <1>5, <2>1, <3>1, <3>2 DEF TellsOn
  <2>2. \A k, n \in 1..N :
          (/\ ~t[n].listed /\ "port_change" \notin t[n].findings
           /\ k < n /\ Tells(t, k, t[n].id)
           /\ \A l \in 1..N : k < l /\ l < n => ~Tells(t, l, t[n].id))
          => t[k].ports = t[n].ports
    BY <2>1
  <2> QED BY <2>2, Zenon DEF TellsOn, N
<1>11. ToldRest(m, t, after)
  <2> SUFFICES ASSUME NEW x \in DOMAIN after, \A n \in 1..N : ~Tells(t, n, x)
               PROVE  after[x] = m[x].ports
    BY DEF ToldRest, N
  <2>1. ASSUME NEW n \in 1..Len(q), n # 1 PROVE ~Tells(q, n, x)
    <3>1. n - 1 \in 1..N /\ n = (n - 1) + 1
      BY <1>2, <2>1
    <3> QED BY <1>3, <3>1
  <2>2. CASE Tells(q, 1, x)
    <3>1. ~e.listed /\ e.id = x
      BY <1>4, <2>2
    <3>2. \A k \in 1..Len(q) : k > 1 => ~Tells(q, k, x)
      BY <2>1
    <3>3. q[1].ports = m[x].ports
      BY <1>1, <1>2, <1>5, <3>1, <3>2 DEF TellsLast
    <3> QED BY <1>1, <1>6, <3>1, <3>3
  <2>3. CASE ~Tells(q, 1, x)
    <3>1. x \in DOMAIN d /\ after[x] = d[x]
      BY <1>4, <1>7, <2>3
    <3>2. \A n \in 1..Len(q) : ~Tells(q, n, x)
      BY <2>1, <2>3
    <3> QED BY <1>5, <3>1, <3>2 DEF ToldRest
  <2> QED BY <2>2, <2>3
<1> QED BY <1>8, <1>9, <1>10, <1>11

LEMMA HandOnStep == DockerInv /\ HandOn => DockerInv'
<1> SUFFICES ASSUME DockerInv, HandOn PROVE DockerInv'
  OBVIOUS
<1>0. DockerTyped /\ DockerTells
  BY DEF DockerInv
<1> DEFINE e == Head(outbox)
           new == ~e.listed /\ (e.id \notin DOMAIN told \/ "port_change" \in e.findings)
<1>1. /\ outbox # <<>> /\ outbox' = Tail(outbox)
      /\ told' = IF new THEN With(told, e.id, e.ports) ELSE told
      /\ UNCHANGED <<container, raw, known, docker, read, untold>>
  BY DEF HandOn
<1>2. /\ outbox \in Seq(Output) /\ known \in Memories /\ untold \in BOOLEAN
      /\ DOMAIN told \subseteq ContainerIds /\ told \in [DOMAIN told -> Ports]
      /\ docker = "reading" /\ read = <<>>
  BY <1>0, <1>1 DEF DockerTyped, HeldTyped, ToldTyped, Stage
<1>3. /\ e \in Output /\ e = outbox[1] /\ outbox' \in Seq(Output) /\ 1 \in 1..Len(outbox)
      /\ \A i \in 1..Len(outbox') : i + 1 \in 1..Len(outbox) /\ outbox'[i] = outbox[i + 1]
  BY <1>1, <1>2, Beheaded
<1>4. e.id \in ContainerIds /\ e.ports \in Ports
  BY <1>3 DEF Output
<1>5. ToldTyped' /\ DOMAIN told' \subseteq DOMAIN told \cup (IF e.listed THEN {} ELSE {e.id})
  <2>1. CASE new
    <3>1. told' = [y \in DOMAIN told \cup {e.id} |-> IF y = e.id THEN e.ports ELSE told[y]]
      BY <1>1, <2>1 DEF With
    <3> HIDE DEF e
    <3> QED BY <1>2, <1>4, <2>1, <3>1 DEF ToldTyped
  <2>2. CASE ~new
    BY <1>1, <1>2, <2>2 DEF ToldTyped
  <2> QED BY <2>1, <2>2
<1>6. HeldTyped'
  BY <1>1, <1>2, <1>3 DEF HeldTyped
<1>7. DockerTyped'
  BY <1>0, <1>1, <1>2, <1>5, <1>6 DEF DockerTyped, ContainersTyped, FeedTyped, Stage
<1>8. Telling(known, outbox, told)
  BY <1>0 DEF DockerTells
<1>9. Telling(known, outbox, told)'
  <2>1. \A n \in 1..Len(outbox') : ~outbox'[n].listed => outbox'[n].id \in DOMAIN known
    BY <1>3, <1>8 DEF Telling
  <2>2. ~e.listed => e.id \in DOMAIN known
    BY <1>3, <1>8 DEF Telling
  <2>3. DOMAIN told \subseteq DOMAIN known
    BY <1>8 DEF Telling
  <2> HIDE DEF e
  <2>4. DOMAIN told' \subseteq DOMAIN known
    BY <1>5, <2>2, <2>3
  <2> QED BY <1>1, <2>1, <2>4 DEF Telling
<1>10. ASSUME ~untold PROVE AllTold(known, outbox, told)'
  <2>1. AllTold(known, outbox, told)
    BY <1>0, <1>10 DEF DockerTells
  <2>2. /\ new => told' = With(told, e.id, e.ports)
        /\ ~new => told' = told
    BY <1>1
  <2> HIDE DEF e, new
  <2>3. /\ TellsLast(known, outbox') /\ TellsFirst(outbox', told') /\ TellsOn(outbox')
        /\ ToldRest(known, outbox', told')
    BY <1>1, <1>2, <1>8, <2>1, <2>2, HandOnTells DEF e, new
  <2> QED BY <1>1, <2>3 DEF AllTold, TellsLast, TellsFirst, TellsOn, ToldRest
<1>11. DockerTells'
  BY <1>1, <1>9, <1>10 DEF DockerTells
<1> QED BY <1>7, <1>11 DEF DockerInv

LEMMA HandOnFailsStep == DockerInv /\ HandOnFails => DockerInv'
<1> SUFFICES ASSUME DockerInv, HandOnFails PROVE DockerInv'
  OBVIOUS
<1>0. DockerTyped /\ DockerTells
  BY DEF DockerInv
<1>1. /\ outbox # <<>> /\ outbox' = <<>> /\ untold' = TRUE /\ docker' \in {"reading", "stopped"}
      /\ UNCHANGED <<container, raw, known, read, told>>
  BY DEF HandOnFails
<1>2. read = <<>> /\ 1..Len(outbox') = {} /\ outbox' \in Seq(Output)
  BY <1>0, <1>1, EmptyRange DEF DockerTyped, Stage
<1>3. DockerTyped'
  BY <1>0, <1>1, <1>2 DEF DockerTyped, ContainersTyped, FeedTyped, HeldTyped, ToldTyped, Stage
<1>4. DockerTells'
  BY <1>0, <1>1, <1>2 DEF DockerTells, Telling
<1> QED BY <1>3, <1>4 DEF DockerInv

\* A step of another part.
LEMMA DockerQuiet == DockerInv /\ UNCHANGED dockerVars => DockerInv'
<1> SUFFICES ASSUME DockerInv, UNCHANGED dockerVars PROVE DockerInv'
  OBVIOUS
<1>1. UNCHANGED <<container, raw, known, docker, read, outbox, told, untold>>
  BY DEF dockerVars
<1>2. DockerTyped'
  BY <1>1 DEF DockerInv, DockerTyped, ContainersTyped, FeedTyped, HeldTyped, ToldTyped, Stage
<1>3. DockerTells'
  BY <1>1, TellsStill DEF DockerInv
<1> QED BY <1>2, <1>3 DEF DockerInv

LEMMA DockerStep == DockerInv /\ Docker => DockerInv'
BY StartOrDieStep, RecreateStep, ListContainersStep, ListFailsStep, InspectStep, EndReadStep,
   StreamFailsStep, EnrichFailsStep, HandOnStep, HandOnFailsStep
DEF Docker

LEMMA DockerImplies == DockerInv => DockerTypeOK /\ PortsTold
<1> SUFFICES ASSUME DockerInv PROVE DockerTypeOK /\ PortsTold
  OBVIOUS
<1>0. DockerTyped /\ DockerTells
  BY DEF DockerInv
<1>1. {i[1] : i \in DOMAIN told} \subseteq Names
  BY <1>0 DEF DockerTyped, ToldTyped, ContainerIds
<1>2. DOMAIN told \subseteq DOMAIN known
  BY <1>0 DEF DockerTells, Telling
<1>3. DockerTypeOK
  BY <1>0, <1>1, <1>2 DEF DockerTypeOK, DockerTyped, FeedTyped, Stage
<1>4. PortsTold
  <2> SUFFICES ASSUME outbox = <<>>, ~untold, NEW i \in DOMAIN told PROVE known[i].ports = told[i]
    BY DEF PortsTold
  <2>1. ToldRest(known, <<>>, told)
    BY <1>0 DEF DockerTells, AllTold
  <2>2. 1..Len(<<>>) = {}
    BY EmptyRange
  <2>3. told[i] = known[i].ports
    BY <2>1, <2>2 DEF ToldRest
  <2> QED BY <2>3
<1> QED BY <1>3, <1>4

-----------------------------------------------------------------------------
\* All of them.

CollectorsInv ==
  /\ ProxyInv /\ RequestInv /\ IntegrityInv /\ DockerInv
  /\ enabled \in Settings /\ changes \in 0..MaxChanges /\ failures \in 0..MaxFailures

LEMMA CollectorsStart == Init => CollectorsInv
<1> SUFFICES ASSUME Init PROVE CollectorsInv
  OBVIOUS
<1>1. RequestInv
  BY RequestStart DEF Init, RequestInit
<1>2. changes \in 0..MaxChanges /\ failures \in 0..MaxFailures /\ enabled \in Settings
  BY SurroundingsAssumption DEF Init
<1> QED BY <1>1, <1>2, ProxyStart, IntegrityStart, DockerStart DEF Init, CollectorsInv

\* Every step is a change, a failure, or neither.
Counted == Change \/ Failure \/ UNCHANGED bounds

LEMMA ProxyCounted == Proxy => Counted
<1>1. ASSUME NEW k \in Keys, Session(k) PROVE Counted
  BY <1>1 DEF Session, Counted
<1>2. ASSUME NEW r \in Rows, ProxyError(r) PROVE Counted
  BY <1>2 DEF ProxyError, Counted
<1>3. ASSUME ProxyRestart \/ AskFails \/ BuildFails \/ BatchFails PROVE Counted
  BY <1>3 DEF ProxyRestart, AskFails, BuildFails, BatchFails, Counted
<1>4. ASSUME Answer \/ Build \/ Emit PROVE Counted
  BY <1>4 DEF Answer, Build, Emit, Counted, bounds
<1> QED BY <1>1, <1>2, <1>3, <1>4 DEF Proxy, Traffic

LEMMA DockerCounted == Docker => Counted
<1>1. ASSUME NEW n \in Names, StartOrDie(n) \/ Recreate(n) PROVE Counted
  BY <1>1 DEF StartOrDie, Recreate, Counted
<1>2. ASSUME ListFails \/ InspectFails \/ StreamFails \/ EnrichFails \/ HandOnFails PROVE Counted
  BY <1>2 DEF ListFails, InspectFails, StreamFails, EnrichFails, HandOnFails, Counted
<1>3. ASSUME ListContainers \/ Inspect \/ EndRead \/ HandOn PROVE Counted
  BY <1>3 DEF ListContainers, Inspect, EndRead, HandOn, Counted, bounds
<1> QED BY <1>1, <1>2, <1>3 DEF Docker

LEMMA OthersCounted == Requests \/ Integrity \/ Restart => Counted
<1>1. ASSUME Requests PROVE Counted
  BY <1>1 DEF Requests, Datagram, Decode, Serve, ServeFails, Counted, bounds
<1>2. ASSUME NEW s \in Subjects, Alter(s) PROVE Counted
  BY <1>2 DEF Alter, Counted
<1>3. ASSUME InventoryFails \/ FindingFails PROVE Counted
  BY <1>3 DEF InventoryFails, FindingFails, Counted
<1>4. ASSUME Inventory \/ Process \/ Record PROVE Counted
  BY <1>4 DEF Inventory, Process, Record, Counted, bounds
<1>5. ASSUME ContainersDone \/ HashFiles \/ RehashFiles PROVE Counted
  BY <1>5 DEF ContainersDone, HashFiles, RehashFiles, Counted, bounds
<1>6. ASSUME Restart PROVE Counted
  BY <1>6 DEF Restart, Counted
<1> QED BY <1>1, <1>2, <1>3, <1>4, <1>5, <1>6 DEF Integrity

LEMMA BoundsStep ==
  ASSUME changes \in 0..MaxChanges, failures \in 0..MaxFailures, enabled \in Settings,
         [Next]_collectors
  PROVE  (changes \in 0..MaxChanges /\ failures \in 0..MaxFailures /\ enabled \in Settings)'
<1>1. Counted /\ enabled' = enabled
  <2>1. CASE Next
    BY <2>1, ProxyCounted, DockerCounted, OthersCounted DEF Next, Restart
  <2>2. CASE UNCHANGED collectors
    BY <2>2 DEF collectors, Counted
  <2> QED BY <2>1, <2>2
<1>2. MaxChanges \in Nat /\ MaxFailures \in Nat
  BY SurroundingsAssumption
<1>3. CASE Change
  BY <1>1, <1>2, <1>3 DEF Change
<1>4. CASE Failure
  BY <1>1, <1>2, <1>4 DEF Failure
<1>5. CASE UNCHANGED bounds
  BY <1>1, <1>5 DEF bounds
<1> QED BY <1>1, <1>3, <1>4, <1>5 DEF Counted

LEMMA CollectorsStep == CollectorsInv /\ [Next]_collectors => CollectorsInv'
<1> SUFFICES ASSUME CollectorsInv, [Next]_collectors PROVE CollectorsInv'
  OBVIOUS
<1>1. /\ ProxyInv /\ RequestInv /\ IntegrityInv /\ DockerInv
      /\ enabled \in Settings /\ changes \in 0..MaxChanges /\ failures \in 0..MaxFailures
  BY DEF CollectorsInv
<1>2. RequestInv'
  <2>1. CASE Requests
    BY <1>1, <2>1, DatagramStep, DecodeStep, ServeStep, ServeFailsStep DEF Requests
  <2>2. CASE UNCHANGED requests
    BY <1>1, <2>2, RequestQuiet
  <2>3. CASE RequestFresh
    BY <2>3, RequestAgain
  <2> QED BY <2>1, <2>2, <2>3 DEF Next, Restart, collectors
<1>3. IntegrityInv'
  <2>1. CASE Integrity
    BY <1>1, <2>1, AlterStep, InventoryStep, InventoryFailsStep, ProcessStep, RecordStep,
       FindingFailsStep, ContainersDoneStep, HashFilesStep, RehashFilesStep DEF Integrity
  <2>2. CASE UNCHANGED integrity
    BY <1>1, <2>2, IntegrityQuiet
  <2>3. CASE IntegrityFresh
    BY <1>1, <2>3, IntegrityAgain
  <2> QED BY <2>1, <2>2, <2>3 DEF Next, Restart, collectors
<1>4. ProxyInv'
  <2>1. Proxy \/ UNCHANGED proxy \/ ProxyFresh
    BY DEF Next, Restart, collectors
  <2> QED BY <1>1, <2>1, ProxyStep, ProxyQuiet, ProxyAgain
<1>5. DockerInv'
  <2>1. Docker \/ UNCHANGED dockerVars \/ DockerFresh
    BY DEF Next, Restart, collectors
  <2> QED BY <1>1, <2>1, DockerStep, DockerQuiet, DockerAgain
<1>6. (changes \in 0..MaxChanges /\ failures \in 0..MaxFailures /\ enabled \in Settings)'
  BY <1>1, BoundsStep
<1> QED BY <1>2, <1>3, <1>4, <1>5, <1>6 DEF CollectorsInv

LEMMA CollectorsInvariant == Spec => []CollectorsInv
BY CollectorsStart, CollectorsStep, PTL DEF Spec

\* The memories keep their bounds and their kinds for any deployment: the memory
\* of HAProxy's sessions never has more than _max_dedupe_size keys, the queue of
\* requests and a batch of Docker never more than their caps.
THEOREM TypeCorrect == Spec => []TypeOK
<1>1. CollectorsInv => TypeOK
  BY ProxyImplies, RequestImplies, IntegrityImplies, DockerImplies DEF CollectorsInv, TypeOK
<1> QED BY <1>1, CollectorsInvariant, PTL

\* Requests reach the service in the order of their arrival, each once, and the
\* listener loses only those that find its queue full, for any queue and any
\* number of datagrams, failures and restarts.
THEOREM RequestOrderKept == Spec => []RequestsInOrder
<1>1. CollectorsInv => RequestsInOrder
  BY RequestImplies DEF CollectorsInv
<1> QED BY <1>1, CollectorsInvariant, PTL

\* What HAProxy is polled for is handed on once: no error twice, none lost unless
\* HAProxy restarts or an event fails, and no session suppressed that was not
\* reported, for any sessions, counters, sizes of the memory and interleavings of
\* the two answers with what happens meanwhile.
THEOREM ToldOnce == Spec => []HandedOnOnce
<1>1. CollectorsInv => HandedOnOnce
  BY ProxyImplies DEF CollectorsInv
<1> QED BY <1>1, CollectorsInvariant, PTL

\* The integrity collector compares with what it announced, for any files,
\* containers and contents, and wherever a snapshot fails.
THEOREM NothingAbsorbed == Spec => []ChangesAnnounced
<1>1. CollectorsInv => ChangesAnnounced
  BY IntegrityImplies DEF CollectorsInv
<1> QED BY <1>1, CollectorsInvariant, PTL

\* What the Docker collector remembers of a container's ports is what it has told,
\* for any containers, any size of a batch and any number of recreations, until a
\* batch is dropped.
THEOREM PortsRemembered == Spec => []PortsTold
<1>1. CollectorsInv => PortsTold
  BY DockerImplies DEF CollectorsInv
<1> QED BY <1>1, CollectorsInvariant, PTL
=============================================================================
