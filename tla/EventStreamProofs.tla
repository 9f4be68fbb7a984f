-------------------------- MODULE EventStreamProofs --------------------------
(***************************************************************************)
(* Theorems about EventStream: the stream leaves the sessions as Access    *)
(* has them, so that what AccessProofs shows holds beside it, and the end  *)
(* of a session reaches a stream.                                          *)
(***************************************************************************)
EXTENDS EventStream, AccessProofs

-----------------------------------------------------------------------------
\* The stream only reads what Access keeps.

LEMMA StreamReads == [StreamNext]_everything => [Next]_access
BY DEF StreamNext, Serve, Connect, Check, CheckPrincipal, Timeout, Take, Send, HangUp, Publish, everything

\* EventStream implements Access: setup, logins and logouts go on beside the
\* stream as they do without it.
THEOREM StreamImplementsAccess == StreamSpec => Spec
<1>1. StreamInit => Init
  BY DEF StreamInit
<1>2. [StreamNext]_everything => [Next]_access
  BY StreamReads
<1> QED BY <1>1, <1>2, PTL DEF StreamSpec, Spec

-----------------------------------------------------------------------------
\* The queue.

\* What was published, in the order it was, and no more than the queue holds.
Queued ==
  /\ published \in 0..MaxEvents /\ last \in 0..published /\ inHand \in 0..published
  /\ queue \in Seq(1..published) /\ Len(queue) <= QueueSize

LEMMA Enqueues ==
  ASSUME Queued
  PROVE  /\ Enqueued(queue, published + 1) \in Seq(1..(published + 1))
         /\ Enqueued(queue, published + 1) # <<>>
         /\ Len(Enqueued(queue, published + 1)) =
              IF Len(queue) >= QueueSize THEN Len(queue) ELSE Len(queue) + 1
         /\ \A i \in 1..Len(queue) : i < Len(Enqueued(queue, published + 1)) =>
              Enqueued(queue, published + 1)[i] = IF Len(queue) >= QueueSize THEN queue[i + 1] ELSE queue[i]
         /\ Enqueued(queue, published + 1)[Len(Enqueued(queue, published + 1))] = published + 1
<1> DEFINE kept == IF Len(queue) >= QueueSize THEN Tail(queue) ELSE queue
           new == Append(kept, published + 1)
<1>1. /\ QueueSize \in Nat \ {0} /\ published \in Nat /\ queue \in Seq(1..published)
      /\ Len(queue) \in Nat /\ Len(queue) <= QueueSize
  BY StreamAssumption, LenProperties DEF Queued
<1>2. queue \in Seq(1..(published + 1))
  <2>1. 1..published \subseteq 1..(published + 1)
    BY <1>1
  <2> QED BY <1>1, <2>1
<1>3. ASSUME Len(queue) >= QueueSize
      PROVE  /\ kept = Tail(queue) /\ kept \in Seq(1..(published + 1)) /\ Len(kept) = Len(queue) - 1
             /\ \A i \in 1..Len(kept) : kept[i] = queue[i + 1]
  <2>1. queue # <<>>
    BY <1>1, <1>3, EmptySeq
  <2> QED BY <1>1, <1>2, <1>3, <2>1, HeadTailProperties
<1>4. ASSUME ~(Len(queue) >= QueueSize)
      PROVE  kept = queue
  BY <1>4
<1>5. kept \in Seq(1..(published + 1)) /\ Len(kept) \in Nat
  BY <1>2, <1>3, <1>4, LenProperties
<1> HIDE DEF kept
<1>6. /\ new \in Seq(1..(published + 1)) /\ Len(new) = Len(kept) + 1
      /\ \A i \in 1..Len(kept) : new[i] = kept[i]
      /\ new[Len(kept) + 1] = published + 1
  <2>1. published + 1 \in 1..(published + 1)
    BY <1>1
  <2> QED BY <1>5, <2>1, AppendProperties
<1>7. new # <<>>
  BY <1>5, <1>6, EmptySeq
<1>8. Enqueued(queue, published + 1) = new
  BY DEF Enqueued, kept
<1> HIDE DEF new
<1>9. Len(new) = IF Len(queue) >= QueueSize THEN Len(queue) ELSE Len(queue) + 1
  BY <1>1, <1>3, <1>4, <1>6
<1>10. \A i \in 1..Len(queue) : i < Len(new) =>
         new[i] = IF Len(queue) >= QueueSize THEN queue[i + 1] ELSE queue[i]
  <2>1. CASE Len(queue) >= QueueSize
    <3>1. Len(kept) = Len(queue) - 1 /\ \A i \in 1..Len(kept) : kept[i] = queue[i + 1]
      BY <1>3, <2>1
    <3> QED BY <1>1, <1>6, <2>1, <3>1
  <2>2. CASE ~(Len(queue) >= QueueSize)
    BY <1>1, <1>4, <1>6, <2>2
  <2> QED BY <2>1, <2>2
<1>11. new[Len(new)] = published + 1
  BY <1>6
<1> QED BY <1>6, <1>7, <1>8, <1>9, <1>10, <1>11

-----------------------------------------------------------------------------
\* The invariant of a stream.

Streaming == {"check", "principal", "wait", "send"}

Connected ==
  /\ client \in [phase : {"closed"} \cup Streaming, token : Tokens \cup {None}]
  /\ registered <=> client.phase # "closed"
  /\ inHand # 0 <=> client.phase = "send"
  /\ late \in Nat

\* A message was sent late only before the check that stops the stream.
Stopping ==
  /\ client.phase \in {"closed", "wait", "send"} => late = 0
  /\ late <= 1
  /\ late = 1 => Over(client.token) /\ (client.phase = "principal" => ~enabled)

StreamInv == IInv /\ Queued /\ Connected /\ Stopping

\* The phases of the coroutine.
LEMMA Steps ==
  ASSUME Connected, NEW phase \in {"closed"} \cup Streaming, Step(phase)
  PROVE  /\ client' \in [phase : {"closed"} \cup Streaming, token : Tokens \cup {None}]
         /\ client'.phase = phase /\ client'.token = client.token
BY DEF Connected, Step

LEMMA Leaves ==
  ASSUME Leave
  PROVE  Queued' /\ Connected' /\ Stopping'
<1>1. /\ client' = [phase |-> "closed", token |-> None] /\ registered' = FALSE
      /\ queue' = <<>> /\ inHand' = 0 /\ published' = 0 /\ last' = 0 /\ late' = 0
  BY DEF Leave, Closed
<1>2. Queued'
  BY <1>1, StreamAssumption DEF Queued
<1>3. Connected'
  BY <1>1 DEF Connected, Streaming, None
<1>4. Stopping'
  BY <1>1 DEF Stopping
<1> QED BY <1>2, <1>3, <1>4

\* A step of Access may end the session, and never begins it again.
LEMMA EndsOnly ==
  ASSUME [Next]_access, NEW token, Over(token)
  PROVE  Over(token)'
<1>1. CASE Expire
  BY <1>1 DEF Expire, people, history, Over
<1>2. ASSUME NEW t \in Threads, Pop(t) PROVE Over(token)'
  BY <1>2 DEF Pop, LoggedOut, people, Over
<1>3. CASE Disable
  BY <1>3 DEF Disable, people, history, Over
<1>4. CASE UNCHANGED <<expired, closed, enabled>>
  BY <1>4 DEF Over
<1> QED
  BY <1>1, <1>2, <1>3, <1>4 DEF Next, Setup, SetupCheck, SetupCommit, Login, LoginBegin, RebindSessions, CopyFails, RebindCredentials,
     WrongCode, RightCode, Insert, Bind, Logout, LogoutBegin, Pop, Unbind, Purge, Expire, Age, Disable,
     access, people, history

LEMMA StreamInvInit == StreamInit => StreamInv
<1> SUFFICES ASSUME StreamInit PROVE StreamInv
  OBVIOUS
<1>1. /\ client = [phase |-> "closed", token |-> None] /\ queue = <<>> /\ registered = FALSE
      /\ inHand = 0 /\ published = 0 /\ last = 0 /\ late = 0
  BY DEF StreamInit, Closed
<1>2. Queued
  BY <1>1, StreamAssumption DEF Queued
<1>3. Connected
  BY <1>1 DEF Connected, Streaming, None
<1>4. Stopping
  BY <1>1 DEF Stopping
<1> QED BY <1>2, <1>3, <1>4, InvariantHolds DEF StreamInit, StreamInv

LEMMA StreamInvStep == StreamInv /\ [StreamNext]_everything => StreamInv'
<1> SUFFICES ASSUME StreamInv, [StreamNext]_everything PROVE StreamInv'
  OBVIOUS
<1>1. IInv'
  BY StreamReads, InvariantKept DEF StreamInv
<1>2. Queued /\ Connected /\ Stopping
  BY DEF StreamInv
<1>3. ASSUME Queued', Connected', Stopping' PROVE StreamInv'
  BY <1>1, <1>3 DEF StreamInv
<1>4. ASSUME [Next]_access, UNCHANGED stream PROVE StreamInv'
  <2>1. Queued' /\ Connected'
    BY <1>2, <1>4 DEF stream, Queued, Connected
  <2>2. late = 1 => Over(client.token)'
    <3>1. SUFFICES ASSUME late = 1 PROVE Over(client.token)'
      OBVIOUS
    <3>2. PICK token : token = client.token
      OBVIOUS
    <3>3. Over(token)'
      BY <1>2, <1>4, <3>1, <3>2, EndsOnly DEF Stopping
    <3> QED BY <1>4, <3>2, <3>3 DEF stream, Over
  <2>3. ~enabled => ~enabled'
    BY <1>4 DEF Next, Setup, SetupCheck, SetupCommit, Login, LoginBegin, RebindSessions, CopyFails, RebindCredentials,
     WrongCode, RightCode, Insert, Bind, Logout, LogoutBegin, Pop, Unbind, Purge, Expire, Age, Disable,
     access, people, history
  <2>4. Stopping'
    BY <1>2, <1>4, <2>2, <2>3 DEF stream, Stopping, Over
  <2> QED BY <1>3, <2>1, <2>4
<1>5. ASSUME Leave, UNCHANGED access PROVE StreamInv'
  BY <1>3, <1>5, Leaves
<1>6. CASE Connect
  <2>1. PICK token \in 1..minted : client' = [phase |-> "check", token |-> token]
    BY <1>6 DEF Connect
  <2>2. token \in Tokens
    <3>1. minted \in 0..MaxTokens /\ MaxTokens \in Nat
      BY AccessAssumption DEF StreamInv, IInv, Typed, TypeOK
    <3> QED BY <3>1 DEF Tokens
  <2>3. client.phase = "closed" /\ registered' = TRUE /\ UNCHANGED <<queue, inHand, published, last, late>>
    BY <1>6 DEF Connect
  <2>4. Queued'
    BY <1>2, <2>3 DEF Queued
  <2>5. Connected'
    BY <1>2, <2>1, <2>2, <2>3 DEF Connected, Streaming
  <2>6. Stopping'
    BY <1>2, <2>3 DEF Stopping
  <2> QED BY <1>3, <2>4, <2>5, <2>6
<1>7. CASE Check
  <2>1. CASE Valid(client.token)
    <3>1. Step("principal") /\ client.phase = "check"
          /\ UNCHANGED <<access, queue, registered, inHand, published, last, late>>
      BY <1>7, <2>1 DEF Check
    <3>2. /\ client' \in [phase : {"closed"} \cup Streaming, token : Tokens \cup {None}]
          /\ client'.phase = "principal" /\ client'.token = client.token
      BY <1>2, <3>1, Steps DEF Streaming
    <3>3. Queued'
      BY <1>2, <3>1 DEF Queued
    <3>4. Connected'
      BY <1>2, <3>1, <3>2 DEF Connected
    <3>5. client.token \notin expired \cup closed
      BY <2>1 DEF Valid, StreamInv, IInv, Sound, Gone
    <3>6. Stopping'
      BY <1>2, <3>1, <3>2, <3>5 DEF Stopping, Over, access, people, history
    <3> QED BY <1>3, <3>3, <3>4, <3>6
  <2>2. CASE ~Valid(client.token)
    BY <1>5, <1>7, <2>2 DEF Check
  <2> QED BY <2>1, <2>2
<1>8. CASE CheckPrincipal
  <2>1. CASE Principal
    <3>1. Step("wait") /\ client.phase = "principal" /\ enabled
          /\ UNCHANGED <<access, queue, registered, inHand, published, last, late>>
      BY <1>8, <2>1 DEF CheckPrincipal, Principal
    <3>2. /\ client' \in [phase : {"closed"} \cup Streaming, token : Tokens \cup {None}]
          /\ client'.phase = "wait" /\ client'.token = client.token
      BY <1>2, <3>1, Steps DEF Streaming
    <3>3. Queued'
      BY <1>2, <3>1 DEF Queued
    <3>4. Connected'
      BY <1>2, <3>1, <3>2 DEF Connected
    <3>5. late = 0
      BY <1>2, <3>1 DEF Stopping, Connected
    <3>6. Stopping'
      BY <3>1, <3>2, <3>5 DEF Stopping
    <3> QED BY <1>3, <3>3, <3>4, <3>6
  <2>2. CASE ~Principal
    BY <1>5, <1>8, <2>2 DEF CheckPrincipal
  <2> QED BY <2>1, <2>2
<1>9. CASE Timeout
  <2>1. Step("check") /\ client.phase = "wait"
        /\ UNCHANGED <<access, queue, registered, inHand, published, last, late>>
    BY <1>9 DEF Timeout
  <2>2. /\ client' \in [phase : {"closed"} \cup Streaming, token : Tokens \cup {None}]
        /\ client'.phase = "check" /\ client'.token = client.token
    BY <1>2, <2>1, Steps DEF Streaming
  <2>3. Queued'
    BY <1>2, <2>1 DEF Queued
  <2>4. Connected'
    BY <1>2, <2>1, <2>2 DEF Connected
  <2>5. Stopping'
    BY <1>2, <2>1, <2>2 DEF Stopping
  <2> QED BY <1>3, <2>3, <2>4, <2>5
<1>10. CASE Take
  <2>1. Step("send") /\ client.phase = "wait" /\ queue # <<>>
        /\ inHand' = Head(queue) /\ queue' = Tail(queue)
        /\ UNCHANGED <<access, registered, published, last, late>>
    BY <1>10 DEF Take
  <2>2. /\ client' \in [phase : {"closed"} \cup Streaming, token : Tokens \cup {None}]
        /\ client'.phase = "send" /\ client'.token = client.token
    BY <1>2, <2>1, Steps DEF Streaming
  <2>3. /\ Head(queue) \in 1..published /\ Tail(queue) \in Seq(1..published)
        /\ Len(Tail(queue)) = Len(queue) - 1 /\ Len(queue) \in Nat
    BY <1>2, <2>1, HeadTailProperties, LenProperties DEF Queued
  <2>4. Queued'
    BY <1>2, <2>1, <2>3, StreamAssumption DEF Queued
  <2>5. Connected'
    BY <1>2, <2>1, <2>2, <2>3 DEF Connected
  <2>6. Stopping'
    BY <1>2, <2>1, <2>2 DEF Stopping
  <2> QED BY <1>3, <2>4, <2>5, <2>6
<1>11. CASE Send
  <2>1. Step("check") /\ client.phase = "send" /\ last' = inHand /\ inHand' = 0
        /\ late' = (IF Over(client.token) THEN late + 1 ELSE late)
        /\ UNCHANGED <<access, queue, registered, published>>
    BY <1>11 DEF Send
  <2>2. /\ client' \in [phase : {"closed"} \cup Streaming, token : Tokens \cup {None}]
        /\ client'.phase = "check" /\ client'.token = client.token
    BY <1>2, <2>1, Steps DEF Streaming
  <2>3. Queued'
    BY <1>2, <2>1 DEF Queued
  <2>4. late = 0
    BY <1>2, <2>1 DEF Stopping
  <2>5. Connected'
    BY <1>2, <2>1, <2>2, <2>4 DEF Connected, Streaming
  <2>6. Over(client.token) <=> Over(client.token)'
    BY <2>1, <2>2 DEF Over, access, people, history
  <2>7. Stopping'
    BY <2>1, <2>2, <2>4, <2>6 DEF Stopping
  <2> QED BY <1>3, <2>3, <2>5, <2>7
<1>12. CASE HangUp
  BY <1>5, <1>12 DEF HangUp
<1>13. CASE Publish
  <2>1. published < MaxEvents /\ published' = published + 1 /\ queue' = Enqueued(queue, published + 1)
        /\ UNCHANGED <<access, client, registered, inHand, last, late>>
    BY <1>13 DEF Publish
  <2>2. queue' \in Seq(1..(published + 1)) /\ Len(queue') <= QueueSize
    BY <1>2, <2>1, Enqueues, StreamAssumption, LenProperties DEF Queued
  <2>3. Queued'
    BY <1>2, <2>1, <2>2, StreamAssumption DEF Queued
  <2>4. Connected'
    BY <1>2, <2>1 DEF Connected
  <2>5. Stopping'
    BY <1>2, <2>1 DEF Stopping, Over, access, people, history
  <2> QED BY <1>3, <2>3, <2>4, <2>5
<1> QED
  BY <1>4, <1>6, <1>7, <1>8, <1>9, <1>10, <1>11, <1>12, <1>13 DEF StreamNext, Serve, everything
-----------------------------------------------------------------------------
\* What a slow client misses.

\* The message the client has, or is being sent.
Given == IF inHand = 0 THEN last ELSE inHand
\* All between two messages were the oldest of a full queue.
Lost(from, to) == to > from /\ \A lost \in (from + 1)..(to - 1) : published - lost >= QueueSize

Gaps ==
  /\ inHand # 0 => Lost(last, inHand)
  /\ queue # <<>> => Lost(Given, queue[1])
  /\ \A i \in 1..(Len(queue) - 1) : Lost(queue[i], queue[i + 1])
  /\ \A i \in 1..Len(queue) : published - queue[i] >= Len(queue) - i
  /\ IF queue = <<>> THEN Given = published ELSE queue[Len(queue)] = published

LEMMA QueueFacts ==
  ASSUME Queued
  PROVE  /\ Len(queue) \in Nat /\ (queue = <<>> <=> Len(queue) = 0)
         /\ \A i \in 1..Len(queue) : queue[i] \in 1..published
         /\ published \in Nat /\ last \in 0..published /\ inHand \in 0..published
         /\ Given \in 0..published /\ QueueSize \in Nat \ {0} /\ Len(queue) <= QueueSize
<1>1. queue \in Seq(1..published) /\ published \in Nat
  BY StreamAssumption DEF Queued
<1>2. Len(queue) \in Nat /\ (queue = <<>> <=> Len(queue) = 0)
  BY <1>1, EmptySeq, LenProperties
<1>3. \A i \in 1..Len(queue) : queue[i] \in 1..published
  BY <1>1, ElementOfSeq
<1> QED BY <1>1, <1>2, <1>3, StreamAssumption DEF Queued, Given

\* A message sent is the next one given; a message taken was the first waiting.
LEMMA SendGaps == Queued /\ Gaps /\ last' = inHand /\ inHand' = 0 /\ inHand # 0
                  /\ UNCHANGED <<queue, published>> => Gaps'
<1> SUFFICES ASSUME Queued, Gaps, last' = inHand, inHand' = 0, inHand # 0, UNCHANGED <<queue, published>>
             PROVE  Gaps'
  OBVIOUS
<1>1. Given' = Given
  BY DEF Given
<1>2. \A from, to : Lost(from, to) => Lost(from, to)'
  BY DEF Lost
<1> QED BY <1>1, <1>2 DEF Gaps, Lost

LEMMA TakeGaps == Queued /\ Gaps /\ inHand = 0 /\ queue # <<>> /\ inHand' = Head(queue) /\ queue' = Tail(queue)
                  /\ UNCHANGED <<last, published>> => Gaps'
<1> SUFFICES ASSUME Queued, Gaps, inHand = 0, queue # <<>>, inHand' = Head(queue), queue' = Tail(queue),
                    UNCHANGED <<last, published>>
             PROVE  Gaps'
  OBVIOUS
<1> DEFINE n == Len(queue)
<1>1. /\ n \in Nat \ {0} /\ Head(queue) = queue[1] /\ Len(queue') = n - 1
      /\ \A i \in 1..(n - 1) : queue'[i] = queue[i + 1]
      /\ queue' \in Seq(1..published)
  BY QueueFacts, HeadTailProperties DEF Queued
<1>2. \A i \in 1..n : queue[i] \in 1..published
  BY QueueFacts
<1>3. queue[1] # 0 /\ inHand' = queue[1] /\ Given = last /\ Given' = queue[1]
  BY <1>1, <1>2 DEF Given
<1>4. queue' = <<>> <=> n - 1 = 0
  BY <1>1, EmptySeq
<1> HIDE DEF n
<1>5. (inHand # 0 => Lost(last, inHand))'
  BY <1>3 DEF Gaps, Lost
<1>6. (queue # <<>> => Lost(Given, queue[1]))'
  BY <1>1, <1>3, <1>4 DEF Gaps, Lost, n
<1>7. (\A i \in 1..(Len(queue) - 1) : Lost(queue[i], queue[i + 1]))'
  BY <1>1 DEF Gaps, Lost, n
<1>8. (\A i \in 1..Len(queue) : published - queue[i] >= Len(queue) - i)'
  BY <1>1, <1>2 DEF Gaps, n
<1>9. (IF queue = <<>> THEN Given = published ELSE queue[Len(queue)] = published)'
  BY <1>1, <1>3, <1>4 DEF Gaps, n
<1> QED BY <1>5, <1>6, <1>7, <1>8, <1>9 DEF Gaps

\* A message published when the queue is full pushes out the first waiting.
LEMMA PublishGaps ==
  Queued /\ Gaps /\ published' = published + 1 /\ queue' = Enqueued(queue, published + 1)
  /\ UNCHANGED <<last, inHand>> => Gaps'
<1> SUFFICES ASSUME Queued, Gaps, published' = published + 1, queue' = Enqueued(queue, published + 1),
                    UNCHANGED <<last, inHand>>
             PROVE  Gaps'
  OBVIOUS
<1> DEFINE n == Len(queue)
           m == Len(queue')
<1>1. /\ queue' # <<>> /\ m = IF n >= QueueSize THEN n ELSE n + 1
      /\ \A i \in 1..n : i < m => queue'[i] = IF n >= QueueSize THEN queue[i + 1] ELSE queue[i]
      /\ queue'[m] = published + 1
  BY Enqueues
<1>2. /\ n \in Nat /\ n <= QueueSize /\ QueueSize \in Nat \ {0} /\ (queue = <<>> <=> n = 0)
      /\ \A i \in 1..n : queue[i] \in 1..published
      /\ published \in Nat /\ last \in 0..published /\ inHand \in 0..published /\ Given \in 0..published
  BY QueueFacts
<1>3. Given' = Given
  BY DEF Given
<1>4. \A from \in 0..published, to \in 0..published : Lost(from, to) => Lost(from, to)'
  BY <1>2 DEF Lost
<1>5. /\ inHand # 0 => Lost(last, inHand)
      /\ n # 0 => Lost(Given, queue[1])
      /\ \A i \in 1..(n - 1) : Lost(queue[i], queue[i + 1])
      /\ \A i \in 1..n : published - queue[i] >= n - i
      /\ IF n = 0 THEN Given = published ELSE queue[n] = published
  BY <1>2 DEF Gaps
<1> HIDE DEF n, m
<1>6. (inHand # 0 => Lost(last, inHand))'
  BY <1>2, <1>4, <1>5 DEF Lost
<1>7. CASE n < QueueSize
  <2>1. m = n + 1 /\ \A i \in 1..n : queue'[i] = queue[i]
    BY <1>1, <1>2, <1>7
  <2>2. Lost(Given, queue[1])'
    <3>1. CASE n = 0
      BY <1>1, <1>2, <1>3, <1>5, <2>1, <3>1 DEF Lost
    <3>2. CASE n # 0
      BY <1>2, <1>3, <1>4, <1>5, <2>1, <3>2 DEF Lost
    <3> QED BY <3>1, <3>2
  <2>3. \A i \in 1..(m - 1) : Lost(queue[i], queue[i + 1])'
    <3>1. TAKE i \in 1..(m - 1)
    <3>2. CASE i = n
      BY <1>1, <1>2, <1>5, <2>1, <3>2 DEF Lost
    <3>3. CASE i # n
      <4>1. i \in 1..(n - 1) /\ i \in 1..n /\ i + 1 \in 1..n
        BY <1>2, <2>1, <3>3
      <4>2. Lost(queue[i], queue[i + 1])
        BY <1>5, <4>1
      <4>3. queue[i] \in 0..published /\ queue[i + 1] \in 0..published
        BY <1>2, <4>1
      <4> QED BY <1>2, <2>1, <4>1, <4>2, <4>3 DEF Lost
    <3> QED BY <3>2, <3>3
  <2>4. \A i \in 1..m : published' - queue'[i] >= m - i
    <3>1. TAKE i \in 1..m
    <3>2. CASE i = m
      BY <1>1, <1>2, <3>2
    <3>3. CASE i # m
      <4>1. i \in 1..n /\ queue'[i] = queue[i]
        BY <1>2, <2>1, <3>3
      <4>2. published - queue[i] >= n - i /\ queue[i] \in 1..published
        BY <1>2, <1>5, <4>1
      <4> QED BY <1>2, <2>1, <4>1, <4>2
    <3> QED BY <3>2, <3>3
  <2> QED BY <1>1, <1>6, <2>2, <2>3, <2>4 DEF Gaps, Lost, m
<1>8. CASE ~(n < QueueSize)
  <2>1. n = QueueSize /\ m = n /\ n # 0 /\ \A i \in 1..(n - 1) : queue'[i] = queue[i + 1]
    BY <1>1, <1>2, <1>8
  <2>2. published' - queue[1] >= QueueSize
    BY <1>2, <1>5, <2>1
  <2>3. Lost(Given, queue[1])'
    <3>1. CASE n = 1
      BY <1>1, <1>2, <1>3, <1>5, <2>1, <2>2, <3>1 DEF Lost
    <3>2. CASE n # 1
      <4>1. queue'[1] = queue[2] /\ Lost(Given, queue[1]) /\ Lost(queue[1], queue[2])
            /\ queue[1] \in 1..published /\ queue[2] \in 1..published
        BY <1>2, <1>5, <2>1, <3>2
      <4> QED BY <1>2, <1>3, <2>2, <4>1 DEF Lost
    <3> QED BY <3>1, <3>2
  <2>4. \A i \in 1..(m - 1) : Lost(queue[i], queue[i + 1])'
    <3>1. TAKE i \in 1..(m - 1)
    <3>2. CASE i = n - 1
      BY <1>1, <1>2, <1>5, <2>1, <3>2 DEF Lost
    <3>3. CASE i # n - 1
      <4>1. PICK j : j = i + 1
        OBVIOUS
      <4>2. i \in 1..(n - 1) /\ j \in 1..(n - 1) /\ j \in 1..n /\ j + 1 \in 1..n
        BY <1>2, <2>1, <3>3, <4>1
      <4>3. queue'[i] = queue[j] /\ queue'[i + 1] = queue[j + 1]
        BY <1>2, <2>1, <4>1, <4>2
      <4>4. Lost(queue[j], queue[j + 1])
        BY <1>5, <4>2
      <4>5. queue[j] \in 0..published /\ queue[j + 1] \in 0..published
        BY <1>2, <4>2
      <4> QED BY <1>2, <4>3, <4>4, <4>5 DEF Lost
    <3> QED BY <3>2, <3>3
  <2>5. \A i \in 1..m : published' - queue'[i] >= m - i
    <3>1. TAKE i \in 1..m
    <3>2. CASE i = m
      BY <1>1, <1>2, <3>2
    <3>3. CASE i # m
      <4>1. i + 1 \in 1..n /\ queue'[i] = queue[i + 1]
        BY <1>2, <2>1, <3>3
      <4>2. published - queue[i + 1] >= n - (i + 1) /\ queue[i + 1] \in 1..published
        BY <1>2, <1>5, <4>1
      <4> QED BY <1>2, <2>1, <4>1, <4>2
    <3> QED BY <3>2, <3>3
  <2> QED BY <1>1, <1>6, <2>3, <2>4, <2>5 DEF Gaps, Lost, m
<1> QED BY <1>7, <1>8

LEMMA GapsKept == StreamInv /\ Gaps /\ [StreamNext]_everything => Gaps'
<1> SUFFICES ASSUME StreamInv, Gaps, [StreamNext]_everything PROVE Gaps'
  OBVIOUS
<1>1. Queued /\ (inHand # 0 <=> client.phase = "send")
  BY DEF StreamInv, Connected
<1>2. CASE UNCHANGED <<queue, inHand, published, last>>
  BY <1>2 DEF Gaps, Given, Lost
<1>3. ASSUME Leave PROVE Gaps'
  <2>1. queue' = <<>> /\ inHand' = 0 /\ published' = 0 /\ last' = 0
    BY <1>3 DEF Leave
  <2>2. Len(queue') = 0
    BY <2>1, EmptySeq
  <2> QED BY <2>1, <2>2 DEF Gaps, Given
<1>4. CASE Take
  BY <1>1, <1>4, TakeGaps DEF Take
<1>5. CASE Send
  BY <1>1, <1>5, SendGaps DEF Send
<1>6. CASE Publish
  BY <1>1, <1>6, PublishGaps DEF Publish
<1> QED
  BY <1>2, <1>3, <1>4, <1>5, <1>6
     DEF StreamNext, Serve, Connect, Check, CheckPrincipal, Timeout, HangUp, everything, stream

LEMMA GapsSuffice == StreamInv /\ Gaps => OnlyOldestLost
<1> SUFFICES ASSUME StreamInv, Gaps PROVE OnlyOldestLost
  OBVIOUS
<1> DEFINE first == IF inHand = 0 THEN <<>> ELSE <<inHand>>
           waiting == first \o queue
           before(n) == IF n = 1 THEN last ELSE waiting[n - 1]
           k == Len(first)
<1>1. Queued
  BY DEF StreamInv
<1>2. /\ Len(queue) \in Nat /\ (queue = <<>> <=> Len(queue) = 0)
      /\ published \in Nat /\ queue \in Seq(1..published) /\ inHand \in 0..published
  BY <1>1, QueueFacts DEF Queued
<1>3. /\ first \in Seq(0..published)
      /\ k = IF inHand = 0 THEN 0 ELSE 1
      /\ inHand # 0 => first[1] = inHand
  <2>1. CASE inHand = 0
    <3>1. first = <<>> /\ <<>> \in Seq(0..published) /\ Len(<<>>) = 0
      BY <2>1, EmptySeq
    <3> QED BY <2>1, <3>1
  <2>2. CASE inHand # 0
    <3>1. first = <<inHand>> /\ inHand \in 0..published
      BY <1>2, <2>2
    <3> QED BY <2>2, <3>1
  <2> QED BY <2>1, <2>2
<1>4. /\ waiting \in Seq(0..published) /\ Len(waiting) = k + Len(queue)
      /\ \A n \in 1..(k + Len(queue)) : waiting[n] = IF n <= k THEN first[n] ELSE queue[n - k]
  <2>1. queue \in Seq(0..published)
    <3>1. 1..published \subseteq 0..published
      BY <1>2
    <3> QED BY <1>2, <3>1
  <2> HIDE DEF first
  <2> QED BY <1>3, <2>1, ConcatProperties
<1>5. DOMAIN waiting = 1..(k + Len(queue))
  BY <1>4, LenProperties
<1> HIDE DEF first, waiting, k
<1>6. \A n \in 1..(k + Len(queue)) : Lost(before(n), waiting[n])
  <2>1. TAKE n \in 1..(k + Len(queue))
  <2>2. CASE n <= k
    BY <1>2, <1>3, <1>4, <2>2 DEF Gaps
  <2>3. CASE n = k + 1
    BY <1>2, <1>3, <1>4, <2>3 DEF Gaps, Given
  <2>4. CASE n > k + 1
    <3>1. PICK j : j = n - k - 1
      OBVIOUS
    <3>2. j \in 1..(Len(queue) - 1) /\ waiting[n] = queue[j + 1] /\ before(n) = queue[j]
      <4>1. j \in 1..(Len(queue) - 1) /\ n - 1 \in 1..(k + Len(queue)) /\ n - k = j + 1 /\ (n - 1) - k = j
            /\ ~(n <= k) /\ ~(n - 1 <= k) /\ n # 1
        BY <1>2, <1>3, <2>4, <3>1
      <4> QED BY <1>4, <4>1
    <3>3. Lost(queue[j], queue[j + 1])
      BY <3>2 DEF Gaps
    <3> QED BY <3>2, <3>3
  <2> QED BY <1>2, <1>3, <2>2, <2>3, <2>4
<1>7. queue # <<>> => Last(queue) = published
  BY DEF Gaps, Last
<1>8. waiting = <<>> => last = published
  <2>1. SUFFICES ASSUME waiting = <<>> PROVE last = published
    OBVIOUS
  <2>2. k + Len(queue) = 0
    BY <1>4, <2>1, EmptySeq
  <2>3. inHand = 0 /\ queue = <<>>
    BY <1>2, <1>3, <2>2
  <2> QED BY <2>3 DEF Gaps, Given
<1>9. \A n \in DOMAIN waiting :
        /\ waiting[n] > before(n)
        /\ \A lost \in (before(n) + 1)..(waiting[n] - 1) : published - lost >= QueueSize
  BY <1>5, <1>6 DEF Lost
<1> HIDE DEF before
<1> QED BY <1>7, <1>8, <1>9 DEF OnlyOldestLost, waiting, first, before

-----------------------------------------------------------------------------
\* The theorems.

\* Queue, client and session data are of their types; a message is in hand
\* exactly while it is sent, and the client is registered exactly while it is served.
THEOREM StreamTypeCorrect == StreamSpec => []StreamTypeOK
<1>1. StreamInit => StreamInv
  BY StreamInvInit
<1>2. StreamInv /\ [StreamNext]_everything => StreamInv'
  BY StreamInvStep
<1>3. StreamInv => StreamTypeOK
  <2> SUFFICES ASSUME StreamInv PROVE StreamTypeOK
    OBVIOUS
  <2>1. TypeOK /\ Queued /\ Connected
    BY DEF StreamInv, IInv, Typed
  <2>2. queue \in Seq(1..MaxEvents) /\ inHand \in 0..MaxEvents
    <3>1. 1..published \subseteq 1..MaxEvents /\ 0..published \subseteq 0..MaxEvents
      BY <2>1, StreamAssumption DEF Queued
    <3>2. queue \in Seq(1..published) /\ inHand \in 0..published
      BY <2>1 DEF Queued
    <3>3. inHand \in 0..MaxEvents
      BY <3>1, <3>2
    <3>4. queue \in Seq(1..MaxEvents)
      <4> DEFINE kinds == 1..published
                 all == 1..MaxEvents
      <4>1. queue \in Seq(kinds) /\ kinds \subseteq all
        BY <3>1, <3>2
      <4> HIDE DEF kinds, all
      <4>2. queue \in Seq(all)
        BY <4>1, SeqMonotonic
      <4> QED BY <4>2 DEF all
    <3> QED BY <3>3, <3>4
  <2> QED BY <2>1, <2>2 DEF StreamTypeOK, Queued, Connected, Streaming
<1> QED BY <1>1, <1>2, <1>3, PTL DEF StreamSpec

\* After its session expired, was logged out or lost its user, a stream sends at
\* most the message whose check was already made.
THEOREM StreamEnds == StreamSpec => []StreamStops
<1>1. StreamInit => StreamInv
  BY StreamInvInit
<1>2. StreamInv /\ [StreamNext]_everything => StreamInv'
  BY StreamInvStep
<1>3. StreamInv => StreamStops
  BY DEF StreamInv, Stopping, StreamStops
<1> QED BY <1>1, <1>2, <1>3, PTL DEF StreamSpec

\* A client sees the messages in order, and misses only those that were the
\* oldest of a full queue.
THEOREM OldestLost == StreamSpec => []OnlyOldestLost
<1>1. StreamInit => StreamInv /\ Gaps
  <2> SUFFICES ASSUME StreamInit PROVE StreamInv /\ Gaps
    OBVIOUS
  <2>1. queue = <<>> /\ inHand = 0 /\ published = 0 /\ last = 0 /\ Len(queue) = 0
    BY EmptySeq DEF StreamInit
  <2> QED BY <2>1, StreamInvInit DEF Gaps, Given
<1>2. StreamInv /\ Gaps /\ [StreamNext]_everything => (StreamInv /\ Gaps)'
  BY StreamInvStep, GapsKept
<1>3. StreamInv /\ Gaps => OnlyOldestLost
  BY GapsSuffice
<1> QED BY <1>1, <1>2, <1>3, PTL DEF StreamSpec
=============================================================================
