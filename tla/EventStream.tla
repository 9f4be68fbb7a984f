----------------------------- MODULE EventStream -----------------------------
(***************************************************************************)
(* /ws/events: the event loop publishes every assessment to the bounded    *)
(* queue of a registered client, and the client's coroutine re-resolves    *)
(* its session before each wait.  The session is one of Access, which      *)
(* threads end meanwhile.  Messages are numbered from the registration of  *)
(* the client.                                                             *)
(***************************************************************************)
EXTENDS Access

CONSTANTS
  QueueSize,  \* MAX_QUEUE_SIZE
  MaxEvents   \* bound: messages published to one client

ASSUME StreamAssumption == QueueSize \in Nat \ {0} /\ MaxEvents \in Nat

VARIABLES
  client,     \* where the coroutine is, and the token it was given
  queue,      \* manager.queues[client_id]
  registered, \* whether manager.queues has the client
  inHand,     \* the message taken from the queue and not yet sent
  published,  \* messages published since it was registered
  last,       \* history: the last message sent
  late        \* history: messages sent after the session had ended

stream     == <<client, queue, registered, inHand, published, last, late>>
everything == <<access, stream>>

Closed == [phase |-> "closed", token |-> None]

StreamInit ==
  /\ Init
  /\ client = Closed /\ queue = <<>> /\ registered = FALSE
  /\ inHand = 0 /\ published = 0 /\ last = 0 /\ late = 0

Step(phase) == client' = [client EXCEPT !.phase = phase]

\* Mutated: a handler that closes the socket returns without disconnect().
Leave_Registered ==
  /\ client' = Closed
  /\ queue' = <<>> /\ inHand' = 0 /\ published' = 0 /\ last' = 0 /\ late' = 0
  /\ UNCHANGED registered

\* The `finally' of the handler.
Leave ==
  /\ client' = Closed /\ registered' = FALSE
  /\ queue' = <<>> /\ inHand' = 0 /\ published' = 0 /\ last' = 0 /\ late' = 0

Connect ==
  /\ client.phase = "closed" /\ Principal
  /\ \E token \in 1..minted :
       Valid(token) /\ client' = [phase |-> "check", token |-> token]
  /\ registered' = TRUE
  /\ UNCHANGED <<access, queue, inHand, published, last, late>>

\* resolve_principal reads the dictionaries, then the database.
Check ==
  /\ client.phase = "check"
  /\ IF Valid(client.token)
     THEN Step("principal") /\ UNCHANGED <<queue, registered, inHand, published, last, late>>
     ELSE Leave
  /\ UNCHANGED access

CheckPrincipal ==
  /\ client.phase = "principal"
  /\ IF Principal
     THEN Step("wait") /\ UNCHANGED <<queue, registered, inHand, published, last, late>>
     ELSE Leave
  /\ UNCHANGED access

\* Five seconds without an event.
Timeout ==
  /\ client.phase = "wait" /\ queue = <<>>
  /\ Step("check")
  /\ UNCHANGED <<access, queue, registered, inHand, published, last, late>>

Take ==
  /\ client.phase = "wait" /\ queue # <<>>
  /\ Step("send")
  /\ inHand' = Head(queue) /\ queue' = Tail(queue)
  /\ UNCHANGED <<access, registered, published, last, late>>

\* The session has expired or been logged out for good, or its user is disabled.
Over(token) == token \in expired \cup closed \/ ~enabled

\* Mutated: the session is resolved when the client connects and never again.
Send_Unresolved ==
  /\ client.phase = "send"
  /\ Step("wait")
  /\ last' = inHand /\ inHand' = 0
  /\ late' = IF Over(client.token) THEN late + 1 ELSE late
  /\ UNCHANGED <<access, queue, registered, published>>

\* send_json returns when the client has taken the message, which may be long after.
Send ==
  /\ client.phase = "send"
  /\ Step("check")
  /\ last' = inHand /\ inHand' = 0
  /\ late' = IF Over(client.token) THEN late + 1 ELSE late
  /\ UNCHANGED <<access, queue, registered, published>>

\* The client hangs up, or sends a frame.
HangUp ==
  /\ client.phase \in {"wait", "send"}
  /\ Leave
  /\ UNCHANGED access

\* Mutated: a full queue keeps what it has and refuses the new message.
Enqueued_Refuse(q, message) == IF Len(q) >= QueueSize THEN q ELSE Append(q, message)

Enqueued(q, message) == Append(IF Len(q) >= QueueSize THEN Tail(q) ELSE q, message)

\* service.process, on the same event loop: not between the two checks.
Publish ==
  /\ client.phase # "principal" /\ registered /\ published < MaxEvents
  /\ published' = published + 1
  /\ queue' = Enqueued(queue, published + 1)
  /\ UNCHANGED <<access, client, registered, inHand, last, late>>

Serve ==
  \/ Connect \/ Check \/ CheckPrincipal \/ Timeout \/ Take \/ Send \/ HangUp \/ Publish

StreamNext == (Next /\ UNCHANGED stream) \/ Serve

StreamSpec == StreamInit /\ [][StreamNext]_everything

-----------------------------------------------------------------------------
\* Properties.

StreamTypeOK ==
  /\ TypeOK
  /\ client \in [phase : {"closed", "check", "principal", "wait", "send"}, token : Tokens \cup {None}]
  /\ queue \in Seq(1..MaxEvents) /\ Len(queue) <= QueueSize
  /\ inHand \in 0..MaxEvents /\ published \in 0..MaxEvents /\ last \in 0..published /\ late \in Nat
  /\ registered <=> client.phase # "closed"
  /\ inHand # 0 <=> client.phase = "send"

\* A slow client gets the messages in order, and misses one only when as many
\* newer ones as the queue holds have been published: only the oldest are lost.
OnlyOldestLost ==
  LET waiting == (IF inHand = 0 THEN <<>> ELSE <<inHand>>) \o queue
      before(n) == IF n = 1 THEN last ELSE waiting[n - 1] IN
    /\ \A n \in DOMAIN waiting :
         /\ waiting[n] > before(n)
         /\ \A lost \in (before(n) + 1)..(waiting[n] - 1) : published - lost >= QueueSize
    /\ queue # <<>> => Last(queue) = published
    /\ (registered /\ waiting = <<>>) => last = published

\* The end of a session reaches a stream that is open: after it expired, was
\* logged out or its user was disabled, at most the one message for which the
\* check was already made is sent.
StreamStops == late <= 1
=============================================================================
