--------------------------- MODULE RequestCollector ---------------------------
(***************************************************************************)
(* HAProxyRequestCollector: each datagram of HAProxy's log is put into a   *)
(* bounded queue by the protocol's callback, while run() decodes one after *)
(* the other and waits until the service is done with it.  Datagrams are   *)
(* numbered as they arrive.  The settings refuse to enable this listener   *)
(* (core/config.py:140-141): what is here is the class, started as         *)
(* lifespan would start it.                                                *)
(***************************************************************************)
EXTENDS Surroundings

CONSTANT Waiting  \* maxsize of the queue

ASSUME RequestAssumption == Waiting \in Nat \ {0}

VARIABLES
  listening, \* the transport is open
  arrived,   \* datagrams that have arrived
  invalid,   \* those that hold no event
  inbox,     \* the queue
  current,   \* the datagram whose event is with the service, 0 for none
  served,    \* history: datagrams whose event the service has taken
  refused,   \* history: datagrams that found the queue full
  failed     \* history: datagrams whose event made the service raise

received == <<arrived, invalid, refused>>
requests == <<listening, received, inbox, current, served, failed>>

RequestInit ==
  /\ listening = TRUE /\ arrived = 0 /\ invalid = {}
  /\ inbox = <<>> /\ current = 0
  /\ served = <<>> /\ refused = {} /\ failed = {}

\* A new socket and a new queue.
RequestFresh ==
  /\ listening' = TRUE /\ arrived' = 0 /\ invalid' = {}
  /\ inbox' = <<>> /\ current' = 0
  /\ served' = <<>> /\ refused' = {} /\ failed' = {}

-----------------------------------------------------------------------------
\* Mutated: as in the queues of the event stream, the oldest makes room.
Put_Oldest(message) ==
  /\ inbox' = Append(IF Len(inbox) < Waiting THEN inbox ELSE Tail(inbox), message)
  /\ UNCHANGED refused

\* datagram_received: QueueFull is raised into the event loop, which logs it.
Put(message) ==
  IF Len(inbox) < Waiting
  THEN inbox' = Append(inbox, message) /\ UNCHANGED refused
  ELSE refused' = refused \cup {message} /\ UNCHANGED inbox

Datagram ==
  /\ Change /\ listening
  /\ arrived' = arrived + 1
  /\ invalid' \in {invalid, invalid \cup {arrived + 1}}
  /\ Put(arrived + 1)
  /\ UNCHANGED <<listening, current, served, failed>>

\* The next one; what is not an event is logged.
Decode ==
  /\ listening /\ current = 0 /\ inbox # <<>>
  /\ current' = IF Head(inbox) \in invalid THEN 0 ELSE Head(inbox)
  /\ inbox' = Tail(inbox)
  /\ UNCHANGED <<bounds, listening, received, served, failed>>

Serve ==
  /\ current # 0
  /\ served' = Append(served, current) /\ current' = 0
  /\ UNCHANGED <<bounds, listening, received, inbox, failed>>

\* A ValueError of the service is taken for one of the decoder; any other
\* exception closes the transport and ends the task.
ServeFails ==
  /\ current # 0 /\ Failure
  /\ failed' = failed \cup {current} /\ current' = 0
  /\ listening' \in BOOLEAN
  /\ inbox' = IF listening' THEN inbox ELSE <<>>
  /\ UNCHANGED <<received, served>>

Requests == Datagram \/ Decode \/ Serve \/ ServeFails

-----------------------------------------------------------------------------
\* Properties.

Taken == served \o (IF current = 0 THEN <<>> ELSE <<current>>) \o inbox

RequestTypeOK ==
  /\ listening \in BOOLEAN /\ arrived \in Nat /\ current \in 0..arrived
  /\ invalid \cup refused \cup failed \subseteq 1..arrived
  /\ Len(inbox) <= Waiting /\ Range(Taken) \subseteq 1..arrived
  /\ ~listening => inbox = <<>> /\ current = 0

\* Requests reach the service in the order of their arrival, each once; the
\* one a full queue refuses is the newest, and an event that fails takes no
\* other with it, as long as the task lives.
RequestsInOrder ==
  /\ \A i, j \in DOMAIN Taken : i < j => Taken[i] < Taken[j]
  /\ listening => 1..arrived = Range(Taken) \cup invalid \cup refused \cup failed
=============================================================================
