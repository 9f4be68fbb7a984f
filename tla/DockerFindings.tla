---------------------------- MODULE DockerFindings ----------------------------
(***************************************************************************)
(* DockerEventCollector around the stream of DockerEvents: the inventory   *)
(* at the start, then batches of events, each inspected while it is read,  *)
(* compared with what is remembered of its container (_enrich), and handed *)
(* on as a lifecycle event followed by one event for every finding.  The   *)
(* events arrive in order and once; one container exists under a name.     *)
(***************************************************************************)
EXTENDS Surroundings

CONSTANTS
  Names,     \* container names
  Images,
  DockerCap  \* BATCH_CAP

ASSUME FindingsAssumption ==
  /\ IsFiniteSet(Names) /\ IsFiniteSet(Images) /\ Images # {} /\ DockerCap \in Nat \ {0}
  /\ Names \cap (Names \X Nat) = {}  \* no container is named like the id of one

Closed == "closed"  \* the ports of a container that does not run, or is gone
Published == "published"

VARIABLES
  container, \* the container under each name; ids count up
  raw,       \* events of the daemon not yet read
  known,     \* container_state: image and ports under an id, and under a name
  docker,    \* where run() is
  read,      \* events of the batch, with what inspect answered
  outbox,    \* events not yet handed on
  told,      \* history: ports of each id as told by the last event or finding handed on
  untold     \* history: a batch was dropped

dockerVars == <<container, raw, known, docker, read, outbox, told, untold>>

Nothing == [x \in {} |-> 0]

\* Every name has a container when the process starts.
DockerInit ==
  /\ container = [n \in Names |-> [id |-> 0, image |-> CHOOSE i \in Images : TRUE, ports |-> Closed]]
  /\ raw = <<>> /\ known = Nothing
  /\ docker = "inventory" /\ read = <<>> /\ outbox = <<>>
  /\ told = Nothing /\ untold = FALSE

\* The memories of a process that starts anew; the daemon's log is read from
\* the second of the start.
DockerFresh ==
  /\ raw' = <<>> /\ known' = Nothing
  /\ docker' = "inventory" /\ read' = <<>> /\ outbox' = <<>>
  /\ told' = Nothing /\ untold' = FALSE
  /\ UNCHANGED container

-----------------------------------------------------------------------------
\* The daemon: each change leaves an event.

Log(n, action, now) ==
  /\ container' = [container EXCEPT ![n] = now]
  /\ raw' = Append(raw, [action |-> action, id |-> <<n, now.id>>, name |-> n,
                         image |-> now.image])
  /\ UNCHANGED <<known, docker, read, outbox, told, untold>>

StartOrDie(n) ==
  /\ Change
  /\ LET c == container[n] IN
       IF c.ports = Closed THEN Log(n, "start", [c EXCEPT !.ports = Published])
                           ELSE Log(n, "die", [c EXCEPT !.ports = Closed])

\* Removed, and created anew under the same name.
Recreate(n) ==
  /\ Change /\ container[n].ports = Closed
  /\ \E i \in Images :
       Log(n, "create", [id |-> container[n].id + 1, image |-> i, ports |-> Closed])

-----------------------------------------------------------------------------
\* run.

\* A container of the list is handed on as created, and not remembered.
ListContainers ==
  /\ docker = "inventory"
  /\ docker' = "reading"
  /\ outbox' \in SetToSeqs({[listed |-> TRUE, id |-> <<n, container[n].id>>,
       type |-> "docker_create", findings |-> {}, ports |-> Closed] : n \in Names})
  /\ UNCHANGED <<bounds, container, raw, known, read, told, untold>>

\* Docker does not answer.
ListFails ==
  /\ docker = "inventory" /\ Failure
  /\ docker' = "reading"
  /\ UNCHANGED <<container, raw, known, read, outbox, told, untold>>

\* The next event of the stream, with the ports that inspect answered.
TakeEvent(ports) ==
  /\ docker = "reading" /\ outbox = <<>> /\ Len(read) < DockerCap
  /\ read' = Append(read, [event |-> Head(raw), ports |-> ports])
  /\ raw' = Tail(raw)
  /\ UNCHANGED <<container, known, docker, outbox, told, untold>>

\* It is inspected as its container is now; one that is gone has no ports.
Inspect ==
  /\ raw # <<>> /\ UNCHANGED bounds
  /\ LET e == Head(raw) IN
       TakeEvent(IF <<e.name, container[e.name].id>> = e.id THEN container[e.name].ports ELSE Closed)

\* Docker does not answer: as if the container were gone.
InspectFails == raw # <<>> /\ Failure /\ TakeEvent(Closed)

\* d[x] = v of a dictionary.
With(d, x, v) == [y \in DOMAIN d \cup {x} |-> IF y = x THEN v ELSE d[y]]

Description(r) == [image |-> r.event.image, ports |-> r.ports]

\* Mutated: the new description is stored before the old one is looked up.
Compared_Late(memory, r) == {}

\* What is compared is the entry under the id.
Compared(memory, r) ==
  IF r.event.id \notin DOMAIN memory THEN {}
  ELSE (IF memory[r.event.id].image # r.event.image THEN {"image_change"} ELSE {})
    \cup (IF memory[r.event.id].ports # r.ports THEN {"port_change"} ELSE {})

\* _normalize: the type of an event whose action is one of the lifecycle is that
\* of the action, a finding's too.
Type(action) ==
  CASE action = "start" -> "docker_start" [] action = "die" -> "docker_crash"
    [] OTHER -> "docker_create"

\* _enrich and collect for one event: the event, and a copy for each finding.
Enrich(state, r) ==
  LET found == Compared(state.memory, r)
      event == [listed |-> FALSE, id |-> r.event.id, type |-> Type(r.event.action),
                findings |-> found, ports |-> r.ports] IN
    [memory |-> With(With(state.memory, r.event.name, Description(r)), r.event.id, Description(r)),
     out    |-> state.out \o [k \in 1..(1 + Cardinality(found)) |-> event]]

EndRead ==
  /\ read # <<>>
  /\ LET result == FoldLeft(Enrich, [memory |-> known, out |-> <<>>], read) IN
       known' = result.memory /\ outbox' = result.out
  /\ read' = <<>>
  /\ UNCHANGED <<bounds, container, raw, docker, told, untold>>

\* A broken stream: what was read of it is dropped.
StreamFails ==
  /\ read # <<>> /\ Failure
  /\ read' = <<>> /\ untold' = TRUE
  /\ UNCHANGED <<container, raw, known, docker, outbox, told>>

\* An exception in _enrich or after it: the events before it are remembered,
\* the batch is dropped.
EnrichFails ==
  /\ read # <<>> /\ Failure
  /\ \E k \in 1..Len(read) :
       known' = FoldLeft(Enrich, [memory |-> known, out |-> <<>>], SubSeq(read, 1, k)).memory
  /\ read' = <<>> /\ untold' = TRUE
  /\ UNCHANGED <<container, raw, docker, outbox, told>>

HandOn ==
  /\ outbox # <<>>
  /\ LET e == Head(outbox) IN
       told' = IF ~e.listed /\ (e.id \notin DOMAIN told \/ "port_change" \in e.findings)
               THEN With(told, e.id, e.ports) ELSE told
  /\ outbox' = Tail(outbox)
  /\ UNCHANGED <<bounds, container, raw, known, docker, read, untold>>

\* The service raises.  The loop logs it and goes on without the rest of the
\* batch; while the inventory is handed on, only OSError is caught.
HandOnFails ==
  /\ outbox # <<>> /\ Failure
  /\ outbox' = <<>> /\ untold' = TRUE
  /\ docker' \in IF Head(outbox).listed THEN {"reading", "stopped"} ELSE {"reading"}
  /\ UNCHANGED <<container, raw, known, read, told>>

Docker ==
  \/ \E n \in Names : StartOrDie(n) \/ Recreate(n)
  \/ ListContainers \/ ListFails \/ Inspect \/ InspectFails
  \/ EndRead \/ StreamFails \/ EnrichFails \/ HandOn \/ HandOnFails

-----------------------------------------------------------------------------
\* Properties.

DockerTypeOK ==
  /\ docker \in {"inventory", "reading", "stopped"}
  /\ Len(read) <= DockerCap /\ (read # <<>> => docker = "reading" /\ outbox = <<>>)
  /\ outbox # <<>> => docker = "reading"
  /\ {i[1] : i \in DOMAIN told} \subseteq Names /\ DOMAIN told \subseteq DOMAIN known

\* As long as no batch is dropped, what the collector remembers of a container's
\* ports is what it has told: no change between two events is absorbed.
PortsTold ==
  (outbox = <<>> /\ ~untold) => \A i \in DOMAIN told : known[i].ports = told[i]
=============================================================================
