# Formal verification of OpenClaw Sentinel

TLA+ models of the parts of Sentinel that decide, enforce, record and collect, checked with TLC on
small instances, and theorems that TLAPS proves for every value of the constants: every safety
property that a passing run checks is one of them, two of them under named hypotheses. `PROJECT.json` lists the components, runs, mutants, hazards, findings and
theorems, and maps each definition to the lines it stands for.

## The system

Sentinel is one Python process: an asyncio event loop that serves a FastAPI application and runs the
collectors and the expiry task, a pool of threads that serves the synchronous endpoints and the file
reading, one SQLite database, and HAProxy's runtime socket.

| Component | State | Operations | Interacts through | Correct when |
|---|---|---|---|---|
| Response enforcement (`core/service.py`, `actions/`) | `actions` and `audit_log` tables, HAProxy's ACL, `ActionLifecycle.lock` | process (from the decision), block, unblock, revoke, reconcile, run | lock, SQLite, HAProxy commands | a block is always accounted for, ends when due and not before, and is closed only when it is gone |
| Incidents (`database/store.py`) | `incidents` table | open, create, record risk, change status | event loop and pool threads, one SQLite connection per statement block | one open incident per source and component; no stale write-back |
| Bounded log reader (`core/bounded_reader.py`) | per file: inode, offset, partial line, discard flag; next file | read_incremental | files that others append to, rotate, truncate | each line once and whole; bounded memory; no file starves |
| Log collectors (`collectors/auth`, `collectors/service`) | the batch in hand | run, collect | reader thread, `SentinelService.process` | what is read is handed on, in order, as long as the process lives |
| Docker collector (`collectors/docker`) | cursor second, keys seen; state per container id and name | read_events, inspect, enrich, collect, run | the daemon's event stream and inspection | no event is skipped or repeated, no change absorbed untold |
| HAProxy collectors (`collectors/haproxy`) | memory of reported sessions, last counters; a bounded queue of datagrams | collect, run, datagram_received | HAProxy commands, UDP (never enabled, see below) | a session and an error are reported once, requests in order |
| Integrity monitor (`collectors/integrity`, `engine/integrity`) | previous containers and hashes, findings | snapshot, compare, process_integrity | Docker, file system, SQLite | a change is announced before it becomes the reference |
| Assessment (`core/service.py` up to the decision, `engine/`) | `events` and `device_profiles` tables | process: receive, assess, learn | SQLite; awaits the providers between reading the profile and deciding | only harmless events train trust; one source does not decide beyond what the policy asks within the ceiling; a burst is detected |
| Address profiles, baselines, anomalies | tables | update, observe | written by process, shown by the API | counters |
| Intelligence (`intelligence/`) | `intelligence` cache table | check | HTTP providers | failures add no score, entries expire |
| Web sessions (`core/web_auth.py`, `core/auth.py`) | two dictionaries of sessions and their credentials, attempts | login, validate, logout, resolve | pool threads, rebinding and mutating the dictionaries | a session ends by expiry or logout, for good, and by nothing else; attempts are limited |
| Setup and configuration | `setup_state`, `users`; three YAML files | initialize, update, import, backup | SQLite, file system | one first administrator; whole files |
| Request budgets (`core/limits.py`) | windows | allow | event loop | at most the limit in a window |
| Event fan-out (`core/api/v1/ws/events.py`) | one queue per client | register, publish, re-resolve, send, disconnect | event loop; web sessions | order kept, only the oldest lost, a stream ends with its session |
| Lifespan (`core/app.py`) | the tasks | start, stop | creates the collectors and the expiry task | what has no memory starts from nothing |
| HTTP API, MCP, language-model gateway, dashboard | none | | | formatting and routing over the above |

What is hard: the coroutines that share the lifecycle's lock stop at every HAProxy command, whose
reply may be lost after its effect; the process may die after any commit; the pool threads interleave
with the event loop between SQL statements, and with each other between any two reads of an
attribute; the log files change between any two system calls; the Docker cursor is coarser than the
events it counts; what a collector polls changes between two polls, and the event it hands on may
raise. `PROJECT.json` lists the hazards at their lines.

## Modules

| Module | Models | Kind |
|---|---|---|
| `BlockLease` | what the enforcement of blocks promises | abstract specification |
| `Enforcement` | process from the decision on, adapter, lifecycle, table, ACL | detailed, implements `BlockLease` |
| `MCEnforcement` | instances: spellings and settings | TLC |
| `EnforcementProofs` | inductive invariant, safety theorems, refinement | proofs |
| `Incidents` | the incidents table and its two writers | detailed |
| `IncidentsProofs` | inductive invariant and safety theorems | proofs |
| `LogReader` | `read_incremental` against changing files | detailed |
| `LogCollector` | the collectors' loop; EXTENDS `LogReader` | composition, implements `LogReader` |
| `LogReaderProofs` | inductive invariants and safety theorems of both | proofs |
| `DockerEvents` | `read_events` and the loop around it | detailed |
| `DockerEventsProofs` | inductive invariant and safety theorems | proofs |
| `Assessment` | process up to the decision: engines, device profile, cache of reputations | detailed |
| `MCAssessment` | instances: rule, sources, clocks and policies | TLC |
| `AssessmentProofs` | inductive invariant and safety theorems | proofs |
| `Access` | first-run setup, web sessions and the throttle, in threads | detailed |
| `AccessProofs` | inductive invariant and safety theorems | proofs |
| `EventStream` | a WebSocket client of one of those sessions; EXTENDS `Access` | composition, implements `Access` |
| `EventStreamProofs` | the refinement, inductive invariant and safety theorems | proofs |
| `MCEventStream` | an instance, symmetric in the threads | TLC |
| `Surroundings` | what changes and what fails around a polling collector | shared |
| `HAProxyCollector` | sessions and counters polled from the runtime socket | detailed |
| `RequestCollector` | the UDP listener of HAProxy's log, which no accepted settings start | detailed |
| `IntegrityCollector` | snapshots of containers and files | detailed |
| `DockerFindings` | inspection, comparison and findings around the event stream | detailed |
| `Collectors` | the collectors a deployment enables, started and restarted by the lifespan | composition |
| `CollectorsProofs` | inductive invariants and safety theorems of all of them | proofs |

### Enforcement

An action is a segment of code between two awaits, cut again after every commit, because the process
may die there. `pc[t]` is where coroutine `t` stands, `job[t]` its local variables, `lock` the holder
of `ActionLifecycle.lock`, `todo` the rows the holder has still to handle. A row's `state` combines the
columns `applied` and `result`: *applying* (intent), *applied*, *unapplied* (recorded without effect),
*expired*, *revoked*. `Decide` takes any decision the policy may make and computes the expiry before
the lock is requested; `RecordIntent` or `RecordResponse` enter the lock. `BlockRead`, `BlockAdd`,
`BlockConfirm` are the three commands of `HAProxyActionAdapter.block`; `UndoDel`, `UndoRefused`,
`UndoRead` those of `unblock`, shared by operators and expiry; `CloseRelated` finishes the rows of an
unblock or revoke one commit at a time; the `Reconcile...`, `CloseExpired` and `AuditExpired` actions
are one pass of the expiry task, which the lifespan awaits once before it serves (`serving`).

The environment loses replies before or after their effect (`CommandFails`), fails the database
(`DatabaseError`), reloads HAProxy (`Reload`) and kills the process, which may come up with other
settings (`Crash`). An address is one of several spellings; `Canon` is what `ipaddress` makes of it,
possibly `Invalid`. Whether HAProxy answers the deletion of a missing entry with a message is the
constant `DelMissingOk`: the code in this repository does not say, so both are checked.

`BlockLease` knows leases, used identities and entries only. The refinement mapping reads `used` and
`open` off the table and `entries` off the ACL; reads, waiting and the lock are stuttering steps.

### Incidents

A thread's local variables are `job[t]`, its position `pc[t]`. Each SELECT and each UPDATE or INSERT is
a step, because `with self.connect()` opens a transaction only at the first write. A timeline entry is
its status and its risk; the timestamps are the order `clock`. `raced` remembers the open incidents that
a request reopened while another one of the subject was open, or while the event loop, which had found
none, was about to insert one (`Company`): only those may be open beside another. An incident
reopened at any other moment is the one that the next events are merged into, and the property holds it
to that.

### LogReader and LogCollector

A byte is the newline or the position and generation it was written at, so a line read shows which
bytes it is made of. `pass` holds the local variables of `read_incremental`: `Visit` opens and
examines a file, `ReadChunk` is one `readline`, `Feed` what the code makes of the chunk; `LeaveFile` ends
a visit when the budget is spent or nothing is left, `ReadFails` when `readline` raises. `link` is the
inode a path names; a rotation gives it a fresh one and a pass that has opened the old one keeps
reading it. `cut` counts truncated bytes. Not modelled: the carriage return stripped from a line,
decoding, and devices in place of files (`VisitFails` covers all that cannot be read).
`LogCollector` puts the loop around it: poll, emit one by one, sleep, and end at the first exception,
with the rest of the batch (`EmitFails`, `dropped`).

### DockerEvents

An event is its position in the daemon's log, which stands for its key. `Connect` skips the events of
seconds before the cursor, `Consume` is one line of the stream, `EndBatch` prunes the keys, moves the
cursor to the second of the last event taken and hands the batch on. Pruning keeps an arbitrary half:
the code halves a list made from a set. Three failures drop what was taken and keep its keys: one of
the stream (`StreamFails`), one of the enrichment, after the pruning and before the cursor moves
(`EnrichFails`), and one of an event that is normalised or emitted, after it moved (`EmitFails`). `lost`
remembers what they dropped, and the properties hold for everything else. The assumption on `PerSecond`
leaves out that more events in one second than half of the limit are read again for ever. Not modelled:
backoff times and malformed lines; inspection, enrichment and the start-up inventory are in `DockerFindings`.

### Assessment

`process` has one await before the decision, for the reputation of the address: `Receive` is the code
up to it, `Assess` the code after it up to what the device's profile learns, `Abort` an exception that
ends it there. `events` is the table of events, `profile` the row of the device, `job[w]` the local
variables a coroutine carries across the await: the factors of the device, its trust, the sources the
cache lists the address in, and those it has to ask. The engines
are operators named for what they compute; `StoredTrust` is the score the store computes for itself.
`outcomes` remembers every assessment with what went into it. `cache` is the row of the cache for each
source; a source that answers writes it, one that fails or is late does not, and `Expire` ends it.
Two coroutines that asked the same source overwrite each other's row, as in the code. Reputation is
any set of the sources asked, and whether the address is trusted is a free choice of each assessment; `Abort`
leaves cached what other sources answered before the exception. An event's time is its sender's
(`Skews`; `core/event_security.py:55-56` allows five minutes), the window ends at the receiver's. A kind
is an event type with the source that sends it, so that a policy rule's conditions on both are one set of
kinds (`Applicable`). An event matches a detection rule by its kind; what the behaviour analyzer adds is a free choice of `PatternScores`; of a learned
list the last 32 values are kept in the code and all of them in the model, where `Values` is smaller.
Not modelled: `distinct_by`, infrastructure events, events that carry no device.

### Access and EventStream

The routes are plain functions, so FastAPI runs them in threads. `sessions` and `credentials` are the
objects the manager's two attributes have been bound to, the last one being its value; `thread[t]`
holds the object `t` has fetched (`ref`), the copy it is making (`seen`) and the token. A login
fetches the dictionary, copies it without what has expired and binds the copy (`RebindSessions`,
`RebindCredentials`); the copy raises when the object changed meanwhile (`CopyFails`). It then looks
at the number of attempts, compares the code (`WrongCode`, `RightCode`) and inserts into the objects
it fetched last (`Insert`, `Bind`); a logout removes from them (`Pop`, `Unbind`). An object that
neither the manager nor another thread holds is emptied by `Dropped`, so that states do not differ
in garbage. First-run setup is the route's check (`SetupCheck`) and the transaction (`SetupCommit`).
Times are only compared: `Expire` ends a session, `Age` lets one attempt fall out of the window,
`Disable` disables the user. The histories remember which tokens were returned by a login that no
other login overlapped (`issued`), which a logout has begun on (`ended`), and which a logout removed
while no login was copying `self.sessions` (`closed`). A logout that a copying overlaps is undone by it:
`LogoutInvalidates` states what the documentation promises of every logout, and its run finds it violated.

`EventStream` adds one client of `/ws/events`: the event loop appends to its queue, dropping the oldest
of a full one (`Publish`); its coroutine resolves the session in two reads (`Check`, `CheckPrincipal`,
between which the event loop runs nothing else but the threads do), waits for a message or five
seconds, and sends it, which takes as long as the client likes. Not modelled: rotation of API
credentials (a session belongs to the administrator's), the hashes, and the one-time code itself.

### Collectors

`Surroundings` holds two bounded choices: `Change`, by which what is polled changes, and `Failure`, by
which a poll or an event handed to the service raises. `HAProxyCollector` asks two commands that are
answered at different moments, brings its memory and counters up to date before the first event is
handed on, and hands events on one by one; a line or a counter that cannot be read ends the poll with
the memories of what was read before it (`BuildFails`). `RequestCollector` has the protocol's callback, the bounded
queue and the task; a datagram is its number. No accepted settings enable this listener
(`core/config.py:140-141` and the repository's README.md:112-113): the module is about the class, as
`core/app.py` would start it, and about a deployment only if that check is removed. `IntegrityCollector` compares containers first and files
second, hands each difference to `process_integrity` (event, then finding), and hashes the files
again for the next comparison. `DockerFindings` has a container with an id that changes when it is
created anew under its name; an event is inspected when it is read, or Docker does not answer
(`InspectFails`), compared with what is remembered under the id, and handed on with its findings. An
exception of the enrichment drops the batch after part of it was remembered (`EnrichFails`). The memory is one dictionary over ids and names; no
container is named like an id (`FindingsAssumption`).

`Collectors` puts those side by side that a deployment enables (`Settings`). They share no variables,
but one service that raises and one process: `Restart` gives all of them new memories at once, while
what they observe goes on.

## Runs

| Run | Shows | Bounds, and why they are enough |
|---|---|---|
| `Enforcement` | `TypeOK`, `NoOrphanBlock`, `NoFalseClose`, `NoResurrection`, `ImplementsLeases` | two workers, an operator, the expiry task; two rows; three spellings (two of one address, one invalid); one fault of any kind; the adapter may be disabled by a restart. Two rows of one address and three kinds of task are what it takes for one to close what the other needs; the theorems remove the bounds. Only blocks are decided here: other responses never touch the ACL. |
| `EnforcementLeases` | `ActiveIsEnforced`, `KeepsLongestLease`, `ExpiredBlocksEnd` | two addresses spelled one way, two leases of a tick each started at different ticks, one fault |
| `Incidents` | `TypeOK`, `OneOpenIncident`, `ColumnsKept` | two subjects, two requests, three events, two status changes, three rows: each writer may overtake each other one, and an incident is closed, or reopened, between the look-up and the insertion of the next |
| `LogReader` | `TypeOK` with the bound of memory, `EveryLineOnce`, `NoPathStarves` | two files, lines of at most two bytes, passes of one line or three bytes, four bytes written, one rotation, any truncations and any failing calls: a budget ends inside a line, a line exceeds the limit, an oversized line ends a file |
| `LogCollector` | `CollectorTypeOK`, `NothingDropped`, `LinesArrive` | one file, passes of two lines, four bytes, one rotation, one failing event, with another one after it in its batch |
| `DockerEvents` | `TypeOK` with the bound of memory, `NothingSkipped`, `InOrderOnce`, `EventsArrive` | six events in three seconds, batches of two, four keys, two failures: a second is split between batches, the fifth event makes the client prune, and a failure drops a batch before or after that |
| `Assessment` | `TypeOK`, `NoPoisoning`, `OneSourceNeverBlocks`, `BurstDetected` | two coroutines, three events of the kind that the rule counts. Clocks are right or a second slow and tick once, against a window of one second: an event is on the window's edge, or falls out of it during another one's wait; a rule needs two events, so that three make bursts that overlap. Trust is earned by two events instead of ten and a place is learned from one instead of three, so that three events earn trust and lose it. One source whose weight alone would block, asked, cached or expired at any moment; the shipped thresholds with challenges and blocks enabled, without a rule, with one that slows an event type down, and with blocks by an explicit rule only. Several kinds and fast clocks are left to the theorems. |
| `EventStream` | `StreamTypeOK`, `OneAdministrator`, `SessionsKept`, `LoggedOutForGood`, `Throttled`, `OnlyOldestLost`, `StreamStops` | two threads, three logins, two tokens, two sessions, one attempt, one lapse (an expiry or the disabled user), a queue of one, two messages: a login overlaps a login, a logout and a setup; both threads pass the look at the attempts; the queue overflows. The theorems remove the bounds. |
| `Collectors` | `TypeOK`, `HandedOnOnce`, `RequestsInOrder`, `ChangesAnnounced`, `PortsTold` | pairs of collectors; two sessions and a memory of one; one counter; a queue of two; one file and one container with two contents; two images, Docker batches of two; four changes, one failure or restart. They share only the process and its failures, so that pairs show what larger sets would. |

Three runs end in a counterexample that is a finding:

| Run | Property | Finding |
|---|---|---|
| `EnforcementAlias` | `KeepsLongestLease` | `reconcile` compares spellings: with two spellings of one address the first expiry removes the entry of the longer lease (`actions/lifecycle.py:59-61`) |
| `IncidentsTimeline` | `TimelineAppendOnly` | concurrent updates lose a timeline entry (`database/store.py:606-664`) |
| `AccessLogout` | `LogoutInvalidates` | a login that copies the dictionaries while another thread logs out makes the session valid again (`core/web_auth.py:63-68`) |

Their instances are small: two spellings, one incident with two writers, two threads.

`CHECK_DEADLOCK FALSE` stands where a behaviour may really end: the bounds on requests, events,
logins and changes end those of `Incidents`, `Assessment`, `EventStream`, `Collectors` and of the runs with a
counterexample in the same modules, and an exception ends the loop of `LogCollector`.

### Fairness

Only what the code's own scheduling gives. *Enforcement:* weak fairness of every step a coroutine is
ready for, strong fairness of entering the lock (an `asyncio.Lock` wakes its waiters in order, and the
expiry task asks again every interval), and of the clock; never of faults, requests or events.
*LogCollector:* weak fairness of the loop and of the reading thread, strong fairness of opening a
file and of reading on in it, which at times succeed. *DockerEvents:* weak fairness of the loop, and of the end of a
stream, which the daemon closes at the `until` of the request whatever else arrives.

Liveness is meant where no fault is repeated for ever: faults are bounded, so the properties say that
finitely many only delay.

## Proofs

`EnforcementProofs` proves, from the assumptions on the constants alone (the tasks are distinct, `Canon`
is idempotent, the bounds are naturals), for any number of addresses, workers, operators, rows and
faults:

- `Invariance`: `Spec => []IInv`. `NoOrphanBlock` is not inductive: a coroutine about to add an entry
  must still have its pending row, and one about to close rows must know the entry is still out.
  `IInv` adds that a coroutine beyond *waiting* holds the lock (`Mutex`), that table rows lie below
  `count`, what the holder's row, or the rows of its pass or request, look like at each label (`IntentHeld`, `PassHeld`,
  `RequestHeld`), and that the address is out of the ACL from the last read to the closing
  (`LiftedFirst`). Each conjunct is preserved because every writer of the ACL and of pending rows,
  `Reload` excepted, holds the lock; `Reload` only removes entries.
- `TypeCorrect`, `NeverOrphaned`, `NeverFalselyClosed`, `NeverResurrected`: `TypeOK`, `NoOrphanBlock`,
  `NoFalseClose` and `NoResurrection` follow from it, the action properties step by step.
- `Implementation`: `Spec => ImplementsLeases`. Every step changes the table or the ACL as one of the
  steps of `BlockLease` does, or neither.
- `LongestLeaseKept` (`KeepsLongestLease`), where events spell addresses canonically
  (`CanonicalSpellings`; without it `EnforcementAlias` finds the property violated): the rows of a
  pass have run out together with every row of their spelling, and stay so, because nobody inserts a
  row while the pass holds the lock (`PassRunOut`). Failures do not matter.
- `ShownIsEnforced` (`ActiveIsEnforced`), under `CanonicalSpellings` and `DelMissingOk`: as long as no
  fault happened, a block shown as active is in the ACL or the holder of the lock is about to close its
  row (`Covered`). That takes the pass to handle all rows of an address or none (`PassWhole`), nobody
  to make an entry between a deletion and the read after it (`Emptied`), and blocks to be confirmed
  for valid addresses only, while the adapter is enabled (`Permitted`). Both hypotheses are needed: an
  unblock of one spelling leaves the row of another applied, and where HAProxy refuses to delete a
  missing entry the second row of an expired address stays applied.

`IncidentsProofs` proves `TypeCorrect`, `IncidentsDoNotFork` (`OneOpenIncident`) and `ColumnsStayApart`
(`ColumnsKept`) from an `Invariance` theorem: while the event loop is about to insert, every open incident
of its subject is one that was reopened since the look-up (`raced`), because only the event loop inserts; and
of two open incidents of one subject, one at least is in `raced`.

`AccessProofs` proves, for any number of threads, tokens, logins and attempts: `TypeCorrect`,
`Administrator` (`OneAdministrator`), `Throttle` (`Throttled`), `SessionGood` (`SessionsKept`) and
`LogoutFinal` (`LoggedOutForGood`). The invariant has four parts. *Typed*: the types; a
token in a thread's hands was made before, and its logout has begun if the thread removes it.
`OneAdministrator` is inductive as it stands, because the transaction repeats the route's check. *Looked*: attempts and threads that are past the
look at them together exceed the limit by at most the other threads. *Sound*: a login that
no other login overlaps, and a logout while none copies `self.sessions`, hold the manager's current
objects (`Generation`, `Fresh`, `Alone`), a copy under way holds whatever must be kept and nothing that
must be gone (`Kept`, `Gone`). `LogoutFinal` says nothing of a logout that a copying login overlaps: the
run `AccessLogout` shows the session alive again. `SessionGood` says nothing of two logins that overlap.

`EventStreamProofs` proves `StreamImplementsAccess`: a stream only looks at the sessions, so each
behaviour of the composition is one of `Access` and all theorems above hold of it. From the invariant
of `Access` and one for the stream (the queue holds the newest messages, the phases agree with what
is in hand, a message late only by the one whose check was already made) follow `StreamTypeCorrect`,
`OldestLost` (`OnlyOldestLost`) and `StreamEnds` (`StreamStops`), for any queue and any number of
messages.

`DockerEventsProofs` proves `TypeCorrect`, `CursorSkipsNothing` (`NothingSkipped`) and `EachEventOnce`
(`InOrderOnce`) for any log, batch and memory: the daemon's log is in the order of its seconds
(`Ordered`), so the events it leaves out are a first piece of it; whatever is older than the cursor, was
passed over or is remembered has been taken or dropped by a failure (`Covered`); and before a pruning what
has been taken or dropped is exactly what is remembered, in order (`Exact`). The assumption `BatchCap <= MaxDedupe` (200 and 1000
in the code) bounds the memory after a pruning.

`LogReaderProofs` proves, for any number of files, any limits and whatever is appended, rotated or cut
between two calls:

- `MemoryBounded` (`TypeOK`) and `EveryPathVisited` (`NoPathStarves`), from `Passing`. The bound on the
  passes that left a file out is not inductive alone: `Turns` adds to it the files whose turn comes
  before, and `InHand` says that a pass that was cut short left the pointer where the next one starts.
- `LinesTakenOnce` (`EveryLineOnce`), from `Reads`: of a file never cut, `partial` and `discard` say
  exactly what stands between the last newline and the offset (`Held`); no two paths have or had the
  same file (`Apart`), so that nobody else takes its lines, and nothing was taken of a file that was not
  opened (`Unread`).
- `CollectorReads`: the loop's behaviours are behaviours of the reader (`CollectorSpec => Spec`), so
  that the theorems above hold of it. From `Batches` (a batch is handed on completely before the next
  pass begins, or given up with an error, which ends the loop) follow `LoopTypes` (`CollectorTypeOK`) and `NoBatchDropped`
  (`NothingDropped`).

`AssessmentProofs` proves `TypeCorrect` (`TypeOK`), `TrustNotPoisoned` (`NoPoisoning`),
`OneSourceIsNotEnough` (`OneSourceNeverBlocks`) and `BurstsAreDetected` (`BurstDetected`) for any number of
coroutines, rules, sources and policies, explicit rules and ceilings above the block threshold included:
then the policy itself asks for a block within the ceiling, and the theorem says so. `IInv` adds that the counters of the profile are the numbers
of harmless, other and refused assessments (`Counted`), that what is known of the device was in a harmless event
(`Learnt`), and that the events under way are distinct and not assessed yet (`UnderWay`). A burst is
detected at the member that is assessed last: by then all the others are in the table and in its
window. The assumptions are those that the configuration enforces when it is loaded
(`core/config.py:28-57`) and the range of a detection's score (`core/models.py:92`); a source
without weight counts as none in the code (`engine/risk/engine.py:24`), so weights begin at one.

`CollectorsProofs` proves all properties of `Collectors` for every constant and every deployment,
through failures and restarts:

- `TypeCorrect` (`TypeOK`), with the bounds of memories, queues and batches.
- `ToldOnce` (`HandedOnOnce`), from `ProxyInv`. What is told of a counter is not bounded by what happened
  without what the next polls may still tell: `NoErrorTwice` adds how far HAProxy is beyond the last
  reading, and beyond a reading that was answered but not compared yet (`Beyond`, `Growth`), because the
  two commands are answered at different moments. `NoErrorLost` says that readings only grow until
  HAProxy restarts and that their difference is told; `SessionsTold` that a key in the memory was
  told, or is about to be.
- `RequestOrderKept` (`RequestsInOrder`): what was served, what is with the service and what
  waits are increasing and each below the next (`RequestOrder`), and each datagram is in one of
  them, or was refused, invalid or failed (`RequestCover`).
- `NothingAbsorbed` (`ChangesAnnounced`): during a comparison a difference that is not announced yet is
  still among the findings (`ToAnnounce`), because every difference gets into them (`AllFound`: an
  injective sequence as long as a finite set takes every element).
- `PortsRemembered` (`PortsTold`): handing on the outbox one by one tells every change of the ports. The
  last output of a container has what the memory has (`TellsLast`); one that reports no change has
  what was told before it (`TellsFirst`) or what the output before it has (`TellsOn`); what no output
  is about has been told (`ToldRest`).

### Induction and folds

The engines, the reader and the collectors are recursive functions and folds over sequences and sets.
The library's induction theorems take an operator as a parameter, which the installed provers cannot
instantiate. The proofs use a form over sets instead: every nonempty set of naturals has a least
element (`LeastElement`, from `WFMin` and `NatLessThanWellFounded`), so a subset of an interval that contains its
first element and is closed under successor is all of it (`Induction`). From there it follows that the
recursive function inside a fold exists, and what the CHOOSE of its definition therefore picks
(`IsSum`, `IsEnriching` and their like): the folds are reasoned about by their definitions, not taken on trust.

### Only model-checked

- The liveness properties `ExpiredBlocksEnd`, `LinesArrive` and `EventsArrive`: fairness and ENABLED
  are beyond the prover.
- The three properties whose runs end in a counterexample.

## Divergences without a run

Reading the code for the models showed more that a maintainer should know. Each needs no interleaving
to see, or the repository promises nothing to the contrary:

- An applied challenge is never looked at again after its expiry (`actions/lifecycle.py:55`), although
  `docs/backend/response-safety.md:10` bounds it to thirty minutes.
- Where HAProxy refuses to delete an entry it does not hold, a block whose entry is gone is retried for
  ever (`actions/haproxy/adapter.py:60`). The repository does not say how HAProxy answers: the
  constant `DelMissingOk` keeps both.
- With more events in one second than half of the limit of keys, the Docker client reads the same ones for
  ever (`collectors/docker/collector.py:191`).
- The comment at `collectors/docker/collector.py:220` says that the cursor advances through consumed events,
  repeated ones included; it advances to the last event that was not a repetition (lines 174-179, 222).
- The trust of a device is read before the reputation is awaited and used after it (`core/service.py:58`): it
  may be as old as the wait.
- A log file that is truncated and grows past the old offset before the next visit is read from the old
  offset (`core/bounded_reader.py:68`).
- The memory of HAProxy sessions is cleared as a whole where the comment says by half, and a session
  that was reported is suppressed, though closed and opened again, until then
  (`collectors/haproxy/collector.py:32-58`).
- Docker findings are handed on with the type of the lifecycle event (`collectors/docker/collector.py:389-390`),
  so that rules for their own types never match; the limit of remembered containers is never applied
  (line 55); an exception that is neither of httpx nor an OSError in the inventory ends the
  task (line 471); an exit code is taken at inspection, when the container may run again.
- Of two logins that overlap, one may lose its session, because it inserts into a dictionary the other
  has replaced (`core/web_auth.py:63`).
- A change of a file between the two readings of one snapshot is never announced
  (`collectors/integrity/collector.py:45-50`).
- An import of the configuration replaces three files one after the other (`core/config_manager.py:69`).
- The message of the log collectors' handler says that the collector continues
  (`collectors/auth/collector.py:159-160`); the handler is around the loop, so that `run` is over and no
  later line is collected.
- The comment at `collectors/docker/collector.py:187` says that a pruning keeps the most recent half of the
  keys. They are in a set, so that it is any half, and an event of the cursor's own second is handed on
  twice though nothing failed.
- The comment at `collectors/docker/collector.py:265` says that recreations are compared by name; the memory
  is looked up by the id only (line 251), which a recreated container does not share.
- `docs/threat-intelligence.md:29-31` wants several sources or local behaviour for a block. A device never
  seen before adds ten points and counts as corroboration (`core/service.py:62-70`,
  `engine/risk/engine.py:35-39`): one source of weight 80 and an unknown device reach the threshold of 90.
  `OneSourceNeverBlocks` is about devices without a score for that reason.

## Not modelled

- *Log line parsers:* regular expressions without state; the tests enumerate their cases.
- *Configuration files:* the process reads them when it starts only; what an import leaves behind is seen
  by no component modelled here.
- *Request budgets:* one counter per category under one lock.
- *HTTP API, MCP tools, language-model gateway, dashboard:* they keep no state of their own.
- *What providers answer over the network,* and the parts of engines that are a free choice above.
- *Address profiles, baselines, anomalies:* process writes them and never reads them.
- *Allow-lists, the package report, the journald reader:* pure tests, output compared with nothing, and
  a reader that nothing but a test installs.
- *Trust entries* are folded into the free choice of `Decide` of `Enforcement` and of `Assessment`.

Settings change only at a restart, as in the code. SQLite is taken to commit each transaction
atomically and in order.

## What could come next

1. *Composition:* `Assessment`, `Incidents` and `Enforcement` as the one coroutine `process`, so that
   an incident always precedes its response. Their product is beyond TLC at the bounds above; it takes
   an abstract `Assessment` first.
2. *Stores:* trust entries read before the lock, and what an import of the configuration leaves behind.
3. *Proofs:* that `Assessment` and `Incidents` implement abstract specifications of their own, as
   `Enforcement` does `BlockLease`; and what holds of the enforcement where spellings differ.
