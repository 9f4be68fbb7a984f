----------------------------- MODULE DockerEvents -----------------------------
(***************************************************************************)
(* DockerEventsClient.read_events and the loop of                          *)
(* DockerEventCollector.run: ask the daemon for the events since a second, *)
(* take a bounded batch of those not seen before, advance the cursor, hand *)
(* the batch on, sleep, ask again.  An event is its position in the        *)
(* daemon's log, which stands for the key (timeNano, id, action); what the *)
(* events say is left out.                                                 *)
(*                                                                         *)
(* The request asks the daemon to close the stream thirty seconds later:   *)
(* what was in the log when the stream was opened is delivered before      *)
(* that, what comes later may or may not be.                               *)
(***************************************************************************)
EXTENDS Naturals, Sequences, FiniteSets, FiniteSetsExt, SequencesExt

CONSTANTS
  BatchCap,   \* BATCH_CAP
  MaxDedupe,  \* MAX_DEDUPE_ENTRIES
  PerSecond,  \* bound: events of one second, at most half of MaxDedupe: with
              \* more, pruning makes the client read the same ones for ever
  MaxEvents,  \* bound: events of the daemon
  MaxTime,    \* bound: seconds
  MaxFaults   \* bound: broken streams and failing events

Events == 1..MaxEvents

ASSUME DockerAssumption ==
  /\ BatchCap \in Nat \ {0} /\ MaxDedupe \in Nat /\ BatchCap <= MaxDedupe
  /\ PerSecond \in 1..(MaxDedupe \div 2) /\ MaxEvents \in Nat
  /\ MaxTime \in Nat \ {0} /\ MaxFaults \in Nat

VARIABLES
  log,      \* the second of every event of the daemon, in order
  clock,
  since,    \* self.since
  seen,     \* self._dedupe
  stream,   \* the request under way: events passed over, events due, and
            \* those of it that were taken
  phase,    \* what run() is doing
  queue,    \* events of the batch still to emit
  emitted,  \* history: events given to SentinelService.process
  pruned,   \* history: seen was pruned
  lost,     \* history: events taken and dropped by a failure
  faults

daemon == <<log, clock>>
client == <<since, seen, stream>>
vars   == <<daemon, client, phase, queue, emitted, pruned, lost, faults>>

NoStream == [passed |-> 0, due |-> 0, batch |-> <<>>]

Init ==
  /\ log = <<>> /\ clock = 1
  /\ since = 1 /\ seen = {} /\ stream = NoStream
  /\ phase = "idle" /\ queue = <<>> /\ emitted = <<>>
  /\ pruned = FALSE /\ lost = {} /\ faults = 0

-----------------------------------------------------------------------------
\* The daemon.

Occur ==
  /\ Len(log) < MaxEvents
  /\ Cardinality({k \in DOMAIN log : log[k] = clock}) < PerSecond
  /\ log' = Append(log, clock)
  /\ UNCHANGED <<clock, client, phase, queue, emitted, pruned, lost, faults>>

Tick ==
  /\ clock < MaxTime
  /\ clock' = clock + 1
  /\ UNCHANGED <<log, client, phase, queue, emitted, pruned, lost, faults>>

-----------------------------------------------------------------------------
\* read_events.

\* The events the daemon leaves out of its answer.
Older == {k \in DOMAIN log : log[k] < since}

Connect ==
  /\ phase = "idle"
  /\ phase' = "streaming"
  /\ stream' = [passed |-> Cardinality(Older), due |-> Len(log), batch |-> <<>>]
  /\ UNCHANGED <<daemon, since, seen, queue, emitted, pruned, lost, faults>>

Full == Len(stream.batch) >= BatchCap

\* Mutated: an event is taken whether or not it was before.
Taken_Always(k) == <<k>>

Taken(k) == IF k \in seen THEN <<>> ELSE <<k>>

\* The next line of the stream.
Consume ==
  /\ phase = "streaming" /\ ~Full
  /\ stream.passed < Len(log)
  /\ LET k == stream.passed + 1 IN
       /\ stream' = [stream EXCEPT !.passed = k, !.batch = @ \o Taken(k)]
       /\ seen' = seen \cup {k}
  /\ UNCHANGED <<daemon, since, phase, queue, emitted, pruned, lost, faults>>

\* Mutated: too large a memory is kept as it is.
Halves_Whole(keys) == {keys}

\* Any half of the set: its order is that of the hash table.
Halves(keys) == kSubset(Cardinality(keys) \div 2, keys)

\* Mutated: the next request begins after the last event's second.
Cursor_NextSecond(batch) == IF batch = <<>> THEN since ELSE log[Last(batch)] + 1

\* Mutated: the next request begins where this one ended.
Cursor_Until(batch) == clock

\* The second of the last event taken; it is asked for again.
Cursor(batch) == IF batch = <<>> THEN since ELSE log[Last(batch)]

\* The batch is full, or the daemon has closed the stream.
Ended == Full \/ stream.passed >= stream.due

Prune ==
  IF Cardinality(seen) > MaxDedupe
    THEN seen' \in Halves(seen) /\ pruned' = TRUE
    ELSE UNCHANGED <<seen, pruned>>

EndBatch ==
  /\ phase = "streaming" /\ Ended
  /\ Prune
  /\ since' = Cursor(stream.batch)
  /\ queue' = stream.batch
  /\ phase' = "emitting"
  /\ stream' = NoStream
  /\ UNCHANGED <<daemon, emitted, lost, faults>>

\* _enrich raises: the keys are pruned, the cursor has not moved yet.
EnrichFails ==
  /\ phase = "streaming" /\ Ended /\ stream.batch # <<>> /\ faults < MaxFaults
  /\ Prune
  /\ faults' = faults + 1
  /\ lost' = lost \cup Range(stream.batch)
  /\ stream' = NoStream
  /\ phase' = "idle"
  /\ UNCHANGED <<daemon, since, queue, emitted>>

\* An exception of the stream: the events taken are dropped, the keys stay.
StreamFails ==
  /\ phase = "streaming" /\ faults < MaxFaults
  /\ faults' = faults + 1
  /\ lost' = lost \cup Range(stream.batch)
  /\ stream' = NoStream
  /\ phase' = "idle"
  /\ UNCHANGED <<daemon, since, seen, queue, emitted, pruned>>

-----------------------------------------------------------------------------
\* run.

Emit ==
  /\ phase = "emitting" /\ queue # <<>>
  /\ emitted' = Append(emitted, Head(queue))
  /\ queue' = Tail(queue)
  /\ UNCHANGED <<daemon, client, phase, pruned, lost, faults>>

\* The exception ends the batch, not the loop; one of _normalize does so before
\* the first event is emitted.
EmitFails ==
  /\ phase = "emitting" /\ queue # <<>> /\ faults < MaxFaults
  /\ faults' = faults + 1
  /\ lost' = lost \cup Range(queue)
  /\ queue' = <<>>
  /\ UNCHANGED <<daemon, client, phase, emitted, pruned>>

Sleep ==
  /\ phase = "emitting" /\ queue = <<>>
  /\ phase' = "idle"
  /\ UNCHANGED <<daemon, client, queue, emitted, pruned, lost, faults>>

Polling == Connect \/ Consume \/ EndBatch \/ Emit \/ Sleep

Next == Occur \/ Tick \/ Polling \/ StreamFails \/ EnrichFails \/ EmitFails

Spec == Init /\ [][Next]_vars

\* The loop runs, an open stream delivers, and the daemon closes it in the end:
\* neither can be put off for ever by new events.  Nothing has to happen in the
\* daemon and nothing has to fail.
FairSpec == Spec /\ WF_vars(Polling) /\ WF_vars(EndBatch)

-----------------------------------------------------------------------------
\* Properties.

InHand == emitted \o queue \o stream.batch

\* The types, and the bound of the memory: only the batch under way exceeds the
\* limit, and what a stream that failed has left behind.
TypeOK ==
  /\ log \in Seq(1..MaxTime) /\ Len(log) <= MaxEvents /\ clock \in 1..MaxTime
  /\ since \in 1..clock /\ seen \subseteq DOMAIN log
  /\ stream \in [passed : 0..Len(log), due : 0..Len(log), batch : Seq(Events)]
  /\ phase \in {"idle", "streaming", "emitting"}
  /\ queue \in Seq(Events) /\ emitted \in Seq(Events)
  /\ pruned \in BOOLEAN /\ lost \subseteq Events /\ faults \in 0..MaxFaults
  /\ Cardinality(seen) <= MaxDedupe + Len(stream.batch) + faults * BatchCap

\* The cursor never passes an event that was not taken: every event of a second
\* before it was emitted, is about to be, or was in the hand of a stream or a
\* batch that failed, whatever batches the events of one second were split into
\* and whatever was forgotten.
NothingSkipped ==
  \A k \in DOMAIN log : log[k] < since => k \in Range(InHand) \cup lost

\* Asking for the cursor's second again, or for the rest of a stream that broke,
\* repeats and reorders nothing and leaves out only what a failure dropped, until
\* the memory is pruned.
InOrderOnce ==
  ~pruned =>
    /\ \A i, j \in DOMAIN InHand : i < j => InHand[i] < InHand[j]
    /\ \A k \in Range(InHand) : 1..k \subseteq Range(InHand) \cup lost

\* Every event is emitted in the end, but for those in hand when something fails,
\* although pruning makes the client read events of the cursor's second again.
EventsArrive ==
  \A k \in Events : k \in DOMAIN log ~> k \in Range(emitted) \cup lost
=============================================================================
