----------------------------- MODULE LogCollector -----------------------------
(***************************************************************************)
(* The loop of LinuxAuthCollector and ServiceLogCollector: let a thread    *)
(* read a batch of lines, hand the events to SentinelService.process one   *)
(* after the other, sleep, begin again.  Every line is taken to be an      *)
(* event; what the parsers make of a line is left out.                     *)
(***************************************************************************)
EXTENDS LogReader

CONSTANT MaxErrors \* bound: exceptions raised by SentinelService.process

VARIABLES
  mode,      \* what run() is doing
  queue,     \* events of the batch not yet handed on
  processed, \* events handed to SentinelService.process
  dropped,   \* history: events given up with an error
  errors

loop     == <<mode, queue, processed, dropped, errors>>
everything == <<vars, loop>>

ASSUME CollectorAssumption == MaxErrors \in Nat

CollectorInit ==
  /\ Init
  /\ mode = "sleeping" /\ queue = <<>> /\ processed = <<>> /\ dropped = <<>> /\ errors = 0

\* collect(): the reader works in a thread, the loop awaits it.
Poll ==
  /\ mode = "sleeping"
  /\ BeginPass
  /\ mode' = "reading"
  /\ UNCHANGED <<queue, processed, dropped, errors>>

\* Mutated: the loop waits for a pass that has already ended.
Collected_Waits ==
  /\ mode = "reading"
  /\ EndPass
  /\ queue' = pass.results
  /\ UNCHANGED <<mode, processed, dropped, errors>>

Collected ==
  /\ mode = "reading"
  /\ EndPass
  /\ mode' = "emitting" /\ queue' = pass.results
  /\ UNCHANGED <<processed, dropped, errors>>

\* Mutated: pop() hands on the newest event of the batch first.
Emit_Newest ==
  /\ mode = "emitting" /\ queue # <<>>
  /\ processed' = Append(processed, Last(queue))
  /\ queue' = Front(queue)
  /\ UNCHANGED <<vars, mode, dropped, errors>>

Emit ==
  /\ mode = "emitting" /\ queue # <<>>
  /\ processed' = Append(processed, Head(queue))
  /\ queue' = Tail(queue)
  /\ UNCHANGED <<vars, mode, dropped, errors>>

\* Mutated: a batch without events ends the loop.
Sleep_AfterEvents ==
  /\ mode = "emitting" /\ queue = <<>>
  /\ mode' = IF processed = <<>> THEN "stopped" ELSE "sleeping"
  /\ UNCHANGED <<vars, queue, processed, dropped, errors>>

Sleep ==
  /\ mode = "emitting" /\ queue = <<>>
  /\ mode' = "sleeping"
  /\ UNCHANGED <<vars, queue, processed, dropped, errors>>

\* The exception leaves the `while'; the handler around it logs, and run() is over:
\* the rest of the batch, which the reader has passed, is lost with the event.
EmitFails ==
  /\ mode = "emitting" /\ queue # <<>> /\ errors < MaxErrors
  /\ mode' = "stopped" /\ queue' = <<>> /\ dropped' = queue /\ errors' = errors + 1
  /\ UNCHANGED <<vars, processed>>

CollectorNext ==
  \/ (Logging \/ Reading) /\ UNCHANGED loop
  \/ Poll \/ Collected \/ Emit \/ Sleep \/ EmitFails

CollectorSpec == CollectorInit /\ [][CollectorNext]_everything

\* The event loop and its thread run; a file that could not be opened or read can
\* be at some later attempt.  Nobody has to write, and nothing has to fail.
CollectorFairness ==
  /\ WF_everything(Poll \/ Collected \/ Emit \/ Sleep)
  /\ WF_everything(Reading /\ UNCHANGED loop)
  /\ SF_everything(Visit /\ UNCHANGED loop)
  /\ SF_everything(ReadChunk /\ UNCHANGED loop)

FairCollectorSpec == CollectorSpec /\ CollectorFairness

-----------------------------------------------------------------------------
\* Properties.

From(i, lines) ==
  Picked({k \in DOMAIN lines : lines[k].inode = i}, [k \in 1..Len(lines) |-> lines[k].text])

CollectorTypeOK ==
  /\ mode \in {"sleeping", "reading", "emitting", "stopped"}
  /\ mode = "reading" <=> pass.phase # "idle"
  /\ queue \in Seq(Line) /\ processed \in Seq(Line) /\ dropped \in Seq(Line)
  /\ errors \in 0..MaxErrors

\* The lines the reader took are those that were handed on, or are about to be,
\* each once and in order; an event that fails costs itself and what followed it in
\* its batch, and nothing that came before.
NothingDropped ==
  /\ \A i \in Inodes : From(i, processed \o dropped \o queue \o pass.results) = taken[i]
  /\ dropped # <<>> => mode = "stopped" /\ Len(dropped) <= MaxLines

\* A line of a file that stays in place reaches the service, whatever else is
\* written, unless an event before it made the service fail.
LinesArrive ==
  \A p \in Paths, i \in Inodes, n \in 1..MaxWritten :
    (link[p] = i /\ Len(Lines(files[i])) >= n) ~>
      \/ Len(From(i, processed)) >= n
      \/ link[p] # i \/ cut[i] > 0 \/ errors > 0
=============================================================================
