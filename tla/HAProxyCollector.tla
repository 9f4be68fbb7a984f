--------------------------- MODULE HAProxyCollector ---------------------------
(***************************************************************************)
(* HAProxyCollector: poll the sessions and the error counters of HAProxy,  *)
(* report a session whose key is not remembered, and what a counter has    *)
(* grown by.  The two commands are answered at different moments; memory   *)
(* and counters are brought up to date before the first event is handed    *)
(* on.                                                                     *)
(***************************************************************************)
EXTENDS Surroundings

CONSTANTS
  Keys,      \* "address:event type:service" of a session
  Rows,      \* rows of `show stat', with one error counter each
  MaxMemory  \* _max_dedupe_size

ASSUME ProxyAssumption == IsFiniteSet(Keys) /\ IsFiniteSet(Rows) /\ MaxMemory \in Nat \ {0}

VARIABLES
  open,      \* sessions HAProxy would list
  errors,    \* its counters
  memory,    \* self._session_dedupe
  previous,  \* self._previous
  poll,      \* the answers the task has, none while it sleeps; whether an exception ended it
  batch,     \* events not yet handed on
  reported,  \* history: events handed on for each key, 2 for more
  counted,   \* history: errors handed on for each row
  total,     \* history: errors there have been since the process started
  base,      \* history: the counter when it was first read
  memoryCleared, reset, lost  \* history: the memory was full, HAProxy restarted, a batch was dropped

world  == <<open, errors, total, reset>>
task   == <<memory, previous, poll, batch, base, memoryCleared, lost>>
handed == <<reported, counted>>
proxy  == <<world, task, handed>>

Empty == [r \in {} |-> 0]  \* a dictionary without keys
Asleep == [stopped |-> FALSE, answered |-> {}, sessions |-> {}, stats |-> Empty]

ProxyInit ==
  /\ open = {} /\ errors = [r \in Rows |-> 0] /\ total = errors /\ reset = FALSE
  /\ memory = {} /\ previous = Empty
  /\ poll = Asleep /\ batch = <<>> /\ base = Empty
  /\ memoryCleared = FALSE /\ lost = FALSE
  /\ reported = [k \in Keys |-> 0] /\ counted = [r \in Rows |-> 0]

\* The memories of a process that starts anew.
ProxyFresh ==
  /\ memory' = {} /\ previous' = Empty
  /\ poll' = Asleep /\ batch' = <<>> /\ base' = Empty
  /\ memoryCleared' = FALSE /\ lost' = FALSE
  /\ reported' = [k \in Keys |-> 0] /\ counted' = [r \in Rows |-> 0]
  /\ total' = [r \in Rows |-> 0] /\ reset' = FALSE
  /\ UNCHANGED <<open, errors>>

-----------------------------------------------------------------------------
\* HAProxy.

Session(k) ==
  /\ Change
  /\ open' = IF k \in open THEN open \ {k} ELSE open \cup {k}
  /\ UNCHANGED <<errors, total, reset, task, handed>>

ProxyError(r) ==
  /\ Change
  /\ errors' = [errors EXCEPT ![r] = @ + 1] /\ total' = [total EXCEPT ![r] = @ + 1]
  /\ UNCHANGED <<open, reset, task, handed>>

ProxyRestart ==
  /\ Change
  /\ errors' = [r \in Rows |-> 0] /\ open' = {} /\ reset' = TRUE
  /\ UNCHANGED <<total, task, handed>>

-----------------------------------------------------------------------------
\* collect.

\* The two commands of the gather, each on a connection of its own; the task
\* has handed on the last batch and slept.
Answer ==
  /\ ~poll.stopped /\ batch = <<>>
  /\ \/ /\ "sessions" \notin poll.answered
        /\ poll' = [poll EXCEPT !.answered = @ \cup {"sessions"}, !.sessions = open]
     \/ /\ "stats" \notin poll.answered
        /\ poll' = [poll EXCEPT !.answered = @ \cup {"stats"}, !.stats = errors]
  /\ UNCHANGED <<bounds, world, memory, previous, batch, base, memoryCleared, lost, handed>>

\* OSError or TimeoutError of a command: what the other one read is dropped.
AskFails ==
  /\ poll.answered # {} /\ Failure
  /\ poll' = Asleep
  /\ UNCHANGED <<world, memory, previous, batch, base, memoryCleared, lost, handed>>

\* Mutated: the memory is cleared after the key is added.
Remember_After(known, key) ==
  IF Cardinality(known \cup {key}) >= MaxMemory THEN {} ELSE known \cup {key}

\* Mutated: the memory is never cleared.
Remember_All(known, key) == known \cup {key}

Remember(known, key) == (IF Cardinality(known) >= MaxMemory THEN {} ELSE known) \cup {key}

\* _normalize_session_line for one line after the other.
Line(state, key) ==
  IF key \in state.known THEN state
  ELSE [known |-> Remember(state.known, key), new |-> Append(state.new, key),
        full |-> state.full \/ Cardinality(state.known) >= MaxMemory]

\* Mutated: a counter that went down has grown by its new value, and the
\* first reading by all of it.
Growth_FromZero(r, stats) ==
  IF r \notin DOMAIN previous \/ stats[r] < previous[r] THEN stats[r] ELSE stats[r] - previous[r]

\* The first reading is the baseline; a counter that went down adds nothing.
Growth(r, stats) ==
  IF r \notin DOMAIN previous \/ stats[r] < previous[r] THEN 0 ELSE stats[r] - previous[r]

Build ==
  /\ poll.answered = {"sessions", "stats"}
  /\ \E lines \in SetToSeqs(poll.sessions) :
       LET seen == FoldLeft(Line, [known |-> memory, new |-> <<>>, full |-> FALSE], lines)
           grown == SetToSeq({r \in Rows : Growth(r, poll.stats) > 0}) IN
         /\ memory' = seen.known
         /\ memoryCleared' = (memoryCleared \/ seen.full)
         /\ batch' = [n \in DOMAIN seen.new |-> [what |-> "active_session", of |-> seen.new[n], count |-> 1]]
                  \o [n \in DOMAIN grown |-> [what |-> "proxy_error", of |-> grown[n],
                                              count |-> Growth(grown[n], poll.stats)]]
  /\ previous' = poll.stats
  /\ base' = [r \in Rows |-> IF r \in DOMAIN base THEN base[r] ELSE poll.stats[r]]
  /\ poll' = Asleep
  /\ UNCHANGED <<bounds, world, lost, handed>>

\* ValueError of a session line or of a counter, logged by run: what the lines and
\* rows before it left in the memories stays, their events are dropped.
BuildFails ==
  /\ poll.answered = {"sessions", "stats"} /\ Failure
  /\ \E read \in SUBSET poll.sessions, done \in (SUBSET Rows) \ {Rows} :
       /\ read = poll.sessions \/ done = {}
       /\ \E lines \in SetToSeqs(read) :
            LET seen == FoldLeft(Line, [known |-> memory, new |-> <<>>, full |-> FALSE], lines) IN
              memory' = seen.known /\ memoryCleared' = (memoryCleared \/ seen.full)
       /\ previous' = [r \in DOMAIN previous \cup done |->
                         IF r \in done THEN poll.stats[r] ELSE previous[r]]
       /\ base' = [r \in DOMAIN base \cup done |-> IF r \in DOMAIN base THEN base[r] ELSE poll.stats[r]]
  /\ poll' = Asleep /\ lost' = TRUE
  /\ UNCHANGED <<world, batch, handed>>

-----------------------------------------------------------------------------
\* run.

Emit ==
  /\ batch # <<>>
  /\ LET e == Head(batch) IN
       IF e.what = "active_session"
       THEN reported' = [reported EXCEPT ![e.of] = Min({@ + 1, 2})] /\ UNCHANGED counted
       ELSE counted' = [counted EXCEPT ![e.of] = @ + e.count] /\ UNCHANGED reported
  /\ batch' = Tail(batch)
  /\ UNCHANGED <<bounds, world, memory, previous, poll, base, memoryCleared, lost>>

\* The service raises: the rest of the batch is dropped.  OSError, TimeoutError
\* and ValueError are logged; anything else, a locked database too, ends the task.
BatchFails ==
  /\ batch # <<>> /\ Failure
  /\ batch' = <<>> /\ lost' = TRUE
  /\ \E stopped \in BOOLEAN : poll' = [Asleep EXCEPT !.stopped = stopped]
  /\ UNCHANGED <<world, memory, previous, base, memoryCleared, handed>>

Traffic == (\E k \in Keys : Session(k)) \/ (\E r \in Rows : ProxyError(r)) \/ ProxyRestart

Proxy == Traffic \/ Answer \/ AskFails \/ Build \/ BuildFails \/ Emit \/ BatchFails

-----------------------------------------------------------------------------
\* Properties.

ProxyTypeOK ==
  /\ open \subseteq Keys /\ errors \in [Rows -> Nat] /\ total \in [Rows -> Nat]
  /\ memory \subseteq Keys /\ Cardinality(memory) <= MaxMemory
  /\ \A r \in DOMAIN previous : r \in Rows /\ previous[r] \in Nat /\ base[r] \in Nat
  /\ poll.sessions \subseteq Keys /\ (poll.stopped \/ batch # <<>> => poll.answered = {})
  /\ reported \in [Keys -> 0..2] /\ counted \in [Rows -> Nat]
  /\ memoryCleared \in BOOLEAN /\ reset \in BOOLEAN /\ lost \in BOOLEAN

Pending(what, x) ==
  FoldLeft(LAMBDA sum, e : IF e.what = what /\ e.of = x THEN sum + e.count ELSE sum, 0, batch)

\* What is polled again and again is handed on once.  Every error is handed on
\* at most once, whatever is dropped, polled twice or reset by HAProxy; and all
\* the errors since the first reading are, as long as HAProxy is not restarted
\* and no event fails.  Then a session, too, is suppressed only because it was
\* handed on, or is about to be, and reported once until the memory is full.
HandedOnOnce ==
  /\ \A r \in Rows :
       LET sum == counted[r] + Pending("proxy_error", r) IN
         /\ sum <= total[r]
         /\ (r \in DOMAIN previous /\ ~reset /\ ~lost) => sum = previous[r] - base[r]
  /\ ~lost => \A k \in Keys :
       LET times == reported[k] + Pending("active_session", k) IN
         /\ k \in memory => times > 0
         /\ ~memoryCleared => times = (IF k \in memory THEN 1 ELSE 0)
=============================================================================
