----------------------------- MODULE Enforcement -----------------------------
(***************************************************************************)
(* The life of a response: SentinelService.process decides an action and   *)
(* records it in the SQLite table `actions'; a BLOCK becomes an entry of   *)
(* HAProxy's runtime ACL; ActionLifecycle takes the entry out again when   *)
(* the lease expires, or when an operator unblocks the address or revokes  *)
(* the action.                                                             *)
(*                                                                         *)
(* All of them are coroutines of one event loop that share                 *)
(* ActionLifecycle.lock.  An action below is one segment of code between   *)
(* two awaits, cut further after every commit to SQLite, because the       *)
(* process may die there.  A runtime command is one step: its effect on    *)
(* HAProxy and its reply.  CommandFails is a command whose reply never     *)
(* comes, with or without its effect.                                      *)
(***************************************************************************)
EXTENDS Naturals

CONSTANTS
  Ips,          \* spellings of an address, as events and operators write them
  Invalid,      \* what ipaddress.ip_address makes of a spelling it rejects
  Canon,        \* [Ips -> Ips \cup {Invalid}]: str(ipaddress.ip_address(ip))
  Workers,      \* coroutines that run SentinelService.process
  Operators,    \* requests that unblock or revoke
  Expiry,       \* the task of ActionLifecycle.run
  Free,         \* the value of lock when nobody holds it
  Decisions,    \* the actions the policy may decide, a subset of Kinds
  Configs,      \* settings a (re)start may come up with
  Duration,     \* minutes of a lease, in ticks of the model
  DelMissingOk, \* HAProxy answers "del acl" of a missing entry with ""
  MaxActions,   \* bound: rows of the actions table
  MaxTime,      \* bound: ticks of the clock
  MaxFaults     \* bound: lost replies, reloads, database errors and crashes

Kinds == {"allow", "log_only", "alert", "challenge", "block", "rate_limit"}
Bounded == {"challenge", "block", "rate_limit"}
Ids == 1..MaxActions
Tasks == Workers \cup Operators \cup {Expiry}

ASSUME CanonAssumption ==
  /\ Canon \in [Ips -> Ips \cup {Invalid}]
  /\ Invalid \notin Ips
  /\ \A ip \in Ips : Canon[ip] # Invalid => Canon[Canon[ip]] = Canon[ip]

ASSUME TaskAssumption ==
  /\ Workers \cap Operators = {}
  /\ Expiry \notin Workers \cup Operators
  /\ Free \notin Tasks

ASSUME ParameterAssumption ==
  /\ Ips # {}
  /\ Decisions \subseteq Kinds
  /\ Configs \subseteq [dryRun : BOOLEAN, enabled : BOOLEAN]
  /\ Configs # {}
  /\ DelMissingOk \in BOOLEAN
  /\ Duration \in Nat /\ MaxActions \in Nat /\ MaxTime \in Nat /\ MaxFaults \in Nat

VARIABLES
  actions,   \* the table: id -> row
  count,     \* rows inserted so far; AUTOINCREMENT hands out count + 1
  audited,   \* ids with an "action.expire" entry in audit_log
  acl,       \* addresses in HAProxy's runtime ACL
  lock,      \* ActionLifecycle.lock: its holder or Free
  pc,        \* where each coroutine is
  job,       \* what each coroutine works on
  todo,      \* rows the lock holder has still to handle
  serving,   \* the lifespan's start-up reconciliation is over
  settings,  \* RESPONSE_DRY_RUN and ACTIONS_ENABLED of this process
  now,
  faults

stored  == <<actions, count, audited>>
process == <<lock, pc, job, todo, serving, settings>>
vars    == <<stored, acl, process, now, faults>>

Row == [ip : Ips, kind : Kinds, expires : Nat, rule : BOOLEAN,
        state : {"absent", "applying", "applied", "unapplied", "expired", "revoked"}]
Absent == [ip |-> CHOOSE ip \in Ips : TRUE, kind |-> "allow", expires |-> 0,
           rule |-> FALSE, state |-> "absent"]

Job == [ip : Ips, kind : Kinds, expires : Nat, id : Ids \cup {0}]
NoJob == [ip |-> CHOOSE ip \in Ips : TRUE, kind |-> "allow", expires |-> 0, id |-> 0]

WorkerLabels   == {"idle", "waiting", "blockRead", "blockAdd", "blockConfirm"}
OperatorLabels == {"idle", "undoDel", "undoRead", "closing"}
ExpiryLabels   == {"idle", "scan", "undoDel", "undoRead", "closing", "audit"}

-----------------------------------------------------------------------------
\* The table.

\* store.pending_actions; an "allow" row is applied but never pending.
Pending(id) ==
  /\ actions[id].state \in {"applying", "applied"}
  /\ actions[id].kind # "allow"

\* The rows every loop of the lifecycle picks: provider haproxy, action block.
PendingBlocks == {id \in Ids : Pending(id) /\ actions[id].kind = "block"}

Live(id) == actions[id].expires > now

\* Mutated: no care for longer leases of the same address.
Due_AnyExpired == {id \in PendingBlocks : ~Live(id)}
\* Mutated: a row whose block was never confirmed is not looked at.
Due_OnlyApplied ==
  {id \in PendingBlocks :
     /\ actions[id].state = "applied"
     /\ ~Live(id)
     /\ ~\E other \in PendingBlocks : actions[other].ip = actions[id].ip /\ Live(other)}

\* The rows one pass of reconcile() will not skip: due, and no row with the
\* same spelling of the address has a lease that still runs.
Due == {id \in PendingBlocks :
          /\ ~Live(id)
          /\ ~\E other \in PendingBlocks :
                actions[other].ip = actions[id].ip /\ Live(other)}

Insert(j, status, ruled) ==
  /\ count < MaxActions
  /\ count' = count + 1
  /\ actions' = [actions EXCEPT ![count + 1] =
                   [ip |-> j.ip, kind |-> j.kind, expires |-> j.expires,
                    rule |-> ruled, state |-> status]]

Finish(id, how) == actions' = [actions EXCEPT ![id].state = how]

First(id) == id \in todo /\ \A other \in todo : id <= other

-----------------------------------------------------------------------------
\* The event loop.

Valid(ip) == Canon[ip] # Invalid
Addr(t) == Canon[job[t].ip]

Goto(t, label) == pc' = [pc EXCEPT ![t] = label]

\* Leave `async with lifecycle.lock', normally or by an exception.
Leave(t) ==
  /\ lock' = Free
  /\ Goto(t, "idle")
  /\ job' = [job EXCEPT ![t] = NoJob]
  /\ todo' = {}

Init ==
  /\ actions = [id \in Ids |-> Absent]
  /\ count = 0
  /\ audited = {}
  /\ acl = {}
  /\ lock = Free
  /\ pc = [t \in Tasks |-> "idle"]
  /\ job = [t \in Tasks |-> NoJob]
  /\ todo = {}
  /\ serving = FALSE
  /\ settings \in Configs
  /\ now = 0
  /\ faults = 0

-----------------------------------------------------------------------------
\* SentinelService.process, from the decision on.

\* The decision and its expiry, both computed before the lock is requested.
Decide(w) ==
  /\ pc[w] = "idle" /\ serving
  /\ now + Duration <= MaxTime
  /\ \E ip \in Ips, kind \in Decisions :
       job' = [job EXCEPT ![w] =
                 [ip |-> ip, kind |-> kind, id |-> 0,
                  expires |-> IF kind \in Bounded THEN now + Duration ELSE 0]]
  /\ Goto(w, "waiting")
  /\ UNCHANGED <<stored, acl, lock, todo, serving, settings, now, faults>>

Enforced(j) == j.kind = "block" /\ ~settings.dryRun /\ settings.enabled

\* Mutated: the row is written only when the block is confirmed.
RecordIntent_Late(w) ==
  /\ pc[w] = "waiting" /\ lock = Free
  /\ Enforced(job[w]) /\ Valid(job[w].ip)
  /\ lock' = w
  /\ Goto(w, "blockRead")
  /\ UNCHANGED <<stored, acl, job, todo, serving, settings, now, faults>>

\* Lock, write the intent row, call the adapter.  An address it rejects
\* raises ValueError: the lock is released, the intent row stays.
RecordIntent(w) ==
  /\ pc[w] = "waiting" /\ lock = Free
  /\ Enforced(job[w])
  /\ Insert(job[w], "applying", FALSE)
  /\ IF Valid(job[w].ip)
       THEN /\ lock' = w
            /\ Goto(w, "blockRead")
            /\ job' = [job EXCEPT ![w].id = count + 1]
            /\ UNCHANGED todo
       ELSE Leave(w)
  /\ UNCHANGED <<audited, acl, serving, settings, now, faults>>

\* What _act reports as `applied' for a response that is not an ACL entry.
Outcomes(kind) ==
  IF settings.dryRun THEN {"unapplied"}
  ELSE CASE kind = "allow"     -> {"applied"}
         [] kind = "challenge" -> {"applied", "unapplied"}
         [] OTHER              -> {"unapplied"}

\* HAProxyActionAdapter.block and rate_limit parse the address first.
Rejected(j) == ~settings.dryRun /\ j.kind \in {"block", "rate_limit"} /\ ~Valid(j.ip)

\* Lock, act, record the response, release.
RecordResponse(w) ==
  /\ pc[w] = "waiting" /\ lock = Free
  /\ ~Enforced(job[w])
  /\ IF Rejected(job[w])
       THEN UNCHANGED <<actions, count>>
       ELSE \E status \in Outcomes(job[w].kind) : Insert(job[w], status, TRUE)
  /\ Leave(w)
  /\ UNCHANGED <<audited, acl, serving, settings, now, faults>>

\* The first `show acl': add only an address that is not there.
BlockRead(w) ==
  /\ pc[w] = "blockRead"
  /\ Goto(w, IF Addr(w) \in acl THEN "blockConfirm" ELSE "blockAdd")
  /\ UNCHANGED <<stored, acl, lock, job, todo, serving, settings, now, faults>>

BlockAdd(w) ==
  /\ pc[w] = "blockAdd"
  /\ acl' = acl \cup {Addr(w)}
  /\ Goto(w, "blockConfirm")
  /\ UNCHANGED <<stored, lock, job, todo, serving, settings, now, faults>>

\* The second `show acl'; an entry that is not there raises RuntimeError.
BlockConfirm(w) ==
  /\ pc[w] = "blockConfirm"
  /\ IF Addr(w) \in acl THEN Finish(job[w].id, "applied") ELSE UNCHANGED actions
  /\ Leave(w)
  /\ UNCHANGED <<count, audited, acl, serving, settings, now, faults>>

-----------------------------------------------------------------------------
\* ActionLifecycle.unblock and revoke.  A request the code refuses (unknown
\* id, adapter disabled, address invalid, provider without rollback) changes
\* nothing and is not a step.

\* unblock() matches rows against result.ip, the canonical spelling.
UnblockBegin(o) ==
  /\ pc[o] = "idle" /\ serving /\ lock = Free
  /\ settings.enabled
  /\ \E ip \in Ips : Valid(ip) /\ job' = [job EXCEPT ![o].ip = Canon[ip]]
  /\ lock' = o
  /\ Goto(o, "undoDel")
  /\ UNCHANGED <<stored, acl, todo, serving, settings, now, faults>>

\* revoke() of a pending block matches rows against the row's own spelling.
RevokeBegin(o) ==
  /\ pc[o] = "idle" /\ serving /\ lock = Free
  /\ settings.enabled
  /\ \E id \in PendingBlocks :
       /\ Valid(actions[id].ip)
       /\ job' = [job EXCEPT ![o].ip = actions[id].ip]
  /\ lock' = o
  /\ Goto(o, "undoDel")
  /\ UNCHANGED <<stored, acl, todo, serving, settings, now, faults>>

\* revoke() of a row that is neither applied nor applying.
RevokeRecord(o) ==
  /\ pc[o] = "idle" /\ serving /\ lock = Free
  /\ \E id \in Ids :
       /\ actions[id].state \in {"unapplied", "expired"}
       /\ Finish(id, "revoked")
  /\ UNCHANGED <<count, audited, acl, process, now, faults>>

\* The adapter's `del acl'.
UndoDel(t) ==
  /\ pc[t] = "undoDel"
  /\ Addr(t) \in acl \/ DelMissingOk
  /\ acl' = acl \ {Addr(t)}
  /\ Goto(t, "undoRead")
  /\ UNCHANGED <<stored, lock, job, todo, serving, settings, now, faults>>

\* Mutated: every failure is treated as the expiry task treats it.
GiveUp_KeepsLock(t) ==
  /\ Goto(t, "scan")
  /\ job' = [job EXCEPT ![t] = NoJob]
  /\ todo' = todo \ {job[t].id}
  /\ UNCHANGED lock

\* What follows an exception in a call of the adapter or of the store.
GiveUp(t) ==
  IF t = Expiry
    THEN /\ Goto(t, "scan")
         /\ job' = [job EXCEPT ![t] = NoJob]
         /\ todo' = todo \ {job[t].id}
         /\ UNCHANGED lock
    ELSE Leave(t)

\* `del acl' of a missing entry where HAProxy answers "Key not found.".
UndoRefused(t) ==
  /\ pc[t] = "undoDel"
  /\ Addr(t) \notin acl /\ ~DelMissingOk
  /\ GiveUp(t)
  /\ UNCHANGED <<stored, acl, serving, settings, now, faults>>

\* Mutated: only the row the request names is finished.
Related_OwnOnly(t) == {id \in PendingBlocks : id = job[t].id}

\* The rows unblock() and revoke() finish once the address is out.
Related(t) == {id \in PendingBlocks : actions[id].ip = job[t].ip}

\* The adapter's `show acl' after the deletion.
UndoRead(t) ==
  /\ pc[t] = "undoRead"
  /\ IF Addr(t) \in acl
       THEN GiveUp(t)
       ELSE /\ Goto(t, "closing")
            /\ todo' = IF t = Expiry THEN todo ELSE Related(t)
            /\ UNCHANGED <<lock, job>>
  /\ UNCHANGED <<stored, acl, serving, settings, now, faults>>

\* unblock() and revoke() finish every related row, one commit each.
CloseRelated(o) ==
  /\ pc[o] = "closing"
  /\ \/ /\ todo = {}
        /\ Leave(o)
        /\ UNCHANGED actions
     \/ \E id \in todo :
          /\ First(id)
          /\ Finish(id, "revoked")
          /\ todo' = todo \ {id}
          /\ UNCHANGED <<lock, pc, job>>
  /\ UNCHANGED <<count, audited, acl, serving, settings, now, faults>>

-----------------------------------------------------------------------------
\* ActionLifecycle.reconcile: the lifespan awaits one pass before it serves,
\* run() makes one every interval.

\* Mutated: the pass does not take the lifecycle's lock.
ReconcileBegin_NoLock ==
  /\ pc[Expiry] = "idle"
  /\ todo' = Due
  /\ Goto(Expiry, "scan")
  /\ UNCHANGED <<stored, acl, lock, job, serving, settings, now, faults>>

ReconcileBegin ==
  /\ pc[Expiry] = "idle" /\ lock = Free
  /\ lock' = Expiry
  /\ todo' = Due
  /\ Goto(Expiry, "scan")
  /\ UNCHANGED <<stored, acl, job, serving, settings, now, faults>>

\* Mutated: `applied' of the adapter's result is not looked at.
ReconcileNext_TrustsAdapter ==
  /\ pc[Expiry] = "scan"
  /\ \E id \in todo :
       /\ First(id)
       /\ Valid(actions[id].ip)
       /\ job' = [job EXCEPT ![Expiry].id = id, ![Expiry].ip = actions[id].ip]
       /\ Goto(Expiry, IF settings.enabled THEN "undoDel" ELSE "closing")
  /\ UNCHANGED <<stored, acl, todo, lock, serving, settings, now, faults>>

\* The next row of the pass; the adapter raises when it is disabled or the
\* address is invalid, and the row is left for the next pass.
ReconcileNext ==
  /\ pc[Expiry] = "scan"
  /\ \E id \in todo :
       /\ First(id)
       /\ IF settings.enabled /\ Valid(actions[id].ip)
            THEN /\ job' = [job EXCEPT ![Expiry].id = id, ![Expiry].ip = actions[id].ip]
                 /\ Goto(Expiry, "undoDel")
                 /\ UNCHANGED todo
            ELSE /\ todo' = todo \ {id}
                 /\ UNCHANGED <<job, pc>>
  /\ UNCHANGED <<stored, acl, lock, serving, settings, now, faults>>

ReconcileEnd ==
  /\ pc[Expiry] = "scan" /\ todo = {}
  /\ Leave(Expiry)
  /\ serving' = TRUE
  /\ UNCHANGED <<stored, acl, settings, now, faults>>

\* finish_action(id, "expired") ...
CloseExpired ==
  /\ pc[Expiry] = "closing"
  /\ Finish(job[Expiry].id, "expired")
  /\ Goto(Expiry, "audit")
  /\ UNCHANGED <<count, audited, acl, lock, job, todo, serving, settings, now, faults>>

\* ... and add_audit, a transaction of its own.
AuditExpired ==
  /\ pc[Expiry] = "audit"
  /\ audited' = audited \cup {job[Expiry].id}
  /\ todo' = todo \ {job[Expiry].id}
  /\ job' = [job EXCEPT ![Expiry] = NoJob]
  /\ Goto(Expiry, "scan")
  /\ UNCHANGED <<actions, count, acl, lock, serving, settings, now, faults>>

-----------------------------------------------------------------------------
\* What the environment does.

Fault == faults < MaxFaults /\ faults' = faults + 1

\* A command times out or the socket breaks, before or after its effect.
CommandFails(t) ==
  /\ pc[t] \in {"blockRead", "blockAdd", "blockConfirm", "undoDel", "undoRead"}
  /\ \/ UNCHANGED acl
     \/ pc[t] = "blockAdd" /\ acl' = acl \cup {Addr(t)}
     \/ pc[t] = "undoDel" /\ acl' = acl \ {Addr(t)}
  /\ GiveUp(t)
  /\ Fault
  /\ UNCHANGED <<stored, serving, settings, now>>

\* sqlite3.Error in add_action, finish_action or add_audit aborts the event, the
\* request or the whole pass.
DatabaseError(t) ==
  /\ \/ pc[t] \in {"closing", "audit"}
     \/ pc[t] = "waiting" /\ lock = Free
  /\ Leave(t)
  /\ Fault
  /\ UNCHANGED <<stored, acl, serving, settings, now>>

\* HAProxy is reloaded and starts from its empty ACL file.
Reload ==
  /\ acl # {}
  /\ acl' = {}
  /\ Fault
  /\ UNCHANGED <<stored, process, now>>

\* The process dies and is started again, perhaps with other settings.
Crash ==
  /\ lock' = Free
  /\ pc' = [t \in Tasks |-> "idle"]
  /\ job' = [t \in Tasks |-> NoJob]
  /\ todo' = {}
  /\ serving' = FALSE
  /\ settings' \in Configs
  /\ Fault
  /\ UNCHANGED <<stored, acl, now>>

Tick ==
  /\ now < MaxTime
  /\ now' = now + 1
  /\ UNCHANGED <<stored, acl, process, faults>>

-----------------------------------------------------------------------------
Respond(w)  == RecordIntent(w) \/ RecordResponse(w)
Blocking(w) == BlockRead(w) \/ BlockAdd(w) \/ BlockConfirm(w)
Undoing(t)  == UndoDel(t) \/ UndoRefused(t) \/ UndoRead(t)
Expiring    == ReconcileNext \/ ReconcileEnd \/ CloseExpired \/ AuditExpired

Next ==
  \/ \E w \in Workers : Decide(w) \/ Respond(w) \/ Blocking(w)
  \/ \E o \in Operators : UnblockBegin(o) \/ RevokeBegin(o) \/ RevokeRecord(o)
                          \/ CloseRelated(o)
  \/ \E t \in Operators \cup {Expiry} : Undoing(t)
  \/ ReconcileBegin \/ Expiring
  \/ \E t \in Tasks : CommandFails(t) \/ DatabaseError(t)
  \/ Reload \/ Crash \/ Tick

Spec == Init /\ [][Next]_vars

\* The event loop runs every coroutine that is ready; asyncio.Lock is a FIFO
\* queue, so a coroutine that asks for it again and again gets it; the clock
\* moves.  Faults and new requests are never forced.
Fairness ==
  /\ \A w \in Workers : WF_vars(Blocking(w)) /\ SF_vars(Respond(w))
  /\ \A o \in Operators : WF_vars(CloseRelated(o))
  /\ \A t \in Operators \cup {Expiry} : WF_vars(Undoing(t))
  /\ WF_vars(Expiring) /\ SF_vars(ReconcileBegin)
  /\ WF_vars(Tick)

FairSpec == Spec /\ Fairness

-----------------------------------------------------------------------------
\* Properties.

LabelsOK ==
  /\ pc \in [Tasks -> WorkerLabels \cup OperatorLabels \cup ExpiryLabels]
  /\ \A w \in Workers : pc[w] \in WorkerLabels
  /\ \A o \in Operators : pc[o] \in OperatorLabels
  /\ pc[Expiry] \in ExpiryLabels

\* Every variable stays in its domain, and the labels of a coroutine are its own.
TypeOK ==
  /\ actions \in [Ids -> Row]
  /\ count \in 0..MaxActions
  /\ audited \subseteq Ids
  /\ acl \subseteq Ips
  /\ lock \in Tasks \cup {Free}
  /\ LabelsOK
  /\ job \in [Tasks -> Job]
  /\ todo \subseteq Ids
  /\ serving \in BOOLEAN
  /\ settings \in Configs
  /\ now \in Nat
  /\ faults \in Nat

\* No address is blocked in HAProxy without a row that the expiry task will
\* find: the intent is committed before the entry is made, and a row is closed
\* only after the entry is gone, through every crash and lost reply.
NoOrphanBlock ==
  \A a \in acl : \E id \in PendingBlocks : Canon[actions[id].ip] = a

\* A row stops being pending only in a state where HAProxy does not hold its
\* address: neither the expiry task nor an operator reports a removal that did
\* not happen, whether the adapter is disabled, refused or was cut off.
ClosesOnlyLifted ==
  \A id \in PendingBlocks : id \notin PendingBlocks' => Canon[actions[id].ip] \notin acl'
NoFalseClose == [][ClosesOnlyLifted]_vars

\* A closed response is never pending again: no confirmation of a block lands
\* on a row that the expiry task or an operator has closed in the meantime.
StaysClosed ==
  \A id \in Ids : actions[id].state # "absent" /\ ~Pending(id) => ~Pending(id)'
NoResurrection == [][StaysClosed]_vars

\* The expiry task removes an address only when no lease on it still runs.
\* (It holds where every event spells an address canonically.)
RemovesOnlyExpired ==
  pc[Expiry] = "undoDel" /\ pc'[Expiry] # "undoDel" =>
    \A a \in acl \ acl', id \in PendingBlocks : Canon[actions[id].ip] = a => ~Live(id)
KeepsLongestLease == [][RemovesOnlyExpired]_vars

\* As long as nothing failed, a block that the dashboard shows as active is
\* enforced whenever nobody is in the middle of changing it.
ActiveIsEnforced ==
  faults = 0 /\ lock = Free =>
    \A id \in PendingBlocks :
      actions[id].state = "applied" => Canon[actions[id].ip] \in acl

\* Every block is a lease of BlockLease: the table and HAProxy's ACL never
\* show a step that specification does not allow.
Leases == INSTANCE BlockLease WITH
  Addrs   <- Ips \cup {Invalid},
  used    <- {id \in Ids : actions[id].state # "absent"},
  open    <- {[id |-> id, addr |-> Canon[actions[id].ip]] : id \in PendingBlocks},
  entries <- acl
ImplementsLeases == Leases!Spec

\* Once due, a block ends: failures, crashes and the requests of others delay
\* its removal, but only finitely often.
ExpiredBlocksEnd ==
  \A id \in Ids :
    (id \in PendingBlocks /\ Valid(actions[id].ip) /\ ~Live(id)) ~> id \notin PendingBlocks
=============================================================================
