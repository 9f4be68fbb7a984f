-------------------------- MODULE EnforcementProofs --------------------------
(***************************************************************************)
(* Theorems about Enforcement, for every set of coroutines and spellings   *)
(* and every bound.                                                        *)
(***************************************************************************)
EXTENDS Enforcement, TLAPS

BlockLabels == {"blockRead", "blockAdd", "blockConfirm"}
UndoLabels  == {"undoDel", "undoRead", "closing"}

\* Whoever is past the lock request holds the lock.
Mutex == \A t \in Tasks : pc[t] \notin {"idle", "waiting"} => lock = t

\* The rows from count + 1 on are not yet written.
RowsBelowCount == \A id \in Ids : id > count => actions[id].state = "absent"

\* A coroutine that blocks an address has its intent in the table.
IntentHeld ==
  \A w \in Workers : pc[w] \in BlockLabels =>
    /\ job[w].id \in PendingBlocks
    /\ actions[job[w].id].ip = job[w].ip
    /\ Valid(job[w].ip)

\* The rows a pass of the expiry task has still to handle are pending, and
\* it works on one of them.
PassHeld ==
  /\ pc[Expiry] = "scan" => todo \subseteq PendingBlocks
  /\ pc[Expiry] \in UndoLabels \cup {"audit"} =>
       job[Expiry].id \in Ids /\ todo \ {job[Expiry].id} \subseteq PendingBlocks
  /\ pc[Expiry] \in UndoLabels =>
       /\ job[Expiry].id \in PendingBlocks
       /\ actions[job[Expiry].id].ip = job[Expiry].ip

\* The rows a request has still to finish are pending rows of its address.
RequestHeld ==
  \A o \in Operators : pc[o] = "closing" =>
    \A id \in todo : id \in PendingBlocks /\ actions[id].ip = job[o].ip

\* Rows are finished only while their address is out of HAProxy.
LiftedFirst ==
  \A t \in Operators \cup {Expiry} : pc[t] = "closing" => Addr(t) \notin acl

IInv == TypeOK /\ Mutex /\ RowsBelowCount /\ IntentHeld /\ PassHeld
        /\ RequestHeld /\ LiftedFirst /\ NoOrphanBlock

LEMMA Blank == Absent \in Row /\ NoJob \in Job
  BY ParameterAssumption DEF Absent, NoJob, Row, Job, Kinds, Ids

-----------------------------------------------------------------------------
\* Types of the pieces the actions are built from.

LEMMA GotoType ==
  ASSUME LabelsOK, NEW t \in Tasks, NEW label, Goto(t, label),
         t \in Workers => label \in WorkerLabels,
         t \in Operators => label \in OperatorLabels,
         t = Expiry => label \in ExpiryLabels
  PROVE  LabelsOK'
  BY TaskAssumption DEF LabelsOK, Goto, Tasks

LEMMA LeaveType ==
  ASSUME TypeOK, NEW t \in Tasks, Leave(t)
  PROVE  LabelsOK' /\ job' \in [Tasks -> Job] /\ todo' \subseteq Ids /\ lock' \in Tasks \cup {Free}
<1>1. LabelsOK'
  BY GotoType DEF TypeOK, Leave, WorkerLabels, OperatorLabels, ExpiryLabels
<1> QED BY <1>1, Blank DEF TypeOK, Leave

LEMMA GiveUpType ==
  ASSUME TypeOK, NEW t \in Tasks, GiveUp(t)
  PROVE  LabelsOK' /\ job' \in [Tasks -> Job] /\ todo' \subseteq Ids /\ lock' \in Tasks \cup {Free}
<1>1. CASE t = Expiry
  <2>1. LabelsOK'
    BY <1>1, GotoType, TaskAssumption DEF TypeOK, GiveUp, ExpiryLabels
  <2> QED BY <1>1, <2>1, Blank DEF TypeOK, GiveUp
<1>2. CASE t # Expiry
  BY <1>2, LeaveType DEF GiveUp
<1> QED BY <1>1, <1>2

LEMMA FinishType ==
  ASSUME TypeOK, NEW id \in Ids, NEW how \in {"applied", "expired", "revoked"}, Finish(id, how)
  PROVE  actions' \in [Ids -> Row]
  BY DEF TypeOK, Finish, Row

LEMMA InsertType ==
  ASSUME TypeOK, NEW j \in Job, NEW ruled \in BOOLEAN,
         NEW status \in {"applying", "applied", "unapplied"}, Insert(j, status, ruled)
  PROVE  count + 1 \in Ids /\ count' \in 0..MaxActions /\ actions' \in [Ids -> Row]
<1>1. count + 1 \in Ids /\ count' \in 0..MaxActions
  BY ParameterAssumption DEF TypeOK, Insert, Ids
<1>2. [ip |-> j.ip, kind |-> j.kind, expires |-> j.expires, rule |-> ruled, state |-> status] \in Row
  BY DEF Job, Row
<1> QED BY <1>1, <1>2 DEF TypeOK, Insert

-----------------------------------------------------------------------------
\* One lemma per action: it preserves every conjunct of IInv.

LEMMA DecideStep ==
  ASSUME IInv, NEW w \in Workers, Decide(w)  PROVE IInv'
<1> USE TaskAssumption, ParameterAssumption, Blank DEF IInv
<1>1. TypeOK'
  <2>1. w \in Tasks /\ w # Expiry /\ w \notin Operators
    BY DEF Tasks
  <2>2. LabelsOK'
    BY <2>1, GotoType DEF TypeOK, Decide, WorkerLabels
  <2>3. PICK ip \in Ips, kind \in Decisions :
          job' = [job EXCEPT ![w] =
                    [ip |-> ip, kind |-> kind, id |-> 0,
                     expires |-> IF kind \in Bounded THEN now + Duration ELSE 0]]
    BY DEF Decide
  <2>4. job' \in [Tasks -> Job]
    BY <2>1, <2>3 DEF TypeOK, Job, Kinds
  <2> QED BY <2>2, <2>4 DEF TypeOK, Decide, stored
<1>2. Mutex'
  BY CanonAssumption DEF TypeOK, LabelsOK, Decide, stored, process, Goto, Tasks, Mutex
<1>3. RowsBelowCount'
  BY CanonAssumption DEF TypeOK, LabelsOK, Decide, stored, process, Goto, RowsBelowCount, Ids
<1>4. IntentHeld'
  BY CanonAssumption DEF TypeOK, LabelsOK, Decide, stored, process, Goto, IntentHeld, PendingBlocks, Pending, Tasks, Mutex, Valid, BlockLabels, RowsBelowCount, Ids
<1>5. PassHeld'
  BY CanonAssumption DEF TypeOK, LabelsOK, Decide, stored, process, Goto, PassHeld, PendingBlocks, Pending, Tasks, Mutex, UndoLabels, RowsBelowCount, Ids, BlockLabels, IntentHeld
<1>6. RequestHeld'
  BY CanonAssumption DEF TypeOK, LabelsOK, Decide, stored, process, Goto, RequestHeld, PendingBlocks, Pending, Tasks, Mutex, RowsBelowCount, Ids
<1>7. LiftedFirst'
  BY CanonAssumption DEF TypeOK, LabelsOK, Decide, stored, process, Goto, LiftedFirst, Addr, Tasks, Mutex
<1>8. NoOrphanBlock'
  BY CanonAssumption DEF TypeOK, LabelsOK, Decide, stored, process, Goto, NoOrphanBlock, PendingBlocks, Pending, RowsBelowCount, Ids, LiftedFirst, Addr, Tasks, Mutex, IntentHeld, PassHeld, BlockLabels, UndoLabels
<1> QED BY <1>1, <1>2, <1>3, <1>4, <1>5, <1>6, <1>7, <1>8

LEMMA RecordIntentStep ==
  ASSUME IInv, NEW w \in Workers, RecordIntent(w)  PROVE IInv'
<1> USE TaskAssumption, ParameterAssumption, Blank DEF IInv
<1>1. TypeOK'
  <2>1. w \in Tasks /\ job[w] \in Job
    BY DEF TypeOK, Tasks
  <2>2. count + 1 \in Ids /\ count' \in 0..MaxActions /\ actions' \in [Ids -> Row]
    BY <2>1, InsertType DEF RecordIntent
  <2>3. CASE Valid(job[w].ip)
    <3>1. LabelsOK'
      BY <2>1, <2>3, GotoType DEF TypeOK, RecordIntent, Tasks, WorkerLabels
    <3>2. job' \in [Tasks -> Job]
      BY <2>1, <2>2, <2>3 DEF TypeOK, RecordIntent, Job
    <3> QED BY <2>1, <2>2, <2>3, <3>1, <3>2 DEF TypeOK, RecordIntent
  <2>4. CASE ~Valid(job[w].ip)
    BY <2>1, <2>2, <2>4, LeaveType DEF TypeOK, RecordIntent
  <2> QED BY <2>3, <2>4
<1>2. Mutex'
  BY CanonAssumption DEF TypeOK, LabelsOK, RecordIntent, stored, process, Insert, Leave, Goto, Enforced, Tasks, Mutex
<1>3. RowsBelowCount'
  BY CanonAssumption DEF TypeOK, LabelsOK, RecordIntent, stored, process, Insert, Leave, Goto, Enforced, RowsBelowCount, Ids
<1>4. IntentHeld'
  <2> SUFFICES ASSUME NEW v \in Workers, pc'[v] \in BlockLabels
               PROVE  /\ job'[v].id \in PendingBlocks'
                      /\ actions'[job'[v].id].ip = job'[v].ip
                      /\ Valid(job'[v].ip)
    BY DEF IntentHeld, Valid
  <2>1. w \in Tasks /\ v \in Tasks /\ job[w] \in Job /\ lock = Free
    BY DEF TypeOK, Tasks, RecordIntent
  <2>2. v = w /\ Valid(job[w].ip)
    BY <2>1 DEF TypeOK, LabelsOK, RecordIntent, Leave, Goto, Mutex, BlockLabels
  <2>3. count + 1 \in Ids
    BY <2>1, InsertType DEF RecordIntent
  <2>4. actions'[count + 1] = [ip |-> job[w].ip, kind |-> job[w].kind,
                               expires |-> job[w].expires, rule |-> FALSE, state |-> "applying"]
    BY <2>3 DEF TypeOK, RecordIntent, Insert
  <2>5. job'[w] = [job[w] EXCEPT !.id = count + 1]
    BY <2>1, <2>2 DEF TypeOK, RecordIntent
  <2>6. job'[w].id = count + 1 /\ job'[w].ip = job[w].ip
    BY <2>1, <2>5 DEF Job
  <2>7. job[w].kind = "block"
    BY DEF RecordIntent, Enforced
  <2> QED BY <2>2, <2>3, <2>4, <2>6, <2>7 DEF PendingBlocks, Pending, Valid
<1>5. PassHeld'
  BY CanonAssumption DEF TypeOK, LabelsOK, RecordIntent, stored, process, Insert, Leave, Goto, Enforced, PassHeld, PendingBlocks, Pending, Tasks, Mutex, UndoLabels, RowsBelowCount, Ids, BlockLabels, IntentHeld
<1>6. RequestHeld'
  <2>1. \A o \in Operators : pc[o] # "closing"
    BY DEF RecordIntent, Mutex, Tasks
  <2>2. \A o \in Operators : pc'[o] # "closing"
    BY <2>1 DEF RecordIntent, Leave, Goto, TypeOK, LabelsOK, Tasks
  <2> QED BY <2>2 DEF RequestHeld
<1>7. LiftedFirst'
  BY CanonAssumption DEF TypeOK, LabelsOK, RecordIntent, stored, process, Insert, Leave, Goto, Enforced, LiftedFirst, Addr, Tasks, Mutex
<1>8. NoOrphanBlock'
  <2> SUFFICES ASSUME NEW a \in acl
               PROVE  \E id \in PendingBlocks' : Canon[actions'[id].ip] = a
    BY DEF NoOrphanBlock, RecordIntent
  <2>1. PICK id \in PendingBlocks : Canon[actions[id].ip] = a
    BY DEF NoOrphanBlock
  <2>2. id # count + 1
    BY <2>1 DEF PendingBlocks, Pending, RowsBelowCount, Ids, TypeOK
  <2>3. actions'[id] = actions[id]
    BY <2>1, <2>2 DEF RecordIntent, Insert, TypeOK, PendingBlocks
  <2> QED BY <2>1, <2>3 DEF PendingBlocks, Pending
<1> QED BY <1>1, <1>2, <1>3, <1>4, <1>5, <1>6, <1>7, <1>8

LEMMA RecordResponseStep ==
  ASSUME IInv, NEW w \in Workers, RecordResponse(w)  PROVE IInv'
<1> USE TaskAssumption, ParameterAssumption, Blank DEF IInv
<1>1. TypeOK'
  <2>1. w \in Tasks /\ job[w] \in Job
    BY DEF TypeOK, Tasks
  <2>2. count' \in 0..MaxActions /\ actions' \in [Ids -> Row]
    <3>1. CASE Rejected(job[w])
      BY <3>1 DEF TypeOK, RecordResponse
    <3>2. CASE ~Rejected(job[w])
      <4>1. PICK status \in Outcomes(job[w].kind) : Insert(job[w], status, TRUE)
        BY <3>2 DEF RecordResponse
      <4>2. status \in {"applying", "applied", "unapplied"}
        BY <4>1 DEF Outcomes
      <4> QED BY <2>1, <4>1, <4>2, InsertType
    <3> QED BY <3>1, <3>2
  <2> QED BY <2>1, <2>2, LeaveType DEF TypeOK, RecordResponse
<1>2. Mutex'
  BY CanonAssumption DEF TypeOK, LabelsOK, RecordResponse, stored, process, Insert, Leave, Goto, Outcomes, Enforced, Tasks, Mutex
<1>3. RowsBelowCount'
  <2>1. CASE Rejected(job[w])
    BY <2>1 DEF RecordResponse, RowsBelowCount
  <2>2. CASE ~Rejected(job[w])
    <3>1. PICK status \in Outcomes(job[w].kind) : Insert(job[w], status, TRUE)
      BY <2>2 DEF RecordResponse
    <3> QED BY <3>1 DEF RowsBelowCount, Insert, Ids, TypeOK
  <2> QED BY <2>1, <2>2
<1>4. IntentHeld'
  BY CanonAssumption DEF TypeOK, LabelsOK, RecordResponse, stored, process, Insert, Leave, Goto, Outcomes, Enforced, IntentHeld, PendingBlocks, Pending, Tasks, Mutex, Valid, BlockLabels, RowsBelowCount, Ids
<1>5. PassHeld'
  BY CanonAssumption DEF TypeOK, LabelsOK, RecordResponse, stored, process, Insert, Leave, Goto, Outcomes, Enforced, PassHeld, PendingBlocks, Pending, Tasks, Mutex, UndoLabels, RowsBelowCount, Ids, BlockLabels, IntentHeld
<1>6. RequestHeld'
  BY CanonAssumption DEF TypeOK, LabelsOK, RecordResponse, stored, process, Insert, Leave, Goto, Outcomes, Enforced, RequestHeld, PendingBlocks, Pending, Tasks, Mutex, RowsBelowCount, Ids
<1>7. LiftedFirst'
  BY CanonAssumption DEF TypeOK, LabelsOK, RecordResponse, stored, process, Insert, Leave, Goto, Outcomes, Enforced, LiftedFirst, Addr, Tasks, Mutex
<1>8. NoOrphanBlock'
  <2> SUFFICES ASSUME NEW a \in acl
               PROVE  \E id \in PendingBlocks' : Canon[actions'[id].ip] = a
    BY DEF NoOrphanBlock, RecordResponse
  <2>1. PICK id \in PendingBlocks : Canon[actions[id].ip] = a
    BY DEF NoOrphanBlock
  <2>2. id # count + 1
    BY <2>1 DEF PendingBlocks, Pending, RowsBelowCount, Ids, TypeOK
  <2>3. actions'[id] = actions[id]
    BY <2>1, <2>2 DEF RecordResponse, Insert, TypeOK, PendingBlocks
  <2> QED BY <2>1, <2>3 DEF PendingBlocks, Pending
<1> QED BY <1>1, <1>2, <1>3, <1>4, <1>5, <1>6, <1>7, <1>8

LEMMA BlockReadStep ==
  ASSUME IInv, NEW w \in Workers, BlockRead(w)  PROVE IInv'
<1> USE TaskAssumption, ParameterAssumption, Blank DEF IInv
<1>1. TypeOK'
  BY CanonAssumption DEF TypeOK, LabelsOK, BlockRead, stored, process, Goto, Tasks, Row, Job, Ids, Kinds, WorkerLabels, OperatorLabels, ExpiryLabels
<1>2. Mutex'
  BY CanonAssumption DEF TypeOK, LabelsOK, BlockRead, stored, process, Goto, Tasks, Mutex
<1>3. RowsBelowCount'
  BY CanonAssumption DEF TypeOK, LabelsOK, BlockRead, stored, process, Goto, RowsBelowCount, Ids
<1>4. IntentHeld'
  BY CanonAssumption DEF TypeOK, LabelsOK, BlockRead, stored, process, Goto, IntentHeld, PendingBlocks, Pending, Tasks, Mutex, Valid, BlockLabels, RowsBelowCount, Ids
<1>5. PassHeld'
  BY CanonAssumption DEF TypeOK, LabelsOK, BlockRead, stored, process, Goto, PassHeld, PendingBlocks, Pending, Tasks, Mutex, UndoLabels, RowsBelowCount, Ids, BlockLabels, IntentHeld
<1>6. RequestHeld'
  BY CanonAssumption DEF TypeOK, LabelsOK, BlockRead, stored, process, Goto, RequestHeld, PendingBlocks, Pending, Tasks, Mutex, RowsBelowCount, Ids
<1>7. LiftedFirst'
  BY CanonAssumption DEF TypeOK, LabelsOK, BlockRead, stored, process, Goto, LiftedFirst, Addr, Tasks, Mutex
<1>8. NoOrphanBlock'
  BY CanonAssumption DEF TypeOK, LabelsOK, BlockRead, stored, process, Goto, NoOrphanBlock, PendingBlocks, Pending, RowsBelowCount, Ids, LiftedFirst, Addr, Tasks, Mutex, IntentHeld, PassHeld, BlockLabels, UndoLabels
<1> QED BY <1>1, <1>2, <1>3, <1>4, <1>5, <1>6, <1>7, <1>8

LEMMA BlockAddStep ==
  ASSUME IInv, NEW w \in Workers, BlockAdd(w)  PROVE IInv'
<1> USE TaskAssumption, ParameterAssumption, Blank DEF IInv
<1>1. TypeOK'
  <2>1. w \in Tasks /\ Addr(w) \in Ips
    BY CanonAssumption DEF TypeOK, Tasks, BlockAdd, IntentHeld, BlockLabels, Valid, Addr, Job
  <2>2. LabelsOK'
    BY <2>1, GotoType DEF TypeOK, BlockAdd, WorkerLabels, Tasks
  <2> QED BY <2>1, <2>2 DEF TypeOK, BlockAdd, stored
<1>2. Mutex'
  BY CanonAssumption DEF TypeOK, LabelsOK, BlockAdd, stored, process, Goto, Tasks, Mutex
<1>3. RowsBelowCount'
  BY CanonAssumption DEF TypeOK, LabelsOK, BlockAdd, stored, process, Goto, RowsBelowCount, Ids
<1>4. IntentHeld'
  BY CanonAssumption DEF TypeOK, LabelsOK, BlockAdd, stored, process, Goto, IntentHeld, PendingBlocks, Pending, Tasks, Mutex, Valid, BlockLabels, RowsBelowCount, Ids
<1>5. PassHeld'
  BY CanonAssumption DEF TypeOK, LabelsOK, BlockAdd, stored, process, Goto, PassHeld, PendingBlocks, Pending, Tasks, Mutex, UndoLabels, RowsBelowCount, Ids, BlockLabels, IntentHeld
<1>6. RequestHeld'
  BY CanonAssumption DEF TypeOK, LabelsOK, BlockAdd, stored, process, Goto, RequestHeld, PendingBlocks, Pending, Tasks, Mutex, RowsBelowCount, Ids
<1>7. LiftedFirst'
  BY CanonAssumption DEF TypeOK, LabelsOK, BlockAdd, stored, process, Goto, LiftedFirst, Addr, Tasks, Mutex
<1>8. NoOrphanBlock'
  <2>1. job[w].id \in PendingBlocks /\ Canon[actions[job[w].id].ip] = Addr(w)
    BY DEF BlockAdd, IntentHeld, BlockLabels, Addr
  <2>2. PendingBlocks' = PendingBlocks /\ actions' = actions
    BY DEF BlockAdd, stored, PendingBlocks, Pending
  <2> QED BY <2>1, <2>2 DEF NoOrphanBlock, BlockAdd
<1> QED BY <1>1, <1>2, <1>3, <1>4, <1>5, <1>6, <1>7, <1>8

LEMMA BlockConfirmStep ==
  ASSUME IInv, NEW w \in Workers, BlockConfirm(w)  PROVE IInv'
<1> USE TaskAssumption, ParameterAssumption, Blank DEF IInv
<1>1. TypeOK'
  <2>1. w \in Tasks /\ job[w].id \in Ids
    BY DEF TypeOK, Tasks, BlockConfirm, IntentHeld, BlockLabels, PendingBlocks
  <2>2. actions' \in [Ids -> Row]
    BY <2>1, FinishType DEF BlockConfirm, TypeOK
  <2> QED BY <2>1, <2>2, LeaveType DEF TypeOK, BlockConfirm
<1>2. Mutex'
  BY CanonAssumption DEF TypeOK, LabelsOK, BlockConfirm, stored, process, Finish, Leave, Goto, Tasks, Mutex
<1>3. RowsBelowCount'
  <2>1. job[w].id \in PendingBlocks
    BY DEF BlockConfirm, IntentHeld, BlockLabels
  <2>2. \A id \in Ids : id > count => id # job[w].id
    BY <2>1 DEF RowsBelowCount, PendingBlocks, Pending
  <2> QED BY <2>1, <2>2 DEF BlockConfirm, RowsBelowCount, Finish, TypeOK, PendingBlocks
<1>4. IntentHeld'
  <2> SUFFICES ASSUME NEW v \in Workers, pc'[v] \in BlockLabels
               PROVE  FALSE
    BY DEF IntentHeld
  <2>1. lock = w /\ v \in Tasks /\ w \in Tasks
    BY DEF Mutex, BlockConfirm, Tasks
  <2> QED BY <2>1 DEF BlockConfirm, Leave, Goto, Mutex, BlockLabels, TypeOK, LabelsOK
<1>5. PassHeld'
  <2>1. pc[Expiry] = "idle"
    BY DEF BlockConfirm, Mutex, TypeOK, LabelsOK, ExpiryLabels, Tasks
  <2>2. pc'[Expiry] = "idle"
    BY <2>1 DEF BlockConfirm, Leave, Goto, TypeOK, LabelsOK
  <2> QED BY <2>2 DEF PassHeld, UndoLabels
<1>6. RequestHeld'
  BY CanonAssumption DEF TypeOK, LabelsOK, BlockConfirm, stored, process, Finish, Leave, Goto, RequestHeld, PendingBlocks, Pending, Tasks, Mutex, RowsBelowCount, Ids
<1>7. LiftedFirst'
  BY CanonAssumption DEF TypeOK, LabelsOK, BlockConfirm, stored, process, Finish, Leave, Goto, LiftedFirst, Addr, Tasks, Mutex
<1>8. NoOrphanBlock'
  <2>1. job[w].id \in PendingBlocks
    BY DEF BlockConfirm, IntentHeld, BlockLabels
  <2>2. \A id \in Ids : /\ actions'[id].ip = actions[id].ip
                       /\ actions'[id].kind = actions[id].kind
                       /\ actions'[id].state \in {actions[id].state, "applied"}
    BY <2>1 DEF BlockConfirm, Finish, TypeOK, PendingBlocks, Row
  <2>3. \A id \in PendingBlocks : id \in PendingBlocks'
    BY <2>2 DEF PendingBlocks, Pending
  <2> QED BY <2>2, <2>3 DEF NoOrphanBlock, BlockConfirm, PendingBlocks
<1> QED BY <1>1, <1>2, <1>3, <1>4, <1>5, <1>6, <1>7, <1>8

LEMMA UnblockBeginStep ==
  ASSUME IInv, NEW o \in Operators, UnblockBegin(o)  PROVE IInv'
<1> USE TaskAssumption, ParameterAssumption, Blank DEF IInv
<1>1. TypeOK'
  <2>1. o \in Tasks /\ o # Expiry /\ o \notin Workers
    BY DEF Tasks
  <2>2. LabelsOK'
    BY <2>1, GotoType DEF TypeOK, UnblockBegin, OperatorLabels
  <2>3. job' \in [Tasks -> Job]
    BY <2>1, CanonAssumption DEF TypeOK, UnblockBegin, Job, Valid, PendingBlocks, Row
  <2> QED BY <2>1, <2>2, <2>3 DEF TypeOK, UnblockBegin, stored
<1>2. Mutex'
  BY CanonAssumption DEF TypeOK, LabelsOK, UnblockBegin, stored, process, Goto, Tasks, Mutex
<1>3. RowsBelowCount'
  BY CanonAssumption DEF TypeOK, LabelsOK, UnblockBegin, stored, process, Goto, RowsBelowCount, Ids
<1>4. IntentHeld'
  BY CanonAssumption DEF TypeOK, LabelsOK, UnblockBegin, stored, process, Goto, IntentHeld, PendingBlocks, Pending, Tasks, Mutex, Valid, BlockLabels, RowsBelowCount, Ids
<1>5. PassHeld'
  BY CanonAssumption DEF TypeOK, LabelsOK, UnblockBegin, stored, process, Goto, PassHeld, PendingBlocks, Pending, Tasks, Mutex, UndoLabels, RowsBelowCount, Ids, BlockLabels, IntentHeld
<1>6. RequestHeld'
  BY CanonAssumption DEF TypeOK, LabelsOK, UnblockBegin, stored, process, Goto, RequestHeld, PendingBlocks, Pending, Tasks, Mutex, RowsBelowCount, Ids
<1>7. LiftedFirst'
  BY CanonAssumption DEF TypeOK, LabelsOK, UnblockBegin, stored, process, Goto, LiftedFirst, Addr, Tasks, Mutex
<1>8. NoOrphanBlock'
  BY CanonAssumption DEF TypeOK, LabelsOK, UnblockBegin, stored, process, Goto, NoOrphanBlock, PendingBlocks, Pending, RowsBelowCount, Ids, LiftedFirst, Addr, Tasks, Mutex, IntentHeld, PassHeld, BlockLabels, UndoLabels
<1> QED BY <1>1, <1>2, <1>3, <1>4, <1>5, <1>6, <1>7, <1>8

LEMMA RevokeBeginStep ==
  ASSUME IInv, NEW o \in Operators, RevokeBegin(o)  PROVE IInv'
<1> USE TaskAssumption, ParameterAssumption, Blank DEF IInv
<1>1. TypeOK'
  <2>1. o \in Tasks /\ o # Expiry /\ o \notin Workers
    BY DEF Tasks
  <2>2. LabelsOK'
    BY <2>1, GotoType DEF TypeOK, RevokeBegin, OperatorLabels
  <2>3. job' \in [Tasks -> Job]
    BY <2>1, CanonAssumption DEF TypeOK, RevokeBegin, Job, Valid, PendingBlocks, Row
  <2> QED BY <2>1, <2>2, <2>3 DEF TypeOK, RevokeBegin, stored
<1>2. Mutex'
  BY CanonAssumption DEF TypeOK, LabelsOK, RevokeBegin, stored, process, Goto, Tasks, Mutex
<1>3. RowsBelowCount'
  BY CanonAssumption DEF TypeOK, LabelsOK, RevokeBegin, stored, process, Goto, RowsBelowCount, Ids
<1>4. IntentHeld'
  BY CanonAssumption DEF TypeOK, LabelsOK, RevokeBegin, stored, process, Goto, IntentHeld, PendingBlocks, Pending, Tasks, Mutex, Valid, BlockLabels, RowsBelowCount, Ids
<1>5. PassHeld'
  BY CanonAssumption DEF TypeOK, LabelsOK, RevokeBegin, stored, process, Goto, PassHeld, PendingBlocks, Pending, Tasks, Mutex, UndoLabels, RowsBelowCount, Ids, BlockLabels, IntentHeld
<1>6. RequestHeld'
  BY CanonAssumption DEF TypeOK, LabelsOK, RevokeBegin, stored, process, Goto, RequestHeld, PendingBlocks, Pending, Tasks, Mutex, RowsBelowCount, Ids
<1>7. LiftedFirst'
  BY CanonAssumption DEF TypeOK, LabelsOK, RevokeBegin, stored, process, Goto, LiftedFirst, Addr, Tasks, Mutex
<1>8. NoOrphanBlock'
  BY CanonAssumption DEF TypeOK, LabelsOK, RevokeBegin, stored, process, Goto, NoOrphanBlock, PendingBlocks, Pending, RowsBelowCount, Ids, LiftedFirst, Addr, Tasks, Mutex, IntentHeld, PassHeld, BlockLabels, UndoLabels
<1> QED BY <1>1, <1>2, <1>3, <1>4, <1>5, <1>6, <1>7, <1>8

LEMMA RevokeRecordStep ==
  ASSUME IInv, NEW o \in Operators, RevokeRecord(o)  PROVE IInv'
<1> USE TaskAssumption, ParameterAssumption, Blank DEF IInv
<1>1. TypeOK'
  <2>1. PICK id \in Ids : Finish(id, "revoked")
    BY DEF RevokeRecord
  <2>2. actions' \in [Ids -> Row]
    BY <2>1, FinishType
  <2> QED BY <2>2 DEF TypeOK, LabelsOK, RevokeRecord, process
<1>2. Mutex'
  BY CanonAssumption DEF TypeOK, LabelsOK, RevokeRecord, stored, process, Finish, Tasks, Mutex
<1>3. RowsBelowCount'
  BY CanonAssumption DEF TypeOK, LabelsOK, RevokeRecord, stored, process, Finish, RowsBelowCount, Ids
<1>4. IntentHeld'
  BY CanonAssumption DEF TypeOK, LabelsOK, RevokeRecord, stored, process, Finish, IntentHeld, PendingBlocks, Pending, Tasks, Mutex, Valid, BlockLabels, RowsBelowCount, Ids
<1>5. PassHeld'
  BY CanonAssumption DEF TypeOK, LabelsOK, RevokeRecord, stored, process, Finish, PassHeld, PendingBlocks, Pending, Tasks, Mutex, UndoLabels, RowsBelowCount, Ids, BlockLabels, IntentHeld
<1>6. RequestHeld'
  BY CanonAssumption DEF TypeOK, LabelsOK, RevokeRecord, stored, process, Finish, RequestHeld, PendingBlocks, Pending, Tasks, Mutex, RowsBelowCount, Ids
<1>7. LiftedFirst'
  BY CanonAssumption DEF TypeOK, LabelsOK, RevokeRecord, stored, process, Finish, LiftedFirst, Addr, Tasks, Mutex
<1>8. NoOrphanBlock'
  BY CanonAssumption DEF TypeOK, LabelsOK, RevokeRecord, stored, process, Finish, NoOrphanBlock, PendingBlocks, Pending, RowsBelowCount, Ids, LiftedFirst, Addr, Tasks, Mutex, IntentHeld, PassHeld, BlockLabels, UndoLabels
<1> QED BY <1>1, <1>2, <1>3, <1>4, <1>5, <1>6, <1>7, <1>8

LEMMA CloseRelatedStep ==
  ASSUME IInv, NEW o \in Operators, CloseRelated(o)  PROVE IInv'
<1> USE TaskAssumption, ParameterAssumption, Blank DEF IInv
<1>1. TypeOK'
  <2>1. o \in Tasks
    BY DEF Tasks
  <2>2. CASE todo = {} /\ Leave(o) /\ UNCHANGED actions
    BY <2>1, <2>2, LeaveType DEF TypeOK, CloseRelated
  <2>3. CASE \E id \in todo : /\ First(id) /\ Finish(id, "revoked")
                             /\ todo' = todo \ {id} /\ UNCHANGED <<lock, pc, job>>
    BY <2>3, FinishType DEF TypeOK, LabelsOK, CloseRelated
  <2> QED BY <2>2, <2>3 DEF CloseRelated
<1>2. Mutex'
  BY CanonAssumption DEF TypeOK, LabelsOK, CloseRelated, stored, process, Finish, Leave, Goto, First, Tasks, Mutex
<1>3. RowsBelowCount'
  <2>1. CASE UNCHANGED actions
    BY <2>1 DEF RowsBelowCount, CloseRelated
  <2>2. CASE \E id \in todo : Finish(id, "revoked")
    <3>1. PICK id \in todo : Finish(id, "revoked")
      BY <2>2
    <3>2. id \in PendingBlocks
      BY <3>1 DEF RequestHeld, CloseRelated
    <3> QED BY <3>1, <3>2 DEF RowsBelowCount, CloseRelated, Finish, PendingBlocks, Pending, TypeOK
  <2> QED BY <2>1, <2>2 DEF CloseRelated
<1>4. IntentHeld'
  <2> SUFFICES ASSUME NEW v \in Workers, pc'[v] \in BlockLabels
               PROVE  FALSE
    BY DEF IntentHeld
  <2>1. lock = o /\ v \in Tasks /\ o \in Tasks /\ v # o
    BY DEF Mutex, CloseRelated, Tasks
  <2> QED BY <2>1 DEF CloseRelated, Leave, Goto, Mutex, BlockLabels, TypeOK, LabelsOK
<1>5. PassHeld'
  <2>1. pc[Expiry] = "idle"
    BY DEF CloseRelated, Mutex, TypeOK, LabelsOK, ExpiryLabels, Tasks
  <2>2. pc' = pc \/ pc' = [pc EXCEPT ![o] = "idle"]
    BY DEF CloseRelated, Leave, Goto
  <2>3. pc'[Expiry] = "idle"
    BY <2>1, <2>2 DEF TypeOK, LabelsOK, Tasks
  <2> QED BY <2>3 DEF PassHeld, UndoLabels
<1>6. RequestHeld'
  <2>1. \A q \in Operators \ {o} : pc[q] # "closing" /\ pc'[q] = pc[q]
    BY DEF CloseRelated, Leave, Goto, Mutex, TypeOK, LabelsOK, Tasks
  <2>2. CASE Leave(o)
    BY <2>1, <2>2 DEF RequestHeld, Leave
  <2>3. ASSUME NEW id \in todo, Finish(id, "revoked"), todo' = todo \ {id}, UNCHANGED job
        PROVE  RequestHeld'
    <3>1. \A other \in Ids : other # id => actions'[other] = actions[other]
      BY <2>3 DEF Finish, TypeOK
    <3>2. \A other \in todo' : other \in PendingBlocks' /\ actions'[other].ip = job'[o].ip
      BY <2>3, <3>1 DEF RequestHeld, CloseRelated, PendingBlocks, Pending, TypeOK
    <3> QED BY <2>1, <3>2 DEF RequestHeld
  <2> QED BY <2>2, <2>3 DEF CloseRelated
<1>7. LiftedFirst'
  BY CanonAssumption DEF TypeOK, LabelsOK, CloseRelated, stored, process, Finish, Leave, Goto, First, LiftedFirst, Addr, Tasks, Mutex
<1>8. NoOrphanBlock'
  <2>1. CASE UNCHANGED actions
    BY <2>1 DEF NoOrphanBlock, CloseRelated, PendingBlocks, Pending
  <2>2. CASE \E id \in todo : Finish(id, "revoked")
    <3>1. PICK id \in todo : Finish(id, "revoked")
      BY <2>2
    <3>2. Canon[actions[id].ip] \notin acl
      BY <3>1 DEF RequestHeld, LiftedFirst, CloseRelated, Addr
    <3>3. \A other \in Ids : other # id => actions'[other] = actions[other]
      BY <3>1 DEF Finish, TypeOK
    <3> QED BY <3>2, <3>3 DEF NoOrphanBlock, CloseRelated, PendingBlocks, Pending
  <2> QED BY <2>1, <2>2 DEF CloseRelated
<1> QED BY <1>1, <1>2, <1>3, <1>4, <1>5, <1>6, <1>7, <1>8

LEMMA UndoDelStep ==
  ASSUME IInv, NEW t \in Operators \cup {Expiry}, UndoDel(t)  PROVE IInv'
<1> USE TaskAssumption, ParameterAssumption, Blank DEF IInv
<1>1. TypeOK'
  BY CanonAssumption DEF TypeOK, LabelsOK, UndoDel, stored, process, Goto, Tasks, Row, Job, Ids, Kinds, WorkerLabels, OperatorLabels, ExpiryLabels
<1>2. Mutex'
  BY CanonAssumption DEF TypeOK, LabelsOK, UndoDel, stored, process, Goto, Tasks, Mutex
<1>3. RowsBelowCount'
  BY CanonAssumption DEF TypeOK, LabelsOK, UndoDel, stored, process, Goto, RowsBelowCount, Ids
<1>4. IntentHeld'
  BY CanonAssumption DEF TypeOK, LabelsOK, UndoDel, stored, process, Goto, IntentHeld, PendingBlocks, Pending, Tasks, Mutex, Valid, BlockLabels, RowsBelowCount, Ids
<1>5. PassHeld'
  BY CanonAssumption DEF TypeOK, LabelsOK, UndoDel, stored, process, Goto, PassHeld, PendingBlocks, Pending, Tasks, Mutex, UndoLabels, RowsBelowCount, Ids, BlockLabels, IntentHeld
<1>6. RequestHeld'
  BY CanonAssumption DEF TypeOK, LabelsOK, UndoDel, stored, process, Goto, RequestHeld, PendingBlocks, Pending, Tasks, Mutex, RowsBelowCount, Ids
<1>7. LiftedFirst'
  BY CanonAssumption DEF TypeOK, LabelsOK, UndoDel, stored, process, Goto, LiftedFirst, Addr, Tasks, Mutex
<1>8. NoOrphanBlock'
  BY CanonAssumption DEF TypeOK, LabelsOK, UndoDel, stored, process, Goto, NoOrphanBlock, PendingBlocks, Pending, RowsBelowCount, Ids, LiftedFirst, Addr, Tasks, Mutex, IntentHeld, PassHeld, BlockLabels, UndoLabels
<1> QED BY <1>1, <1>2, <1>3, <1>4, <1>5, <1>6, <1>7, <1>8

LEMMA UndoRefusedStep ==
  ASSUME IInv, NEW t \in Operators \cup {Expiry}, UndoRefused(t)  PROVE IInv'
<1> USE TaskAssumption, ParameterAssumption, Blank DEF IInv
<1>1. TypeOK'
  BY GiveUpType DEF TypeOK, UndoRefused, stored, Tasks
<1>2. Mutex'
  BY CanonAssumption DEF TypeOK, LabelsOK, UndoRefused, stored, process, GiveUp, Leave, Goto, Tasks, Mutex
<1>3. RowsBelowCount'
  BY CanonAssumption DEF TypeOK, LabelsOK, UndoRefused, stored, process, GiveUp, Leave, Goto, RowsBelowCount, Ids
<1>4. IntentHeld'
  BY CanonAssumption DEF TypeOK, LabelsOK, UndoRefused, stored, process, GiveUp, Leave, Goto, IntentHeld, PendingBlocks, Pending, Tasks, Mutex, Valid, BlockLabels, RowsBelowCount, Ids
<1>5. PassHeld'
  BY CanonAssumption DEF TypeOK, LabelsOK, UndoRefused, stored, process, GiveUp, Leave, Goto, PassHeld, PendingBlocks, Pending, Tasks, Mutex, UndoLabels, RowsBelowCount, Ids, BlockLabels, IntentHeld
<1>6. RequestHeld'
  BY CanonAssumption DEF TypeOK, LabelsOK, UndoRefused, stored, process, GiveUp, Leave, Goto, RequestHeld, PendingBlocks, Pending, Tasks, Mutex, RowsBelowCount, Ids
<1>7. LiftedFirst'
  BY CanonAssumption DEF TypeOK, LabelsOK, UndoRefused, stored, process, GiveUp, Leave, Goto, LiftedFirst, Addr, Tasks, Mutex
<1>8. NoOrphanBlock'
  BY CanonAssumption DEF TypeOK, LabelsOK, UndoRefused, stored, process, GiveUp, Leave, Goto, NoOrphanBlock, PendingBlocks, Pending, RowsBelowCount, Ids, LiftedFirst, Addr, Tasks, Mutex, IntentHeld, PassHeld, BlockLabels, UndoLabels
<1> QED BY <1>1, <1>2, <1>3, <1>4, <1>5, <1>6, <1>7, <1>8

LEMMA UndoReadStep ==
  ASSUME IInv, NEW t \in Operators \cup {Expiry}, UndoRead(t)  PROVE IInv'
<1> USE TaskAssumption, ParameterAssumption, Blank DEF IInv
<1>1. TypeOK'
  <2>1. t \in Tasks
    BY DEF Tasks
  <2>2. CASE Addr(t) \in acl
    BY <2>1, <2>2, GiveUpType DEF TypeOK, UndoRead, stored
  <2>3. CASE Addr(t) \notin acl
    <3>1. LabelsOK'
      BY <2>1, <2>3, GotoType DEF TypeOK, UndoRead, OperatorLabels, ExpiryLabels
    <3> QED BY <2>3, <3>1 DEF TypeOK, UndoRead, stored, Related, PendingBlocks
  <2> QED BY <2>2, <2>3
<1>2. Mutex'
  BY CanonAssumption DEF TypeOK, LabelsOK, UndoRead, stored, process, GiveUp, Leave, Goto, Related, Tasks, Mutex
<1>3. RowsBelowCount'
  BY CanonAssumption DEF TypeOK, LabelsOK, UndoRead, stored, process, GiveUp, Leave, Goto, Related, RowsBelowCount, Ids
<1>4. IntentHeld'
  BY CanonAssumption DEF TypeOK, LabelsOK, UndoRead, stored, process, GiveUp, Leave, Goto, Related, IntentHeld, PendingBlocks, Pending, Tasks, Mutex, Valid, BlockLabels, RowsBelowCount, Ids
<1>5. PassHeld'
  BY CanonAssumption DEF TypeOK, LabelsOK, UndoRead, stored, process, GiveUp, Leave, Goto, Related, PassHeld, PendingBlocks, Pending, Tasks, Mutex, UndoLabels, RowsBelowCount, Ids, BlockLabels, IntentHeld
<1>6. RequestHeld'
  BY CanonAssumption DEF TypeOK, LabelsOK, UndoRead, stored, process, GiveUp, Leave, Goto, Related, RequestHeld, PendingBlocks, Pending, Tasks, Mutex, RowsBelowCount, Ids
<1>7. LiftedFirst'
  BY CanonAssumption DEF TypeOK, LabelsOK, UndoRead, stored, process, GiveUp, Leave, Goto, Related, LiftedFirst, Addr, Tasks, Mutex
<1>8. NoOrphanBlock'
  BY CanonAssumption DEF TypeOK, LabelsOK, UndoRead, stored, process, GiveUp, Leave, Goto, Related, NoOrphanBlock, PendingBlocks, Pending, RowsBelowCount, Ids, LiftedFirst, Addr, Tasks, Mutex, IntentHeld, PassHeld, BlockLabels, UndoLabels
<1> QED BY <1>1, <1>2, <1>3, <1>4, <1>5, <1>6, <1>7, <1>8

LEMMA ReconcileBeginStep ==
  ASSUME IInv, ReconcileBegin  PROVE IInv'
<1> USE TaskAssumption, ParameterAssumption, Blank DEF IInv
<1>1. TypeOK'
  <2>1. LabelsOK'
    BY GotoType DEF TypeOK, ReconcileBegin, ExpiryLabels, Tasks
  <2> QED BY <2>1 DEF TypeOK, ReconcileBegin, stored, Due, PendingBlocks, Tasks
<1>2. Mutex'
  BY CanonAssumption DEF TypeOK, LabelsOK, ReconcileBegin, stored, process, Goto, Due, Tasks, Mutex
<1>3. RowsBelowCount'
  BY CanonAssumption DEF TypeOK, LabelsOK, ReconcileBegin, stored, process, Goto, Due, RowsBelowCount, Ids
<1>4. IntentHeld'
  BY CanonAssumption DEF TypeOK, LabelsOK, ReconcileBegin, stored, process, Goto, Due, IntentHeld, PendingBlocks, Pending, Tasks, Mutex, Valid, BlockLabels, RowsBelowCount, Ids
<1>5. PassHeld'
  BY CanonAssumption DEF TypeOK, LabelsOK, ReconcileBegin, stored, process, Goto, Due, PassHeld, PendingBlocks, Pending, Tasks, Mutex, UndoLabels, RowsBelowCount, Ids, BlockLabels, IntentHeld
<1>6. RequestHeld'
  BY CanonAssumption DEF TypeOK, LabelsOK, ReconcileBegin, stored, process, Goto, Due, RequestHeld, PendingBlocks, Pending, Tasks, Mutex, RowsBelowCount, Ids
<1>7. LiftedFirst'
  BY CanonAssumption DEF TypeOK, LabelsOK, ReconcileBegin, stored, process, Goto, Due, LiftedFirst, Addr, Tasks, Mutex
<1>8. NoOrphanBlock'
  BY CanonAssumption DEF TypeOK, LabelsOK, ReconcileBegin, stored, process, Goto, Due, NoOrphanBlock, PendingBlocks, Pending, RowsBelowCount, Ids, LiftedFirst, Addr, Tasks, Mutex, IntentHeld, PassHeld, BlockLabels, UndoLabels
<1> QED BY <1>1, <1>2, <1>3, <1>4, <1>5, <1>6, <1>7, <1>8

LEMMA ReconcileNextStep ==
  ASSUME IInv, ReconcileNext  PROVE IInv'
<1> USE TaskAssumption, ParameterAssumption, Blank DEF IInv
<1>1. TypeOK'
  <2>1. PICK id \in todo :
          IF settings.enabled /\ Valid(actions[id].ip)
            THEN /\ job' = [job EXCEPT ![Expiry].id = id, ![Expiry].ip = actions[id].ip]
                 /\ Goto(Expiry, "undoDel")
                 /\ UNCHANGED todo
            ELSE todo' = todo \ {id} /\ UNCHANGED <<job, pc>>
    BY DEF ReconcileNext
  <2>2. id \in Ids /\ actions[id].ip \in Ips /\ Expiry \in Tasks
    BY DEF TypeOK, Row, Tasks
  <2>3. CASE settings.enabled /\ Valid(actions[id].ip)
    <3>1. LabelsOK'
      BY <2>1, <2>2, <2>3, GotoType DEF TypeOK, ExpiryLabels
    <3>2. job' \in [Tasks -> Job]
      BY <2>1, <2>2, <2>3 DEF TypeOK, Job
    <3> QED BY <2>1, <2>3, <3>1, <3>2 DEF TypeOK, ReconcileNext, stored
  <2>4. CASE ~(settings.enabled /\ Valid(actions[id].ip))
    BY <2>1, <2>4 DEF TypeOK, LabelsOK, ReconcileNext, stored
  <2> QED BY <2>3, <2>4
<1>2. Mutex'
  BY CanonAssumption DEF TypeOK, LabelsOK, ReconcileNext, stored, process, Goto, First, Tasks, Mutex
<1>3. RowsBelowCount'
  BY CanonAssumption DEF TypeOK, LabelsOK, ReconcileNext, stored, process, Goto, First, RowsBelowCount, Ids
<1>4. IntentHeld'
  BY CanonAssumption DEF TypeOK, LabelsOK, ReconcileNext, stored, process, Goto, First, IntentHeld, PendingBlocks, Pending, Tasks, Mutex, Valid, BlockLabels, RowsBelowCount, Ids
<1>5. PassHeld'
  <2>1. PICK id \in todo :
          IF settings.enabled /\ Valid(actions[id].ip)
            THEN /\ job' = [job EXCEPT ![Expiry].id = id, ![Expiry].ip = actions[id].ip]
                 /\ Goto(Expiry, "undoDel")
                 /\ UNCHANGED todo
            ELSE todo' = todo \ {id} /\ UNCHANGED <<job, pc>>
    BY DEF ReconcileNext
  <2>2. todo \subseteq PendingBlocks /\ PendingBlocks' = PendingBlocks /\ actions' = actions
    BY DEF ReconcileNext, PassHeld, stored, PendingBlocks, Pending
  <2>3. CASE settings.enabled /\ Valid(actions[id].ip)
    <3>1. job'[Expiry].id = id /\ job'[Expiry].ip = actions[id].ip
      BY <2>1, <2>3 DEF TypeOK, Job, Tasks
    <3>2. pc'[Expiry] = "undoDel" /\ todo' = todo
      BY <2>1, <2>3 DEF TypeOK, LabelsOK, Goto, Tasks
    <3> QED BY <2>1, <2>2, <3>1, <3>2 DEF PassHeld, PendingBlocks
  <2>4. CASE ~(settings.enabled /\ Valid(actions[id].ip))
    BY <2>1, <2>2, <2>4 DEF PassHeld, ReconcileNext, UndoLabels
  <2> QED BY <2>3, <2>4
<1>6. RequestHeld'
  BY CanonAssumption DEF TypeOK, LabelsOK, ReconcileNext, stored, process, Goto, First, RequestHeld, PendingBlocks, Pending, Tasks, Mutex, RowsBelowCount, Ids
<1>7. LiftedFirst'
  BY CanonAssumption DEF TypeOK, LabelsOK, ReconcileNext, stored, process, Goto, First, LiftedFirst, Addr, Tasks, Mutex
<1>8. NoOrphanBlock'
  BY CanonAssumption DEF TypeOK, LabelsOK, ReconcileNext, stored, process, Goto, First, NoOrphanBlock, PendingBlocks, Pending, RowsBelowCount, Ids, LiftedFirst, Addr, Tasks, Mutex, IntentHeld, PassHeld, BlockLabels, UndoLabels
<1> QED BY <1>1, <1>2, <1>3, <1>4, <1>5, <1>6, <1>7, <1>8

LEMMA ReconcileEndStep ==
  ASSUME IInv, ReconcileEnd  PROVE IInv'
<1> USE TaskAssumption, ParameterAssumption, Blank DEF IInv
<1>1. TypeOK'
  BY CanonAssumption DEF TypeOK, LabelsOK, ReconcileEnd, stored, process, Leave, Goto, Tasks, Row, Job, Ids, Kinds, WorkerLabels, OperatorLabels, ExpiryLabels
<1>2. Mutex'
  BY CanonAssumption DEF TypeOK, LabelsOK, ReconcileEnd, stored, process, Leave, Goto, Tasks, Mutex
<1>3. RowsBelowCount'
  BY CanonAssumption DEF TypeOK, LabelsOK, ReconcileEnd, stored, process, Leave, Goto, RowsBelowCount, Ids
<1>4. IntentHeld'
  BY CanonAssumption DEF TypeOK, LabelsOK, ReconcileEnd, stored, process, Leave, Goto, IntentHeld, PendingBlocks, Pending, Tasks, Mutex, Valid, BlockLabels, RowsBelowCount, Ids
<1>5. PassHeld'
  BY CanonAssumption DEF TypeOK, LabelsOK, ReconcileEnd, stored, process, Leave, Goto, PassHeld, PendingBlocks, Pending, Tasks, Mutex, UndoLabels, RowsBelowCount, Ids, BlockLabels, IntentHeld
<1>6. RequestHeld'
  BY CanonAssumption DEF TypeOK, LabelsOK, ReconcileEnd, stored, process, Leave, Goto, RequestHeld, PendingBlocks, Pending, Tasks, Mutex, RowsBelowCount, Ids
<1>7. LiftedFirst'
  BY CanonAssumption DEF TypeOK, LabelsOK, ReconcileEnd, stored, process, Leave, Goto, LiftedFirst, Addr, Tasks, Mutex
<1>8. NoOrphanBlock'
  BY CanonAssumption DEF TypeOK, LabelsOK, ReconcileEnd, stored, process, Leave, Goto, NoOrphanBlock, PendingBlocks, Pending, RowsBelowCount, Ids, LiftedFirst, Addr, Tasks, Mutex, IntentHeld, PassHeld, BlockLabels, UndoLabels
<1> QED BY <1>1, <1>2, <1>3, <1>4, <1>5, <1>6, <1>7, <1>8

LEMMA CloseExpiredStep ==
  ASSUME IInv, CloseExpired  PROVE IInv'
<1> USE TaskAssumption, ParameterAssumption, Blank DEF IInv
<1>1. TypeOK'
  <2>1. job[Expiry].id \in Ids
    BY DEF CloseExpired, PassHeld, UndoLabels
  <2>2. LabelsOK'
    BY GotoType DEF TypeOK, CloseExpired, ExpiryLabels, Tasks
  <2> QED BY <2>1, <2>2, FinishType DEF TypeOK, CloseExpired
<1>2. Mutex'
  BY CanonAssumption DEF TypeOK, LabelsOK, CloseExpired, stored, process, Finish, Goto, Tasks, Mutex
<1>3. RowsBelowCount'
  <2>1. job[Expiry].id \in PendingBlocks
    BY DEF CloseExpired, PassHeld, UndoLabels
  <2> QED BY <2>1 DEF RowsBelowCount, CloseExpired, Finish, PendingBlocks, Pending, TypeOK
<1>4. IntentHeld'
  BY CanonAssumption DEF TypeOK, LabelsOK, CloseExpired, stored, process, Finish, Goto, IntentHeld, PendingBlocks, Pending, Tasks, Mutex, Valid, BlockLabels, RowsBelowCount, Ids
<1>5. PassHeld'
  BY CanonAssumption DEF TypeOK, LabelsOK, CloseExpired, stored, process, Finish, Goto, PassHeld, PendingBlocks, Pending, Tasks, Mutex, UndoLabels, RowsBelowCount, Ids, BlockLabels, IntentHeld
<1>6. RequestHeld'
  BY CanonAssumption DEF TypeOK, LabelsOK, CloseExpired, stored, process, Finish, Goto, RequestHeld, PendingBlocks, Pending, Tasks, Mutex, RowsBelowCount, Ids
<1>7. LiftedFirst'
  BY CanonAssumption DEF TypeOK, LabelsOK, CloseExpired, stored, process, Finish, Goto, LiftedFirst, Addr, Tasks, Mutex
<1>8. NoOrphanBlock'
  BY CanonAssumption DEF TypeOK, LabelsOK, CloseExpired, stored, process, Finish, Goto, NoOrphanBlock, PendingBlocks, Pending, RowsBelowCount, Ids, LiftedFirst, Addr, Tasks, Mutex, IntentHeld, PassHeld, BlockLabels, UndoLabels
<1> QED BY <1>1, <1>2, <1>3, <1>4, <1>5, <1>6, <1>7, <1>8

LEMMA AuditExpiredStep ==
  ASSUME IInv, AuditExpired  PROVE IInv'
<1> USE TaskAssumption, ParameterAssumption, Blank DEF IInv
<1>1. TypeOK'
  <2>1. LabelsOK'
    BY GotoType DEF TypeOK, AuditExpired, ExpiryLabels, Tasks
  <2>2. job[Expiry].id \in Ids
    BY DEF AuditExpired, PassHeld
  <2> QED BY <2>1, <2>2 DEF TypeOK, AuditExpired
<1>2. Mutex'
  BY CanonAssumption DEF TypeOK, LabelsOK, AuditExpired, stored, process, Goto, Tasks, Mutex
<1>3. RowsBelowCount'
  BY CanonAssumption DEF TypeOK, LabelsOK, AuditExpired, stored, process, Goto, RowsBelowCount, Ids
<1>4. IntentHeld'
  BY CanonAssumption DEF TypeOK, LabelsOK, AuditExpired, stored, process, Goto, IntentHeld, PendingBlocks, Pending, Tasks, Mutex, Valid, BlockLabels, RowsBelowCount, Ids
<1>5. PassHeld'
  BY CanonAssumption DEF TypeOK, LabelsOK, AuditExpired, stored, process, Goto, PassHeld, PendingBlocks, Pending, Tasks, Mutex, UndoLabels, RowsBelowCount, Ids, BlockLabels, IntentHeld
<1>6. RequestHeld'
  BY CanonAssumption DEF TypeOK, LabelsOK, AuditExpired, stored, process, Goto, RequestHeld, PendingBlocks, Pending, Tasks, Mutex, RowsBelowCount, Ids
<1>7. LiftedFirst'
  BY CanonAssumption DEF TypeOK, LabelsOK, AuditExpired, stored, process, Goto, LiftedFirst, Addr, Tasks, Mutex
<1>8. NoOrphanBlock'
  BY CanonAssumption DEF TypeOK, LabelsOK, AuditExpired, stored, process, Goto, NoOrphanBlock, PendingBlocks, Pending, RowsBelowCount, Ids, LiftedFirst, Addr, Tasks, Mutex, IntentHeld, PassHeld, BlockLabels, UndoLabels
<1> QED BY <1>1, <1>2, <1>3, <1>4, <1>5, <1>6, <1>7, <1>8

LEMMA CommandFailsStep ==
  ASSUME IInv, NEW t \in Tasks, CommandFails(t)  PROVE IInv'
<1> USE TaskAssumption, ParameterAssumption, Blank DEF IInv
<1>1. TypeOK'
  <2>1. acl' \subseteq Ips
    <3>1. CASE pc[t] = "blockAdd"
      <4>1. t \in Workers
        BY <3>1 DEF TypeOK, LabelsOK, Tasks, OperatorLabels, ExpiryLabels
      <4>2. Addr(t) \in Ips
        BY <3>1, <4>1, CanonAssumption DEF TypeOK, IntentHeld, BlockLabels, Valid, Addr, Job, Tasks
      <4> QED BY <4>2 DEF TypeOK, CommandFails
    <3>2. CASE pc[t] # "blockAdd"
      BY <3>2 DEF TypeOK, CommandFails
    <3> QED BY <3>1, <3>2
  <2> QED BY <2>1, GiveUpType DEF TypeOK, CommandFails, Fault, stored
<1>2. Mutex'
  BY CanonAssumption DEF TypeOK, LabelsOK, CommandFails, stored, process, GiveUp, Leave, Goto, Fault, Tasks, Mutex
<1>3. RowsBelowCount'
  BY CanonAssumption DEF TypeOK, LabelsOK, CommandFails, stored, process, GiveUp, Leave, Goto, Fault, RowsBelowCount, Ids
<1>4. IntentHeld'
  BY CanonAssumption DEF TypeOK, LabelsOK, CommandFails, stored, process, GiveUp, Leave, Goto, Fault, IntentHeld, PendingBlocks, Pending, Tasks, Mutex, Valid, BlockLabels, RowsBelowCount, Ids
<1>5. PassHeld'
  <2>1. PendingBlocks' = PendingBlocks /\ actions' = actions
    BY DEF CommandFails, stored, PendingBlocks, Pending
  <2>2. CASE t = Expiry
    BY <2>1, <2>2 DEF CommandFails, GiveUp, Goto, PassHeld, UndoLabels, TypeOK, LabelsOK, ExpiryLabels, Tasks
  <2>3. CASE t # Expiry
    <3>1. lock = t /\ Expiry \in Tasks
      BY DEF Mutex, CommandFails, Tasks
    <3>2. pc[Expiry] \in ExpiryLabels
      BY DEF TypeOK, LabelsOK
    <3>3. pc[Expiry] = "idle"
      BY <2>3, <3>1, <3>2 DEF Mutex, ExpiryLabels
    <3> QED BY <2>3, <3>1, <3>3 DEF CommandFails, GiveUp, Leave, Goto, PassHeld, UndoLabels, TypeOK, LabelsOK
  <2> QED BY <2>2, <2>3
<1>6. RequestHeld'
  BY CanonAssumption DEF TypeOK, LabelsOK, CommandFails, stored, process, GiveUp, Leave, Goto, Fault, RequestHeld, PendingBlocks, Pending, Tasks, Mutex, RowsBelowCount, Ids
<1>7. LiftedFirst'
  BY CanonAssumption DEF TypeOK, LabelsOK, CommandFails, stored, process, GiveUp, Leave, Goto, Fault, LiftedFirst, Addr, Tasks, Mutex
<1>8. NoOrphanBlock'
  <2>1. PendingBlocks' = PendingBlocks /\ actions' = actions
    BY DEF CommandFails, stored, PendingBlocks, Pending
  <2>2. CASE pc[t] = "blockAdd"
    <3>1. t \in Workers
      BY <2>2 DEF TypeOK, LabelsOK, Tasks, OperatorLabels, ExpiryLabels
    <3>2. job[t].id \in PendingBlocks /\ Canon[actions[job[t].id].ip] = Addr(t)
      BY <2>2, <3>1 DEF IntentHeld, BlockLabels, Addr
    <3> QED BY <2>1, <2>2, <3>2 DEF NoOrphanBlock, CommandFails
  <2>3. CASE pc[t] # "blockAdd"
    BY <2>1, <2>3 DEF NoOrphanBlock, CommandFails
  <2> QED BY <2>2, <2>3
<1> QED BY <1>1, <1>2, <1>3, <1>4, <1>5, <1>6, <1>7, <1>8

LEMMA DatabaseErrorStep ==
  ASSUME IInv, NEW t \in Tasks, DatabaseError(t)  PROVE IInv'
<1> USE TaskAssumption, ParameterAssumption, Blank DEF IInv
<1>1. TypeOK'
  BY LeaveType DEF TypeOK, DatabaseError, Fault, stored
<1>2. Mutex'
  BY CanonAssumption DEF TypeOK, LabelsOK, DatabaseError, stored, process, Leave, Goto, Fault, Tasks, Mutex
<1>3. RowsBelowCount'
  BY CanonAssumption DEF TypeOK, LabelsOK, DatabaseError, stored, process, Leave, Goto, Fault, RowsBelowCount, Ids
<1>4. IntentHeld'
  BY CanonAssumption DEF TypeOK, LabelsOK, DatabaseError, stored, process, Leave, Goto, Fault, IntentHeld, PendingBlocks, Pending, Tasks, Mutex, Valid, BlockLabels, RowsBelowCount, Ids
<1>5. PassHeld'
  BY CanonAssumption DEF TypeOK, LabelsOK, DatabaseError, stored, process, Leave, Goto, Fault, PassHeld, PendingBlocks, Pending, Tasks, Mutex, UndoLabels, RowsBelowCount, Ids, BlockLabels, IntentHeld
<1>6. RequestHeld'
  BY CanonAssumption DEF TypeOK, LabelsOK, DatabaseError, stored, process, Leave, Goto, Fault, RequestHeld, PendingBlocks, Pending, Tasks, Mutex, RowsBelowCount, Ids
<1>7. LiftedFirst'
  BY CanonAssumption DEF TypeOK, LabelsOK, DatabaseError, stored, process, Leave, Goto, Fault, LiftedFirst, Addr, Tasks, Mutex
<1>8. NoOrphanBlock'
  BY CanonAssumption DEF TypeOK, LabelsOK, DatabaseError, stored, process, Leave, Goto, Fault, NoOrphanBlock, PendingBlocks, Pending, RowsBelowCount, Ids, LiftedFirst, Addr, Tasks, Mutex, IntentHeld, PassHeld, BlockLabels, UndoLabels
<1> QED BY <1>1, <1>2, <1>3, <1>4, <1>5, <1>6, <1>7, <1>8

LEMMA ReloadStep ==
  ASSUME IInv, Reload  PROVE IInv'
<1> USE TaskAssumption, ParameterAssumption, Blank DEF IInv
<1>1. TypeOK'
  BY CanonAssumption DEF TypeOK, LabelsOK, Reload, stored, process, Fault, Tasks, Row, Job, Ids, Kinds, WorkerLabels, OperatorLabels, ExpiryLabels
<1>2. Mutex'
  BY CanonAssumption DEF TypeOK, LabelsOK, Reload, stored, process, Fault, Tasks, Mutex
<1>3. RowsBelowCount'
  BY CanonAssumption DEF TypeOK, LabelsOK, Reload, stored, process, Fault, RowsBelowCount, Ids
<1>4. IntentHeld'
  BY CanonAssumption DEF TypeOK, LabelsOK, Reload, stored, process, Fault, IntentHeld, PendingBlocks, Pending, Tasks, Mutex, Valid, BlockLabels, RowsBelowCount, Ids
<1>5. PassHeld'
  BY CanonAssumption DEF TypeOK, LabelsOK, Reload, stored, process, Fault, PassHeld, PendingBlocks, Pending, Tasks, Mutex, UndoLabels, RowsBelowCount, Ids, BlockLabels, IntentHeld
<1>6. RequestHeld'
  BY CanonAssumption DEF TypeOK, LabelsOK, Reload, stored, process, Fault, RequestHeld, PendingBlocks, Pending, Tasks, Mutex, RowsBelowCount, Ids
<1>7. LiftedFirst'
  BY CanonAssumption DEF TypeOK, LabelsOK, Reload, stored, process, Fault, LiftedFirst, Addr, Tasks, Mutex
<1>8. NoOrphanBlock'
  BY CanonAssumption DEF TypeOK, LabelsOK, Reload, stored, process, Fault, NoOrphanBlock, PendingBlocks, Pending, RowsBelowCount, Ids, LiftedFirst, Addr, Tasks, Mutex, IntentHeld, PassHeld, BlockLabels, UndoLabels
<1> QED BY <1>1, <1>2, <1>3, <1>4, <1>5, <1>6, <1>7, <1>8

LEMMA CrashStep ==
  ASSUME IInv, Crash  PROVE IInv'
<1> USE TaskAssumption, ParameterAssumption, Blank DEF IInv
<1>1. TypeOK'
  <2>1. LabelsOK'
    <3>1. pc' = [t \in Tasks |-> "idle"]
      BY DEF Crash
    <3>2. \A t \in Tasks : pc'[t] = "idle"
      BY <3>1
    <3> QED BY <3>1, <3>2 DEF LabelsOK, Tasks, WorkerLabels, OperatorLabels, ExpiryLabels
  <2>2. job' \in [Tasks -> Job]
    BY DEF Crash
  <2>3. actions' = actions /\ count' = count /\ audited' = audited /\ acl' = acl
       /\ now' = now
    BY DEF Crash, stored
  <2>4. settings' \in Configs /\ todo' \subseteq Ids /\ lock' \in Tasks \cup {Free}
    BY DEF Crash
  <2>5. serving' \in BOOLEAN
    BY DEF Crash
  <2>6. faults' \in Nat
    BY DEF TypeOK, Crash, Fault
  <2> QED BY <2>1, <2>2, <2>3, <2>4, <2>5, <2>6 DEF TypeOK
<1>2. Mutex'
  BY CanonAssumption DEF TypeOK, LabelsOK, Crash, stored, process, Fault, Tasks, Mutex
<1>3. RowsBelowCount'
  BY CanonAssumption DEF TypeOK, LabelsOK, Crash, stored, process, Fault, RowsBelowCount, Ids
<1>4. IntentHeld'
  BY CanonAssumption DEF TypeOK, LabelsOK, Crash, stored, process, Fault, IntentHeld, PendingBlocks, Pending, Tasks, Mutex, Valid, BlockLabels, RowsBelowCount, Ids
<1>5. PassHeld'
  BY CanonAssumption DEF TypeOK, LabelsOK, Crash, stored, process, Fault, PassHeld, PendingBlocks, Pending, Tasks, Mutex, UndoLabels, RowsBelowCount, Ids, BlockLabels, IntentHeld
<1>6. RequestHeld'
  BY CanonAssumption DEF TypeOK, LabelsOK, Crash, stored, process, Fault, RequestHeld, PendingBlocks, Pending, Tasks, Mutex, RowsBelowCount, Ids
<1>7. LiftedFirst'
  BY CanonAssumption DEF TypeOK, LabelsOK, Crash, stored, process, Fault, LiftedFirst, Addr, Tasks, Mutex
<1>8. NoOrphanBlock'
  BY CanonAssumption DEF TypeOK, LabelsOK, Crash, stored, process, Fault, NoOrphanBlock, PendingBlocks, Pending, RowsBelowCount, Ids, LiftedFirst, Addr, Tasks, Mutex, IntentHeld, PassHeld, BlockLabels, UndoLabels
<1> QED BY <1>1, <1>2, <1>3, <1>4, <1>5, <1>6, <1>7, <1>8

LEMMA TickStep ==
  ASSUME IInv, Tick  PROVE IInv'
<1> USE TaskAssumption, ParameterAssumption, Blank DEF IInv
<1>1. TypeOK'
  BY CanonAssumption DEF TypeOK, LabelsOK, Tick, stored, process, Tasks, Row, Job, Ids, Kinds, WorkerLabels, OperatorLabels, ExpiryLabels
<1>2. Mutex'
  BY CanonAssumption DEF TypeOK, LabelsOK, Tick, stored, process, Tasks, Mutex
<1>3. RowsBelowCount'
  BY CanonAssumption DEF TypeOK, LabelsOK, Tick, stored, process, RowsBelowCount, Ids
<1>4. IntentHeld'
  BY CanonAssumption DEF TypeOK, LabelsOK, Tick, stored, process, IntentHeld, PendingBlocks, Pending, Tasks, Mutex, Valid, BlockLabels, RowsBelowCount, Ids
<1>5. PassHeld'
  BY CanonAssumption DEF TypeOK, LabelsOK, Tick, stored, process, PassHeld, PendingBlocks, Pending, Tasks, Mutex, UndoLabels, RowsBelowCount, Ids, BlockLabels, IntentHeld
<1>6. RequestHeld'
  BY CanonAssumption DEF TypeOK, LabelsOK, Tick, stored, process, RequestHeld, PendingBlocks, Pending, Tasks, Mutex, RowsBelowCount, Ids
<1>7. LiftedFirst'
  BY CanonAssumption DEF TypeOK, LabelsOK, Tick, stored, process, LiftedFirst, Addr, Tasks, Mutex
<1>8. NoOrphanBlock'
  BY CanonAssumption DEF TypeOK, LabelsOK, Tick, stored, process, NoOrphanBlock, PendingBlocks, Pending, RowsBelowCount, Ids, LiftedFirst, Addr, Tasks, Mutex, IntentHeld, PassHeld, BlockLabels, UndoLabels
<1> QED BY <1>1, <1>2, <1>3, <1>4, <1>5, <1>6, <1>7, <1>8

-----------------------------------------------------------------------------
\* The theorems.

LEMMA InitIInv == Init => IInv
<1> SUFFICES ASSUME Init PROVE IInv
  OBVIOUS
<1>1. LabelsOK
  <2>1. \A t \in Tasks : pc[t] = "idle"
    BY DEF Init
  <2> QED BY <2>1 DEF Init, LabelsOK, Tasks, WorkerLabels, OperatorLabels, ExpiryLabels
<1>2. serving \in BOOLEAN
  BY DEF Init
<1>3. TypeOK
  BY <1>1, <1>2, Blank, ParameterAssumption DEF Init, TypeOK
<1>4. Mutex /\ IntentHeld /\ PassHeld /\ RequestHeld /\ LiftedFirst
  BY DEF Init, Mutex, IntentHeld, PassHeld, RequestHeld, LiftedFirst, Tasks, BlockLabels, UndoLabels
<1>5. RowsBelowCount /\ NoOrphanBlock
  BY DEF Init, RowsBelowCount, NoOrphanBlock, Absent
<1> QED BY <1>3, <1>4, <1>5 DEF IInv

LEMMA IInvInductive == IInv /\ [Next]_vars => IInv'
<1> SUFFICES ASSUME IInv, [Next]_vars PROVE IInv'
  OBVIOUS
<1>1. ASSUME NEW w \in Workers, Decide(w) \/ Respond(w) \/ Blocking(w) PROVE IInv'
  BY <1>1, DecideStep, RecordIntentStep, RecordResponseStep, BlockReadStep, BlockAddStep,
     BlockConfirmStep DEF Respond, Blocking
<1>2. ASSUME NEW o \in Operators,
             UnblockBegin(o) \/ RevokeBegin(o) \/ RevokeRecord(o) \/ CloseRelated(o)
      PROVE IInv'
  BY <1>2, UnblockBeginStep, RevokeBeginStep, RevokeRecordStep, CloseRelatedStep
<1>3. ASSUME NEW t \in Operators \cup {Expiry}, Undoing(t) PROVE IInv'
  BY <1>3, UndoDelStep, UndoRefusedStep, UndoReadStep DEF Undoing
<1>4. ASSUME ReconcileBegin \/ Expiring PROVE IInv'
  BY <1>4, ReconcileBeginStep, ReconcileNextStep, ReconcileEndStep, CloseExpiredStep,
     AuditExpiredStep DEF Expiring
<1>5. ASSUME NEW t \in Tasks, CommandFails(t) \/ DatabaseError(t) PROVE IInv'
  BY <1>5, CommandFailsStep, DatabaseErrorStep
<1>6. ASSUME Reload \/ Crash \/ Tick PROVE IInv'
  BY <1>6, ReloadStep, CrashStep, TickStep
<1>7. CASE UNCHANGED vars
  BY <1>7 DEF IInv, vars, stored, process, TypeOK, LabelsOK, Mutex, RowsBelowCount, IntentHeld,
     PassHeld, RequestHeld, LiftedFirst, NoOrphanBlock, PendingBlocks, Pending, Addr
<1> QED BY <1>1, <1>2, <1>3, <1>4, <1>5, <1>6, <1>7 DEF Next

\* The invariant the other theorems rest on: who holds the lock, and what the
\* lock holder may rely on at every point of its work.
THEOREM Invariance == Spec => []IInv
  BY InitIInv, IInvInductive, PTL DEF Spec

\* Type correctness of the enforcement of blocks.
THEOREM TypeCorrect == Spec => []TypeOK
<1>1. IInv => TypeOK
  BY DEF IInv
<1> QED BY <1>1, Invariance, PTL

\* HAProxy never blocks an address the actions table has no pending row for,
\* whatever crashes, lost replies and concurrent requests do.
THEOREM NeverOrphaned == Spec => []NoOrphanBlock
<1>1. IInv => NoOrphanBlock
  BY DEF IInv
<1> QED BY <1>1, Invariance, PTL

-----------------------------------------------------------------------------
\* What one step may do to the table and to HAProxy's ACL: never both.

TableStep ==
  \/ \E j \in Job, status \in {"applying", "applied", "unapplied"}, ruled \in BOOLEAN :
       Insert(j, status, ruled)
  \/ \E id \in PendingBlocks : Finish(id, "applied")
  \/ \E id \in PendingBlocks, how \in {"expired", "revoked"} :
       Canon[actions[id].ip] \notin acl /\ Finish(id, how)
  \/ \E id \in Ids : actions[id].state \in {"unapplied", "expired"} /\ Finish(id, "revoked")

AclStep ==
  \/ \E id \in PendingBlocks : acl' = acl \cup {Canon[actions[id].ip]}
  \/ \E a \in Ips : acl' = acl \ {a}
  \/ acl' = {}

Effect ==
  \/ UNCHANGED <<actions, acl>>
  \/ TableStep /\ UNCHANGED acl
  \/ AclStep /\ UNCHANGED actions

LEMMA StepEffect == IInv /\ [Next]_vars => Effect
<1> SUFFICES ASSUME IInv, [Next]_vars PROVE Effect
  OBVIOUS
<1> USE DEF Effect
<1>1. ASSUME NEW w \in Workers, Decide(w) \/ BlockRead(w) PROVE Effect
  BY <1>1 DEF Decide, BlockRead, stored
<1>2. ASSUME NEW w \in Workers, RecordIntent(w) PROVE Effect
  <2>1. job[w] \in Job
    BY DEF IInv, TypeOK, Tasks
  <2> QED BY <1>2, <2>1 DEF RecordIntent, TableStep
<1>3. ASSUME NEW w \in Workers, RecordResponse(w) PROVE Effect
  <2>1. job[w] \in Job
    BY DEF IInv, TypeOK, Tasks
  <2>2. Outcomes(job[w].kind) \subseteq {"applying", "applied", "unapplied"}
    BY DEF Outcomes
  <2> QED BY <1>3, <2>1, <2>2 DEF RecordResponse, TableStep
<1>4. ASSUME NEW w \in Workers, BlockAdd(w) PROVE Effect
  BY <1>4 DEF IInv, IntentHeld, BlockLabels, BlockAdd, AclStep, Addr, stored
<1>5. ASSUME NEW w \in Workers, BlockConfirm(w) PROVE Effect
  BY <1>5 DEF IInv, IntentHeld, BlockLabels, BlockConfirm, TableStep
<1>6. ASSUME NEW o \in Operators, UnblockBegin(o) \/ RevokeBegin(o) PROVE Effect
  BY <1>6 DEF UnblockBegin, RevokeBegin, stored
<1>7. ASSUME NEW o \in Operators, RevokeRecord(o) PROVE Effect
  BY <1>7 DEF RevokeRecord, TableStep
<1>8. ASSUME NEW o \in Operators, CloseRelated(o) PROVE Effect
  <2>1. \A id \in todo : id \in PendingBlocks /\ Canon[actions[id].ip] \notin acl
    BY <1>8 DEF IInv, RequestHeld, LiftedFirst, CloseRelated, Addr
  <2> QED BY <1>8, <2>1 DEF CloseRelated, TableStep
<1>9. ASSUME NEW t \in Operators \cup {Expiry}, Undoing(t) PROVE Effect
  <2>1. CASE UndoDel(t)
    <3>1. Addr(t) \notin acl \/ Addr(t) \in Ips
      BY DEF IInv, TypeOK
    <3>2. acl' = acl \/ \E a \in Ips : acl' = acl \ {a}
      BY <2>1, <3>1 DEF UndoDel
    <3> QED BY <2>1, <3>2 DEF UndoDel, AclStep, stored
  <2>2. CASE UndoRefused(t) \/ UndoRead(t)
    BY <2>2 DEF UndoRefused, UndoRead, stored
  <2> QED BY <1>9, <2>1, <2>2 DEF Undoing
<1>10. ASSUME ReconcileBegin \/ ReconcileNext \/ ReconcileEnd \/ AuditExpired PROVE Effect
  BY <1>10 DEF ReconcileBegin, ReconcileNext, ReconcileEnd, AuditExpired, stored
<1>11. ASSUME CloseExpired PROVE Effect
  <2>1. /\ job[Expiry].id \in PendingBlocks
        /\ Canon[actions[job[Expiry].id].ip] \notin acl
    BY <1>11 DEF IInv, PassHeld, LiftedFirst, UndoLabels, CloseExpired, Addr
  <2> QED BY <1>11, <2>1 DEF CloseExpired, TableStep
<1>12. ASSUME NEW t \in Tasks, CommandFails(t) PROVE Effect
  <2>1. CASE UNCHANGED acl
    BY <1>12, <2>1 DEF CommandFails, stored
  <2>2. CASE pc[t] = "blockAdd" /\ acl' = acl \cup {Addr(t)}
    <3>1. t \in Workers
      BY <2>2 DEF IInv, TypeOK, LabelsOK, Tasks, OperatorLabels, ExpiryLabels
    <3>2. \E id \in PendingBlocks : Addr(t) = Canon[actions[id].ip]
      BY <2>2, <3>1 DEF IInv, IntentHeld, BlockLabels, Addr
    <3> QED BY <1>12, <2>2, <3>2 DEF CommandFails, AclStep, stored
  <2>3. CASE acl' = acl \ {Addr(t)}
    <3>1. acl' = acl \/ \E a \in Ips : acl' = acl \ {a}
      BY <2>3 DEF IInv, TypeOK
    <3> QED BY <1>12, <3>1 DEF CommandFails, AclStep, stored
  <2> QED BY <1>12, <2>1, <2>2, <2>3 DEF CommandFails
<1>13. ASSUME NEW t \in Tasks, DatabaseError(t) PROVE Effect
  BY <1>13 DEF DatabaseError, stored
<1>14. ASSUME Reload \/ Crash \/ Tick PROVE Effect
  BY <1>14 DEF Reload, Crash, Tick, AclStep, stored
<1>15. CASE UNCHANGED vars
  BY <1>15 DEF vars, stored
<1> QED BY <1>1, <1>2, <1>3, <1>4, <1>5, <1>6, <1>7, <1>8, <1>9, <1>10, <1>11, <1>12, <1>13,
           <1>14, <1>15 DEF Next, Respond, Blocking, Expiring

-----------------------------------------------------------------------------
LEMMA FinishEffect ==
  ASSUME TypeOK, NEW id \in Ids, NEW how \in {"applied", "expired", "revoked"}, Finish(id, how)
  PROVE  /\ actions'[id].state = how
         /\ \A i \in Ids : /\ actions'[i].ip = actions[i].ip
                           /\ actions'[i].kind = actions[i].kind
                           /\ i # id => actions'[i] = actions[i]
  BY DEF TypeOK, Finish, Row

LEMMA InsertEffect ==
  ASSUME TypeOK, RowsBelowCount, NEW j \in Job, NEW ruled \in BOOLEAN,
         NEW status \in {"applying", "applied", "unapplied"}, Insert(j, status, ruled)
  PROVE  /\ count + 1 \in Ids
         /\ actions[count + 1].state = "absent"
         /\ actions'[count + 1].state = status
         /\ actions'[count + 1].kind = j.kind
         /\ actions'[count + 1].ip = j.ip
         /\ \A i \in Ids : i # count + 1 => actions'[i] = actions[i]
<1>1. count + 1 \in Ids
  BY InsertType
<1>2. actions[count + 1].state = "absent"
  BY <1>1 DEF RowsBelowCount, TypeOK
<1> QED BY <1>1, <1>2 DEF TypeOK, Insert

LEMMA ClosesLifted == IInv /\ [Next]_vars => ClosesOnlyLifted
<1> SUFFICES ASSUME IInv, Effect, NEW id \in PendingBlocks, id \notin PendingBlocks'
             PROVE  Canon[actions[id].ip] \notin acl'
  BY StepEffect DEF ClosesOnlyLifted
<1> USE DEF IInv
<1>1. id \in Ids /\ Pending(id) /\ actions[id].kind = "block"
  BY DEF PendingBlocks
<1>2. actions' # actions
  BY DEF PendingBlocks, Pending
<1>3. TableStep /\ acl' = acl
  BY <1>2 DEF Effect
<1>4. CASE \E j \in Job, status \in {"applying", "applied", "unapplied"}, ruled \in BOOLEAN :
             Insert(j, status, ruled)
  BY <1>1, <1>4, InsertEffect DEF PendingBlocks, Pending
<1>5. CASE \E other \in PendingBlocks : Finish(other, "applied")
  BY <1>1, <1>5, FinishEffect DEF PendingBlocks, Pending
<1>6. CASE \E other \in PendingBlocks, how \in {"expired", "revoked"} :
             Canon[actions[other].ip] \notin acl /\ Finish(other, how)
  BY <1>1, <1>3, <1>6, FinishEffect DEF PendingBlocks, Pending
<1>7. CASE \E other \in Ids : /\ actions[other].state \in {"unapplied", "expired"}
                            /\ Finish(other, "revoked")
  BY <1>1, <1>7, FinishEffect DEF PendingBlocks, Pending
<1> QED BY <1>3, <1>4, <1>5, <1>6, <1>7 DEF TableStep

\* No step reports a block as removed while HAProxy still holds its address.
THEOREM NeverFalselyClosed == Spec => NoFalseClose
  BY Invariance, ClosesLifted, PTL DEF NoFalseClose, Spec

LEMMA ClosedStays == IInv /\ [Next]_vars => StaysClosed
<1> SUFFICES ASSUME IInv, Effect, NEW id \in Ids, actions[id].state # "absent", ~Pending(id)
             PROVE  ~Pending(id)'
  BY StepEffect DEF StaysClosed
<1> USE DEF IInv
<1>1. CASE UNCHANGED actions
  BY <1>1 DEF Pending
<1>2. CASE \E j \in Job, status \in {"applying", "applied", "unapplied"}, ruled \in BOOLEAN :
             Insert(j, status, ruled)
  BY <1>2, InsertEffect DEF Pending
<1>3. CASE \E other \in PendingBlocks : Finish(other, "applied")
  BY <1>3, FinishEffect DEF PendingBlocks, Pending
<1>4. CASE \E other \in PendingBlocks, how \in {"expired", "revoked"} : Finish(other, how)
  BY <1>4, FinishEffect DEF PendingBlocks, Pending
<1>5. CASE \E other \in Ids : Finish(other, "revoked")
  BY <1>5, FinishEffect DEF Pending
<1> QED BY <1>1, <1>2, <1>3, <1>4, <1>5 DEF Effect, TableStep

\* A response that is closed is never shown as pending or active again.
THEOREM NeverResurrected == Spec => NoResurrection
  BY Invariance, ClosedStays, PTL DEF NoResurrection, Spec
-----------------------------------------------------------------------------
\* A block that is shown as active is enforced, as long as nothing failed.

\* The rows the dashboard shows as active blocks.
Shown == {id \in PendingBlocks : actions[id].state = "applied"}

\* A block is confirmed only for a valid address and an enabled adapter.
Permitted ==
  /\ \A id \in Shown : Valid(actions[id].ip) /\ settings.enabled
  /\ \A w \in Workers : pc[w] \in BlockLabels => settings.enabled

\* Between a deletion and its `show acl' nobody makes the entry again.
Emptied == \A t \in Operators \cup {Expiry} : pc[t] = "undoRead" => Addr(t) \notin acl

\* A pass that handles one row of an address handles every block shown on it.
PassWhole ==
  /\ pc[Expiry] \in UndoLabels \cup {"audit"} => job[Expiry].id \in todo
  /\ pc[Expiry] = "audit" => job[Expiry].id \notin PendingBlocks
  /\ pc[Expiry] # "idle" => \A id \in todo, other \in Shown :
       actions[other].ip = actions[id].ip => other \in todo

\* A block shown as active is enforced, or about to be closed by the holder of
\* the lock.
Covered == \A id \in Shown :
  \/ Canon[actions[id].ip] \in acl
  \/ \E o \in Operators : pc[o] = "undoRead" /\ actions[id].ip = job[o].ip
  \/ \E o \in Operators : pc[o] = "closing" /\ id \in todo
  \/ pc[Expiry] # "idle" /\ id \in todo

Unbroken == Permitted /\ Emptied /\ PassWhole /\ Covered

\* Rows are spelled as HAProxy spells them.
CanonicalSpellings == \A ip \in Ips : Valid(ip) => Canon[ip] = ip

LEMMA InsertShows ==
  ASSUME TypeOK, RowsBelowCount, NEW j \in Job, NEW ruled \in BOOLEAN,
         NEW status \in {"applying", "applied", "unapplied"}, Insert(j, status, ruled),
         status # "applied" \/ j.kind # "block"
  PROVE  Shown' = Shown /\ \A id \in Shown : actions'[id].ip = actions[id].ip
<1>1. /\ count + 1 \in Ids
      /\ actions[count + 1].state = "absent"
      /\ actions'[count + 1].state = status
      /\ actions'[count + 1].kind = j.kind
      /\ \A i \in Ids : i # count + 1 => actions'[i] = actions[i]
  BY InsertEffect
<1>2. count + 1 \notin Shown /\ count + 1 \notin Shown'
  BY <1>1 DEF Shown, PendingBlocks
<1>3. \A i \in Ids : i # count + 1 => (i \in Shown' <=> i \in Shown)
  BY <1>1 DEF Shown, PendingBlocks, Pending
<1>4. Shown \subseteq Ids /\ Shown' \subseteq Ids
  BY DEF Shown, PendingBlocks
<1> QED BY <1>1, <1>2, <1>3, <1>4

LEMMA FinishShows ==
  ASSUME TypeOK, NEW id \in Ids, NEW how \in {"expired", "revoked"}, Finish(id, how)
  PROVE  /\ Shown' = Shown \ {id}
         /\ \A i \in Ids : actions'[i].ip = actions[i].ip
<1>1. /\ actions'[id].state = how
      /\ \A i \in Ids : /\ actions'[i].ip = actions[i].ip
                        /\ i # id => actions'[i] = actions[i]
  BY FinishEffect
<1>2. \A i \in Ids : i \in Shown' <=> i \in Shown /\ i # id
  BY <1>1 DEF Shown, PendingBlocks, Pending
<1>3. Shown \subseteq Ids /\ Shown' \subseteq Ids
  BY DEF Shown, PendingBlocks
<1> QED BY <1>1, <1>2, <1>3

\* While the lock is free every block shown is enforced.
LEMMA AtRest ==
  ASSUME IInv, Unbroken, lock = Free
  PROVE  /\ \A t \in Tasks : pc[t] \in {"idle", "waiting"}
         /\ pc[Expiry] = "idle"
         /\ \A id \in Shown : Canon[actions[id].ip] \in acl
<1>1. \A t \in Tasks : pc[t] \in {"idle", "waiting"}
  BY TaskAssumption DEF IInv, Mutex
<1>2. pc[Expiry] = "idle" /\ \A o \in Operators : pc[o] \notin {"undoRead", "closing"}
  BY <1>1 DEF IInv, TypeOK, LabelsOK, ExpiryLabels, Tasks
<1> QED BY <1>1, <1>2 DEF Unbroken, Covered

LEMMA DecideShows ==
  ASSUME IInv, Unbroken, NEW w \in Workers, Decide(w)
  PROVE  Unbroken'
<1> USE TaskAssumption DEF IInv, Unbroken
<1>1. Permitted'
  BY DEF Permitted, Shown, PendingBlocks, Pending, Valid, BlockLabels, IntentHeld, Decide, Goto, TypeOK, LabelsOK, Tasks, Mutex, stored, process
<1>2. Emptied'
  BY DEF Emptied, Addr, Decide, Goto, TypeOK, LabelsOK, Tasks, Mutex, stored, process
<1>3. PassWhole'
  BY DEF PassWhole, Shown, PendingBlocks, Pending, UndoLabels, PassHeld, Decide, Goto, TypeOK, LabelsOK, Tasks, Mutex, stored, process
<1>4. Covered'
  BY DEF Covered, Shown, PendingBlocks, Pending, Addr, Valid, Decide, Goto, TypeOK, LabelsOK, Tasks, Mutex, stored, process
<1> QED BY <1>1, <1>2, <1>3, <1>4

LEMMA RecordIntentShows ==
  ASSUME IInv, Unbroken, NEW w \in Workers, RecordIntent(w)
  PROVE  Unbroken'
<1> USE TaskAssumption DEF IInv, Unbroken
<1>1. Shown' = Shown /\ \A id \in Shown : actions'[id].ip = actions[id].ip
  <2>1. job[w] \in Job /\ Insert(job[w], "applying", FALSE)
    BY DEF TypeOK, Tasks, RecordIntent
  <2> QED BY <2>1, InsertShows
<1>2. /\ \A t \in Tasks : pc[t] \in {"idle", "waiting"}
      /\ pc[Expiry] = "idle"
      /\ \A id \in Shown : Canon[actions[id].ip] \in acl
  BY AtRest DEF RecordIntent
<1>3. /\ settings.enabled /\ UNCHANGED <<settings, acl>>
      /\ \A t \in Tasks \ {w} : pc'[t] = pc[t]
      /\ pc'[w] \in {"idle", "blockRead"}
  BY DEF RecordIntent, Enforced, Leave, Goto, TypeOK, LabelsOK, Tasks
<1>4. Permitted'
  BY <1>1, <1>3 DEF Permitted, Valid
<1>5. Emptied'
  BY <1>2, <1>3 DEF Emptied, Tasks
<1>6. PassWhole'
  BY <1>2, <1>3 DEF PassWhole, UndoLabels, Tasks
<1>7. Covered'
  BY <1>1, <1>2, <1>3 DEF Covered
<1> QED BY <1>4, <1>5, <1>6, <1>7

LEMMA RecordResponseShows ==
  ASSUME IInv, Unbroken, NEW w \in Workers, RecordResponse(w)
  PROVE  Unbroken'
<1> USE TaskAssumption DEF IInv, Unbroken
<1>1. Shown' = Shown /\ \A id \in Shown : actions'[id].ip = actions[id].ip
  <2>1. CASE Rejected(job[w])
    BY <2>1 DEF RecordResponse, Shown, PendingBlocks, Pending
  <2>2. CASE ~Rejected(job[w])
    <3>1. PICK status \in Outcomes(job[w].kind) : Insert(job[w], status, TRUE)
      BY <2>2 DEF RecordResponse
    <3>2. job[w] \in Job
      BY DEF TypeOK, Tasks
    <3>3. /\ status \in {"applying", "applied", "unapplied"}
          /\ status # "applied" \/ job[w].kind # "block"
      BY <3>1 DEF Outcomes
    <3> QED BY <3>1, <3>2, <3>3, InsertShows
  <2> QED BY <2>1, <2>2
<1>2. /\ \A t \in Tasks : pc[t] \in {"idle", "waiting"}
      /\ pc[Expiry] = "idle"
      /\ \A id \in Shown : Canon[actions[id].ip] \in acl
  BY AtRest DEF RecordResponse
<1>3. /\ UNCHANGED <<settings, acl>>
      /\ \A t \in Tasks : pc'[t] \in {"idle", "waiting"}
      /\ pc'[Expiry] = "idle"
  BY <1>2 DEF RecordResponse, Leave, Goto, TypeOK, LabelsOK, Tasks
<1>4. Permitted'
  BY <1>1, <1>3 DEF Permitted, Valid, BlockLabels, Tasks
<1>5. Emptied'
  BY <1>3 DEF Emptied, Tasks
<1>6. PassWhole'
  BY <1>3 DEF PassWhole, UndoLabels
<1>7. Covered'
  BY <1>1, <1>2, <1>3 DEF Covered
<1> QED BY <1>4, <1>5, <1>6, <1>7

LEMMA BlockReadShows ==
  ASSUME IInv, Unbroken, NEW w \in Workers, BlockRead(w)
  PROVE  Unbroken'
<1> USE TaskAssumption DEF IInv, Unbroken
<1>1. Permitted'
  BY DEF Permitted, Shown, PendingBlocks, Pending, Valid, BlockLabels, IntentHeld, BlockRead, Goto, TypeOK, LabelsOK, Tasks, Mutex, stored, process
<1>2. Emptied'
  BY DEF Emptied, Addr, BlockRead, Goto, TypeOK, LabelsOK, Tasks, Mutex, stored, process
<1>3. PassWhole'
  BY DEF PassWhole, Shown, PendingBlocks, Pending, UndoLabels, PassHeld, BlockRead, Goto, TypeOK, LabelsOK, Tasks, Mutex, stored, process
<1>4. Covered'
  BY DEF Covered, Shown, PendingBlocks, Pending, Addr, Valid, BlockRead, Goto, TypeOK, LabelsOK, Tasks, Mutex, stored, process
<1> QED BY <1>1, <1>2, <1>3, <1>4

LEMMA BlockAddShows ==
  ASSUME IInv, Unbroken, NEW w \in Workers, BlockAdd(w)
  PROVE  Unbroken'
<1> USE TaskAssumption DEF IInv, Unbroken
<1>1. Permitted'
  BY DEF Permitted, Shown, PendingBlocks, Pending, Valid, BlockLabels, IntentHeld, BlockAdd, Goto, TypeOK, LabelsOK, Tasks, Mutex, stored, process
<1>2. Emptied'
  BY DEF Emptied, Addr, BlockAdd, Goto, TypeOK, LabelsOK, Tasks, Mutex, stored, process
<1>3. PassWhole'
  BY DEF PassWhole, Shown, PendingBlocks, Pending, UndoLabels, PassHeld, BlockAdd, Goto, TypeOK, LabelsOK, Tasks, Mutex, stored, process
<1>4. Covered'
  BY DEF Covered, Shown, PendingBlocks, Pending, Addr, Valid, BlockAdd, Goto, TypeOK, LabelsOK, Tasks, Mutex, stored, process
<1> QED BY <1>1, <1>2, <1>3, <1>4

LEMMA BlockConfirmShows ==
  ASSUME IInv, Unbroken, NEW w \in Workers, BlockConfirm(w)
  PROVE  Unbroken'
<1> USE TaskAssumption DEF IInv, Unbroken
<1>1. /\ job[w].id \in PendingBlocks
      /\ actions[job[w].id].ip = job[w].ip
      /\ Valid(job[w].ip)
      /\ settings.enabled
  BY DEF BlockConfirm, IntentHeld, Permitted, BlockLabels
<1>2. job[w].id \in Ids
  BY <1>1 DEF PendingBlocks
<1>3. /\ \A id \in Ids : actions'[id].ip = actions[id].ip
      /\ \A id \in Shown' : id \in Shown \/ (id = job[w].id /\ Addr(w) \in acl)
  <2>1. CASE Addr(w) \in acl
    <3>1. /\ \A i \in Ids : /\ actions'[i].ip = actions[i].ip
                            /\ i # job[w].id => actions'[i] = actions[i]
      BY <1>2, <2>1, FinishEffect DEF BlockConfirm
    <3> QED BY <2>1, <3>1 DEF Shown, PendingBlocks, Pending
  <2>2. CASE Addr(w) \notin acl
    BY <2>2 DEF BlockConfirm, Shown, PendingBlocks, Pending
  <2> QED BY <2>1, <2>2
<1>4. \A t \in Tasks \ {w} : pc[t] \in {"idle", "waiting"}
  BY DEF BlockConfirm, Mutex, Tasks
<1>5. pc[Expiry] = "idle" /\ \A o \in Operators : pc[o] \in {"idle", "waiting"}
  BY <1>4 DEF TypeOK, LabelsOK, ExpiryLabels, Tasks
<1>6. /\ UNCHANGED <<settings, acl>>
      /\ \A t \in Tasks : pc'[t] \in {"idle", "waiting"}
      /\ pc'[Expiry] = "idle"
  BY <1>4, <1>5 DEF BlockConfirm, Leave, Goto, TypeOK, LabelsOK, Tasks
<1>7. \A id \in Shown : Canon[actions[id].ip] \in acl
  BY <1>5 DEF Covered
<1>8. Shown' \subseteq Ids
  BY DEF Shown, PendingBlocks
<1>9. Permitted'
  BY <1>1, <1>3, <1>6, <1>8 DEF Permitted, Valid, BlockLabels, Tasks
<1>10. Emptied'
  BY <1>6 DEF Emptied, Tasks
<1>11. PassWhole'
  BY <1>6 DEF PassWhole, UndoLabels
<1>12. Covered'
  BY <1>1, <1>3, <1>6, <1>7, <1>8 DEF Covered, Addr
<1> QED BY <1>9, <1>10, <1>11, <1>12

LEMMA UnblockBeginShows ==
  ASSUME IInv, Unbroken, NEW o \in Operators, UnblockBegin(o)
  PROVE  Unbroken'
<1> USE TaskAssumption DEF IInv, Unbroken
<1>1. Permitted'
  BY DEF Permitted, Shown, PendingBlocks, Pending, Valid, BlockLabels, IntentHeld, UnblockBegin, Goto, TypeOK, LabelsOK, Tasks, Mutex, stored, process
<1>2. Emptied'
  BY DEF Emptied, Addr, UnblockBegin, Goto, TypeOK, LabelsOK, Tasks, Mutex, stored, process
<1>3. PassWhole'
  BY DEF PassWhole, Shown, PendingBlocks, Pending, UndoLabels, PassHeld, UnblockBegin, Goto, TypeOK, LabelsOK, Tasks, Mutex, stored, process
<1>4. Covered'
  BY DEF Covered, Shown, PendingBlocks, Pending, Addr, Valid, UnblockBegin, Goto, TypeOK, LabelsOK, Tasks, Mutex, stored, process
<1> QED BY <1>1, <1>2, <1>3, <1>4

LEMMA RevokeBeginShows ==
  ASSUME IInv, Unbroken, NEW o \in Operators, RevokeBegin(o)
  PROVE  Unbroken'
<1> USE TaskAssumption DEF IInv, Unbroken
<1>1. Permitted'
  BY DEF Permitted, Shown, PendingBlocks, Pending, Valid, BlockLabels, IntentHeld, RevokeBegin, Goto, TypeOK, LabelsOK, Tasks, Mutex, stored, process
<1>2. Emptied'
  BY DEF Emptied, Addr, RevokeBegin, Goto, TypeOK, LabelsOK, Tasks, Mutex, stored, process
<1>3. PassWhole'
  BY DEF PassWhole, Shown, PendingBlocks, Pending, UndoLabels, PassHeld, RevokeBegin, Goto, TypeOK, LabelsOK, Tasks, Mutex, stored, process
<1>4. Covered'
  BY DEF Covered, Shown, PendingBlocks, Pending, Addr, Valid, RevokeBegin, Goto, TypeOK, LabelsOK, Tasks, Mutex, stored, process
<1> QED BY <1>1, <1>2, <1>3, <1>4

LEMMA RevokeRecordShows ==
  ASSUME IInv, Unbroken, NEW o \in Operators, RevokeRecord(o)
  PROVE  Unbroken'
<1> USE TaskAssumption DEF IInv, Unbroken
<1>1. Permitted'
  BY DEF Permitted, Shown, PendingBlocks, Pending, Valid, BlockLabels, IntentHeld, RevokeRecord, Finish, TypeOK, LabelsOK, Tasks, Mutex, stored, process
<1>2. Emptied'
  BY DEF Emptied, Addr, RevokeRecord, Finish, TypeOK, LabelsOK, Tasks, Mutex, stored, process
<1>3. PassWhole'
  BY DEF PassWhole, Shown, PendingBlocks, Pending, UndoLabels, PassHeld, RevokeRecord, Finish, TypeOK, LabelsOK, Tasks, Mutex, stored, process
<1>4. Covered'
  BY DEF Covered, Shown, PendingBlocks, Pending, Addr, Valid, RevokeRecord, Finish, TypeOK, LabelsOK, Tasks, Mutex, stored, process
<1> QED BY <1>1, <1>2, <1>3, <1>4

LEMMA CloseRelatedShows ==
  ASSUME IInv, Unbroken, NEW o \in Operators, CloseRelated(o)
  PROVE  Unbroken'
<1> USE TaskAssumption DEF IInv, Unbroken
<1>1. o \in Tasks /\ o # Expiry /\ o \notin Workers /\ pc[o] = "closing"
  BY DEF CloseRelated, Tasks
<1>2. \A t \in Tasks \ {o} : pc[t] \in {"idle", "waiting"}
  BY <1>1 DEF Mutex, Tasks
<1>3. pc[Expiry] = "idle"
  BY <1>1, <1>2 DEF TypeOK, LabelsOK, ExpiryLabels, Tasks
<1>4. UNCHANGED <<settings, acl>>
  BY DEF CloseRelated
<1>5. \A id \in Shown : Canon[actions[id].ip] \in acl \/ id \in todo
  BY <1>1, <1>2, <1>3 DEF Covered, Tasks
<1>6. CASE todo = {} /\ Leave(o) /\ UNCHANGED actions
  <2>1. Shown' = Shown
    BY <1>6 DEF Shown, PendingBlocks, Pending
  <2>2. \A t \in Tasks : pc'[t] \in {"idle", "waiting"} /\ (t = Expiry => pc'[t] = "idle")
    BY <1>2, <1>3, <1>6 DEF Leave, Goto, TypeOK, LabelsOK
  <2>3. Permitted' /\ Emptied' /\ PassWhole'
    BY <1>4, <1>6, <2>1, <2>2 DEF Permitted, Emptied, PassWhole, Valid, BlockLabels, UndoLabels, Tasks
  <2>4. Covered'
    BY <1>4, <1>5, <1>6, <2>1 DEF Covered
  <2> QED BY <2>3, <2>4
<1>7. ASSUME NEW id \in todo, Finish(id, "revoked"), todo' = todo \ {id}, UNCHANGED <<lock, pc, job>>
      PROVE  Unbroken'
  <2>1. id \in Ids
    BY <1>7 DEF TypeOK
  <2>2. Shown' = Shown \ {id} /\ \A i \in Ids : actions'[i].ip = actions[i].ip
    BY <1>7, <2>1, FinishShows
  <2>3. Shown \subseteq Ids
    BY DEF Shown, PendingBlocks
  <2>4. Permitted'
    BY <1>4, <1>7, <2>2, <2>3 DEF Permitted, Valid
  <2>5. Emptied' /\ PassWhole'
    BY <1>3, <1>4, <1>7 DEF Emptied, PassWhole, Addr, UndoLabels
  <2>6. Covered'
    BY <1>1, <1>4, <1>5, <1>7, <2>2, <2>3 DEF Covered
  <2> QED BY <2>4, <2>5, <2>6
<1> QED BY <1>6, <1>7 DEF CloseRelated

LEMMA UndoDelShows ==
  ASSUME IInv, Unbroken, CanonicalSpellings, NEW t \in Operators \cup {Expiry}, UndoDel(t)
  PROVE  Unbroken'
<1> USE TaskAssumption DEF IInv, Unbroken
<1>1. t \in Tasks /\ pc[t] = "undoDel" /\ pc' = [pc EXCEPT ![t] = "undoRead"]
  BY DEF UndoDel, Goto, Tasks
<1>2. acl' = acl \ {Addr(t)} /\ UNCHANGED <<actions, lock, job, todo, settings>>
  BY DEF UndoDel, stored
<1>3. Shown' = Shown /\ PendingBlocks' = PendingBlocks
  BY <1>2 DEF Shown, PendingBlocks, Pending
<1>4. \A s \in Tasks \ {t} : pc[s] \in {"idle", "waiting"} /\ pc'[s] = pc[s]
  BY <1>1 DEF Mutex, TypeOK, LabelsOK
<1>5. Permitted'
  BY <1>1, <1>2, <1>3, <1>4 DEF Permitted, Valid, BlockLabels, TypeOK, LabelsOK, Tasks
<1>6. Emptied'
  BY <1>1, <1>2, <1>4 DEF Emptied, Addr, Tasks
<1>7. PassWhole'
  BY <1>1, <1>2, <1>3, <1>4 DEF PassWhole, UndoLabels, TypeOK, LabelsOK, Tasks
<1>8. Covered'
  <2> SUFFICES ASSUME NEW id \in Shown
               PROVE  \/ Canon[actions[id].ip] \in acl'
                      \/ t \in Operators /\ actions[id].ip = job[t].ip
                      \/ t = Expiry /\ id \in todo
    BY <1>1, <1>2, <1>3 DEF Covered, TypeOK, LabelsOK
  <2>1. Canon[actions[id].ip] \in acl \/ (t = Expiry /\ id \in todo)
    BY <1>1, <1>4 DEF Covered, TypeOK, LabelsOK, ExpiryLabels, Tasks
  <2>2. CASE Canon[actions[id].ip] = Addr(t)
    <3>1. /\ actions[id].ip \in Ips /\ job[t].ip \in Ips
          /\ Canon[actions[id].ip] # Invalid
      BY <1>1 DEF Permitted, Valid, TypeOK, Row, Job, Shown, PendingBlocks
    <3>2. actions[id].ip = job[t].ip
      BY <2>2, <3>1 DEF CanonicalSpellings, Valid, Addr
    <3>3. CASE t = Expiry
      <4>1. job[t].id \in todo /\ actions[job[t].id].ip = job[t].ip
        BY <1>1, <3>3 DEF PassWhole, PassHeld, UndoLabels
      <4> QED BY <1>1, <3>2, <3>3, <4>1 DEF PassWhole
    <3> QED BY <3>2, <3>3
  <2> QED BY <1>2, <2>1, <2>2
<1> QED BY <1>5, <1>6, <1>7, <1>8

LEMMA UndoReadShows ==
  ASSUME IInv, Unbroken, NEW t \in Operators \cup {Expiry}, UndoRead(t)
  PROVE  Unbroken'
<1> USE TaskAssumption DEF IInv, Unbroken
<1>1. t \in Tasks /\ pc[t] = "undoRead" /\ Addr(t) \notin acl
  BY DEF UndoRead, Emptied, Tasks
<1>2. /\ pc' = [pc EXCEPT ![t] = "closing"]
      /\ todo' = IF t = Expiry THEN todo ELSE Related(t)
      /\ UNCHANGED <<actions, acl, job, settings>>
  BY <1>1 DEF UndoRead, Goto, stored
<1>3. Shown' = Shown /\ PendingBlocks' = PendingBlocks
  BY <1>2 DEF Shown, PendingBlocks, Pending
<1>4. \A s \in Tasks \ {t} : pc[s] \in {"idle", "waiting"} /\ pc'[s] = pc[s]
  BY <1>1, <1>2 DEF Mutex, TypeOK, LabelsOK
<1>5. Permitted' /\ Emptied'
  BY <1>1, <1>2, <1>3, <1>4 DEF Permitted, Emptied, Addr, Valid, BlockLabels, TypeOK, LabelsOK, Tasks
<1>6. PassWhole'
  <2>1. CASE t = Expiry
    BY <1>1, <1>2, <1>3, <2>1 DEF PassWhole, UndoLabels, TypeOK, LabelsOK
  <2>2. CASE t # Expiry
    BY <1>1, <1>2, <1>4, <2>2 DEF PassWhole, UndoLabels, TypeOK, LabelsOK, ExpiryLabels, Tasks
  <2> QED BY <2>1, <2>2
<1>7. Covered'
  <2> SUFFICES ASSUME NEW id \in Shown
               PROVE  \/ Canon[actions[id].ip] \in acl
                      \/ t \in Operators /\ id \in Related(t)
                      \/ t = Expiry /\ id \in todo
    BY <1>1, <1>2, <1>3 DEF Covered, TypeOK, LabelsOK
  <2>1. \/ Canon[actions[id].ip] \in acl
        \/ t \in Operators /\ actions[id].ip = job[t].ip
        \/ t = Expiry /\ id \in todo
    BY <1>1, <1>4 DEF Covered, TypeOK, LabelsOK, ExpiryLabels, Tasks
  <2> QED BY <2>1 DEF Related, Shown
<1> QED BY <1>5, <1>6, <1>7

LEMMA ReconcileBeginShows ==
  ASSUME IInv, Unbroken, ReconcileBegin
  PROVE  Unbroken'
<1> USE TaskAssumption DEF IInv, Unbroken
<1>1. Permitted'
  BY DEF Permitted, Shown, PendingBlocks, Pending, Valid, BlockLabels, IntentHeld, ReconcileBegin, Goto, Due, TypeOK, LabelsOK, Tasks, Mutex, stored, process
<1>2. Emptied'
  BY DEF Emptied, Addr, ReconcileBegin, Goto, Due, TypeOK, LabelsOK, Tasks, Mutex, stored, process
<1>3. PassWhole'
  BY DEF PassWhole, Shown, PendingBlocks, Pending, UndoLabels, PassHeld, ReconcileBegin, Goto, Due, TypeOK, LabelsOK, Tasks, Mutex, stored, process
<1>4. Covered'
  BY DEF Covered, Shown, PendingBlocks, Pending, Addr, Valid, ReconcileBegin, Goto, Due, TypeOK, LabelsOK, Tasks, Mutex, stored, process
<1> QED BY <1>1, <1>2, <1>3, <1>4

LEMMA ReconcileNextShows ==
  ASSUME IInv, Unbroken, ReconcileNext
  PROVE  Unbroken'
<1> USE TaskAssumption DEF IInv, Unbroken
<1>1. PICK id \in todo :
        IF settings.enabled /\ Valid(actions[id].ip)
          THEN /\ job' = [job EXCEPT ![Expiry].id = id, ![Expiry].ip = actions[id].ip]
               /\ Goto(Expiry, "undoDel")
               /\ UNCHANGED todo
          ELSE /\ todo' = todo \ {id}
               /\ UNCHANGED <<job, pc>>
  BY DEF ReconcileNext
<1>2. Expiry \in Tasks /\ pc[Expiry] = "scan" /\ UNCHANGED <<actions, acl, settings>>
  BY DEF ReconcileNext, stored, Tasks
<1>3. Shown' = Shown /\ PendingBlocks' = PendingBlocks
  BY <1>2 DEF Shown, PendingBlocks, Pending
<1>4. /\ \A s \in Tasks \ {Expiry} : pc'[s] = pc[s] /\ job'[s] = job[s]
      /\ pc'[Expiry] \in {"scan", "undoDel"}
  BY <1>1, <1>2 DEF Goto, TypeOK, LabelsOK
<1>5. \A other \in Shown : other \in todo => other \in todo'
  BY <1>1 DEF Permitted
<1>6. todo' \subseteq todo /\ (pc'[Expiry] = "undoDel" => job'[Expiry].id \in todo')
  <2>1. CASE settings.enabled /\ Valid(actions[id].ip)
    <3>1. job[Expiry] \in Job
      BY <1>2 DEF TypeOK
    <3>2. job'[Expiry] = [job[Expiry] EXCEPT !.id = id, !.ip = actions[id].ip]
      BY <1>1, <1>2, <2>1 DEF TypeOK
    <3>3. job'[Expiry].id = id
      BY <3>1, <3>2 DEF Job
    <3> QED BY <1>1, <2>1, <3>3
  <2>2. CASE ~(settings.enabled /\ Valid(actions[id].ip))
    BY <1>1, <1>2, <2>2
  <2> QED BY <2>1, <2>2
<1>7. Permitted'
  BY <1>2, <1>3, <1>4 DEF Permitted, Valid, Tasks
<1>8. Emptied'
  BY <1>2, <1>4 DEF Emptied, Addr, Tasks
<1>9. PassWhole'
  BY <1>2, <1>3, <1>4, <1>5, <1>6 DEF PassWhole, UndoLabels
<1>10. Covered'
  <2>1. \A s \in Tasks \ {Expiry} : pc[s] \in {"idle", "waiting"}
    BY <1>2 DEF Mutex
  <2>2. \A other \in Shown : Canon[actions[other].ip] \in acl \/ other \in todo
    BY <1>2, <2>1 DEF Covered, Tasks
  <2> QED BY <1>2, <1>3, <1>4, <1>5, <2>2 DEF Covered
<1> QED BY <1>7, <1>8, <1>9, <1>10

LEMMA ReconcileEndShows ==
  ASSUME IInv, Unbroken, ReconcileEnd
  PROVE  Unbroken'
<1> USE TaskAssumption DEF IInv, Unbroken
<1>1. Permitted'
  BY DEF Permitted, Shown, PendingBlocks, Pending, Valid, BlockLabels, IntentHeld, ReconcileEnd, Goto, Leave, TypeOK, LabelsOK, Tasks, Mutex, stored, process
<1>2. Emptied'
  BY DEF Emptied, Addr, ReconcileEnd, Goto, Leave, TypeOK, LabelsOK, Tasks, Mutex, stored, process
<1>3. PassWhole'
  BY DEF PassWhole, Shown, PendingBlocks, Pending, UndoLabels, PassHeld, ReconcileEnd, Goto, Leave, TypeOK, LabelsOK, Tasks, Mutex, stored, process
<1>4. Covered'
  BY DEF Covered, Shown, PendingBlocks, Pending, Addr, Valid, ReconcileEnd, Goto, Leave, TypeOK, LabelsOK, Tasks, Mutex, stored, process
<1> QED BY <1>1, <1>2, <1>3, <1>4

LEMMA CloseExpiredShows ==
  ASSUME IInv, Unbroken, CloseExpired
  PROVE  Unbroken'
<1> USE TaskAssumption DEF IInv, Unbroken
<1>1. Permitted'
  BY DEF Permitted, Shown, PendingBlocks, Pending, Valid, BlockLabels, IntentHeld, CloseExpired, Goto, Finish, TypeOK, LabelsOK, Tasks, Mutex, stored, process
<1>2. Emptied'
  BY DEF Emptied, Addr, CloseExpired, Goto, Finish, TypeOK, LabelsOK, Tasks, Mutex, stored, process
<1>3. PassWhole'
  BY DEF PassWhole, Shown, PendingBlocks, Pending, UndoLabels, PassHeld, CloseExpired, Goto, Finish, TypeOK, LabelsOK, Tasks, Mutex, stored, process
<1>4. Covered'
  BY DEF Covered, Shown, PendingBlocks, Pending, Addr, Valid, CloseExpired, Goto, Finish, TypeOK, LabelsOK, Tasks, Mutex, stored, process
<1> QED BY <1>1, <1>2, <1>3, <1>4

LEMMA AuditExpiredShows ==
  ASSUME IInv, Unbroken, AuditExpired
  PROVE  Unbroken'
<1> USE TaskAssumption DEF IInv, Unbroken
<1>1. Permitted'
  BY DEF Permitted, Shown, PendingBlocks, Pending, Valid, BlockLabels, IntentHeld, AuditExpired, Goto, TypeOK, LabelsOK, Tasks, Mutex, stored, process
<1>2. Emptied'
  BY DEF Emptied, Addr, AuditExpired, Goto, TypeOK, LabelsOK, Tasks, Mutex, stored, process
<1>3. PassWhole'
  BY DEF PassWhole, Shown, PendingBlocks, Pending, UndoLabels, PassHeld, AuditExpired, Goto, TypeOK, LabelsOK, Tasks, Mutex, stored, process
<1>4. Covered'
  <2>1. job[Expiry].id \notin Shown
    BY DEF PassWhole, AuditExpired, Shown
  <2>2. Shown' = Shown
    BY DEF AuditExpired, Shown, PendingBlocks, Pending
  <2>3. \A s \in Tasks \ {Expiry} : pc[s] \in {"idle", "waiting"}
    BY DEF AuditExpired, Mutex, Tasks
  <2>4. \A id \in Shown : Canon[actions[id].ip] \in acl \/ id \in todo
    BY <2>3 DEF Covered, Tasks
  <2>5. pc'[Expiry] = "scan"
    BY DEF AuditExpired, Goto, TypeOK, LabelsOK, Tasks
  <2> QED BY <2>1, <2>2, <2>4, <2>5 DEF Covered, AuditExpired
<1> QED BY <1>1, <1>2, <1>3, <1>4

LEMMA InitShows == Init => Unbroken
<1>1. ASSUME Init PROVE Shown = {}
  BY <1>1 DEF Init, Absent, Shown, PendingBlocks, Pending
<1> QED BY <1>1, TaskAssumption DEF Init, Unbroken, Permitted, Emptied, PassWhole, Covered, Tasks, BlockLabels, UndoLabels

\* A failure is remembered; without one only the responses, the requests and
\* the expiry task move, and they keep Unbroken.
LEMMA StepShows ==
  ASSUME CanonicalSpellings, DelMissingOk, IInv, faults = 0 => Unbroken, [Next]_vars
  PROVE  faults' = 0 => Unbroken'
<1> SUFFICES ASSUME faults' = 0 PROVE Unbroken'
  OBVIOUS
<1>1. ASSUME faults' = faults + 1 PROVE FALSE
  BY <1>1 DEF IInv, TypeOK
<1>2. \A t \in Tasks : ~CommandFails(t) /\ ~DatabaseError(t)
  BY <1>1 DEF CommandFails, DatabaseError, Fault
<1>3. ~Reload /\ ~Crash
  BY <1>1 DEF Reload, Crash, Fault
<1>4. \A t \in Operators \cup {Expiry} : ~UndoRefused(t)
  BY DEF UndoRefused
<1>5. ASSUME NEW w \in Workers, Decide(w) \/ Respond(w) \/ Blocking(w) PROVE Unbroken'
  <2>1. Unbroken
    BY <1>5 DEF Decide, Respond, RecordIntent, RecordResponse, Blocking, BlockRead, BlockAdd, BlockConfirm
  <2> QED BY <1>5, <2>1, DecideShows, RecordIntentShows, RecordResponseShows, BlockReadShows,
             BlockAddShows, BlockConfirmShows DEF Respond, Blocking
<1>6. ASSUME NEW o \in Operators,
             UnblockBegin(o) \/ RevokeBegin(o) \/ RevokeRecord(o) \/ CloseRelated(o)
      PROVE Unbroken'
  <2>1. Unbroken
    BY <1>6 DEF UnblockBegin, RevokeBegin, RevokeRecord, CloseRelated
  <2> QED BY <1>6, <2>1, UnblockBeginShows, RevokeBeginShows, RevokeRecordShows, CloseRelatedShows
<1>7. ASSUME NEW t \in Operators \cup {Expiry}, Undoing(t) PROVE Unbroken'
  <2>1. Unbroken
    BY <1>4, <1>7 DEF Undoing, UndoDel, UndoRead
  <2> QED BY <1>4, <1>7, <2>1, UndoDelShows, UndoReadShows DEF Undoing
<1>8. ASSUME ReconcileBegin \/ Expiring PROVE Unbroken'
  <2>1. Unbroken
    BY <1>8 DEF ReconcileBegin, Expiring, ReconcileNext, ReconcileEnd, CloseExpired, AuditExpired
  <2> QED BY <1>8, <2>1, ReconcileBeginShows, ReconcileNextShows, ReconcileEndShows,
             CloseExpiredShows, AuditExpiredShows DEF Expiring
<1>9. ASSUME Tick \/ UNCHANGED vars PROVE Unbroken'
  BY <1>9 DEF Tick, vars, stored, process, Unbroken, Permitted, Emptied, PassWhole, Covered, Shown,
     PendingBlocks, Pending, Valid, Addr
<1> QED BY <1>2, <1>3, <1>5, <1>6, <1>7, <1>8, <1>9 DEF Next

\* Until the first failure, a block the dashboard shows as active is in
\* HAProxy's ACL whenever nobody holds the lifecycle's lock: where events spell
\* addresses canonically and HAProxy accepts the deletion of a missing entry.
THEOREM ShownIsEnforced ==
  ASSUME CanonicalSpellings, DelMissingOk
  PROVE  Spec => []ActiveIsEnforced
<1> DEFINE SInv == faults = 0 => Unbroken
<1>1. Init => SInv
  BY InitShows
<1>2. IInv /\ SInv /\ [Next]_vars => SInv'
  BY StepShows
<1>3. IInv /\ SInv => ActiveIsEnforced
  BY AtRest DEF ActiveIsEnforced, Shown
<1> HIDE DEF SInv
<1> QED BY <1>1, <1>2, <1>3, Invariance, PTL DEF Spec

-----------------------------------------------------------------------------
\* The expiry task removes an address only when no lease on it still runs.

\* No block of the spelling of row id has a lease that still runs.
RunOut(id) ==
  \A other \in PendingBlocks : actions[other].ip = actions[id].ip => ~Live(other)

\* A pass stays with rows whose spelling has run out: while it holds the lock no
\* lease is added, and time only ends more of them.
PassRunOut ==
  /\ pc[Expiry] # "idle" => \A id \in todo : RunOut(id)
  /\ pc[Expiry] = "undoDel" => job[Expiry].id \in todo

\* What a step does to a pass under way.
PassGoesOn ==
  /\ count' = count
  /\ now <= now'
  /\ pc'[Expiry] # "idle" => todo' \subseteq todo
  /\ pc'[Expiry] = "undoDel" => job'[Expiry].id \in todo'

LEMMA Elsewhere ==
  ASSUME IInv, pc[Expiry] # "idle"
  PROVE  /\ lock = Expiry /\ lock # Free
         /\ \A t \in Workers \cup Operators : t # Expiry /\ pc[t] \in {"idle", "waiting"}
         /\ now \in Nat /\ now <= now
<1>1. lock = Expiry
  BY DEF IInv, TypeOK, LabelsOK, ExpiryLabels, Mutex, Tasks
<1> QED BY <1>1, TaskAssumption DEF IInv, TypeOK, Mutex, Tasks

LEMMA StepGoesOn ==
  ASSUME IInv, PassRunOut, pc[Expiry] # "idle", [Next]_vars
  PROVE  PassGoesOn
<1> USE Elsewhere, TaskAssumption DEF IInv, TypeOK, LabelsOK, PassRunOut, PassGoesOn
<1>1. ASSUME NEW w \in Workers, Decide(w) \/ Respond(w) \/ Blocking(w) PROVE PassGoesOn
  <2>1. Decide(w)
    BY <1>1 DEF Respond, RecordIntent, RecordResponse, Blocking, BlockRead, BlockAdd, BlockConfirm
  <2> QED BY <2>1 DEF Decide, Goto, stored, Tasks
<1>2. ASSUME NEW o \in Operators,
             UnblockBegin(o) \/ RevokeBegin(o) \/ RevokeRecord(o) \/ CloseRelated(o)
      PROVE  PassGoesOn
  <2>1. RevokeRecord(o)
    BY <1>2 DEF UnblockBegin, RevokeBegin, CloseRelated
  <2> QED BY <2>1 DEF RevokeRecord, process
<1>3. ASSUME NEW t \in Operators \cup {Expiry}, Undoing(t) PROVE PassGoesOn
  <2>1. t = Expiry
    BY <1>3 DEF Undoing, UndoDel, UndoRefused, UndoRead
  <2> QED BY <1>3, <2>1 DEF Undoing, UndoDel, UndoRefused, UndoRead, GiveUp, Goto, stored, Tasks
<1>4. ASSUME ReconcileBegin \/ Expiring PROVE PassGoesOn
  <2>1. CASE ReconcileNext
    BY <2>1 DEF ReconcileNext, First, Goto, stored, Tasks, Job
  <2>2. CASE ReconcileEnd
    BY <2>2 DEF ReconcileEnd, Leave, Goto, stored, Tasks
  <2>3. CASE CloseExpired \/ AuditExpired
    BY <2>3 DEF CloseExpired, AuditExpired, Goto, Tasks
  <2> QED BY <1>4, <2>1, <2>2, <2>3 DEF ReconcileBegin, Expiring
<1>5. ASSUME NEW t \in Tasks, CommandFails(t) \/ DatabaseError(t) PROVE PassGoesOn
  <2>1. t = Expiry
    BY <1>5 DEF CommandFails, DatabaseError, Tasks
  <2> QED BY <1>5, <2>1 DEF CommandFails, DatabaseError, GiveUp, Leave, Goto, stored, Tasks
<1>6. ASSUME Reload \/ Crash \/ Tick PROVE PassGoesOn
  <2>1. CASE Reload
    BY <2>1 DEF Reload, stored, process
  <2>2. CASE Crash
    BY <2>2 DEF Crash, stored, Tasks
  <2>3. CASE Tick
    BY <2>3 DEF Tick, stored, process
  <2> QED BY <1>6, <2>1, <2>2, <2>3
<1>7. CASE UNCHANGED vars
  BY <1>7 DEF vars, stored, process
<1> QED BY <1>1, <1>2, <1>3, <1>4, <1>5, <1>6, <1>7 DEF Next

LEMMA RunOutStays ==
  ASSUME IInv, IInv', Effect, count' = count, now <= now', NEW id \in Ids, RunOut(id)
  PROVE  RunOut(id)'
<1> USE DEF IInv
<1>1. /\ PendingBlocks' \subseteq PendingBlocks
      /\ \A i \in Ids : actions'[i].ip = actions[i].ip /\ actions'[i].expires = actions[i].expires
  <2>1. CASE UNCHANGED actions
    BY <2>1 DEF PendingBlocks, Pending
  <2>2. CASE \E other \in Ids, how \in {"applied", "expired", "revoked"} :
               /\ how = "applied" => other \in PendingBlocks
               /\ Finish(other, how)
    <3>1. PICK other \in Ids, how \in {"applied", "expired", "revoked"} :
               /\ how = "applied" => other \in PendingBlocks
               /\ Finish(other, how)
      BY <2>2
    <3>2. \A i \in Ids : /\ actions'[i].ip = actions[i].ip
                         /\ actions'[i].kind = actions[i].kind
                         /\ actions'[i].expires = actions[i].expires
      BY <3>1 DEF Finish, TypeOK, Row
    <3>3. /\ actions'[other].state = how
          /\ \A i \in Ids : i # other => actions'[i] = actions[i]
      BY <3>1, FinishEffect
    <3>4. ASSUME NEW i \in Ids, i \in PendingBlocks' PROVE i \in PendingBlocks
      BY <3>1, <3>2, <3>3, <3>4 DEF PendingBlocks, Pending
    <3> QED BY <3>2, <3>4 DEF PendingBlocks
  <2>3. ~ \E j \in Job, status \in {"applying", "applied", "unapplied"}, ruled \in BOOLEAN :
            Insert(j, status, ruled)
    <3>1. count' # count + 1
      BY DEF TypeOK
    <3> QED BY <3>1 DEF Insert
  <2>4. TableStep => \E other \in Ids, how \in {"applied", "expired", "revoked"} :
                       /\ how = "applied" => other \in PendingBlocks
                       /\ Finish(other, how)
    BY <2>3 DEF TableStep, PendingBlocks
  <2> QED BY <2>1, <2>2, <2>4 DEF Effect
<1>2. ASSUME NEW other \in PendingBlocks', actions'[other].ip = actions'[id].ip
      PROVE  ~(actions'[other].expires > now')
  <2>1. other \in PendingBlocks /\ other \in Ids /\ actions[other].ip = actions[id].ip
    BY <1>1, <1>2 DEF PendingBlocks
  <2>2. ~(actions[other].expires > now) /\ actions[other].expires \in Nat
    BY <2>1 DEF RunOut, Live, TypeOK, Row
  <2> QED BY <1>1, <2>1, <2>2 DEF TypeOK
<1> QED BY <1>2 DEF RunOut, Live

LEMMA PassBegins ==
  ASSUME IInv, IInv', [Next]_vars, pc[Expiry] = "idle", pc'[Expiry] # "idle"
  PROVE  ReconcileBegin
<1> USE TaskAssumption DEF IInv, TypeOK, LabelsOK, Tasks
<1>1. ASSUME NEW t \in Workers \cup Operators, Goto(t, "idle") PROVE FALSE
  BY <1>1 DEF Goto
<1>2. ASSUME NEW w \in Workers, Decide(w) \/ Respond(w) \/ Blocking(w) PROVE FALSE
  BY <1>2 DEF Decide, Respond, RecordIntent, RecordResponse, Blocking, BlockRead, BlockAdd,
     BlockConfirm, Leave, Goto
<1>3. ASSUME NEW o \in Operators,
             UnblockBegin(o) \/ RevokeBegin(o) \/ RevokeRecord(o) \/ CloseRelated(o)
      PROVE  FALSE
  BY <1>3 DEF UnblockBegin, RevokeBegin, RevokeRecord, CloseRelated, Leave, Goto, process
<1>4. ASSUME NEW t \in Operators \cup {Expiry}, Undoing(t) PROVE FALSE
  BY <1>4 DEF Undoing, UndoDel, UndoRefused, UndoRead, GiveUp, Leave, Goto
<1>5. ASSUME Expiring PROVE FALSE
  BY <1>5 DEF Expiring, ReconcileNext, ReconcileEnd, CloseExpired, AuditExpired
<1>6. ASSUME NEW t \in Tasks, CommandFails(t) \/ DatabaseError(t) PROVE FALSE
  BY <1>6 DEF CommandFails, DatabaseError, GiveUp, Leave, Goto
<1>7. ASSUME Reload \/ Crash \/ Tick \/ UNCHANGED vars PROVE FALSE
  BY <1>7 DEF Reload, Crash, Tick, vars, process
<1> QED BY <1>2, <1>3, <1>4, <1>5, <1>6, <1>7 DEF Next

LEMMA StepRunsOut == IInv /\ PassRunOut /\ [Next]_vars => PassRunOut'
<1> SUFFICES ASSUME IInv, IInv', PassRunOut, [Next]_vars PROVE PassRunOut'
  BY IInvInductive
<1>1. CASE pc[Expiry] # "idle"
  <2>1. PassGoesOn
    BY <1>1, StepGoesOn
  <2>2. ASSUME pc'[Expiry] # "idle", NEW id \in todo' PROVE RunOut(id)'
    <3>1. id \in todo /\ id \in Ids /\ RunOut(id)
      BY <1>1, <2>1, <2>2 DEF PassGoesOn, PassRunOut, IInv, TypeOK
    <3> QED BY <2>1, <3>1, StepEffect, RunOutStays DEF PassGoesOn
  <2> QED BY <2>1, <2>2 DEF PassGoesOn, PassRunOut
<1>2. CASE pc[Expiry] = "idle" /\ pc'[Expiry] # "idle"
  <2>1. ReconcileBegin
    BY <1>2, PassBegins
  <2>2. todo' = Due /\ pc'[Expiry] = "scan" /\ UNCHANGED <<actions, now>>
    BY <2>1 DEF ReconcileBegin, Goto, stored, IInv, TypeOK, LabelsOK, Tasks
  <2>3. ASSUME NEW id \in Due PROVE RunOut(id)'
    BY <2>2 DEF Due, RunOut, PendingBlocks, Pending, Live
  <2> QED BY <2>2, <2>3 DEF PassRunOut
<1>3. CASE pc'[Expiry] = "idle"
  BY <1>3 DEF PassRunOut
<1> QED BY <1>1, <1>2, <1>3

\* A step in which the expiry task leaves `del acl' takes nothing but the
\* address of its row out of the ACL.
LEMMA Deletes ==
  ASSUME IInv, [Next]_vars, pc[Expiry] = "undoDel", pc'[Expiry] # "undoDel"
  PROVE  acl \ acl' \subseteq {Addr(Expiry)}
<1> USE Elsewhere, TaskAssumption DEF IInv, TypeOK, LabelsOK
<1>1. ASSUME NEW w \in Workers, Decide(w) \/ Respond(w) \/ Blocking(w) PROVE acl' = acl
  BY <1>1 DEF Decide, Respond, RecordIntent, RecordResponse, Blocking, BlockRead, BlockAdd, BlockConfirm
<1>2. ASSUME NEW o \in Operators,
             UnblockBegin(o) \/ RevokeBegin(o) \/ RevokeRecord(o) \/ CloseRelated(o)
      PROVE  acl' = acl
  BY <1>2 DEF UnblockBegin, RevokeBegin, RevokeRecord, CloseRelated
<1>3. ASSUME NEW t \in Operators \cup {Expiry}, Undoing(t) PROVE acl \ acl' \subseteq {Addr(Expiry)}
  BY <1>3 DEF Undoing, UndoDel, UndoRefused, UndoRead
<1>4. ASSUME ReconcileBegin \/ Expiring PROVE acl' = acl
  BY <1>4 DEF ReconcileBegin, Expiring, ReconcileNext, ReconcileEnd, CloseExpired, AuditExpired
<1>5. ASSUME NEW t \in Tasks, CommandFails(t) \/ DatabaseError(t)
      PROVE  acl \ acl' \subseteq {Addr(Expiry)}
  BY <1>5 DEF CommandFails, DatabaseError, Tasks
<1>6. ASSUME Crash \/ Tick \/ UNCHANGED vars PROVE acl' = acl
  BY <1>6 DEF Crash, Tick, vars
<1>7. ~Reload
  BY DEF Reload, process
<1> QED BY <1>1, <1>2, <1>3, <1>4, <1>5, <1>6, <1>7 DEF Next

\* The expiry task never takes an address out of HAProxy while a lease on it
\* still runs, whatever fails and however many rows there are: where events spell
\* addresses canonically.
THEOREM LongestLeaseKept ==
  ASSUME CanonicalSpellings
  PROVE  Spec => KeepsLongestLease
<1>1. Init => PassRunOut
  BY DEF Init, PassRunOut, Tasks
<1>2. IInv /\ PassRunOut /\ [Next]_vars => PassRunOut'
  BY StepRunsOut
<1>3. IInv /\ PassRunOut /\ [Next]_vars => RemovesOnlyExpired
  <2> SUFFICES ASSUME IInv, PassRunOut, [Next]_vars,
                      pc[Expiry] = "undoDel", pc'[Expiry] # "undoDel",
                      NEW a \in acl \ acl', NEW id \in PendingBlocks, Canon[actions[id].ip] = a
               PROVE  ~Live(id)
    BY DEF RemovesOnlyExpired
  <2>1. /\ job[Expiry].id \in todo /\ RunOut(job[Expiry].id)
        /\ job[Expiry].id \in Ids /\ actions[job[Expiry].id].ip = job[Expiry].ip
    BY DEF PassRunOut, IInv, TypeOK, PassHeld, UndoLabels
  <2>2. Canon[job[Expiry].ip] = a
    BY Deletes DEF Addr
  <2>3. a \in Ips /\ a # Invalid /\ job[Expiry].ip \in Ips /\ actions[id].ip \in Ips
    BY <2>1, CanonAssumption DEF IInv, TypeOK, Row, PendingBlocks
  <2>4. job[Expiry].ip = a /\ actions[id].ip = a
    BY <2>2, <2>3 DEF CanonicalSpellings, Valid
  <2> QED BY <2>1, <2>4 DEF RunOut
<1> QED BY <1>1, <1>2, <1>3, Invariance, PTL DEF Spec, KeepsLongestLease

-----------------------------------------------------------------------------
\* Enforcement implements BlockLease.

used == {id \in Ids : actions[id].state # "absent"}
open == {[id |-> id, addr |-> Canon[actions[id].ip]] : id \in PendingBlocks}

LEMMA OpenLease ==
  \A l : l \in open <=> \E id \in PendingBlocks : l = [id |-> id, addr |-> Canon[actions[id].ip]]
  BY DEF open

LEMMA InitLeases == Init => Leases!Init
<1> SUFFICES ASSUME Init PROVE used = {} /\ open = {} /\ acl = {}
  BY DEF Leases!Init, used, open
<1>1. \A id \in Ids : actions[id].state = "absent"
  BY DEF Init, Absent
<1> QED BY <1>1 DEF Init, used, open, PendingBlocks, Pending

LEMMA InsertLeases ==
  ASSUME IInv, NEW j \in Job, NEW ruled \in BOOLEAN, UNCHANGED acl,
         NEW status \in {"applying", "applied", "unapplied"}, Insert(j, status, ruled)
  PROVE  Leases!Next
<1> DEFINE new == count + 1
<1>1. /\ new \in Ids
      /\ actions[new].state = "absent"
      /\ actions'[new].state = status /\ actions'[new].kind = j.kind /\ actions'[new].ip = j.ip
      /\ \A i \in Ids : i # new => actions'[i] = actions[i]
  BY InsertEffect DEF IInv
<1>2. new \notin used /\ used' = used \cup {new}
  BY <1>1 DEF used
<1>3. PendingBlocks \subseteq Ids /\ new \notin PendingBlocks
  BY <1>1 DEF PendingBlocks, Pending
<1>4. Canon[j.ip] \in Ips \cup {Invalid}
  BY CanonAssumption DEF Job
<1>5. CASE j.kind = "block" /\ status \in {"applying", "applied"}
  <2>1. PendingBlocks' = PendingBlocks \cup {new}
    BY <1>1, <1>3, <1>5 DEF PendingBlocks, Pending
  <2>2. open' = open \cup {[id |-> new, addr |-> Canon[j.ip]]}
    BY <1>1, <1>3, <2>1 DEF open
  <2>3. Leases!Grant(new, Canon[j.ip])
    BY <1>2, <2>2 DEF Leases!Grant, Leases!Lease, used, open
  <2> QED BY <1>1, <1>4, <2>3 DEF Leases!Next
<1>6. CASE ~(j.kind = "block" /\ status \in {"applying", "applied"})
  <2>1. PendingBlocks' = PendingBlocks
    BY <1>1, <1>3, <1>6 DEF PendingBlocks, Pending
  <2>2. open' = open
    BY <1>1, <1>3, <2>1 DEF open
  <2>3. Leases!Record(new)
    BY <1>2, <2>2 DEF Leases!Record, used, open
  <2> QED BY <1>1, <2>3 DEF Leases!Next, Leases!Record
<1> QED BY <1>5, <1>6

LEMMA FinishLeases ==
  ASSUME IInv, NEW id \in Ids, actions[id].state # "absent", UNCHANGED acl,
         NEW how \in {"applied", "expired", "revoked"}, Finish(id, how),
         how = "applied" => id \in PendingBlocks,
         how # "applied" /\ id \in PendingBlocks => Canon[actions[id].ip] \notin acl
  PROVE  [Leases!Next]_(Leases!vars)
<1>1. /\ actions'[id].state = how
      /\ \A i \in Ids : /\ actions'[i].ip = actions[i].ip
                        /\ actions'[i].kind = actions[i].kind
                        /\ i # id => actions'[i] = actions[i]
  BY FinishEffect DEF IInv
<1>2. used' = used
  BY <1>1 DEF used
<1>3. PendingBlocks \subseteq Ids
  BY DEF PendingBlocks
<1>4. CASE how = "applied" \/ id \notin PendingBlocks
  <2>1. PendingBlocks' = PendingBlocks
    BY <1>1, <1>4 DEF PendingBlocks, Pending
  <2>2. open' = open
    BY <1>1, <1>3, <2>1 DEF open
  <2> QED BY <1>2, <2>2 DEF Leases!vars, used, open
<1>5. CASE how # "applied" /\ id \in PendingBlocks
  <2> DEFINE l == [id |-> id, addr |-> Canon[actions[id].ip]]
  <2>1. PendingBlocks' = PendingBlocks \ {id}
    BY <1>1, <1>5 DEF PendingBlocks, Pending
  <2>2. open' = open \ {l}
    BY <1>1, <1>3, <2>1 DEF open
  <2>3. l \in open
    BY <1>5 DEF open
  <2>4. Leases!Close(l)
    BY <1>2, <1>5, <2>2, <2>3 DEF Leases!Close, used, open
  <2> QED BY <2>3, <2>4 DEF Leases!Next, Leases!Close, open
<1> QED BY <1>4, <1>5

LEMMA AclLeases ==
  ASSUME IInv, AclStep, UNCHANGED actions
  PROVE  Leases!Next
<1>1. used' = used /\ open' = open
  BY DEF used, open, PendingBlocks, Pending
<1>2. CASE \E id \in PendingBlocks : acl' = acl \cup {Canon[actions[id].ip]}
  <2>1. PICK id \in PendingBlocks : acl' = acl \cup {Canon[actions[id].ip]}
    BY <1>2
  <2>2. Canon[actions[id].ip] \in Ips \cup {Invalid}
    BY CanonAssumption DEF IInv, TypeOK, Row, PendingBlocks
  <2>3. [id |-> id, addr |-> Canon[actions[id].ip]] \in open
    BY DEF open
  <2>4. Leases!Enforce(Canon[actions[id].ip])
    BY <1>1, <2>1, <2>3 DEF Leases!Enforce, used, open
  <2> QED BY <2>2, <2>4 DEF Leases!Next
<1>3. CASE \E a \in Ips : acl' = acl \ {a}
  <2>1. PICK a \in Ips : acl' = acl \ {a}
    BY <1>3
  <2>2. Leases!Lift(a)
    BY <1>1, <2>1 DEF Leases!Lift, used, open
  <2> QED BY <2>2 DEF Leases!Next
<1>4. CASE acl' = {}
  BY <1>1, <1>4 DEF Leases!Next, Leases!Forget, used, open
<1> QED BY <1>2, <1>3, <1>4 DEF AclStep

LEMMA StepLeases == IInv /\ [Next]_vars => [Leases!Next]_(Leases!vars)
<1> SUFFICES ASSUME IInv, Effect PROVE [Leases!Next]_(Leases!vars)
  BY StepEffect
<1>1. CASE UNCHANGED <<actions, acl>>
  BY <1>1 DEF Leases!vars, PendingBlocks, Pending
<1>2. CASE TableStep /\ UNCHANGED acl
  <2>1. CASE \E j \in Job, status \in {"applying", "applied", "unapplied"}, ruled \in BOOLEAN :
               Insert(j, status, ruled)
    BY <1>2, <2>1, InsertLeases
  <2>2. CASE \E id \in PendingBlocks : Finish(id, "applied")
    BY <1>2, <2>2, FinishLeases DEF PendingBlocks, Pending
  <2>3. CASE \E id \in PendingBlocks, how \in {"expired", "revoked"} :
               Canon[actions[id].ip] \notin acl /\ Finish(id, how)
    BY <1>2, <2>3, FinishLeases DEF PendingBlocks, Pending
  <2>4. CASE \E id \in Ids : actions[id].state \in {"unapplied", "expired"} /\ Finish(id, "revoked")
    BY <1>2, <2>4, FinishLeases DEF PendingBlocks, Pending
  <2> QED BY <1>2, <2>1, <2>2, <2>3, <2>4 DEF TableStep
<1>3. CASE AclStep /\ UNCHANGED actions
  BY <1>3, AclLeases
<1> QED BY <1>1, <1>2, <1>3 DEF Effect

\* The table and HAProxy's ACL only ever change as BlockLease allows, under
\* every interleaving, crash and lost reply.
THEOREM Implementation == Spec => ImplementsLeases
  BY InitLeases, Invariance, StepLeases, PTL DEF Spec, ImplementsLeases, Leases!Spec
=============================================================================
