--------------------------- MODULE IncidentsProofs ---------------------------
(***************************************************************************)
(* Theorems about Incidents, for every set of subjects and of requests.    *)
(***************************************************************************)
EXTENDS Incidents, TLAPS

\* The event loop inserts only for a subject whose incidents are all closed,
\* but for those an operator has reopened since it looked.
CreateSafe ==
  pc[Service] = "create" =>
    \A id \in Stored :
      incidents[id].subject = job[Service].subject /\ IsOpen(id) =>
        id \in raced

IInv == TypeOK /\ OneOpenIncident /\ CreateSafe

LEMMA Blank == AnySubject \in Subjects /\ AnyRisk \in Risks /\ NoJob \in Job
<1>1. AnySubject \in Subjects /\ AnyRisk \in Risks
  BY IncidentAssumption DEF AnySubject, AnyRisk
<1>2. <<>> \in Seq(Entry)
  OBVIOUS
<1> QED BY <1>1, <1>2 DEF NoJob, Job, Statuses

LEMMA InitInv == Init => IInv
<1> SUFFICES ASSUME Init PROVE IInv
  OBVIOUS
<1>1. Stored = {} /\ incidents \in Seq(Row) /\ Len(incidents) = 0
  BY DEF Init, Stored
<1>2. TypeOK
  BY <1>1, Blank, IncidentAssumption DEF Init, TypeOK, Threads
<1> QED BY <1>1, <1>2, IncidentAssumption DEF Init, IInv, OneOpenIncident, CreateSafe, Threads

Labels == {"idle", "create", "riskRead", "riskWrite", "patchWrite"}

LEMMA Rows ==
  ASSUME TypeOK
  PROVE  /\ Stored = 1..Len(incidents) /\ Stored \subseteq Ids
         /\ \A id \in Stored : incidents[id] \in Row
  BY IncidentAssumption DEF TypeOK, Stored, Ids

\* A thread that takes up a well-formed job keeps the threads well-formed.
LEMMA TakeTyped ==
  ASSUME TypeOK, NEW t \in Threads, NEW j \in Job, NEW label \in Labels,
         Take(t, j, label), label \in {"idle", "create"} \/ j.id \in Stored,
         Stored \subseteq Stored'
  PROVE  /\ pc' \in [Threads -> Labels] /\ job' \in [Threads -> Job]
         /\ \A u \in Threads : pc'[u] \notin {"idle", "create"} => job'[u].id \in Stored'
         /\ pc'[t] = label /\ job'[t] = j
         /\ \A u \in Threads : u # t => pc'[u] = pc[u] /\ job'[u] = job[u]
  BY DEF TypeOK, Take, Labels

\* A step that opens no incident keeps the invariant of open incidents.
LEMMA OpensNothing ==
  ASSUME OneOpenIncident, CreateSafe, Stored' = Stored,
         \A id \in Stored : /\ incidents'[id].subject = incidents[id].subject
                            /\ IsOpen(id)' => IsOpen(id) /\ (id \in raced => id \in raced')
  PROVE  /\ OneOpenIncident'
         /\ pc'[Service] # "create" => CreateSafe'
         /\ pc'[Service] = pc[Service] /\ job'[Service] = job[Service] => CreateSafe'
  BY DEF OneOpenIncident, CreateSafe

LEMMA OpenIncidentStep ==
  ASSUME IInv, OpenIncident  PROVE IInv'
<1>1. UNCHANGED <<incidents, raced, clock, patches>> /\ events' \in 0..MaxEvents
  BY IncidentAssumption DEF OpenIncident, table, IInv, TypeOK
<1>2. Stored' = Stored /\ \A id \in Stored : IsOpen(id)' <=> IsOpen(id)
  BY <1>1 DEF Stored, IsOpen
<1>3. Service \in Threads
  BY DEF Threads
<1>4. CASE \E s \in Subjects, r \in Risks :
             OpenIds(s) = {} /\ Take(Service, EventJob(s, r, 0), "create")
  <2>1. PICK s \in Subjects, r \in Risks :
          OpenIds(s) = {} /\ Take(Service, EventJob(s, r, 0), "create")
    BY <1>4
  <2>2. EventJob(s, r, 0) \in Job /\ EventJob(s, r, 0).subject = s
    BY Blank DEF EventJob, Job, NoJob
  <2>3. TypeOK'
    BY <1>1, <1>2, <1>3, <2>1, <2>2, TakeTyped DEF IInv, TypeOK, Labels
  <2>4. job'[Service].subject = s
    BY <1>2, <1>3, <2>1, <2>2, TakeTyped DEF IInv, Labels
  <2>5. CreateSafe'
    BY <1>1, <1>2, <2>1, <2>4 DEF CreateSafe, OpenIds
  <2>6. OneOpenIncident'
    BY <1>1, <1>2, OpensNothing DEF IInv
  <2> QED BY <2>3, <2>5, <2>6 DEF IInv
<1>5. CASE \E s \in Subjects, r \in Risks, id \in Stored :
             Take(Service, EventJob(s, r, id), "riskRead")
  <2>1. PICK s \in Subjects, r \in Risks, id \in Stored :
          Take(Service, EventJob(s, r, id), "riskRead")
    BY <1>5
  <2>2. EventJob(s, r, id) \in Job /\ EventJob(s, r, id).id = id
    BY Blank, Rows DEF EventJob, Job, NoJob, IInv
  <2>3. TypeOK' /\ pc'[Service] = "riskRead"
    BY <1>1, <1>2, <1>3, <2>1, <2>2, TakeTyped DEF IInv, TypeOK, Labels
  <2> QED BY <1>1, <1>2, <2>3, OpensNothing DEF IInv
<1> QED BY <1>4, <1>5 DEF OpenIncident, OpenIds

LEMMA CreateIncidentStep ==
  ASSUME IInv, CreateIncident  PROVE IInv'
<1> DEFINE new == Len(incidents) + 1
<1> DEFINE row == [subject |-> job[Service].subject, status |-> "neu",
                   risk |-> job[Service].risk, updated |-> clock + 1,
                   timeline |-> <<[status |-> "neu", risk |-> 0]>>]
<1>1. Service \in Threads /\ job[Service] \in Job
  BY DEF Threads, IInv, TypeOK
<1>2. <<[status |-> "neu", risk |-> 0]>> \in Seq(Entry)
  BY DEF Entry, Statuses
<1>3. row \in Row
  BY <1>1, <1>2 DEF Row, Job, Statuses, IInv, TypeOK
<1>4. /\ incidents' \in Seq(Row) /\ Len(incidents') = new /\ incidents'[new] = row
      /\ \A id \in Stored : incidents'[id] = incidents[id]
      /\ Stored' = Stored \cup {new} /\ new <= MaxIncidents
  BY <1>3, Rows, IncidentAssumption DEF CreateIncident, IInv, TypeOK, Stored
<1>5. Take(Service, NoJob, "idle") /\ UNCHANGED <<events, patches, raced>>
  BY DEF CreateIncident, Done, bounds
<1>6. TypeOK' /\ pc'[Service] = "idle"
  BY <1>1, <1>4, <1>5, TakeTyped, Blank DEF IInv, TypeOK, Labels, CreateIncident
<1>7. \A id \in Stored : incidents[id].subject = row.subject /\ IsOpen(id) =>
                        id \in raced
  BY DEF IInv, CreateSafe, CreateIncident
<1>8. OneOpenIncident'
  <2> SUFFICES ASSUME NEW i \in Stored', NEW j \in Stored', IsOpen(i)', IsOpen(j)',
                      incidents'[i].subject = incidents'[j].subject, i # j
               PROVE  i \in raced \/ j \in raced
    BY <1>5 DEF OneOpenIncident
  <2>1. CASE i \in Stored /\ j \in Stored
    BY <1>4, <2>1 DEF IInv, OneOpenIncident, IsOpen
  <2>2. CASE i = new /\ j \in Stored
    BY <1>4, <1>7, <2>2 DEF IsOpen
  <2>3. CASE j = new /\ i \in Stored
    BY <1>4, <1>7, <2>3 DEF IsOpen
  <2> QED BY <1>4, <2>1, <2>2, <2>3
<1> QED BY <1>6, <1>8 DEF IInv, CreateSafe

LEMMA RiskReadStep ==
  ASSUME IInv, RiskRead  PROVE IInv'
<1> DEFINE row == incidents[job[Service].id]
<1> DEFINE entry == [status |-> row.status, risk |-> job[Service].risk]
<1> DEFINE read == [job[Service] EXCEPT !.status = row.status,
                                        !.timeline = Append(row.timeline, entry),
                                        !.at = clock + 1]
<1>1. Service \in Threads /\ job[Service] \in Job /\ job[Service].id \in Stored
  BY DEF Threads, IInv, TypeOK, RiskRead
<1>2. row \in Row /\ clock + 1 \in Nat
  BY <1>1, Rows DEF IInv, TypeOK
<1>3. entry \in Entry
  BY <1>1, <1>2 DEF Row, Job, Entry
<1>4. Append(row.timeline, entry) \in Seq(Entry)
  BY <1>2, <1>3 DEF Row
<1>5. read \in Job /\ read.id = job[Service].id
  BY <1>1, <1>2, <1>4 DEF Row, Job
<1>6. Take(Service, read, "riskWrite") /\ UNCHANGED <<table, events, patches>> /\ clock' = clock + 1
  BY DEF RiskRead, bounds
<1>7. UNCHANGED <<incidents, raced>> /\ Stored' = Stored
      /\ \A id \in Stored : IsOpen(id)' <=> IsOpen(id)
  BY <1>6 DEF table, Stored, IsOpen
<1>8. TypeOK' /\ pc'[Service] = "riskWrite"
  BY <1>1, <1>2, <1>5, <1>6, <1>7, TakeTyped DEF IInv, TypeOK, Labels
<1> QED BY <1>7, <1>8, OpensNothing DEF IInv

LEMMA RiskWriteStep ==
  ASSUME IInv, RiskWrite  PROVE IInv'
<1> DEFINE n == job[Service].id
<1> DEFINE row == [incidents[n] EXCEPT !.risk = job[Service].risk,
                                       !.updated = job[Service].at,
                                       !.timeline = job[Service].timeline]
<1>1. Service \in Threads /\ job[Service] \in Job /\ n \in Stored
  BY DEF Threads, IInv, TypeOK, RiskWrite
<1>2. incidents[n] \in Row
  BY <1>1, Rows DEF IInv
<1>3. row \in Row /\ row.status = incidents[n].status /\ row.subject = incidents[n].subject
  BY <1>1, <1>2 DEF Row, Job
<1>4. incidents' = [incidents EXCEPT ![n] = row]
  BY DEF RiskWrite
<1>5. incidents' \in Seq(Row) /\ Len(incidents') = Len(incidents) /\ Stored' = Stored
      /\ \A id \in Stored : /\ incidents'[id].status = incidents[id].status
                            /\ incidents'[id].subject = incidents[id].subject
  BY <1>1, <1>3, <1>4, Rows DEF IInv, TypeOK, Stored
<1>6. Take(Service, NoJob, "idle") /\ UNCHANGED <<clock, events, patches, raced>>
  BY DEF RiskWrite, Done, bounds
<1>7. TypeOK' /\ pc'[Service] = "idle"
  BY <1>1, <1>5, <1>6, TakeTyped, Blank DEF IInv, TypeOK, Labels
<1> QED BY <1>5, <1>6, <1>7, OpensNothing DEF IInv, IsOpen

LEMMA PatchReadStep ==
  ASSUME IInv, NEW q \in Requests, PatchRead(q)  PROVE IInv'
<1>1. PICK id \in Stored, status \in Statuses :
        Take(q, [PatchJob(id, status) EXCEPT !.at = clock + 1], "patchWrite")
  BY DEF PatchRead
<1> DEFINE entry == [status |-> status, risk |-> 0]
<1> DEFINE read == [PatchJob(id, status) EXCEPT !.at = clock + 1]
<1>2. q \in Threads /\ q # Service /\ Service \in Threads
  BY IncidentAssumption DEF Threads
<1>3. incidents[id] \in Row /\ entry \in Entry
  BY Rows DEF IInv, Entry
<1>4. Append(incidents[id].timeline, entry) \in Seq(Entry)
  BY <1>3 DEF Row
<1>5. id \in Ids /\ clock + 1 \in Nat
  BY Rows DEF IInv, TypeOK
<1>6. read \in Job /\ read.id = id
  BY <1>4, <1>5, Blank DEF PatchJob, Job, NoJob
<1>7. /\ UNCHANGED <<incidents, raced, events>> /\ Stored' = Stored
      /\ \A i \in Stored : IsOpen(i)' <=> IsOpen(i)
      /\ clock' = clock + 1 /\ patches' \in 0..MaxPatches
  BY IncidentAssumption DEF PatchRead, table, Stored, IsOpen, IInv, TypeOK
<1>8. TypeOK' /\ pc'[Service] = pc[Service] /\ job'[Service] = job[Service]
  BY <1>1, <1>2, <1>5, <1>6, <1>7, TakeTyped DEF IInv, TypeOK, Labels
<1> QED BY <1>7, <1>8, OpensNothing DEF IInv

LEMMA PatchWriteStep ==
  ASSUME IInv, NEW q \in Requests, PatchWrite(q)  PROVE IInv'
<1> DEFINE n == job[q].id
<1> DEFINE row == [incidents[n] EXCEPT !.status = job[q].status,
                                       !.updated = job[q].at,
                                       !.timeline = job[q].timeline]
<1>1. q \in Threads /\ q # Service /\ Service \in Threads /\ job[q] \in Job /\ n \in Stored
  BY IncidentAssumption DEF Threads, IInv, TypeOK, PatchWrite
<1>2. incidents[n] \in Row
  BY <1>1, Rows DEF IInv
<1>3. row \in Row /\ row.status = job[q].status /\ row.subject = incidents[n].subject
  BY <1>1, <1>2 DEF Row, Job
<1>4. incidents' = [incidents EXCEPT ![n] = row]
  BY DEF PatchWrite
<1>5. incidents' \in Seq(Row) /\ Len(incidents') = Len(incidents) /\ Stored' = Stored
      /\ incidents'[n] = row
      /\ \A id \in Stored : /\ incidents'[id].subject = incidents[id].subject
                            /\ id # n => incidents'[id] = incidents[id]
  BY <1>1, <1>3, <1>4, Rows DEF IInv, TypeOK, Stored
<1>6. Take(q, NoJob, "idle") /\ UNCHANGED <<clock, events, patches>>
  BY DEF PatchWrite, Done, bounds
<1>7. /\ raced' \subseteq raced \cup {n} /\ raced \ {n} \subseteq raced'
      /\ job[q].status # Closed /\ n \in raced => n \in raced'
      /\ job[q].status # Closed /\ ~IsOpen(n) /\ Company(n) => n \in raced'
  BY DEF PatchWrite
<1>8. TypeOK' /\ pc'[Service] = pc[Service] /\ job'[Service] = job[Service]
  BY <1>1, <1>5, <1>6, <1>7, TakeTyped, Blank DEF IInv, TypeOK, Labels
<1>9. CASE job[q].status = Closed \/ IsOpen(n)
  <2>1. \A id \in Stored : id # n => (IsOpen(id)' => IsOpen(id)) /\ (id \in raced => id \in raced')
    BY <1>5, <1>7 DEF IsOpen
  <2>2. \A id \in Stored :
          id = n /\ IsOpen(id)' => IsOpen(id) /\ (id \in raced => id \in raced')
    BY <1>3, <1>5, <1>7, <1>9 DEF IsOpen
  <2>3. \A id \in Stored : IsOpen(id)' => IsOpen(id) /\ (id \in raced => id \in raced')
    BY <2>1, <2>2
  <2> QED BY <1>5, <1>8, <2>3, OpensNothing DEF IInv
<1>10. CASE job[q].status # Closed /\ ~IsOpen(n)
  <2>1. \A id \in Stored : id # n => (IsOpen(id)' <=> IsOpen(id))
    BY <1>5 DEF IsOpen
  <2>2. raced \subseteq raced'
    BY <1>7, <1>10
  <2>3. Company(n) => n \in raced'
    BY <1>7, <1>10
  <2>4. \A j \in Stored \ {n} :
          IsOpen(j) /\ incidents[j].subject = incidents[n].subject => Company(n)
    BY DEF Company, OpenIds
  <2>5. OneOpenIncident'
    <3> SUFFICES ASSUME NEW i \in Stored, NEW j \in Stored, IsOpen(i)', IsOpen(j)', i # j,
                        incidents[i].subject = incidents[j].subject
                 PROVE  i \in raced' \/ j \in raced'
      BY <1>5 DEF OneOpenIncident
    <3>1. CASE i = n
      BY <2>1, <2>3, <2>4, <3>1
    <3>2. CASE j = n
      BY <2>1, <2>3, <2>4, <3>2
    <3>3. CASE i # n /\ j # n
      BY <2>1, <2>2, <3>3 DEF IInv, OneOpenIncident
    <3> QED BY <3>1, <3>2, <3>3
  <2>6. CreateSafe'
    <3> SUFFICES ASSUME pc[Service] = "create", NEW id \in Stored, IsOpen(id)',
                        incidents[id].subject = job[Service].subject
                 PROVE  id \in raced'
      BY <1>5, <1>8 DEF CreateSafe
    <3>1. CASE id = n
      BY <2>3, <3>1 DEF Company
    <3>2. CASE id # n
      BY <2>1, <2>2, <3>2 DEF IInv, CreateSafe
    <3> QED BY <3>1, <3>2
  <2> QED BY <1>8, <2>5, <2>6 DEF IInv
<1> QED BY <1>9, <1>10

LEMMA AbortStep ==
  ASSUME IInv, NEW t \in Threads, Abort(t)  PROVE IInv'
<1>1. /\ Take(t, NoJob, "idle") /\ UNCHANGED <<incidents, raced, clock, events, patches>>
      /\ Stored' = Stored /\ \A i \in Stored : IsOpen(i)' <=> IsOpen(i)
  BY DEF Abort, Done, table, bounds, Stored, IsOpen
<1>2. /\ pc' \in [Threads -> Labels] /\ job' \in [Threads -> Job]
      /\ \A u \in Threads : pc'[u] \notin {"idle", "create"} => job'[u].id \in Stored'
      /\ pc'[t] = "idle"
      /\ \A u \in Threads : u # t => pc'[u] = pc[u] /\ job'[u] = job[u]
  BY <1>1, TakeTyped, Blank DEF IInv, Labels
<1>3. TypeOK'
  BY <1>1, <1>2 DEF IInv, TypeOK, Labels
<1>4. pc'[Service] = "idle" \/ (pc'[Service] = pc[Service] /\ job'[Service] = job[Service])
  BY <1>2 DEF Threads
<1> QED BY <1>1, <1>3, <1>4, OpensNothing DEF IInv

\* IInv is inductive.
THEOREM Invariance == Spec => []IInv
<1>1. IInv /\ [Next]_vars => IInv'
  <2> SUFFICES ASSUME IInv, [Next]_vars PROVE IInv'
    OBVIOUS
  <2>1. CASE UNCHANGED vars
    BY <2>1 DEF vars, table, bounds, IInv, TypeOK, OneOpenIncident, CreateSafe, Stored, IsOpen
  <2> QED BY <2>1, OpenIncidentStep, CreateIncidentStep, RiskReadStep, RiskWriteStep,
             PatchReadStep, PatchWriteStep, AbortStep DEF Next
<1> QED BY <1>1, InitInv, PTL DEF Spec

\* Every variable of the incident step stays in its domain, and no update in
\* flight names a row that is not there.
THEOREM TypeCorrect == Spec => []TypeOK
  BY Invariance, PTL DEF IInv

\* The events of a source and component never have two open incidents unless an
\* operator reopened one beside the other, or while the event loop was inserting it.
THEOREM IncidentsDoNotFork == Spec => []OneOpenIncident
  BY Invariance, PTL DEF IInv

\* The two writers of a row never put back a stale copy of the other's column.
THEOREM ColumnsStayApart == Spec => ColumnsKept
<1>1. IInv /\ [Next]_vars => [NoStaleColumn]_vars
  <2> SUFFICES ASSUME IInv, [Next]_vars PROVE NoStaleColumn
    OBVIOUS
  <2>1. CASE UNCHANGED incidents
    BY <2>1 DEF NoStaleColumn
  <2>2. CASE CreateIncident
    <3>1. \A id \in Stored : incidents'[id] = incidents[id]
      BY <2>2, Rows DEF CreateIncident, IInv, TypeOK, Stored
    <3> QED BY <3>1 DEF NoStaleColumn
  <2>3. CASE RiskWrite
    <3>1. incidents \in Seq(Row) /\ job[Service].id \in Stored
      BY <2>3 DEF RiskWrite, IInv, TypeOK, Threads
    <3>2. \A id \in Stored : incidents[id] \in Row
      BY Rows DEF IInv
    <3>3. \A id \in Stored : /\ incidents'[id].status = incidents[id].status
                             /\ incidents'[id].risk \in {incidents[id].risk, job[Service].risk}
      BY <2>3, <3>1, <3>2 DEF RiskWrite, Row, Stored
    <3> QED BY <2>3, <3>3 DEF NoStaleColumn, RiskWrite
  <2>4. ASSUME NEW q \in Requests, PatchWrite(q) PROVE NoStaleColumn
    <3>1. incidents \in Seq(Row) /\ job[q].id \in Stored
      BY <2>4 DEF PatchWrite, IInv, TypeOK, Threads
    <3>2. \A id \in Stored : /\ incidents'[id].risk = incidents[id].risk
                             /\ incidents'[id].status \in {incidents[id].status, job[q].status}
      BY <2>4, <3>1, Rows DEF PatchWrite, IInv, TypeOK, Row
    <3> QED BY <2>4, <3>2 DEF NoStaleColumn, PatchWrite
  <2> QED BY <2>1, <2>2, <2>3, <2>4
          DEF Next, vars, table, OpenIncident, RiskRead, PatchRead, Abort
<1> QED BY <1>1, Invariance, PTL DEF Spec, ColumnsKept
=============================================================================
