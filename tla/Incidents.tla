------------------------------ MODULE Incidents ------------------------------
(***************************************************************************)
(* The incidents table.  SentinelService.process looks for an open         *)
(* incident of an event's source and component and updates it or creates   *)
(* one, on the event loop; PATCH /incidents/{id} changes a status from a   *)
(* thread of the server's pool.  A `with self.connect()' block holds no    *)
(* lock between its SELECT and its UPDATE: each statement below is a step  *)
(* of its own.                                                             *)
(***************************************************************************)
EXTENDS Naturals, Sequences

CONSTANTS
  Subjects,     \* pairs of a source and a component
  Requests,     \* threads that serve PATCH /incidents/{id}
  Service,      \* the event loop, inside SentinelService.process
  Risks,        \* risk scores of an assessment
  MaxIncidents, \* bound: rows of the table
  MaxEvents,    \* bound: events that reach the incident step
  MaxPatches    \* bound: status changes requested

Statuses == {"neu", "analysiert", "bestaetigt", "geschlossen"}
Closed == "geschlossen"
Ids == 1..MaxIncidents
Threads == Requests \cup {Service}

ASSUME IncidentAssumption ==
  /\ Service \notin Requests
  /\ Subjects # {} /\ Risks # {} /\ Risks \subseteq 0..100
  /\ MaxIncidents \in Nat /\ MaxEvents \in Nat /\ MaxPatches \in Nat

VARIABLES
  incidents, \* the table, in the order of insertion
  pc, job,   \* where each thread is and what it has read
  clock,     \* order of the updated_at values written
  events,    \* events handled so far
  patches,   \* status changes requested so far
  raced      \* history: open incidents that were reopened beside another one

table  == <<incidents, raced>>
bounds == <<events, patches>>
vars   == <<table, pc, job, clock, bounds>>

\* A timeline entry: the status it shows and the risk it notes, 0 for none.
Entry == [status : Statuses, risk : Risks \cup {0}]
Row == [subject : Subjects, status : Statuses, risk : Risks,
        updated : Nat, timeline : Seq(Entry)]
Job == [subject : Subjects, risk : Risks, id : Ids \cup {0},
        status : Statuses, timeline : Seq(Entry), at : Nat]
AnySubject == CHOOSE s \in Subjects : TRUE
AnyRisk    == CHOOSE r \in Risks : TRUE
NoJob == [subject |-> AnySubject, risk |-> AnyRisk, id |-> 0,
          status |-> "neu", timeline |-> <<>>, at |-> 0]

Stored == DOMAIN incidents
IsOpen(id) == incidents[id].status # Closed

\* Mutated: an incident somebody works on is not found again.
OpenIds_OnlyNew(s) ==
  {id \in Stored : incidents[id].subject = s /\ incidents[id].status = "neu"}

OpenIds(s) == {id \in Stored : incidents[id].subject = s /\ IsOpen(id)}

\* Thread t goes on to `label' with what it has read in j.
Take(t, j, label) ==
  /\ job' = [job EXCEPT ![t] = j]
  /\ pc' = [pc EXCEPT ![t] = label]
Done(t) == Take(t, NoJob, "idle")

EventJob(s, r, id) == [NoJob EXCEPT !.subject = s, !.risk = r, !.id = id]

Init ==
  /\ incidents = <<>>
  /\ clock = 0 /\ events = 0 /\ patches = 0
  /\ pc = [t \in Threads |-> "idle"]
  /\ job = [t \in Threads |-> NoJob]
  /\ raced = {}

-----------------------------------------------------------------------------
\* SentinelService.process.

\* An event gets an incident for its risk or for its own severity.
Serious(risk, severe) == risk >= 70 \/ severe

\* open_incident: the open incident of the subject that was updated last.
OpenIncident ==
  /\ pc[Service] = "idle" /\ events < MaxEvents
  /\ \E s \in Subjects, r \in Risks, severe \in BOOLEAN :
       /\ Serious(r, severe)
       /\ \/ OpenIds(s) = {} /\ Take(Service, EventJob(s, r, 0), "create")
          \/ \E id \in OpenIds(s) :
               /\ \A other \in OpenIds(s) : incidents[other].updated <= incidents[id].updated
               /\ Take(Service, EventJob(s, r, id), "riskRead")
  /\ events' = events + 1
  /\ UNCHANGED <<table, clock, patches>>

CreateIncident ==
  /\ pc[Service] = "create" /\ Len(incidents) < MaxIncidents
  /\ incidents' = Append(incidents,
       [subject |-> job[Service].subject, status |-> "neu", risk |-> job[Service].risk,
        updated |-> clock + 1, timeline |-> <<[status |-> "neu", risk |-> 0]>>])
  /\ clock' = clock + 1
  /\ Done(Service)
  /\ UNCHANGED <<bounds, raced>>

\* record_incident_risk reads the row, appends to its copy of the timeline ...
RiskRead ==
  /\ pc[Service] = "riskRead"
  /\ LET row   == incidents[job[Service].id]
         entry == [status |-> row.status, risk |-> job[Service].risk] IN
       Take(Service, [job[Service] EXCEPT !.status   = row.status,
                                          !.timeline = Append(row.timeline, entry),
                                          !.at       = clock + 1], "riskWrite")
  /\ clock' = clock + 1
  /\ UNCHANGED <<table, bounds>>

\* Mutated: the whole row is written back, the status read before with it.
RiskWrite_WholeRow ==
  /\ pc[Service] = "riskWrite"
  /\ incidents' = [incidents EXCEPT
       ![job[Service].id].risk     = job[Service].risk,
       ![job[Service].id].updated  = job[Service].at,
       ![job[Service].id].status   = job[Service].status,
       ![job[Service].id].timeline = job[Service].timeline]
  /\ Done(Service)
  /\ UNCHANGED <<clock, bounds, raced>>

\* ... and writes the copy back, with the risk but without the status.
RiskWrite ==
  /\ pc[Service] = "riskWrite"
  /\ incidents' = [incidents EXCEPT
       ![job[Service].id].risk     = job[Service].risk,
       ![job[Service].id].updated  = job[Service].at,
       ![job[Service].id].timeline = job[Service].timeline]
  /\ Done(Service)
  /\ UNCHANGED <<clock, bounds, raced>>

-----------------------------------------------------------------------------
\* update_incident_status: any status may follow any other.

PatchJob(id, status) ==
  [NoJob EXCEPT !.id = id, !.status = status,
     !.timeline = Append(incidents[id].timeline, [status |-> status, risk |-> 0])]

\* Mutated: the status is not checked against the list of statuses.
PatchRead_Unchecked(q) ==
  /\ pc[q] = "idle" /\ patches < MaxPatches
  /\ \E id \in Stored, status \in Statuses \cup {"offen"} :
       Take(q, [PatchJob(id, status) EXCEPT !.at = clock + 1], "patchWrite")
  /\ patches' = patches + 1
  /\ clock' = clock + 1
  /\ UNCHANGED <<table, events>>

\* `now' is taken before the row is read.
PatchRead(q) ==
  /\ pc[q] = "idle" /\ patches < MaxPatches
  /\ \E id \in Stored, status \in Statuses :
       Take(q, [PatchJob(id, status) EXCEPT !.at = clock + 1], "patchWrite")
  /\ patches' = patches + 1
  /\ clock' = clock + 1
  /\ UNCHANGED <<table, events>>

\* Another incident of the subject is open, or the event loop has found none
\* open and is about to insert one.
Company(id) ==
  \/ OpenIds(incidents[id].subject) \ {id} # {}
  \/ pc[Service] = "create" /\ job[Service].subject = incidents[id].subject

PatchWrite(q) ==
  /\ pc[q] = "patchWrite"
  /\ LET id == job[q].id IN
       /\ incidents' = [incidents EXCEPT
            ![id].status   = job[q].status,
            ![id].updated  = job[q].at,
            ![id].timeline = job[q].timeline]
       /\ raced' = CASE job[q].status = Closed -> raced \ {id}
                     [] ~IsOpen(id) /\ job[q].status # Closed /\ Company(id) -> raced \cup {id}
                     [] OTHER -> raced
  /\ Done(q)
  /\ UNCHANGED <<clock, bounds>>

\* sqlite3.OperationalError (database is locked), or the process dies.
Abort(t) ==
  /\ pc[t] # "idle"
  /\ Done(t)
  /\ UNCHANGED <<table, clock, bounds>>

Next ==
  \/ OpenIncident \/ CreateIncident \/ RiskRead \/ RiskWrite
  \/ \E q \in Requests : PatchRead(q) \/ PatchWrite(q)
  \/ \E t \in Threads : Abort(t)

Spec == Init /\ [][Next]_vars

-----------------------------------------------------------------------------
\* Properties.

\* Every variable stays in its domain; an update in flight names a stored row.
TypeOK ==
  /\ incidents \in Seq(Row) /\ Len(incidents) <= MaxIncidents
  /\ pc \in [Threads -> {"idle", "create", "riskRead", "riskWrite", "patchWrite"}]
  /\ job \in [Threads -> Job]
  /\ \A t \in Threads : pc[t] \notin {"idle", "create"} => job[t].id \in Stored
  /\ clock \in Nat /\ events \in 0..MaxEvents /\ patches \in 0..MaxPatches
  /\ raced \subseteq Stored

\* The events of one source and component share one open incident, however
\* the status requests of operators interleave with the event loop's look-up
\* and insertion.  A second one is open only when a request reopened it beside
\* the first, or between the look-up that found none and the insertion; one
\* reopened at any other moment is the one that later events are merged into.
OneOpenIncident ==
  \A i, j \in Stored :
    IsOpen(i) /\ IsOpen(j) /\ incidents[i].subject = incidents[j].subject =>
      i = j \/ i \in raced \/ j \in raced

\* A status changes only to what a request asks for, and a risk only to that of
\* the event in hand: neither writer puts back a stale copy of the other's column.
NoStaleColumn ==
  \A id \in Stored :
    /\ incidents'[id].status # incidents[id].status =>
         \E q \in Requests : pc[q] = "patchWrite" /\ job[q].status = incidents'[id].status
    /\ incidents'[id].risk # incidents[id].risk =>
         pc[Service] = "riskWrite" /\ job[Service].risk = incidents'[id].risk
ColumnsKept == [][NoStaleColumn]_vars

\* The timeline of an incident is append-only.
Appends ==
  \A id \in Stored :
    LET old == incidents[id].timeline  new == incidents'[id].timeline IN
      Len(old) <= Len(new) /\ SubSeq(new, 1, Len(old)) = old
TimelineAppendOnly == [][Appends]_vars
=============================================================================
