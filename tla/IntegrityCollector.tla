-------------------------- MODULE IntegrityCollector --------------------------
(***************************************************************************)
(* IntegrityCollector with IntegrityEngine: each snapshot compares the     *)
(* containers with those of the snapshot before, then the hashes of the    *)
(* configured files with the stored ones, and hands each difference to     *)
(* process_integrity.  The files are hashed a second time, after the       *)
(* findings, for the next comparison.  Contents stand for hashes and       *)
(* container descriptions.                                                 *)
(***************************************************************************)
EXTENDS Surroundings

CONSTANTS
  Files,      \* file_paths
  Containers, \* container names
  Contents

Gone == "gone"  \* no such container; a file that cannot be hashed

ASSUME IntegrityAssumption ==
  /\ IsFiniteSet(Files) /\ IsFiniteSet(Containers) /\ Files \cap Containers = {}
  /\ IsFiniteSet(Contents) /\ Contents # {} /\ Gone \notin Contents

Subjects == Files \cup Containers
State == [Subjects -> Contents \cup {Gone}]

VARIABLES
  actual,    \* what is on the disk and in Docker
  remembered, \* previous_containers and previous_files
  snapshot,  \* where snapshot() is, and the inventory it compares; whether the
             \* event of the first finding is stored
  findings,  \* findings not yet handed on
  announced, \* history: the last state of each subject in the store of findings
  excused    \* history: subjects whose last change fell between two readings or into a failed snapshot

integrity == <<actual, remembered, snapshot, findings, announced, excused>>

Resting == [phase |-> "rest", inventory |-> [c \in Containers |-> Gone],
            stored |-> FALSE]

IntegrityInit ==
  /\ actual \in [Subjects -> {CHOOSE x \in Contents : TRUE}]
  /\ remembered = [s \in Subjects |-> Gone] /\ announced = remembered
  /\ snapshot = Resting /\ findings = <<>> /\ excused = {}

\* The memories of a process that starts anew.
IntegrityFresh ==
  /\ remembered' = [s \in Subjects |-> Gone] /\ announced' = remembered'
  /\ snapshot' = Resting /\ findings' = <<>> /\ excused' = {}
  /\ UNCHANGED actual

-----------------------------------------------------------------------------
\* Whoever changes files and containers.

Alter(s) ==
  /\ Change
  /\ \E x \in (Contents \cup {Gone}) \ {actual[s]} : actual' = [actual EXCEPT ![s] = x]
  /\ excused' = IF s \in Files /\ snapshot.phase = "files" THEN excused \cup {s} ELSE excused
  /\ UNCHANGED <<remembered, snapshot, findings, announced>>

-----------------------------------------------------------------------------
\* snapshot.

\* docker_changes and file_changes: new, changed, missing or unreadable.
Differences(subjects, now) ==
  {[subject |-> s, state |-> now[s]] : s \in {s \in subjects : now[s] # remembered[s]}}

\* The inventory is compared at once.
Inventory ==
  /\ snapshot.phase = "rest"
  /\ snapshot' = [Resting EXCEPT !.phase = "containers", !.inventory = [c \in Containers |-> actual[c]]]
  /\ findings' \in SetToSeqs(Differences(Containers, actual))
  /\ UNCHANGED <<bounds, actual, remembered, announced, excused>>

\* The API does not answer; the files are hashed all the same.
InventoryFails ==
  /\ snapshot.phase = "rest" /\ Failure
  /\ snapshot' = [Resting EXCEPT !.phase = "hash"]
  /\ UNCHANGED <<actual, remembered, findings, announced, excused>>

\* process(): the event of the finding.
Process ==
  /\ findings # <<>> /\ ~snapshot.stored
  /\ snapshot' = [snapshot EXCEPT !.stored = TRUE]
  /\ UNCHANGED <<bounds, actual, remembered, findings, announced, excused>>

\* add_integrity_finding, after the event.
Record ==
  /\ findings # <<>> /\ snapshot.stored
  /\ LET f == Head(findings) IN
       /\ announced' = [announced EXCEPT ![f.subject] = f.state]
       /\ excused' = IF f.subject \in Files /\ actual[f.subject] # f.state
                     THEN excused ELSE excused \ {f.subject}
  /\ findings' = Tail(findings) /\ snapshot' = [snapshot EXCEPT !.stored = FALSE]
  /\ UNCHANGED <<bounds, actual, remembered>>

\* Either raises.  For the containers the exception is swallowed and the old
\* inventory kept; for the files it ends the task.
FindingFails ==
  /\ findings # <<>> /\ Failure
  /\ findings' = <<>>
  /\ snapshot' = [Resting EXCEPT !.phase = IF snapshot.phase = "containers" THEN "hash" ELSE "stopped"]
  /\ excused' = IF snapshot.phase = "containers"
                THEN excused \cup {c \in Containers : announced[c] # remembered[c]} ELSE excused
  /\ UNCHANGED <<actual, remembered, announced>>

ContainersDone ==
  /\ snapshot.phase = "containers" /\ findings = <<>>
  /\ remembered' = [s \in Subjects |->
       IF s \in Containers THEN snapshot.inventory[s] ELSE remembered[s]]
  /\ snapshot' = [Resting EXCEPT !.phase = "hash"]
  /\ UNCHANGED <<bounds, actual, findings, announced, excused>>

HashFiles ==
  /\ snapshot.phase = "hash"
  /\ snapshot' = [Resting EXCEPT !.phase = "files"]
  /\ findings' \in SetToSeqs(Differences(Files, actual))
  /\ UNCHANGED <<bounds, actual, remembered, announced, excused>>

\* Mutated: a file that cannot be hashed keeps its old hash.
Rehashed_Kept == [s \in Subjects |-> IF s \in Files /\ actual[s] # Gone THEN actual[s] ELSE remembered[s]]

Rehashed == [s \in Subjects |-> IF s \in Files THEN actual[s] ELSE remembered[s]]

\* The hashes for the next comparison are of the files as they are now.
RehashFiles ==
  /\ snapshot.phase = "files" /\ findings = <<>>
  /\ remembered' = Rehashed
  /\ snapshot' = Resting
  /\ UNCHANGED <<bounds, actual, findings, announced, excused>>

Integrity ==
  \/ \E s \in Subjects : Alter(s)
  \/ Inventory \/ InventoryFails \/ Process \/ Record \/ FindingFails
  \/ ContainersDone \/ HashFiles \/ RehashFiles

-----------------------------------------------------------------------------
\* Properties.

IntegrityTypeOK ==
  /\ actual \in State /\ remembered \in State /\ announced \in State
  /\ snapshot.phase \in {"rest", "containers", "hash", "files", "stopped"}
  /\ snapshot.inventory \in [Containers -> Contents \cup {Gone}]
  /\ findings # <<>> => snapshot.phase \in {"containers", "files"}
  /\ snapshot.stored => findings # <<>>
  /\ excused \subseteq Subjects

\* What the collector compares with next is what it last announced: no change is
\* absorbed unannounced, however often a snapshot fails, except one that falls
\* between the two readings of a file or that is undone after a failed snapshot.
ChangesAnnounced ==
  snapshot.phase \in {"rest", "hash"} =>
    \A s \in Subjects \ excused : remembered[s] = announced[s]
=============================================================================
