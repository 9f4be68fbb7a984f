----------------------------- MODULE Surroundings -----------------------------
(***************************************************************************)
(* What the polling collectors have in common: a world that changes while  *)
(* they poll it, and a service that may raise for an event handed to it.   *)
(***************************************************************************)
EXTENDS Naturals, Sequences, FiniteSets, FiniteSetsExt, SequencesExt

CONSTANTS
  MaxChanges,  \* bound: changes of what is polled
  MaxFailures  \* bound: calls that raise

ASSUME SurroundingsAssumption == MaxChanges \in Nat /\ MaxFailures \in Nat

VARIABLES changes, failures

bounds == <<changes, failures>>

Change == changes < MaxChanges /\ changes' = changes + 1 /\ UNCHANGED failures
Failure == failures < MaxFailures /\ failures' = failures + 1 /\ UNCHANGED changes
=============================================================================
