----------------------------- MODULE MCAssessment -----------------------------
(***************************************************************************)
(* Instances of Assessment for TLC: one rule, intelligence sources whose   *)
(* weight would block alone, and the thresholds of the shipped policy with *)
(* everything enabled: without explicit rules, with one that slows an      *)
(* event type down, or, as shipped, with blocks by explicit rules only.    *)
(***************************************************************************)
EXTENDS Assessment, TLC

\* An event of a slow clock is out of the window after a tick.
Burst == "burst" :> [threshold |-> 2, window |-> 1, score |-> 45, kinds |-> {"failed"}]

ListedWeight == [s \in Sources |-> 95]

Policy(rules, explicit) ==
  [rules |-> rules, allowBelow |-> 60, challengeBelow |-> 90, challengeEnabled |-> TRUE,
   blockEnabled |-> TRUE, explicitBlock |-> explicit]

Thresholds ==
  {Policy(<<>>, FALSE),
   Policy(<<[minRisk |-> 40, kinds |-> {"failed"}, action |-> "rate_limit"]>>, FALSE),
   Policy(<<[minRisk |-> 90, kinds |-> Kinds, action |-> "block"]>>, TRUE)}

\* A clock that is right or a second slow.
Clocks == -1..0

Alike == Permutations(Workers) \cup Permutations(Values)
=============================================================================
