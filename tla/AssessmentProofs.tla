--------------------------- MODULE AssessmentProofs ---------------------------
(***************************************************************************)
(* Proofs about Assessment, for any number of coroutines, events, rules,   *)
(* providers and traits, any scores, thresholds, windows and policies.     *)
(***************************************************************************)
EXTENDS Assessment, FiniteSetTheorems, SequenceTheorems, TLAPS

-----------------------------------------------------------------------------
(***************************************************************************)
(* Sums and least elements.  The library's induction theorems are about an *)
(* operator; its theorem on minimal elements is about a set, and gives     *)
(* what is needed.                                                         *)
(***************************************************************************)

\* A set of naturals that is not empty has a least element.
LEMMA LeastElement ==
  ASSUME NEW S \in SUBSET Nat, S # {}
  PROVE  \E m \in S : \A n \in S : m <= n
<1> DEFINE R == {x \in Nat \X Nat : x[1] < x[2]}
<1>1. IsWellFoundedOn(R, Nat)
  BY NatLessThanWellFounded DEF OpToRel
<1>2. PICK m \in S : \A n \in S : <<n, m>> \notin R
  <2> HIDE DEF R
  <2> QED BY <1>1, WFMin
<1>3. \A n \in S : <<n, m>> \in Nat \X Nat
  OBVIOUS
<1>4. \A n \in S : ~(n < m)
  BY <1>2, <1>3
<1> QED BY <1>4

\* Induction over the naturals, for the elements of a set.
LEMMA Induction ==
  ASSUME NEW S, 0 \in S, \A n \in Nat : n \in S => n + 1 \in S
  PROVE  Nat \subseteq S
<1> SUFFICES ASSUME Nat \ S # {} PROVE FALSE
  OBVIOUS
<1>1. PICK m \in Nat \ S : \A n \in Nat \ S : m <= n
  BY LeastElement
<1>2. m # 0 /\ m - 1 \in Nat
  BY <1>1
<1>3. m - 1 \in S
  BY <1>1, <1>2
<1> QED BY <1>1, <1>2, <1>3

\* The smallest of a set of naturals is one of them.
LEMMA MinIn ==
  ASSUME NEW S \in SUBSET Nat, S # {}
  PROVE  Min(S) \in S
<1>1. \E m \in S : \A n \in S : m <= n
  BY LeastElement
<1> QED BY <1>1 DEF Min

\* h is the sum of g over the subsets of S, taking out one element after the other.
IsSum(h, g, S) ==
  h = [T \in SUBSET S |-> IF T = {} THEN 0
                          ELSE g[CHOOSE x \in T : TRUE] + h[T \ {CHOOSE x \in T : TRUE}]]

\* Over a finite set there is such a sum.
LEMMA SumExists ==
  ASSUME NEW S, IsFiniteSet(S), NEW g
  PROVE  \E h : IsSum(h, g, S)
<1> DEFINE Small(n) == {T \in SUBSET S : Cardinality(T) <= n}
           Sum(h, T) == IF T = {} THEN 0
                        ELSE g[CHOOSE x \in T : TRUE] + h[T \ {CHOOSE x \in T : TRUE}]
           Done == {n \in Nat : \E h : h = [T \in Small(n) |-> Sum(h, T)]}
<1>1. \A T \in SUBSET S : IsFiniteSet(T) /\ Cardinality(T) \in Nat /\ Cardinality(T) <= Cardinality(S)
  BY FS_Subset, FS_CardinalityType
<1>2. 0 \in Done
  <2>1. \A T \in Small(0) : T = {}
    BY <1>1, FS_EmptySet
  <2> DEFINE h == [T \in Small(0) |-> 0]
  <2>2. h = [T \in Small(0) |-> Sum(h, T)]
    BY <2>1
  <2> QED BY <2>2
<1>3. ASSUME NEW n \in Nat, n \in Done PROVE n + 1 \in Done
  <2>1. PICK h : h = [T \in Small(n) |-> Sum(h, T)]
    BY <1>3
  <2> DEFINE k == [T \in Small(n + 1) |-> IF T \in Small(n) THEN h[T] ELSE Sum(h, T)]
  <2>2. ASSUME NEW T \in Small(n + 1), T # {}
        PROVE  T \ {CHOOSE x \in T : TRUE} \in Small(n)
    <3>1. (CHOOSE x \in T : TRUE) \in T
      BY <2>2
    <3>2. Cardinality(T \ {CHOOSE x \in T : TRUE}) = Cardinality(T) - 1
      BY <1>1, <3>1, FS_RemoveElement
    <3> QED BY <1>1, <3>2
  <2>3. Small(n) \subseteq Small(n + 1)
    BY <1>1
  <2>4. ASSUME NEW T \in Small(n + 1) PROVE k[T] = Sum(k, T)
    <3>1. CASE T = {}
      BY <2>1, <3>1
    <3>2. CASE T # {}
      <4> DEFINE x == CHOOSE x \in T : TRUE
      <4>1. T \ {x} \in Small(n) /\ T \ {x} \in Small(n + 1)
        BY <3>2, <2>2, <2>3
      <4>2. k[T \ {x}] = h[T \ {x}]
        BY <4>1
      <4>3. k[T] = g[x] + h[T \ {x}]
        BY <2>1, <3>2
      <4> QED BY <3>2, <4>2, <4>3
    <3> QED BY <3>1, <3>2
  <2>5. k = [T \in Small(n + 1) |-> Sum(k, T)]
    <3> HIDE DEF Sum, Small
    <3> QED BY <2>4
  <2> HIDE DEF k, Sum, Small
  <2> QED BY <2>5
<1>4. Cardinality(S) \in Done
  <2> HIDE DEF Done
  <2> QED BY <1>1, <1>2, <1>3, Induction
<1>5. Small(Cardinality(S)) = SUBSET S
  BY <1>1
<1> QED BY <1>4, <1>5 DEF IsSum

\* Such a sum of naturals is a natural number.
LEMMA SumNat ==
  ASSUME NEW S, IsFiniteSet(S), NEW g, \A x \in S : g[x] \in Nat,
         NEW h, IsSum(h, g, S)
  PROVE  h[S] \in Nat
<1> DEFINE Good == {n \in Nat : \A T \in SUBSET S : Cardinality(T) = n => h[T] \in Nat}
<1>1. \A T \in SUBSET S : IsFiniteSet(T) /\ Cardinality(T) \in Nat
  BY FS_Subset, FS_CardinalityType
<1>2. \A T \in SUBSET S : h[T] = IF T = {} THEN 0
                       ELSE g[CHOOSE x \in T : TRUE] + h[T \ {CHOOSE x \in T : TRUE}]
  BY DEF IsSum
<1>3. 0 \in Good
  <2>1. \A T \in SUBSET S : Cardinality(T) = 0 => T = {}
    BY <1>1, FS_EmptySet
  <2>2. h[{}] = 0
    BY <1>2
  <2> QED BY <2>1, <2>2
<1>4. ASSUME NEW n \in Nat, n \in Good PROVE n + 1 \in Good
  <2>1. SUFFICES ASSUME NEW T \in SUBSET S, Cardinality(T) = n + 1 PROVE h[T] \in Nat
    OBVIOUS
  <2> DEFINE x == CHOOSE x \in T : TRUE
  <2>2. T # {}
    BY <2>1, FS_EmptySet
  <2>3. x \in T
    BY <2>2
  <2>4. Cardinality(T \ {x}) = n
    <3> HIDE DEF x
    <3>1. Cardinality(T \ {x}) = Cardinality(T) - 1
      BY <1>1, <2>3, FS_RemoveElement
    <3> QED BY <2>1, <3>1
  <2>5. h[T \ {x}] \in Nat /\ g[x] \in Nat
    <3> HIDE DEF x
    <3> QED BY <1>4, <2>3, <2>4
  <2>6. h[T] = g[x] + h[T \ {x}]
    BY <1>2, <2>2
  <2> HIDE DEF x
  <2> QED BY <2>5, <2>6
<1>5. Cardinality(S) \in Good
  <2> HIDE DEF Good
  <2> QED BY <1>1, <1>3, <1>4, Induction
<1> QED BY <1>5

\* The score of the detections and the reputation are natural numbers, and
\* nothing detected scores nothing.
LEMMA DetectionScoreNat ==
  ASSUME NEW detected \in SUBSET DOMAIN Rules
  PROVE  DetectionScore(detected) \in Nat
<1> DEFINE g == [r \in DOMAIN Rules |-> Rules[r].score]
           IsScore(h) == h = [T \in SUBSET detected |->
                                IF T = {} THEN 0
                                ELSE Rules[CHOOSE x \in T : TRUE].score + h[T \ {CHOOSE x \in T : TRUE}]]
<1>1. IsFiniteSet(detected)
  BY AssessmentAssumption, FS_Subset
<1>2. \A r \in detected : g[r] \in Nat
  <2>1. \A r \in DOMAIN Rules : Rules[r].score \in 0..100
    BY AssessmentAssumption
  <2> QED BY <2>1
<1>3. \A T \in SUBSET detected : T # {} =>
        g[CHOOSE x \in T : TRUE] = Rules[CHOOSE x \in T : TRUE].score
  OBVIOUS
<1>4. \A h : IsSum(h, g, detected) <=> IsScore(h)
  BY <1>3 DEF IsSum
<1>5. DetectionScore(detected) = (CHOOSE h : IsScore(h))[detected]
  BY DEF DetectionScore, MapThenSumSet, MapThenFoldSet
<1> HIDE DEF IsScore, g
<1>6. \E h : IsSum(h, g, detected)
  BY <1>1, SumExists
<1>7. IsSum(CHOOSE h : IsScore(h), g, detected)
  BY <1>4, <1>6
<1>8. (CHOOSE h : IsScore(h))[detected] \in Nat
  BY <1>1, <1>2, <1>7, SumNat
<1> QED BY <1>5, <1>8

LEMMA ReputationNat ==
  ASSUME NEW listed \in SUBSET Sources
  PROVE  Reputation(listed) \in Nat
<1>1. IsFiniteSet(listed)
  BY AssessmentAssumption, FS_Subset
<1>2. \A s \in listed : Weight[s] \in Nat
  <2>1. Weight \in [Sources -> 1..100]
    BY AssessmentAssumption
  <2> QED BY <2>1
<1>3. \E h : IsSum(h, Weight, listed)
  BY <1>1, SumExists
<1>4. Reputation(listed) = (CHOOSE h : IsSum(h, Weight, listed))[listed]
  BY DEF Reputation, MapThenSumSet, MapThenFoldSet, IsSum
<1>5. IsSum(CHOOSE h : IsSum(h, Weight, listed), Weight, listed)
  BY <1>3
<1>6. (CHOOSE h : IsSum(h, Weight, listed))[listed] \in Nat
  BY <1>1, <1>2, <1>5, SumNat
<1> QED BY <1>4, <1>6

-----------------------------------------------------------------------------
(***************************************************************************)
(* The inductive invariant.                                                *)
(***************************************************************************)

\* What is stored of an assessment.
Outcome ==
  [action : Actions, risk : 0..100, detected : SUBSET DOMAIN Rules, listed : SUBSET Sources,
   device : Nat, trust : Int, at : 0..now]

\* The types of the variables.
Typed ==
  /\ events \in Seq([kind : Kinds, traits : [Traits -> Values \cup {Missing}], at : Int])
  /\ Len(events) <= MaxEvents
  /\ profile \in [positive : Nat, negative : Nat, blocked : Nat, trust : Int,
                  known : [Traits -> SUBSET Values], new : BOOLEAN]
  /\ pc \in [Workers -> {"idle", "asking"}]
  /\ job \in [Workers -> [event : Nat, device : Nat, trust : Int,
                          listed : SUBSET Sources, asked : SUBSET Sources]]
  /\ cache \in [Sources -> {"nothing", "listed", "clean"}]
  /\ outcomes \in [Ids -> {NoOutcome} \cup Outcome]
  /\ policy \in Policies /\ now \in 0..MaxTime

\* An event under way is in hand of one coroutine, and not assessed yet.
UnderWay ==
  /\ Assessed \subseteq DOMAIN events
  /\ \A w \in Workers : pc[w] = "asking" => job[w].event \in DOMAIN events \ Assessed
  /\ \A v, w \in Workers :
       pc[v] = "asking" /\ pc[w] = "asking" /\ v # w => job[v].event # job[w].event

\* The counts of the profile are those of the assessments made.
Counted ==
  /\ profile.positive = Cardinality(Harmless)
  /\ profile.negative = Cardinality(Assessed \ Harmless)
  /\ profile.blocked = Cardinality(Refused)
  /\ profile.trust = TrustScore(profile)

\* What is known of the device was in a harmless event.
Learnt == \A t \in Traits : profile.known[t] \subseteq {events[k].traits[t] : k \in Harmless}

IInv == Typed /\ UnderWay /\ Counted /\ Learnt /\ OneSourceNeverBlocks /\ BurstDetected

-----------------------------------------------------------------------------
(***************************************************************************)
(* What the engines answer.                                                *)
(***************************************************************************)

\* Trust is a percentage, and above the middle only where enough was earned.
LEMMA TrustEarned ==
  ASSUME NEW p, p.positive \in Nat, p.negative \in Nat, p.blocked \in Nat
  PROVE  /\ TrustScore(p) \in 0..100
         /\ TrustScore(p) > 50 => /\ p.positive - p.blocked >= MinSamples
                                  /\ 2 * p.positive >= p.positive + p.negative
<1>1. MinSamples \in Nat
  BY AssessmentAssumption
<1> DEFINE net == Clamp(0, p.positive, p.positive - p.blocked)
           earned == IF net >= MinSamples /\ Confident(p) THEN Least(20, net) ELSE 0
<1>2. net \in Nat /\ (net > 0 => net = p.positive - p.blocked)
  BY DEF Clamp, Least
<1>3. Confident(p) => 2 * p.positive >= p.positive + p.negative
  BY DEF Confident
<1> HIDE DEF net
<1>4. earned \in 0..20 /\ (earned > 0 => net > 0 /\ net >= MinSamples /\ Confident(p))
  BY <1>1, <1>2 DEF Least
<1>5. TrustScore(p) = Clamp(0, 100, 50 + earned - Least(30, 5 * p.negative))
  BY DEF TrustScore, net
<1> HIDE DEF earned
<1>6. TrustScore(p) \in 0..100 /\ (TrustScore(p) > 50 => earned > 0)
  BY <1>4, <1>5 DEF Clamp, Least
<1> QED BY <1>2, <1>3, <1>4, <1>6

\* The factor lowers the risk only of a device above the middle.
LEMMA FactorOfTrust ==
  ASSUME NEW p, TrustScore(p) \in 0..100
  PROVE  TrustFactor(p) \in Int /\ (TrustFactor(p) < 0 => TrustScore(p) > 50)
<1>1. ASSUME NEW n \in 0..100 PROVE (50 - n) \div 3 \in Int /\ ((50 - n) \div 3 < 0 => n > 50)
  OBVIOUS
<1> QED BY <1>1 DEF TrustFactor, Clamp, Least

\* The profile adds a natural number to the score.
LEMMA DeviceScoreNat ==
  ASSUME NEW p, NEW traits, p.new \in BOOLEAN
  PROVE  DeviceScore(p, traits) \in Nat
<1>1. ASSUME NEW T \in SUBSET Traits PROVE Cardinality(T) \in Nat
  BY AssessmentAssumption, FS_Subset, FS_CardinalityType
<1>2. Cardinality({t \in GeoTraits : Unlike(p, t, traits[t])}) \in Nat
  BY <1>1 DEF Traits
<1>3. Cardinality({t \in ClientTraits : Unlike(p, t, traits[t])}) \in Nat
  BY <1>1 DEF Traits
<1> QED BY <1>2, <1>3 DEF DeviceScore, GeoScore, ClientScore, Least

\* The risk is a percentage, and at most the ceiling where a single source is
\* all there is.
LEMMA RiskScoreCapped ==
  ASSUME NEW detected \in SUBSET DOMAIN Rules, NEW listed \in SUBSET Sources,
         NEW device \in Nat, NEW trust \in Int
  PROVE  /\ RiskScore(detected, listed, device, trust) \in 0..100
         /\ Cardinality(listed) = 1 /\ DetectionScore(detected) = 0 /\ device = 0
              => RiskScore(detected, listed, device, trust) <= Ceiling
<1>1. DetectionScore(detected) \in Nat /\ Reputation(listed) \in Nat
  BY DetectionScoreNat, ReputationNat
<1>2. Ceiling \in 0..99
  BY AssessmentAssumption
<1>3. DetectionScore(detected) = 0 /\ device = 0 => ~Corroborated(detected, device)
  BY DEF Corroborated
<1> DEFINE score == Clamp(0, 100, DetectionScore(detected) + Reputation(listed) + device + trust)
<1>4. score \in 0..100
  <2>1. ASSUME NEW n \in Int PROVE Clamp(0, 100, n) \in 0..100
    BY DEF Clamp, Least
  <2>2. DetectionScore(detected) + Reputation(listed) + device + trust \in Int
    BY <1>1
  <2> QED BY <2>1, <2>2
<1>5. RiskScore(detected, listed, device, trust) =
        IF Cardinality(listed) = 1 /\ ~Corroborated(detected, device)
          THEN Least(score, Ceiling) ELSE score
  BY DEF RiskScore
<1> HIDE DEF score
<1> QED BY <1>2, <1>3, <1>4, <1>5 DEF Least

\* The policy answers with an action, and blocks what has reached the upper of its
\* thresholds or is at a rule that blocks.
LEMMA Decision ==
  ASSUME policy \in Policies, NEW risk \in 0..100, NEW kind
  PROVE  /\ Decide(risk, kind) \in Actions
         /\ Decide(risk, kind) = "block" =>
              \/ policy.challengeBelow <= risk /\ policy.blockEnabled /\ ~policy.explicitBlock
              \/ \E n \in DOMAIN policy.rules :
                   /\ policy.rules[n].action = "block" /\ policy.rules[n].minRisk <= risk
                   /\ policy.rules[n].minRisk \in Int /\ kind \in policy.rules[n].kinds
<1>1. policy.rules \in Seq([minRisk : Int, kinds : SUBSET Kinds, action : Actions])
  BY AssessmentAssumption
<1>2. policy.allowBelow \in 0..99 /\ policy.challengeBelow \in 1..100
  BY AssessmentAssumption
<1>3. CASE Applicable(risk, kind) # {}
  <2>1. Applicable(risk, kind) \subseteq DOMAIN policy.rules
    BY DEF Applicable
  <2>2. DOMAIN policy.rules \subseteq Nat
    BY <1>1
  <2>3. Min(Applicable(risk, kind)) \in DOMAIN policy.rules
    BY <1>3, <2>1, <2>2, MinIn
  <2>4. \A n \in DOMAIN policy.rules :
          policy.rules[n].action \in Actions /\ policy.rules[n].minRisk \in Int
    <3> DEFINE Rule == [minRisk : Int, kinds : SUBSET Kinds, action : Actions]
    <3>1. \A n \in DOMAIN policy.rules : policy.rules[n] \in Rule
      <4> HIDE DEF Rule
      <4>1. ASSUME NEW rules \in Seq(Rule), NEW n \in DOMAIN rules PROVE rules[n] \in Rule
        OBVIOUS
      <4>2. policy.rules \in Seq(Rule)
        BY <1>1 DEF Rule
      <4> QED BY <4>1, <4>2
    <3> QED BY <3>1
  <2> DEFINE n == Min(Applicable(risk, kind))
  <2>5. n \in Applicable(risk, kind)
    BY <1>3, <2>1, <2>2, MinIn
  <2>6. Decide(risk, kind) = policy.rules[n].action
    BY <1>3 DEF Decide
  <2> HIDE DEF n
  <2>7. risk >= policy.rules[n].minRisk /\ kind \in policy.rules[n].kinds /\ n \in DOMAIN policy.rules
    BY <2>5 DEF Applicable
  <2>8. policy.rules[n].action \in Actions /\ policy.rules[n].minRisk \in Int
    BY <2>4, <2>7
  <2>9. policy.rules[n].minRisk <= risk
    BY <2>7, <2>8
  <2> QED BY <2>6, <2>7, <2>8, <2>9
<1>4. CASE Applicable(risk, kind) = {}
  <2>1. CASE risk < policy.allowBelow
    BY <1>4, <2>1 DEF Decide, Actions
  <2>2. CASE policy.allowBelow <= risk /\ risk < policy.challengeBelow
    BY <1>2, <1>4, <2>2 DEF Decide, Actions
  <2>3. CASE risk >= policy.challengeBelow /\ risk >= policy.allowBelow
    <3>1. ~(risk < policy.allowBelow) /\ ~(risk < policy.challengeBelow)
      BY <1>2, <2>3
    <3>2. Decide(risk, kind) =
            IF policy.blockEnabled /\ ~policy.explicitBlock THEN "block" ELSE "allow"
      BY <1>4, <3>1 DEF Decide
    <3> QED BY <2>3, <3>2 DEF Actions
  <2> QED BY <1>2, <2>1, <2>2, <2>3
<1> QED BY <1>3, <1>4

-----------------------------------------------------------------------------
(***************************************************************************)
(* The steps.                                                              *)
(***************************************************************************)

LEMMA InitEstablishes == Init => IInv
<1> SUFFICES ASSUME Init PROVE IInv
  OBVIOUS
<1>1. Assessed = {} /\ Harmless = {} /\ Refused = {}
  BY DEF Init, Assessed, Harmless, Refused, NoOutcome
<1>2. Typed
  <2>1. events = <<>> /\ Len(events) <= MaxEvents
    BY AssessmentAssumption DEF Init
  <2>2. profile \in [positive : Nat, negative : Nat, blocked : Nat, trust : Int,
                     known : [Traits -> SUBSET Values], new : BOOLEAN]
    BY DEF Init, NoProfile
  <2>3. job \in [Workers -> [event : Nat, device : Nat, trust : Int,
                             listed : SUBSET Sources, asked : SUBSET Sources]]
    BY DEF Init, NoJob
  <2>4. policy \in Policies /\ now \in 0..MaxTime
    BY AssessmentAssumption DEF Init
  <2>5. /\ pc \in [Workers -> {"idle", "asking"}]
        /\ cache \in [Sources -> {"nothing", "listed", "clean"}]
        /\ outcomes \in [Ids -> {NoOutcome} \cup Outcome]
    BY DEF Init
  <2> QED BY <2>1, <2>2, <2>3, <2>4, <2>5 DEF Typed
<1>3. UnderWay
  BY <1>1 DEF Init, UnderWay
<1>4. Counted
  <2>1. Cardinality({}) = 0
    BY FS_EmptySet
  <2>2. TrustScore(NoProfile) = 50
    BY AssessmentAssumption DEF TrustScore, NoProfile, Clamp, Least, Confident
  <2>3. profile = NoProfile
    BY DEF Init
  <2> QED BY <1>1, <2>1, <2>2, <2>3 DEF Counted, NoProfile
<1>5. Learnt
  BY DEF Init, NoProfile, Learnt
<1>6. OneSourceNeverBlocks
  BY <1>1 DEF OneSourceNeverBlocks
<1>7. BurstDetected
  BY <1>1 DEF BurstDetected
<1> QED BY <1>2, <1>3, <1>4, <1>5, <1>6, <1>7 DEF IInv

\* A step that assesses nothing leaves alone what is said of the assessments.
LEMMA NothingAssessed ==
  ASSUME IInv, outcomes' = outcomes, profile' = profile, policy' = policy,
         \A k \in DOMAIN events : events'[k] = events[k]
  PROVE  /\ Assessed' = Assessed
         /\ Counted' /\ Learnt' /\ OneSourceNeverBlocks' /\ BurstDetected'
<1>1. Assessed' = Assessed /\ Harmless' = Harmless /\ Refused' = Refused
  BY DEF Assessed, Harmless, Refused
<1>2. Assessed \subseteq DOMAIN events
  BY DEF IInv, UnderWay
<1>3. Harmless \subseteq Assessed /\ Refused \subseteq Assessed
  BY DEF Harmless, Refused
<1>4. \A k \in Assessed : events'[k] = events[k]
  BY <1>2
<1>5. Counted'
  BY <1>1 DEF IInv, Counted, TrustScore, Confident
<1>6. Learnt'
  BY <1>1, <1>3, <1>4 DEF IInv, Learnt
<1>7. OneSourceNeverBlocks'
  BY <1>1, <1>3, <1>4 DEF IInv, OneSourceNeverBlocks
<1>8. BurstDetected'
  <2>1. \A r \in DOMAIN Rules : {k \in Assessed' : events'[k].kind \in Rules[r].kinds}
                                  = {k \in Assessed : events[k].kind \in Rules[r].kinds}
    BY <1>1, <1>4
  <2>2. \A i \in Assessed : events'[i].at = events[i].at
    BY <1>4
  <2> QED BY <2>1, <2>2 DEF IInv, BurstDetected
<1> QED BY <1>1, <1>5, <1>6, <1>7, <1>8

LEMMA ReceiveStep ==
  ASSUME IInv, NEW w \in Workers, Receive(w)
  PROVE  IInv'
<1> USE DEF IInv
<1>1. PICK kind \in Kinds, traits \in [Traits -> Values \cup {Missing}], pattern \in PatternScores,
           skew \in Skews :
        /\ events' = Append(events, [kind |-> kind, traits |-> traits, at |-> now + skew])
        /\ job' = [job EXCEPT ![w] =
                     [event   |-> Len(events) + 1,
                      device  |-> pattern + DeviceScore(profile, traits),
                      trust   |-> IF profile.new THEN 0 ELSE TrustFactor(profile),
                      listed  |-> {s \in Sources : cache[s] = "listed"},
                      asked   |-> {s \in Sources : cache[s] = "nothing"}]]
  BY DEF Receive
<1>2. /\ pc[w] = "idle" /\ Len(events) < MaxEvents /\ pc' = [pc EXCEPT ![w] = "asking"]
      /\ UNCHANGED <<profile, cache, outcomes, policy, now>>
  BY DEF Receive
<1> DEFINE Event == [kind : Kinds, traits : [Traits -> Values \cup {Missing}], at : Int]
<1>3. events \in Seq(Event) /\ [kind |-> kind, traits |-> traits, at |-> now + skew] \in Event
  BY AssessmentAssumption DEF Typed
<1>4. /\ events' \in Seq(Event) /\ Len(events') = Len(events) + 1
      /\ \A k \in DOMAIN events : events'[k] = events[k]
  <2> HIDE DEF Event
  <2> QED BY <1>1, <1>3
<1>5. /\ Assessed' = Assessed
      /\ Counted' /\ Learnt' /\ OneSourceNeverBlocks' /\ BurstDetected'
  BY <1>2, <1>4, NothingAssessed
<1>6. Typed'
  <2>1. pattern + DeviceScore(profile, traits) \in Nat
    <3>1. profile.new \in BOOLEAN
      BY DEF Typed
    <3>2. DeviceScore(profile, traits) \in Nat /\ pattern \in Nat
      BY <3>1, DeviceScoreNat, AssessmentAssumption
    <3> QED BY <3>2
  <2>2. (IF profile.new THEN 0 ELSE TrustFactor(profile)) \in Int
    <3>1. TrustScore(profile) \in 0..100
      BY TrustEarned DEF Typed
    <3> QED BY <3>1, FactorOfTrust
  <2>3. job' \in [Workers -> [event : Nat, device : Nat, trust : Int,
                              listed : SUBSET Sources, asked : SUBSET Sources]]
    <3>1. Len(events) + 1 \in Nat
      BY <1>3
    <3>2. job \in [Workers -> [event : Nat, device : Nat, trust : Int,
                               listed : SUBSET Sources, asked : SUBSET Sources]]
      BY DEF Typed
    <3>3. profile.new \in BOOLEAN
      BY DEF Typed
    <3> QED BY <1>1, <2>1, <2>2, <3>1, <3>2, <3>3
  <2>4. events' \in Seq(Event) /\ Len(events') <= MaxEvents
    BY <1>2, <1>3, <1>4, AssessmentAssumption
  <2>5. pc' \in [Workers -> {"idle", "asking"}]
    BY <1>2 DEF Typed
  <2>6. Outcome' = Outcome /\ outcomes \in [Ids -> {NoOutcome} \cup Outcome]
    BY <1>2 DEF Typed, Outcome
  <2> QED BY <1>2, <2>3, <2>4, <2>5, <2>6 DEF Typed
<1>7. UnderWay'
  <2>1. DOMAIN events = 1..Len(events) /\ DOMAIN events' = 1..(Len(events) + 1) /\ Len(events) \in Nat
    BY <1>3, <1>4
  <2>2. Assessed \subseteq DOMAIN events
    BY DEF UnderWay
  <2>3. job'[w].event = Len(events) + 1 /\ \A v \in Workers \ {w} : job'[v] = job[v]
    BY <1>1 DEF Typed
  <2>4. \A v \in Workers \ {w} : pc'[v] = pc[v]
    BY <1>2 DEF Typed
  <2>5. \A v \in Workers \ {w} : pc[v] = "asking" => job[v].event \in DOMAIN events \ Assessed
    BY DEF UnderWay
  <2>6. \A v \in Workers \ {w} : pc[v] = "asking" => job[v].event # Len(events) + 1
    BY <2>1, <2>5
  <2> QED BY <1>5, <2>1, <2>2, <2>3, <2>4, <2>5, <2>6 DEF UnderWay
<1> QED BY <1>5, <1>6, <1>7

LEMMA AssessStep ==
  ASSUME IInv, NEW w \in Workers, Assess(w)
  PROVE  IInv'
<1> USE DEF IInv
<1>1. PICK answered \in SUBSET job[w].asked, found \in SUBSET job[w].asked, trusted \in BOOLEAN :
        LET k        == job[w].event
            listed   == job[w].listed \cup found
            detected == Detections(k)
            risk     == RiskScore(detected, listed, job[w].device, job[w].trust)
            action   == IF trusted THEN "allow" ELSE Decide(risk, events[k].kind) IN
          /\ outcomes' = [outcomes EXCEPT ![k] =
               [action |-> action, risk |-> risk, detected |-> detected, listed |-> listed,
                device |-> job[w].device, trust |-> job[w].trust, at |-> now]]
          /\ cache' = Cached(answered, found)
          /\ profile' = Learned(profile, events[k].traits, Safe(action, risk), action = "block")
  <2>1. PICK answered \in SUBSET job[w].asked :
          \E found \in SUBSET answered, trusted \in BOOLEAN :
            LET k        == job[w].event
                listed   == job[w].listed \cup found
                detected == Detections(k)
                risk     == RiskScore(detected, listed, job[w].device, job[w].trust)
                action   == IF trusted THEN "allow" ELSE Decide(risk, events[k].kind) IN
              /\ outcomes' = [outcomes EXCEPT ![k] =
                   [action |-> action, risk |-> risk, detected |-> detected, listed |-> listed,
                    device |-> job[w].device, trust |-> job[w].trust, at |-> now]]
              /\ cache' = Cached(answered, found)
              /\ profile' = Learned(profile, events[k].traits, Safe(action, risk), action = "block")
    BY DEF Assess
  <2>2. SUBSET answered \subseteq SUBSET job[w].asked
    OBVIOUS
  <2> QED BY <2>1, <2>2
<1>2. /\ pc[w] = "asking" /\ pc' = [pc EXCEPT ![w] = "idle"] /\ job' = [job EXCEPT ![w] = NoJob]
      /\ UNCHANGED <<events, policy, now>>
  BY DEF Assess
<1> DEFINE k        == job[w].event
           listed   == job[w].listed \cup found
           detected == Detections(k)
           risk     == RiskScore(detected, listed, job[w].device, job[w].trust)
           action   == IF trusted THEN "allow" ELSE Decide(risk, events[k].kind)
           outcome  == [action |-> action, risk |-> risk, detected |-> detected, listed |-> listed,
                        device |-> job[w].device, trust |-> job[w].trust, at |-> now]
           safe     == Safe(action, risk)
           traits   == events[k].traits
<1>3. job[w] \in [event : Nat, device : Nat, trust : Int,
                  listed : SUBSET Sources, asked : SUBSET Sources]
  BY DEF Typed
<1>4. k \in DOMAIN events \ Assessed /\ k \in Ids
  <2>1. k \in DOMAIN events \ Assessed
    BY <1>2 DEF UnderWay
  <2>2. DOMAIN events = 1..Len(events) /\ Len(events) \in Nat /\ Len(events) <= MaxEvents
    BY DEF Typed
  <2> QED BY <2>1, <2>2, AssessmentAssumption DEF Ids
<1>5. detected \in SUBSET DOMAIN Rules /\ listed \in SUBSET Sources
  BY <1>3 DEF Detections
<1>6. risk \in 0..100
  <2> HIDE DEF detected, listed
  <2> QED BY <1>3, <1>5, RiskScoreCapped
<1>7. action \in Actions
  <2>1. policy \in Policies
    BY DEF Typed
  <2>2. "allow" \in Actions
    BY DEF Actions
  <2> HIDE DEF risk
  <2> QED BY <1>6, <2>1, <2>2, Decision
<1>8. outcomes' = [outcomes EXCEPT ![k] = outcome]
  BY <1>1
<1>9. profile' = Learned(profile, traits, safe, action = "block")
  BY <1>1
<1>10. cache' = Cached(answered, found)
  BY <1>1
<1>11. outcome \in Outcome
  <2>1. now \in 0..now
    BY AssessmentAssumption DEF Typed
  <2> HIDE DEF action, risk, detected, listed
  <2> QED BY <1>3, <1>5, <1>6, <1>7, <2>1 DEF Outcome
<1>12. outcomes \in [Ids -> {NoOutcome} \cup Outcome] /\ Outcome' = Outcome
  BY <1>2 DEF Typed, Outcome
<1>13. outcome.action = action /\ outcome.risk = risk /\ action # "none"
  BY <1>7 DEF Actions
<1> HIDE DEF outcome
<1>14. /\ outcomes' \in [Ids -> {NoOutcome} \cup Outcome]
       /\ outcomes'[k] = outcome
       /\ \A i \in Ids \ {k} : outcomes'[i] = outcomes[i]
  BY <1>4, <1>8, <1>11, <1>12
<1>15. /\ Assessed' = Assessed \cup {k}
       /\ Harmless' = IF safe THEN Harmless \cup {k} ELSE Harmless
       /\ Refused' = IF action = "block" THEN Refused \cup {k} ELSE Refused
  <2> HIDE DEF action, risk
  <2>1. Assessed' = Assessed \cup {k}
    BY <1>4, <1>13, <1>14 DEF Assessed
  <2>2. safe <=> action = "allow" /\ risk < 30
    BY DEF Safe
  <2>3. \A i \in Assessed : i \in Ids /\ i # k
    BY <1>4 DEF Assessed
  <2>4. Harmless' = IF safe THEN Harmless \cup {k} ELSE Harmless
    BY <1>13, <1>14, <2>1, <2>2, <2>3 DEF Harmless
  <2>5. Refused' = IF action = "block" THEN Refused \cup {k} ELSE Refused
    BY <1>13, <1>14, <2>1, <2>3 DEF Refused
  <2> QED BY <2>1, <2>4, <2>5
<1>16. safe \in BOOLEAN /\ (action = "block") \in BOOLEAN /\ ~(safe /\ action = "block")
  BY DEF Safe
<1>17. events[k] \in [kind : Kinds, traits : [Traits -> Values \cup {Missing}], at : Int]
  <2> DEFINE Event == [kind : Kinds, traits : [Traits -> Values \cup {Missing}], at : Int]
  <2>1. events \in Seq(Event)
    BY DEF Typed
  <2> HIDE DEF Event, k
  <2>2. events[k] \in Event
    BY <1>4, <2>1
  <2> QED BY <2>2 DEF Event
<1> HIDE DEF action, safe, k
<1>18. /\ profile'.positive = profile.positive + (IF safe THEN 1 ELSE 0)
       /\ profile'.negative = profile.negative + (IF safe THEN 0 ELSE 1)
       /\ profile'.blocked = profile.blocked + (IF action = "block" THEN 1 ELSE 0)
       /\ profile'.trust = StoredTrust(profile'.positive, profile'.negative, profile'.blocked)
       /\ profile'.new = FALSE
       /\ \A t \in Traits : profile'.known[t] =
            IF safe THEN profile.known[t] \cup ({traits[t]} \ {Missing}) ELSE profile.known[t]
  BY <1>9, <1>16 DEF Learned
<1>19. profile'.positive \in Nat /\ profile'.negative \in Nat /\ profile'.blocked \in Nat
  BY <1>18 DEF Typed
<1>20. profile'.trust = TrustScore(profile')
  BY <1>18 DEF TrustScore, StoredTrust, Confident
<1>21. Typed'
  <2>1. profile' \in [positive : Nat, negative : Nat, blocked : Nat, trust : Int,
                      known : [Traits -> SUBSET Values], new : BOOLEAN]
    <3>1. profile'.trust \in Int
      BY <1>19, <1>20, TrustEarned
    <3>2. profile'.known \in [Traits -> SUBSET Values]
      <4>1. profile'.known = [t \in Traits |->
              IF safe THEN profile.known[t] \cup ({traits[t]} \ {Missing}) ELSE profile.known[t]]
        BY <1>9 DEF Learned
      <4>2. \A t \in Traits : profile.known[t] \subseteq Values /\ traits[t] \in Values \cup {Missing}
        BY <1>17 DEF Typed
      <4> QED BY <4>1, <4>2
    <3>3. profile' = [positive |-> profile'.positive, negative |-> profile'.negative,
                      blocked |-> profile'.blocked, new |-> profile'.new,
                      trust |-> profile'.trust, known |-> profile'.known]
      BY <1>9, Zenon DEF Learned
    <3> QED BY <1>18, <1>19, <3>1, <3>2, <3>3
  <2>2. job' \in [Workers -> [event : Nat, device : Nat, trust : Int,
                              listed : SUBSET Sources, asked : SUBSET Sources]]
    BY <1>2 DEF Typed, NoJob
  <2>3. pc' \in [Workers -> {"idle", "asking"}]
    BY <1>2 DEF Typed
  <2>4. cache' \in [Sources -> {"nothing", "listed", "clean"}]
    BY <1>10 DEF Typed, Cached
  <2> QED BY <1>2, <1>12, <1>14, <2>1, <2>2, <2>3, <2>4 DEF Typed
<1>22. UnderWay'
  <2>1. \A v \in Workers : pc'[v] = "asking" => v # w /\ pc[v] = "asking" /\ job'[v] = job[v]
    BY <1>2 DEF Typed
  <2>2. \A v \in Workers : v # w /\ pc[v] = "asking" =>
          job[v].event \in DOMAIN events \ Assessed /\ job[v].event # k
    BY <1>2 DEF UnderWay, k
  <2>3. Assessed \subseteq DOMAIN events
    BY DEF UnderWay
  <2> QED BY <1>2, <1>4, <1>15, <2>1, <2>2, <2>3 DEF UnderWay
<1>23. Counted'
  <2>1. IsFiniteSet(Assessed) /\ IsFiniteSet(Harmless) /\ IsFiniteSet(Refused)
        /\ IsFiniteSet(Assessed \ Harmless)
    <3>1. IsFiniteSet(Ids)
      BY FS_Interval, AssessmentAssumption DEF Ids
    <3>2. /\ Assessed \in SUBSET Ids /\ Harmless \in SUBSET Ids
          /\ Refused \in SUBSET Ids /\ Assessed \ Harmless \in SUBSET Ids
      BY DEF Assessed, Harmless, Refused
    <3> QED BY <3>1, <3>2, FS_Subset
  <2>2. k \notin Assessed /\ k \notin Harmless /\ k \notin Refused
    BY <1>4 DEF Harmless, Refused
  <2>3. Cardinality(Harmless') = Cardinality(Harmless) + (IF safe THEN 1 ELSE 0)
    <3>1. Cardinality(Harmless \cup {k}) = Cardinality(Harmless) + 1
      BY <2>1, <2>2, FS_AddElement
    <3>2. Cardinality(Harmless) \in Nat
      BY <2>1, FS_CardinalityType
    <3> QED BY <1>15, <3>1, <3>2
  <2>4. Cardinality(Refused') = Cardinality(Refused) + (IF action = "block" THEN 1 ELSE 0)
    <3>1. Cardinality(Refused \cup {k}) = Cardinality(Refused) + 1
      BY <2>1, <2>2, FS_AddElement
    <3>2. Cardinality(Refused) \in Nat
      BY <2>1, FS_CardinalityType
    <3> QED BY <1>15, <3>1, <3>2
  <2>5. Cardinality(Assessed' \ Harmless')
          = Cardinality(Assessed \ Harmless) + (IF safe THEN 0 ELSE 1)
    <3>1. Assessed' \ Harmless' = IF safe THEN Assessed \ Harmless
                                  ELSE (Assessed \ Harmless) \cup {k}
      BY <1>15, <2>2
    <3>2. Cardinality((Assessed \ Harmless) \cup {k}) = Cardinality(Assessed \ Harmless) + 1
      BY <2>1, <2>2, FS_AddElement
    <3>3. Cardinality(Assessed \ Harmless) \in Nat
      BY <2>1, FS_CardinalityType
    <3>4. CASE safe
      <4>1. Assessed' \ Harmless' = Assessed \ Harmless
        BY <3>1, <3>4
      <4> QED BY <1>16, <3>3, <3>4, <4>1
    <3>5. CASE ~safe
      <4>1. Assessed' \ Harmless' = (Assessed \ Harmless) \cup {k}
        BY <3>1, <3>5
      <4> QED BY <3>2, <3>5, <4>1
    <3> QED BY <3>4, <3>5
  <2> QED BY <1>18, <1>20, <2>3, <2>4, <2>5 DEF Counted
<1>24. Learnt'
  <2>1. Harmless \subseteq Harmless' /\ (safe => k \in Harmless')
    BY <1>15
  <2>2. ASSUME NEW t \in Traits, NEW v \in profile'.known[t]
        PROVE  \E i \in Harmless' : v = events[i].traits[t]
    <3>1. CASE v \in profile.known[t]
      BY <2>1, <3>1 DEF Learnt
    <3>2. CASE v \notin profile.known[t]
      <4>1. safe /\ v = traits[t]
        BY <1>18, <2>2, <3>2
      <4> QED BY <2>1, <4>1
    <3> QED BY <3>1, <3>2
  <2> QED BY <1>2, <2>2 DEF Learnt
<1>25. OneSourceNeverBlocks'
  <2> DEFINE Asked(n, kind) ==
               /\ policy.rules[n].action = "block" /\ policy.rules[n].minRisk <= Ceiling
               /\ kind \in policy.rules[n].kinds
             ByThreshold ==
               policy.challengeBelow <= Ceiling /\ policy.blockEnabled /\ ~policy.explicitBlock
  <2> SUFFICES ASSUME NEW i \in Refused',
                      Cardinality(outcomes'[i].listed) = 1,
                      DetectionScore(outcomes'[i].detected) = 0, outcomes'[i].device = 0
               PROVE  ByThreshold \/ \E n \in DOMAIN policy.rules : Asked(n, events[i].kind)
    BY <1>2 DEF OneSourceNeverBlocks
  <2>1. CASE i \in Refused
    <3>1. i \in Ids \ {k}
      BY <1>4, <2>1 DEF Refused, Assessed
    <3>2. outcomes'[i] = outcomes[i]
      BY <1>14, <3>1
    <3> QED BY <2>1, <3>2 DEF OneSourceNeverBlocks
  <2>2. CASE i \notin Refused
    <3>1. i = k /\ action = "block"
      BY <1>15, <2>2
    <3>2. action = Decide(risk, events[k].kind)
      BY <3>1 DEF action
    <3>3. policy \in Policies /\ policy.challengeBelow \in Int /\ Ceiling \in Int /\ risk \in Int
      <4>1. policy \in Policies
        BY DEF Typed
      <4>2. \A p \in Policies : p.challengeBelow \in 1..100
        BY AssessmentAssumption
      <4>3. Ceiling \in 0..99
        BY AssessmentAssumption
      <4> HIDE DEF risk
      <4> QED BY <1>6, <4>1, <4>2, <4>3
    <3>4. outcomes'[i] = outcome
      BY <1>14, <3>1
    <3>5. /\ outcome.listed = listed /\ outcome.detected = detected
          /\ outcome.device = job[w].device /\ outcome.risk = risk
      BY DEF outcome
    <3>6. risk <= Ceiling
      <4> HIDE DEF listed, detected
      <4>1. job[w].device \in Nat /\ job[w].trust \in Int
        BY <1>3
      <4> QED BY <1>5, <3>4, <3>5, <4>1, RiskScoreCapped
    <3> HIDE DEF listed, detected, risk
    <3>7. \/ policy.challengeBelow <= risk /\ policy.blockEnabled /\ ~policy.explicitBlock
          \/ \E n \in DOMAIN policy.rules :
               /\ policy.rules[n].action = "block" /\ policy.rules[n].minRisk <= risk
               /\ policy.rules[n].minRisk \in Int /\ events[k].kind \in policy.rules[n].kinds
      <4>1. risk \in 0..100 /\ Decide(risk, events[k].kind) = "block"
        BY <1>6, <3>1, <3>2
      <4>2. policy \in Policies
        BY <3>3
      <4> QED BY <4>1, <4>2, Decision
    <3> QED BY <3>1, <3>3, <3>6, <3>7
  <2> QED BY <2>1, <2>2
<1>26. BurstDetected'
  <2> SUFFICES ASSUME NEW r \in DOMAIN Rules,
                      NEW burst \in SUBSET {i \in Assessed' : events[i].kind \in Rules[r].kinds},
                      burst # {}, Cardinality(burst) >= Rules[r].threshold,
                      \A i, j \in burst : outcomes'[j].at - events[i].at <= Rules[r].window
               PROVE  \E i \in burst : r \in outcomes'[i].detected
    BY <1>2 DEF BurstDetected
  <2>1. CASE k \notin burst
    <3>1. burst \in SUBSET {i \in Assessed : events[i].kind \in Rules[r].kinds}
      BY <1>15, <2>1
    <3>2. \A i \in burst : outcomes'[i] = outcomes[i]
      BY <1>14, <2>1, <3>1 DEF Assessed
    <3> QED BY <3>1, <3>2 DEF BurstDetected
  <2>2. CASE k \in burst
    <3> DEFINE counted == {i \in DOMAIN events :
                             events[i].kind \in Rules[r].kinds /\ (i = k \/ InWindow(i, r, now))}
    <3>1. outcomes'[k].at = now /\ outcomes'[k].detected = detected
      BY <1>14 DEF outcome
    <3>2. ASSUME NEW i \in burst PROVE i \in counted
      <4>1. i \in DOMAIN events
        BY <1>4, <1>15 DEF UnderWay
      <4>2. now - events[i].at <= Rules[r].window
        BY <2>2, <3>1
      <4>3. events[i].at \in Int
        <5> DEFINE Event == [kind : Kinds, traits : [Traits -> Values \cup {Missing}], at : Int]
        <5>1. events \in Seq(Event)
          BY DEF Typed
        <5>2. events[i] \in Event
          <6> HIDE DEF Event
          <6> QED BY <4>1, <5>1
        <5> QED BY <5>2
      <4>4. now \in Int /\ Rules[r].window \in Int
        BY AssessmentAssumption DEF Typed
      <4>5. InWindow(i, r, now)
        BY <4>2, <4>3, <4>4 DEF InWindow
      <4> QED BY <4>1, <4>5
    <3>3. IsFiniteSet(counted)
      <4>1. IsFiniteSet(1..Len(events))
        BY FS_Interval DEF Typed
      <4>2. counted \in SUBSET (1..Len(events))
        BY DEF Typed
      <4> QED BY <4>1, <4>2, FS_Subset
    <3>4. Cardinality(burst) <= Cardinality(counted) /\ Cardinality(counted) \in Nat
          /\ Cardinality(burst) \in Nat
      <4> HIDE DEF counted
      <4>1. burst \in SUBSET counted
        BY <3>2
      <4> QED BY <3>3, <4>1, FS_Subset, FS_CardinalityType
    <3>5. Cardinality(counted) >= Rules[r].threshold
      <4> HIDE DEF counted
      <4> QED BY <3>4, AssessmentAssumption
    <3>6. r \in detected
      BY <3>5 DEF Detections
    <3> QED BY <2>2, <3>1, <3>6
  <2> QED BY <2>1, <2>2
<1> QED BY <1>21, <1>22, <1>23, <1>24, <1>25, <1>26

LEMMA AbortStep ==
  ASSUME IInv, NEW w \in Workers, Abort(w)
  PROVE  IInv'
<1>1. /\ pc[w] = "asking" /\ pc' = [pc EXCEPT ![w] = "idle"] /\ job' = [job EXCEPT ![w] = NoJob]
      /\ UNCHANGED <<events, profile, outcomes, policy, now>>
      /\ \E answered, found : cache' = Cached(answered, found)
  BY DEF Abort
<1>2. /\ Assessed' = Assessed
      /\ Counted' /\ Learnt' /\ OneSourceNeverBlocks' /\ BurstDetected'
  BY <1>1, NothingAssessed
<1>3. Typed'
  <2>1. job' \in [Workers -> [event : Nat, device : Nat, trust : Int,
                              listed : SUBSET Sources, asked : SUBSET Sources]]
    BY <1>1 DEF IInv, Typed, NoJob
  <2>2. Outcome' = Outcome
    BY <1>1 DEF Outcome
  <2>3. pc' \in [Workers -> {"idle", "asking"}]
    BY <1>1 DEF IInv, Typed
  <2>4. cache' \in [Sources -> {"nothing", "listed", "clean"}]
    BY <1>1 DEF IInv, Typed, Cached
  <2> QED BY <1>1, <2>1, <2>2, <2>3, <2>4 DEF IInv, Typed
<1>4. UnderWay'
  <2>1. \A v \in Workers : pc'[v] = "asking" => pc[v] = "asking" /\ job'[v] = job[v]
    BY <1>1 DEF IInv, Typed
  <2> QED BY <1>1, <1>2, <2>1 DEF IInv, UnderWay
<1> QED BY <1>2, <1>3, <1>4 DEF IInv

LEMMA ExpireStep ==
  ASSUME IInv, NEW s \in Sources, Expire(s)
  PROVE  IInv'
<1>1. /\ cache' = [cache EXCEPT ![s] = "nothing"]
      /\ UNCHANGED <<events, profile, pc, job, outcomes, policy, now>>
  BY DEF Expire
<1>2. /\ Assessed' = Assessed
      /\ Counted' /\ Learnt' /\ OneSourceNeverBlocks' /\ BurstDetected'
  BY <1>1, NothingAssessed
<1>3. Typed'
  <2>1. Outcome' = Outcome
    BY <1>1 DEF Outcome
  <2>2. cache' \in [Sources -> {"nothing", "listed", "clean"}]
    BY <1>1 DEF IInv, Typed
  <2> QED BY <1>1, <2>1, <2>2 DEF IInv, Typed
<1>4. UnderWay'
  BY <1>1, <1>2 DEF IInv, UnderWay
<1> QED BY <1>2, <1>3, <1>4 DEF IInv

LEMMA TickStep ==
  ASSUME IInv, Tick
  PROVE  IInv'
<1>1. now < MaxTime /\ now' = now + 1 /\ UNCHANGED <<events, profile, pc, job, cache, outcomes, policy>>
  BY DEF Tick
<1>2. /\ Assessed' = Assessed
      /\ Counted' /\ Learnt' /\ OneSourceNeverBlocks' /\ BurstDetected'
  BY <1>1, NothingAssessed
<1>3. Typed'
  <2>1. now \in Nat /\ now' \in 0..MaxTime /\ 0..now \subseteq 0..now'
    BY <1>1, AssessmentAssumption DEF IInv, Typed
  <2>2. Outcome \subseteq Outcome'
    BY <2>1 DEF Outcome
  <2>3. outcomes' \in [Ids -> {NoOutcome} \cup Outcome']
    BY <1>1, <2>2 DEF IInv, Typed
  <2> QED BY <1>1, <2>1, <2>3 DEF IInv, Typed
<1>4. UnderWay'
  BY <1>1, <1>2 DEF IInv, UnderWay
<1> QED BY <1>2, <1>3, <1>4 DEF IInv

LEMMA StutterStep ==
  ASSUME IInv, UNCHANGED vars
  PROVE  IInv'
<1>1. UNCHANGED <<events, profile, pc, job, cache, outcomes, policy, now>>
  BY DEF vars
<1>2. /\ Assessed' = Assessed
      /\ Counted' /\ Learnt' /\ OneSourceNeverBlocks' /\ BurstDetected'
  BY <1>1, NothingAssessed
<1>3. Outcome' = Outcome
  BY <1>1 DEF Outcome
<1>4. Typed' /\ UnderWay'
  BY <1>1, <1>2, <1>3 DEF IInv, Typed, UnderWay
<1> QED BY <1>2, <1>4 DEF IInv

\* The invariant holds in every state: two coroutines may interleave their
\* readings and writings in any order, fail, and meet any answers.
THEOREM Invariance == Spec => []IInv
<1>1. Init => IInv
  BY InitEstablishes
<1>2. IInv /\ [Next]_vars => IInv'
  BY ReceiveStep, AssessStep, AbortStep, ExpireStep, TickStep, StutterStep DEF Next
<1> QED BY <1>1, <1>2, PTL DEF Spec

-----------------------------------------------------------------------------
(***************************************************************************)
(* What follows from it.                                                   *)
(***************************************************************************)

\* Each assessment is counted once.
LEMMA CountsAddUp ==
  ASSUME IInv
  PROVE  profile.positive + profile.negative = Cardinality(Assessed)
<1>1. IsFiniteSet(Ids) /\ Assessed \in SUBSET Ids /\ Harmless \in SUBSET Assessed
  <2>1. MaxEvents \in Nat
    BY AssessmentAssumption
  <2>2. IsFiniteSet(Ids)
    BY <2>1, FS_Interval DEF Ids
  <2>3. Assessed \in SUBSET Ids /\ Harmless \in SUBSET Assessed
    BY DEF Assessed, Harmless
  <2> QED BY <2>2, <2>3
<1>2. IsFiniteSet(Assessed)
  BY <1>1, FS_Subset
<1>3. Cardinality(Assessed \ Harmless) = Cardinality(Assessed) - Cardinality(Assessed \cap Harmless)
  BY <1>2, FS_Difference
<1>4. Assessed \cap Harmless = Harmless
  BY <1>1
<1>5. Cardinality(Assessed) \in Nat /\ Cardinality(Harmless) \in Nat
  BY <1>1, <1>2, FS_Subset, FS_CardinalityType
<1> QED BY <1>3, <1>4, <1>5 DEF IInv, Counted

\* The counts of the profile add up, and the trust the store shows is the one
\* the engine assesses with.
THEOREM TypeCorrect == Spec => []TypeOK
<1>1. IInv => TypeOK
  <2> SUFFICES ASSUME IInv PROVE TypeOK
    OBVIOUS
  <2>1. profile.positive + profile.negative = Cardinality(Assessed)
    BY CountsAddUp
  <2>2. profile.trust = TrustScore(profile) /\ profile.trust \in 0..100
    <3>1. profile.positive \in Nat /\ profile.negative \in Nat /\ profile.blocked \in Nat
      BY DEF IInv, Typed
    <3>2. profile.trust = TrustScore(profile)
      BY DEF IInv, Counted
    <3> QED BY <3>1, <3>2, TrustEarned
  <2>3. \A k \in Assessed : outcomes[k].risk \in 0..100 /\ outcomes[k].action \in Actions
    <3>1. \A k \in Assessed : outcomes[k] \in Outcome
      BY DEF IInv, Typed, Assessed, NoOutcome
    <3> QED BY <3>1 DEF Outcome
  <2>4. \A w \in Workers : job[w].listed \cup job[w].asked \subseteq Sources
    BY DEF IInv, Typed
  <2>5. profile.known \in [Traits -> SUBSET Values]
    BY DEF IInv, Typed
  <2>6. \A w \in Workers : pc[w] = "asking" => job[w].event \in DOMAIN events
    BY DEF IInv, UnderWay
  <2> QED BY <2>1, <2>2, <2>3, <2>4, <2>5, <2>6 DEF IInv, Typed, TypeOK
<1> QED BY <1>1, Invariance, PTL

\* Only harmless events earn a device the trust that lowers its risk.
THEOREM TrustNotPoisoned == Spec => []NoPoisoning
<1>1. IInv => NoPoisoning
  <2> SUFFICES ASSUME IInv PROVE NoPoisoning
    OBVIOUS
  <2>1. profile.positive \in Nat /\ profile.negative \in Nat /\ profile.blocked \in Nat
    BY DEF IInv, Typed
  <2>2. TrustFactor(profile) < 0 => /\ profile.positive - profile.blocked >= MinSamples
                                    /\ 2 * profile.positive >= profile.positive + profile.negative
    BY <2>1, TrustEarned, FactorOfTrust
  <2>3. profile.positive + profile.negative = Cardinality(Assessed)
    BY CountsAddUp
  <2> QED BY <2>2, <2>3 DEF IInv, Counted, Learnt, NoPoisoning
<1> QED BY <1>1, Invariance, PTL

\* A block that rests on one intelligence source alone is asked for, by the
\* thresholds or by an explicit rule, within the ceiling; an unknown device counts
\* as evidence here, as it does in the code.
THEOREM OneSourceIsNotEnough == Spec => []OneSourceNeverBlocks
<1>1. IInv => OneSourceNeverBlocks
  BY DEF IInv
<1> QED BY <1>1, Invariance, PTL

\* A burst within a rule's window is detected at one of its events.
THEOREM BurstsAreDetected == Spec => []BurstDetected
<1>1. IInv => BurstDetected
  BY DEF IInv
<1> QED BY <1>1, Invariance, PTL
=============================================================================
