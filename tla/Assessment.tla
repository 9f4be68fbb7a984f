------------------------------ MODULE Assessment ------------------------------
(***************************************************************************)
(* SentinelService.process up to the decision, for the events of one       *)
(* address and one device: store the event, read what is known of the      *)
(* device, wait for the reputation of the address, count the events of the *)
(* detection rules' windows, add up the risk, decide, and learn from the   *)
(* outcome.  Two events are under way at once whenever one of them waits.  *)
(*                                                                         *)
(* What process writes but never reads again is left out: the address's    *)
(* profile, the anomalies, the baselines.  Its incident is Incidents', its *)
(* response Enforcement's.                                                 *)
(*                                                                         *)
(* A trait is what a learned list of the profile is about: country, hour   *)
(* and time zone; browser, language and TLS fingerprint.                   *)
(***************************************************************************)
EXTENDS Integers, Sequences, FiniteSets, FiniteSetsExt

CONSTANTS
  Workers,       \* coroutines that run process
  Kinds,         \* event types, with the source that sends them
  Skews,         \* what a sender's clock may be off, five minutes at most
  Rules,         \* detection rules: name -> threshold, window, score, kinds
  Sources,       \* enabled intelligence providers
  Weight,        \* score a provider gives to a listed address
  Ceiling,       \* single_source_ceiling
  Policies,      \* policies a process may be configured with
  PatternScores, \* what BehaviorAnalyzer may add for the last five minutes
  GeoTraits, ClientTraits,
  Values,        \* values of a trait
  Missing,       \* a trait the event does not carry
  MinSamples,    \* safe events before trust lowers the risk (ten)
  GeoSamples,    \* safe events before a new place or hour counts (three)
  MaxEvents,     \* bound: events of the address
  MaxTime        \* bound: seconds

Traits == GeoTraits \cup ClientTraits
Ids == 1..MaxEvents
Actions == {"allow", "log_only", "alert", "challenge", "block", "rate_limit"}

ASSUME AssessmentAssumption ==
  /\ IsFiniteSet(DOMAIN Rules) /\ IsFiniteSet(Sources) /\ IsFiniteSet(Traits)
  /\ \A r \in DOMAIN Rules :
       Rules[r].threshold \in Nat /\ Rules[r].window \in Nat /\ Rules[r].score \in 0..100
  /\ Weight \in [Sources -> 1..100] /\ Ceiling \in 0..99
  /\ PatternScores \subseteq Nat /\ Skews \subseteq Int
  /\ \A p \in Policies :
       /\ p.allowBelow \in 0..99 /\ p.challengeBelow \in 1..100
       /\ p.allowBelow < p.challengeBelow
       /\ p.rules \in Seq([minRisk : Int, kinds : SUBSET Kinds, action : Actions])
  /\ GeoTraits \cap ClientTraits = {} /\ Missing \notin Values
  /\ MinSamples \in Nat /\ GeoSamples \in Nat /\ MaxEvents \in Nat /\ MaxTime \in Nat

VARIABLES
  events,   \* the events table: kind, traits and timestamp
  profile,  \* the device's row of device_profiles
  pc, job,  \* what each coroutine has read when it waits
  cache,    \* threat_intelligence: what each provider last said of the address
  outcomes, \* history: the assessments made, by event
  policy,
  now

vars == <<events, profile, pc, job, cache, outcomes, policy, now>>

NoProfile == [positive |-> 0, negative |-> 0, blocked |-> 0, trust |-> 50,
              known |-> [t \in Traits |-> {}], new |-> TRUE]
NoJob == [event |-> 0, device |-> 0, trust |-> 0, listed |-> {}, asked |-> {}]
NoOutcome == [action |-> "none"]

Init ==
  /\ events = <<>>
  /\ profile = NoProfile
  /\ pc = [w \in Workers |-> "idle"]
  /\ job = [w \in Workers |-> NoJob]
  /\ cache = [s \in Sources |-> "nothing"]
  /\ outcomes = [k \in Ids |-> NoOutcome]
  /\ policy \in Policies
  /\ now = 0

-----------------------------------------------------------------------------
\* What the analyzers add.

Least(a, b) == IF a < b THEN a ELSE b
Clamp(low, high, x) == IF x < low THEN low ELSE Least(high, x)

\* positive_confidence >= 0.5
Confident(p) ==
  2 * p.positive >= IF p.positive + p.negative > 3 THEN p.positive + p.negative ELSE 3

\* TrustEngine.calculate_trust.
TrustScore(p) ==
  LET positive == Clamp(0, p.positive, p.positive - p.blocked)
      earned   == IF positive >= MinSamples /\ Confident(p) THEN Least(20, positive) ELSE 0 IN
    Clamp(0, 100, 50 + earned - Least(30, 5 * p.negative))

\* get_trust_factor: a third of the deviation, rounded down.
TrustFactor(p) == Clamp(-30, 30, (50 - TrustScore(p)) \div 3)

Unlike(p, t, value) == value # Missing /\ p.known[t] # {} /\ value \notin p.known[t]

GeoScore(p, traits) ==
  IF p.positive >= GeoSamples /\ Confident(p)
    THEN 10 * Cardinality({t \in GeoTraits : Unlike(p, t, traits[t])})
    ELSE 0

ClientScore(p, traits) ==
  Least(20, 8 * Cardinality({t \in ClientTraits : Unlike(p, t, traits[t])}))

\* Everything the profile has to say of an event, but for its trust.
DeviceScore(p, traits) ==
  IF p.new THEN 10 ELSE GeoScore(p, traits) + ClientScore(p, traits)

-----------------------------------------------------------------------------
\* Detection, risk, policy.

\* Mutated: the window leaves out its first instant.
InWindow_Open(k, r, time) == events[k].at + Rules[r].window > time

InWindow(k, r, time) == events[k].at + Rules[r].window >= time

\* The rules that the address has reached; the event in hand counts even if
\* the window has passed it by.
Detections(own) ==
  {r \in DOMAIN Rules :
     Cardinality({k \in DOMAIN events :
                    events[k].kind \in Rules[r].kinds /\ (k = own \/ InWindow(k, r, now))})
       >= Rules[r].threshold}

DetectionScore(detected) == MapThenSumSet(LAMBDA r : Rules[r].score, detected)
Reputation(listed) == MapThenSumSet(LAMBDA s : Weight[s], listed)

Corroborated(detected, device) == DetectionScore(detected) > 0 \/ device > 0

\* Mutated: a single source is not capped.
RiskScore_Uncapped(detected, listed, device, trust) ==
  Clamp(0, 100, DetectionScore(detected) + Reputation(listed) + device + trust)

\* RiskEngine.assess.
RiskScore(detected, listed, device, trust) ==
  LET score == Clamp(0, 100, DetectionScore(detected) + Reputation(listed) + device + trust) IN
    IF Cardinality(listed) = 1 /\ ~Corroborated(detected, device)
      THEN Least(score, Ceiling) ELSE score

\* The policy's rules are listed by priority; one whose condition names no event
\* type and no source is for all kinds.
Applicable(risk, kind) ==
  {n \in DOMAIN policy.rules :
     risk >= policy.rules[n].minRisk /\ kind \in policy.rules[n].kinds}

\* PolicyEngine.evaluate.
Decide(risk, kind) ==
  IF Applicable(risk, kind) # {}
    THEN policy.rules[Min(Applicable(risk, kind))].action
    ELSE CASE risk < policy.allowBelow -> "allow"
           [] policy.allowBelow <= risk /\ risk < policy.challengeBelow ->
                IF policy.challengeEnabled THEN "challenge" ELSE "allow"
           [] OTHER ->
                IF policy.blockEnabled /\ ~policy.explicitBlock THEN "block" ELSE "allow"

\* Mutated: every request that is let through counts as safe.
Safe_Allowed(action, risk) == action = "allow"

Safe(action, risk) == action = "allow" /\ risk < 30

\* Mutated: blocked events do not count against the stored trust.
StoredTrust_Unblocked(positive, negative, blocked) ==
  LET p == [positive |-> positive, negative |-> negative]
      earned == IF positive >= MinSamples /\ Confident(p) THEN Least(20, positive) ELSE 0 IN
    Clamp(0, 100, 50 + earned - Least(30, 5 * negative))

\* The store keeps a score of its own, from the counts it is about to write.
StoredTrust(positive, negative, blocked) ==
  LET p == [positive |-> positive, negative |-> negative]
      net == Clamp(0, positive, positive - blocked)
      earned == IF net >= MinSamples /\ Confident(p) THEN Least(20, net) ELSE 0 IN
    Clamp(0, 100, 50 + earned - Least(30, 5 * negative))

\* SecurityStore.update_device_profile.
Learned(p, traits, safe, blocked) ==
  LET One(b) == IF b THEN 1 ELSE 0
      positive == p.positive + One(safe)
      negative == p.negative + One(~safe)
      refused  == p.blocked + One(blocked) IN
    [positive |-> positive, negative |-> negative, blocked |-> refused, new |-> FALSE,
     trust |-> StoredTrust(positive, negative, refused),
     known |-> [t \in Traits |->
                  IF safe THEN p.known[t] \cup ({traits[t]} \ {Missing}) ELSE p.known[t]]]

-----------------------------------------------------------------------------
\* process.

\* Store the event with the sender's time, read the profile and the cache, ask
\* the other providers.
Receive(w) ==
  /\ pc[w] = "idle" /\ Len(events) < MaxEvents
  /\ \E kind \in Kinds, traits \in [Traits -> Values \cup {Missing}], pattern \in PatternScores,
        skew \in Skews :
       /\ events' = Append(events, [kind |-> kind, traits |-> traits, at |-> now + skew])
       /\ job' = [job EXCEPT ![w] =
                    [event   |-> Len(events) + 1,
                     device  |-> pattern + DeviceScore(profile, traits),
                     trust   |-> IF profile.new THEN 0 ELSE TrustFactor(profile),
                     listed  |-> {s \in Sources : cache[s] = "listed"},
                     asked   |-> {s \in Sources : cache[s] = "nothing"}]]
  /\ pc' = [pc EXCEPT ![w] = "asking"]
  /\ UNCHANGED <<profile, cache, outcomes, policy, now>>

\* put_intelligence for the providers that answered.
Cached(answered, found) ==
  [s \in Sources |-> IF s \notin answered THEN cache[s]
                     ELSE IF s \in found THEN "listed" ELSE "clean"]

\* The providers that answer are cached, one that fails or is late counts for
\* nothing; from there to the decision and what is learned from it.
Assess(w) ==
  /\ pc[w] = "asking"
  /\ \E answered \in SUBSET job[w].asked : \E found \in SUBSET answered, trusted \in BOOLEAN :
       LET k        == job[w].event
           listed   == job[w].listed \cup found
           detected == Detections(k)
           risk     == RiskScore(detected, listed, job[w].device, job[w].trust)
           action   == IF trusted THEN "allow" ELSE Decide(risk, events[k].kind) IN
         /\ outcomes' = [outcomes EXCEPT ![k] =
              [action |-> action, risk |-> risk, detected |-> detected, listed |-> listed,
               device |-> job[w].device, trust |-> job[w].trust, at |-> now]]
         /\ cache' = Cached(answered, found)
         /\ profile' = Learned(profile, events[k].traits, Safe(action, risk), action = "block")
  /\ pc' = [pc EXCEPT ![w] = "idle"]
  /\ job' = [job EXCEPT ![w] = NoJob]
  /\ UNCHANGED <<events, policy, now>>

\* An exception: of a provider, where IntelligenceManager does not catch it,
\* or of the database.  What other providers answered before it stays cached.
Abort(w) ==
  /\ pc[w] = "asking"
  /\ \E answered \in SUBSET job[w].asked : \E found \in SUBSET answered :
       cache' = Cached(answered, found)
  /\ pc' = [pc EXCEPT ![w] = "idle"]
  /\ job' = [job EXCEPT ![w] = NoJob]
  /\ UNCHANGED <<events, profile, outcomes, policy, now>>

\* An answer outlives its time; the times of the providers' answers differ.
Expire(s) ==
  /\ cache[s] # "nothing"
  /\ cache' = [cache EXCEPT ![s] = "nothing"]
  /\ UNCHANGED <<events, profile, pc, job, outcomes, policy, now>>

Tick ==
  /\ now < MaxTime
  /\ now' = now + 1
  /\ UNCHANGED <<events, profile, pc, job, cache, outcomes, policy>>

Next ==
  \/ \E w \in Workers : Receive(w) \/ Assess(w) \/ Abort(w)
  \/ (\E s \in Sources : Expire(s)) \/ Tick

Spec == Init /\ [][Next]_vars

-----------------------------------------------------------------------------
\* Properties.

Assessed == {k \in Ids : outcomes[k].action # "none"}
Harmless == {k \in Assessed : outcomes[k].action = "allow" /\ outcomes[k].risk < 30}
Refused  == {k \in Assessed : outcomes[k].action = "block"}

\* The types, and the trust the store shows is the trust the engine assesses with.
TypeOK ==
  /\ events \in Seq([kind : Kinds, traits : [Traits -> Values \cup {Missing}], at : Int])
  /\ profile.positive + profile.negative = Cardinality(Assessed)
  /\ profile.trust = TrustScore(profile) /\ profile.trust \in 0..100 /\ profile.known \in [Traits -> SUBSET Values]
  /\ pc \in [Workers -> {"idle", "asking"}]
  /\ \A w \in Workers : pc[w] = "asking" => job[w].event \in DOMAIN events
  /\ \A k \in Assessed : outcomes[k].risk \in 0..100 /\ outcomes[k].action \in Actions
  /\ \A w \in Workers : job[w].listed \cup job[w].asked \subseteq Sources
  /\ cache \in [Sources -> {"nothing", "listed", "clean"}]
  /\ policy \in Policies /\ now \in 0..MaxTime

\* Challenged, blocked and risky events never train trust: a device whose trust
\* lowers the risk has sent enough harmless events, more than the refused ones
\* and at least as many as all others, and what is known of it comes from them.
NoPoisoning ==
  /\ TrustFactor(profile) < 0 =>
       /\ Cardinality(Harmless) - Cardinality(Refused) >= MinSamples
       /\ 2 * Cardinality(Harmless) >= Cardinality(Assessed)
  /\ \A t \in Traits : profile.known[t] \subseteq {events[k].traits[t] : k \in Harmless}

\* A block that rests on a single intelligence source, without local evidence, is
\* one the policy asks for within the ceiling: by its thresholds, or by a rule of
\* its own for a risk no higher than that.  The weight of the source, the trust of
\* the device and what other events of the address left cached do not matter.
OneSourceNeverBlocks ==
  \A k \in Refused :
    (/\ Cardinality(outcomes[k].listed) = 1
     /\ DetectionScore(outcomes[k].detected) = 0 /\ outcomes[k].device = 0)
      => \/ policy.challengeBelow <= Ceiling /\ policy.blockEnabled /\ ~policy.explicitBlock
         \/ \E n \in DOMAIN policy.rules :
              /\ policy.rules[n].action = "block" /\ policy.rules[n].minRisk <= Ceiling
              /\ events[k].kind \in policy.rules[n].kinds

\* A burst is detected, however its events overlap: of the events that reach a
\* rule's threshold within its window, counted from the first event to the last
\* assessment, one at least is assessed with that rule.
BurstDetected ==
  \A r \in DOMAIN Rules :
    \A burst \in SUBSET {k \in Assessed : events[k].kind \in Rules[r].kinds} :
      (/\ burst # {} /\ Cardinality(burst) >= Rules[r].threshold
       /\ \A i, j \in burst : outcomes[j].at - events[i].at <= Rules[r].window)
        => \E k \in burst : r \in outcomes[k].detected
=============================================================================
