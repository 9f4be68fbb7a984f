SPECIFICATION Spec
CONSTANTS
  Workers = {w1, w2}
  Kinds = {"failed"}
  Rules <- Burst
  Skews <- Clocks
  Sources = {s1}
  Weight <- ListedWeight
  Ceiling = 89
  Policies <- Thresholds
  PatternScores = {0}
  GeoTraits = {geo}
  ClientTraits = {}
  Values = {home, away}
  Missing = Missing
  MinSamples = 2
  GeoSamples = 1
  MaxEvents = 3
  MaxTime = 1
INVARIANTS TypeOK NoPoisoning OneSourceNeverBlocks BurstDetected
\* The bound on events ends every behaviour.
CHECK_DEADLOCK FALSE
SYMMETRY Alike
