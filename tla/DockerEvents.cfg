SPECIFICATION FairSpec
CONSTANTS
  BatchCap = 2
  MaxDedupe = 4
  PerSecond = 2
  MaxEvents = 6
  MaxTime = 3
  MaxFaults = 2
INVARIANTS TypeOK NothingSkipped InOrderOnce
PROPERTY EventsArrive
