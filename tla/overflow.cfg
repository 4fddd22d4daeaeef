SPECIFICATION Spec
CONSTANTS
  NrOfNodes = 5
  MaxUint = 7
  InputGraphs <- LongRing
  Threads = {t1}
  NoThread = none
  QuickMaxDegree = 2
  QuickMaxRounds = 0
INVARIANTS
  SearchReachesTargets
