SPECIFICATION SearchSpec
CONSTANTS
  NrOfNodes = 4
  MaxUint = 31
  InputGraphs <- SearchedGraphs
  Threads = {t1, t2}
  NoThread = none
  QuickMaxDegree = 2
  QuickMaxRounds = 0
INVARIANTS
  LabelsListed
  DistancesFound
PROPERTIES
  ImplementsConstructor
  EventuallyContracted
