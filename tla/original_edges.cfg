SPECIFICATION Spec
CONSTANTS
  NrOfNodes = 4
  MaxUint = 63
  InputGraphs <- NamedGraphs
  Threads = {t1}
  NoThread = none
  QuickMaxDegree = 2
  QuickMaxRounds = 1
INVARIANTS
  OriginalEdgesKept
