SPECIFICATION PrioritizedSpec
CONSTANTS
  NrOfNodes = 4
  MaxUint = 63
  InputGraphs <- PrioritizedGraphs
  Threads = {t1, t2}
  NoThread = none
  QuickMaxDegree = 0
  QuickMaxRounds = 0
INVARIANTS
  NodesHandedOutOnce
  AcceptedShortcutsStay
  HierarchyAnswersQueries
PROPERTIES
  ImplementsContraction
  PrioritizerRunsOut
