SPECIFICATION Spec
CONSTANTS
  NrOfNodes = 4
  MaxUint = 31
  InputGraphs <- GraphsOfFour
  Threads = {t1, t2}
  NoThread = none
  QuickMaxDegree = 3
  QuickMaxRounds = 0
INVARIANTS
  ShortcutsUnpack
  MergeSorts
  HierarchyAnswersQueries
