SPECIFICATION Spec
CONSTANTS
  NrOfNodes = 3
  MaxUint = 31
  InputGraphs <- GraphsOfThree
  Threads = {t1, t2}
  NoThread = none
  QuickMaxDegree = 2
  QuickMaxRounds = 1
INVARIANTS
  TypeOK
  AcceptedShortcutsStay
  LevelsSeparate
  IdsDense
  DirectionIrrelevant
  HierarchyAnswersQueries
