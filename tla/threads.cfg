SPECIFICATION Spec
CONSTANTS
  NrOfNodes = 5
  MaxUint = 63
  InputGraphs <- GraphsOfUpToFive
  Threads = {t1, t2, t3}
  NoThread = none
  QuickMaxDegree = 2
  QuickMaxRounds = 1
INVARIANTS
  NoShortcutLost
PROPERTIES
  ContractedIsFinal
  EventuallyContracted
  ImplementsContraction
