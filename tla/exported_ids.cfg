SPECIFICATION PipelineSpec
CONSTANTS
  NrOfNodes = 4
  MaxUint = 63
  InputGraphs <- QueryGraphs
  Threads = {t1}
  NoThread = none
  QuickMaxDegree = 2
  QuickMaxRounds = 1
  OutFormats = {"FMI_CH"}
  MaxQueries = 0
INVARIANTS
  ExportedIdsArePositions
