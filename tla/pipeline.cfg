SPECIFICATION PipelineSpec
CONSTANTS
  NrOfNodes = 4
  MaxUint = 63
  InputGraphs <- QueryGraphs
  Threads = {t1}
  NoThread = none
  QuickMaxDegree = 2
  QuickMaxRounds = 1
  MaxQueries = 2
  OutFormats = {"STD", "FMI_CH"}
INVARIANTS
  VectorsAgree
  EdgesFoundById
  LabelsWillBeReset
  PathsLead
  WrittenFileHasDistances
  WrittenShortcutsUnpack
PROPERTIES
  ImplementsQueries
