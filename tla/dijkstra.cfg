SPECIFICATION Spec
CONSTANTS
  NrOfNodes = 3
  MaxUint = 15
  InputGraphs <- SearchedGraphs
INVARIANTS
  PathsLead
  LabelsWillBeReset
PROPERTIES
  QueriesEnd
  ImplementsQueries
