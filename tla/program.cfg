SPECIFICATION ProgramSpec
CONSTANTS
  NrOfNodes = 3
  MaxUint = 511
  MaxThreads = 8
  NewLine = NewLine
  Word = Word
  Starts <- ProgramStarts
  ReadableFiles <- Readable
  WritableFiles <- Writable
INVARIANTS
  DeliversInputGraph
  KeepsDistances
  TimesCoverLengths
  MisreadFilesGiveNothing
  CompleteFilesAreRead
  FailureLeavesOutput
PROPERTIES
  ProgramEnds
