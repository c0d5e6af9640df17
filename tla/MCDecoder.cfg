SPECIFICATION AssembledSpec
CONSTANTS
  Statements <- NearStatements
  Words <- SampledWords
INVARIANTS
  ExecutesWhatWasWritten
  AcceptsOnlyEncodings
  DecodesForHart
