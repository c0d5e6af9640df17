SPECIFICATION AssembledSpec
CONSTANTS
  Statements <- UpperStatements
  Words = {}
INVARIANT ExecutesWhatWasWritten
