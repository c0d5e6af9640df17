SPECIFICATION Spec
CONSTANTS
  kSets = 2
  kWays = 1
  kCapacity = 3
  SetSpan = 8
  PCs <- MCPCs
  Instrs <- TrapInstrs
  XSize = 8192
  RegVals <- TrapVals
  Operands <- TrapOperands
  BitOr <- MCBitOr
  BitClear <- MCBitClear
  Mapped <- TrapMapped
  Words <- TrapWords
  StoreWords = {}
  Garbled = {}
  parse <- TrapTable
  Programs <- TrapPrograms
CHECK_DEADLOCK FALSE
PROPERTIES
  MretResumesInterrupted
