SPECIFICATION Spec
CONSTANTS
  kSets = 2
  kWays = 1
  kCapacity = 3
  SetSpan = 8
  PCs <- MCPCs
  Instrs <- CodeInstrs
  XSize = 8192
  RegVals <- CodeVals
  Operands <- CodeVals
  BitOr <- MCBitOr
  BitClear <- MCBitClear
  Mapped <- MCMapped
  Words <- CodeWords
  StoreWords = {1, 2}
  Garbled <- CodeGarbled
  parse <- CodeTable
  Programs <- CodePrograms
CHECK_DEADLOCK FALSE
INVARIANTS
  PoisonNeverMet
  DispatchInBlock
  CachedCodeIsMemory
PROPERTIES
  KeepsExecuting
  TracerSparesAlignedCode
