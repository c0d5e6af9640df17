SPECIFICATION CacheSpec
CONSTANTS
  kSets = 2
  kWays = 2
  kCapacity = 3
  SetSpan = 8
  PCs <- MCPCs
  Instrs <- MCInstrs
INVARIANTS
  CacheTypeOK
  InItsSet
  UniqueTags
  CompleteBlocks
  FillsBeforeEvicting
PROPERTY
  ImplementsFifo
