SPECIFICATION RegSpec
CONSTANTS
  XLEN = 4
  WLEN = 2
  Regs = {0, 1, 2}
  InitVals = {0, 1, 6, 15}
  Instrs <- MCInstrs
INVARIANTS
  RegTypeOK
  FollowsISA
  KnownDepartures
