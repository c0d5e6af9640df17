SPECIFICATION MachineSpec
CONSTANTS
  Rams = {1, 2, 3}
  pageSize = 4
  chunkSize = 4
  hostPage = 4
  HostSize = 20
  ASize = 13
  Bytes = {0, 1}
  AccessSizes = {1, 2}
  WordSize = 2
  Configs <- MCConfigs
  LoadAddrs = {1}
  StoreAddrs = {2}
  FetchAddrs = {4}
  Areas = {}
  Commands <- MCCommands
  Files <- MCFiles
CHECK_DEADLOCK FALSE
INVARIANT
  CompleteImage
