SPECIFICATION PMSpec
CONSTANTS
  Rams = {1, 2, 3}
  pageSize = 4
  chunkSize = 4
  hostPage = 4
  HostSize = 20
  ASize = 13
  Bytes = {0, 1}
  AccessSizes = {1, 2}
  WordSize = 2
  Configs <- OneConfig
  LoadAddrs = {1, 6, 8}
  StoreAddrs = {0}
  FetchAddrs = {0, 1, 2, 3, 4}
  Areas <- OneArea
CHECK_DEADLOCK FALSE
INVARIANT FetchesWholeWords
