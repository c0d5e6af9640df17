SPECIFICATION ACSpec
CONSTANTS
  ways = 2
  sets = 2
  MaxCounter = 2
  Tags <- MCTags
  Payloads <- MCPayloads
  TagFunc <- MCTagFunc
  HashFunc <- MCHashFunc
CHECK_DEADLOCK FALSE
INVARIANTS
  ACTypeOK
  HitsAreGiven
  RecentIsFound
  TagsInTheirSet
