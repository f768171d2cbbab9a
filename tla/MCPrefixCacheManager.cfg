SPECIFICATION ManagerSpec
CONSTANTS
  Token = {1, 2}
  NumSlots = 2
  MinLen = 2
  MaxLen = 4
  HasDb = TRUE
  Prompts <- MCPrompts
  MaxLruScore = 4
  MaxCacheId = 2
CONSTRAINT CountersBounded
INVARIANTS
  ManagerTypeOK
  SlotEntriesAgree
  DbEntriesAgree
  FreshIds
  LruOrder
  MemoryAgreesWithDisk
CHECK_DEADLOCK FALSE
