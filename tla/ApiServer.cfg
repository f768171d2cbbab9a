SPECIFICATION FairServerSpec
CONSTANTS
  Token = {1, 2}
  NumSlots = 1
  MinLen = 2
  MaxLen = 4
  HasDb = TRUE
  Prompts <- MCPrompts
  SeqLen = 5
  NBatches = 2
  MaxTokens = {0, 2}
  Disconnects = {"prompt"}
  Garbage = Garbage
  MaxLruScore = 7
  MaxCacheId = 3
CONSTRAINT CountersBounded
INVARIANTS
  ServerTypeOK
  SlotsHoldTheirPrefix
  SavedRowsMatchPrefix
PROPERTIES
  SavedPrefixesOnlyGrow
  CacheIsTransparent
  RequestsFinish
CHECK_DEADLOCK FALSE
