SPECIFICATION ServerSpec
CONSTANTS
  Token = {1, 2}
  NumSlots = 1
  MinLen = 2
  MaxLen = 6
  HasDb = TRUE
  Prompts <- MCPrompts
  SeqLen = 5
  NBatches = 2
  MaxTokens = {0, 1}
  Disconnects = {"prompt", "stream", "reply"}
  Garbage = Garbage
  MaxLruScore = 9
  MaxCacheId = 3
CONSTRAINT CountersBounded
INVARIANT
  AnswersFromOwnPrompt
CHECK_DEADLOCK FALSE
