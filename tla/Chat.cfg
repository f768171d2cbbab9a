SPECIFICATION FairChatSpec
CONSTANTS
  Vocab <- MCVocab
  Score <- MCScore
  Bos = 7
  EosTokenIds <- MCEos
  Modes = {"inference", "chat"}
  Prompts <- MCPrompts
  Messages <- MCMessages
  SeqLen = 6
  NBatches = 2
  Steps = {4, 8}
  Sampled = {1, 2, 3, 4, 5, 9}
INVARIANTS
  ChatTypeOK
  ShownIsDecoded
  ContextIsConversation
PROPERTY
  AnswersEnd
CHECK_DEADLOCK FALSE
