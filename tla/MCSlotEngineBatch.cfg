CONSTANTS
  NSlots = 2
  CapTokens = 3
  SlabCap = 6
  MaxSessions = 4
  WeightBytes = 10
  KvBytes = 2
  BudgetBytes = 30
  Requests = {"A1", "A2", "C1", "D1"}
  Convo <- MCConvo
  Prompt <- MCPromptSideBySide
  Continuation <- MCContinuation
  MaxTokens <- MCMaxTokensSideBySide
  MayVanish = {}
  Vocab = {"g"}
  DecodeGraph = TRUE
  CtxBucket = 2
  FaultKinds = {"sample_failed"}
  MaxFaults = 1
SPECIFICATION Spec
INVARIANTS SlotOwnership ContextFaithful
PROPERTIES EmitsFromOwnContext
CHECK_DEADLOCK FALSE
