CONSTANTS
  NSlots = 2
  CapTokens = 3
  SlabCap = 3
  MaxSessions = 3
  WeightBytes = 10
  KvBytes = 2
  BudgetBytes = 30
  Requests = {"A1", "A2", "C1"}
  Convo <- MCConvo
  Prompt <- MCPrompt
  Continuation <- MCContinuation
  MaxTokens <- MCMaxTokens
  MayVanish = {}
  Vocab = {"g"}
  DecodeGraph = FALSE
  CtxBucket = 3
  FaultKinds = {}
  MaxFaults = 0
SPECIFICATION Spec
INVARIANTS ContextFaithful
CHECK_DEADLOCK FALSE
