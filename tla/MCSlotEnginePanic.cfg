CONSTANTS
  NSlots = 2
  CapTokens = 2
  SlabCap = 3
  MaxSessions = 2
  WeightBytes = 10
  KvBytes = 2
  BudgetBytes = 30
  Requests = {"C1", "D1"}
  Convo <- MCConvo
  Prompt <- MCPrompt
  Continuation <- MCContinuation
  MaxTokens <- MCMaxTokens
  MayVanish = {}
  Vocab = {"g"}
  DecodeGraph = FALSE
  CtxBucket = 3
  FaultKinds = {}
  MaxFaults = 0
SPECIFICATION Spec
INVARIANTS SuccessMeansDone
CHECK_DEADLOCK FALSE
