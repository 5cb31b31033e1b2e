CONSTANTS
  NSlots = 1
  CapTokens = 2
  SlabCap = 3
  MaxSessions = 3
  WeightBytes = 10
  KvBytes = 2
  BudgetBytes = 15
  Requests = {"A1", "A2", "C1"}
  Convo <- MCConvo
  Prompt <- MCPrompt
  Continuation <- MCContinuation
  MaxTokens <- MCMaxTokens
  MayVanish = {"A1", "C1"}
  Vocab = {"g"}
  DecodeGraph = FALSE
  CtxBucket = 3
  FaultKinds = {"capture_failed", "park_failed", "unpark_failed", "copy_failed", "reset_failed", "forward_failed"}
  MaxFaults = 1
SPECIFICATION FairSpec
INVARIANTS TypeOK SlotOwnership ContextFaithful SnapshotFaithful BudgetMatchesSessions
PROPERTIES EmitsFromOwnContext AnswersOnce EveryRequestAnswered DropTerminates
CHECK_DEADLOCK FALSE
