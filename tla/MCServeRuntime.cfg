CONSTANTS
  Threads = {"t1", "t2", "t3", "t4"}
  Models = {"a", "b"}
  NoModel = "none"
  ModelOf <- MCModelOf
  Needs <- MCNeeds
  MayBatch = {"t1", "t2"}
  BatchModels = {"a"}
  CacheModels = {"a"}
  RetryModels = {"a"}
  WarmModels = {"a"}
  NoticeModels = {"b"}
  Capacity = 2
  DefaultSeq = 1
  PrewarmModel = "none"
  IdleUnload = FALSE
  Faults = {"load", "reset", "generate"}
  MaxFaults = 2
  Prewarmer = "prewarmer"
  Evictor = "evictor"
  NoOwner = "nobody"
SPECIFICATION Spec
INVARIANTS TypeOK ServedAsAsked CleanStart
CHECK_DEADLOCK FALSE
