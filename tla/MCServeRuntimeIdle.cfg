CONSTANTS
  Threads = {"t1", "t2"}
  Models = {"a", "b"}
  NoModel = "none"
  ModelOf <- MCModelOf
  Needs <- MCNeeds
  MayBatch = {"t1", "t2"}
  BatchModels = {"a"}
  CacheModels = {"a"}
  RetryModels = {"a"}
  WarmModels = {"a"}
  NoticeModels = {}
  Capacity = 2
  DefaultSeq = 1
  PrewarmModel = "a"
  IdleUnload = TRUE
  Faults = {"load", "warm", "reset", "unload", "generate"}
  MaxFaults = 1
  Prewarmer = "prewarmer"
  Evictor = "evictor"
  NoOwner = "nobody"
SPECIFICATION FairSpec
INVARIANTS RuntimeMatchesDaemon
PROPERTIES EveryRequestEnds
CHECK_DEADLOCK FALSE
