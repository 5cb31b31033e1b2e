CONSTANTS
  Threads = {"t1", "t2", "t3", "t4"}
  Models = {"m1", "m2"}
  NoModel = "none"
  ModelOf <- MCModelOf
  MayBatch = {"t1", "t2", "t3", "t4"}
  BatchCapable = {TRUE, FALSE}
  Capacity = 2
  MaxQueue = 2
  TimesOut = TRUE
  RetryEnabled = TRUE
SPECIFICATION FairSpec
INVARIANTS TypeOK CountersMatchThreads BackendProtected NoLostWakeup GateInv
PROPERTIES ImplementsLease EveryThreadFinishes
CHECK_DEADLOCK FALSE
