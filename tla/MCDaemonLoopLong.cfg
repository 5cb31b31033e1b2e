CONSTANTS
  Keys = {"b1", "g"}
  NoKey = "nokey"
  Requests <- MCRequests
  NoCohort = "nocohort"
  NLanes = 2
  Gone = {}
  Hasty = {}
  Slow = {"b1"}
  Faults = {"gpu", "poison", "think"}
  MaxFaults = 0
  MayDie = FALSE
SPECIFICATION FairSpec
PROPERTIES EveryCallReturns
CHECK_DEADLOCK FALSE
