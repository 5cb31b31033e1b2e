CONSTANTS
  Keys = {"b1", "y"}
  NoKey = "nokey"
  Requests <- MCRequests
  NoCohort = "nocohort"
  NLanes = 2
  Gone = {"b1"}
  Hasty = {"b1"}
  Slow = {"b1", "y"}
  Faults = {"gpu", "poison", "think"}
  MaxFaults = 1
  MayDie = TRUE
SPECIFICATION FairSpec
PROPERTIES EveryCallReturns
CHECK_DEADLOCK FALSE
