CONSTANTS
  Keys = {"b1", "b2", "x"}
  NoKey = "nokey"
  Requests <- MCRequests
  NoCohort = "nocohort"
  NLanes = 2
  Gone = {"b1"}
  Hasty = {"b1"}
  Slow = {"b1"}
  Faults = {"gpu", "poison", "think"}
  MaxFaults = 1
  MayDie = FALSE
SPECIFICATION Spec
INVARIANTS TypeOK Transcript DoneMeansCommitted LanesOwnTheirKeys OneCohort BarrierWaits EarlyAbortStops
CHECK_DEADLOCK FALSE
