CONSTANTS
  Procs = {"p"}
  Keys = {"k0", "k1"}
  Sizes = {2, 4}
  HostBudget = 3
  MaxPuts = 3
  FaultKinds = {"new", "write", "read", "remove", "damage"}
  MaxFaults = 2
SPECIFICATION Spec
INVARIANTS TypeOK HostUsedExact DiskEntryBacked
PROPERTIES ImplementsStore
CHECK_DEADLOCK FALSE
