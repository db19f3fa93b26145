CONSTANTS
  n1 = n1
  Nodes = {n1}
  ClientOps = {"pause", "resume", "delete", "snapshot"}
  MaxVersion = 4
  MaxCalls = 1
  MaxRetries = 1
  MaxSnapshots = 1
  MaxFaults = 2
SPECIFICATION SteadySpec
INVARIANT RestingRowMatchesVM
