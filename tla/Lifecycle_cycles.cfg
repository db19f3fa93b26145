CONSTANTS
  n1 = n1
  Nodes = {n1}
  ClientOps = {"pause", "resume", "snapshot"}
  MaxVersion = 6
  MaxCalls = 1
  MaxRetries = 0
  MaxSnapshots = 1
  MaxFaults = 2
SPECIFICATION SteadySpec
INVARIANT RestingRowMatchesVM
