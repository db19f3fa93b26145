CONSTANTS
  n1 = n1
  Nodes = {n1}
  ClientOps = {"snapshot"}
  MaxVersion = 5
  MaxCalls = 1
  MaxRetries = 0
  MaxSnapshots = 2
  MaxFaults = 1
SPECIFICATION ResumeSpec
INVARIANT RestingRowMatchesVM
