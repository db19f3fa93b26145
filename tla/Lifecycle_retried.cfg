CONSTANTS
  n1 = n1
  n2 = n2
  Nodes = {n1, n2}
  ClientOps = {"pause", "resume", "delete", "snapshot"}
  MaxVersion = 5
  MaxCalls = 1
  MaxRetries = 0
  MaxSnapshots = 1
  MaxFaults = 1
SPECIFICATION RetriedSpec
INVARIANT OneHome
