CONSTANTS
  n1 = n1
  n2 = n2
  Nodes = {n1, n2}
  ClientOps = {"pause", "resume", "delete", "snapshot"}
  MaxVersion = 4
  MaxCalls = 2
  MaxRetries = 1
  MaxSnapshots = 1
  MaxFaults = 1
SPECIFICATION Spec
SYMMETRY NodeSymmetry
INVARIANTS TypeOK NothingAhead EventsAgree OneHome Coherent
PROPERTIES ImplementsPhases DeleteSticks
