SPECIFICATION Spec
CONSTANTS
  Clients = {c1}
  Options <- MCOptionsAll
  Commands <- MCCommandsParallel
  Faults = {"crash", "exec", "inspect", "recreate", "restart"}
  Concurrent = FALSE
  MaxRuns = 2
  MaxStarts = 2
INVARIANTS CompleteRunRanAll OncePerStamp
PROPERTY EveryRunEnds
