SPECIFICATION Spec
CONSTANTS
  Clients = {c1}
  Options <- MCOptionsPlain
  Commands <- MCCommandsOne
  Faults = {}
  Concurrent = FALSE
  MaxRuns = 2
  MaxStarts = 1
INVARIANT DroppedHadRun
