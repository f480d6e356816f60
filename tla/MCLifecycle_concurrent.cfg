SPECIFICATION Spec
CONSTANTS
  Clients = {c1, c2}
  Options <- MCOptionsPlain
  Commands <- MCCommandsOne
  Faults = {"home", "recreate"}
  Concurrent = TRUE
  MaxRuns = 3
  MaxStarts = 2
INVARIANTS MarkersHonest MarkersAgree OnceUnlessRaced
