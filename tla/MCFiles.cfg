SPECIFICATION FilesSpec
CONSTANTS
  Runs = {r1, r2, r3}
  Ids = {1, 2, 3}
  Tarballs = {3}
  Digests = {1, 2}
  Needs <- SomeNeeds
  Configs <- SomeConfigs
  Extras <- SomeExtras
  Written <- SomeWritten
  MaxActive = 2
  MaxMoves = 1
  MaxFaults = 1
  Procs = {p1, p2}
  Features = {f}
  MaxFailures = 2
  MaxChanges = 1
INVARIANTS KeepsBlocking
PROPERTIES FrozenIsLocked BuildKeepsPins StaysReadable
CHECK_DEADLOCK FALSE
SYMMETRY RunSymmetry
