SPECIFICATION PublishedSpec
CONSTANTS
  Jobs = {j1, j2, j3}
  Repos = {"go", "golang", "node"}
  Collections <- Releases
  MaxActive = 2
  MaxFaults = 1
  CollectionType = "template"
  Single = FALSE
  Folders <- SomeFolders
  Authored <- SomeAuthored
  Workspaces <- SomeWorkspaces
  Requests <- SomeRequests
  Longer <- SomeLonger
  PackageFaults = {"disk", "readonly", "fetch", "write"}
  MaxPackages = 2
  MaxApplies = 2
  Registries <- SomeRegistries
  Fetches <- SomeFetches
  AuthWorlds <- SomeWorlds
INVARIANTS LeftOutIsOptional
CHECK_DEADLOCK FALSE
