SPECIFICATION WorkspaceSpec
CONSTANTS
  front = front
  back = back
  Configs = {front, back}
  NoConfig = noConfig
  Clients = {p1, p2}
  Existing <- SomeExisting
  Requests <- SomeRequests
  MaxRequests = 4
  Names <- SomeNames
  Workspace <- SomeWorkspace
  GitHosts <- SomeGitHosts
  ConfFiles <- SomeConfFiles
  Documents <- SomeDocuments
  Flags <- SomeFlags
  MaxChanges = 1
  MaxRuns = 2
  Faults = {"crash", "list", "inspect", "build", "initialize", "start", "stop", "remove"}
INVARIANTS OnePerConfig WorkspaceIsMounted
PROPERTIES UpReportsRunning DownLeavesNothing UpTouchesOwn
