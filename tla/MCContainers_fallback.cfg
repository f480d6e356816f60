SPECIFICATION ContainersSpec
CONSTANTS
  front = front
  back = back
  Configs = {front, back}
  NoConfig = noConfig
  Clients = {p1}
  Existing <- NoneExisting
  Requests <- DownRequests
  MaxRequests = 3
  Names <- SomeNames
  Workspace <- SomeWorkspace
  GitHosts <- SomeGitHosts
  ConfFiles <- SomeConfFiles
  Documents <- SomeDocuments
  Flags <- SomeFlags
  MaxChanges = 1
  MaxRuns = 2
  Faults = {}
PROPERTY ConfigFindsItsOwn
