SPECIFICATION MadeSpec
CONSTANTS
  Removers = {r1, r2}
  Other = other
  maxRetries = 7
  Faults = {"fail", "stream", "cancel"}
  Services <- SomeServices
  MaxComposeRuns = 2
  ComposeFaults = {"down", "lost", "fail"}
  Workspaces = {"here", "there"}
  Setups <- SomeSetups
  Bases = {"plain", "labelled"}
  Labelled = {"labelled"}
  Concurrent = FALSE
  MaxCommands = 2
  BuildFaults = {"fail", "relabel", "pull", "inspect"}
  Tasks = {"t1", "t2"}
  Kinds = {"up", "setup", "hooks", "exec", "read"}
  Confs <- SomeConfs
  Base <- SomeBase
  StageOf <- SomeStages
  Feature <- SomeFeature
  ImageUser = "root"
  Long = {"node"}
  PullAttempts = 2
  MaxTasks = 3
  MaxEdits = 1
  EnvFaults = {"fail", "registry", "remove", "foreign"}
INVARIANTS SuccessMeansGone ContainerMatchesConfig OverridesOfOneRun RunsOwnBuild ExportsComplete CommandsAgree ReportForesees ProbedEnvWhole
PROPERTIES EveryCallReturns PromiseSpec FoundServiceKept
CHECK_DEADLOCK FALSE
