SPECIFICATION FeaturesSpec
CONSTANTS
  Refs <- MCRefs
  Same <- MCSame
  Satisfies <- MCSatisfies
  Rank <- MCRank
  Inputs <- MCInputs
  FeatureRefs <- SomeRefs
  Kind <- SomeKinds
  Wanted <- SomeWanted
  Offers <- SomeOffers
  SkipAutoMapping = TRUE
  StagingFaults = {"fail", "rename", "file"}
  MaxVersion = 2
  MaxFetches = 2
  MaxBuilds = 2
  TestRuns = {1, 2}
  Tested = {"a", "b"}
  Scenarios <- SomeScenarios
  Scripts <- SomeScripts
  Garbled = {"b"}
  Uses <- SomeUses
  Sources = {"a", "b"}
  TestOptions <- SomeOptions
  TestFaults = {"disk", "up", "script", "docker", "remove"}
INVARIANTS DependenciesFirst CompleteOnce CircularIsReal OverrideHonoured LayersAsResolved VerdictEarned
PROPERTY Terminates
CHECK_DEADLOCK FALSE
