SPECIFICATION Spec
CONSTANTS
  RunPoints = {"p1", "p2", "p3"}
  RunAxes = {"x", "y"}
  RunValueOf <- MCRunValueOf
  RunOrder <- MCRunOrder
  RunObjectives = {"hz", "area"}
  RunMaximized = {"hz"}
  RunThermalLimit = 5
  RunOutcomes <- MCRunOutcomes
  RunConfigs <- MCRunConfigs
  BundleWriters = {"w1", "w2"}
  BundleShared = {"inputs"}
  GraphNodes = {"a", "b", "c"}
  GraphTensors = {"t", "u"}
  GraphsToCheck <- MCGraphs
INVARIANTS CiWithinFull FrontierSound CoverageTrue ArtifactHonest
  AcceptedIsOneRun OrderIsTopological GraphsAreWired SweepAccounts SearchIsPrepared MetricsAddUp
CHECK_DEADLOCK FALSE
