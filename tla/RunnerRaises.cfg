SPECIFICATION Spec
CONSTANTS
  Job = {1, 2, 3, 4}
  NoJob = NoJob
  ClassId = {"hi", "lo"}
  StreamId = {"s"}
  Resource = {"compute"}
  ClassOf <- TwoThree
  IdRank <- IdOrder
  Classes <- TwoLevels
  Scenario <- TwoEngines
  ArrivalTimes = {0, 1, 2}
INVARIANTS ReturnsMetrics
