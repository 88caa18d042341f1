SPECIFICATION Spec
CONSTANTS
  Job = {1, 2, 3, 4, 5}
  NoJob = NoJob
  ClassId = {"hi", "lo"}
  StreamId = {"s"}
  Resource = {"compute"}
  ClassOf <- TwoThree
  IdRank <- IdOrder
  Classes <- TwoLevels
  Scenario <- CutShort
  ArrivalTimes = {0, 1, 2, 3}
INVARIANTS UsedIsHeld KernelAgrees WorkConserving
