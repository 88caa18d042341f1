SPECIFICATION Spec
CONSTANTS
  Job = {1, 2, 3, 4, 5}
  NoJob = NoJob
  ClassId = {"hi", "lo"}
  StreamId = {"s"}
  Resource = {"compute"}
  ClassOf <- TwoThree
  IdRank <- IdOrder
  Classes <- TwoLevels
  Scenario <- OneEngine
  ArrivalTimes = {0, 1, 2, 4}
INVARIANTS ServiceConserved FifoInOrder NoPriorityInversion
PROPERTIES ImplementsLifecycle AcceptedComplete
