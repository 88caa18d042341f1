SPECIFICATION Spec
CONSTANTS
  Job = {1, 2, 3, 4, 5, 6}
  NoJob = NoJob
  ClassId = {"hi", "lo"}
  StreamId = {"s"}
  Resource = {"compute"}
  ClassOf <- ThreeThree
  IdRank <- IdOrder
  Classes <- HighMailbox
  Scenario <- OneEngine
  ArrivalTimes = {0, 1, 3}
INVARIANTS NothingLost AdmissionWithinLimits AdmissionAccounts
PROPERTIES AcceptedComplete
