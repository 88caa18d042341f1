SPECIFICATION Spec
CONSTANTS
  ExecutorOps = {"MMUL", "RMSNORM", "VADD", "DMA_LD", "VRED_MAX", "MAXPOOL"}
  Totals = {0, 1, 2, 3, 4, 5, 6, 7, 8, 9}
  Chunks = {1, 2, 3, 4, 5}
  SramBases = {0, 3, 9}
  DramBases = {0, 5}
  MaxSize = 4
  SramField = 10
  LoadSram = 12
  DramSize = 12
  CompiledTraces <- MCCompiledTraces
  SimulatedTraces <- MCSimulatedTraces
  GemmCost <- MCGemmCost
  PairCost <- MCPairCost
  NocCost <- MCNocCost
  SfuCost <- MCSfuCost
  VectorCost <- MCVectorCost
  KvAccess = 1
  KvSwitch = 2
  PsPerMega = 100
  Frequency = 7
  RefreshOneIn = 5
INVARIANTS ReadsPredecessor MovesExactlyTheRequest ComputesItsReference ClockIsSerialWork
  BarrierBetweenLayers
CHECK_DEADLOCK FALSE
