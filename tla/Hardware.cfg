CONSTANTS
  TierCount = 3
  TierCapacity <- MCTierCapacity
  TierReserve <- MCTierReserve
  TierOnChip = 2
  Tensors <- MCTensors
  MaxTensors = 4
  ModelCounts = {1, 2}
  ChannelCount = 2
  DmaSizes = {0, 9}
  DmaBlocks = {1, 3}
  DmaBurst = 4
  DmaOverhead = 5
  DmaFifoDepth = 2
  DmaBytesPerCycle = 3
  DmaRequests = 3
  UnitMembers = {1, 2, 3}
  UnitCapacity = 4
  UnitCounts = {1, 2, 3}
  ServerMembers = {1, 2, 3}
  ServerBandwidth = 2
  ServerBytes = {0, 1, 3}
  ServerPriorities = {0, 1}
  ServerTime = 2
  CoreCount = 2
  CoreWork = {0, 1, 3}
  CoreTransfer = 2
  CoreLayers = 5
  CacheConfigs <- MCCacheConfigs
  CacheTokenValues = {2, 4}
  CacheLayers = {2}
  CacheContext = 8
  CacheSramBw = 10
  CacheHit = 2
  CacheTokens = 7
SPECIFICATION Spec
INVARIANTS PlacedWhole ActivationHasArrived 
PROPERTIES ServedInOrder ReportsTheTransfer SharesWhatThereIs
CHECK_DEADLOCK FALSE
