SPECIFICATION ServedSpec
CONSTANTS
  k1 = k1
  k2 = k2
  self = self
  other = other
  Keys <- KeySet
  Self = self
  Others <- OtherSet
  StartPeers = {}
  Workload <- Puts
  SnapCount = 1
  CatchUpN = 1
  MaxLog = 4
  MaxCrashes = 1
  MaxRecvSnaps = 2
PROPERTY ServesCommittedMap
INVARIANT StoreIsCommittedPrefix
INVARIANT SnapshotLagsByOneEntry
