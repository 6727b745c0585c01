SPECIFICATION Spec
CONSTANTS
  k1 = k1
  k2 = k2
  self = self
  other = other
  Keys <- KeySet
  Self = self
  Others <- OtherSet
  StartPeers = {}
  Workload <- Membership
  SnapCount = 1
  CatchUpN = 1
  MaxLog = 3
  MaxCrashes = 1
  MaxRecvSnaps = 1
INVARIANT ConfStateMatchesLog
INVARIANT LoopNeverAborts
INVARIANT AppliedIsDurable
INVARIANT SnapshotInWAL
