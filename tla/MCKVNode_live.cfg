SPECIFICATION FairSpec
CONSTANTS
  k1 = k1
  k2 = k2
  self = self
  other = other
  Keys <- KeySet
  Self = self
  Others <- OtherSet
  StartPeers = {other}
  Workload <- Membership
  SnapCount = 3
  CatchUpN = 3
  MaxLog = 3
  MaxCrashes = 1
  MaxRecvSnaps = 0
INVARIANT PeersFollowLog
PROPERTY LoopReturns
 
PROPERTY RemovedMemberExits
