SPECIFICATION ShutdownFairSpec
CONSTANT
  Callers = {c1, c2}
INVARIANT ClosedOnce
INVARIANT PeersServed
 
PROPERTY RaftDownExits
PROPERTY RequestsTaken
CHECK_DEADLOCK FALSE
