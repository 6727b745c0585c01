SPECIFICATION ServersFairSpec
CONSTANTS
  t1 = t1
  t2 = t2
  NumServers = 2
  Resolvers <- TwoThreads
  MaxFailures = 2
  MaxChanges = 2
INVARIANT OnlyDeadServersUnused
PROPERTY WorkingServerIsUsed
