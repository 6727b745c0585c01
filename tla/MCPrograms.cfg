SPECIFICATION FairSpec
CONSTANTS
  a = a
  b = b
  c = c
  None = None
  MaxCapacity = 10
  Leak = 4
  Samples = 3
  Rates = {0, 1, 2}
  MayWarn = TRUE
  restartKafkaService = TRUE
  Handlers <- Three
  SlipMod = 8
  Procs <- Two
  Tids = {1, 2}
  MapSize = 2
  MaxCalls = 2
  Files <- SmallFiles
  Titles = {"t1", "t2"}
  Fields <- FieldNames
  Values <- SmallValues
  MaxRuns = 3
  Elements <- Two
  K = 2
  M = 3
  Digests = {0, 1, 2, 3}
  MaxAdds = 2
  Items = {1, 2, 3}
  MaxLen = 3
CHECK_DEADLOCK FALSE
INVARIANT BurstBounded
INVARIANT RestartNeedsWarnings
INVARIANT EventIsOneCall
INVARIANT ImportComplete
INVARIANT NoFalseNegatives
INVARIANT ElementsAccounted
PROPERTY KeepsFetching
PROPERTY OnlyOldRequestsRefuse
