SPECIFICATION Spec
CONSTANTS
  c1 = c1
  c2 = c2
  c3 = c3
  NoNic = NoNic
  Clients <- ClientSet
  LeaseRange = 2
  LeaseDuration = 1
  MaxTime = 2
  MaxXid = 2
SYMMETRY ClientSymmetry
 
 
INVARIANT FreeLeaseFindsAny
