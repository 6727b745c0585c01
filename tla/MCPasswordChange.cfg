SPECIFICATION PasswordSpec
CONSTANTS
  r1 = r1
  r2 = r2
  r3 = r3
  alice = alice
  nobody = nobody
  weak = weak
  strong1 = strong1
  strong2 = strong2
  None = None
  Requests <- SmallRequests
  Users <- OneUser
  Strangers <- OneStranger
  Passwords <- SmallPasswords
  Strong <- SmallStrong
  Initial = weak
SYMMETRY RequestSymmetry
PROPERTY ImplementsRegister
 
