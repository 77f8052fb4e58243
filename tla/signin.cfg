\* Two people, one of them in two windows, sign in to a new system.
SPECIFICATION SignInSpec
CONSTANTS
  p1 = p1
  p2 = p2
  n1 = n1
  n2 = n2
  n3 = n3
  c1 = c1
  c2 = c2
  c3 = c3
  NoName = NoName
  Person <- TwoPeople
  Name <- ThreeNames
  Callback <- ThreeCallbacks
  MaxFailures = 1
SYMMETRY Symmetry
INVARIANTS
  SignInTypeOK
  AdminExists
PROPERTY AccountsKept
