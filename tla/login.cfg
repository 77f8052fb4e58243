\* Polls and grants of two users at the same time, until the flow is served.
SPECIFICATION FairSpec
CONSTANTS
  u1 = u1
  u2 = u2
  r1 = r1
  r2 = r2
  r3 = r3
  NoUser = NoUser
  User <- TwoUsers
  Request <- ThreeRequests
  MaxVisits = 2
  MaxFaults = 1
INVARIANTS
  TypeOK
  ConsumedOnce
  IssuedAsApproved
PROPERTIES
  ApprovedIsServed
  ImplementsGrant
