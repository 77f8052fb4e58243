\* Two passwords, two clients, one owner, a cache for one credential.
SPECIFICATION FairSpec
CONSTANTS
  p1 = p1
  p2 = p2
  r1 = r1
  r2 = r2
  Wrong = Wrong
  Password <- TwoPasswords
  Req <- TwoRequests
  Owner = {o1}
  MaxEntries = 1
  MaxWipes = 1
INVARIANTS
  TypeOK
PROPERTIES
  DeadStaysDead
  RevocationTakesHold
