\* A revocation and a request that has read the row before it.
SPECIFICATION Spec
CONSTANTS
  p1 = p1
  p2 = p2
  r1 = r1
  r2 = r2
  Wrong = Wrong
  Password <- TwoPasswords
  Req <- TwoRequests
  Owner = {o1}
  MaxEntries = 1
  MaxWipes = 1
SYMMETRY Symmetry
INVARIANTS
  RevokedStopsNow
