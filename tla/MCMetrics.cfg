SPECIFICATION Spec
CONSTANTS
  v1 = v1  v2 = v2  c1 = c1  r1 = r1  r2 = r2  r3 = r3  r4 = r4
  Empty = Empty
  NoClient = NoClient
  Label = {v1, v2}
  Client = {c1}
  Request = {r1, r2, r3, r4}
  Calls <- MCCalls
SYMMETRY Symmetry
INVARIANTS
  ActiveFollowsClient
  RemnantsOnlyFromRaces
  StillClientCountedOnce
  StillClientNotMissed
CHECK_DEADLOCK FALSE
