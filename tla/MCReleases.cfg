SPECIFICATION Spec
CONSTANTS
  a1 = a1  d1 = d1  d2 = d2  r1 = r1  r2 = r2  r3 = r3
  w1 = w1  w2 = w2  x1 = x1  x2 = x2
  NoLabel = NoLabel
  Account = {a1}
  Deployment = {d1}
  Request = {r1, r2, r3}
  Version = {w1, w2}
  Payload = {x1, x2}
  Seeds <- MCSeeds
  Calls <- MCCalls
  Grants = {}
SYMMETRY Symmetry
INVARIANTS
  TypeOK
  PurgeUndoneOnlyByOverlap
  OriginalLabelResolves
  MetricsOutlivePurgeOnlyByFailure
PROPERTIES
  ImplementsLog
CHECK_DEADLOCK FALSE
