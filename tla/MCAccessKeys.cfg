SPECIFICATION Spec
CONSTANTS
  a1 = a1  a2 = a2  k1 = k1  k2 = k2  k3 = k3
  boot = boot  t1 = t1  s1 = s1  s2 = s2  s3 = s3  f = f  r1 = r1  r2 = r2  r3 = r3
  Account = {a1, a2}
  Request = {r1, r2, r3}
  Key = {k1, k2, k3}
  Name = {boot, t1, f, s1, s2, s3}
  Secret <- MCSecret
  Root = a1
  Calls <- MCCalls
  Seeds <- MCSeeds
  DefaultTTL = 1
  MaxInt = 3
  Until = 1
  NoName = NoName  Gone = Gone  Nobody = Nobody  Refused = Refused
SYMMETRY Symmetry
INVARIANTS FailedStartOnlyByOverlap
PROPERTIES ImplementsRegistry ChangedOnlyAsAsked LapsesOnlyByWill StartLeavesKey
CHECK_DEADLOCK FALSE
