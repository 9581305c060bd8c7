SPECIFICATION Spec
CONSTANTS
  r1 = r1  r2 = r2  r3 = r3  r4 = r4
  Request = {r1, r2, r3, r4}
  Kind <- MCKind
  N = 2
  Nested = 1
INVARIANTS BlockedOnlyByLookups DisturbedOnlyWhenLate LeavesNothingOpen
PROPERTIES HandlersEnd SignalEnds
CHECK_DEADLOCK FALSE
