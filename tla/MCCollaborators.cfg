SPECIFICATION Spec
CONSTANTS
  a1 = a1  a2 = a2  a3 = a3  r1 = r1  r2 = r2  r3 = r3
  Stranger = Stranger
  Account = {a1, a2}
  Request = {r1, r2, r3}
  Calls <- Call
SYMMETRY Symmetry
INVARIANTS
  TwoOwnersOnlyByOverlap
  DeadlocksExplained
PROPERTIES
  NewOwnerReplacesOwner
  OrphanedOnlyBySelfOrStaleCheck
  MembershipAuthority
CHECK_DEADLOCK FALSE
