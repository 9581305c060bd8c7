CONSTANTS
    Account = {a1}
    App = {p1, p2, p3}
    Name = {n1, n2}
    Parse <- MCParse
    Request = {r1, r2}
    Calls <- Writes
    Start = {p1}
    Grants <- WriteGrants
    NoName = NoName  NoApp = NoApp  Anyone = Anyone
    a1 = a1  a2 = a2  p1 = p1  p2 = p2  p3 = p3
    n1 = n1  n2 = n2  q1 = q1  r1 = r1  r2 = r2
SPECIFICATION Spec
SYMMETRY Symmetry
CHECK_DEADLOCK FALSE
INVARIANTS TypeOK ClashOnlyByOverlap IncompleteOnlyByFailure
PROPERTY RenamedByOwner
