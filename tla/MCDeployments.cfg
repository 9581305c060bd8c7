SPECIFICATION Spec
CONSTANTS
  d1 = d1  d2 = d2  d3 = d3  n1 = n1  n2 = n2  g = g
  Deployment = {d1, d2, d3}
  Name = {n1, n2}
  Given = {g}
  Generated = {t1, t2, t3}
  StartName <- MCStartName
  StartKey <- MCStartKey
  Request = {r1, r2, r3}
  Calls <- MCCalls
  NoName = NoName  NoKey = NoKey  NoDeployment = NoDeployment
SYMMETRY Symmetry
INVARIANTS TypeOK RenameAnswersOwn InheritsOnlyGivenKey
PROPERTIES ClearsOwn
CHECK_DEADLOCK FALSE
