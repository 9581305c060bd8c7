SPECIFICATION CheckSpec
CONSTANTS
  a1 = a1  d1 = d1  r1 = r1  r2 = r2  c1 = c1
  w1 = w1  w2 = w2  x1 = x1  x2 = x2  x3 = x3  x4 = x4  h1 = h1  h2 = h2
  NoLabel = NoLabel  NoHash = NoHash  NoOffer = NoOffer
  Account = {a1}
  Deployment = {d1}
  Request = {r1, r2}
  Version = {w1, w2}
  Payload = {x1, x2, x3, x4}
  Seeds <- MCSeeds
  Calls <- MCCalls
  Grants = {}
  Device = {c1}
  Anonymous = {}
  Home <- MCHome
  Fits <- MCFits
  Disabled = {x4}
  Rollout <- MCRollout
  Hash <- MCHash
  Class <- MCClass
PROPERTIES AnswersBest OffersGoForward RollbackReaches Converges
CHECK_DEADLOCK FALSE
