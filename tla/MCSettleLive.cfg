SPECIFICATION FairSpec
CONSTANTS
  Tunnels = {t1, t2}
  Workers = {w1, w2}
  Paths = {"full", "short"}
  Bad = {}
  Missing = {t2}
  BatchMax = 2
  MaxDepth = 1
  MaxRequests = 2
  MaxTransient = 1
  MaxCrashes = 0
  MaxElsewhere = 0
  MaxLost = 0
PROPERTY Resolved
PROPERTY RegistryCatchesUp
CHECK_DEADLOCK FALSE
