SPECIFICATION Spec
CONSTANTS
  Tunnels = {t1, t2}
  Workers = {w1, w2}
  Paths = {"full"}
  Bad = {t2}
  Missing = {}
  BatchMax = 2
  MaxDepth = 1
  MaxRequests = 2
  MaxTransient = 1
  MaxCrashes = 1
  MaxElsewhere = 1
  MaxLost = 1
SYMMETRY WorkerSymmetry
INVARIANT Accounted
INVARIANT PublishedOnce
INVARIANT RegistryTrue
 
CHECK_DEADLOCK FALSE
