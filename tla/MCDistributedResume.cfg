SPECIFICATION Spec
CONSTANTS
  A = A
  B = B
  Moves = {m1, m2}
  NoMove = NoMove
  Length = 3
  MaxDrops = 1
  MaxReloads = 1
  MaxKills = 1
SYMMETRY MoveSymmetry
INVARIANT Agreement
INVARIANT Settleable
INVARIANT AtMostOneApart
CHECK_DEADLOCK FALSE
