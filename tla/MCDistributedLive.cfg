SPECIFICATION FairSpec
CONSTANTS
  A = A
  B = B
  Moves = {m1, m2}
  NoMove = NoMove
  Length = 3
  MaxDrops = 1
  MaxReloads = 1
  MaxKills = 0
PROPERTY Completes
PROPERTY Settled
PROPERTY ImplementsChannel
CHECK_DEADLOCK FALSE
