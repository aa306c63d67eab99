CONSTANTS
  A = A
  B = B
  Outside = Outside
  None = None
  Hash = {}
  Messages <- ExitMessages
  Coins <- OneEach
  Amounts = {1, 3}
  Timeouts = {1}
  Penalties = {2}
  Extensions = {}
  MaxTotalTimeout = 2
  MaxExtension = 1
  U64Max = 3
  MaxVersion = 2
  IdleTime = 1
  Ticks = {1, 2}
  Skew = 1
  Referees = {Outside}
  MaxLost = 1
SPECIFICATION RecoverySpec
PROPERTY TowerAlwaysRecovers
CHECK_DEADLOCK FALSE
