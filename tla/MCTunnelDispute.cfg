CONSTANTS
  A = A
  B = B
  Outside = Outside
  None = None
  Hash = {}
  Messages <- DisputeMessages
  Coins <- TwoEach
  Amounts = {1, 2}
  Timeouts = {1}
  Penalties = {1}
  Extensions = {1}
  MaxTotalTimeout = 2
  MaxExtension = 1
  U64Max = 3
  MaxVersion = 2
  IdleTime = 1
SPECIFICATION Spec
INVARIANT BalanceSplit
INVARIANT DisputeRatchet
INVARIANT NonceRoom
INVARIANT StateAuthorised
PROPERTY DeadlineFixed
PROPERTY Progress
CHECK_DEADLOCK FALSE
