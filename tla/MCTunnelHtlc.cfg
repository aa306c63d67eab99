CONSTANTS
  A = A
  B = B
  Outside = Outside
  None = None
  Hash = {"h1", "h2"}
  Messages <- HtlcMessages
  Coins <- Funder
  Amounts = {1, 2}
  Timeouts = {1}
  Penalties = {0}
  Extensions = {}
  MaxTotalTimeout = 2
  MaxExtension = 1
  U64Max = 3
  MaxVersion = 1
  IdleTime = 1
SPECIFICATION Spec
INVARIANT Conservation
INVARIANT HtlcCounters
INVARIANT NothingStranded
CHECK_DEADLOCK FALSE
