SPECIFICATION Spec
CHECK_DEADLOCK FALSE
CONSTANT Clients = {"blackjack", "long blackjack", "tic tac toe", "poker", "battleship", "match", "shop", "stream", "solo", "allowance", "live stream", "wager", "trade", "batcher", "live batcher", "grid floor", "floor", "saved floor", "floating floor", "relay", "relay of two", "arena"}
INVARIANT CloseOnce
 
INVARIANT ShownTrue
 
INVARIANT Routed
PROPERTY EarnedStays
