SPECIFICATION Spec
CHECK_DEADLOCK FALSE
CONSTANT Clients = {"live batcher"}
INVARIANT NoDoubleSpend
