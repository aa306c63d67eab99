SPECIFICATION Spec
CHECK_DEADLOCK FALSE
INVARIANT Conserved
 
INVARIANT StakePaidInFull
 
INVARIANT ReplicasSound
 
 
PROPERTY NoStepBackwards
PROPERTY EveryGameEnds
