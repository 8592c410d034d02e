SPECIFICATION FairLockSpec
CONSTANT Worker = {w1, w2}
INVARIANTS IndInv MutualExclusion NothingOutlivesASet
PROPERTIES LeaseContract EveryRequestEnds
