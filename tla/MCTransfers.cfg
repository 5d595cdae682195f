CONSTANTS
    Ops = {o1, o2}
    MaxNames = 2
SPECIFICATION FairSpec
 
INVARIANT LeavesOutOnlyWhenTold
PROPERTY OperationEnds
CHECK_DEADLOCK FALSE
