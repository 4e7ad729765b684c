SPECIFICATION FairSpec
CONSTANTS
    Messages <- BothScripts
    maxseg_ = 2
    MaxWin = 2
    MaxLoss = 1
    MaxSpurious = 1
INVARIANTS Synchronized NothingLost FinIsSeen
PROPERTY ClosesQuietly
CHECK_DEADLOCK FALSE
