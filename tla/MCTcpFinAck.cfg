SPECIFICATION FairSpec
CONSTANTS
    Messages <- CloseScript
    maxseg_ = 2
    MaxWin = 2
    MaxLoss = 1
    MaxSpurious = 1
INVARIANT FinIsAcked
CHECK_DEADLOCK FALSE
