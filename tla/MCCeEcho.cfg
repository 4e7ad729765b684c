SPECIFICATION Spec
CONSTANTS
    AFabric = {TRUE, FALSE}
    Orders = {TRUE, FALSE}
    Flows <- TwoFlows
    MaxLoss = 1
    MaxRtx = 1
INVARIANTS AckedAtOnce EchoesMark ReactsToUrgent CountsExactly
PROPERTIES OncePerWindow
CHECK_DEADLOCK FALSE
