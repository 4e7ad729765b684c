SPECIFICATION Spec
CONSTANTS
    f1 = f1
    f2 = f2
    Flows = {f1, f2}
    HdrSize = 1
    MssSize = 3
    mean_pktsize_ = 1
    qib_ = FALSE
    drop_front_ = FALSE
    drop_prio_ = FALSE
    drop_smart_ = TRUE
    deque_prio_ = FALSE
    keep_order_ = FALSE
    drop_low_prio_ = FALSE
    ecn_enable_ = FALSE
    thresh_ = 0
    sq_limit_ = 2
    Limits = {2, 4}
    MaxPackets = 5
    good_prio_qlim_ <- NoGoodLimit
    Shapes <- FifoShapes
INVARIANTS SqCountsAgree FlowOrder
PROPERTIES GrowsWithinLimit
CHECK_DEADLOCK FALSE
