SPECIFICATION FairSpec
CONSTANTS
    f1 = f1
    f2 = f2
    Flows = {f1, f2}
    HdrSize = 1
    MssSize = 3
    mean_pktsize_ = 1
    qib_ = FALSE
    drop_front_ = FALSE
    drop_prio_ = TRUE
    drop_smart_ = FALSE
    deque_prio_ = TRUE
    keep_order_ = TRUE
    drop_low_prio_ = TRUE
    ecn_enable_ = FALSE
    thresh_ = 0
    sq_limit_ = 0
    Limits = {2, 4}
    MaxPackets = 5
    good_prio_qlim_ = 3
    Shapes <- GoodBadShapes
PROPERTIES EveryPacketLeaves
CHECK_DEADLOCK FALSE
