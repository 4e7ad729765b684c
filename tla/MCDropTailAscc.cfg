SPECIFICATION Spec
CONSTANTS
    f1 = f1
    f2 = f2
    Flows = {f1, f2}
    HdrSize = 1
    MssSize = 3
    mean_pktsize_ = 1
    qib_ = TRUE
    drop_front_ = FALSE
    drop_prio_ = TRUE
    drop_smart_ = FALSE
    deque_prio_ = TRUE
    keep_order_ = TRUE
    drop_low_prio_ = TRUE
    ecn_enable_ = TRUE
    thresh_ = 2
    sq_limit_ = 0
    Limits = {8}
    MaxPackets = 5
    good_prio_qlim_ <- NoGoodLimit
    Shapes <- AsccShapes
INVARIANT BytesAgree
INVARIANT Conservation
INVARIANT WorkConserving
PROPERTY VictimIsWorst
PROPERTY OnlyStaleCopiesDropped
PROPERTY MarksWorst
PROPERTY PortSpec
CHECK_DEADLOCK FALSE
