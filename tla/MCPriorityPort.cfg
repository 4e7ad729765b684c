SPECIFICATION FairSpec
CONSTANTS
    f1 = f1
    f2 = f2
    Flows = {f1, f2}
    HdrSize = 1
    MssSize = 3
    Shapes <- PiasShapes
    MaxPackets = 4
    QueueNums = {3, 4}
    MAX_QUEUE_NUM = 3
    qlim_ = 2
    mean_pktsize_ = 3
    thresh_ = 1
    marking_scheme_ = "PER_PORT"
INVARIANTS BoundedInBytes UnmarkedWithinThresh NoOvertaking
PROPERTIES EveryPacketLeaves
CHECK_DEADLOCK FALSE
