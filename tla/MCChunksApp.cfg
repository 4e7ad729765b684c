SPECIFICATION FairSpec
CONSTANTS
    packet_size_bytes_ = 2
    max_num_chunks_ = 3
    use_alpha = {TRUE, FALSE}
    Sizes = {2, 4, 10}
    Spread = 2
    MaxFlows = 2
    MaxTime = 6
INVARIANTS EofWithLastByte TimerRunsForRest
PROPERTIES EveryFlowDone
CHECK_DEADLOCK FALSE
