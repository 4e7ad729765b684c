SPECIFICATION Spec
CONSTANTS
    Flows <- LongChunk
    maxseg_ = 2
    RtxOnEof = {TRUE}
    reset_window_on_eof_ = FALSE
    prob_cap_ = 2
    tcprexmtthresh_ = 0
    max_sack_blocks_ = 3
    MaxWin = 3
    MaxLoss = 0
    MaxSpurious = 2
INVARIANT EofIsForcedOut
CHECK_DEADLOCK FALSE
