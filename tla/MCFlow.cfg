SPECIFICATION FairSpec
CONSTANTS
    Flows <- TwoFlows
    maxseg_ = 2
    RtxOnEof = {TRUE, FALSE}
    reset_window_on_eof_ = TRUE
    prob_cap_ = 1
    tcprexmtthresh_ = 1
    max_sack_blocks_ = 3
    MaxWin = 3
    MaxLoss = 1
    MaxSpurious = 1
INVARIANTS SeqOrder ScoreboardTrue NeverStuck UrgentCopyExists
PROPERTIES ImplementsTransfer FlowsComplete
CHECK_DEADLOCK FALSE
