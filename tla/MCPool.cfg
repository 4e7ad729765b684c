SPECIFICATION FairSpec
CONSTANTS
    Groups = {g1}
    connections_per_pair = 2
    sim_end = 4
    Margin = 3
    Intervals = {1, 4}
INVARIANTS OneFlowEach FidsDistinct
PROPERTIES SimulationEnds
CHECK_DEADLOCK FALSE
