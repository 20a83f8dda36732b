\* Seven nodes, clusters {0,1}, {2,3}, {4,5} and {6}; two rounds take at least 8 draws.
CONSTANTS
    NN = 7
    Percents <- MCPercents
    MaxRounds = 2
    MaxOpen = 9
SPECIFICATION FairSpec
INVARIANTS
    HeadVouchedFor
PROPERTIES
    RoundEnds
    ImplementsRota
\* The simulation stops after the last scheduled event and after a Tcl error.
CHECK_DEADLOCK FALSE
