\* A direct and a relayed flow on a fast network, all nodes in range.
CONSTANTS
    NN = 40
    Setups <- MCPromptSetups
SPECIFICATION FairSpec
INVARIANTS
    OnlyKeylessSessionsStayOpen
PROPERTIES
    TrustedQuestionArrives
\* The simulation ends at 12.0 or with a Tcl error.
CHECK_DEADLOCK FALSE
