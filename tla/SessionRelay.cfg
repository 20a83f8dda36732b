\* Two flows on a network that loses, delays and reorders, and three with drifting
\* nodes and attack records.
CONSTANTS
    NN = 40
    Setups <- MCRelaySetups
SPECIFICATION Spec
INVARIANTS
    ReadableUnlessHead
    AbortHasCause
    UntrustedDataNeverRead
    AlarmedDataNeverRead
\* The simulation ends at 12.0 or with a Tcl error.
CHECK_DEADLOCK FALSE
