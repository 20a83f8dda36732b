\* Eleven nodes: leach's clusters are 0..2, 3..5, 6..8 and 9..10.
CONSTANTS
    NN = 11
    Absent = Absent
SPECIFICATION Spec
INVARIANTS
    EveryNodeHasItsShare
    AbortsOnlyWhenDivLost
\* keygen is called once and returns.
CHECK_DEADLOCK FALSE
