\* The real sizes of a 64-bit build, and gaps of up to two widths.
CONSTANTS
    Window = 8
    Width = 32
    Numbers = {2, 3, 4, 9, 10, 11, 33, 34, 35, 41, 42, 43, 66, 67}
    MaxHeard = 4
\* As in leodos.tcl, but for the numbers of bins and flows and for the least
\* score, which ns-default.tcl makes -10 and leodos.tcl -1.
    Packets <- MCPackets
    HashBins = 3
    HashLevels = 2
    ScoreMax = 2
    ScoreMin <- MCScoreMin
    ScorePass = 0
    Period = 2
    f = f
    g = g
    h = h
    Flows <- MCFlows
    Limit = 4
    MaxFlows = 2
    Null = Null
SPECIFICATION MemSpec
INVARIANTS
    NewIsNew
    FalseRepetition
    RefusedForCause
PROPERTY
    BenignKeepPlace
