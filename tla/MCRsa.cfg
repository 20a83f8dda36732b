\* p and q up to 11, one composite (4) among the numbers taken for primes; nine-bit
\* ints: (3*5-1) squared still fits, (3*7-1) squared does not.
CONSTANTS
    Limit = 12
    W = 9
    Inputs = {2, 3, 5, 7, 11}
SPECIFICATION Spec
INVARIANTS
    HonestNodeAccepted
    HangsOnlyOnBadDraw
    PlainTextRestored
\* Both programs end.
CHECK_DEADLOCK FALSE
