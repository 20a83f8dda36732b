----------------------------- MODULE SequenceCache ------------------------------
(* The class seq_number_t of SENSE's network layers: what a node remembers of   *)
(* the packet numbers of one source.  `current' is the highest number heard;    *)
(* the uint32_t `bits' is the set of distances below it that were heard.        *)
EXTENDS Integers

CONSTANTS
    Window,          \* sizeof(unsigned long), in numbers: 8 or 4
    Width            \* the bits of a uint32_t: 32

ASSUME WindowAssumption ==
    Window \in Nat /\ Width \in Nat /\ 0 < Window /\ Window <= Width

Offsets == 0..(Width - 1)
Caches == [current : Nat, bits : SUBSET Offsets]

NothingHeard == [current |-> 0, bits |-> {}]

TooOld(cache, n) == n + Window <= cache.current

Shifted(bits, by) == {b + by : b \in bits} \cap Offsets

(* bits << by.  A shift by the width or more is undefined: the processor takes  *)
(* the distance modulo the width, a compiler that knows it may take 0.          *)
ShiftOutcomes(bits, by) ==
    IF by < Width THEN {Shifted(bits, by)} ELSE {Shifted(bits, by % Width), {}}

Advances(cache, n) ==
    IF n > cache.current
    THEN [current : {n}, bits : ShiftOutcomes(cache.bits, n - cache.current)]
    ELSE {cache}

(* check(n): whether n counts as heard before, and the cache it leaves.  The    *)
(* mutants do not remember n, or leave the bits where they were.                *)
ChecksForgetting(cache, n) ==
    IF TooOld(cache, n) THEN {[heard |-> TRUE, cache |-> cache]}
    ELSE {[heard |-> (c.current - n) \in c.bits, cache |-> c] : c \in Advances(cache, n)}

ChecksNotShifting(cache, n) ==
    IF TooOld(cache, n) THEN {[heard |-> TRUE, cache |-> cache]}
    ELSE LET c == [cache EXCEPT !.current = IF n > @ THEN n ELSE @]
         IN  {[heard |-> (c.current - n) \in c.bits,
               cache |-> [c EXCEPT !.bits = @ \union {c.current - n}]]}

Checks(cache, n) ==
    IF TooOld(cache, n) THEN {[heard |-> TRUE, cache |-> cache]}
    ELSE {[heard |-> (c.current - n) \in c.bits,
           cache |-> [c EXCEPT !.bits = @ \union {c.current - n}]] :
             c \in Advances(cache, n)}
==================================================================================
