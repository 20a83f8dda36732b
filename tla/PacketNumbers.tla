----------------------------- MODULE PacketNumbers ------------------------------
(* A node hears the packets of one source, lost, late, repeated and in any      *)
(* order as flooding delivers them, and asks check() about each.                *)
EXTENDS SequenceCache, FiniteSets

CONSTANTS
    Numbers,         \* the numbers the source used; m_seq_number starts at 2
    MaxHeard         \* bound on the different numbers that get through

ASSUME NumbersAssumption == Numbers \subseteq Nat \ {0}

VARIABLES
    cache,           \* m_seq_cache[src]
    heard,           \* history: the numbers that got through
    jumped,          \* history: a number was at least Width ahead of the last
    verdict          \* what check() said last, and what was the case

vars == <<cache, heard, jumped, verdict>>

Init == /\ cache = NothingHeard
        /\ heard = {}
        /\ jumped = FALSE
        /\ verdict = [n |-> 0, newest |-> FALSE, heard |-> FALSE, was |-> FALSE,
                      old |-> FALSE]

Receive(n) ==
    /\ n \in heard \/ Cardinality(heard) < MaxHeard
    /\ \E outcome \in Checks(cache, n) :
          /\ cache' = outcome.cache
          /\ verdict' = [n |-> n, newest |-> n > cache.current,
                         heard |-> outcome.heard, was |-> n \in heard,
                         old |-> TooOld(cache, n)]
    /\ heard' = heard \union {n}
    /\ jumped' = (jumped \/ (heard # {} /\ n - cache.current >= Width))

Next == \E n \in Numbers : Receive(n)

Spec == Init /\ [][Next]_vars

(* The node's memory is a highest number and a field of Width bits.             *)
TypeOK == /\ cache \in Caches
          /\ heard \subseteq Numbers
          /\ jumped \in BOOLEAN
          /\ verdict \in [n : Nat, newest : BOOLEAN, heard : BOOLEAN, was : BOOLEAN,
                          old : BOOLEAN]

(* A packet is forwarded at most once: check() calls no number new that it has  *)
(* been asked about before, whatever the order and whatever the undefined shift *)
(* does to the bits.                                                            *)
NewIsNew == ~verdict.heard => ~verdict.was

(* A packet that never got through before is taken for a repetition only when   *)
(* it is Window behind, or after a gap of Width or more in what was heard.      *)
FalseRepetition == verdict.heard /\ ~verdict.was => verdict.old \/ jumped
==================================================================================
