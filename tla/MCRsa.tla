---------------------------------- MODULE MCRsa ----------------------------------
(* The two programs that do RSA arithmetic, each from its own start: the         *)
(* procedure rsa of the scripts and the calculator LEACH/rsa.c.  They have their *)
(* variables p, q, e, phi and d in common by name only; a behaviour is one of    *)
(* the one or of the other.                                                      *)
EXTENDS Integers

CONSTANTS Limit, W, Inputs

ASSUME LimitAssumption == Limit \in Nat /\ Limit >= 3
ASSUME ToolAssumption == W \in Nat /\ W > 3 /\ Inputs \subseteq 2..(2^(W - 1) - 1)

VARIABLES program, pc, p, q, e, phi, d, record, rsanode, n, M, C, plain

A == INSTANCE RsaAuth
T == INSTANCE RsaTool

Init == \/ /\ program = "rsa" /\ A!Init
           /\ n = 0 /\ M = 0 /\ C = 0 /\ plain = 0
        \/ /\ program = "calculator" /\ T!Init
           /\ record = [e |-> 0, c |-> 0, n |-> 1, phi |-> 1] /\ rsanode = 0

Next == \/ program = "rsa" /\ A!Next /\ UNCHANGED <<program, n, M, C, plain>>
        \/ program = "calculator" /\ T!Next /\ UNCHANGED <<program, record, rsanode>>

Spec == Init /\ [][Next]_<<A!vars, program, n, M, C, plain>>
----------------------------------------------------------------------------------
(* sleach accepts an honest node, but for the draws that break RSA (see RsaAuth). *)
HonestNodeAccepted == program = "rsa" => A!HonestNodeAccepted

(* The loops of rsa spin for a bad draw only (see RsaAuth).                       *)
HangsOnlyOnBadDraw == program = "rsa" => A!HangsOnlyOnBadDraw

(* The calculator gives back the number it was given (see RsaTool).              *)
PlainTextRestored == program = "calculator" => T!PlainTextRestored
==================================================================================
