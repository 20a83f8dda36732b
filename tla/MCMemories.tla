------------------------------- MODULE MCMemories -------------------------------
(* What nodes and routers remember of the packets they have seen: the duplicate *)
(* memory of SENSE's network layers (PacketNumbers), and the two queue          *)
(* disciplines added to NS-2 (RobustRed, RobustBlue).  A behaviour is one of    *)
(* one of them.                                                                 *)
EXTENDS PacketNumbers, RobustRed, RobustBlue

CONSTANTS f, g, h    \* flows

MCFlows == {f, g, h}

(* The first shares a bin with each of the others, in different levels.         *)
MCPackets == {<<1, 0>>, <<2, 2>>, <<3, 2>>}

MCScoreMin == -2

VARIABLE part        \* which of the three

MemInit == /\ part \in {"numbers", "red", "blue"}
           /\ Init /\ RedInit /\ BlueInit

MemNext ==
    \/ /\ part = "numbers"
       /\ Next
       /\ UNCHANGED <<part, redVars, blueVars>>
    \/ /\ part = "red"
       /\ RedNext
       /\ UNCHANGED <<part, vars, blueVars>>
    \/ /\ part = "blue"
       /\ BlueNext
       /\ UNCHANGED <<part, vars, redVars>>

MemSpec == MemInit /\ [][MemNext]_<<part, vars, redVars, blueVars>>
==================================================================================
