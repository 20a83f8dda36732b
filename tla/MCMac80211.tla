---------------------------- MODULE MCMac80211 ----------------------------
(***************************************************************************)
(* A chain of three stations: the ends do not hear each other.  One end    *)
(* sends a packet longer than RTSThreshold and then a short one to the     *)
(* middle, the middle a short one, and the other end a broadcast.          *)
(***************************************************************************)
EXTENDS Mac80211

CONSTANTS a, b, c

Long(d, i) == [dst |-> d, long |-> TRUE, id |-> i]
Short(d, i) == [dst |-> d, long |-> FALSE, id |-> i]

MCTraffic == [s \in Stations |-> CASE s = a -> <<Long(b, 1), Short(b, 2)>>
                                   [] s = b -> <<Short(c, 3)>>
                                   [] s = c -> <<Short(Broadcast, 4)>>]

MCHearing == [s \in Stations |-> IF s = b THEN {a, c} ELSE {b}]
=============================================================================
