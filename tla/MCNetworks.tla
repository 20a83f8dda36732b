----------------------------- MODULE MCNetworks -----------------------------
(***************************************************************************)
(* The networks of examples/sense: those of sim_routing.cc, whose          *)
(* net_component is one of Protocols, that of sim_shr.h ("SHR") and that   *)
(* of sim_ashr.cc ("ASHR"), each on small topologies.  A behaviour is one  *)
(* of one of these networks; the variables of the other kinds do not       *)
(* change.  Those of SelfHealing are its own: the theorems are about them. *)
(***************************************************************************)
EXTENDS SelfHealing

CONSTANTS s, a, b, d,        \* the nodes
          Broadcast, Nothing, Unset, Protocols,
          MaxRepairTTL, MinRepairTTL, LocalAddTTL,
          Window, Width, Junk, MaxLosses, MaxRequests,
          NumT2Slots, NumT3Slots, Unindexed

(***************************************************************************)
(* Flooding, AODVI and DSRI in a diamond, where floods meet again at the   *)
(* far end; AODVII in a chain, where it has only one way and must repair   *)
(* it.                                                                     *)
(***************************************************************************)
Diamond == [n \in Nodes |-> IF n \in {s, d} THEN {a, b} ELSE {s, d}]
Chain == [n \in Nodes |-> CASE n = a -> {s, d} [] n = b -> {} [] OTHER -> {a}]

Topology == [p \in Protocols |-> IF p = "AODVII" THEN Chain ELSE Diamond]

Traffic ==
  [p \in Protocols |-> [n \in Nodes |->
     CASE n = s -> IF p = "Flooding" THEN <<d, d>> ELSE <<d>>
       [] n = d -> IF p = "AODVII" THEN <<>> ELSE <<s>>
       [] OTHER -> <<>>]]

Modes == [p \in Protocols |-> IF p \in {"Flooding", "AODVII"} THEN BOOLEAN ELSE {TRUE}]

(***************************************************************************)
(* Self-healing routing in the chain, where s must find d, and in a kite,  *)
(* where s reaches d through a, and b, from where a packet has to go back  *)
(* through a.  The command lines are the plain one, the one with           *)
(* acknowledgements and route repair, and the slotted one.                 *)
(***************************************************************************)
Kite == [n \in Nodes |-> CASE n = s -> {a, b} [] n = a -> {s, b, d}
                           [] n = b -> {s, a} [] n = d -> {a}]

Unknown == [n \in Nodes |-> <<>>]
ToD == [n \in Nodes |-> CASE n \in {s, b} -> d :> 2 [] n = a -> d :> 1 [] n = d -> <<>>]

Short(options) == [options EXCEPT !.extra = 1]

Plain == [transition |-> FALSE, slotted |-> FALSE, repair |-> 0, acks |-> FALSE, extra |-> 2]
Acknowledged == [transition |-> FALSE, slotted |-> FALSE, repair |-> 1, acks |-> TRUE, extra |-> 2]
Slotted == [transition |-> TRUE, slotted |-> TRUE, repair |-> 2, acks |-> TRUE, extra |-> 2]

One == [n \in Nodes |-> IF n = s THEN <<d>> ELSE <<>>]
Two == [n \in Nodes |-> IF n = s THEN <<d, d>> ELSE <<>>]

\* s finds d: in the chain without slots the timers run out in any order.
Discovery ==
       [options : {Plain, Acknowledged}, links : {Chain}, learnt : {Unknown},
        traffic : {One}, patient : {FALSE}, maxFaults : {1}, maxWakes : {0}]
  \union [options : {Slotted}, links : {Chain}, learnt : {Unknown},
         traffic : {One}, patient : {TRUE}, maxFaults : {1}, maxWakes : {0}]
  \union [options : {Plain}, links : {Kite}, learnt : {Unknown},
         traffic : {One}, patient : {TRUE}, maxFaults : {1}, maxWakes : {0}]

\* a and b compete for the packets of s.
Election ==
       [options : {[Short(Acknowledged) EXCEPT !.repair = 2]}, links : {Kite}, learnt : {ToD},
        traffic : {Two}, patient : {TRUE}, maxFaults : {0}, maxWakes : {0}]
  \union [options : {Short(Slotted)}, links : {Kite}, learnt : {ToD},
         traffic : {One}, patient : {TRUE}, maxFaults : {1}, maxWakes : {0}]
  \union [options : {Acknowledged}, links : {Kite}, learnt : {ToD},
         traffic : {One}, patient : {TRUE}, maxFaults : {0}, maxWakes : {0}]

\* A node comes back, and its HELLO reaches b, which knows nothing yet.
Return ==
  [options : {Short(Acknowledged)}, links : {Kite}, learnt : {[ToD EXCEPT ![b] = <<>>]},
   traffic : {One}, patient : {TRUE}, maxFaults : {1}, maxWakes : {1}]

HealingScenarios == Discovery \union Election \union Return

\* a and b hear the request of s, and each other; no frame is lost.
FloodScenarios ==
  [options : {Plain}, links : {Kite}, learnt : {Unknown},
   traffic : {One}, patient : {TRUE}, maxFaults : {0}, maxWakes : {0}]

(***************************************************************************)
(* Autonomic self-healing routing in the same topologies                   *)
(***************************************************************************)
Knowing(hops) == [ToD EXCEPT ![b] = hops]
Direct == [transition |-> FALSE, extra |-> 1]

AutonomicScenarios ==
  \* s finds d, with a frame lost or two in a collision, or with a rival b.
       [options : {Direct}, links : {Chain}, learnt : {Unknown},
        traffic : {One}, patient : {TRUE}, maxFaults : {1}]
  \union [options : {Direct}, links : {Kite}, learnt : {Unknown},
         traffic : {One}, patient : {TRUE}, maxFaults : {0}]
  \* The timers run out in any order.
  \union [options : {[Direct EXCEPT !.transition = TRUE]}, links : {Chain},
         learnt : {Knowing(<<>>)}, traffic : {One}, patient : {FALSE}, maxFaults : {2}]
  \union [options : {Direct}, links : {Chain}, learnt : {Knowing(<<>>)},
         traffic : {Two}, patient : {TRUE}, maxFaults : {1}]
  \* b overhears what a should forward, and competes for it if it knows d.
  \union [options : {Direct}, links : {Kite}, learnt : {Knowing(<<>>)},
         traffic : {One}, patient : {TRUE}, maxFaults : {1}]
  \union [options : {Direct}, links : {Kite}, learnt : {ToD},
         traffic : {One}, patient : {TRUE}, maxFaults : {0}]

(***************************************************************************)
(* The networks                                                            *)
(***************************************************************************)
VARIABLES protocol,
          layer,               \* the nodes of the networks other than "SHR"
          mac, answer, losses  \* of SimRouting

netVars == <<vars, protocol, layer, mac, answer, losses>>

Routing == INSTANCE SimRouting WITH node <- layer
Auto == INSTANCE Autonomic WITH node <- layer, Scenarios <- AutonomicScenarios

\* What the theorems suppose of the scenarios.
ASSUME HealingAssumption == ScenariosOK

NetInit == \/ /\ Init
              /\ protocol = "SHR"
              /\ layer = <<>> /\ mac = <<>> /\ answer = <<>> /\ losses = 0
           \/ /\ Routing!Init
              /\ scenario = "none" /\ faults = 0 /\ wakes = 0
              /\ node = [n \in Nodes |-> Started(Plain)]
           \/ /\ Auto!Init
              /\ protocol = "ASHR"
              /\ mac = <<>> /\ answer = <<>> /\ losses = 0 /\ wakes = 0
              /\ node = [n \in Nodes |-> Started(Plain)]

NetNext == \/ /\ protocol = "SHR"
              /\ Next
              /\ UNCHANGED <<protocol, layer, mac, answer, losses>>
           \/ /\ protocol \in Protocols
              /\ Routing!Next
              /\ UNCHANGED <<scenario, node, faults, wakes>>
           \/ /\ protocol = "ASHR"
              /\ Auto!Next
              /\ UNCHANGED <<node, protocol, mac, answer, losses, wakes>>

NetSpec == NetInit /\ [][NetNext]_netVars

(***************************************************************************)
(* Properties, stated and explained in SimRouting and Autonomic.  Those of *)
(* SelfHealing are checked as they stand: DeliveredOnce speaks of every    *)
(* network, as got does, QueueServed and NeverTooNear of "SHR", as node    *)
(* does.                                                                   *)
(***************************************************************************)
OfSim(property) == protocol \in Protocols => property
OfAutonomic(property) == protocol = "ASHR" => property

\* A packet waits for a route only while there is none; in an ASHR network
\* none waits for a MAC that is free.
WaitsOnlyForRoute == OfSim(Routing!WaitsOnlyForRoute) /\ OfAutonomic(Auto!QueueServed)

\* The assertions of AODVII and DSRI hold, AODVII gives the MAC one packet at
\* a time, and no timer of autonomic self-healing routing outlives its packet.
AssertsHold == /\ OfSim(Routing!AssertsHold /\ Routing!OnePacketInMac)
               /\ OfAutonomic(Auto!TimersAlive)

\* Source routes are walks in the topology, hop counts are no less than the
\* distance, under ASHR too.
RoutesTellTruth == OfSim(Routing!RoutesTellTruth) /\ OfAutonomic(Auto!NeverTooNear)
=============================================================================
