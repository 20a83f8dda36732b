----------------------------- MODULE SimRouting -----------------------------
(***************************************************************************)
(* A network of examples/sense/sim_routing.cc: an application, a network   *)
(* layer, the queue FIFOACK3 and the 802.11 MAC at every node, in a fixed  *)
(* topology.  net_component is one of Flooding, AODVI, AODVII and DSRI;    *)
(* QUEUE_NOBUFFER is set or not.                                           *)
(*                                                                         *)
(* The MAC is what Mac80211 shows it to be: it sends what it gets in       *)
(* order, a unicast arrives at most once, an answer of success means that  *)
(* it has arrived, a failure says nothing.  The copies of a frame arrive   *)
(* in one step.                                                            *)
(***************************************************************************)
EXTENDS Integers, Sequences, FiniteSets, SequencesExt, FiniteSetsExt

CONSTANTS Nodes, Broadcast, Nothing, Unset,
          Topology,        \* for each protocol, the neighbours of a node
          Traffic,         \* and the destinations of the packets it sends
          Protocols,       \* the values of net_component to look at
          Modes,           \* whether the queue acknowledges at once
          TimeToLive, MaxRepairTTL, MinRepairTTL, LocalAddTTL,
          Window, Width,   \* of seq_number_t
          Junk,            \* what a sequence number never assigned may hold
          MaxLosses,       \* bound on frames, and answers, that are lost
          MaxRequests      \* bound on the requests of a node

A1 == INSTANCE AodvI
A2 == INSTANCE AodvII
DS == INSTANCE Dsri
FL == INSTANCE Flooding

VARIABLES protocol,    \* net_component
          node,        \* the states of the network layers
          mac,         \* the packets in each MAC and in the queue above it
          answer,      \* an answer of the MAC that is on its way: a set
          sent,        \* how many packets an application has sent
          got,         \* the packets the applications have received
          losses

vars == <<protocol, node, mac, answer, sent, got, losses>>

Links == Topology[protocol]

\* ether_addr_t::BROADCAST reaches all neighbours.
Addressed(n, to) == IF to = Broadcast THEN Links[n] ELSE Links[n] \cap {to}

(***************************************************************************)
(* The ports of net_component: the states that a handler may leave         *)
(***************************************************************************)
Start(proto, n, acksAtOnce) ==
  CASE proto = "Flooding" -> FL!Started(acksAtOnce, n)
    [] proto = "AODVI"    -> A1!Started
    [] proto = "AODVII"   -> A2!Started(acksAtOnce)
    [] proto = "DSRI"     -> DS!Started

FromTransport(n, dst, k) ==
  CASE protocol = "Flooding" -> FL!FromTransport(node[n], n, dst)
    [] protocol = "AODVI"    -> {A1!FromTransport(node[n], n, dst, k, j) : j \in Junk}
    [] protocol = "AODVII"   -> {A2!FromTransport(node[n], n, dst)}
    [] protocol = "DSRI"     -> {DS!FromTransport(node[n], n, dst, k)}

FromMacData(n, p, to) ==
  CASE protocol = "Flooding" -> FL!FromMacData(node[n], p, n)
    [] protocol = "AODVI"    -> {A1!FromMacData(node[n], p, to, n, j) : j \in Junk}
    [] protocol = "AODVII"   -> {A2!FromMacData(node[n], p, to, n, j) : j \in BOOLEAN}
    [] protocol = "DSRI"     -> {DS!FromMacData(node[n], p, to, n)}

FromMacAck(n, success) ==
  CASE protocol = "Flooding" -> FL!FromMacAck(node[n])
    [] protocol = "AODVII"   -> A2!FromMacAck(node[n], n, success)
    [] OTHER                 -> node[n]

Delayed(n, d) ==
  CASE protocol = "Flooding" -> FL!Depart(node[n], d)
    [] protocol = "AODVI"    -> A1!ToMacDepart(node[n], d)
    [] protocol = "AODVII"   -> A2!ToMacDepart(node[n], d)
    [] protocol = "DSRI"     -> DS!ToMacDepart(node[n], d)

(***************************************************************************)
(* The steps                                                               *)
(***************************************************************************)
Init == /\ protocol \in Protocols
        /\ \E acksAtOnce \in Modes[protocol] :
             node = [n \in Nodes |-> Start(protocol, n, acksAtOnce)]
        /\ mac = [n \in Nodes |-> <<>>]
        /\ answer = [n \in Nodes |-> {}]
        /\ sent = [n \in Nodes |-> 0]
        /\ got = [n \in Nodes |-> <<>>]
        /\ losses = 0

NoBuffer(w) == "acksAtOnce" \in DOMAIN w /\ ~w.acksAtOnce

\* Node n goes on as w, and what it hands down is in the queue.  Without its
\* buffer the MAC refuses what it gets while it holds a packet, from within
\* to_mac: the flooding is told so, the other protocol never lets it happen.
Refuses(n, w) == NoBuffer(w) /\ mac[n] # <<>> /\ w.out # <<>>
Quiet(w) == [w EXCEPT !.out = <<>>, !.up = <<>>]
After(n, w) ==
  IF Refuses(n, w) THEN Quiet([w EXCEPT !.busy = FALSE]) ELSE Quiet(w)

Becomes(n, w) ==
  /\ node' = [node EXCEPT ![n] = After(n, w)]
  /\ mac' = IF Refuses(n, w) THEN mac ELSE [mac EXCEPT ![n] = @ \o w.out]
  /\ got' = [got EXCEPT ![n] = @ \o w.up]

\* CBR::create
Send(n) ==
  /\ sent[n] < Len(Traffic[protocol][n])
  /\ sent' = [sent EXCEPT ![n] = @ + 1]
  /\ \E w \in FromTransport(n, Traffic[protocol][n][sent[n] + 1], sent[n] + 1) : Becomes(n, w)
  /\ UNCHANGED <<protocol, answer, losses>>

Depart(n) ==
  /\ \E d \in node[n].delayed : Becomes(n, Delayed(n, d))
  /\ UNCHANGED <<protocol, answer, sent, losses>>

\* The first packet of n goes over the air to those of its neighbours that
\* get it.
Transmit(n) ==
  /\ mac[n] # <<>>
  /\ answer[n] = {}
  /\ \E p \in {mac[n][1][1]}, to \in {mac[n][1][2]} :
     \E hear \in SUBSET Addressed(n, to) :
     \E next \in [hear -> UNION {FromMacData(r, p, to) : r \in hear}] :
        /\ \A r \in hear : next[r] \in FromMacData(r, p, to)
        /\ node' = [r \in Nodes |-> IF r \in hear THEN After(r, next[r]) ELSE node[r]]
        /\ mac' = [r \in Nodes |->
                     LET m == IF r = n THEN Tail(mac[r]) ELSE mac[r]
                     IN  IF r \in hear /\ ~Refuses(r, next[r]) THEN m \o next[r].out ELSE m]
        /\ got' = [r \in Nodes |-> IF r \in hear THEN got[r] \o next[r].up ELSE got[r]]
        /\ \E ok \in IF to = Broadcast THEN {TRUE} ELSE {FALSE, (to \in hear)} :
             /\ losses' = losses + Cardinality(Addressed(n, to) \ hear)
                                 + (IF ~ok /\ to \in hear THEN 1 ELSE 0)
             /\ answer' = [answer EXCEPT ![n] = IF NoBuffer(node[n]) THEN {ok} ELSE {}]
  /\ losses' <= MaxLosses
  /\ UNCHANGED <<protocol, sent>>

MacAck(n) ==
  /\ \E ok \in answer[n] : Becomes(n, FromMacAck(n, ok))
  /\ answer' = [answer EXCEPT ![n] = {}]
  /\ UNCHANGED <<protocol, sent, losses>>

\* The repair of a route to d may begin again, or is tried again.
RepairAges(n) ==
  /\ protocol = "AODVII"
  /\ \E d \in DOMAIN node[n].routes : /\ node[n].routes[d].repair
                                      /\ Becomes(n, A2!RepairAges(node[n], d))
  /\ UNCHANGED <<protocol, answer, sent, losses>>

RepairTimer(n) ==
  /\ protocol = "AODVII"
  /\ node[n].req < MaxRequests
  /\ \E d \in DOMAIN node[n].repairs : /\ node[n].repairs[d] > 0
                                       /\ Becomes(n, A2!RepairTimer(node[n], n, d))
  /\ UNCHANGED <<protocol, answer, sent, losses>>

Next == \E n \in Nodes : \/ Send(n) \/ Depart(n) \/ Transmit(n) \/ MacAck(n)
                         \/ RepairAges(n) \/ RepairTimer(n)

Spec == Init /\ [][Next]_vars

(***************************************************************************)
(* Properties                                                              *)
(***************************************************************************)
\* No application gets a packet twice: floods that meet again, repetitions
\* after an acknowledgement that was lost, and packets that waited for the
\* repair of a route are told apart.
DeliveredOnce == \A n \in Nodes : IsInjective(got[n])

\* A packet waits for a route only while there is none.  The exceptions are
\* the program's: AODVI does not send what waits for a node when a request
\* of that node brings the route, and AODVII takes a new route for one under
\* repair when in_local_repair, never assigned, happens to say so.
WaitsOnlyForRoute ==
  protocol # "Flooding" =>
    \A n \in Nodes : \A i \in DOMAIN node[n].buffer :
       LET w == node[n]
           to == w.buffer[i].dst
       IN  CASE protocol = "DSRI"   -> to \notin DOMAIN w.cache
             [] protocol = "AODVI"  -> A1!Knows(w, to) => \E s \in w.seen : s[1] = to
             [] protocol = "AODVII" -> A2!Valid(w, to) => w.routes[to].made

\* AODVII gives the MAC one packet at a time: it is busy while the MAC has
\* one or owes an answer, and the packets behind it wait in its own queue.
OnePacketInMac ==
  protocol = "AODVII" =>
    \A n \in Nodes :
       /\ NoBuffer(node[n]) => /\ Len(mac[n]) + Cardinality(answer[n]) <= 1
                               /\ node[n].busy <=> mac[n] # <<>> \/ answer[n] # {}
       /\ node[n].queue # <<>> => node[n].busy

\* The assertions of AODVII and DSRI: a failure is about a packet that has a
\* route, a repair about a route that exists, a path never outgrows its
\* array, a reply finds the node it passes on its path.
AssertsHold ==
  protocol \in {"AODVII", "DSRI"} => \A n \in Nodes : ~node[n].assertFailed

\* The routes tell the truth about the topology: a source route is a walk
\* along links that ends at the destination and meets no node twice, and
\* nobody is nearer to the destination of a route than its hops say.
Within[k \in Nat, n \in Nodes] ==
  IF k = 0 THEN {n} ELSE UNION {{m} \union Links[m] : m \in Within[k - 1, n]}

SourceRoutes ==
  protocol = "DSRI" =>
    \A n \in Nodes : \A d \in DOMAIN node[n].cache :
       LET path == <<n>> \o Front(node[n].cache[d])
       IN  /\ Last(path) = d
           /\ IsInjective(path)
           /\ \A i \in 1 .. Len(path) - 1 : path[i + 1] \in Links[path[i]]

HopCounts ==
  protocol \in {"AODVI", "AODVII"} =>
    \A n \in Nodes : \A d \in DOMAIN node[n].routes :
       d \in Within[node[n].routes[d].hops + 1, n]

RoutesTellTruth == SourceRoutes /\ HopCounts
=============================================================================
