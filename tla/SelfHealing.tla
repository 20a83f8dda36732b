----------------------------- MODULE SelfHealing -----------------------------
(***************************************************************************)
(* A network of examples/sense/sim_shr.h: the self-healing routing of      *)
(* every node on the broadcast MAC, in a fixed topology.  A frame that     *)
(* ends is heard by some of the neighbours and answered by the sender's    *)
(* MAC in one step: all this happens at one moment of the simulated time,  *)
(* in handlers that touch their own node only.                             *)
(***************************************************************************)
EXTENDS Shr, FiniteSets

CONSTANTS Nodes,
          Scenarios        \* what to look at, a set of records of:
                           \*   options    the command line
                           \*   links      the neighbours of a node
                           \*   learnt     the hop counts a node has learnt
                           \*   traffic    the destinations of the packets it sends
                           \*   patient    whether its timers wait (see Unanswered)
                           \*   maxFaults  bound on frames lost and overlaps
                           \*   maxWakes   bound on the calls of from_pm_node_up

Options == [transition : BOOLEAN, slotted : BOOLEAN, repair : Nat, acks : BOOLEAN, extra : Nat]

\* The nodes that are at most k links away from n.
Within(links, k, n) ==
  LET W[j \in Nat] ==
        [m \in Nodes |-> IF j = 0 THEN {m} ELSE UNION {{l} \union links[l] : l \in W[j - 1][m]}]
  IN  W[k][n]

\* Links go both ways, and no hop count learnt before is less than the
\* distance.
ScenariosOK ==
  /\ TimeToLive \in Nat /\ MaxResend \in Nat
  /\ \A s \in Scenarios :
       /\ s.options \in Options
       /\ s.links \in [Nodes -> SUBSET Nodes]
       /\ \A n \in Nodes : n \notin s.links[n] /\ \A m \in s.links[n] : n \in s.links[m]
       /\ s.traffic \in [Nodes -> Seq(Nodes)]
       /\ \A n \in Nodes :
            /\ IsFiniteSet(DOMAIN s.learnt[n]) /\ DOMAIN s.learnt[n] \subseteq Nodes
            /\ \A d \in DOMAIN s.learnt[n] :
                 s.learnt[n][d] \in Nat /\ d \in Within(s.links, s.learnt[n][d], n)

VARIABLES scenario,
          node,    \* the states of the network layers and the MACs below
          sent,    \* how many packets an application has sent
          got,     \* the packets the applications have received
          faults, wakes

vars == <<scenario, node, sent, got, faults, wakes>>

Links == scenario.links

\* A node that has been asked for by the destination, which got no answer,
\* knows how far away that is.
Learnt(w, hops) == [w EXCEPT !.table = [x \in DOMAIN hops |-> Entry(w, hops[x])]]

Init == /\ scenario \in Scenarios
        /\ node = [n \in Nodes |-> Learnt(Started(scenario.options), scenario.learnt[n])]
        /\ sent = [n \in Nodes |-> 0]
        /\ got = [n \in Nodes |-> <<>>]
        /\ faults = 0
        /\ wakes = 0

Quiet(w) == [w EXCEPT !.up = <<>>]
Becomes(n, w) == node' = [node EXCEPT ![n] = w]

\* CBR::create
Send(n) ==
  /\ sent[n] < Len(scenario.traffic[n])
  /\ sent' = [sent EXCEPT ![n] = @ + 1]
  /\ Becomes(n, FromTransport(node[n], n, scenario.traffic[n][sent[n] + 1], sent[n] + 1))
  /\ UNCHANGED <<scenario, got, faults, wakes>>

\* The timers of the network layer.  An acknowledgement is awaited for ten
\* times the ForwardDelay or longer, a back-off takes twice that at most: the
\* patient scenarios use this, in the others the timers are in no order.
Transition(n) ==
  /\ node[n].mac = "transition"
  /\ Becomes(n, TransitionTimer(node[n]))
  /\ UNCHANGED <<scenario, sent, got, faults, wakes>>

\* What was drawn shows only if the packet must queue.
Delayed(n) ==
  /\ \E i \in DOMAIN node[n].delayed :
       LET p == node[n].delayed[i]
       IN  \E delay \in (IF node[n].busy THEN Delays(p) ELSE {p.delay}) :
              Becomes(n, PktDelayTimer(node[n], n, i, delay))
  /\ UNCHANGED <<scenario, sent, got, faults, wakes>>

Unanswered(n) ==
  /\ scenario.patient => \A m \in Nodes : node[m].delayed = <<>>
  /\ \E i \in DOMAIN node[n].acks : Becomes(n, AckTimer(node[n], n, i))
  /\ UNCHANGED <<scenario, sent, got, faults, wakes>>

Wake(n) ==
  /\ wakes < scenario.maxWakes
  /\ node[n].table # <<>>
  /\ wakes' = wakes + 1
  /\ Becomes(n, GenerateHello(node[n], n))
  /\ UNCHANGED <<scenario, sent, got, faults>>

\* BcastMAC: from_phy, a frame begins to arrive while n is sending.  Somebody
\* else must be about to send, or sending: neither has heard the other.
Overlap(n) ==
  /\ node[n].mac = "defer"
  /\ \E m \in Nodes \ {n} : node[m].mac \in {"defer", "overlapped"}
  /\ faults < scenario.maxFaults
  /\ faults' = faults + 1
  /\ Becomes(n, [node[n] EXCEPT !.mac = "overlapped"])
  /\ UNCHANGED <<scenario, sent, got, wakes>>

\* BcastMAC: SendTimer, and recv_timer at those that get the frame, which are
\* not sending themselves.  A frame that overlapped with another is answered
\* as failed.
Listening(n) == {r \in Links[n] : node[r].mac # "overlapped"}

Transmit(n) ==
  /\ node[n].mac \in {"defer", "overlapped"}
  /\ \E hear \in SUBSET Listening(n) :
       LET ok == node[n].mac = "defer"
           next(r) == FromMacData(node[r], node[n].active, r)
       IN  /\ node' = [r \in Nodes |-> CASE r = n -> FromMacAck(node[n], n, ok)
                                         [] r \in hear -> Quiet(next(r))
                                         [] OTHER -> node[r]]
           /\ got' = [r \in Nodes |-> IF r \in hear THEN got[r] \o next(r).up ELSE got[r]]
           /\ faults' = faults + Cardinality(Listening(n) \ hear)
  /\ faults' <= scenario.maxFaults
  /\ UNCHANGED <<scenario, sent, wakes>>

\* BcastMAC: AckTimer, after cancel
Canceled(n) ==
  /\ node[n].mac = "canceled"
  /\ Becomes(n, FromMacAck(node[n], n, TRUE))
  /\ UNCHANGED <<scenario, sent, got, faults, wakes>>

Next == \E n \in Nodes : \/ Send(n) \/ Transition(n) \/ Delayed(n) \/ Unanswered(n)
                         \/ Wake(n) \/ Overlap(n) \/ Transmit(n) \/ Canceled(n)

Spec == Init /\ [][Next]_vars

(***************************************************************************)
(* Properties                                                              *)
(***************************************************************************)
\* No application gets a packet twice, however many candidates forward it,
\* and however often a sender that missed the answer repeats it.
DeliveredOnce == \A n \in Nodes : IsInjective(got[n])

\* The network layer waits for the MAC exactly while the MAC has something
\* to answer, and nothing waits in m_send_queue for a MAC that is free.
QueueServed ==
  \A n \in Nodes : LET w == node[n]
                   IN  /\ w.busy <=> w.mac # "none"
                       /\ w.queue # <<>> => w.busy

\* Nobody takes itself for nearer to a node than it is: not by packets that
\* went astray, not by a HELLO, not by route repair.
NeverTooNear ==
  \A n \in Nodes : \A d \in DOMAIN node[n].table :
     LET e == node[n].table[d]
     IN  /\ d \in Within(Links, e.hc, n)
         /\ e.changing => d \in Within(Links, e.pending, n)

\* "Request packets are flooded: No election" (net/shr.h:1399).
RequestsAreFlooded == \A n \in Nodes : "REQUEST" \notin node[n].dropped
=============================================================================
