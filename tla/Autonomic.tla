------------------------------ MODULE Autonomic ------------------------------
(***************************************************************************)
(* A network of examples/sense/sim_ashr.cc: autonomic self-healing routing *)
(* on the broadcast MAC, in a fixed topology, as SelfHealing is one of     *)
(* sim_shr.h.  A frame that ends is heard by some of the neighbours, is    *)
(* lost in a collision at others, and is answered by the sender's MAC, as  *)
(* failed when another frame began to arrive meanwhile.                    *)
(***************************************************************************)
EXTENDS Ashr, FiniteSets

CONSTANTS Nodes,
          Scenarios        \* what to look at, a set of records of:
                           \*   options    the command line
                           \*   links      the neighbours of a node
                           \*   learnt     the hop counts a node has learnt
                           \*   traffic    the destinations of the packets it sends
                           \*   patient    whether its timers wait (see EndT2)
                           \*   maxFaults  bound on frames lost and overlaps

VARIABLES scenario, node, sent, got, faults

vars == <<scenario, node, sent, got, faults>>

Links == scenario.links

Learnt(w, hops) == [w EXCEPT !.table = [x \in DOMAIN hops |-> Entry(hops[x])] @@ @]

Init == /\ scenario \in Scenarios
        /\ node = [n \in Nodes |-> Learnt(Started(scenario.options, n), scenario.learnt[n])]
        /\ sent = [n \in Nodes |-> 0]
        /\ got = [n \in Nodes |-> <<>>]
        /\ faults = 0

Becomes(n, w) == node' = [node EXCEPT ![n] = Collected(w)]

Inject(n) ==
  /\ sent[n] < Len(scenario.traffic[n])
  /\ sent' = [sent EXCEPT ![n] = @ + 1]
  /\ Becomes(n, FromTransport(node[n], n, scenario.traffic[n][sent[n] + 1], sent[n] + 1))
  /\ UNCHANGED <<scenario, got, faults>>

Transition(n) ==
  /\ node[n].mac = "transition"
  /\ Becomes(n, TransitionTimer(node[n]))
  /\ UNCHANGED <<scenario, sent, got, faults>>

EndT1(n) ==
  /\ \E i \in DOMAIN node[n].endT1.on : Becomes(n, EndT1Timer(node[n], n, i))
  /\ UNCHANGED <<scenario, sent, got, faults>>

\* T2 ends after T1, and, in the patient scenarios, after everybody has sent
\* what waited for its slot.
Silent == \A m \in Nodes : ~node[m].busy
EndT2(n) ==
  /\ scenario.patient => Silent
  /\ \E i \in DOMAIN node[n].endT2.on :
       /\ node[n].endT2.on[i] \notin Pointers(node[n].endT1)
       /\ Becomes(n, EndT2Timer(node[n], n, i))
  /\ UNCHANGED <<scenario, sent, got, faults>>

EndColl(n) ==
  /\ scenario.patient => Silent
  /\ \E i \in DOMAIN node[n].endColl.on : Becomes(n, EndCollTimer(node[n], i))
  /\ UNCHANGED <<scenario, sent, got, faults>>

\* BcastMAC: from_phy, a frame begins to arrive while n is sending.
Overlap(n) ==
  /\ node[n].mac = "defer"
  /\ \E m \in Nodes \ {n} : node[m].mac \in {"defer", "overlapped"}
  /\ faults < scenario.maxFaults
  /\ faults' = faults + 1
  /\ node' = [node EXCEPT ![n].mac = "overlapped"]
  /\ UNCHANGED <<scenario, sent, got>>

\* BcastMAC: SendTimer and then, as a frame takes its time to travel,
\* recv_timer at those that get it.  All of them share the packet.
Listening(n) == {r \in Links[n] : node[r].mac # "overlapped"}

Transmit(n) ==
  /\ node[n].mac \in {"defer", "overlapped"}
  /\ \E hear \in SUBSET Listening(n) :
       /\ faults' = faults + Cardinality(Listening(n) \ hear)
       /\ faults' <= scenario.maxFaults
       /\ \E slot \in [hear -> 1 .. NumT2Slots],
             late \in SUBSET {r \in hear : node[r].t3 # <<>> \/ node[r].colls # <<>>} :
            LET after == FromMacAck(node[n], n, node[n].mac = "defer")
                p == after.heap[node[n].active]
                next(r) == FromMacData(node[r], p, r, slot[r], r \in late)
            IN  /\ node' = [r \in Nodes |-> CASE r = n -> Collected(after)
                                              [] r \in hear -> Collected(next(r))
                                              [] OTHER -> node[r]]
                /\ got' = [r \in Nodes |-> IF r \in hear THEN got[r] \o next(r).up ELSE got[r]]
  /\ UNCHANGED <<scenario, sent>>

\* Two frames collide at n, which awaits that a packet is forwarded.
Collide(n) ==
  /\ node[n].t3 # <<>>
  /\ faults < scenario.maxFaults
  /\ faults' = faults + 1
  /\ \E slotOf \in [OnT3(node[n]) -> NotMeasured .. NumT2Slots + NumT3Slots] :
       /\ \A h \in OnT3(node[n]) : slotOf[h] \in SlotsFor(node[n], h)
       /\ Becomes(n, RecvRecvColl(node[n], slotOf))
  /\ UNCHANGED <<scenario, sent, got>>

\* BcastMAC: AckTimer, after cancel
Canceled(n) ==
  /\ node[n].mac = "canceled"
  /\ Becomes(n, FromMacAck(node[n], n, TRUE))
  /\ UNCHANGED <<scenario, sent, got, faults>>

Next == \E n \in Nodes : \/ Inject(n) \/ Transition(n) \/ EndT1(n) \/ EndT2(n) \/ EndColl(n)
                         \/ Overlap(n) \/ Transmit(n) \/ Collide(n) \/ Canceled(n)

Spec == Init /\ [][Next]_vars

(***************************************************************************)
(* Properties                                                              *)
(***************************************************************************)
\* No application gets a packet twice, although a sender repeats what it
\* did not hear being forwarded, and candidates try again after a COLL.
DeliveredOnce == \A n \in Nodes : IsInjective(got[n])

\* A timer of T1 or T2 runs for a packet on m_T3_queue only, and that of a
\* COLL finds its packet on its queue: no timer is left with a packet that
\* was freed, although indices of timers are copied with packets and lead to
\* the timers of others.
TimersAlive ==
  \A n \in Nodes : LET w == node[n]
                   IN  /\ Pointers(w.endT1) \union Pointers(w.endT2) \subseteq OnT3(w)
                       /\ ~w.lost

\* The network layer waits for the MAC exactly while the MAC has something
\* to answer, and nothing waits in m_send_queue for a MAC that is free.
QueueServed ==
  \A n \in Nodes : LET w == node[n]
                   IN  /\ w.busy <=> w.mac # "none"
                       /\ w.queue # <<>> => w.busy

\* Nobody takes itself for nearer to a node than it is.
Within[k \in Nat, n \in Nodes] ==
  IF k = 0 THEN {n} ELSE UNION {{m} \union Links[m] : m \in Within[k - 1, n]}

NeverTooNear ==
  \A n \in Nodes : \A d \in DOMAIN node[n].table :
     LET e == node[n].table[d]
     IN  /\ d \in Within[e.hc, n]
         /\ e.changing => d \in Within[e.pending, n]
=============================================================================
