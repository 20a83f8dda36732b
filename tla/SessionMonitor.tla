------------------------------ MODULE SessionMonitor ------------------------------
(* The traffic of the simulation: `test' opens a session and sends one question *)
(* under a common key, directly inside a cluster and through the receiver's     *)
(* head between clusters; `process_data' is the receiving side of every UDP     *)
(* agent; `monitor' examines every session that opens and stops the suspicious. *)
(* The NS-2 scheduler (times in tenths of a second) and its wireless network    *)
(* are external and modelled from how the script uses them.                     *)
EXTENDS ClusterLayout, KeyDiscovery, FiniteSets, SequencesExt

CONSTANT Setups      \* the simulations looked at, as records:
    \* flows, the sequence of the calls `test src dst agent' in the event queue;
    \* heads, nodes leach may have left in ch1..ch4; shares, what keygen may have drawn;
    \* alarms, attack records of kdd/1.txt that match, for land = 0 and 1;
    \* maxUntrusted, how many nodes may fail to authenticate; mayDrift, nodes may be out
    \* of their head's range (500 m); lossy, the network may lose packets; inOrder, it
    \* delivers those of one sender in order; prompt, within the tenth of a second they
    \* were sent in

UdpNodes == {0, 1, 2, 3, 5, 15}             \* the agents $udp(x)
Udpch == NN                                 \* $udpch and $udpch2
Udpch2 == NN + 1
Agents == UdpNodes \union {Udpch, Udpch2}
None == NN + 2                              \* no agent, no node, field not sent
Times == {40, 41, 43, 44, 45, 82, 83, 85, 120}
Finish == 120

ASSUME SessionAssumption ==
    /\ NN > 15
    /\ \A s \in Setups :
          /\ s.flows \in Seq([src : Nodes, dst : Nodes, agent : UdpNodes])
          /\ s.heads \subseteq Nodes /\ \A k \in Clusters : s.heads \intersect Cluster(k) # {}
          /\ s.shares \subseteq Shares
          /\ s.alarms \in [{0, 1} -> Nat] /\ s.maxUntrusted \in Nat
          /\ {s.mayDrift, s.lossy, s.inOrder, s.prompt} \subseteq BOOLEAN

VARIABLES
    setup,           \* the simulation that is run
    ch,              \* ch1..ch4, the heads of the second election
    share,           \* the node files keygen wrote
    authentic,       \* the nodes sleach accepts
    clock,           \* $ns now, as far as events have been run
    agenda,          \* the `at' events not run yet, in the order they were entered
    net,             \* packets in flight
    node,            \* the node each agent is attached to (its node_)
    dst,             \* the agent each agent is connected to
    session,         \* the pairs with session(sender,tes) = 1
    fk,              \* the global flag fk
    received,        \* the "received" annotations of the trace file
    aborted          \* "no", or the Tcl error that ended the simulation

vars == <<setup, ch, share, authentic, clock, agenda, net, node, dst, session, fk,
          received, aborted>>

(* The cluster `test' and `monitor' find a node in.                             *)
ClusterOf(x) == CHOOSE k \in Clusters : x \in Cluster(k)
HeadFor(x) == ch[ClusterOf(x)]

Flows == setup.flows
Alarms == setup.alarms
FlowSet == {Flows[x] : x \in DOMAIN Flows}
Direct(f) == ClusterOf(f.src) = ClusterOf(f.dst)
Relayed == {x \in DOMAIN Flows : ~Direct(Flows[x])}

(* The nodes that take part: the ends and the possible heads on the way.        *)
Parties ==
  (UNION {{f.src, f.dst} : f \in FlowSet})
    \union (UNION {setup.heads \intersect Cluster(ClusterOf(Flows[x].dst)) : x \in Relayed})

(* A payload n1:n2:data[:sender1].  Encrypted data is the text and its key.     *)
Control(word, from, to) ==
    [kind |-> word, from |-> from, to |-> to, key |-> NoKey, text |-> "", origin |-> None]
Cipher(from, to, key, text, origin) ==
    [kind |-> "data", from |-> from, to |-> to, key |-> key, text |-> text, origin |-> origin]
Decrypt(key, m) == IF key = m.key THEN m.text ELSE "garbage"

(* Entries of the event queue.                                                  *)
SendAt(time, agent, msg) == [at |-> time, do |-> "send", agent |-> agent, msg |-> msg]
MonitorAt(time, from, to) ==
    [at |-> time, do |-> "monitor", agent |-> None, msg |-> Control("sstart", from, to)]
TestAt(time, f) ==
    [at |-> time, do |-> "test", agent |-> f.agent, msg |-> Control("sstart", f.src, f.dst)]

(* Where the script attaches the agents, and which it connects.                 *)
FirstNode == [a \in Agents |-> IF a = 3 THEN 0 ELSE IF a \in UdpNodes THEN a ELSE None]
FirstDst == [a \in Agents |-> CASE a = 0 -> 1 [] a = 1 -> 0 [] a = 2 -> 3 [] a = 3 -> 2
                                 [] OTHER -> None]

Init == /\ setup \in Setups
        /\ ch \in {h \in [Clusters -> setup.heads] : \A k \in Clusters : h[k] \in Cluster(k)}
        /\ share \in [Parties -> setup.shares]
        /\ authentic \in {p \in SUBSET Parties : Cardinality(Parties \ p) <= setup.maxUntrusted}
        /\ clock = 40
        /\ agenda = [x \in DOMAIN Flows |-> TestAt(40, Flows[x])]
        /\ net = << >>
        /\ node = FirstNode
        /\ dst = FirstDst
        /\ session = {}
        /\ fk = 0
        /\ received = {}
        /\ aborted = "no"

Running == aborted = "no" /\ clock < Finish

(* Events whose time has come run before anything else happens, earliest first  *)
(* and in the order they were entered.                                          *)
Due == {x \in DOMAIN agenda : agenda[x].at <= clock}
NextDue == CHOOSE x \in Due : \A y \in Due : x <= y

(* Two agents connected to each other (`$ns connect').                          *)
Connected(a, b, old) == [old EXCEPT ![a] = b, ![b] = a]

Abort(why) == aborted' = why /\ UNCHANGED <<agenda, node, dst, session, fk, received>>
-----------------------------------------------------------------------------------
(* test n1 n2 udpval: only a flow with a key schedules its data and its sstop.  *)
TestEvents(e, key, dataTime) ==
    LET s == e.msg.from  d == e.msg.to
    IN  <<SendAt(41, e.agent, Control("sstart", s, d))>> \o
        IF key = NoKey THEN << >>
        ELSE << SendAt(dataTime, e.agent, Cipher(s, d, key, "question", None)),
                SendAt(dataTime + 1, e.agent, Control("sstop", s, d)) >>

TestDirect(e) ==
    LET s == e.msg.from  d == e.msg.to
    IN  /\ ClusterOf(s) = ClusterOf(d)
        /\ agenda' = RemoveAt(agenda, NextDue) \o
                         TestEvents(e, PairKey(share[s], share[d]), 44)
        /\ UNCHANGED <<net, node, dst, session, fk, received, aborted>>

TestViaHead(e) ==
    LET s == e.msg.from  d == e.msg.to
    IN  /\ ClusterOf(s) # ClusterOf(d)
        /\ IF s \notin UdpNodes
           THEN Abort("no agent") /\ UNCHANGED net
           ELSE /\ node' = [node EXCEPT ![Udpch] = HeadFor(d)]
                /\ dst' = Connected(s, Udpch, dst)
                /\ agenda' = RemoveAt(agenda, NextDue) \o
                       TestEvents(e, TripleKey(share[s], share[HeadFor(d)], share[d]), 43)
                /\ UNCHANGED <<net, session, fk, received, aborted>>

(* An agent sends to whatever it is connected to by then.                       *)
Send(e) ==
    /\ net' = IF dst[e.agent] = None THEN net
              ELSE Append(net, [src |-> e.agent, to |-> dst[e.agent], msg |-> e.msg])
    /\ agenda' = RemoveAt(agenda, NextDue)
    /\ UNCHANGED <<node, dst, session, fk, received, aborted>>

(* monitor n1 n2: both ends must be authentic and within their head's range,    *)
(* else one sstop; a trusted session gets one sstop for every attack record     *)
(* that matches it, `land' being compared with session(n1,n2).                  *)
(* Mutants: no test of sleach, land compared the wrong way round, one sstop     *)
(* for every session.                                                           *)
StopsUnchecked(e, near) == IF near THEN 0 ELSE 1
StopsWrongLand(e, near) ==
    LET s == e.msg.from  d == e.msg.to
    IN  IF {s, d} \subseteq authentic /\ near
        THEN Alarms[IF <<s, d>> \in session THEN 0 ELSE 1]
        ELSE 1
StopsAlways(e, near) == 1

Stops(e, near) ==
    LET s == e.msg.from  d == e.msg.to
    IN  IF {s, d} \subseteq authentic /\ near
        THEN Alarms[IF <<s, d>> \in session THEN 1 ELSE 0]
        ELSE 1

Monitor(e) ==
    \E near \in IF setup.mayDrift THEN BOOLEAN ELSE {TRUE} :
        LET s == e.msg.from
            stop == SendAt(clock, s, Control("sstop", s, e.msg.to))
        IN  IF Stops(e, near) > 0 /\ s \notin UdpNodes
            THEN Abort("no agent") /\ UNCHANGED net
            ELSE /\ agenda' = RemoveAt(agenda, NextDue) \o [x \in 1..Stops(e, near) |-> stop]
                 /\ UNCHANGED <<net, node, dst, session, fk, received, aborted>>

RunEvent ==
    /\ Running /\ Due # {}
    /\ LET e == agenda[NextDue]
       IN  \/ e.do = "test" /\ (TestDirect(e) \/ TestViaHead(e))
           \/ e.do = "send" /\ Send(e)
           \/ e.do = "monitor" /\ Monitor(e)
    /\ UNCHANGED <<setup, ch, share, authentic, clock>>
-----------------------------------------------------------------------------------
(* process_data at the agent's node tes.                                        *)
OpenSession(m, tes) ==
    /\ m.kind = "sstart"
    /\ session' = session \union {<<m.from, tes>>}
    /\ agenda' = Append(agenda, MonitorAt(clock, m.from, m.to))
    /\ UNCHANGED <<node, dst, fk, received, aborted>>

CloseSession(m, tes) ==
    /\ m.kind = "sstop"
    /\ session' = session \ {<<m.from, tes>>}
    /\ UNCHANGED <<agenda, node, dst, fk, received, aborted>>

IgnoreData(m, tes) ==
    /\ m.kind = "data" /\ <<m.from, tes>> \notin session
    /\ UNCHANGED <<agenda, node, dst, session, fk, received, aborted>>

Annotation(tes, m, text, final) ==
    [at |-> tes, from |-> m.from, origin |-> m.origin, to |-> m.to, text |-> text,
     final |-> final]

(* The head's own session with the receiver, at fixed times.  The mutant        *)
(* forgets the sstop.                                                           *)
RelayEventsNoStop(m, tes, key, res) ==
    <<SendAt(82, Udpch2, Control("sstart", tes, m.to)),
      SendAt(83, Udpch2, Cipher(tes, m.to, key, res, m.from))>>
RelayEvents(m, tes, key, res) ==
    <<SendAt(82, Udpch2, Control("sstart", tes, m.to))>> \o
    (IF key = NoKey THEN << >>
     ELSE <<SendAt(83, Udpch2, Cipher(tes, m.to, key, res, m.from))>>) \o
    <<SendAt(85, Udpch2, Control("sstop", tes, m.to))>>

(* At the head of the receiver's cluster; NS-2 refuses to schedule in the past. *)
RelayData(m, tes) ==
    /\ m.kind = "data" /\ <<m.from, tes>> \in session /\ m.to # tes
    /\ IF m.to \notin UdpNodes
       THEN Abort("no agent")
       ELSE IF clock >= 82
       THEN Abort("late")
       ELSE LET key == TripleKey(share[m.from], share[tes], share[m.to])
                res == Decrypt(key, m)
            IN  /\ node' = [node EXCEPT ![Udpch2] = tes]
                /\ dst' = Connected(m.to, Udpch2, dst)
                /\ agenda' = agenda \o RelayEvents(m, tes, key, res)
                /\ IF key = NoKey
                   THEN UNCHANGED <<fk, received>>
                   ELSE /\ fk' = 1
                        /\ received' = received \union {Annotation(tes, m, res, FALSE)}
                /\ UNCHANGED <<session, aborted>>

(* The key the receiver uses: fk tells it that data was relayed.  Mutants: the  *)
(* shares in another order than the sender's, fk not consulted.                 *)
ReceiverKeySwapped(m, tes) ==
    IF fk = 1 THEN TripleKey(share[m.from], share[m.origin], share[tes])
    ELSE PairKey(share[m.from], share[tes])
ReceiverKeyPair(m, tes) == PairKey(share[m.from], share[tes])

ReceiverKey(m, tes) ==
    IF fk = 1 THEN TripleKey(share[m.origin], share[m.from], share[tes])
    ELSE PairKey(share[m.from], share[tes])

(* At the receiver; whoever set fk is not asked.                                *)
(* Without a sender1 field readvalue1 opens txt1/.txt, which does not exist;    *)
(* what the cipher does with the key 0 is its business: an error or garbage.    *)
AcceptData(m, tes) ==
    /\ m.kind = "data" /\ <<m.from, tes>> \in session /\ m.to = tes
    /\ IF fk = 1 /\ m.origin = None
       THEN Abort("fk")
       ELSE LET key == ReceiverKey(m, tes)
            IN  \/ /\ key = NoKey
                   /\ Abort("no key")
                \/ /\ fk' = 0
                   /\ received' = received \union {Annotation(tes, m, Decrypt(key, m), TRUE)}
                   /\ UNCHANGED <<agenda, node, dst, session, aborted>>

ProcessData(m, tes) ==
    \/ OpenSession(m, tes)  \/ CloseSession(m, tes)  \/ IgnoreData(m, tes)
    \/ RelayData(m, tes)    \/ AcceptData(m, tes)

(* A packet arrives after the events that are due, before the next ones.        *)
Deliver ==
    /\ Running /\ Due = {}
    /\ \E x \in DOMAIN net :
          /\ setup.inOrder => \A y \in 1..(x - 1) : net[y].src # net[x].src
          /\ ProcessData(net[x].msg, node[net[x].to])
          /\ net' = RemoveAt(net, x)
    /\ UNCHANGED <<setup, ch, share, authentic, clock>>

Lose ==
    /\ Running /\ Due = {} /\ setup.lossy
    /\ \E x \in DOMAIN net : net' = RemoveAt(net, x)
    /\ UNCHANGED <<setup, ch, share, authentic, clock, agenda, node, dst, session, fk, received,
                   aborted>>

(* Time passes to the next moment the script names.                             *)
Tick ==
    /\ Running /\ Due = {} /\ (setup.prompt => net = << >>)
    /\ clock' = CHOOSE x \in Times : x > clock /\ \A y \in Times : y > clock => x <= y
    /\ UNCHANGED <<setup, ch, share, authentic, agenda, net, node, dst, session, fk, received,
                   aborted>>

Next == RunEvent \/ Deliver \/ Lose \/ Tick

Spec == Init /\ [][Next]_vars

(* The scheduler runs events until `finish' at 12.0; a network that does not    *)
(* lose packets delivers them.                                                  *)
FairSpec == Spec /\ WF_vars(RunEvent) /\ WF_vars(Deliver) /\ WF_vars(Tick)
-----------------------------------------------------------------------------------
FlowKey(f) == IF Direct(f) THEN PairKey(share[f.src], share[f.dst])
              ELSE TripleKey(share[f.src], share[HeadFor(f.dst)], share[f.dst])

(* The calls of `test' that do what their arguments say: both ends have agents; *)
(* a direct question leaves through an agent that is connected to its receiver, *)
(* as udp(3) at node 0 is to udp(2); at most one is relayed, through its        *)
(* sender's agent, and as it takes the agents of its ends away from whom they   *)
(* were connected to, no direct question leaves through them.                   *)
WellAddressed ==
    /\ \A f \in FlowSet : {f.src, f.dst} \subseteq UdpNodes
    /\ \A f \in FlowSet : Direct(f) =>
          FirstDst[f.agent] # None /\ FirstNode[FirstDst[f.agent]] = f.dst
    /\ \A x, y \in Relayed : x = y
    /\ \A f, g \in FlowSet : ~Direct(f) =>
          /\ f.agent = f.src /\ FirstNode[f.dst] = f.dst
          /\ Direct(g) => g.agent \notin {f.src, f.dst}

(* A receiver that is not the head its question was sent through decrypts what  *)
(* the sender wrote, direct or relayed; a garbled text means that the head was  *)
(* the receiver itself: test used three shares, process_data uses two.          *)
ReadableUnlessHead ==
    \A a \in received : a.text # "question" /\ WellAddressed => a.final /\ a.at = HeadFor(a.at)

(* The four Tcl errors and what each takes: a relay that starts after 8.2; a    *)
(* relaying head without a udp() agent, told by monitor to stop its session;    *)
(* the relay flag met by a direct question; a head that is the receiver itself  *)
(* and has no key of two with the sender.  Direct flows alone never fail.       *)
AbortHasCause ==
    aborted # "no" /\ WellAddressed =>
        /\ aborted = "late" => ~setup.prompt /\ Relayed # {}
        /\ aborted = "no agent" => \E x \in Relayed : HeadFor(Flows[x].dst) \notin UdpNodes
        /\ aborted = "fk" => Relayed # {} /\ Relayed # DOMAIN Flows
        /\ aborted = "no key" => \E x \in Relayed : HeadFor(Flows[x].dst) = Flows[x].dst

(* A network that brings everything, within a tenth of a second.                *)
Reliable == setup.prompt /\ ~setup.lossy

(* When such a network has delivered everything, the sessions left open are     *)
(* those `test' opened without having a key: it schedules their sstart but no   *)
(* sstop.                                                                       *)
OnlyKeylessSessionsStayOpen ==
    agenda = << >> /\ net = << >> /\ aborted = "no" /\ Reliable /\ WellAddressed =>
        \A p \in session : \E f \in FlowSet :
            /\ FlowKey(f) = NoKey
            /\ p = <<f.src, IF Direct(f) THEN f.dst ELSE HeadFor(f.dst)>>

(* monitor's sstop goes out through udp(n1) and closes session(n1,.) wherever   *)
(* that leads.  It reaches the session it is about if all questions of the      *)
(* sender go to this receiver through its own agent (`test 0 2 3' does not, and *)
(* the sstart of another question would open the session again); a relaying     *)
(* head has no such agent, and monitor's attempt ends the simulation.           *)
Stoppable(a) ==
    IF a.origin = None
    THEN \A f \in FlowSet : f.src = a.from => f.agent = a.from /\ f.dst = a.to
    ELSE a.from \notin UdpNodes

(* The point of monitoring: on such a network the sstop of a session with an    *)
(* untrusted end arrives before the session's data, at the head as at the       *)
(* receiver, whatever other sessions there are, so nothing of it is ever read.  *)
UntrustedDataNeverRead ==
    Reliable => \A a \in received : Stoppable(a) => {a.from, a.to} \subseteq authentic

(* Likewise for sessions that match an attack record, but only where monitor    *)
(* looks at the session it was called for: at a relaying head it looks up       *)
(* session(sender,receiver), which nobody opens, and land is 0.                 *)
AlarmedDataNeverRead ==
    Reliable /\ Alarms[1] > 0 => \A a \in received : Stoppable(a) => ~a.final

(* When all nodes are trusted and in range, a question there is a key for       *)
(* reaches its receiver unless a Tcl error ends the simulation.                 *)
TrustedQuestionArrives ==
    \A x \in UNION {DOMAIN s.flows : s \in Setups} :
        (x \in DOMAIN Flows /\ Parties \subseteq authentic /\ FlowKey(Flows[x]) # NoKey)
            ~> (aborted # "no" \/ \E a \in received : a.at = Flows[x].dst /\ a.final)
===================================================================================
