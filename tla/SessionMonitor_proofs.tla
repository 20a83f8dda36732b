--------------------------- MODULE SessionMonitor_proofs ---------------------------
(* What keydis computes, for shares of any integers; that monitoring keeps the  *)
(* data of untrusted and of suspicious sessions from being read, whatever flows *)
(* are scheduled and whichever nodes are heads; and, for well-addressed flows   *)
(* on any network, that what is read is what was asked, which errors can end    *)
(* the simulation, and that sessions close.                                     *)
EXTENDS SessionMonitor, SequenceTheorems, WellFoundedInduction, TLAPS

-----------------------------------------------------------------------------------
(* Keys                                                                         *)

IntShares == [i : Int, j : Int, u : Int]

(* The 4*(j-j1) term and the square do not change the parity keydis looks at.   *)
LEMMA ParityOfSum ==
    ASSUME NEW x \in Int, NEW y \in Int
    PROVE  (x * x + y * 4) % 2 = x % 2
<1>1. PICK m \in Int : x = 2 * m \/ x = 2 * m + 1
  <2>1. x = 2 * (x \div 2) + (x % 2) /\ x % 2 \in {0, 1} /\ x \div 2 \in Int
    OBVIOUS
  <2> QED BY <2>1
<1>2. m * m \in Int
  OBVIOUS
<1>3. CASE x = 2 * m
  <2>1. x * x = 4 * (m * m)
    BY <1>3
  <2>2. x * x + y * 4 = 2 * (2 * (m * m) + 2 * y)
    BY <2>1, <1>2
  <2>3. 2 * (m * m) + 2 * y \in Int
    BY <1>2
  <2>4. ASSUME NEW z \in Int PROVE (2 * z) % 2 = 0
    OBVIOUS
  <2> QED BY <1>3, <2>2, <2>3, <2>4
<1>4. CASE x = 2 * m + 1
  <2>1. x * x = 4 * (m * m) + 4 * m + 1
    BY <1>4
  <2>2. x * x + y * 4 = 2 * (2 * (m * m) + 2 * m + 2 * y) + 1
    BY <2>1, <1>2
  <2>3. 2 * (m * m) + 2 * m + 2 * y \in Int
    BY <1>2
  <2>4. ASSUME NEW z \in Int PROVE (2 * z + 1) % 2 = 1
    OBVIOUS
  <2> QED BY <1>4, <2>2, <2>3, <2>4
<1> QED BY <1>1, <1>3, <1>4

(* Two shares have a key exactly when u differs and the difference of the i is  *)
(* odd; j has no influence.                                                     *)
THEOREM WhenKeysExist ==
    ASSUME NEW a \in IntShares, NEW b \in IntShares
    PROVE  KeyDis(a, b) # NoKey <=> a.u # b.u /\ (a.i - b.i) % 2 = 1
<1>1. a.i - b.i \in Int /\ a.j - b.j \in Int
  BY DEF IntShares
<1>2. ((a.i - b.i) * (a.i - b.i) + (a.j - b.j) * 4) % 2 = (a.i - b.i) % 2
  BY <1>1, ParityOfSum
<1>3. (a.i - b.i) % 2 \in {0, 1}
  BY <1>1
<1>4. \A x, y : <<x, y>> # << >>
  OBVIOUS
<1> QED BY <1>2, <1>3, <1>4 DEF KeyDis, NoKey

(* A key is sha1 of 01 or of 10, one bit in all, and exchanging the two shares  *)
(* exchanges the digits: the sides of a session agree only because both put the *)
(* sender's share first, as test and process_data do.                           *)
THEOREM KeyDependsOnOrder ==
    ASSUME NEW a \in IntShares, NEW b \in IntShares, KeyDis(a, b) # NoKey
    PROVE  /\ KeyDis(a, b) \in {<<0, 1>>, <<1, 0>>}
           /\ KeyDis(b, a) \in {<<0, 1>>, <<1, 0>>}
           /\ KeyDis(b, a) # KeyDis(a, b)
<1> DEFINE x == a.i - b.i
           y == b.i - a.i
<1>1. x \in Int /\ y \in Int /\ y = 0 - x /\ a.j - b.j \in Int /\ b.j - a.j \in Int
  BY DEF IntShares
<1>2. a.u # b.u /\ x % 2 = 1
  BY WhenKeysExist
<1>3. (x * x + (a.j - b.j) * 4) % 2 = 1
  BY <1>1, <1>2, ParityOfSum
<1> HIDE DEF x, y
<1>4. y % 2 = 1
  BY <1>1, <1>2
<1>5. (y * y + (b.j - a.j) * 4) % 2 = 1
  BY <1>1, <1>4, ParityOfSum
<1>6. KeyDis(a, b) = << ((x + 1) \div 2) % 2, ((x - 1) \div 2) % 2 >>
  BY <1>2, <1>3 DEF KeyDis, x
<1>7. KeyDis(b, a) = << ((y + 1) \div 2) % 2, ((y - 1) \div 2) % 2 >>
  BY <1>2, <1>5 DEF KeyDis, y
<1>8. PICK m \in Int : x = 2 * m + 1
  <2>1. x = 2 * (x \div 2) + (x % 2) /\ x \div 2 \in Int
    BY <1>1
  <2> QED BY <1>2, <2>1
<1>9. /\ (x + 1) \div 2 = m + 1 /\ (x - 1) \div 2 = m
      /\ (y + 1) \div 2 = 0 - m /\ (y - 1) \div 2 = 0 - m - 1
  BY <1>1, <1>8
<1>10. \/ m % 2 = 0 /\ (m + 1) % 2 = 1 /\ (0 - m) % 2 = 0 /\ (0 - m - 1) % 2 = 1
       \/ m % 2 = 1 /\ (m + 1) % 2 = 0 /\ (0 - m) % 2 = 1 /\ (0 - m - 1) % 2 = 0
  OBVIOUS
<1> QED BY <1>6, <1>7, <1>9, <1>10
-----------------------------------------------------------------------------------
(* Sequences as the collections they are used for here                          *)

Entries(s) == {s[x] : x \in DOMAIN s}
IsSequence(s) == s \in Seq(Entries(s))

LEMMA SequenceOfEntries ==
    ASSUME NEW S, NEW s \in Seq(S)
    PROVE  IsSequence(s)
<1>1. Len(s) \in Nat /\ DOMAIN s = 1 .. Len(s) /\ s \in [1 .. Len(s) -> S]
  BY LenProperties
<1>2. s = [x \in 1 .. Len(s) |-> s[x]]
  BY <1>1
<1>3. s \in [1 .. Len(s) -> Entries(s)]
  BY <1>1, <1>2 DEF Entries
<1> QED BY <1>1, <1>3, SeqDef DEF IsSequence

LEMMA JoinEntries ==
    ASSUME NEW s, NEW t, IsSequence(s), IsSequence(t)
    PROVE  /\ IsSequence(s \o t)
           /\ Entries(s \o t) = Entries(s) \union Entries(t)
<1> DEFINE S == Entries(s) \union Entries(t)
<1>1. s \in Seq(S) /\ t \in Seq(S)
  BY SeqMonotonic DEF IsSequence
<1>2. s \o t \in Seq(S)
  BY <1>1, ConcatProperties
<1>3. /\ Len(s) \in Nat /\ DOMAIN s = 1 .. Len(s)
      /\ Len(t) \in Nat /\ DOMAIN t = 1 .. Len(t)
      /\ DOMAIN (s \o t) = 1 .. Len(s) + Len(t)
      /\ \A x \in 1 .. Len(s) + Len(t) :
            (s \o t)[x] = IF x <= Len(s) THEN s[x] ELSE t[x - Len(s)]
  BY <1>1, <1>2, ConcatProperties, LenProperties
<1>4. Entries(s \o t) \subseteq S
  BY <1>3 DEF Entries
<1>5. Entries(s) \subseteq Entries(s \o t)
  BY <1>3 DEF Entries
<1>6. Entries(t) \subseteq Entries(s \o t)
  <2>1. ASSUME NEW y \in DOMAIN t PROVE t[y] \in Entries(s \o t)
    <3>1. y + Len(s) \in 1 .. Len(s) + Len(t) /\ ~(y + Len(s) <= Len(s))
          /\ y + Len(s) - Len(s) = y
      BY <1>3
    <3>2. (s \o t)[y + Len(s)] = t[y]
      BY <1>3, <3>1
    <3> QED BY <1>3, <3>1, <3>2 DEF Entries
  <2> QED BY <2>1 DEF Entries
<1> QED BY <1>2, <1>4, <1>5, <1>6, SequenceOfEntries

LEMMA OneEntry ==
    ASSUME NEW e
    PROVE  IsSequence(<<e>>) /\ Entries(<<e>>) = {e}
<1>1. <<e>> \in Seq({e})
  OBVIOUS
<1>2. DOMAIN <<e>> = {1} /\ <<e>>[1] = e
  OBVIOUS
<1> QED BY <1>1, <1>2, SequenceOfEntries DEF Entries

LEMMA NoEntry == IsSequence(<< >>) /\ Entries(<< >>) = {}
BY DEF IsSequence, Entries

LEMMA AppendEntries ==
    ASSUME NEW s, NEW e, IsSequence(s)
    PROVE  /\ IsSequence(Append(s, e))
           /\ Entries(Append(s, e)) = Entries(s) \union {e}
<1>1. Append(s, e) = s \o <<e>>
  BY AppendIsConcat, SeqMonotonic, s \in Seq(Entries(s) \union {e})
     DEF IsSequence
<1> QED BY <1>1, JoinEntries, OneEntry

(* RemoveAt takes one entry out; the same one may be there a second time.       *)
LEMMA RemoveEntry ==
    ASSUME NEW s, IsSequence(s), NEW x \in DOMAIN s
    PROVE  /\ IsSequence(RemoveAt(s, x))
           /\ Entries(RemoveAt(s, x)) \subseteq Entries(s)
           /\ s[x] \in Entries(s)
           /\ \A e \in Entries(s) : e = s[x] \/ e \in Entries(RemoveAt(s, x))
<1> DEFINE a == SubSeq(s, 1, x - 1)
           b == SubSeq(s, x + 1, Len(s))
<1>1. Len(s) \in Nat /\ DOMAIN s = 1 .. Len(s) /\ x \in 1 .. Len(s)
  BY LenProperties DEF IsSequence
<1>2. /\ a \in Seq(Entries(s)) /\ Len(a) = x - 1
      /\ \A y \in 1 .. x - 1 : a[y] = s[y]
  <2>1. \A y \in 1 .. x - 1 : s[y] \in Entries(s)
    BY <1>1 DEF Entries
  <2>2. /\ a \in Seq(Entries(s)) /\ Len(a) = (IF 1 <= x - 1 THEN x - 1 - 1 + 1 ELSE 0)
        /\ \A y \in 1 .. x - 1 - 1 + 1 : a[y] = s[1 + y - 1]
    BY <1>1, <2>1, SubSeqProperties
  <2> QED BY <1>1, <2>2
<1>3. /\ b \in Seq(Entries(s)) /\ Len(b) = Len(s) - x
      /\ \A y \in 1 .. Len(s) - x : b[y] = s[y + x]
  <2>1. \A y \in x + 1 .. Len(s) : s[y] \in Entries(s)
    BY <1>1 DEF Entries
  <2>2. /\ b \in Seq(Entries(s))
        /\ Len(b) = (IF x + 1 <= Len(s) THEN Len(s) - (x + 1) + 1 ELSE 0)
        /\ \A y \in 1 .. Len(s) - (x + 1) + 1 : b[y] = s[x + 1 + y - 1]
    BY <1>1, <2>1, SubSeqProperties
  <2> QED BY <1>1, <2>2
<1> HIDE DEF a, b
<1>4. IsSequence(a) /\ IsSequence(b) /\ RemoveAt(s, x) = a \o b
  BY <1>2, <1>3, SequenceOfEntries DEF RemoveAt, a, b
<1>5. DOMAIN a = 1 .. x - 1 /\ DOMAIN b = 1 .. Len(s) - x
  BY <1>2, <1>3, LenProperties
<1>6. Entries(a) \subseteq Entries(s) /\ Entries(b) \subseteq Entries(s)
  BY <1>1, <1>2, <1>3, <1>5 DEF Entries
<1>7. ASSUME NEW y \in DOMAIN s, y # x PROVE s[y] \in Entries(a) \union Entries(b)
  <2>1. CASE y < x
    <3>1. y \in DOMAIN a /\ a[y] = s[y]
      BY <1>1, <1>2, <1>5, <2>1
    <3> QED BY <3>1 DEF Entries
  <2>2. CASE y > x
    <3>1. y - x \in DOMAIN b /\ y - x + x = y
      BY <1>1, <1>5, <2>2
    <3>2. b[y - x] = s[y]
      BY <1>3, <1>5, <3>1
    <3> QED BY <3>1, <3>2 DEF Entries
  <2> QED BY <1>1, <1>7, <2>1, <2>2
<1>8. /\ IsSequence(RemoveAt(s, x))
      /\ Entries(RemoveAt(s, x)) = Entries(a) \union Entries(b)
  BY <1>4, JoinEntries
<1>9. \A e \in Entries(s) : \E y \in DOMAIN s : e = s[y]
  BY DEF Entries
<1>10. s[x] \in Entries(s)
  BY DEF Entries
<1> QED BY <1>6, <1>7, <1>8, <1>9, <1>10

LEMMA LeastNumber ==
    ASSUME NEW S, S \subseteq Nat, S # {}
    PROVE  \E x \in S : \A y \in S : x <= y
<1>1. PICK x \in S : \A y \in S : ~(<<y, x>> \in OpToRel(<, Nat))
  BY NatLessThanWellFounded, WFMin, Zenon
<1>2. \A y \in S : ~(y < x)
  BY <1>1, Zenon DEF OpToRel
<1> QED BY <1>2

-----------------------------------------------------------------------------------
(* The inductive invariant, for networks that are Reliable                      *)

(* Sessions monitor must stop: those with an untrusted end, and where t is the  *)
(* receiver itself, those that match an attack record.                          *)
Suspicious(s, d, t) == ~({s, d} \subseteq authentic) \/ (Alarms[1] > 0 /\ t = d)

(* All questions of the sender are this flow's and go through its own agent.    *)
Alone(f) == \A g \in FlowSet : g.src = f.src => g.agent = f.src /\ g.dst = f.dst

(* The kinds of entries the event queue holds, and when they run.               *)
IsTest(e) == e.do = "test" /\ e.at = 40 /\ \E f \in FlowSet : e = TestAt(40, f)
IsStart(e) ==
    /\ e.do = "send" /\ e.msg.kind = "sstart" /\ e.at = 41
    /\ \E f \in FlowSet : e.agent = f.agent /\ e.msg.from = f.src /\ e.msg.to = f.dst
IsQuestion(e) ==
    /\ e.do = "send" /\ e.msg.kind = "data" /\ e.at \in {43, 44} /\ e.msg.origin = None
    /\ \E f \in FlowSet : e.agent = f.agent /\ e.msg.from = f.src /\ e.msg.to = f.dst
IsStop(e) == e.do = "send" /\ e.msg.kind = "sstop" /\ e.at \in Times /\ e.agent \in Agents
IsRelayStart(e) ==
    /\ e.do = "send" /\ e.msg.kind = "sstart" /\ e.at = 82
    /\ e.agent = Udpch2 /\ dst[Udpch2] # None
IsAnswer(e) ==
    /\ e.do = "send" /\ e.msg.kind = "data" /\ e.at = 83 /\ e.msg.origin \in Nodes
    /\ e.agent = Udpch2 /\ dst[Udpch2] # None
IsMonitor(e) == e.do = "monitor" /\ e.at = clock

IsEntry(e) ==
    /\ e.at >= clock
    /\ \/ IsTest(e)        \/ IsStart(e)   \/ IsQuestion(e)  \/ IsStop(e)
       \/ IsRelayStart(e)  \/ IsAnswer(e)  \/ IsMonitor(e)

AgendaInv == IsSequence(agenda) /\ \A e \in Entries(agenda) : IsEntry(e)

(* What is in flight was sent in this tenth of a second.                        *)
InStart(p) ==
    \/ clock = 41 /\ \E f \in FlowSet : /\ p.msg.from = f.src /\ p.msg.to = f.dst
                                        /\ p.to = dst[f.agent]
    \/ clock = 82 /\ p.to = dst[Udpch2]
InData(p) ==
    \/ /\ clock \in {43, 44} /\ p.msg.origin = None
       /\ \E f \in FlowSet : p.msg.from = f.src /\ p.msg.to = f.dst
    \/ clock = 83 /\ p.msg.origin \in Nodes /\ p.to = dst[Udpch2]

NetInv ==
    /\ IsSequence(net)
    /\ \A p \in Entries(net) :
          /\ p.to # None
          /\ p.msg.kind = "sstart" => InStart(p)
          /\ p.msg.kind = "data" => InData(p)

(* A session monitor must stop is open only while its stop is on its way.       *)
StopComing(f) ==
    \/ \E e \in Entries(agenda) : /\ e.do = "monitor" /\ e.at = clock
                                  /\ e.msg.from = f.src /\ e.msg.to = f.dst
    \/ \E e \in Entries(agenda) : /\ e.do = "send" /\ e.at = clock /\ e.agent = f.src
                                  /\ e.msg.kind = "sstop" /\ e.msg.from = f.src
    \/ \E p \in Entries(net) : /\ p.msg.kind = "sstop" /\ p.msg.from = f.src
                               /\ p.to = dst[f.src]

SessionInv ==
    clock < 82 =>
        /\ \A s, t : <<s, t>> \in session => clock # 40 /\ \E f \in FlowSet : f.src = s
        /\ \A f \in FlowSet, t \in {p[2] : p \in session} :
              <<f.src, t>> \in session /\ Alone(f) /\ Suspicious(f.src, f.dst, t)
                => /\ clock = 41
                   /\ dst[f.src] # None /\ t = node[dst[f.src]]
                   /\ StopComing(f)

(* What a head without an agent of its own relays has been announced, and       *)
(* monitor has seen nothing suspicious in it.                                   *)
RelayPending(h, d) ==
    \/ \E e \in Entries(agenda) : /\ e.do = "send" /\ e.msg.kind = "data"
                                  /\ e.msg.origin # None /\ e.msg.from = h /\ e.msg.to = d
    \/ \E p \in Entries(net) : /\ p.msg.kind = "data" /\ p.msg.origin # None
                               /\ p.msg.from = h /\ p.msg.to = d

Announced(h, d) ==
    \/ \E e \in Entries(agenda) : /\ e.do = "send" /\ e.at = 82 /\ e.agent = Udpch2
                                  /\ e.msg.kind = "sstart" /\ e.msg.from = h /\ e.msg.to = d
    \/ /\ clock >= 82
       /\ \E p \in Entries(net) : /\ p.msg.kind = "sstart" /\ p.msg.from = h /\ p.msg.to = d
    \/ /\ clock >= 82 /\ <<h, node[dst[Udpch2]]>> \in session
       /\ \E e \in Entries(agenda) : /\ e.do = "monitor"
                                     /\ e.msg.from = h /\ e.msg.to = d
    \/ clock >= 82 /\ ~Suspicious(h, d, node[dst[Udpch2]])

RelayInv ==
    \A h, d : h \notin UdpNodes /\ RelayPending(h, d) => Announced(h, d)

ReceivedInv ==
    \A a \in received :
       /\ a.final => a.at = a.to
       /\ Stoppable(a) => ~Suspicious(a.from, a.to, a.at)

PromptInv ==
    /\ clock \in Times
    /\ DOMAIN node = Agents /\ DOMAIN dst = Agents
    /\ AgendaInv /\ NetInv /\ SessionInv /\ RelayInv /\ ReceivedInv

-----------------------------------------------------------------------------------
(* Facts the steps share                                                        *)

LEMMA Numbers ==
    /\ NN \in Nat /\ NN > 15
    /\ UdpNodes \subseteq Nat /\ UdpNodes \subseteq Agents /\ Udpch \in Agents /\ Udpch2 \in Agents
    /\ Udpch \notin UdpNodes /\ Udpch2 \notin UdpNodes /\ Udpch # Udpch2
    /\ None \notin Agents /\ None \notin Nodes /\ Times \subseteq Nat
BY NNAssumption, SessionAssumption
   DEF UdpNodes, Agents, Udpch, Udpch2, None, Nodes, Times

LEMMA Fields ==
    ASSUME NEW t, NEW a, NEW m, NEW from, NEW to, NEW word, NEW key, NEW text, NEW origin
    PROVE  /\ SendAt(t, a, m).at = t /\ SendAt(t, a, m).do = "send"
           /\ SendAt(t, a, m).agent = a /\ SendAt(t, a, m).msg = m
           /\ MonitorAt(t, from, to).at = t /\ MonitorAt(t, from, to).do = "monitor"
           /\ MonitorAt(t, from, to).msg.from = from /\ MonitorAt(t, from, to).msg.to = to
           /\ Control(word, from, to).kind = word /\ Control(word, from, to).from = from
           /\ Control(word, from, to).to = to /\ Control(word, from, to).origin = None
           /\ Cipher(from, to, key, text, origin).kind = "data"
           /\ Cipher(from, to, key, text, origin).from = from
           /\ Cipher(from, to, key, text, origin).to = to
           /\ Cipher(from, to, key, text, origin).origin = origin
BY DEF SendAt, MonitorAt, Control, Cipher

LEMMA SetupFacts ==
    ASSUME setup \in Setups
    PROVE  /\ IsSequence(Flows)
           /\ \A f \in FlowSet : f.src \in Nodes /\ f.dst \in Nodes /\ f.agent \in UdpNodes
           /\ Alarms[0] \in Nat /\ Alarms[1] \in Nat
<1>1. /\ Flows \in Seq([src : Nodes, dst : Nodes, agent : UdpNodes])
      /\ Alarms \in [{0, 1} -> Nat]
  BY SessionAssumption DEF Flows, Alarms
<1>2. \A x \in DOMAIN Flows : Flows[x] \in [src : Nodes, dst : Nodes, agent : UdpNodes]
  BY <1>1, LenProperties, ElementOfSeq
<1> QED BY <1>1, <1>2, SequenceOfEntries DEF FlowSet

(* What the simulation does not change.                                         *)
LEMMA Frame ==
    ASSUME UNCHANGED <<setup, ch, share, authentic>>
    PROVE  /\ FlowSet' = FlowSet /\ Alarms' = Alarms /\ Reliable' = Reliable
           /\ \A f : Alone(f)' <=> Alone(f)
           /\ \A s, d, t : Suspicious(s, d, t)' <=> Suspicious(s, d, t)
           /\ \A a : Stoppable(a)' <=> Stoppable(a)
<1>1. FlowSet' = FlowSet
  BY DEF FlowSet, Flows
<1>2. Alarms' = Alarms /\ Reliable' = Reliable
  BY DEF Alarms, Reliable
<1>3. ASSUME NEW f PROVE Alone(f)' <=> Alone(f)
  BY <1>1 DEF Alone
<1>4. ASSUME NEW s, NEW d, NEW t PROVE Suspicious(s, d, t)' <=> Suspicious(s, d, t)
  BY <1>2 DEF Suspicious
<1>5. ASSUME NEW a PROVE Stoppable(a)' <=> Stoppable(a)
  BY <1>1 DEF Stoppable
<1> QED BY <1>1, <1>2, <1>3, <1>4, <1>5

LEMMA Entering ==
    ASSUME PromptInv
    PROVE  \A e \in Entries(agenda) : e.at \in Times /\ e.at >= clock
BY Numbers DEF PromptInv, AgendaInv, IsEntry, IsTest, IsStart, IsQuestion, IsStop, IsRelayStart, IsAnswer,
   IsMonitor, Times, TestAt

LEMMA NextEvent ==
    ASSUME PromptInv, Due # {}
    PROVE  /\ NextDue \in DOMAIN agenda
           /\ agenda[NextDue] \in Entries(agenda)
           /\ agenda[NextDue].at = clock
<1>1. DOMAIN agenda \subseteq Nat
  BY LenProperties DEF PromptInv, AgendaInv, IsSequence
<1>2. Due \subseteq Nat
  BY <1>1 DEF Due
<1>3. \E x \in Due : \A y \in Due : x <= y
  BY <1>2, LeastNumber
<1>4. NextDue \in Due
  BY <1>3 DEF NextDue
<1>5. agenda[NextDue] \in Entries(agenda) /\ agenda[NextDue].at <= clock
  BY <1>4 DEF Due, Entries
<1>6. clock \in Nat
  BY Numbers DEF PromptInv
<1>7. agenda[NextDue].at \in Nat /\ agenda[NextDue].at >= clock
  BY <1>5, Entering, Numbers
<1> HIDE DEF NextDue
<1> QED BY <1>4, <1>5, <1>6, <1>7 DEF Due

LEMMA NothingDue ==
    ASSUME PromptInv, Due = {}
    PROVE  \A e \in Entries(agenda) : e.at > clock
<1>1. ASSUME NEW x \in DOMAIN agenda PROVE agenda[x].at > clock
  <2>1. agenda[x].at \in Nat /\ clock \in Nat
    BY Entering, Numbers DEF Entries, PromptInv
  <2>2. ~(agenda[x].at <= clock)
    BY DEF Due
  <2> QED BY <2>1, <2>2
<1> QED BY <1>1 DEF Entries

(* The agenda after an event has run and has scheduled others.                  *)
LEMMA NextAgenda ==
    ASSUME PromptInv, Due # {}, NEW t, IsSequence(t),
           agenda' = RemoveAt(agenda, NextDue) \o t
    PROVE  /\ IsSequence(agenda')
           /\ Entries(agenda') \subseteq Entries(agenda) \union Entries(t)
           /\ Entries(t) \subseteq Entries(agenda')
           /\ \A e \in Entries(agenda) : e = agenda[NextDue] \/ e \in Entries(agenda')
BY NextEvent, RemoveEntry, JoinEntries DEF PromptInv, AgendaInv

LEMMA TwoEntries ==
    ASSUME NEW a, NEW b
    PROVE  IsSequence(<<a, b>>) /\ Entries(<<a, b>>) = {a, b}
<1>1. <<a, b>> \in Seq({a, b})
  OBVIOUS
<1>2. DOMAIN <<a, b>> = {1, 2} /\ <<a, b>>[1] = a /\ <<a, b>>[2] = b
  OBVIOUS
<1> QED BY <1>1, <1>2, SequenceOfEntries DEF Entries

LEMMA TestEventsAre ==
    ASSUME NEW e, NEW key, NEW time
    PROVE  /\ IsSequence(TestEvents(e, key, time))
           /\ Entries(TestEvents(e, key, time)) \subseteq
                {SendAt(41, e.agent, Control("sstart", e.msg.from, e.msg.to)),
                 SendAt(time, e.agent, Cipher(e.msg.from, e.msg.to, key, "question", None)),
                 SendAt(time + 1, e.agent, Control("sstop", e.msg.from, e.msg.to))}
<1> DEFINE a == SendAt(41, e.agent, Control("sstart", e.msg.from, e.msg.to))
           b == SendAt(time, e.agent, Cipher(e.msg.from, e.msg.to, key, "question", None))
           c == SendAt(time + 1, e.agent, Control("sstop", e.msg.from, e.msg.to))
<1>1. TestEvents(e, key, time) = <<a>> \o (IF key = NoKey THEN << >> ELSE <<b, c>>)
  BY DEF TestEvents
<1> HIDE DEF a, b, c
<1> QED BY <1>1, JoinEntries, OneEntry, TwoEntries, NoEntry DEF a, b, c

LEMMA RelayEventsAre ==
    ASSUME NEW m, NEW tes, NEW key, NEW res
    PROVE  /\ IsSequence(RelayEvents(m, tes, key, res))
           /\ SendAt(82, Udpch2, Control("sstart", tes, m.to))
                \in Entries(RelayEvents(m, tes, key, res))
           /\ Entries(RelayEvents(m, tes, key, res)) \subseteq
                {SendAt(82, Udpch2, Control("sstart", tes, m.to)),
                 SendAt(83, Udpch2, Cipher(tes, m.to, key, res, m.from)),
                 SendAt(85, Udpch2, Control("sstop", tes, m.to))}
<1> DEFINE a == SendAt(82, Udpch2, Control("sstart", tes, m.to))
           b == SendAt(83, Udpch2, Cipher(tes, m.to, key, res, m.from))
           c == SendAt(85, Udpch2, Control("sstop", tes, m.to))
           mid == IF key = NoKey THEN << >> ELSE <<b>>
<1>1. RelayEvents(m, tes, key, res) = <<a>> \o mid \o <<c>>
  BY DEF RelayEvents
<1>2. IsSequence(mid) /\ Entries(mid) \subseteq {b}
  BY OneEntry, NoEntry
<1> HIDE DEF a, b, c, mid
<1>3. IsSequence(<<a>> \o mid) /\ Entries(<<a>> \o mid) = {a} \union Entries(mid)
  BY <1>2, JoinEntries, OneEntry
<1>4. /\ IsSequence(<<a>> \o mid \o <<c>>)
      /\ Entries(<<a>> \o mid \o <<c>>) = {a} \union Entries(mid) \union {c}
  BY <1>3, JoinEntries, OneEntry
<1> QED BY <1>1, <1>2, <1>4 DEF a, b, c

LEMMA CopiesAre ==
    ASSUME NEW n \in Nat, NEW e
    PROVE  /\ IsSequence([x \in 1 .. n |-> e])
           /\ Entries([x \in 1 .. n |-> e]) \subseteq {e}
           /\ n > 0 => e \in Entries([x \in 1 .. n |-> e])
<1>1. [x \in 1 .. n |-> e] \in [1 .. n -> {e}]
  OBVIOUS
<1>2. [x \in 1 .. n |-> e] \in Seq({e})
  BY <1>1, SeqDef
<1>3. n > 0 => 1 \in 1 .. n
  OBVIOUS
<1> QED BY <1>2, <1>3, SequenceOfEntries DEF Entries

-----------------------------------------------------------------------------------
(* Every step keeps the invariant                                               *)

(* An entry of the agenda stays what it is while no time passes and udpch2 is   *)
(* connected.                                                                   *)
LEMMA EntryStays ==
    ASSUME UNCHANGED <<setup, ch, share, authentic, clock>>,
           dst[Udpch2] # None => dst'[Udpch2] # None
    PROVE  \A x : IsEntry(x) => IsEntry(x)'
BY Frame DEF IsEntry, IsTest, IsStart, IsQuestion, IsStop, IsRelayStart, IsAnswer, IsMonitor

LEMMA ErrorKeeps ==
    ASSUME PromptInv,
           UNCHANGED <<setup, ch, share, authentic, clock, agenda, net, node, dst, session,
                       received>>
    PROVE  PromptInv'
<1>1. AgendaInv'
  BY Frame DEF PromptInv, AgendaInv, IsEntry, IsTest, IsStart, IsQuestion, IsStop, IsRelayStart, IsAnswer,
     IsMonitor
<1>2. NetInv'
  BY Frame DEF PromptInv, NetInv, InStart, InData
<1>3. SessionInv'
  BY Frame DEF PromptInv, SessionInv, StopComing
<1>4. RelayInv'
  BY Frame DEF PromptInv, RelayInv, RelayPending, Announced
<1>5. ReceivedInv'
  BY Frame DEF PromptInv, ReceivedInv
<1> QED BY <1>1, <1>2, <1>3, <1>4, <1>5 DEF PromptInv

LEMMA TestKeeps ==
    ASSUME setup \in Setups, PromptInv, Due # {},
           UNCHANGED <<setup, ch, share, authentic, clock>>,
           NEW e, e = agenda[NextDue], e.do = "test",
           TestDirect(e) \/ TestViaHead(e)
    PROVE  PromptInv'
<1>1. e \in Entries(agenda) /\ e.at = clock
  BY NextEvent
<1>2. clock = 40 /\ \E f \in FlowSet : e = TestAt(40, f)
  BY <1>1 DEF PromptInv, AgendaInv, IsEntry, IsTest, IsStart, IsQuestion, IsStop, IsRelayStart, IsAnswer,
     IsMonitor
<1>3. PICK f \in FlowSet : e = TestAt(40, f)
  BY <1>2
<1>4. /\ e.agent = f.agent /\ e.msg.from = f.src /\ e.msg.to = f.dst
      /\ f.agent \in UdpNodes
  <2>1. e = [at |-> 40, do |-> "test", agent |-> f.agent, msg |-> Control("sstart", f.src, f.dst)]
    BY <1>3 DEF TestAt
  <2>2. e.agent = f.agent /\ e.msg = Control("sstart", f.src, f.dst)
    BY <2>1
  <2> QED BY <2>2, Fields, SetupFacts
<1>5. UNCHANGED <<net, session, received>>
  BY DEF TestDirect, TestViaHead, Abort
<1>6. \/ UNCHANGED <<agenda, node, dst>>
      \/ /\ \E key, time : /\ time \in {43, 44}
                           /\ agenda' = RemoveAt(agenda, NextDue) \o TestEvents(e, key, time)
         /\ DOMAIN node' = Agents /\ DOMAIN dst' = Agents /\ dst'[Udpch2] = dst[Udpch2]
  <2>1. CASE TestDirect(e)
    BY <2>1 DEF TestDirect, PromptInv
  <2>2. CASE TestViaHead(e)
    <3>1. CASE e.msg.from \notin UdpNodes
      BY <2>2, <3>1 DEF TestViaHead, Abort
    <3>2. CASE e.msg.from \in UdpNodes
      <4>1. /\ node' = [node EXCEPT ![Udpch] = HeadFor(e.msg.to)]
            /\ dst' = Connected(e.msg.from, Udpch, dst)
            /\ \E key : agenda' = RemoveAt(agenda, NextDue) \o TestEvents(e, key, 43)
        BY <2>2, <3>2 DEF TestViaHead
      <4>2. DOMAIN node' = Agents /\ DOMAIN dst' = Agents /\ dst'[Udpch2] = dst[Udpch2]
        BY <3>2, <4>1, Numbers DEF Connected, PromptInv
      <4> QED BY <4>1, <4>2
    <3> QED BY <3>1, <3>2
  <2> QED BY <2>1, <2>2
<1>7. CASE UNCHANGED <<agenda, node, dst>>
  BY <1>5, <1>7, ErrorKeeps
<1>8. CASE /\ \E key, time : /\ time \in {43, 44}
                             /\ agenda' = RemoveAt(agenda, NextDue) \o TestEvents(e, key, time)
           /\ DOMAIN node' = Agents /\ DOMAIN dst' = Agents /\ dst'[Udpch2] = dst[Udpch2]
  <2>1. PICK key, time : /\ time \in {43, 44}
                         /\ agenda' = RemoveAt(agenda, NextDue) \o TestEvents(e, key, time)
    BY <1>8
  <2>2. /\ IsSequence(agenda')
        /\ Entries(agenda') \subseteq
             Entries(agenda) \union
               {SendAt(41, f.agent, Control("sstart", f.src, f.dst)),
                SendAt(time, f.agent, Cipher(f.src, f.dst, key, "question", None)),
                SendAt(time + 1, f.agent, Control("sstop", f.src, f.dst))}
        /\ \A x \in Entries(agenda) : x.do # "test" => x \in Entries(agenda')
    <3>1. /\ IsSequence(TestEvents(e, key, time))
          /\ Entries(TestEvents(e, key, time)) \subseteq
               {SendAt(41, f.agent, Control("sstart", f.src, f.dst)),
                SendAt(time, f.agent, Cipher(f.src, f.dst, key, "question", None)),
                SendAt(time + 1, f.agent, Control("sstop", f.src, f.dst))}
      BY <1>4, TestEventsAre
    <3> QED BY <2>1, <3>1, NextAgenda
  <2>3. AgendaInv'
    <3>1. ASSUME NEW x \in Entries(agenda) PROVE IsEntry(x)'
      BY <1>8, EntryStays DEF PromptInv, AgendaInv
    <3>2. ASSUME NEW x, x = SendAt(41, f.agent, Control("sstart", f.src, f.dst))
          PROVE  IsEntry(x)'
      <4>1. /\ x.at = 41 /\ x.do = "send" /\ x.agent = f.agent /\ x.msg.kind = "sstart"
            /\ x.msg.from = f.src /\ x.msg.to = f.dst
        BY <3>2, Fields
      <4>2. x' = x /\ FlowSet' = FlowSet /\ f \in FlowSet
        BY Frame
      <4> HIDE <3>2
      <4>3. \E g \in FlowSet' : x.agent = g.agent /\ x.msg.from = g.src /\ x.msg.to = g.dst
        BY <4>1, <4>2
      <4> QED BY <1>2, <4>1, <4>3 DEF IsEntry, IsStart
    <3>3. ASSUME NEW x, x = SendAt(time, f.agent, Cipher(f.src, f.dst, key, "question", None))
          PROVE  IsEntry(x)'
      BY <1>2, <2>1, <3>3, Frame DEF SendAt, Cipher, IsEntry, IsQuestion
    <3>4. ASSUME NEW x, x = SendAt(time + 1, f.agent, Control("sstop", f.src, f.dst))
          PROVE  IsEntry(x)'
      <4>1. x.at = time + 1 /\ x.do = "send" /\ x.agent = f.agent /\ x.msg.kind = "sstop"
        BY <3>4, Fields
      <4>2. time + 1 \in Times /\ time + 1 >= 40
        BY <2>1 DEF Times
      <4>3. f.agent \in Agents
        BY <1>4, Numbers
      <4> QED BY <1>2, <4>1, <4>2, <4>3 DEF IsEntry, IsStop
    <3> QED BY <2>2, <3>1, <3>2, <3>3, <3>4 DEF AgendaInv
  <2>4. NetInv'
    BY <1>2, <1>5, Frame DEF PromptInv, NetInv, InStart, InData
  <2>5. SessionInv'
    BY <1>2, <1>5 DEF PromptInv, SessionInv
  <2>6. RelayInv'
    <3> SUFFICES ASSUME NEW h, NEW d, h \notin UdpNodes, RelayPending(h, d)'
                 PROVE  Announced(h, d)'
      BY DEF RelayInv
    <3>1. RelayPending(h, d)
      <4>1. ASSUME NEW x \in Entries(agenda'), x.do = "send", x.msg.kind = "data",
                   x.msg.origin # None
            PROVE  x \in Entries(agenda)
        BY <2>2, <4>1, Fields
      <4> QED BY <1>5, <4>1 DEF RelayPending
    <3>2. \E x \in Entries(agenda) : /\ x.do = "send" /\ x.at = 82 /\ x.agent = Udpch2
                                     /\ x.msg.kind = "sstart" /\ x.msg.from = h /\ x.msg.to = d
      BY <1>2, <3>1 DEF PromptInv, RelayInv, Announced
    <3> QED BY <2>2, <3>2 DEF Announced
  <2>7. ReceivedInv'
    BY <1>5, Frame DEF PromptInv, ReceivedInv
  <2> QED BY <1>8, <2>3, <2>4, <2>5, <2>6, <2>7 DEF PromptInv
<1> QED BY <1>6, <1>7, <1>8

LEMMA SendKeeps ==
    ASSUME PromptInv, Due # {},
           UNCHANGED <<setup, ch, share, authentic, clock>>,
           NEW e, e = agenda[NextDue], e.do = "send",
           Send(e)
    PROVE  PromptInv'
<1>0. PICK packet : packet = [src |-> e.agent, to |-> dst[e.agent], msg |-> e.msg]
  OBVIOUS
<1>1. e \in Entries(agenda) /\ e.at = clock /\ IsEntry(e)
  BY NextEvent DEF PromptInv, AgendaInv
<1>2. UNCHANGED <<node, dst, session, received>>
  BY DEF Send
<1>3. /\ IsSequence(agenda')
      /\ Entries(agenda') \subseteq Entries(agenda)
      /\ \A x \in Entries(agenda) : x = e \/ x \in Entries(agenda')
  BY NextEvent, RemoveEntry DEF Send, PromptInv, AgendaInv
<1>4. /\ IsSequence(net')
      /\ \A p \in Entries(net') : p \in Entries(net) \/ (p = packet /\ dst[e.agent] # None)
      /\ Entries(net) \subseteq Entries(net')
      /\ dst[e.agent] # None => packet \in Entries(net')
  BY <1>0, AppendEntries DEF Send, PromptInv, NetInv
<1>5. packet.to = dst[e.agent] /\ packet.msg = e.msg
  BY <1>0
<1>6. AgendaInv'
  BY <1>2, <1>3, EntryStays DEF PromptInv, AgendaInv
<1>7. NetInv'
  <2>1. ASSUME NEW p \in Entries(net)
        PROVE  /\ p.to # None
               /\ p.msg.kind = "sstart" => InStart(p)'
               /\ p.msg.kind = "data" => InData(p)'
    BY <1>2, Frame DEF PromptInv, NetInv, InStart, InData
  <2>2. ASSUME packet.msg.kind = "sstart" PROVE InStart(packet)'
    <3>1. \/ e.at = 41 /\ \E f \in FlowSet : /\ e.agent = f.agent /\ e.msg.from = f.src
                                             /\ e.msg.to = f.dst
          \/ e.at = 82 /\ e.agent = Udpch2
      BY <1>1, <1>5, <2>2 DEF IsEntry, IsTest, IsStart, IsQuestion, IsStop, IsRelayStart,
         IsAnswer, IsMonitor
    <3> QED BY <1>1, <1>2, <1>5, <3>1, Frame DEF InStart
  <2>3. ASSUME packet.msg.kind = "data" PROVE InData(packet)'
    <3>1. \/ /\ e.at \in {43, 44} /\ e.msg.origin = None
             /\ \E f \in FlowSet : e.msg.from = f.src /\ e.msg.to = f.dst
          \/ e.at = 83 /\ e.msg.origin \in Nodes /\ e.agent = Udpch2
      BY <1>1, <1>5, <2>3 DEF IsEntry, IsTest, IsStart, IsQuestion, IsStop, IsRelayStart,
         IsAnswer, IsMonitor
    <3> QED BY <1>1, <1>2, <1>5, <3>1, Frame DEF InData
  <2> QED BY <1>4, <1>5, <2>1, <2>2, <2>3 DEF NetInv
<1>8. SessionInv'
  <2>1. ASSUME NEW f, dst[f.src] # None, StopComing(f) PROVE StopComing(f)'
    <3>1. CASE \E x \in Entries(agenda) : /\ x.do = "monitor" /\ x.at = clock
                                          /\ x.msg.from = f.src /\ x.msg.to = f.dst
      BY <1>3, <3>1 DEF StopComing
    <3>2. CASE \E x \in Entries(agenda) : /\ x.do = "send" /\ x.at = clock /\ x.agent = f.src
                                          /\ x.msg.kind = "sstop" /\ x.msg.from = f.src
      <4>1. PICK x \in Entries(agenda) : /\ x.do = "send" /\ x.at = clock /\ x.agent = f.src
                                         /\ x.msg.kind = "sstop" /\ x.msg.from = f.src
        BY <3>2
      <4>2. CASE x = e
        BY <1>2, <1>4, <1>5, <2>1, <4>1, <4>2 DEF StopComing
      <4>3. CASE x \in Entries(agenda')
        BY <4>1, <4>3 DEF StopComing
      <4> QED BY <1>3, <4>2, <4>3
    <3>3. CASE \E p \in Entries(net) : /\ p.msg.kind = "sstop" /\ p.msg.from = f.src
                                       /\ p.to = dst[f.src]
      BY <1>2, <1>4, <3>3 DEF StopComing
    <3> QED BY <2>1, <3>1, <3>2, <3>3 DEF StopComing
  <2> QED BY <1>2, <2>1, Frame DEF PromptInv, SessionInv
<1>9. RelayInv'
  <2> SUFFICES ASSUME NEW h, NEW d, h \notin UdpNodes, RelayPending(h, d)'
               PROVE  Announced(h, d)'
    BY DEF RelayInv
  <2>1. RelayPending(h, d)
    BY <1>1, <1>3, <1>4, <1>5 DEF RelayPending
  <2>2. Announced(h, d)
    BY <2>1 DEF PromptInv, RelayInv
  <2>3. CASE \E x \in Entries(agenda) : /\ x.do = "send" /\ x.at = 82 /\ x.agent = Udpch2
                                        /\ x.msg.kind = "sstart" /\ x.msg.from = h
                                        /\ x.msg.to = d
    <3>1. PICK x \in Entries(agenda) : /\ x.do = "send" /\ x.at = 82 /\ x.agent = Udpch2
                                       /\ x.msg.kind = "sstart" /\ x.msg.from = h /\ x.msg.to = d
      BY <2>3
    <3>2. CASE x = e
      <4>1. dst[Udpch2] # None
        BY <1>1, <3>1, <3>2 DEF IsEntry, IsTest, IsStart, IsQuestion, IsStop, IsRelayStart,
           IsAnswer, IsMonitor
      <4>2. packet \in Entries(net') /\ clock = 82
        BY <1>1, <1>4, <3>1, <3>2, <4>1
      <4> QED BY <1>5, <3>1, <3>2, <4>2 DEF Announced
    <3>3. CASE x \in Entries(agenda')
      BY <3>1, <3>3 DEF Announced
    <3> QED BY <1>3, <3>2, <3>3
  <2>4. CASE /\ clock >= 82
             /\ \E p \in Entries(net) : /\ p.msg.kind = "sstart" /\ p.msg.from = h
                                        /\ p.msg.to = d
    BY <1>4, <2>4 DEF Announced
  <2>5. CASE /\ clock >= 82 /\ <<h, node[dst[Udpch2]]>> \in session
             /\ \E x \in Entries(agenda) : /\ x.do = "monitor"
                                           /\ x.msg.from = h /\ x.msg.to = d
    BY <1>2, <1>3, <2>5 DEF Announced
  <2>6. CASE clock >= 82 /\ ~Suspicious(h, d, node[dst[Udpch2]])
    BY <1>2, <2>6, Frame DEF Announced
  <2> QED BY <2>2, <2>3, <2>4, <2>5, <2>6 DEF Announced
<1>10. ReceivedInv'
  BY <1>2, Frame DEF PromptInv, ReceivedInv
<1> QED BY <1>2, <1>6, <1>7, <1>8, <1>9, <1>10 DEF PromptInv

LEMMA MonitorKeeps ==
    ASSUME setup \in Setups, PromptInv, Due # {},
           UNCHANGED <<setup, ch, share, authentic, clock>>,
           NEW e, e = agenda[NextDue], e.do = "monitor",
           Monitor(e)
    PROVE  PromptInv'
<1>1. e \in Entries(agenda) /\ e.at = clock
  BY NextEvent
<1>2. UNCHANGED <<net, node, dst, session, received>>
  BY DEF Monitor, Abort
<1>3. CASE UNCHANGED agenda
  BY <1>2, <1>3, ErrorKeeps
<1> DEFINE stop == SendAt(clock, e.msg.from, Control("sstop", e.msg.from, e.msg.to))
<1>4. ASSUME NEW near, ~(Stops(e, near) > 0 /\ e.msg.from \notin UdpNodes),
             agenda' = RemoveAt(agenda, NextDue) \o [x \in 1 .. Stops(e, near) |-> stop]
      PROVE  PromptInv'
  <2> DEFINE copies == [x \in 1 .. Stops(e, near) |-> stop]
  <2>1. Stops(e, near) \in Nat
    BY SetupFacts DEF Stops
  <2>2. /\ IsSequence(copies) /\ Entries(copies) \subseteq {stop}
        /\ Stops(e, near) > 0 => stop \in Entries(copies)
    <3> HIDE DEF stop
    <3> QED BY <2>1, CopiesAre
  <2>3. agenda' = RemoveAt(agenda, NextDue) \o copies
    BY <1>4
  <2> HIDE DEF copies
  <2>4. /\ IsSequence(agenda')
        /\ Entries(agenda') \subseteq Entries(agenda) \union Entries(copies)
        /\ Entries(copies) \subseteq Entries(agenda')
        /\ \A x \in Entries(agenda) : x = e \/ x \in Entries(agenda')
    BY <2>2, <2>3, NextAgenda
  <2>5. /\ stop.at = clock /\ stop.do = "send" /\ stop.agent = e.msg.from
        /\ stop.msg.kind = "sstop" /\ stop.msg.from = e.msg.from
    BY Fields
  <2> HIDE DEF stop
  <2>6. AgendaInv'
    <3>1. ASSUME NEW x \in Entries(agenda) PROVE IsEntry(x)'
      BY <1>2, EntryStays DEF PromptInv, AgendaInv
    <3>2. ASSUME NEW x \in Entries(copies) PROVE IsEntry(x)'
      <4>1. Stops(e, near) > 0
        <5>1. CASE Stops(e, near) = 0
          BY <5>1, <3>2 DEF copies, Entries
        <5> QED BY <2>1, <5>1
      <4>2. e.msg.from \in Agents
        BY <1>4, <4>1, Numbers
      <4>3. x = stop /\ clock \in Times /\ clock \in Nat
        BY <2>2, <3>2, Numbers DEF PromptInv
      <4>4. stop.at >= clock
        BY <2>5, <4>3
      <4> QED BY <2>5, <4>2, <4>3, <4>4 DEF IsEntry, IsStop
    <3> QED BY <2>4, <3>1, <3>2 DEF AgendaInv
  <2>7. NetInv'
    BY <1>2, Frame DEF PromptInv, NetInv, InStart, InData
  <2>8. SessionInv'
    <3>1. ASSUME NEW f, NEW t, <<f.src, t>> \in session, Suspicious(f.src, f.dst, t),
                 StopComing(f)
          PROVE  StopComing(f)'
      <4>1. CASE \E x \in Entries(agenda) : /\ x.do = "monitor" /\ x.at = clock
                                            /\ x.msg.from = f.src /\ x.msg.to = f.dst
        <5>1. PICK x \in Entries(agenda) : /\ x.do = "monitor" /\ x.at = clock
                                           /\ x.msg.from = f.src /\ x.msg.to = f.dst
          BY <4>1
        <5>2. CASE x = e
          <6>1. Stops(e, near) > 0
            BY <3>1, <5>1, <5>2, SetupFacts DEF Stops, Suspicious
          <6> QED BY <2>2, <2>4, <2>5, <5>1, <5>2, <6>1 DEF StopComing
        <5>3. CASE x \in Entries(agenda')
          BY <5>1, <5>3 DEF StopComing
        <5> QED BY <2>4, <5>2, <5>3
      <4>2. CASE \E x \in Entries(agenda) : /\ x.do = "send" /\ x.at = clock /\ x.agent = f.src
                                            /\ x.msg.kind = "sstop" /\ x.msg.from = f.src
        BY <2>4, <4>2 DEF StopComing
      <4>3. CASE \E p \in Entries(net) : /\ p.msg.kind = "sstop" /\ p.msg.from = f.src
                                         /\ p.to = dst[f.src]
        BY <1>2, <4>3 DEF StopComing
      <4> QED BY <3>1, <4>1, <4>2, <4>3 DEF StopComing
    <3> QED BY <1>2, <3>1, Frame DEF PromptInv, SessionInv
  <2>9. RelayInv'
    <3> SUFFICES ASSUME NEW h, NEW d, h \notin UdpNodes, RelayPending(h, d)'
                 PROVE  Announced(h, d)'
      BY DEF RelayInv
    <3>1. RelayPending(h, d)
      BY <1>2, <2>2, <2>4, <2>5 DEF RelayPending
    <3>2. Announced(h, d)
      BY <3>1 DEF PromptInv, RelayInv
    <3>3. CASE \E x \in Entries(agenda) : /\ x.do = "send" /\ x.at = 82 /\ x.agent = Udpch2
                                          /\ x.msg.kind = "sstart" /\ x.msg.from = h
                                          /\ x.msg.to = d
      BY <2>4, <3>3 DEF Announced
    <3>4. CASE /\ clock >= 82
               /\ \E p \in Entries(net) : /\ p.msg.kind = "sstart" /\ p.msg.from = h
                                          /\ p.msg.to = d
      BY <1>2, <3>4 DEF Announced
    <3>5. CASE /\ clock >= 82 /\ <<h, node[dst[Udpch2]]>> \in session
               /\ \E x \in Entries(agenda) : /\ x.do = "monitor"
                                             /\ x.msg.from = h /\ x.msg.to = d
      <4>1. PICK x \in Entries(agenda) : x.do = "monitor" /\ x.msg.from = h /\ x.msg.to = d
        BY <3>5
      <4>2. CASE x = e
        <5>1. ~(Stops(e, near) > 0)
          BY <1>4, <4>1, <4>2
        <5>2. ~Suspicious(h, d, node[dst[Udpch2]])
          BY <3>5, <4>1, <4>2, <5>1 DEF Stops, Suspicious
        <5> QED BY <1>2, <3>5, <5>2, Frame DEF Announced
      <4>3. CASE x \in Entries(agenda')
        BY <1>2, <3>5, <4>1, <4>3 DEF Announced
      <4> QED BY <2>4, <4>2, <4>3
    <3>6. CASE clock >= 82 /\ ~Suspicious(h, d, node[dst[Udpch2]])
      BY <1>2, <3>6, Frame DEF Announced
    <3> QED BY <3>2, <3>3, <3>4, <3>5, <3>6 DEF Announced
  <2>10. ReceivedInv'
    BY <1>2, Frame DEF PromptInv, ReceivedInv
  <2> QED BY <1>2, <2>6, <2>7, <2>8, <2>9, <2>10 DEF PromptInv
<1> QED BY <1>3, <1>4 DEF Monitor, Abort

(* A packet p leaves the network.                                               *)
Arrives(p) ==
    /\ p \in Entries(net)
    /\ IsSequence(net') /\ Entries(net') \subseteq Entries(net)
    /\ \A q \in Entries(net) : q = p \/ q \in Entries(net')

LEMMA OpenKeeps ==
    ASSUME PromptInv, Due = {},
           UNCHANGED <<setup, ch, share, authentic, clock>>,
           NEW p, Arrives(p), OpenSession(p.msg, node[p.to])
    PROVE  PromptInv'
<1>0. PICK entry : entry = MonitorAt(clock, p.msg.from, p.msg.to)
  OBVIOUS
<1>1. /\ p.msg.kind = "sstart" /\ session' = session \union {<<p.msg.from, node[p.to]>>}
      /\ agenda' = Append(agenda, entry)
      /\ UNCHANGED <<node, dst, received>>
  BY <1>0 DEF OpenSession
<1>2. /\ entry.do = "monitor" /\ entry.at = clock
      /\ entry.msg.from = p.msg.from /\ entry.msg.to = p.msg.to
  BY <1>0, Fields
<1>3. IsSequence(agenda') /\ Entries(agenda') = Entries(agenda) \union {entry}
  BY <1>1, AppendEntries DEF PromptInv, AgendaInv
<1>4. p \in Entries(net) /\ p.to # None /\ InStart(p)
  BY <1>1 DEF Arrives, PromptInv, NetInv
<1>5. AgendaInv'
  <2>1. \A x \in Entries(agenda) : IsEntry(x)'
    BY <1>1, EntryStays DEF PromptInv, AgendaInv
  <2>2. IsEntry(entry)'
    BY <1>2, Numbers DEF PromptInv, IsEntry, IsMonitor
  <2> QED BY <1>3, <2>1, <2>2 DEF AgendaInv
<1>6. NetInv'
  BY <1>1, Frame DEF Arrives, PromptInv, NetInv, InStart, InData
<1>7. SessionInv'
  <2>1. ASSUME NEW f, StopComing(f) PROVE StopComing(f)'
    BY <1>1, <1>3, <2>1 DEF Arrives, StopComing
  <2> SUFFICES ASSUME clock < 82 PROVE SessionInv'
    BY DEF SessionInv
  <2>2. PICK g \in FlowSet : /\ clock = 41 /\ p.msg.from = g.src /\ p.msg.to = g.dst
                             /\ p.to = dst[g.agent]
    BY <1>4 DEF InStart
  <2>3. ASSUME NEW s, NEW t, <<s, t>> \in session'
        PROVE  clock # 40 /\ \E f \in FlowSet : f.src = s
    BY <1>1, <2>2, <2>3 DEF PromptInv, SessionInv
  <2>4. ASSUME NEW f \in FlowSet, NEW t, <<f.src, t>> \in session', Alone(f),
               Suspicious(f.src, f.dst, t)
        PROVE  clock = 41 /\ dst[f.src] # None /\ t = node[dst[f.src]] /\ StopComing(f)'
    <3>1. CASE <<f.src, t>> \in session
      <4>1. t \in {q[2] : q \in session}
        BY <3>1
      <4> QED BY <2>1, <2>4, <3>1, <4>1 DEF PromptInv, SessionInv
    <3>2. CASE <<f.src, t>> = <<p.msg.from, node[p.to]>>
      <4>1. f.src = g.src /\ t = node[p.to]
        BY <2>2, <3>2
      <4>2. g.agent = f.src /\ g.dst = f.dst
        BY <2>4, <4>1 DEF Alone
      <4>3. StopComing(f)'
        BY <1>2, <1>3, <2>2, <4>1, <4>2 DEF StopComing
      <4> QED BY <1>4, <2>2, <4>1, <4>2, <4>3
    <3> QED BY <1>1, <2>4, <3>1, <3>2
  <2> QED BY <1>1, <2>3, <2>4, Frame DEF SessionInv
<1>8. RelayInv'
  <2> SUFFICES ASSUME NEW h, NEW d, h \notin UdpNodes, RelayPending(h, d)'
               PROVE  Announced(h, d)'
    BY DEF RelayInv
  <2>1. RelayPending(h, d)
    BY <1>2, <1>3 DEF RelayPending, Arrives
  <2>2. Announced(h, d)
    BY <2>1 DEF PromptInv, RelayInv
  <2>3. CASE \E x \in Entries(agenda) : /\ x.do = "send" /\ x.at = 82 /\ x.agent = Udpch2
                                        /\ x.msg.kind = "sstart" /\ x.msg.from = h
                                        /\ x.msg.to = d
    BY <1>3, <2>3 DEF Announced
  <2>4. CASE /\ clock >= 82
             /\ \E q \in Entries(net) : /\ q.msg.kind = "sstart" /\ q.msg.from = h
                                        /\ q.msg.to = d
    <3>1. PICK q \in Entries(net) : q.msg.kind = "sstart" /\ q.msg.from = h /\ q.msg.to = d
      BY <2>4
    <3>2. CASE q = p
      <4>1. p.to = dst[Udpch2]
        BY <1>4, <2>4 DEF InStart
      <4>2. <<h, node[dst[Udpch2]]>> \in session'
        BY <1>1, <3>1, <3>2, <4>1
      <4>3. entry \in Entries(agenda') /\ entry.msg.from = h /\ entry.msg.to = d
        BY <1>2, <1>3, <3>1, <3>2
      <4> QED BY <1>1, <1>2, <2>4, <4>2, <4>3 DEF Announced
    <3>3. CASE q \in Entries(net')
      BY <2>4, <3>1, <3>3 DEF Announced
    <3> QED BY <3>2, <3>3 DEF Arrives
  <2>5. CASE /\ clock >= 82 /\ <<h, node[dst[Udpch2]]>> \in session
             /\ \E x \in Entries(agenda) : /\ x.do = "monitor"
                                           /\ x.msg.from = h /\ x.msg.to = d
    BY <1>1, <1>3, <2>5 DEF Announced
  <2>6. CASE clock >= 82 /\ ~Suspicious(h, d, node[dst[Udpch2]])
    BY <1>1, <2>6, Frame DEF Announced
  <2> QED BY <2>2, <2>3, <2>4, <2>5, <2>6 DEF Announced
<1>9. ReceivedInv'
  BY <1>1, Frame DEF PromptInv, ReceivedInv
<1> QED BY <1>1, <1>5, <1>6, <1>7, <1>8, <1>9 DEF PromptInv

LEMMA CloseKeeps ==
    ASSUME PromptInv, Due = {},
           UNCHANGED <<setup, ch, share, authentic, clock>>,
           NEW p, Arrives(p), CloseSession(p.msg, node[p.to])
    PROVE  PromptInv'
<1>1. /\ p.msg.kind = "sstop" /\ session' = session \ {<<p.msg.from, node[p.to]>>}
      /\ UNCHANGED <<agenda, node, dst, received>>
  BY DEF CloseSession
<1>2. \A x \in Entries(agenda) : x.at # clock /\ x.do # "monitor"
  <2>1. \A x \in Entries(agenda) : x.at > clock /\ x.at \in Nat
    BY NothingDue, Entering, Numbers
  <2>2. clock \in Nat
    BY Numbers DEF PromptInv
  <2> QED BY <2>1, <2>2 DEF PromptInv, AgendaInv, IsEntry, IsTest, IsStart, IsQuestion, IsStop,
          IsRelayStart, IsAnswer, IsMonitor, TestAt
<1>3. AgendaInv'
  BY <1>1, EntryStays DEF PromptInv, AgendaInv
<1>4. NetInv'
  BY <1>1, Frame DEF Arrives, PromptInv, NetInv, InStart, InData
<1>5. SessionInv'
  <2>1. ASSUME NEW f, NEW t, <<f.src, t>> \in session', t = node[dst[f.src]], StopComing(f)
        PROVE  StopComing(f)'
    <3>1. PICK q \in Entries(net) : q.msg.kind = "sstop" /\ q.msg.from = f.src /\ q.to = dst[f.src]
      BY <1>2, <2>1 DEF StopComing
    <3>2. q # p
      BY <1>1, <2>1, <3>1
    <3> QED BY <1>1, <3>1, <3>2 DEF Arrives, StopComing
  <2>2. \A t : t \in {q[2] : q \in session'} => t \in {q[2] : q \in session}
    BY <1>1
  <2> SUFFICES ASSUME clock < 82 PROVE SessionInv'
    BY DEF SessionInv
  <2>3. ASSUME NEW s, NEW t, <<s, t>> \in session'
        PROVE  clock # 40 /\ \E f \in FlowSet : f.src = s
    BY <1>1, <2>3 DEF PromptInv, SessionInv
  <2>4. ASSUME NEW f \in FlowSet, NEW t \in {q[2] : q \in session'}, <<f.src, t>> \in session',
               Alone(f), Suspicious(f.src, f.dst, t)
        PROVE  clock = 41 /\ dst[f.src] # None /\ t = node[dst[f.src]] /\ StopComing(f)'
    <3>1. clock = 41 /\ dst[f.src] # None /\ t = node[dst[f.src]] /\ StopComing(f)
      BY <1>1, <2>2, <2>4 DEF PromptInv, SessionInv
    <3> QED BY <2>1, <2>4, <3>1
  <2> QED BY <1>1, <2>3, <2>4, Frame DEF SessionInv
<1>6. RelayInv'
  <2> SUFFICES ASSUME NEW h, NEW d, h \notin UdpNodes, RelayPending(h, d)'
               PROVE  Announced(h, d)'
    BY DEF RelayInv
  <2>1. RelayPending(h, d)
    BY <1>1 DEF RelayPending, Arrives
  <2>2. Announced(h, d)
    BY <2>1 DEF PromptInv, RelayInv
  <2> QED BY <1>1, <1>2, <2>2, Frame DEF Announced, Arrives
<1>7. ReceivedInv'
  BY <1>1, Frame DEF PromptInv, ReceivedInv
<1> QED BY <1>1, <1>3, <1>4, <1>5, <1>6, <1>7 DEF PromptInv

(* Data that changes nothing: unwanted, or the cause of a Tcl error.            *)
LEMMA IgnoreKeeps ==
    ASSUME PromptInv,
           UNCHANGED <<setup, ch, share, authentic, clock, agenda, node, dst, session, received>>,
           NEW p, Arrives(p), p.msg.kind = "data"
    PROVE  PromptInv'
<1>1. AgendaInv'
  BY EntryStays DEF PromptInv, AgendaInv
<1>2. NetInv'
  BY Frame DEF Arrives, PromptInv, NetInv, InStart, InData
<1>3. SessionInv'
  <2>1. ASSUME NEW f, StopComing(f) PROVE StopComing(f)'
    BY <2>1 DEF Arrives, StopComing
  <2> QED BY <2>1, Frame DEF PromptInv, SessionInv
<1>4. RelayInv'
  <2>1. ASSUME NEW h, NEW d, RelayPending(h, d)' PROVE RelayPending(h, d)
    BY <2>1 DEF Arrives, RelayPending
  <2>2. ASSUME NEW h, NEW d, Announced(h, d) PROVE Announced(h, d)'
    BY <2>2, Frame DEF Arrives, Announced
  <2> QED BY <2>1, <2>2 DEF PromptInv, RelayInv
<1>5. ReceivedInv'
  BY Frame DEF PromptInv, ReceivedInv
<1> QED BY <1>1, <1>2, <1>3, <1>4, <1>5 DEF PromptInv

(* A question read before 8.2 was not suspicious: a session that is closes      *)
(* before 4.3.                                                                  *)
LEMMA QuestionIsGood ==
    ASSUME PromptInv, NEW p \in Entries(net), p.msg.kind = "data", clock < 82, NEW tes,
           <<p.msg.from, tes>> \in session
    PROVE  /\ clock \in {43, 44} /\ p.msg.origin = None
           /\ p.msg.from \in {f.src : f \in FlowSet}
           /\ (\A f \in FlowSet : f.src = p.msg.from => f.agent = p.msg.from /\ f.dst = p.msg.to)
                => ~Suspicious(p.msg.from, p.msg.to, tes)
<1>1. PICK f \in FlowSet : /\ clock \in {43, 44} /\ p.msg.origin = None
                           /\ p.msg.from = f.src /\ p.msg.to = f.dst
  BY DEF PromptInv, NetInv, InData
<1>2. tes \in {q[2] : q \in session}
  BY DEF PromptInv
<1>3. <<f.src, tes>> \in session /\ Alone(f) => ~Suspicious(f.src, f.dst, tes)
  BY <1>1, <1>2 DEF PromptInv, SessionInv
<1> QED BY <1>1, <1>3 DEF Alone

LEMMA RelayKeeps ==
    ASSUME setup \in Setups, PromptInv,
           UNCHANGED <<setup, ch, share, authentic, clock>>,
           NEW p, Arrives(p), NEW tes, RelayData(p.msg, tes)
    PROVE  PromptInv'
<1>1. p \in Entries(net) /\ p.msg.kind = "data" /\ <<p.msg.from, tes>> \in session
  BY DEF Arrives, RelayData
<1>2. CASE p.msg.to \notin UdpNodes \/ clock >= 82
  BY <1>1, <1>2, IgnoreKeeps DEF RelayData, Abort
<1>3. CASE p.msg.to \in UdpNodes /\ ~(clock >= 82)
  <2>0. clock < 82
    BY <1>3, Numbers DEF PromptInv
  <2>1. /\ clock \in {43, 44} /\ p.msg.origin = None
        /\ p.msg.from \in {f.src : f \in FlowSet}
        /\ (\A f \in FlowSet : f.src = p.msg.from => f.agent = p.msg.from /\ f.dst = p.msg.to)
             => ~Suspicious(p.msg.from, p.msg.to, tes)
    BY <1>1, <2>0, QuestionIsGood
  <2>2. PICK key, res :
          /\ agenda' = agenda \o RelayEvents(p.msg, tes, key, res)
          /\ received' \subseteq received \union {Annotation(tes, p.msg, res, FALSE)}
    BY <1>3 DEF RelayData
  <2>3. /\ node' = [node EXCEPT ![Udpch2] = tes]
        /\ dst' = Connected(p.msg.to, Udpch2, dst)
        /\ session' = session
    BY <1>3 DEF RelayData
  <2>4. DOMAIN node' = Agents /\ DOMAIN dst' = Agents /\ dst'[Udpch2] # None
    BY <1>3, <2>3, Numbers DEF Connected, PromptInv
  <2>5. PICK first, answer, stop :
          /\ first = SendAt(82, Udpch2, Control("sstart", tes, p.msg.to))
          /\ answer = SendAt(83, Udpch2, Cipher(tes, p.msg.to, key, res, p.msg.from))
          /\ stop = SendAt(85, Udpch2, Control("sstop", tes, p.msg.to))
    OBVIOUS
  <2>6. /\ IsSequence(agenda') /\ first \in Entries(agenda')
        /\ Entries(agenda') \subseteq Entries(agenda) \union {first, answer, stop}
        /\ Entries(agenda) \subseteq Entries(agenda')
    BY <2>2, <2>5, RelayEventsAre, JoinEntries DEF PromptInv, AgendaInv
  <2>7. /\ first.do = "send" /\ first.at = 82 /\ first.agent = Udpch2
        /\ first.msg.kind = "sstart" /\ first.msg.from = tes /\ first.msg.to = p.msg.to
        /\ answer.do = "send" /\ answer.at = 83 /\ answer.agent = Udpch2
        /\ answer.msg.kind = "data" /\ answer.msg.from = tes /\ answer.msg.to = p.msg.to
        /\ answer.msg.origin = p.msg.from
        /\ stop.do = "send" /\ stop.at = 85 /\ stop.agent = Udpch2 /\ stop.msg.kind = "sstop"
    BY <2>5, Fields
  <2>8. AgendaInv'
    <3>1. \A x \in Entries(agenda) : IsEntry(x)'
      BY <2>4, EntryStays DEF PromptInv, AgendaInv
    <3>2. IsEntry(first)'
      BY <2>1, <2>4, <2>7 DEF IsEntry, IsRelayStart
    <3>3. p.msg.from \in Nodes
      BY <2>1, SetupFacts
    <3>4. IsEntry(answer)'
      BY <2>1, <2>4, <2>7, <3>3 DEF IsEntry, IsAnswer
    <3>5. IsEntry(stop)'
      BY <2>1, <2>7, Numbers DEF IsEntry, IsStop, Times
    <3> QED BY <2>6, <3>1, <3>2, <3>4, <3>5 DEF AgendaInv
  <2>9. NetInv'
    BY <2>1, Frame DEF Arrives, PromptInv, NetInv, InStart, InData
  <2>10. SessionInv'
    BY <2>1, <2>3, Frame DEF PromptInv, SessionInv
  <2>11. RelayInv'
    <3> SUFFICES ASSUME NEW h, NEW d, h \notin UdpNodes, RelayPending(h, d)'
                 PROVE  Announced(h, d)'
      BY DEF RelayInv
    <3>1. CASE h = tes /\ d = p.msg.to
      BY <2>6, <2>7, <3>1 DEF Announced
    <3>2. CASE RelayPending(h, d)
      <4>1. \E x \in Entries(agenda) : /\ x.do = "send" /\ x.at = 82 /\ x.agent = Udpch2
                                       /\ x.msg.kind = "sstart" /\ x.msg.from = h
                                       /\ x.msg.to = d
        <5>1. Announced(h, d)
          BY <3>2 DEF PromptInv, RelayInv
        <5>2. ~(clock >= 82)
          BY <1>3
        <5> QED BY <5>1, <5>2 DEF Announced
      <4> QED BY <2>6, <4>1 DEF Announced
    <3>3. RelayPending(h, d) \/ (h = tes /\ d = p.msg.to)
      BY <2>6, <2>7 DEF RelayPending, Arrives
    <3> QED BY <3>1, <3>2, <3>3
  <2>12. ReceivedInv'
    <3>1. ASSUME NEW a, a = Annotation(tes, p.msg, res, FALSE)
          PROVE  ~a.final /\ (Stoppable(a) => ~Suspicious(a.from, a.to, a.at))
      <4>1. /\ a.at = tes /\ a.from = p.msg.from /\ a.to = p.msg.to /\ a.final = FALSE
            /\ a.origin = p.msg.origin
        BY <3>1 DEF Annotation
      <4> HIDE <3>1
      <4> QED BY <2>1, <4>1 DEF Stoppable
    <3> QED BY <2>2, <3>1, Frame DEF PromptInv, ReceivedInv
  <2> QED BY <2>4, <2>8, <2>9, <2>10, <2>11, <2>12 DEF PromptInv
<1> QED BY <1>2, <1>3

LEMMA AcceptKeeps ==
    ASSUME setup \in Setups, PromptInv, Due = {},
           UNCHANGED <<setup, ch, share, authentic, clock>>,
           NEW p, Arrives(p), AcceptData(p.msg, node[p.to])
    PROVE  PromptInv'
<1> DEFINE tes == node[p.to]
<1>1. /\ p \in Entries(net) /\ p.msg.kind = "data" /\ <<p.msg.from, tes>> \in session
      /\ p.msg.to = tes
  BY DEF Arrives, AcceptData
<1>2. UNCHANGED <<agenda, node, dst, session>>
  BY DEF AcceptData, Abort
<1>3. CASE UNCHANGED received
  BY <1>1, <1>2, <1>3, IgnoreKeeps
<1>4. CASE \E text : received' = received \union {Annotation(tes, p.msg, text, TRUE)}
  <2>1. PICK text : received' = received \union {Annotation(tes, p.msg, text, TRUE)}
    BY <1>4
  <2>2. PICK a : a = Annotation(tes, p.msg, text, TRUE)
    OBVIOUS
  <2>3. /\ a.at = tes /\ a.from = p.msg.from /\ a.to = p.msg.to /\ a.origin = p.msg.origin
    BY <2>2 DEF Annotation
  <2>4. ASSUME Stoppable(a) PROVE ~Suspicious(p.msg.from, p.msg.to, tes)
    <3>1. CASE clock < 82
      <4>1. /\ p.msg.origin = None
            /\ (\A f \in FlowSet : f.src = p.msg.from => f.agent = p.msg.from /\ f.dst = p.msg.to)
                 => ~Suspicious(p.msg.from, p.msg.to, tes)
        BY <1>1, <3>1, QuestionIsGood
      <4> QED BY <2>3, <2>4, <4>1 DEF Stoppable
    <3>2. CASE ~(clock < 82)
      <4>1. clock = 83 /\ p.msg.origin \in Nodes /\ p.to = dst[Udpch2]
        BY <1>1, <3>2 DEF PromptInv, NetInv, InData
      <4>2. p.msg.from \notin UdpNodes
        BY <2>3, <2>4, <4>1, Numbers DEF Stoppable
      <4>3. RelayPending(p.msg.from, p.msg.to)
        BY <1>1, <4>1, Numbers DEF RelayPending
      <4>4. Announced(p.msg.from, p.msg.to)
        BY <4>2, <4>3 DEF PromptInv, RelayInv
      <4>5. \A x \in Entries(agenda) : x.at # 82 /\ x.do # "monitor"
        <5>1. \A x \in Entries(agenda) : x.at > 83 /\ x.at \in Nat
          BY <4>1, NothingDue, Entering, Numbers
        <5> QED BY <4>1, <5>1 DEF PromptInv, AgendaInv, IsEntry, IsTest, IsStart, IsQuestion,
                IsStop, IsRelayStart, IsAnswer, IsMonitor, TestAt
      <4>6. \A q \in Entries(net) : q.msg.kind # "sstart"
        BY <4>1 DEF PromptInv, NetInv, InStart
      <4> QED BY <4>1, <4>4, <4>5, <4>6 DEF Announced
    <3> QED BY <3>1, <3>2
  <2>5. AgendaInv'
    BY <1>2, EntryStays DEF PromptInv, AgendaInv
  <2>6. NetInv'
    BY <1>2, Frame DEF Arrives, PromptInv, NetInv, InStart, InData
  <2>7. SessionInv'
    <3>1. ASSUME NEW f, StopComing(f) PROVE StopComing(f)'
      BY <1>1, <1>2, <3>1 DEF Arrives, StopComing
    <3> QED BY <1>2, <3>1, Frame DEF PromptInv, SessionInv
  <2>8. RelayInv'
    <3>1. ASSUME NEW h, NEW d, RelayPending(h, d)' PROVE RelayPending(h, d)
      BY <1>2, <3>1 DEF Arrives, RelayPending
    <3>2. ASSUME NEW h, NEW d, Announced(h, d) PROVE Announced(h, d)'
      BY <1>1, <1>2, <3>2, Frame DEF Arrives, Announced
    <3> QED BY <3>1, <3>2 DEF PromptInv, RelayInv
  <2>9. ReceivedInv'
    BY <1>1, <2>1, <2>2, <2>3, <2>4, Frame DEF PromptInv, ReceivedInv
  <2> QED BY <1>2, <2>5, <2>6, <2>7, <2>8, <2>9 DEF PromptInv
<1> QED BY <1>3, <1>4 DEF AcceptData, Abort

LEMMA TickKeeps ==
    ASSUME PromptInv, Due = {}, clock < Finish, net = << >>, Tick
    PROVE  PromptInv'
<1>1. UNCHANGED <<setup, ch, share, authentic, agenda, net, node, dst, session, received>>
  BY DEF Tick
<1>2. clock' \in Times /\ clock' > clock /\ \A y \in Times : y > clock => clock' <= y
  <2>1. {y \in Times : y > clock} \subseteq Nat /\ 120 \in {y \in Times : y > clock}
    BY Numbers DEF Times, Finish
  <2>2. \E x \in {y \in Times : y > clock} : \A y \in {z \in Times : z > clock} : x <= y
    BY <2>1, LeastNumber
  <2>3. \E x \in Times : x > clock /\ \A y \in Times : y > clock => x <= y
    BY <2>2
  <2>4. clock' = CHOOSE x \in Times : x > clock /\ \A y \in Times : y > clock => x <= y
    BY DEF Tick
  <2> QED BY <2>3, <2>4
<1>3. clock \in Nat /\ clock' \in Nat /\ clock >= 40
  BY <1>2, Numbers DEF PromptInv, Times
<1>4. \A x \in Entries(agenda) : x.at \in Nat /\ x.at > clock /\ x.at >= clock' /\ x.do # "monitor"
  <2> SUFFICES ASSUME NEW x \in Entries(agenda)
               PROVE  x.at \in Nat /\ x.at > clock /\ x.at >= clock' /\ x.do # "monitor"
    OBVIOUS
  <2>1. x.at \in Times /\ x.at > clock /\ x.at \in Nat
    BY NothingDue, Entering, Numbers
  <2>2. x.at >= clock'
    BY <1>2, <1>3, <2>1
  <2>3. x.at # clock
    BY <1>3, <2>1
  <2>4. IsEntry(x)
    BY DEF PromptInv, AgendaInv
  <2>5. x.do # "monitor"
    BY <2>3, <2>4 DEF IsEntry, IsTest, IsStart, IsQuestion, IsStop, IsRelayStart, IsAnswer, IsMonitor
  <2> QED BY <2>1, <2>2, <2>5
<1>5. Entries(net) = {}
  BY NoEntry
<1>6. AgendaInv'
  <2>1. ASSUME NEW x \in Entries(agenda) PROVE IsEntry(x)'
    <3>1. IsEntry(x) /\ ~IsMonitor(x) /\ (x.at >= clock)'
      BY <1>4 DEF PromptInv, AgendaInv, IsMonitor
    <3> QED BY <1>1, <3>1, Frame DEF IsEntry, IsTest, IsStart, IsQuestion, IsStop, IsRelayStart,
            IsAnswer
  <2> QED BY <1>1, <2>1 DEF PromptInv, AgendaInv
<1>7. NetInv'
  BY <1>1, <1>5 DEF PromptInv, NetInv
<1>8. SessionInv'
  <2> SUFFICES ASSUME clock' < 82 PROVE SessionInv'
    BY DEF SessionInv
  <2>1. clock < 82
    BY <1>2, <1>3
  <2>2. \A f : ~StopComing(f)
    BY <1>3, <1>4, <1>5 DEF StopComing
  <2> QED BY <1>1, <1>2, <1>3, <2>1, <2>2, Frame DEF PromptInv, SessionInv
<1>9. RelayInv'
  <2>1. ASSUME NEW h, NEW d, RelayPending(h, d)' PROVE RelayPending(h, d)
    BY <1>1, <2>1 DEF RelayPending
  <2>2. ASSUME NEW h, NEW d, Announced(h, d) PROVE Announced(h, d)'
    <3>1. clock >= 82 => clock' >= 82
      BY <1>2, <1>3
    <3> QED BY <1>1, <1>4, <1>5, <2>2, <3>1, Frame DEF Announced
  <2> QED BY <2>1, <2>2 DEF PromptInv, RelayInv
<1>10. ReceivedInv'
  BY <1>1, Frame DEF PromptInv, ReceivedInv
<1> QED BY <1>1, <1>2, <1>6, <1>7, <1>8, <1>9, <1>10 DEF PromptInv

LEMMA StartsPrompt ==
    ASSUME Init
    PROVE  setup \in Setups /\ PromptInv
<1>1. setup \in Setups /\ clock = 40 /\ net = << >> /\ session = {} /\ received = {}
  BY DEF Init
<1>2. DOMAIN node = Agents /\ DOMAIN dst = Agents
  BY DEF Init, FirstNode, FirstDst
<1>3. IsSequence(agenda) /\ \A x \in Entries(agenda) : \E f \in FlowSet : x = TestAt(40, f)
  <2>1. DOMAIN Flows = 1 .. Len(Flows) /\ Len(Flows) \in Nat
    BY <1>1, SetupFacts, LenProperties DEF IsSequence
  <2>2. agenda = [x \in 1 .. Len(Flows) |-> TestAt(40, Flows[x])]
    BY <2>1 DEF Init
  <2>3. agenda \in [1 .. Len(Flows) -> {TestAt(40, f) : f \in FlowSet}]
    BY <2>1, <2>2 DEF FlowSet
  <2>4. agenda \in Seq({TestAt(40, f) : f \in FlowSet})
    BY <2>1, <2>3, SeqDef
  <2>5. \A x \in DOMAIN agenda : agenda[x] \in {TestAt(40, f) : f \in FlowSet}
    BY <2>3
  <2> QED BY <2>4, <2>5, SequenceOfEntries DEF Entries
<1>4. \A x \in Entries(agenda) : x.at = 40 /\ x.do = "test" /\ IsTest(x)
  BY <1>3 DEF IsTest, TestAt
<1>5. AgendaInv
  BY <1>1, <1>3, <1>4 DEF AgendaInv, IsEntry
<1>6. NetInv /\ Entries(net) = {}
  BY <1>1, NoEntry DEF NetInv
<1>7. SessionInv
  BY <1>1 DEF SessionInv
<1>8. RelayInv
  BY <1>4, <1>6 DEF RelayInv, RelayPending
<1>9. ReceivedInv
  BY <1>1 DEF ReceivedInv
<1> QED BY <1>1, <1>2, <1>5, <1>6, <1>7, <1>8, <1>9 DEF PromptInv, Times

LEMMA StepsKeepPrompt ==
    ASSUME setup \in Setups, Reliable, PromptInv, [Next]_vars
    PROVE  PromptInv'
<1>1. CASE RunEvent
  <2>1. PICK e : e = agenda[NextDue]
    OBVIOUS
  <2>2. /\ Due # {} /\ UNCHANGED <<setup, ch, share, authentic, clock>>
        /\ \/ e.do = "test" /\ (TestDirect(e) \/ TestViaHead(e))
           \/ e.do = "send" /\ Send(e)
           \/ e.do = "monitor" /\ Monitor(e)
    BY <1>1, <2>1 DEF RunEvent
  <2> QED BY <2>1, <2>2, TestKeeps, SendKeeps, MonitorKeeps
<1>2. CASE Deliver
  <2>1. PICK x \in DOMAIN net : /\ ProcessData(net[x].msg, node[net[x].to])
                                /\ net' = RemoveAt(net, x)
    BY <1>2 DEF Deliver
  <2>2. Due = {} /\ UNCHANGED <<setup, ch, share, authentic, clock>>
    BY <1>2 DEF Deliver
  <2>3. PICK p : p = net[x]
    OBVIOUS
  <2>4. Arrives(p)
    BY <2>1, <2>3, RemoveEntry DEF Arrives, PromptInv, NetInv
  <2>5. \/ OpenSession(p.msg, node[p.to]) \/ CloseSession(p.msg, node[p.to])
        \/ IgnoreData(p.msg, node[p.to])
        \/ RelayData(p.msg, node[p.to])   \/ AcceptData(p.msg, node[p.to])
    BY <2>1, <2>3 DEF ProcessData
  <2>6. CASE IgnoreData(p.msg, node[p.to])
    BY <2>2, <2>4, <2>6, IgnoreKeeps DEF IgnoreData
  <2> QED BY <2>2, <2>4, <2>5, <2>6, OpenKeeps, CloseKeeps, RelayKeeps, AcceptKeeps
<1>3. CASE Lose
  BY <1>3 DEF Lose, Reliable
<1>4. CASE Tick
  BY <1>4, TickKeeps DEF Tick, Running, Reliable
<1>5. CASE UNCHANGED vars
  BY <1>5, ErrorKeeps DEF vars
<1> QED BY <1>1, <1>2, <1>3, <1>4, <1>5 DEF Next

(* Which simulation runs does not change, and on a network that brings          *)
(* everything within the tenth of a second a suspicious session is closed       *)
(* before its data is sent.                                                     *)
THEOREM PromptNetworkInvariant == Spec => [](setup \in Setups /\ (Reliable => PromptInv))
<1>1. Init => setup \in Setups /\ (Reliable => PromptInv)
  BY StartsPrompt
<1>2. setup \in Setups /\ (Reliable => PromptInv) /\ [Next]_vars
        => (setup \in Setups /\ (Reliable => PromptInv))'
  <2> SUFFICES ASSUME setup \in Setups, Reliable => PromptInv, [Next]_vars
               PROVE  (setup \in Setups /\ (Reliable => PromptInv))'
    OBVIOUS
  <2>1. setup' = setup
    BY DEF Next, RunEvent, Deliver, Lose, Tick, vars
  <2>2. Reliable' = Reliable
    BY <2>1 DEF Reliable
  <2> QED BY <2>1, <2>2, StepsKeepPrompt
<1> QED BY <1>1, <1>2, PTL DEF Spec

(* The data of a session with an untrusted end is never read, at the head as    *)
(* at the receiver, whatever flows are scheduled, where monitor can stop it.    *)
THEOREM UntrustedNeverRead == Spec => []UntrustedDataNeverRead
<1>1. (Reliable => PromptInv) => UntrustedDataNeverRead
  BY DEF PromptInv, ReceivedInv, UntrustedDataNeverRead, Suspicious
<1> QED BY <1>1, PromptNetworkInvariant, PTL

(* Nor does the data of a session that matches an attack record reach its       *)
(* receiver.                                                                    *)
THEOREM AlarmedNeverRead == Spec => []AlarmedDataNeverRead
<1>1. (Reliable => PromptInv) => AlarmedDataNeverRead
  BY DEF PromptInv, ReceivedInv, AlarmedDataNeverRead, Suspicious
<1> QED BY <1>1, PromptNetworkInvariant, PTL

-----------------------------------------------------------------------------------
(* The conversation of well-addressed flows, on any network                     *)

CrossFlows == {f \in FlowSet : ~Direct(f)}
Sources == {f.src : f \in FlowSet} \union {HeadFor(f.dst) : f \in CrossFlows}

(* What test schedules for a flow and process_data at the head: through which   *)
(* agent a question leaves, and the node it goes to first.                      *)
Way(f) == IF Direct(f) THEN FirstDst[f.agent] ELSE Udpch
Goal(f) == IF Direct(f) THEN f.dst ELSE HeadFor(f.dst)
AskTime(f) == IF Direct(f) THEN 44 ELSE 43

Hello(f) == Control("sstart", f.src, f.dst)
Asks(f) == Cipher(f.src, f.dst, FlowKey(f), "question", None)
HeadHello(f) == Control("sstart", HeadFor(f.dst), f.dst)
Tells(f) == Cipher(HeadFor(f.dst), f.dst, FlowKey(f), "question", f.src)

Opening(f) == SendAt(41, f.agent, Hello(f))
Question(f) == SendAt(AskTime(f), f.agent, Asks(f))
Closing(f) == SendAt(AskTime(f) + 1, f.agent, Control("sstop", f.src, f.dst))
HeadOpening(f) == SendAt(82, Udpch2, HeadHello(f))
Answer(f) == SendAt(83, Udpch2, Tells(f))
HeadClosing(f) == SendAt(85, Udpch2, Control("sstop", HeadFor(f.dst), f.dst))

FlowPacket(f, m) == [src |-> f.agent, to |-> Way(f), msg |-> m]
HeadPacket(f, m) == [src |-> Udpch2, to |-> f.dst, msg |-> m]

(* The agents of a question are connected; so are those of its relay.           *)
Linked(f) == dst[f.agent] = Way(f) /\ node[Way(f)] = Goal(f)
Relays(f) == /\ f \in CrossFlows /\ FlowKey(f) # NoKey /\ HeadFor(f.dst) # f.dst
             /\ dst[Udpch2] = f.dst /\ node[Udpch2] = HeadFor(f.dst)

(* The entries of the event queue: the script's, a flow's, its relay's, and     *)
(* those of monitor, which run before anything else does.                       *)
IsScript(e) == \E f \in FlowSet : e = TestAt(40, f)
IsFlow(e) == \E f \in FlowSet : /\ Linked(f)
                                /\ \/ e = Opening(f)
                                   \/ FlowKey(f) # NoKey /\ e \in {Question(f), Closing(f)}
IsRelay(e) == \E f \in CrossFlows : Relays(f) /\ e \in {HeadOpening(f), Answer(f), HeadClosing(f)}
IsWatch(e) ==
    /\ e.at = clock /\ clock # 40
    /\ \/ e.do = "monitor" /\ e.msg.from \in Sources
       \/ e.do = "send" /\ e.msg.kind = "sstop"
InPlace(e) == e.at >= clock /\ (IsScript(e) \/ IsFlow(e) \/ IsRelay(e) \/ IsWatch(e))

IsFlowPacket(p) ==
    \E f \in FlowSet : /\ Linked(f)
                       /\ \/ p = FlowPacket(f, Hello(f))
                          \/ /\ p = FlowPacket(f, Asks(f)) /\ FlowKey(f) # NoKey
                             /\ setup.prompt => clock < 82
IsRelayPacket(p) ==
    \E f \in CrossFlows : Relays(f) /\ p \in {HeadPacket(f, HeadHello(f)), HeadPacket(f, Tells(f))}
OnWay(p) == clock # 40 /\ (p.msg.kind = "sstop" \/ IsFlowPacket(p) \/ IsRelayPacket(p))

(* At most one copy of something: the forms S it has as an entry, the packet p. *)
Once(s, S) == \A x, y \in DOMAIN s : s[x] \in S /\ s[y] \in S => x = y
Single(S, p) == /\ Once(agenda, S) /\ Once(net, {p})
                /\ Entries(agenda) \intersect S = {} \/ p \notin Entries(net)
Gone(S, p) == Entries(agenda) \intersect S = {} /\ p \notin Entries(net)

AskForms(f) == {TestAt(40, f), Question(f)}
AskPacket(f) == FlowPacket(f, Asks(f))
TellForms(f) == {Answer(f)}
TellPacket(f) == HeadPacket(f, Tells(f))

(* A question is relayed once, and fk is set until its answer has come.         *)
Token(f) ==
    /\ Single(AskForms(f), AskPacket(f)) /\ Single(TellForms(f), TellPacket(f))
    /\ fk = 1 => Gone(AskForms(f), AskPacket(f))
    /\ fk = 0 => Gone(TellForms(f), TellPacket(f))
TokenInv ==
    /\ fk \in {0, 1}
    /\ fk = 1 => CrossFlows # {}
    /\ \A f \in CrossFlows : Token(f)

HeadsInv == ch \in [Clusters -> Nodes] /\ \A k \in Clusters : ch[k] \in Cluster(k)

WiringInv ==
    /\ DOMAIN node = Agents /\ DOMAIN dst = Agents
    /\ \A a \in UdpNodes : node[a] = FirstNode[a]
    /\ \A f \in FlowSet : Direct(f) => Linked(f)

TextInv == \A a \in received : a.text = "question" \/ (a.final /\ a.at = HeadFor(a.at))

Causes ==
    /\ aborted = "late" => ~setup.prompt /\ Relayed # {}
    /\ aborted = "no agent" => \E x \in Relayed : HeadFor(Flows[x].dst) \notin UdpNodes
    /\ aborted = "fk" => Relayed # {} /\ Relayed # DOMAIN Flows
    /\ aborted = "no key" => \E x \in Relayed : HeadFor(Flows[x].dst) = Flows[x].dst

ConversationInv ==
    /\ clock \in Times /\ IsSequence(agenda) /\ IsSequence(net)
    /\ HeadsInv /\ WiringInv /\ TokenInv /\ TextInv /\ Causes
    /\ \A e \in Entries(agenda) : InPlace(e)
    /\ \A p \in Entries(net) : OnWay(p)

(* A session of a flow with a key is open only while its stop is to come.       *)
Keyless(s, t) == \E f \in FlowSet : FlowKey(f) = NoKey /\ s = f.src /\ t = Goal(f)
StopAfter(s, t, time) ==
    \E f \in FlowSet :
       \/ /\ Closing(f) \in Entries(agenda) /\ Linked(f)
          /\ AskTime(f) + 1 > time /\ s = f.src /\ t = Goal(f)
       \/ /\ HeadClosing(f) \in Entries(agenda) /\ Relays(f)
          /\ 85 > time /\ s = HeadFor(f.dst) /\ t = f.dst
StopSent(s, t) ==
    \E p \in Entries(net) : /\ p.msg.kind = "sstop" /\ p.msg.from = s
                            /\ p.to \in UdpNodes \union {Udpch} /\ node[p.to] = t
Closes(s, t, time) == Keyless(s, t) \/ StopAfter(s, t, time)

ClosingInv ==
    /\ \A p \in session : /\ p = <<p[1], p[2]>> /\ clock # 40
                          /\ Closes(p[1], p[2], 0) \/ StopSent(p[1], p[2])
    /\ \A f \in FlowSet :
          Opening(f) \in Entries(agenda) => Closes(f.src, Goal(f), 41)
    /\ \A f \in CrossFlows :
          HeadOpening(f) \in Entries(agenda) => Closes(HeadFor(f.dst), f.dst, 82)
    /\ \A f \in FlowSet :
          FlowPacket(f, Hello(f)) \in Entries(net) => Closes(f.src, Goal(f), clock)
    /\ \A f \in CrossFlows :
          HeadPacket(f, HeadHello(f)) \in Entries(net) => Closes(HeadFor(f.dst), f.dst, clock)
-----------------------------------------------------------------------------------
(* Sequences in which something occurs once                                     *)

(* What RemoveAt leaves, place by place.                                        *)
LEMMA RemovedAre ==
    ASSUME NEW s, IsSequence(s), NEW x \in DOMAIN s
    PROVE  /\ Len(s) \in Nat /\ x \in 1 .. Len(s) /\ DOMAIN s = 1 .. Len(s)
           /\ DOMAIN RemoveAt(s, x) = 1 .. Len(s) - 1
           /\ \A y \in 1 .. Len(s) - 1 :
                 RemoveAt(s, x)[y] = IF y < x THEN s[y] ELSE s[y + 1]
<1> DEFINE a == SubSeq(s, 1, x - 1)
           b == SubSeq(s, x + 1, Len(s))
<1>1. Len(s) \in Nat /\ DOMAIN s = 1 .. Len(s) /\ x \in 1 .. Len(s)
  BY LenProperties DEF IsSequence
<1>2. \A y \in 1 .. Len(s) : s[y] \in Entries(s)
  BY <1>1 DEF Entries
<1>3. /\ a \in Seq(Entries(s)) /\ Len(a) = x - 1
      /\ \A y \in 1 .. x - 1 : a[y] = s[y]
  <2>1. /\ a \in Seq(Entries(s)) /\ Len(a) = (IF 1 <= x - 1 THEN x - 1 - 1 + 1 ELSE 0)
        /\ \A y \in 1 .. x - 1 - 1 + 1 : a[y] = s[1 + y - 1]
    <3>1. \A y \in 1 .. x - 1 : s[y] \in Entries(s)
      BY <1>1, <1>2
    <3> QED BY <1>1, <3>1, SubSeqProperties
  <2> QED BY <1>1, <2>1
<1>4. /\ b \in Seq(Entries(s)) /\ Len(b) = Len(s) - x
      /\ \A y \in 1 .. Len(s) - x : b[y] = s[y + x]
  <2>1. /\ b \in Seq(Entries(s))
        /\ Len(b) = (IF x + 1 <= Len(s) THEN Len(s) - (x + 1) + 1 ELSE 0)
        /\ \A y \in 1 .. Len(s) - (x + 1) + 1 : b[y] = s[x + 1 + y - 1]
    <3>1. \A y \in x + 1 .. Len(s) : s[y] \in Entries(s)
      BY <1>1, <1>2
    <3> QED BY <1>1, <3>1, SubSeqProperties
  <2> QED BY <1>1, <2>1
<1>5. RemoveAt(s, x) = a \o b
  BY DEF RemoveAt
<1> HIDE DEF a, b
<1>6. /\ DOMAIN (a \o b) = 1 .. Len(s) - 1
      /\ \A y \in 1 .. Len(s) - 1 : (a \o b)[y] = IF y < x THEN a[y] ELSE b[y - (x - 1)]
  <2>1. a \o b \in Seq(Entries(s)) /\ Len(a \o b) = Len(a) + Len(b)
        /\ \A y \in 1 .. Len(a) + Len(b) :
              (a \o b)[y] = IF y <= Len(a) THEN a[y] ELSE b[y - Len(a)]
    BY <1>3, <1>4, ConcatProperties
  <2>2. Len(a) + Len(b) = Len(s) - 1 /\ DOMAIN (a \o b) = 1 .. Len(a \o b)
    BY <1>1, <1>3, <1>4, <2>1, LenProperties
  <2>3. ASSUME NEW y \in 1 .. Len(s) - 1
        PROVE  (a \o b)[y] = IF y < x THEN a[y] ELSE b[y - (x - 1)]
    BY <1>1, <1>3, <2>1, <2>2
  <2> QED BY <2>1, <2>2, <2>3
<1>7. ASSUME NEW y \in 1 .. Len(s) - 1
      PROVE  RemoveAt(s, x)[y] = IF y < x THEN s[y] ELSE s[y + 1]
  <2>1. CASE y < x
    <3>1. y \in 1 .. x - 1
      BY <1>1, <2>1
    <3> QED BY <1>3, <1>5, <1>6, <2>1, <3>1
  <2>2. CASE ~(y < x)
    <3>1. y - (x - 1) \in 1 .. Len(s) - x /\ y - (x - 1) + x = y + 1
      BY <1>1, <2>2
    <3>2. b[y - (x - 1)] = s[y - (x - 1) + x]
      BY <1>4, <3>1
    <3> QED BY <1>5, <1>6, <2>2, <3>1, <3>2
  <2> QED BY <2>1, <2>2
<1> QED BY <1>1, <1>5, <1>6, <1>7

(* What occurs at most once stays so when an entry is removed, and is gone when *)
(* it was that entry.                                                           *)
LEMMA RemoveOnce ==
    ASSUME NEW s, IsSequence(s), NEW x \in DOMAIN s, NEW S, Once(s, S)
    PROVE  /\ Once(RemoveAt(s, x), S)
           /\ s[x] \in S => Entries(RemoveAt(s, x)) \intersect S = {}
<1> DEFINE r == RemoveAt(s, x)
           from(y) == IF y < x THEN y ELSE y + 1
<1>1. /\ Len(s) \in Nat /\ x \in 1 .. Len(s) /\ DOMAIN s = 1 .. Len(s)
      /\ DOMAIN r = 1 .. Len(s) - 1
      /\ \A y \in 1 .. Len(s) - 1 : r[y] = IF y < x THEN s[y] ELSE s[y + 1]
  BY RemovedAre
<1> HIDE DEF r
<1>2. ASSUME NEW y \in DOMAIN r PROVE from(y) \in DOMAIN s /\ from(y) # x /\ r[y] = s[from(y)]
  BY <1>1
<1>3. ASSUME NEW y \in DOMAIN r, NEW z \in DOMAIN r, from(y) = from(z) PROVE y = z
  BY <1>1, <1>3
<1> HIDE DEF from
<1>4. Once(r, S)
  BY <1>2, <1>3 DEF Once
<1>5. s[x] \in S => Entries(r) \intersect S = {}
  BY <1>2 DEF Once, Entries
<1> QED BY <1>4, <1>5 DEF r

(* What occurs at most once in two sequences, and in one of them only.          *)
LEMMA JoinOnce ==
    ASSUME NEW s, NEW t, IsSequence(s), IsSequence(t), NEW S, Once(s, S), Once(t, S),
           Entries(s) \intersect S = {} \/ Entries(t) \intersect S = {}
    PROVE  Once(s \o t, S)
<1>1. /\ Len(s) \in Nat /\ DOMAIN s = 1 .. Len(s)
      /\ Len(t) \in Nat /\ DOMAIN t = 1 .. Len(t)
      /\ DOMAIN (s \o t) = 1 .. Len(s) + Len(t)
      /\ \A x \in 1 .. Len(s) + Len(t) :
            (s \o t)[x] = IF x <= Len(s) THEN s[x] ELSE t[x - Len(s)]
  <2> DEFINE E == Entries(s) \union Entries(t)
  <2>1. s \in Seq(E) /\ t \in Seq(E)
    BY SeqMonotonic DEF IsSequence
  <2>2. s \o t \in Seq(E)
    BY <2>1, ConcatProperties
  <2> QED BY <2>1, <2>2, ConcatProperties, LenProperties
<1>2. ASSUME NEW x \in DOMAIN (s \o t)
      PROVE  \/ x \in DOMAIN s /\ (s \o t)[x] = s[x]
             \/ x - Len(s) \in DOMAIN t /\ (s \o t)[x] = t[x - Len(s)] /\ x \in Int
  BY <1>1
<1>3. ASSUME NEW x \in DOMAIN (s \o t), NEW y \in DOMAIN (s \o t),
             (s \o t)[x] \in S, (s \o t)[y] \in S
      PROVE  x = y
  <2>1. CASE x \in DOMAIN s /\ y \in DOMAIN s /\ (s \o t)[x] = s[x] /\ (s \o t)[y] = s[y]
    BY <1>3, <2>1 DEF Once
  <2>2. CASE /\ x - Len(s) \in DOMAIN t /\ (s \o t)[x] = t[x - Len(s)] /\ x \in Int
             /\ y - Len(s) \in DOMAIN t /\ (s \o t)[y] = t[y - Len(s)] /\ y \in Int
    <3>1. x - Len(s) = y - Len(s)
      BY <1>3, <2>2 DEF Once
    <3> QED BY <1>1, <2>2, <3>1
  <2>3. CASE \E a \in DOMAIN s, b \in DOMAIN t : s[a] \in S /\ t[b] \in S
    BY <2>3 DEF Entries
  <2> QED BY <1>2, <1>3, <2>1, <2>2, <2>3
<1> QED BY <1>3 DEF Once

LEMMA OneOnce ==
    ASSUME NEW e, NEW S
    PROVE  Once(<<e>>, S) /\ Once(<< >>, S)
BY DEF Once

LEMMA TwoOnce ==
    ASSUME NEW a, NEW b, NEW S, ~(a \in S /\ b \in S)
    PROVE  Once(<<a, b>>, S)
<1>1. DOMAIN <<a, b>> = {1, 2} /\ <<a, b>>[1] = a /\ <<a, b>>[2] = b
  OBVIOUS
<1> QED BY <1>1 DEF Once

LEMMA AppendOnce ==
    ASSUME NEW s, NEW e, IsSequence(s), NEW S, Once(s, S),
           e \notin S \/ Entries(s) \intersect S = {}
    PROVE  Once(Append(s, e), S)
<1>1. Append(s, e) = s \o <<e>>
  BY AppendIsConcat, SeqMonotonic, s \in Seq(Entries(s) \union {e})
     DEF IsSequence
<1> QED BY <1>1, OneEntry, OneOnce, JoinOnce

-----------------------------------------------------------------------------------
(* Facts the steps share                                                        *)

(* The cluster test finds a node in is the one it is in.                        *)
LEMMA ClustersApart ==
    ASSUME NEW x \in Nodes
    PROVE  /\ ClusterOf(x) \in Clusters /\ x \in Cluster(ClusterOf(x))
           /\ \A k \in Clusters : x \in Cluster(k) => ClusterOf(x) = k
<1>1. Div \in Nat /\ NN \in Nat /\ NN > 3 * (Div + 1)
  <2>1. NN \in Nat /\ NN > 3 * (Div + 1)
    BY NNAssumption
  <2> QED BY <2>1 DEF Div
<1>2. /\ Cluster(1) = 0 .. Div
      /\ Cluster(2) = Div + 1 .. 2 * Div + 1
      /\ Cluster(3) = 2 * Div + 2 .. 3 * Div + 2
      /\ Cluster(4) = 3 * Div + 3 .. NN - 1
  BY <1>1 DEF Cluster, Span, Start, End
<1>3. Clusters = {1, 2, 3, 4}
  BY DEF Clusters
<1>4. x \in 0 .. NN - 1
  BY DEF Nodes
<1> HIDE DEF Div
<1>5. \E k \in Clusters : x \in Cluster(k)
  BY <1>1, <1>2, <1>3, <1>4
<1>6. \A k, m \in Clusters : x \in Cluster(k) /\ x \in Cluster(m) => k = m
  BY <1>1, <1>2, <1>3, <1>4
<1> QED BY <1>5, <1>6 DEF ClusterOf

(* A head is in the cluster of its node, and its own head.                      *)
LEMMA HeadsApart ==
    ASSUME HeadsInv, NEW d \in Nodes
    PROVE  /\ HeadFor(d) \in Nodes /\ ClusterOf(HeadFor(d)) = ClusterOf(d)
           /\ HeadFor(HeadFor(d)) = HeadFor(d)
BY ClustersApart DEF HeadsInv, HeadFor

(* A question that is relayed leaves through its sender's agent, to another     *)
(* cluster; there is no other such question, and no direct one uses the agents  *)
(* of its ends.                                                                 *)
LEMMA Addresses ==
    ASSUME setup \in Setups, WellAddressed
    PROVE  /\ \A f \in FlowSet : /\ f \in [src : Nodes, dst : Nodes, agent : UdpNodes]
                                 /\ f.src \in UdpNodes /\ f.dst \in UdpNodes
           /\ \A f \in FlowSet : Direct(f) =>
                 FirstDst[f.agent] \in UdpNodes /\ FirstNode[FirstDst[f.agent]] = f.dst
           /\ \A f \in CrossFlows, g \in FlowSet :
                 /\ f.agent = f.src /\ FirstNode[f.dst] = f.dst /\ f.src # f.dst
                 /\ ~Direct(g) => g = f
                 /\ Direct(g) => g.agent # f.src /\ g.agent # f.dst
           /\ CrossFlows # {} => Relayed # {}
           /\ \A f \in CrossFlows : \E x \in Relayed : Flows[x] = f
<1>1. Flows \in Seq([src : Nodes, dst : Nodes, agent : UdpNodes])
  BY SessionAssumption DEF Flows
<1>2. \A x \in DOMAIN Flows : Flows[x] \in [src : Nodes, dst : Nodes, agent : UdpNodes]
  BY <1>1, LenProperties, ElementOfSeq
<1>3. ASSUME NEW f \in FlowSet
      PROVE  /\ f \in [src : Nodes, dst : Nodes, agent : UdpNodes]
             /\ f.src \in UdpNodes /\ f.dst \in UdpNodes
  BY <1>2 DEF FlowSet, WellAddressed
<1>4. ASSUME NEW f \in FlowSet, Direct(f)
      PROVE  FirstDst[f.agent] \in UdpNodes /\ FirstNode[FirstDst[f.agent]] = f.dst
  <2>1. f.agent \in UdpNodes /\ f.agent \in Agents
    BY <1>3, Numbers
  <2>2. FirstDst[f.agent] # None /\ FirstNode[FirstDst[f.agent]] = f.dst
    BY <1>4 DEF WellAddressed
  <2>3. \A a \in Agents : FirstDst[a] \in UdpNodes \union {None}
    BY DEF FirstDst, UdpNodes
  <2> QED BY <2>1, <2>2, <2>3
<1>5. ASSUME NEW f \in CrossFlows PROVE \E x \in Relayed : Flows[x] = f
  BY DEF CrossFlows, FlowSet, Relayed
<1>6. ASSUME NEW f \in CrossFlows, NEW g \in FlowSet
      PROVE  /\ f.agent = f.src /\ FirstNode[f.dst] = f.dst /\ f.src # f.dst
             /\ ~Direct(g) => g = f
             /\ Direct(g) => g.agent # f.src /\ g.agent # f.dst
  <2>1. f \in FlowSet /\ ~Direct(f)
    BY DEF CrossFlows
  <2>2. /\ f.agent = f.src /\ FirstNode[f.dst] = f.dst
        /\ Direct(g) => g.agent \notin {f.src, f.dst}
    BY <2>1 DEF WellAddressed
  <2>3. f.src # f.dst
    BY <2>1 DEF Direct
  <2>4. ASSUME ~Direct(g) PROVE g = f
    <3>1. PICK x \in Relayed : Flows[x] = f
      BY <1>5
    <3>2. PICK y \in Relayed : Flows[y] = g
      BY <1>5, <2>4 DEF CrossFlows
    <3>3. x = y
      BY DEF WellAddressed
    <3> QED BY <3>1, <3>2, <3>3
  <2> QED BY <2>2, <2>3, <2>4
<1>7. CrossFlows # {} => Relayed # {}
  BY <1>5
<1> QED BY <1>3, <1>4, <1>5, <1>6, <1>7

(* What no step changes.                                                        *)
LEMMA Constant ==
    ASSUME UNCHANGED <<setup, ch, share, authentic>>
    PROVE  /\ FlowSet' = FlowSet /\ CrossFlows' = CrossFlows /\ Sources' = Sources
           /\ Relayed' = Relayed /\ Flows' = Flows
           /\ WellAddressed' <=> WellAddressed
           /\ Reliable' <=> Reliable
           /\ \A x : HeadFor(x)' = HeadFor(x)
           /\ \A f : /\ Direct(f)' <=> Direct(f)
                     /\ FlowKey(f)' = FlowKey(f) /\ Way(f)' = Way(f) /\ Goal(f)' = Goal(f)
                     /\ AskTime(f)' = AskTime(f)
           /\ \A s, t : Keyless(s, t)' <=> Keyless(s, t)
<1>1. FlowSet' = FlowSet /\ Flows' = Flows
  BY DEF FlowSet, Flows
<1>2. ASSUME NEW x PROVE HeadFor(x)' = HeadFor(x)
  BY DEF HeadFor
<1>3. ASSUME NEW f PROVE Direct(f)' <=> Direct(f)
  BY DEF Direct
<1>4. CrossFlows' = CrossFlows
  BY <1>1, <1>3 DEF CrossFlows
<1>5. Sources' = Sources
  BY <1>1, <1>2, <1>4 DEF Sources
<1>6. Relayed' = Relayed
  BY <1>1, <1>3 DEF Relayed
<1>7. WellAddressed' <=> WellAddressed
  BY <1>1, <1>3, <1>6 DEF WellAddressed
<1>8. Reliable' <=> Reliable
  BY DEF Reliable
<1>9. ASSUME NEW f PROVE /\ FlowKey(f)' = FlowKey(f) /\ Way(f)' = Way(f) /\ Goal(f)' = Goal(f)
                         /\ AskTime(f)' = AskTime(f)
  BY <1>2, <1>3 DEF FlowKey, Way, Goal, AskTime
<1>10. ASSUME NEW s, NEW t PROVE Keyless(s, t)' <=> Keyless(s, t)
  BY <1>1, <1>9 DEF Keyless
<1> QED BY <1>1, <1>2, <1>3, <1>4, <1>5, <1>6, <1>7, <1>8, <1>9, <1>10

(* The fields the steps look at.                                                *)
LEMMA Shapes ==
    ASSUME NEW f
    PROVE  /\ TestAt(40, f).at = 40 /\ TestAt(40, f).do = "test" /\ TestAt(40, f).agent = f.agent
           /\ TestAt(40, f).msg.from = f.src /\ TestAt(40, f).msg.to = f.dst
           /\ Hello(f).kind = "sstart" /\ Hello(f).from = f.src /\ Hello(f).to = f.dst
           /\ HeadHello(f).kind = "sstart" /\ HeadHello(f).from = HeadFor(f.dst)
           /\ HeadHello(f).to = f.dst
           /\ Asks(f).kind = "data" /\ Asks(f).from = f.src /\ Asks(f).to = f.dst
           /\ Asks(f).key = FlowKey(f) /\ Asks(f).text = "question" /\ Asks(f).origin = None
           /\ Tells(f).kind = "data" /\ Tells(f).from = HeadFor(f.dst) /\ Tells(f).to = f.dst
           /\ Tells(f).key = FlowKey(f) /\ Tells(f).text = "question" /\ Tells(f).origin = f.src
BY DEF TestAt, Hello, HeadHello, Asks, Tells, Control, Cipher

LEMMA EntryShapes ==
    ASSUME NEW f
    PROVE  /\ Opening(f).at = 41 /\ Opening(f).do = "send" /\ Opening(f).agent = f.agent
           /\ Opening(f).msg = Hello(f)
           /\ Question(f).at = AskTime(f) /\ Question(f).do = "send"
           /\ Question(f).agent = f.agent /\ Question(f).msg = Asks(f)
           /\ Closing(f).at = AskTime(f) + 1 /\ Closing(f).do = "send"
           /\ Closing(f).agent = f.agent
           /\ Closing(f).msg.kind = "sstop" /\ Closing(f).msg.from = f.src
           /\ HeadOpening(f).at = 82 /\ HeadOpening(f).do = "send"
           /\ HeadOpening(f).agent = Udpch2 /\ HeadOpening(f).msg = HeadHello(f)
           /\ Answer(f).at = 83 /\ Answer(f).do = "send"
           /\ Answer(f).agent = Udpch2 /\ Answer(f).msg = Tells(f)
           /\ HeadClosing(f).at = 85 /\ HeadClosing(f).do = "send"
           /\ HeadClosing(f).agent = Udpch2
           /\ HeadClosing(f).msg.kind = "sstop" /\ HeadClosing(f).msg.from = HeadFor(f.dst)
           /\ AskTime(f) \in {43, 44} /\ (AskTime(f) = 44 <=> Direct(f))
<1>1. /\ Opening(f).at = 41 /\ Opening(f).do = "send" /\ Opening(f).agent = f.agent
      /\ Opening(f).msg = Hello(f)
  BY DEF Opening, SendAt
<1>2. /\ Question(f).at = AskTime(f) /\ Question(f).do = "send"
      /\ Question(f).agent = f.agent /\ Question(f).msg = Asks(f)
  BY DEF Question, SendAt
<1>3. /\ Closing(f).at = AskTime(f) + 1 /\ Closing(f).do = "send"
      /\ Closing(f).agent = f.agent
      /\ Closing(f).msg.kind = "sstop" /\ Closing(f).msg.from = f.src
  BY DEF Closing, SendAt, Control
<1>4. /\ HeadOpening(f).at = 82 /\ HeadOpening(f).do = "send"
      /\ HeadOpening(f).agent = Udpch2 /\ HeadOpening(f).msg = HeadHello(f)
  BY DEF HeadOpening, SendAt
<1>5. /\ Answer(f).at = 83 /\ Answer(f).do = "send"
      /\ Answer(f).agent = Udpch2 /\ Answer(f).msg = Tells(f)
  BY DEF Answer, SendAt
<1>6. /\ HeadClosing(f).at = 85 /\ HeadClosing(f).do = "send"
      /\ HeadClosing(f).agent = Udpch2
      /\ HeadClosing(f).msg.kind = "sstop" /\ HeadClosing(f).msg.from = HeadFor(f.dst)
  BY DEF HeadClosing, SendAt, Control
<1>7. AskTime(f) \in {43, 44} /\ (AskTime(f) = 44 <=> Direct(f))
  BY DEF AskTime
<1> QED BY <1>1, <1>2, <1>3, <1>4, <1>5, <1>6, <1>7

LEMMA PacketShapes ==
    ASSUME NEW f, NEW m
    PROVE  /\ FlowPacket(f, m).src = f.agent /\ FlowPacket(f, m).to = Way(f)
           /\ FlowPacket(f, m).msg = m
           /\ HeadPacket(f, m).src = Udpch2 /\ HeadPacket(f, m).to = f.dst
           /\ HeadPacket(f, m).msg = m
BY DEF FlowPacket, HeadPacket

LEMMA ShapesStay ==
    ASSUME UNCHANGED <<setup, ch, share, authentic>>, NEW f
    PROVE  /\ TestAt(40, f)' = TestAt(40, f)
           /\ Opening(f)' = Opening(f) /\ Question(f)' = Question(f) /\ Closing(f)' = Closing(f)
           /\ HeadOpening(f)' = HeadOpening(f) /\ Answer(f)' = Answer(f)
           /\ HeadClosing(f)' = HeadClosing(f)
           /\ FlowPacket(f, Hello(f))' = FlowPacket(f, Hello(f))
           /\ FlowPacket(f, Asks(f))' = FlowPacket(f, Asks(f))
           /\ HeadPacket(f, HeadHello(f))' = HeadPacket(f, HeadHello(f))
           /\ HeadPacket(f, Tells(f))' = HeadPacket(f, Tells(f))
           /\ AskForms(f)' = AskForms(f) /\ TellForms(f)' = TellForms(f)
           /\ AskPacket(f)' = AskPacket(f) /\ TellPacket(f)' = TellPacket(f)
<1>1. /\ TestAt(40, f)' = TestAt(40, f)
      /\ Hello(f)' = Hello(f) /\ HeadHello(f)' = HeadHello(f)
      /\ Asks(f)' = Asks(f) /\ Tells(f)' = Tells(f)
  BY Constant DEF TestAt, Hello, HeadHello, Asks, Tells, Control, Cipher
<1>2. /\ Opening(f)' = Opening(f) /\ Question(f)' = Question(f) /\ Closing(f)' = Closing(f)
      /\ HeadOpening(f)' = HeadOpening(f) /\ Answer(f)' = Answer(f)
      /\ HeadClosing(f)' = HeadClosing(f)
  BY <1>1, Constant DEF Opening, Question, Closing, HeadOpening, Answer, HeadClosing, SendAt,
     Control
<1>3. /\ FlowPacket(f, Hello(f))' = FlowPacket(f, Hello(f))
      /\ FlowPacket(f, Asks(f))' = FlowPacket(f, Asks(f))
      /\ HeadPacket(f, HeadHello(f))' = HeadPacket(f, HeadHello(f))
      /\ HeadPacket(f, Tells(f))' = HeadPacket(f, Tells(f))
  BY <1>1, Constant DEF FlowPacket, HeadPacket
<1>4. AskForms(f)' = AskForms(f) /\ TellForms(f)' = TellForms(f)
  BY <1>1, <1>2 DEF AskForms, TellForms
<1>5. AskPacket(f)' = AskPacket(f) /\ TellPacket(f)' = TellPacket(f)
  BY <1>3 DEF AskPacket, TellPacket
<1> QED BY <1>1, <1>2, <1>3, <1>4, <1>5

(* The agents of a flow stay connected.                                         *)
Wired == \A f \in FlowSet : (Linked(f) => Linked(f)') /\ (Relays(f) => Relays(f)')

(* Entries and packets keep their sense while the agents stay connected.        *)
LEMMA StaysInPlace ==
    ASSUME UNCHANGED <<setup, ch, share, authentic, clock>>, Wired
    PROVE  /\ \A e : InPlace(e) => InPlace(e)'
           /\ \A p : OnWay(p) => OnWay(p)'
<1> USE Constant, ShapesStay
<1>1. ASSUME NEW e, IsScript(e) PROVE IsScript(e)'
  BY <1>1 DEF IsScript
<1>2. ASSUME NEW e, IsFlow(e) PROVE IsFlow(e)'
  BY <1>2 DEF IsFlow, Wired
<1>3. ASSUME NEW e, IsRelay(e) PROVE IsRelay(e)'
  BY <1>3 DEF IsRelay, Wired, CrossFlows
<1>4. ASSUME NEW e, IsWatch(e) PROVE IsWatch(e)'
  BY <1>4 DEF IsWatch
<1>5. ASSUME NEW p, IsFlowPacket(p) PROVE IsFlowPacket(p)'
  BY <1>5 DEF IsFlowPacket, Wired
<1>6. ASSUME NEW p, IsRelayPacket(p) PROVE IsRelayPacket(p)'
  BY <1>6 DEF IsRelayPacket, Wired, CrossFlows
<1>7. ASSUME NEW e, InPlace(e) PROVE InPlace(e)'
  BY <1>1, <1>2, <1>3, <1>4, <1>7 DEF InPlace
<1>8. ASSUME NEW p, OnWay(p) PROVE OnWay(p)'
  BY <1>5, <1>6, <1>8 DEF OnWay
<1> QED BY <1>7, <1>8

LEMMA SameWires ==
    ASSUME UNCHANGED <<setup, ch, share, authentic, node, dst>>
    PROVE  /\ Wired
           /\ \A f \in FlowSet : (Linked(f)' <=> Linked(f)) /\ (Relays(f)' <=> Relays(f))
           /\ WiringInv => WiringInv'
<1>1. ASSUME NEW f PROVE (Linked(f)' <=> Linked(f)) /\ (Relays(f)' <=> Relays(f))
  BY Constant DEF Linked, Relays
<1> QED BY <1>1, Constant DEF Wired, WiringInv

LEMMA SameParts ==
    ASSUME UNCHANGED <<setup, ch, share, authentic>>
    PROVE  /\ HeadsInv' <=> HeadsInv
           /\ received' = received => (TextInv' <=> TextInv)
           /\ aborted' = aborted => (Causes' <=> Causes)
<1>1. HeadsInv' <=> HeadsInv
  BY DEF HeadsInv
<1>2. received' = received => (TextInv' <=> TextInv)
  BY Constant DEF TextInv
<1>3. aborted' = aborted => (Causes' <=> Causes)
  BY Constant DEF Causes
<1> QED BY <1>1, <1>2, <1>3

-----------------------------------------------------------------------------------
(* The event that runs and the packet that arrives                              *)

(* Events are scheduled for the moments the script names, never in the past.    *)
LEMMA EntryTimes ==
    ASSUME ConversationInv
    PROVE  /\ clock \in Nat /\ clock >= 40
           /\ \A e \in Entries(agenda) : e.at \in Times /\ e.at \in Nat /\ e.at >= clock
<1>1. clock \in Nat /\ clock >= 40
  BY DEF ConversationInv, Times
<1>2. ASSUME NEW e \in Entries(agenda) PROVE e.at \in Times /\ e.at >= clock
  <2>1. e.at >= clock /\ (IsScript(e) \/ IsFlow(e) \/ IsRelay(e) \/ IsWatch(e))
    BY DEF ConversationInv, InPlace
  <2>2. CASE IsScript(e)
    <3>1. PICK f \in FlowSet : e = TestAt(40, f)
      BY <2>2 DEF IsScript
    <3>2. e.at = 40
      BY <3>1, Shapes
    <3> QED BY <2>1, <3>2 DEF Times
  <2>3. CASE IsFlow(e)
    <3>1. PICK f \in FlowSet : e \in {Opening(f), Question(f), Closing(f)}
      BY <2>3 DEF IsFlow
    <3>2. /\ Opening(f).at = 41 /\ Question(f).at = AskTime(f) /\ Closing(f).at = AskTime(f) + 1
          /\ AskTime(f) \in {43, 44}
      BY EntryShapes
    <3>3. e.at \in {41, 43, 44, 45}
      BY <3>1, <3>2
    <3> QED BY <2>1, <3>3 DEF Times
  <2>4. CASE IsRelay(e)
    <3>1. PICK f \in CrossFlows : e \in {HeadOpening(f), Answer(f), HeadClosing(f)}
      BY <2>4 DEF IsRelay
    <3>2. HeadOpening(f).at = 82 /\ Answer(f).at = 83 /\ HeadClosing(f).at = 85
      BY EntryShapes
    <3>3. e.at \in {82, 83, 85}
      BY <3>1, <3>2
    <3> QED BY <2>1, <3>3 DEF Times
  <2>5. CASE IsWatch(e)
    BY <2>1, <2>5 DEF IsWatch, ConversationInv
  <2> QED BY <2>1, <2>2, <2>3, <2>4, <2>5
<1>3. Times \subseteq Nat
  BY Numbers
<1> QED BY <1>1, <1>2, <1>3

(* The event that runs next is one of those, and its time has come.             *)
LEMMA NextCall ==
    ASSUME ConversationInv, Due # {}
    PROVE  /\ NextDue \in DOMAIN agenda
           /\ agenda[NextDue] \in Entries(agenda) /\ InPlace(agenda[NextDue])
           /\ agenda[NextDue].at = clock
<1>1. DOMAIN agenda \subseteq Nat
  BY LenProperties DEF ConversationInv, IsSequence
<1>2. \E x \in Due : \A y \in Due : x <= y
  BY <1>1, LeastNumber DEF Due
<1>3. NextDue \in Due
  BY <1>2 DEF NextDue
<1> HIDE DEF NextDue
<1>4. agenda[NextDue] \in Entries(agenda) /\ agenda[NextDue].at <= clock
  BY <1>3 DEF Due, Entries
<1>5. agenda[NextDue].at \in Nat /\ agenda[NextDue].at >= clock /\ clock \in Nat
  BY <1>4, EntryTimes
<1> QED BY <1>3, <1>4, <1>5 DEF Due, ConversationInv

LEMMA AllLater ==
    ASSUME ConversationInv, Due = {}
    PROVE  \A e \in Entries(agenda) : e.at > clock /\ ~IsWatch(e)
<1>1. ASSUME NEW x \in DOMAIN agenda PROVE agenda[x].at > clock
  <2>1. agenda[x].at \in Nat /\ clock \in Nat
    BY EntryTimes DEF Entries
  <2>2. ~(agenda[x].at <= clock)
    BY DEF Due
  <2> QED BY <2>1, <2>2
<1>2. \A e \in Entries(agenda) : e.at > clock
  BY <1>1 DEF Entries
<1>3. clock \in Nat
  BY EntryTimes
<1> QED BY <1>2, <1>3 DEF IsWatch

(* The event e has left the queue and those of t have entered.                  *)
Replaced(e, t) ==
    /\ e \in Entries(agenda) /\ IsSequence(agenda')
    /\ Entries(agenda') \subseteq Entries(agenda) \union Entries(t)
    /\ Entries(t) \subseteq Entries(agenda')
    /\ \A x \in Entries(agenda) : x = e \/ x \in Entries(agenda')
    /\ \A S : /\ Once(agenda, S) /\ Once(t, S) /\ (e \in S \/ Entries(t) \intersect S = {})
                   => Once(agenda', S)
              /\ Once(agenda, S) /\ e \in S
                   => Entries(agenda') \intersect S \subseteq Entries(t)

LEMMA Replacing ==
    ASSUME ConversationInv, Due # {}, NEW e, e = agenda[NextDue],
           NEW t, IsSequence(t), agenda' = RemoveAt(agenda, NextDue) \o t
    PROVE  Replaced(e, t)
<1> DEFINE r == RemoveAt(agenda, NextDue)
<1>1. IsSequence(agenda) /\ NextDue \in DOMAIN agenda
  BY NextCall DEF ConversationInv
<1>2. /\ IsSequence(r) /\ Entries(r) \subseteq Entries(agenda) /\ e \in Entries(agenda)
      /\ \A x \in Entries(agenda) : x = e \/ x \in Entries(r)
  BY <1>1, RemoveEntry
<1>3. \A S : Once(agenda, S) => Once(r, S) /\ (e \in S => Entries(r) \intersect S = {})
  BY <1>1, RemoveOnce
<1> HIDE DEF r
<1>4. agenda' = r \o t
  BY DEF r
<1>5. IsSequence(agenda') /\ Entries(agenda') = Entries(r) \union Entries(t)
  BY <1>2, <1>4, JoinEntries
<1>6. ASSUME NEW S, Once(agenda, S), Once(t, S), e \in S \/ Entries(t) \intersect S = {}
      PROVE  Once(agenda', S)
  BY <1>2, <1>3, <1>4, <1>6, JoinOnce
<1>7. ASSUME NEW S, Once(agenda, S), e \in S
      PROVE  Entries(agenda') \intersect S \subseteq Entries(t)
  BY <1>3, <1>5, <1>7
<1> QED BY <1>2, <1>5, <1>6, <1>7 DEF Replaced

(* A packet p leaves the network.                                               *)
Leaves(p) ==
    /\ Arrives(p)
    /\ \A S : Once(net, S) => Once(net', S) /\ (p \in S => Entries(net') \intersect S = {})

LEMMA Leaving ==
    ASSUME IsSequence(net), NEW x \in DOMAIN net, net' = RemoveAt(net, x)
    PROVE  Leaves(net[x])
<1>1. Arrives(net[x])
  BY RemoveEntry DEF Arrives
<1>2. \A S : Once(net, S) => Once(net', S) /\ (net[x] \in S => Entries(net') \intersect S = {})
  BY RemoveOnce
<1> QED BY <1>1, <1>2 DEF Leaves

(* What has nothing to do with a relayed question leaves it where it is.        *)
Untouched(f) ==
    /\ \A S \in {AskForms(f), TellForms(f)} :
          /\ Once(agenda, S) => Once(agenda', S)
          /\ Entries(agenda') \intersect S \subseteq Entries(agenda)
    /\ \A p \in {AskPacket(f), TellPacket(f)} :
          /\ Once(net, {p}) => Once(net', {p})
          /\ p \in Entries(net') => p \in Entries(net)

LEMMA TokenStays ==
    ASSUME UNCHANGED <<setup, ch, share, authentic, fk>>, NEW f, Token(f), Untouched(f)
    PROVE  Token(f)'
<1>1. /\ AskForms(f)' = AskForms(f) /\ TellForms(f)' = TellForms(f)
      /\ AskPacket(f)' = AskPacket(f) /\ TellPacket(f)' = TellPacket(f)
  BY ShapesStay
<1>2. ASSUME NEW S \in {AskForms(f), TellForms(f)}, NEW p \in {AskPacket(f), TellPacket(f)}
      PROVE  (Single(S, p) => Single(S, p)') /\ (Gone(S, p) => Gone(S, p)')
  BY DEF Single, Gone, Untouched
<1>3. /\ (Single(AskForms(f), AskPacket(f)) => Single(AskForms(f), AskPacket(f))')
      /\ (Gone(AskForms(f), AskPacket(f)) => Gone(AskForms(f), AskPacket(f))')
  BY <1>1, <1>2 DEF Single, Gone
<1>4. /\ (Single(TellForms(f), TellPacket(f)) => Single(TellForms(f), TellPacket(f))')
      /\ (Gone(TellForms(f), TellPacket(f)) => Gone(TellForms(f), TellPacket(f))')
  BY <1>1, <1>2 DEF Single, Gone
<1> QED BY <1>3, <1>4 DEF Token

-----------------------------------------------------------------------------------
(* A call of test                                                               *)

(* What one call of test schedules.                                             *)
Schedule(f) == IF FlowKey(f) = NoKey THEN {Opening(f)}
               ELSE {Opening(f), Question(f), Closing(f)}

(* test schedules each of its sends once.                                       *)
LEMMA Scheduling ==
    ASSUME NEW f, NEW e, e = TestAt(40, f)
    PROVE  LET t == TestEvents(e, FlowKey(f), AskTime(f))
           IN  /\ IsSequence(t) /\ Entries(t) = Schedule(f)
               /\ \A S : Opening(f) \notin S /\ Closing(f) \notin S => Once(t, S)
<1> DEFINE t == TestEvents(e, FlowKey(f), AskTime(f))
           rest == IF FlowKey(f) = NoKey THEN << >> ELSE <<Question(f), Closing(f)>>
<1>1. t = <<Opening(f)>> \o rest
  <2>1. e.agent = f.agent /\ e.msg.from = f.src /\ e.msg.to = f.dst
    BY Shapes
  <2>2. /\ SendAt(41, e.agent, Control("sstart", e.msg.from, e.msg.to)) = Opening(f)
        /\ SendAt(AskTime(f), e.agent, Cipher(e.msg.from, e.msg.to, FlowKey(f), "question", None))
             = Question(f)
        /\ SendAt(AskTime(f) + 1, e.agent, Control("sstop", e.msg.from, e.msg.to)) = Closing(f)
    BY <2>1 DEF Opening, Hello, Question, Asks, Closing
  <2>3. t = <<SendAt(41, e.agent, Control("sstart", e.msg.from, e.msg.to))>> \o
              IF FlowKey(f) = NoKey THEN << >>
              ELSE <<SendAt(AskTime(f), e.agent,
                            Cipher(e.msg.from, e.msg.to, FlowKey(f), "question", None)),
                     SendAt(AskTime(f) + 1, e.agent, Control("sstop", e.msg.from, e.msg.to))>>
    BY DEF TestEvents
  <2> QED BY <2>2, <2>3
<1>2. /\ IsSequence(rest) /\ IsSequence(<<Opening(f)>>)
      /\ Entries(<<Opening(f)>>) = {Opening(f)}
      /\ Entries(rest) = IF FlowKey(f) = NoKey THEN {} ELSE {Question(f), Closing(f)}
  BY OneEntry, TwoEntries, NoEntry
<1>3. ASSUME NEW S, Opening(f) \notin S, Closing(f) \notin S PROVE Once(t, S)
  <2>1. Once(rest, S)
    BY <1>3, OneOnce, TwoOnce
  <2>2. Once(<<Opening(f)>>, S) /\ Entries(<<Opening(f)>>) \intersect S = {}
    BY <1>2, <1>3, OneOnce
  <2> HIDE DEF rest, t
  <2> QED BY <1>1, <1>2, <2>1, <2>2, JoinOnce
<1> HIDE DEF rest, t
<1>4. IsSequence(t) /\ Entries(t) = Entries(<<Opening(f)>>) \union Entries(rest)
  BY <1>1, <1>2, JoinEntries
<1>5. Entries(t) = Schedule(f)
  BY <1>2, <1>4 DEF Schedule
<1> QED BY <1>3, <1>4, <1>5 DEF t

Talk == setup \in Setups /\ WellAddressed /\ ConversationInv

(* The agents are connected as the flow needs them.                             *)
Tested(e, f) ==
    /\ f \in FlowSet /\ e = TestAt(40, f) /\ clock = 40
    /\ agenda' = RemoveAt(agenda, NextDue) \o TestEvents(e, FlowKey(f), AskTime(f))
    /\ UNCHANGED <<net, session, fk, received, aborted>>
    /\ Wired /\ WiringInv' /\ Linked(f)'

(* A call of test connects its agents and no other question's.                  *)
LEMMA TestIs ==
    ASSUME Talk, Due # {},
           UNCHANGED <<setup, ch, share, authentic, clock>>,
           NEW e, e = agenda[NextDue], e.do = "test",
           TestDirect(e) \/ TestViaHead(e)
    PROVE  \E f \in FlowSet : Tested(e, f)
<1>1. InPlace(e) /\ e.at = clock /\ setup \in Setups /\ WellAddressed
  BY NextCall DEF Talk
<1>2. ~IsFlow(e) /\ ~IsRelay(e) /\ ~IsWatch(e)
  BY EntryShapes DEF IsFlow, IsRelay, IsWatch
<1>3. PICK f \in FlowSet : e = TestAt(40, f)
  BY <1>1, <1>2 DEF InPlace, IsScript
<1>4. /\ e.at = 40 /\ e.msg.from = f.src /\ e.msg.to = f.dst
  BY <1>3, Shapes
<1>5. f.src \in UdpNodes /\ f.dst \in UdpNodes /\ f.agent \in UdpNodes
  BY <1>1, Addresses
<1>6. ASSUME Wired, WiringInv', Linked(f)', NEW key, NEW time, key = FlowKey(f), time = AskTime(f),
             agenda' = RemoveAt(agenda, NextDue) \o TestEvents(e, key, time),
             UNCHANGED <<net, session, fk, received, aborted>>
      PROVE  Tested(e, f)
  BY <1>1, <1>3, <1>4, <1>6 DEF Tested
<1>7. CASE TestDirect(e)
  <2>1. Direct(f)
    BY <1>4, <1>7 DEF TestDirect, Direct
  <2>2. AskTime(f) = 44 /\ FlowKey(f) = PairKey(share[f.src], share[f.dst])
    BY <2>1 DEF AskTime, FlowKey
  <2>3. UNCHANGED <<node, dst>>
    BY <1>7 DEF TestDirect
  <2>4. Wired /\ WiringInv' /\ Linked(f)'
    <3>1. WiringInv /\ Linked(f)
      BY <2>1 DEF Talk, ConversationInv, WiringInv
    <3> QED BY <2>3, <3>1, SameWires
  <2> QED BY <1>4, <1>6, <1>7, <2>2, <2>4 DEF TestDirect
<1>8. CASE TestViaHead(e)
  <2>1. ~Direct(f) /\ f \in CrossFlows
    BY <1>4, <1>8 DEF TestViaHead, Direct, CrossFlows
  <2>2. AskTime(f) = 43
        /\ FlowKey(f) = TripleKey(share[f.src], share[HeadFor(f.dst)], share[f.dst])
    BY <2>1 DEF AskTime, FlowKey
  <2>3. /\ node' = [node EXCEPT ![Udpch] = HeadFor(f.dst)]
        /\ dst' = Connected(f.src, Udpch, dst)
        /\ agenda' = RemoveAt(agenda, NextDue) \o TestEvents(e, FlowKey(f), AskTime(f))
        /\ UNCHANGED <<net, session, fk, received, aborted>>
    BY <1>4, <1>5, <1>8, <2>2 DEF TestViaHead
  <2>4. /\ DOMAIN node' = Agents /\ DOMAIN dst' = Agents
        /\ dst'[f.src] = Udpch /\ node'[Udpch] = HeadFor(f.dst)
        /\ \A a \in Agents : a # Udpch => node'[a] = node[a]
        /\ \A a \in Agents : a # Udpch /\ a # f.src => dst'[a] = dst[a]
    BY <1>5, <2>3, Numbers DEF Connected, Talk, ConversationInv, WiringInv
  <2>5. Linked(f)'
    <3>1. f.agent = f.src /\ Way(f)' = Udpch /\ Goal(f)' = HeadFor(f.dst)
      BY <1>1, <2>1, Addresses, Constant DEF Way, Goal
    <3> QED BY <2>4, <3>1 DEF Linked
  <2>6. ASSUME NEW g \in FlowSet
        PROVE  (Linked(g) => Linked(g)') /\ (Relays(g) => Relays(g)')
    <3>1. CASE Direct(g)
      <4>1. g.agent # f.src /\ g.agent \in UdpNodes /\ Way(g) \in UdpNodes
        BY <1>1, <2>1, <3>1, Addresses DEF Way
      <4>2. dst'[g.agent] = dst[g.agent] /\ node'[Way(g)] = node[Way(g)]
        BY <2>4, <4>1, Numbers
      <4>3. Linked(g) => Linked(g)'
        BY <4>2, Constant DEF Linked
      <4>4. ~Relays(g)
        BY <3>1 DEF Relays, CrossFlows
      <4> QED BY <4>3, <4>4
    <3>2. CASE ~Direct(g)
      <4>1. g = f
        BY <1>1, <2>1, <3>2, Addresses
      <4>2. Udpch2 \in Agents /\ Udpch2 # Udpch /\ Udpch2 # f.src
        BY <1>5, Numbers
      <4>3. dst'[Udpch2] = dst[Udpch2] /\ node'[Udpch2] = node[Udpch2]
        BY <2>4, <4>2
      <4>4. Relays(g) => Relays(g)'
        BY <4>3, Constant DEF Relays
      <4> QED BY <2>5, <4>1, <4>4
    <3> QED BY <3>1, <3>2
  <2>7. Wired
    BY <2>6 DEF Wired
  <2>8. WiringInv'
    <3>1. \A a \in UdpNodes : node'[a] = FirstNode[a]
      BY <2>4, Numbers DEF Talk, ConversationInv, WiringInv
    <3>2. \A g \in FlowSet' : Direct(g)' => Linked(g)'
      BY <2>7, Constant DEF Wired, Talk, ConversationInv, WiringInv
    <3> QED BY <2>4, <3>1, <3>2 DEF WiringInv, FirstNode
  <2> QED BY <1>6, <2>3, <2>5, <2>7, <2>8
<1> QED BY <1>7, <1>8

(* A question has its time and its sender to tell it from others.               *)
LEMMA FormsAre ==
    ASSUME NEW f \in CrossFlows
    PROVE  /\ \A x \in AskForms(f) :
                 x.do = "test" \/ (x.do = "send" /\ x.at = 43 /\ x.msg.kind = "data")
           /\ \A x \in TellForms(f) : x.do = "send" /\ x.at = 83 /\ x.msg.kind = "data"
           /\ AskPacket(f).msg.kind = "data" /\ TellPacket(f).msg.kind = "data"
           /\ Question(f) \in AskForms(f) /\ TestAt(40, f) \in AskForms(f)
           /\ Answer(f) \in TellForms(f)
<1>1. AskTime(f) = 43
  BY DEF CrossFlows, AskTime
<1>2. /\ TestAt(40, f).do = "test"
      /\ Question(f).do = "send" /\ Question(f).at = 43 /\ Question(f).msg.kind = "data"
      /\ Answer(f).at = 83 /\ Answer(f).msg.kind = "data" /\ Answer(f).do = "send"
  <2>1. /\ TestAt(40, f).do = "test"
        /\ Question(f).do = "send" /\ Question(f).at = 43
        /\ Answer(f).do = "send" /\ Answer(f).at = 83
        /\ Question(f).msg = Asks(f) /\ Answer(f).msg = Tells(f)
    <3>1. TestAt(40, f).do = "test"
      BY Shapes
    <3> QED BY <1>1, <3>1, EntryShapes
  <2> QED BY <2>1, Shapes
<1>3. AskPacket(f).msg.kind = "data" /\ TellPacket(f).msg.kind = "data"
  <2>1. AskPacket(f).msg = Asks(f) /\ TellPacket(f).msg = Tells(f)
    BY PacketShapes DEF AskPacket, TellPacket
  <2> QED BY <2>1, Shapes
<1> QED BY <1>2, <1>3 DEF AskForms, TellForms

LEMMA TestTalks ==
    ASSUME Talk, Due # {},
           UNCHANGED <<setup, ch, share, authentic, clock>>,
           NEW e, e = agenda[NextDue], NEW f, Tested(e, f)
    PROVE  ConversationInv'
<1> DEFINE t == TestEvents(e, FlowKey(f), AskTime(f))
<1>1. /\ f \in FlowSet /\ e = TestAt(40, f) /\ clock = 40
      /\ UNCHANGED <<net, session, fk, received, aborted>>
      /\ Wired /\ WiringInv' /\ Linked(f)'
      /\ agenda' = RemoveAt(agenda, NextDue) \o t
  BY DEF Tested
<1>2. /\ IsSequence(t) /\ Entries(t) = Schedule(f)
      /\ \A S : Opening(f) \notin S /\ Closing(f) \notin S => Once(t, S)
  BY <1>1, Scheduling
<1> HIDE DEF t
<1>3. Replaced(e, t)
  BY <1>1, <1>2, Replacing DEF Talk
<1>4. /\ Opening(f).do = "send" /\ Opening(f).at = 41 /\ Opening(f).at >= clock
      /\ Closing(f).do = "send" /\ Closing(f).at \in {44, 45} /\ Closing(f).at >= clock
      /\ Question(f).do = "send" /\ Question(f).at \in {43, 44} /\ Question(f).at >= clock
      /\ (Question(f).at = 44 <=> Direct(f))
  <2>1. /\ Opening(f).do = "send" /\ Opening(f).at = 41
        /\ Closing(f).do = "send" /\ Closing(f).at = AskTime(f) + 1
        /\ Question(f).do = "send" /\ Question(f).at = AskTime(f)
        /\ AskTime(f) \in {43, 44} /\ (AskTime(f) = 44 <=> Direct(f))
    BY EntryShapes
  <2> QED BY <1>1, <2>1
<1>5. ASSUME NEW x \in Schedule(f) PROVE InPlace(x)'
  <2>1. x = Opening(f) \/ (FlowKey(f) # NoKey /\ x \in {Question(f), Closing(f)})
    BY <1>5 DEF Schedule
  <2>2. IsFlow(x)'
    BY <1>1, <2>1, Constant, ShapesStay DEF IsFlow
  <2>3. (x.at >= clock)'
    BY <1>1, <1>4, <2>1
  <2> QED BY <2>2, <2>3 DEF InPlace
<1>6. \A x \in Entries(agenda') : InPlace(x)'
  <2>1. \A x \in Entries(agenda) : InPlace(x)'
    BY <1>1, StaysInPlace DEF Talk, ConversationInv
  <2> QED BY <1>2, <1>3, <1>5, <2>1 DEF Replaced
<1>7. \A p \in Entries(net') : OnWay(p)'
  BY <1>1, StaysInPlace DEF Talk, ConversationInv
<1>8. ASSUME NEW g \in CrossFlows PROVE Token(g)'
  <2>1. Token(g) /\ g \in FlowSet /\ ~Direct(g)
    BY DEF Talk, ConversationInv, TokenInv, CrossFlows
  <2>2. \A S \in {AskForms(g), TellForms(g)} : Opening(f) \notin S /\ Closing(f) \notin S
    BY <1>4, FormsAre
  <2>3. \A S \in {AskForms(g), TellForms(g)} : Once(t, S)
    BY <1>2, <2>2
  <2>4. CASE Direct(f)
    <3>1. \A S \in {AskForms(g), TellForms(g)} : Question(f) \notin S
      BY <1>4, <2>4, FormsAre
    <3>2. \A S \in {AskForms(g), TellForms(g)} : Entries(t) \intersect S = {}
      BY <1>2, <2>2, <3>1 DEF Schedule
    <3>3. Untouched(g)
      BY <1>1, <1>3, <2>3, <3>2 DEF Replaced, Untouched
    <3> QED BY <1>1, <2>1, <3>3, TokenStays
  <2>5. CASE ~Direct(f)
    <3>1. g = f
      BY <1>1, <2>1, <2>5, Addresses DEF Talk, CrossFlows
    <3>2. e \in AskForms(g) /\ e \in Entries(agenda)
      BY <1>1, <1>3, <3>1, FormsAre DEF Replaced
    <3>3. /\ Once(agenda, AskForms(g)) /\ Once(agenda, TellForms(g))
          /\ Once(net, {AskPacket(g)}) /\ Once(net, {TellPacket(g)})
          /\ AskPacket(g) \notin Entries(net)
          /\ Entries(agenda) \intersect TellForms(g) = {} \/ TellPacket(g) \notin Entries(net)
          /\ fk # 1
          /\ fk = 0 => Gone(TellForms(g), TellPacket(g))
      BY <2>1, <3>2 DEF Token, Single, Gone
    <3>4. Entries(t) \intersect TellForms(g) = {}
      BY <1>2, <1>4, FormsAre DEF Schedule
    <3>5. Once(agenda', AskForms(g)) /\ Once(agenda', TellForms(g))
      BY <1>3, <2>3, <3>2, <3>3, <3>4 DEF Replaced
    <3>6. Entries(agenda') \intersect TellForms(g) \subseteq Entries(agenda)
      BY <1>3, <3>4 DEF Replaced
    <3>7. /\ AskForms(g)' = AskForms(g) /\ TellForms(g)' = TellForms(g)
          /\ AskPacket(g)' = AskPacket(g) /\ TellPacket(g)' = TellPacket(g)
      BY ShapesStay
    <3>8. Single(AskForms(g), AskPacket(g))' /\ Single(TellForms(g), TellPacket(g))'
      BY <1>1, <3>3, <3>5, <3>6, <3>7 DEF Single
    <3>9. (fk = 0 => Gone(TellForms(g), TellPacket(g)))'
      BY <1>1, <3>3, <3>6, <3>7 DEF Gone
    <3> QED BY <1>1, <3>3, <3>8, <3>9 DEF Token
  <2> QED BY <2>4, <2>5
<1>9. TokenInv'
  BY <1>1, <1>8, Constant DEF Talk, ConversationInv, TokenInv
<1>10. HeadsInv' /\ TextInv' /\ Causes'
  BY <1>1, SameParts DEF Talk, ConversationInv
<1>11. IsSequence(agenda') /\ IsSequence(net') /\ clock' \in Times
  BY <1>1, <1>3 DEF Talk, ConversationInv, Replaced
<1> QED BY <1>1, <1>6, <1>7, <1>9, <1>10, <1>11 DEF ConversationInv

-----------------------------------------------------------------------------------
(* Sending                                                                      *)

(* Who else may look like a relayed question.                                   *)
LEMMA QuestionsApart ==
    ASSUME Talk, NEW f \in FlowSet, Direct(f), NEW g \in CrossFlows
    PROVE  /\ FlowPacket(f, Asks(f)) # AskPacket(g)
           /\ FlowPacket(f, Asks(f)) # TellPacket(g)
           /\ Question(f) \notin AskForms(g) /\ Question(f) \notin TellForms(g)
<1>1. /\ FlowPacket(f, Asks(f)).msg = Asks(f) /\ AskPacket(g).msg = Asks(g)
      /\ TellPacket(g).msg = Tells(g)
  BY PacketShapes DEF AskPacket, TellPacket
<1>2. /\ Asks(f).from = f.src /\ Asks(f).to = f.dst /\ Asks(f).origin = None
      /\ Asks(g).from = g.src /\ Asks(g).to = g.dst /\ Asks(g).origin = None
      /\ Tells(g).origin = g.src
  BY Shapes
<1>3. g \in FlowSet /\ ~Direct(g)
  BY DEF CrossFlows
<1>4. g.src # None
  <2>1. g.src \in Nodes
    BY <1>3, Addresses DEF Talk
  <2> QED BY <2>1, Numbers
<1>5. ~(f.src = g.src /\ f.dst = g.dst)
  BY <1>3 DEF Direct
<1>6. Question(f).at = 44 /\ Question(f).do = "send"
  <2>1. Question(f).at = AskTime(f) /\ Question(f).do = "send" /\ AskTime(f) = 44
    BY EntryShapes
  <2> QED BY <2>1
<1>7. \A x \in AskForms(g) \union TellForms(g) : x.do = "test" \/ x.at \in {43, 83}
  BY FormsAre
<1>8. Question(f) \notin AskForms(g) /\ Question(f) \notin TellForms(g)
  BY <1>6, <1>7
<1> QED BY <1>1, <1>2, <1>4, <1>5, <1>8

Packet(e) == [src |-> e.agent, to |-> dst[e.agent], msg |-> e.msg]

(* What a send puts into the network.                                           *)
LEMMA SendIs ==
    ASSUME Talk, NEW e, InPlace(e), e.at = clock, e.do = "send"
    PROVE  /\ clock # 40 /\ OnWay(Packet(e))
           /\ \/ e.msg.kind # "data" /\ Packet(e).msg.kind # "data"
              \/ \E f \in FlowSet : e = Question(f) /\ Packet(e) = FlowPacket(f, Asks(f))
              \/ \E f \in CrossFlows : e = Answer(f) /\ Packet(e) = TellPacket(f)
<1>1. Packet(e).src = e.agent /\ Packet(e).to = dst[e.agent] /\ Packet(e).msg = e.msg
  BY DEF Packet
<1>2. ~IsScript(e)
  BY Shapes DEF IsScript
<1>3. ASSUME e.msg.kind = "sstop", clock # 40
      PROVE  OnWay(Packet(e)) /\ e.msg.kind # "data" /\ Packet(e).msg.kind # "data"
  BY <1>1, <1>3 DEF OnWay
<1>4. CASE IsFlow(e)
  <2>1. PICK f \in FlowSet : /\ Linked(f)
                             /\ \/ e = Opening(f)
                                \/ FlowKey(f) # NoKey /\ e \in {Question(f), Closing(f)}
    BY <1>4 DEF IsFlow
  <2>2. CASE e = Opening(f)
    <3>1. e.at = 41 /\ e.agent = f.agent /\ e.msg = Hello(f)
      BY <2>2, EntryShapes
    <3>2. Packet(e) = FlowPacket(f, Hello(f))
      BY <2>1, <3>1 DEF Packet, FlowPacket, Linked
    <3>3. OnWay(Packet(e))
      BY <2>1, <3>1, <3>2 DEF OnWay, IsFlowPacket
    <3>4. e.msg.kind = "sstart"
      BY <3>1, Shapes
    <3> QED BY <1>1, <3>1, <3>3, <3>4
  <2>3. CASE e = Question(f) /\ FlowKey(f) # NoKey
    <3>1. e.at \in {43, 44} /\ e.agent = f.agent /\ e.msg = Asks(f)
      <4>1. Question(f).at = AskTime(f) /\ Question(f).agent = f.agent
            /\ Question(f).msg = Asks(f) /\ AskTime(f) \in {43, 44}
        BY EntryShapes
      <4> QED BY <2>3, <4>1
    <3>2. Packet(e) = FlowPacket(f, Asks(f))
      BY <2>1, <3>1 DEF Packet, FlowPacket, Linked
    <3>3. clock < 82 /\ clock # 40
      BY <3>1
    <3>4. OnWay(Packet(e))
      BY <2>1, <2>3, <3>2, <3>3 DEF OnWay, IsFlowPacket
    <3> QED BY <2>3, <3>2, <3>3, <3>4
  <2>4. CASE e = Closing(f)
    <3>1. Closing(f).at = AskTime(f) + 1 /\ Closing(f).msg.kind = "sstop"
          /\ AskTime(f) \in {43, 44}
      BY EntryShapes
    <3>2. clock # 40
      BY <2>4, <3>1
    <3> QED BY <1>3, <2>4, <3>1, <3>2
  <2> QED BY <2>1, <2>2, <2>3, <2>4
<1>5. CASE IsRelay(e)
  <2>1. PICK f \in CrossFlows : Relays(f) /\ e \in {HeadOpening(f), Answer(f), HeadClosing(f)}
    BY <1>5 DEF IsRelay
  <2>2. CASE e = HeadOpening(f)
    <3>1. e.at = 82 /\ e.agent = Udpch2 /\ e.msg = HeadHello(f)
      BY <2>2, EntryShapes
    <3>2. Packet(e) = HeadPacket(f, HeadHello(f))
      BY <2>1, <3>1 DEF Packet, HeadPacket, Relays
    <3>3. OnWay(Packet(e))
      BY <2>1, <3>1, <3>2 DEF OnWay, IsRelayPacket
    <3>4. e.msg.kind = "sstart"
      BY <3>1, Shapes
    <3> QED BY <1>1, <3>1, <3>3, <3>4
  <2>3. CASE e = Answer(f)
    <3>1. e.at = 83 /\ e.agent = Udpch2 /\ e.msg = Tells(f)
      BY <2>3, EntryShapes
    <3>2. Packet(e) = HeadPacket(f, Tells(f))
      BY <2>1, <3>1 DEF Packet, HeadPacket, Relays
    <3>3. OnWay(Packet(e))
      BY <2>1, <3>1, <3>2 DEF OnWay, IsRelayPacket
    <3> QED BY <2>3, <3>1, <3>2, <3>3 DEF TellPacket
  <2>4. CASE e = HeadClosing(f)
    <3>1. HeadClosing(f).at = 85 /\ HeadClosing(f).msg.kind = "sstop"
      BY EntryShapes
    <3> QED BY <1>3, <2>4, <3>1
  <2> QED BY <2>1, <2>2, <2>3, <2>4
<1>6. CASE IsWatch(e)
  BY <1>3, <1>6 DEF IsWatch
<1> QED BY <1>2, <1>4, <1>5, <1>6 DEF InPlace

(* A copy goes into the network, if the agent is connected at all.              *)
LEMMA Sent ==
    ASSUME Talk, Due # {}, NEW e, e = agenda[NextDue], Send(e)
    PROVE  /\ Replaced(e, << >>)
           /\ IsSequence(net') /\ Entries(net) \subseteq Entries(net')
           /\ \/ net' = net
              \/ /\ dst[e.agent] # None
                 /\ Entries(net') = Entries(net) \union {Packet(e)}
           /\ dst[e.agent] # None => Packet(e) \in Entries(net')
           /\ \A S : Once(net, S) /\ (Packet(e) \notin S \/ Entries(net) \intersect S = {})
                       => Once(net', S)
<1>1. IsSequence(net) /\ IsSequence(agenda) /\ NextDue \in DOMAIN agenda
  BY NextCall DEF Talk, ConversationInv
<1>2. Replaced(e, << >>)
  <2>1. RemoveAt(agenda, NextDue) \o << >> = RemoveAt(agenda, NextDue)
    BY <1>1, RemoveEntry, ConcatEmptySeq DEF IsSequence
  <2>2. agenda' = RemoveAt(agenda, NextDue) \o << >>
    BY <2>1 DEF Send
  <2> QED BY <2>2, NoEntry, Replacing DEF Talk
<1>3. net' = IF dst[e.agent] = None THEN net ELSE Append(net, Packet(e))
  BY DEF Send, Packet
<1>4. CASE dst[e.agent] = None
  BY <1>1, <1>2, <1>3, <1>4
<1>5. CASE dst[e.agent] # None
  <2>1. net' = Append(net, Packet(e))
    BY <1>3, <1>5
  <2>2. IsSequence(net') /\ Entries(net') = Entries(net) \union {Packet(e)}
    BY <1>1, <2>1, AppendEntries
  <2>3. \A S : Once(net, S) /\ (Packet(e) \notin S \/ Entries(net) \intersect S = {})
                 => Once(net', S)
    BY <1>1, <2>1, AppendOnce
  <2> QED BY <1>2, <1>5, <2>2, <2>3
<1> QED BY <1>4, <1>5

LEMMA SendTalks ==
    ASSUME Talk, Due # {},
           UNCHANGED <<setup, ch, share, authentic, clock>>,
           NEW e, e = agenda[NextDue], e.do = "send", Send(e)
    PROVE  ConversationInv'
<1>1. InPlace(e) /\ e.at = clock /\ e \in Entries(agenda)
  BY NextCall DEF Talk
<1>2. UNCHANGED <<node, dst, session, fk, received, aborted>>
  BY DEF Send
<1>3. /\ Replaced(e, << >>)
      /\ IsSequence(net')
      /\ Entries(net') \subseteq Entries(net) \union {Packet(e)}
      /\ \A S : Once(net, S) /\ (Packet(e) \notin S \/ Entries(net) \intersect S = {})
                  => Once(net', S)
  BY Sent
<1>4. Wired /\ WiringInv'
  BY <1>2, SameWires DEF Talk, ConversationInv
<1>5. \A x \in Entries(agenda') : InPlace(x)'
  BY <1>3, <1>4, StaysInPlace, NoEntry DEF Talk, ConversationInv, Replaced
<1>6. \A p \in Entries(net') : OnWay(p)'
  <2>1. \A p \in Entries(net) : OnWay(p)'
    BY <1>4, StaysInPlace DEF Talk, ConversationInv
  <2>2. PICK packet : packet = Packet(e)
    OBVIOUS
  <2>3. OnWay(packet)
    BY <1>1, <2>2, SendIs
  <2>4. OnWay(packet)'
    BY <1>4, <2>3, StaysInPlace
  <2> QED BY <1>3, <2>1, <2>2, <2>4
<1>7. ASSUME NEW g \in CrossFlows PROVE Token(g)'
  <2>1. Token(g) /\ g \in FlowSet /\ ~Direct(g)
    BY DEF Talk, ConversationInv, TokenInv, CrossFlows
  <2>2. \A S \in {AskForms(g), TellForms(g)} :
           /\ Once(agenda, S) => Once(agenda', S)
           /\ Entries(agenda') \intersect S \subseteq Entries(agenda)
    BY <1>3, NoEntry, OneOnce DEF Replaced
  <2>3. ASSUME Packet(e) # AskPacket(g), Packet(e) # TellPacket(g) PROVE Token(g)'
    <3>1. Untouched(g)
      BY <1>3, <2>2, <2>3 DEF Untouched
    <3> QED BY <1>2, <2>1, <3>1, TokenStays
  <2>4. /\ Once(agenda, AskForms(g)) /\ Once(agenda, TellForms(g))
        /\ Once(net, {AskPacket(g)}) /\ Once(net, {TellPacket(g)})
        /\ Entries(agenda) \intersect AskForms(g) = {} \/ AskPacket(g) \notin Entries(net)
        /\ Entries(agenda) \intersect TellForms(g) = {} \/ TellPacket(g) \notin Entries(net)
        /\ fk = 1 => Gone(AskForms(g), AskPacket(g))
        /\ fk = 0 => Gone(TellForms(g), TellPacket(g))
    BY <2>1 DEF Token, Single
  <2>5. /\ AskForms(g)' = AskForms(g) /\ TellForms(g)' = TellForms(g)
        /\ AskPacket(g)' = AskPacket(g) /\ TellPacket(g)' = TellPacket(g)
    BY ShapesStay
  <2>6. AskPacket(g) # TellPacket(g)
    <3>1. /\ AskPacket(g).msg = Asks(g) /\ TellPacket(g).msg = Tells(g)
      BY PacketShapes DEF AskPacket, TellPacket
    <3>2. Asks(g).origin = None /\ Tells(g).origin = g.src
      BY Shapes
    <3>3. g.src \in Nodes
      BY <2>1, Addresses DEF Talk
    <3> QED BY <3>1, <3>2, <3>3, Numbers
  <2>7. CASE e = Question(g) /\ Packet(e) = AskPacket(g)
    <3>1. e \in AskForms(g)
      BY <2>7, FormsAre
    <3>2. Entries(agenda') \intersect AskForms(g) = {} /\ AskPacket(g) \notin Entries(net) /\ fk # 1
      BY <1>1, <1>3, <2>4, <3>1, NoEntry DEF Replaced, Gone
    <3>3. Once(net', {AskPacket(g)}) /\ Once(net', {TellPacket(g)})
      BY <1>3, <2>4, <2>6, <2>7, <3>2
    <3>4. TellPacket(g) \in Entries(net') => TellPacket(g) \in Entries(net)
      BY <1>3, <2>6, <2>7
    <3>5. Single(AskForms(g), AskPacket(g))' /\ Single(TellForms(g), TellPacket(g))'
      BY <2>2, <2>4, <2>5, <3>2, <3>3, <3>4 DEF Single
    <3>6. (fk = 0 => Gone(TellForms(g), TellPacket(g)))'
      BY <1>2, <2>2, <2>4, <2>5, <3>4 DEF Gone
    <3> QED BY <1>2, <3>2, <3>5, <3>6 DEF Token
  <2>8. CASE e = Answer(g) /\ Packet(e) = TellPacket(g)
    <3>1. e \in TellForms(g)
      BY <2>8, FormsAre
    <3>2. Entries(agenda') \intersect TellForms(g) = {} /\ TellPacket(g) \notin Entries(net) /\ fk # 0
      BY <1>1, <1>3, <2>4, <3>1, NoEntry DEF Replaced, Gone
    <3>3. Once(net', {AskPacket(g)}) /\ Once(net', {TellPacket(g)})
      BY <1>3, <2>4, <2>6, <2>8, <3>2
    <3>4. AskPacket(g) \in Entries(net') => AskPacket(g) \in Entries(net)
      BY <1>3, <2>6, <2>8
    <3>5. Single(AskForms(g), AskPacket(g))' /\ Single(TellForms(g), TellPacket(g))'
      BY <2>2, <2>4, <2>5, <3>2, <3>3, <3>4 DEF Single
    <3>6. (fk = 1 => Gone(AskForms(g), AskPacket(g)))'
      BY <1>2, <2>2, <2>4, <2>5, <3>4 DEF Gone
    <3> QED BY <1>2, <3>2, <3>5, <3>6 DEF Token
  <2>9. CASE e.msg.kind # "data" /\ Packet(e).msg.kind # "data"
    BY <2>3, <2>9, FormsAre
  <2>10. ASSUME NEW f \in FlowSet, e = Question(f), Packet(e) = FlowPacket(f, Asks(f))
         PROVE  Token(g)'
    <3>1. CASE Direct(f)
      BY <2>3, <2>10, <3>1, QuestionsApart
    <3>2. CASE ~Direct(f)
      <4>1. f = g
        BY <2>1, <3>2, Addresses DEF Talk
      <4> QED BY <2>7, <2>10, <4>1 DEF AskPacket
    <3> QED BY <3>1, <3>2
  <2>11. ASSUME NEW f \in CrossFlows, e = Answer(f), Packet(e) = TellPacket(f)
         PROVE  Token(g)'
    <3>1. f = g
      BY <2>1, Addresses DEF Talk, CrossFlows
    <3> QED BY <2>8, <2>11, <3>1
  <2> QED BY <1>1, <2>9, <2>10, <2>11, SendIs
<1>8. TokenInv'
  BY <1>2, <1>7, Constant DEF Talk, ConversationInv, TokenInv
<1>9. HeadsInv' /\ TextInv' /\ Causes'
  BY <1>2, SameParts DEF Talk, ConversationInv
<1>10. IsSequence(agenda') /\ IsSequence(net') /\ clock' \in Times
  BY <1>3 DEF Talk, ConversationInv, Replaced
<1> QED BY <1>4, <1>5, <1>6, <1>8, <1>9, <1>10 DEF ConversationInv

-----------------------------------------------------------------------------------
(* Monitoring, and packets that schedule nothing                                *)

(* A packet that is lost or changes no more than a session, and an error of     *)
(* which the cause is there.                                                    *)
LEMMA ThinTalks ==
    ASSUME Talk,
           UNCHANGED <<setup, ch, share, authentic, clock, agenda, node, dst, fk, received>>,
           net' = net \/ \E p : Leaves(p), Causes'
    PROVE  ConversationInv'
<1>1. /\ IsSequence(net') /\ Entries(net') \subseteq Entries(net)
      /\ \A S : Once(net, S) => Once(net', S)
  BY DEF Leaves, Arrives, Talk, ConversationInv
<1>2. Wired /\ WiringInv'
  BY SameWires DEF Talk, ConversationInv
<1>3. /\ \A x \in Entries(agenda') : InPlace(x)'
      /\ \A p \in Entries(net') : OnWay(p)'
  BY <1>1, <1>2, StaysInPlace DEF Talk, ConversationInv
<1>4. ASSUME NEW g \in CrossFlows PROVE Token(g)'
  <2>1. Untouched(g)
    BY <1>1 DEF Untouched
  <2> QED BY <2>1, TokenStays DEF Talk, ConversationInv, TokenInv
<1>5. TokenInv'
  BY <1>4, Constant DEF Talk, ConversationInv, TokenInv
<1>6. HeadsInv' /\ TextInv'
  BY SameParts DEF Talk, ConversationInv
<1> QED BY <1>1, <1>2, <1>3, <1>5, <1>6 DEF Talk, ConversationInv

(* monitor has seen to a session: the stops t, or the error.                    *)
Watched(e, t) ==
    /\ Replaced(e, t) /\ clock # 40
    /\ \A x \in Entries(t) : x.at = clock /\ x.do = "send" /\ x.msg.kind = "sstop"
    /\ UNCHANGED <<net, node, dst, session, fk, received, aborted>>

LEMMA MonitorIs ==
    ASSUME Talk, Due # {},
           UNCHANGED <<setup, ch, share, authentic, clock>>,
           NEW e, e = agenda[NextDue], e.do = "monitor", Monitor(e)
    PROVE  \/ Abort("no agent") /\ UNCHANGED net /\ Causes'
           \/ \E t : Watched(e, t)
<1>1. InPlace(e) /\ e.at = clock
  BY NextCall DEF Talk
<1>2. ~IsScript(e) /\ ~IsFlow(e) /\ ~IsRelay(e)
  <2>1. ASSUME NEW f
        PROVE  /\ e # TestAt(40, f) /\ e # Opening(f) /\ e # Question(f) /\ e # Closing(f)
               /\ e # HeadOpening(f) /\ e # Answer(f) /\ e # HeadClosing(f)
    <3>1. TestAt(40, f).do = "test"
      BY Shapes
    <3> QED BY <3>1, EntryShapes
  <2> QED BY <2>1 DEF IsScript, IsFlow, IsRelay
<1>3. clock # 40 /\ e.msg.from \in Sources
  BY <1>1, <1>2 DEF InPlace, IsWatch
<1>4. CASE e.msg.from \notin UdpNodes /\ Abort("no agent") /\ UNCHANGED net
  <2>1. aborted' = "no agent"
    BY <1>4 DEF Abort
  <2>2. PICK f \in CrossFlows : e.msg.from = HeadFor(f.dst)
    BY <1>3, <1>4, Addresses DEF Sources, Talk
  <2>3. PICK x \in Relayed : Flows[x] = f
    BY Addresses DEF Talk
  <2>4. HeadFor(Flows[x].dst) \notin UdpNodes
    BY <1>4, <2>2, <2>3
  <2>5. (\E y \in Relayed : HeadFor(Flows[y].dst) \notin UdpNodes)'
    BY <2>3, <2>4, Constant
  <2>6. Causes'
    BY <2>1, <2>5 DEF Causes
  <2> QED BY <1>4, <2>6
<1> DEFINE stop == SendAt(clock, e.msg.from, Control("sstop", e.msg.from, e.msg.to))
<1>5. ASSUME NEW near, agenda' = RemoveAt(agenda, NextDue) \o [x \in 1 .. Stops(e, near) |-> stop],
             UNCHANGED <<net, node, dst, session, fk, received, aborted>>
      PROVE  \E t : Watched(e, t)
  <2>1. PICK copies : copies = [x \in 1 .. Stops(e, near) |-> stop]
    OBVIOUS
  <2>2. Stops(e, near) \in Nat
    BY SetupFacts DEF Stops, Talk
  <2>3. IsSequence(copies) /\ Entries(copies) \subseteq {stop}
    <3> HIDE DEF stop
    <3> QED BY <2>1, <2>2, CopiesAre
  <2>4. Replaced(e, copies)
    BY <1>5, <2>1, <2>3, Replacing DEF Talk
  <2>5. stop.at = clock /\ stop.do = "send" /\ stop.msg.kind = "sstop"
    BY Fields
  <2> HIDE DEF stop
  <2>6. Watched(e, copies)
    BY <1>3, <1>5, <2>3, <2>4, <2>5 DEF Watched
  <2> QED BY <2>6
<1> QED BY <1>4, <1>5 DEF Monitor

LEMMA MonitorTalks ==
    ASSUME Talk, Due # {},
           UNCHANGED <<setup, ch, share, authentic, clock>>,
           NEW e, e = agenda[NextDue], e.do = "monitor", Monitor(e)
    PROVE  ConversationInv'
<1>1. CASE Abort("no agent") /\ UNCHANGED net /\ Causes'
  BY <1>1, ThinTalks DEF Abort
<1>2. ASSUME NEW t, Watched(e, t) PROVE ConversationInv'
  <2>1. /\ Replaced(e, t) /\ clock # 40
        /\ \A x \in Entries(t) : x.at = clock /\ x.do = "send" /\ x.msg.kind = "sstop"
        /\ UNCHANGED <<net, node, dst, session, fk, received, aborted>>
    BY <1>2 DEF Watched
  <2>2. Wired /\ WiringInv'
    BY <2>1, SameWires DEF Talk, ConversationInv
  <2>3. ASSUME NEW x \in Entries(t) PROVE InPlace(x)'
    <3>1. clock \in Nat
      BY EntryTimes DEF Talk
    <3>2. x.at >= clock
      BY <2>1, <3>1
    <3> QED BY <2>1, <3>2 DEF InPlace, IsWatch
  <2>4. \A x \in Entries(agenda') : InPlace(x)'
    <3>1. \A x \in Entries(agenda) : InPlace(x)'
      BY <2>2, StaysInPlace DEF Talk, ConversationInv
    <3> QED BY <2>1, <2>3, <3>1 DEF Replaced
  <2>5. \A p \in Entries(net') : OnWay(p)'
    BY <2>1, <2>2, StaysInPlace DEF Talk, ConversationInv
  <2>6. ASSUME NEW g \in CrossFlows PROVE Token(g)'
    <3>1. \A S \in {AskForms(g), TellForms(g)} : Entries(t) \intersect S = {}
      BY <2>1, FormsAre
    <3>2. \A S : Entries(t) \intersect S = {} => Once(t, S)
      BY DEF Once, Entries
    <3>3. Untouched(g)
      BY <2>1, <3>1, <3>2 DEF Replaced, Untouched
    <3> QED BY <2>1, <3>3, TokenStays DEF Talk, ConversationInv, TokenInv
  <2>7. TokenInv'
    BY <2>1, <2>6, Constant DEF Talk, ConversationInv, TokenInv
  <2>8. HeadsInv' /\ TextInv' /\ Causes'
    BY <2>1, SameParts DEF Talk, ConversationInv
  <2>9. IsSequence(agenda') /\ IsSequence(net') /\ clock' \in Times
    BY <2>1 DEF Talk, ConversationInv, Replaced
  <2> QED BY <2>2, <2>4, <2>5, <2>7, <2>8, <2>9 DEF ConversationInv
<1> QED BY <1>1, <1>2, MonitorIs

(* Entries t go into the queue.                                                 *)
Joined(t) ==
    /\ IsSequence(agenda') /\ Entries(agenda') = Entries(agenda) \union Entries(t)
    /\ \A S : Once(agenda, S) /\ Once(t, S)
              /\ (Entries(agenda) \intersect S = {} \/ Entries(t) \intersect S = {})
                 => Once(agenda', S)

LEMMA Joining ==
    ASSUME IsSequence(agenda), NEW t, IsSequence(t), agenda' = agenda \o t
    PROVE  Joined(t)
<1>1. IsSequence(agenda') /\ Entries(agenda') = Entries(agenda) \union Entries(t)
  BY JoinEntries
<1>2. ASSUME NEW S, Once(agenda, S), Once(t, S),
             Entries(agenda) \intersect S = {} \/ Entries(t) \intersect S = {}
      PROVE  Once(agenda', S)
  BY <1>2, JoinOnce
<1> QED BY <1>1, <1>2 DEF Joined

LEMMA OpenTalks ==
    ASSUME Talk, UNCHANGED <<setup, ch, share, authentic, clock>>,
           NEW p, Leaves(p), OpenSession(p.msg, node[p.to])
    PROVE  ConversationInv'
<1>1. PICK entry : entry = MonitorAt(clock, p.msg.from, p.msg.to)
  OBVIOUS
<1>2. /\ p \in Entries(net) /\ p.msg.kind = "sstart" /\ OnWay(p)
      /\ agenda' = Append(agenda, entry)
      /\ UNCHANGED <<node, dst, fk, received, aborted>>
  BY <1>1 DEF OpenSession, Leaves, Arrives, Talk, ConversationInv
<1>3. entry.do = "monitor" /\ entry.at = clock /\ entry.msg.from = p.msg.from
  BY <1>1, Fields
<1>4. p.msg.from \in Sources /\ clock # 40
  <2>1. clock # 40 /\ (IsFlowPacket(p) \/ IsRelayPacket(p))
    BY <1>2 DEF OnWay
  <2>2. CASE IsFlowPacket(p)
    <3>1. PICK f \in FlowSet : p = FlowPacket(f, Hello(f)) \/ p = FlowPacket(f, Asks(f))
      BY <2>2 DEF IsFlowPacket
    <3>2. p.msg = Hello(f) \/ p.msg = Asks(f)
      BY <3>1, PacketShapes
    <3>3. p.msg.from = f.src
      BY <3>2, Shapes
    <3> QED BY <2>1, <3>3 DEF Sources
  <2>3. CASE IsRelayPacket(p)
    <3>1. PICK f \in CrossFlows : p = HeadPacket(f, HeadHello(f)) \/ p = HeadPacket(f, Tells(f))
      BY <2>3 DEF IsRelayPacket
    <3>2. p.msg = HeadHello(f) \/ p.msg = Tells(f)
      BY <3>1, PacketShapes
    <3>3. p.msg.from = HeadFor(f.dst)
      BY <3>2, Shapes
    <3> QED BY <2>1, <3>3 DEF Sources
  <2> QED BY <2>1, <2>2, <2>3
<1>5. /\ IsSequence(agenda') /\ Entries(agenda') = Entries(agenda) \union {entry}
      /\ \A S : Once(agenda, S) /\ entry \notin S => Once(agenda', S)
  BY <1>2, AppendEntries, AppendOnce DEF Talk, ConversationInv
<1>6. Wired /\ WiringInv'
  BY <1>2, SameWires DEF Talk, ConversationInv
<1>7. \A x \in Entries(agenda') : InPlace(x)'
  <2>1. \A x \in Entries(agenda) : InPlace(x)'
    BY <1>6, StaysInPlace DEF Talk, ConversationInv
  <2>2. clock \in Nat
    BY EntryTimes DEF Talk
  <2>3. IsWatch(entry)' /\ (entry.at >= clock)'
    BY <1>3, <1>4, <2>2, Constant DEF IsWatch
  <2> QED BY <1>5, <2>1, <2>3 DEF InPlace
<1>8. \A q \in Entries(net') : OnWay(q)'
  BY <1>6, StaysInPlace DEF Talk, ConversationInv, Leaves, Arrives
<1>9. ASSUME NEW g \in CrossFlows PROVE Token(g)'
  <2>1. \A S \in {AskForms(g), TellForms(g)} : entry \notin S
    BY <1>3, FormsAre
  <2>2. Untouched(g)
    <3>1. \A S \in {AskForms(g), TellForms(g)} :
             /\ Once(agenda, S) => Once(agenda', S)
             /\ Entries(agenda') \intersect S \subseteq Entries(agenda)
      BY <1>5, <2>1
    <3> QED BY <3>1 DEF Untouched, Leaves, Arrives
  <2> QED BY <1>2, <2>2, TokenStays DEF Talk, ConversationInv, TokenInv
<1>10. TokenInv'
  BY <1>2, <1>9, Constant DEF Talk, ConversationInv, TokenInv
<1>11. HeadsInv' /\ TextInv' /\ Causes'
  BY <1>2, SameParts DEF Talk, ConversationInv
<1>12. IsSequence(net')
  BY DEF Leaves, Arrives
<1> QED BY <1>5, <1>6, <1>7, <1>8, <1>10, <1>11, <1>12 DEF Talk, ConversationInv

-----------------------------------------------------------------------------------
(* Data arrives                                                                 *)

(* A question where it was sent to, with its key, or what the head made of it.  *)
IsAsked(p, f) ==
    /\ f \in FlowSet /\ p = FlowPacket(f, Asks(f)) /\ p.msg = Asks(f)
    /\ Linked(f) /\ FlowKey(f) # NoKey /\ node[p.to] = Goal(f)
    /\ setup.prompt => clock < 82
IsTold(p, f) ==
    /\ f \in CrossFlows /\ p = TellPacket(f) /\ p.msg = Tells(f)
    /\ Relays(f) /\ node[p.to] = f.dst

(* Data is a question, or a head's answer to one.                               *)
LEMMA DataIs ==
    ASSUME Talk, NEW p \in Entries(net), p.msg.kind = "data"
    PROVE  \E f : IsAsked(p, f) \/ IsTold(p, f)
<1>1. IsFlowPacket(p) \/ IsRelayPacket(p)
  BY DEF Talk, ConversationInv, OnWay
<1>2. CASE IsFlowPacket(p)
  <2>1. PICK f \in FlowSet : /\ Linked(f)
                             /\ \/ p = FlowPacket(f, Hello(f))
                                \/ /\ p = FlowPacket(f, Asks(f)) /\ FlowKey(f) # NoKey
                                   /\ setup.prompt => clock < 82
    BY <1>2 DEF IsFlowPacket
  <2>2. p # FlowPacket(f, Hello(f))
    <3>1. FlowPacket(f, Hello(f)).msg = Hello(f)
      BY PacketShapes
    <3>2. Hello(f).kind = "sstart"
      BY Shapes
    <3> QED BY <3>1, <3>2
  <2>3. p.msg = Asks(f) /\ p.to = Way(f)
    BY <2>1, <2>2, PacketShapes
  <2> QED BY <2>1, <2>2, <2>3 DEF IsAsked, Linked
<1>3. CASE IsRelayPacket(p)
  <2>1. PICK f \in CrossFlows :
           Relays(f) /\ p \in {HeadPacket(f, HeadHello(f)), HeadPacket(f, Tells(f))}
    BY <1>3 DEF IsRelayPacket
  <2>2. p # HeadPacket(f, HeadHello(f))
    <3>1. HeadPacket(f, HeadHello(f)).msg = HeadHello(f)
      BY PacketShapes
    <3>2. HeadHello(f).kind = "sstart"
      BY Shapes
    <3> QED BY <3>1, <3>2
  <2>3. p = TellPacket(f) /\ p.msg = Tells(f) /\ p.to = f.dst
    BY <2>1, <2>2, PacketShapes DEF TellPacket
  <2>4. node[f.dst] = f.dst
    <3>1. f.dst \in UdpNodes /\ FirstNode[f.dst] = f.dst
      BY Addresses DEF Talk, CrossFlows
    <3> QED BY <3>1 DEF Talk, ConversationInv, WiringInv
  <2> QED BY <2>1, <2>3, <2>4 DEF IsTold
<1> QED BY <1>1, <1>2, <1>3

(* The head schedules its sstart, its answer and its sstop once.                *)
LEMMA Relaying ==
    ASSUME NEW f, NEW m, m = Asks(f), NEW tes, tes = HeadFor(f.dst), FlowKey(f) # NoKey
    PROVE  LET t == RelayEvents(m, tes, FlowKey(f), "question")
           IN  /\ IsSequence(t) /\ Entries(t) = {HeadOpening(f), Answer(f), HeadClosing(f)}
               /\ \A S : HeadOpening(f) \notin S /\ HeadClosing(f) \notin S => Once(t, S)
<1> DEFINE t == RelayEvents(m, tes, FlowKey(f), "question")
           a == <<HeadOpening(f)>>
           b == <<Answer(f)>>
           c == <<HeadClosing(f)>>
<1>1. t = a \o b \o c
  <2>1. m.to = f.dst /\ m.from = f.src
    BY Shapes
  <2>2. /\ SendAt(82, Udpch2, Control("sstart", tes, m.to)) = HeadOpening(f)
        /\ SendAt(83, Udpch2, Cipher(tes, m.to, FlowKey(f), "question", m.from)) = Answer(f)
        /\ SendAt(85, Udpch2, Control("sstop", tes, m.to)) = HeadClosing(f)
    BY <2>1 DEF HeadOpening, HeadHello, Answer, Tells, HeadClosing
  <2>3. t = <<SendAt(82, Udpch2, Control("sstart", tes, m.to))>>
              \o <<SendAt(83, Udpch2, Cipher(tes, m.to, FlowKey(f), "question", m.from))>>
              \o <<SendAt(85, Udpch2, Control("sstop", tes, m.to))>>
    BY DEF RelayEvents
  <2> QED BY <2>2, <2>3
<1>2. /\ IsSequence(a) /\ IsSequence(b) /\ IsSequence(c)
      /\ Entries(a) = {HeadOpening(f)} /\ Entries(b) = {Answer(f)}
      /\ Entries(c) = {HeadClosing(f)}
  BY OneEntry
<1>3. \A S : Once(a, S) /\ Once(b, S) /\ Once(c, S)
  BY OneOnce
<1> HIDE DEF a, b, c, t
<1>4. IsSequence(a \o b) /\ Entries(a \o b) = {HeadOpening(f), Answer(f)}
  BY <1>2, JoinEntries
<1>5. IsSequence(t) /\ Entries(t) = {HeadOpening(f), Answer(f), HeadClosing(f)}
  BY <1>1, <1>2, <1>4, JoinEntries
<1>6. ASSUME NEW S, HeadOpening(f) \notin S, HeadClosing(f) \notin S PROVE Once(t, S)
  <2>1. Once(a \o b, S)
    BY <1>2, <1>3, <1>6, JoinOnce
  <2>2. Entries(c) \intersect S = {}
    BY <1>2, <1>6
  <2> QED BY <1>1, <1>2, <1>3, <1>4, <2>1, <2>2, JoinOnce
<1> QED BY <1>5, <1>6 DEF t

(* The head has passed a question on.                                           *)
Passed(p, f) ==
    /\ f \in CrossFlows /\ p = AskPacket(f) /\ FlowKey(f) # NoKey
    /\ agenda' = agenda \o RelayEvents(p.msg, HeadFor(f.dst), FlowKey(f), "question")
    /\ received' = received \union {Annotation(HeadFor(f.dst), p.msg, "question", FALSE)}
    /\ fk' = 1 /\ clock < 82
    /\ UNCHANGED <<session, aborted>> /\ \A a \in UdpNodes \union {Udpch} : node'[a] = node[a]
    /\ Wired /\ WiringInv' /\ Relays(f)'

(* Only a question that was addressed to the head is passed on, and if time     *)
(* were no concern it would be.                                                 *)
LEMMA RelayIs ==
    ASSUME Talk, UNCHANGED <<setup, ch, share, authentic, clock>>,
           NEW p \in Entries(net), RelayData(p.msg, node[p.to])
    PROVE  \/ Abort("late") /\ ~setup.prompt /\ Relayed # {}
           \/ \E f : Passed(p, f)
<1> DEFINE tes == node[p.to]
<1>1. p.msg.kind = "data" /\ p.msg.to # tes
  BY DEF RelayData
<1>2. PICK f : IsAsked(p, f) \/ IsTold(p, f)
  BY <1>1, DataIs
<1>3. ~IsTold(p, f)
  BY <1>1, Shapes DEF IsTold
<1>4. IsAsked(p, f)
  BY <1>2, <1>3
<1>5. p.msg.to = f.dst /\ p.msg.from = f.src /\ p.msg.key = FlowKey(f) /\ p.msg.text = "question"
  BY <1>4, Shapes DEF IsAsked
<1>6. f \in CrossFlows /\ ~Direct(f) /\ tes = HeadFor(f.dst) /\ HeadFor(f.dst) # f.dst
  BY <1>1, <1>4, <1>5 DEF IsAsked, Goal, CrossFlows
<1>7. f.src \in UdpNodes /\ f.dst \in UdpNodes /\ f.src # f.dst /\ f.agent = f.src /\ Relayed # {}
  BY <1>6, Addresses DEF Talk, CrossFlows
<1>8. CASE clock >= 82
  <2>1. clock \in Nat
    BY EntryTimes DEF Talk
  <2>2. Abort("late")
    BY <1>5, <1>7, <1>8 DEF RelayData
  <2> QED BY <1>4, <1>7, <1>8, <2>1, <2>2 DEF IsAsked
<1>9. CASE ~(clock >= 82)
  <2>1. clock < 82
    <3>1. clock \in Nat
      BY EntryTimes DEF Talk
    <3> QED BY <1>9, <3>1
  <2>2. TripleKey(share[p.msg.from], share[tes], share[p.msg.to]) = FlowKey(f)
    BY <1>5, <1>6 DEF FlowKey
  <2>3. Decrypt(FlowKey(f), p.msg) = "question"
    BY <1>5 DEF Decrypt
  <2>4. FlowKey(f) # NoKey
    BY <1>4 DEF IsAsked
  <2>5. /\ node' = [node EXCEPT ![Udpch2] = tes]
        /\ dst' = Connected(f.dst, Udpch2, dst)
        /\ agenda' = agenda \o RelayEvents(p.msg, tes, FlowKey(f), "question")
        /\ fk' = 1
        /\ received' = received \union {Annotation(tes, p.msg, "question", FALSE)}
        /\ UNCHANGED <<session, aborted>>
    BY <1>5, <1>7, <1>9, <2>2, <2>3, <2>4 DEF RelayData
  <2>6. /\ DOMAIN node' = Agents /\ DOMAIN dst' = Agents
        /\ dst'[Udpch2] = f.dst /\ node'[Udpch2] = HeadFor(f.dst)
        /\ \A a \in Agents : a # Udpch2 => node'[a] = node[a]
        /\ \A a \in Agents : a # Udpch2 /\ a # f.dst => dst'[a] = dst[a]
    BY <1>6, <1>7, <2>5, Numbers DEF Connected, Talk, ConversationInv, WiringInv
  <2>7. Relays(f)'
    BY <1>6, <2>4, <2>6, Constant DEF Relays
  <2>8. ASSUME NEW g \in FlowSet
        PROVE  (Linked(g) => Linked(g)') /\ (Relays(g) => Relays(g)')
    <3>1. g.agent # f.dst /\ g.agent \in UdpNodes /\ Way(g) \in UdpNodes \union {Udpch}
      <4>1. CASE Direct(g)
        BY <1>6, <4>1, Addresses DEF Way, Talk
      <4>2. CASE ~Direct(g)
        BY <1>6, <1>7, <4>2, Addresses DEF Way, Talk
      <4> QED BY <4>1, <4>2
    <3>2. dst'[g.agent] = dst[g.agent] /\ node'[Way(g)] = node[Way(g)]
      BY <2>6, <3>1, Numbers
    <3>3. Linked(g) => Linked(g)'
      BY <3>2, Constant DEF Linked
    <3>4. Relays(g) => g = f
      BY <1>6, Addresses DEF Relays, Talk, CrossFlows
    <3> QED BY <2>7, <3>3, <3>4
  <2>9. Wired
    BY <2>8 DEF Wired
  <2>10. WiringInv'
    <3>1. \A a \in UdpNodes : node'[a] = FirstNode[a]
      BY <2>6, Numbers DEF Talk, ConversationInv, WiringInv
    <3>2. \A g \in FlowSet' : Direct(g)' => Linked(g)'
      BY <2>9, Constant DEF Wired, Talk, ConversationInv, WiringInv
    <3> QED BY <2>6, <3>1, <3>2 DEF WiringInv, FirstNode
  <2>11. p = AskPacket(f)
    BY <1>4 DEF IsAsked, AskPacket
  <2>12. \A a \in UdpNodes \union {Udpch} : node'[a] = node[a]
    BY <2>6, Numbers
  <2> QED BY <1>6, <2>1, <2>4, <2>5, <2>7, <2>9, <2>10, <2>11, <2>12 DEF Passed
<1> QED BY <1>8, <1>9

LEMMA RelayTalks ==
    ASSUME Talk, Due = {}, UNCHANGED <<setup, ch, share, authentic, clock>>,
           NEW p, Leaves(p), RelayData(p.msg, node[p.to])
    PROVE  ConversationInv'
<1>1. p \in Entries(net)
  BY DEF Leaves, Arrives
<1>2. CASE Abort("late") /\ ~setup.prompt /\ Relayed # {}
  <2>1. aborted' = "late" /\ UNCHANGED <<agenda, node, dst, fk, received>>
    BY <1>2 DEF Abort
  <2>2. Causes'
    BY <1>2, <2>1, Constant DEF Causes
  <2> QED BY <2>1, <2>2, ThinTalks
<1>3. ASSUME NEW f, Passed(p, f) PROVE ConversationInv'
  <2>1. /\ f \in CrossFlows /\ p = AskPacket(f) /\ FlowKey(f) # NoKey
        /\ fk' = 1 /\ clock < 82 /\ UNCHANGED aborted
        /\ received' = received \union {Annotation(HeadFor(f.dst), p.msg, "question", FALSE)}
        /\ Wired /\ WiringInv' /\ Relays(f)'
    BY <1>3 DEF Passed
  <2>2. p.msg = Asks(f)
    BY <2>1, PacketShapes DEF AskPacket
  <2>3. PICK t : t = RelayEvents(p.msg, HeadFor(f.dst), FlowKey(f), "question")
    OBVIOUS
  <2>4. /\ IsSequence(t) /\ Entries(t) = {HeadOpening(f), Answer(f), HeadClosing(f)}
        /\ \A S : HeadOpening(f) \notin S /\ HeadClosing(f) \notin S => Once(t, S)
    BY <2>1, <2>2, <2>3, Relaying
  <2>5. Joined(t)
    BY <1>3, <2>3, <2>4, Joining DEF Passed, Talk, ConversationInv
  <2>6. /\ HeadOpening(f).at = 82 /\ HeadOpening(f).do = "send" /\ HeadOpening(f).at >= clock
        /\ Answer(f).at = 83 /\ Answer(f).do = "send" /\ Answer(f).at >= clock
        /\ HeadClosing(f).at = 85 /\ HeadClosing(f).do = "send" /\ HeadClosing(f).at >= clock
    <3>1. /\ HeadOpening(f).at = 82 /\ HeadOpening(f).do = "send"
          /\ Answer(f).at = 83 /\ Answer(f).do = "send"
          /\ HeadClosing(f).at = 85 /\ HeadClosing(f).do = "send"
      BY EntryShapes
    <3>2. clock \in Nat
      BY EntryTimes DEF Talk
    <3> QED BY <2>1, <3>1, <3>2
  <2>7. \A x \in Entries(agenda') : InPlace(x)'
    <3>1. \A x \in Entries(agenda) : InPlace(x)'
      BY <2>1, StaysInPlace DEF Talk, ConversationInv
    <3>2. ASSUME NEW x \in Entries(t) PROVE InPlace(x)'
      <4>1. x \in {HeadOpening(f), Answer(f), HeadClosing(f)}
        BY <2>4
      <4>2. IsRelay(x)'
        BY <2>1, <4>1, Constant, ShapesStay DEF IsRelay
      <4>3. (x.at >= clock)'
        BY <2>6, <4>1
      <4> QED BY <4>2, <4>3 DEF InPlace
    <3> QED BY <2>5, <3>1, <3>2 DEF Joined
  <2>8. \A q \in Entries(net') : OnWay(q)'
    BY <2>1, StaysInPlace DEF Talk, ConversationInv, Leaves, Arrives
  <2>9. Token(f)'
    <3>1. Token(f)
      BY <2>1 DEF Talk, ConversationInv, TokenInv
    <3>2. /\ Once(agenda, AskForms(f)) /\ Once(agenda, TellForms(f))
          /\ Once(net, {AskPacket(f)}) /\ Once(net, {TellPacket(f)})
          /\ Entries(agenda) \intersect AskForms(f) = {}
          /\ fk # 1
          /\ fk = 0 => Gone(TellForms(f), TellPacket(f))
      BY <1>1, <2>1, <3>1 DEF Token, Single, Gone
    <3>3. Gone(TellForms(f), TellPacket(f))
      BY <3>2 DEF Talk, ConversationInv, TokenInv
    <3>4. /\ Once(net', {AskPacket(f)}) /\ Once(net', {TellPacket(f)})
          /\ AskPacket(f) \notin Entries(net') /\ TellPacket(f) \notin Entries(net')
      BY <2>1, <3>2, <3>3 DEF Leaves, Arrives, Gone
    <3>5. /\ HeadOpening(f) \notin AskForms(f) /\ HeadOpening(f) \notin TellForms(f)
          /\ HeadClosing(f) \notin AskForms(f) /\ HeadClosing(f) \notin TellForms(f)
          /\ Answer(f) \notin AskForms(f)
      BY <2>1, <2>6, FormsAre
    <3>6. /\ Once(agenda', AskForms(f)) /\ Once(agenda', TellForms(f))
          /\ Entries(agenda') \intersect AskForms(f) = {}
      BY <2>4, <2>5, <3>2, <3>3, <3>5 DEF Joined, Gone
    <3>7. /\ AskForms(f)' = AskForms(f) /\ TellForms(f)' = TellForms(f)
          /\ AskPacket(f)' = AskPacket(f) /\ TellPacket(f)' = TellPacket(f)
      BY ShapesStay
    <3> QED BY <2>1, <3>4, <3>6, <3>7 DEF Token, Single, Gone
  <2>10. TokenInv'
    <3>1. \A g \in CrossFlows : g = f
      BY <2>1, Addresses DEF Talk, CrossFlows
    <3> QED BY <2>1, <2>9, <3>1, Constant DEF TokenInv
  <2>11. TextInv'
    <3>1. Annotation(HeadFor(f.dst), p.msg, "question", FALSE).text = "question"
      BY DEF Annotation
    <3> QED BY <2>1, <3>1, Constant DEF Talk, ConversationInv, TextInv
  <2>12. HeadsInv' /\ Causes'
    BY <2>1, SameParts DEF Talk, ConversationInv
  <2>13. IsSequence(agenda') /\ IsSequence(net')
    BY <2>5 DEF Joined, Leaves, Arrives
  <2> QED BY <2>1, <2>7, <2>8, <2>10, <2>11, <2>12, <2>13 DEF Talk, ConversationInv
<1> QED BY <1>1, <1>2, <1>3, RelayIs

(* The receiver decrypts a question, or the simulation ends.                    *)
LEMMA AcceptIs ==
    ASSUME Talk, UNCHANGED <<setup, ch, share, authentic, clock>>,
           NEW p \in Entries(net), AcceptData(p.msg, node[p.to])
    PROVE  \/ \E why : Abort(why) /\ Causes'
           \/ /\ fk' = 0 /\ UNCHANGED <<agenda, node, dst, session, aborted>>
              /\ TextInv'
              /\ fk = 1 => \E f \in CrossFlows : p = TellPacket(f)
<1> DEFINE tes == node[p.to]
           m == p.msg
<1>1. m.kind = "data" /\ m.to = tes
  BY DEF AcceptData
<1>2. PICK f : IsAsked(p, f) \/ IsTold(p, f)
  BY <1>1, DataIs
<1>3. f \in FlowSet /\ Causes /\ TextInv /\ TokenInv /\ fk \in {0, 1}
  BY <1>2 DEF IsAsked, IsTold, CrossFlows, Talk, ConversationInv, TokenInv
<1>4. m.to = f.dst /\ tes = f.dst /\ m.key = FlowKey(f) /\ m.text = "question" /\ FlowKey(f) # NoKey
  <2>1. CASE IsAsked(p, f)
    BY <1>1, <2>1, Shapes DEF IsAsked
  <2>2. CASE IsTold(p, f)
    BY <1>1, <2>2, Shapes DEF IsTold, Relays
  <2> QED BY <1>2, <2>1, <2>2
<1>5. \/ IsAsked(p, f) /\ m.origin = None /\ m.from = f.src
      \/ IsTold(p, f) /\ m.origin = f.src /\ m.from = HeadFor(f.dst) /\ m.origin # None
  <2>1. CASE IsAsked(p, f)
    BY <2>1, Shapes DEF IsAsked
  <2>2. CASE IsTold(p, f)
    <3>1. m.origin = f.src /\ m.from = HeadFor(f.dst)
      BY <2>2, Shapes DEF IsTold
    <3>2. f.src \in Nodes
      BY <1>3, Addresses DEF Talk
    <3> QED BY <2>2, <3>1, <3>2, Numbers
  <2> QED BY <1>2, <2>1, <2>2
<1>6. ASSUME IsAsked(p, f), ~Direct(f)
      PROVE  f \in CrossFlows /\ HeadFor(f.dst) = f.dst /\ fk = 0
  <2>1. f \in CrossFlows /\ HeadFor(f.dst) = f.dst /\ p = AskPacket(f)
    BY <1>3, <1>4, <1>6 DEF IsAsked, Goal, CrossFlows, AskPacket
  <2>2. fk # 1
    BY <1>3, <2>1 DEF TokenInv, Token, Gone
  <2> QED BY <1>3, <2>1, <2>2
<1>7. ASSUME IsTold(p, f) PROVE fk = 1
  <2>1. f \in CrossFlows /\ p = TellPacket(f)
    BY <1>7 DEF IsTold
  <2>2. fk # 0
    BY <1>3, <2>1 DEF TokenInv, Token, Gone
  <2> QED BY <1>3, <2>2
<1>8. CASE fk = 1 /\ m.origin = None
  <2>1. Abort("fk")
    BY <1>8 DEF AcceptData
  <2>2. Direct(f) /\ Relayed # {}
    <3>1. IsAsked(p, f)
      BY <1>5, <1>8
    <3>2. CrossFlows # {}
      BY <1>3, <1>8 DEF TokenInv
    <3> QED BY <1>6, <1>8, <3>1, <3>2, Addresses DEF Talk
  <2>3. Relayed # DOMAIN Flows
    BY <1>3, <2>2 DEF Relayed, FlowSet
  <2>4. Causes'
    BY <2>1, <2>2, <2>3, Constant DEF Abort, Causes
  <2> QED BY <2>1, <2>4
<1>9. CASE ~(fk = 1 /\ m.origin = None)
  <2> DEFINE key == ReceiverKey(m, tes)
  <2>1. \/ key = NoKey /\ Abort("no key")
        \/ /\ fk' = 0
           /\ received' = received \union {Annotation(tes, m, Decrypt(key, m), TRUE)}
           /\ UNCHANGED <<agenda, node, dst, session, aborted>>
    BY <1>9 DEF AcceptData
  <2>2. key = FlowKey(f) \/ (f \in CrossFlows /\ HeadFor(f.dst) = f.dst)
    <3>1. CASE IsTold(p, f)
      <4>1. key = TripleKey(share[f.src], share[HeadFor(f.dst)], share[f.dst]) /\ ~Direct(f)
        BY <1>4, <1>7, <3>1, Shapes DEF ReceiverKey, IsTold, CrossFlows
      <4> QED BY <4>1 DEF FlowKey
    <3>2. CASE IsAsked(p, f) /\ Direct(f)
      <4>1. m.origin = None /\ m.from = f.src
        BY <3>2, Shapes DEF IsAsked
      <4>2. key = PairKey(share[f.src], share[f.dst])
        BY <1>4, <1>9, <4>1 DEF ReceiverKey
      <4> QED BY <3>2, <4>2 DEF FlowKey
    <3> QED BY <1>2, <1>6, <3>1, <3>2
  <2>3. CASE key = NoKey /\ Abort("no key")
    <3>1. f \in CrossFlows /\ HeadFor(f.dst) = f.dst
      BY <1>4, <2>2, <2>3
    <3>2. \E x \in Relayed : HeadFor(Flows[x].dst) = Flows[x].dst
      BY <3>1, Addresses DEF Talk
    <3>3. (\E x \in Relayed : HeadFor(Flows[x].dst) = Flows[x].dst)'
      BY <3>2, Constant
    <3>4. aborted' = "no key"
      BY <2>3 DEF Abort
    <3>5. Causes'
      BY <3>3, <3>4 DEF Causes
    <3> QED BY <2>3, <3>5
  <2>4. CASE /\ fk' = 0
             /\ received' = received \union {Annotation(tes, m, Decrypt(key, m), TRUE)}
             /\ UNCHANGED <<agenda, node, dst, session, aborted>>
    <3>1. PICK a : a = Annotation(tes, m, Decrypt(key, m), TRUE)
      OBVIOUS
    <3>2. a.at = f.dst /\ a.final = TRUE /\ a.text = Decrypt(key, m)
      BY <1>4, <3>1 DEF Annotation
    <3>3. a.text = "question" \/ (a.final /\ a.at = HeadFor(a.at))
      <4>1. CASE key = FlowKey(f)
        BY <1>4, <3>2, <4>1 DEF Decrypt
      <4>2. CASE HeadFor(f.dst) = f.dst
        BY <3>2, <4>2
      <4> QED BY <2>2, <4>1, <4>2
    <3>4. received' = received \union {a}
      BY <2>4, <3>1
    <3>5. TextInv'
      BY <1>3, <3>3, <3>4, Constant DEF TextInv
    <3>6. ASSUME fk = 1 PROVE \E g \in CrossFlows : p = TellPacket(g)
      <4>1. IsTold(p, f)
        BY <1>5, <1>9, <3>6
      <4> QED BY <4>1 DEF IsTold
    <3> QED BY <2>4, <3>5, <3>6
  <2> QED BY <2>1, <2>3, <2>4
<1> QED BY <1>8, <1>9

LEMMA AcceptTalks ==
    ASSUME Talk, UNCHANGED <<setup, ch, share, authentic, clock>>,
           NEW p, Leaves(p), AcceptData(p.msg, node[p.to])
    PROVE  ConversationInv'
<1>1. p \in Entries(net)
  BY DEF Leaves, Arrives
<1>2. CASE \E why : Abort(why) /\ Causes'
  BY <1>2, ThinTalks DEF Abort
<1>3. CASE /\ fk' = 0 /\ UNCHANGED <<agenda, node, dst, session, aborted>>
           /\ TextInv'
           /\ fk = 1 => \E f \in CrossFlows : p = TellPacket(f)
  <2>1. Wired /\ WiringInv'
    BY <1>3, SameWires DEF Talk, ConversationInv
  <2>2. /\ \A x \in Entries(agenda') : InPlace(x)'
        /\ \A q \in Entries(net') : OnWay(q)'
    BY <1>3, <2>1, StaysInPlace DEF Talk, ConversationInv, Leaves, Arrives
  <2>3. ASSUME NEW g \in CrossFlows PROVE Token(g)'
    <3>1. Token(g) /\ fk \in {0, 1}
      BY DEF Talk, ConversationInv, TokenInv
    <3>2. /\ AskForms(g)' = AskForms(g) /\ TellForms(g)' = TellForms(g)
          /\ AskPacket(g)' = AskPacket(g) /\ TellPacket(g)' = TellPacket(g)
      BY ShapesStay
    <3>3. \A S, q : Single(S, q) => /\ Once(agenda', S) /\ Once(net', {q})
                                    /\ \/ Entries(agenda') \intersect S = {}
                                       \/ q \notin Entries(net')
      BY <1>3 DEF Single, Leaves, Arrives
    <3>4. Single(AskForms(g), AskPacket(g))' /\ Single(TellForms(g), TellPacket(g))'
      BY <3>1, <3>2, <3>3 DEF Token, Single
    <3>5. Entries(agenda') \intersect TellForms(g) = {} /\ TellPacket(g) \notin Entries(net')
      <4>1. CASE fk = 0
        BY <1>3, <3>1, <4>1 DEF Token, Gone, Leaves, Arrives
      <4>2. CASE fk = 1
        <5>1. PICK f \in CrossFlows : p = TellPacket(f)
          BY <1>3, <4>2
        <5>2. f = g
          BY Addresses DEF Talk, CrossFlows
        <5>3. Once(net, {TellPacket(g)}) /\ Entries(agenda) \intersect TellForms(g) = {}
          BY <1>1, <3>1, <5>1, <5>2 DEF Token, Single
        <5> QED BY <1>3, <5>1, <5>2, <5>3 DEF Leaves
      <4> QED BY <3>1, <4>1, <4>2
    <3> QED BY <1>3, <3>2, <3>4, <3>5 DEF Token, Gone
  <2>4. TokenInv'
    BY <1>3, <2>3, Constant DEF TokenInv
  <2>5. HeadsInv' /\ Causes'
    BY <1>3, SameParts DEF Talk, ConversationInv
  <2> QED BY <1>3, <2>1, <2>2, <2>4, <2>5 DEF Talk, ConversationInv, Leaves, Arrives
<1> QED BY <1>1, <1>2, <1>3, AcceptIs

-----------------------------------------------------------------------------------
(* The conversation, step by step                                               *)

LEMMA NextMoment ==
    ASSUME clock \in Times, clock < Finish, Tick
    PROVE  clock' \in Times /\ clock' > clock /\ \A y \in Times : y > clock => clock' <= y
<1>1. {y \in Times : y > clock} \subseteq Nat /\ 120 \in {y \in Times : y > clock}
  BY Numbers DEF Times, Finish
<1>2. \E x \in {y \in Times : y > clock} : \A y \in {z \in Times : z > clock} : x <= y
  BY <1>1, LeastNumber
<1>3. \E x \in Times : x > clock /\ \A y \in Times : y > clock => x <= y
  BY <1>2
<1>4. clock' = CHOOSE x \in Times : x > clock /\ \A y \in Times : y > clock => x <= y
  BY DEF Tick
<1> QED BY <1>3, <1>4

LEMMA TickTalks ==
    ASSUME Talk, Due = {}, clock < Finish, setup.prompt => net = << >>, Tick
    PROVE  ConversationInv'
<1>1. UNCHANGED <<setup, ch, share, authentic, agenda, net, node, dst, session, fk, received,
                  aborted>>
  BY DEF Tick
<1>2. clock' \in Times /\ clock' > clock /\ \A y \in Times : y > clock => clock' <= y
  BY NextMoment DEF Talk, ConversationInv
<1>3. clock \in Nat /\ clock' \in Nat /\ clock >= 40
  BY <1>2, EntryTimes, Numbers DEF Talk
<1>4. Wired /\ WiringInv'
  BY <1>1, SameWires DEF Talk, ConversationInv
<1>5. ASSUME NEW x \in Entries(agenda) PROVE InPlace(x)'
  <2>1. x.at \in Times /\ x.at > clock /\ ~IsWatch(x) /\ InPlace(x)
    BY AllLater, EntryTimes DEF Talk, ConversationInv
  <2>2. x.at >= clock'
    BY <1>2, <1>3, <2>1, Numbers
  <2>3. IsScript(x) \/ IsFlow(x) \/ IsRelay(x)
    BY <2>1 DEF InPlace
  <2>4. CASE IsScript(x)
    BY <1>1, <2>2, <2>4, Constant, ShapesStay DEF IsScript, InPlace
  <2>5. CASE IsFlow(x)
    BY <1>1, <1>4, <2>2, <2>5, Constant, ShapesStay DEF IsFlow, InPlace, Wired
  <2>6. CASE IsRelay(x)
    BY <1>1, <1>4, <2>2, <2>6, Constant, ShapesStay DEF IsRelay, InPlace, Wired, CrossFlows
  <2> QED BY <2>3, <2>4, <2>5, <2>6
<1>6. ASSUME NEW p \in Entries(net) PROVE OnWay(p)'
  <2>1. ~setup.prompt
    BY <1>6, NoEntry
  <2>2. OnWay(p) /\ clock' # 40
    BY <1>2, <1>3 DEF Talk, ConversationInv
  <2>3. IsFlowPacket(p) => IsFlowPacket(p)'
    BY <1>1, <1>4, <2>1, Constant, ShapesStay DEF IsFlowPacket, Wired
  <2>4. IsRelayPacket(p) => IsRelayPacket(p)'
    BY <1>1, <1>4, Constant, ShapesStay DEF IsRelayPacket, Wired, CrossFlows
  <2> QED BY <2>2, <2>3, <2>4 DEF OnWay
<1>7. ASSUME NEW g \in CrossFlows PROVE Token(g)'
  <2>1. Untouched(g)
    BY <1>1 DEF Untouched
  <2> QED BY <1>1, <2>1, TokenStays DEF Talk, ConversationInv, TokenInv
<1>8. TokenInv'
  BY <1>1, <1>7, Constant DEF Talk, ConversationInv, TokenInv
<1>9. HeadsInv' /\ TextInv' /\ Causes'
  BY <1>1, SameParts DEF Talk, ConversationInv
<1> QED BY <1>1, <1>2, <1>4, <1>5, <1>6, <1>8, <1>9 DEF Talk, ConversationInv

LEMMA StartTalks ==
    ASSUME Init, WellAddressed
    PROVE  Talk
<1>1. /\ setup \in Setups /\ clock = 40 /\ net = << >> /\ session = {} /\ received = {}
      /\ fk = 0 /\ aborted = "no" /\ node = FirstNode /\ dst = FirstDst
  BY DEF Init
<1>2. /\ IsSequence(agenda) /\ DOMAIN agenda = DOMAIN Flows
      /\ \A x \in DOMAIN Flows : agenda[x] = TestAt(40, Flows[x])
  <2>1. DOMAIN Flows = 1 .. Len(Flows) /\ Len(Flows) \in Nat
    BY <1>1, SetupFacts, LenProperties DEF IsSequence
  <2>2. agenda = [x \in 1 .. Len(Flows) |-> TestAt(40, Flows[x])]
    BY <2>1 DEF Init
  <2>3. agenda \in [1 .. Len(Flows) -> {TestAt(40, f) : f \in FlowSet}]
    BY <2>1, <2>2 DEF FlowSet
  <2>4. agenda \in Seq({TestAt(40, f) : f \in FlowSet})
    BY <2>1, <2>3, SeqDef
  <2> QED BY <2>1, <2>2, <2>4, SequenceOfEntries
<1>3. IsSequence(net) /\ Entries(net) = {} /\ \A S : Once(net, S)
  BY <1>1, NoEntry, OneOnce
<1>4. ASSUME NEW x \in Entries(agenda) PROVE InPlace(x)
  <2>1. PICK f \in FlowSet : x = TestAt(40, f)
    BY <1>2 DEF Entries, FlowSet
  <2>2. x.at = 40
    BY <2>1, Shapes
  <2> QED BY <1>1, <2>1, <2>2 DEF InPlace, IsScript
<1>5. HeadsInv
  <2>1. setup.heads \subseteq Nodes
    BY <1>1, SessionAssumption
  <2>2. ch \in [Clusters -> setup.heads] /\ \A k \in Clusters : ch[k] \in Cluster(k)
    BY DEF Init
  <2> QED BY <2>1, <2>2 DEF HeadsInv
<1>6. WiringInv
  <2>1. ASSUME NEW f \in FlowSet, Direct(f) PROVE Linked(f)
    <3>1. FirstDst[f.agent] \in UdpNodes /\ FirstNode[FirstDst[f.agent]] = f.dst
      BY <1>1, <2>1, Addresses
    <3> QED BY <1>1, <2>1, <3>1 DEF Linked, Way, Goal
  <2>2. DOMAIN FirstNode = Agents /\ DOMAIN FirstDst = Agents
    BY DEF FirstNode, FirstDst
  <2> QED BY <1>1, <2>1, <2>2 DEF WiringInv
<1>7. ASSUME NEW g \in CrossFlows PROVE Token(g)
  <2>1. \A x \in DOMAIN agenda : agenda[x].do = "test" /\ agenda[x].agent = Flows[x].agent
                                 /\ agenda[x].msg.from = Flows[x].src
                                 /\ agenda[x].msg.to = Flows[x].dst
    <3>1. ASSUME NEW x \in DOMAIN agenda, NEW f, f = Flows[x]
          PROVE  /\ agenda[x].do = "test" /\ agenda[x].agent = f.agent
                 /\ agenda[x].msg.from = f.src /\ agenda[x].msg.to = f.dst
      <4>1. agenda[x] = TestAt(40, f)
        BY <1>2, <3>1
      <4>2. /\ TestAt(40, f).do = "test" /\ TestAt(40, f).agent = f.agent
            /\ TestAt(40, f).msg.from = f.src /\ TestAt(40, f).msg.to = f.dst
        BY Shapes
      <4> QED BY <4>1, <4>2
    <3> QED BY <3>1
  <2>2. Question(g).do = "send" /\ Answer(g).do = "send"
    BY EntryShapes
  <2>3. /\ TestAt(40, g).agent = g.agent
        /\ TestAt(40, g).msg.from = g.src /\ TestAt(40, g).msg.to = g.dst
    BY Shapes
  <2>4. ASSUME NEW x \in DOMAIN agenda, agenda[x] \in AskForms(g) PROVE x \in Relayed
    <3>1. agenda[x] = TestAt(40, g)
      BY <2>1, <2>2, <2>4 DEF AskForms
    <3>2. Flows[x].src = g.src /\ Flows[x].dst = g.dst
      BY <2>1, <2>3, <3>1
    <3>3. ~Direct(Flows[x])
      BY <3>2 DEF CrossFlows, Direct
    <3> QED BY <1>2, <3>3 DEF Relayed
  <2>5. Once(agenda, AskForms(g))
    BY <2>4 DEF Once, WellAddressed
  <2>6. Entries(agenda) \intersect TellForms(g) = {}
    BY <2>1, <2>2 DEF Entries, TellForms
  <2>7. Once(agenda, TellForms(g))
    BY <2>6 DEF Once, Entries
  <2> QED BY <1>1, <1>3, <2>5, <2>6, <2>7 DEF Token, Single, Gone
<1>8. TokenInv
  BY <1>1, <1>7 DEF TokenInv
<1>9. TextInv /\ Causes
  BY <1>1 DEF TextInv, Causes
<1> QED BY <1>1, <1>2, <1>3, <1>4, <1>5, <1>6, <1>8, <1>9 DEF Talk, ConversationInv, Times

LEMMA StepsTalk ==
    ASSUME Talk, [Next]_vars
    PROVE  Talk'
<1>1. ASSUME ConversationInv', UNCHANGED <<setup, ch, share, authentic>> PROVE Talk'
  BY <1>1, Constant DEF Talk
<1>2. CASE RunEvent
  <2>1. PICK e : e = agenda[NextDue]
    OBVIOUS
  <2>2. /\ Due # {} /\ UNCHANGED <<setup, ch, share, authentic, clock>>
        /\ \/ e.do = "test" /\ (TestDirect(e) \/ TestViaHead(e))
           \/ e.do = "send" /\ Send(e)
           \/ e.do = "monitor" /\ Monitor(e)
    BY <1>2, <2>1 DEF RunEvent
  <2>3. CASE e.do = "test" /\ (TestDirect(e) \/ TestViaHead(e))
    <3>1. PICK f \in FlowSet : Tested(e, f)
      BY <2>1, <2>2, <2>3, TestIs
    <3> QED BY <1>1, <2>1, <2>2, <3>1, TestTalks
  <2> QED BY <1>1, <2>1, <2>2, <2>3, SendTalks, MonitorTalks
<1>3. CASE Deliver
  <2>1. PICK x \in DOMAIN net : /\ ProcessData(net[x].msg, node[net[x].to])
                                /\ net' = RemoveAt(net, x)
    BY <1>3 DEF Deliver
  <2>2. Due = {} /\ UNCHANGED <<setup, ch, share, authentic, clock>>
    BY <1>3 DEF Deliver
  <2>3. PICK p : p = net[x]
    OBVIOUS
  <2>4. Leaves(p)
    BY <2>1, <2>3, Leaving DEF Talk, ConversationInv
  <2>5. \/ OpenSession(p.msg, node[p.to]) \/ CloseSession(p.msg, node[p.to])
        \/ IgnoreData(p.msg, node[p.to])
        \/ RelayData(p.msg, node[p.to])   \/ AcceptData(p.msg, node[p.to])
    BY <2>1, <2>3 DEF ProcessData
  <2>6. CASE CloseSession(p.msg, node[p.to]) \/ IgnoreData(p.msg, node[p.to])
    <3>1. UNCHANGED <<agenda, node, dst, fk, received, aborted>>
      BY <2>6 DEF CloseSession, IgnoreData
    <3>2. Causes'
      BY <2>2, <3>1, SameParts DEF Talk, ConversationInv
    <3> QED BY <1>1, <2>2, <2>4, <3>1, <3>2, ThinTalks
  <2> QED BY <1>1, <2>2, <2>4, <2>5, <2>6, OpenTalks, RelayTalks, AcceptTalks
<1>4. CASE Lose
  <2>1. PICK x \in DOMAIN net : net' = RemoveAt(net, x)
    BY <1>4 DEF Lose
  <2>2. Leaves(net[x])
    BY <2>1, Leaving DEF Talk, ConversationInv
  <2>3. UNCHANGED <<setup, ch, share, authentic, clock, agenda, node, dst, fk, received, aborted>>
    BY <1>4 DEF Lose
  <2>4. Causes'
    BY <2>3, SameParts DEF Talk, ConversationInv
  <2> QED BY <1>1, <2>2, <2>3, <2>4, ThinTalks
<1>5. CASE Tick
  <2>1. Due = {} /\ clock < Finish /\ (setup.prompt => net = << >>)
    BY <1>5 DEF Tick, Running
  <2> QED BY <1>1, <1>5, <2>1, TickTalks DEF Tick
<1>6. CASE UNCHANGED vars
  <2>1. UNCHANGED <<setup, ch, share, authentic, clock, agenda, net, node, dst, fk, received,
                    aborted>>
    BY <1>6 DEF vars
  <2>2. Causes'
    BY <2>1, SameParts DEF Talk, ConversationInv
  <2> QED BY <1>1, <2>1, <2>2, ThinTalks
<1> QED BY <1>2, <1>3, <1>4, <1>5, <1>6 DEF Next

-----------------------------------------------------------------------------------
(* Sessions close                                                               *)

(* No stop that is to be sent after a time has left the queue.                  *)
StopsKept(time) ==
    \A x \in Entries(agenda) :
       x.do = "send" /\ x.msg.kind = "sstop" /\ x.at > time => x \in Entries(agenda')

LEMMA ClosesStay ==
    ASSUME UNCHANGED <<setup, ch, share, authentic>>, Wired, NEW s, NEW t, NEW time,
           StopsKept(time),
           Closes(s, t, time)
    PROVE  Closes(s, t, time)'
<1>1. CASE Keyless(s, t)
  BY <1>1, Constant DEF Closes
<1>2. ASSUME NEW f \in FlowSet, Closing(f) \in Entries(agenda), Linked(f),
             AskTime(f) + 1 > time, s = f.src, t = Goal(f)
      PROVE  StopAfter(s, t, time)'
  <2>1. /\ Closing(f).do = "send" /\ Closing(f).msg.kind = "sstop"
        /\ Closing(f).at = AskTime(f) + 1
    BY EntryShapes
  <2>2. Closing(f) \in Entries(agenda')
    BY <1>2, <2>1 DEF StopsKept
  <2>3. Linked(f)' /\ Closing(f)' = Closing(f)
    BY <1>2, ShapesStay DEF Wired
  <2> QED BY <1>2, <2>2, <2>3, Constant DEF StopAfter
<1>3. ASSUME NEW f \in FlowSet, HeadClosing(f) \in Entries(agenda), Relays(f), 85 > time,
             s = HeadFor(f.dst), t = f.dst
      PROVE  StopAfter(s, t, time)'
  <2>1. /\ HeadClosing(f).do = "send" /\ HeadClosing(f).msg.kind = "sstop"
        /\ HeadClosing(f).at = 85
    BY EntryShapes
  <2>2. HeadClosing(f) \in Entries(agenda')
    BY <1>3, <2>1 DEF StopsKept
  <2>3. Relays(f)' /\ HeadClosing(f)' = HeadClosing(f)
    BY <1>3, ShapesStay DEF Wired
  <2> QED BY <1>3, <2>2, <2>3, Constant DEF StopAfter
<1>4. CASE StopAfter(s, t, time)
  BY <1>2, <1>3, <1>4 DEF StopAfter, Closes
<1> QED BY <1>1, <1>4 DEF Closes

(* Who opens the session of a flow is told apart by the ends alone.             *)
LEMMA SameEnds ==
    ASSUME NEW f, NEW g, Hello(f) = Hello(g)
    PROVE  f.src = g.src /\ Goal(f) = Goal(g)
<1>1. f.src = g.src /\ f.dst = g.dst
  BY Shapes
<1> QED BY <1>1 DEF Goal, Direct

(* What was to be closed when it opens still is.                                *)
LEMMA OpeningsStay ==
    ASSUME Talk, ClosingInv, UNCHANGED <<setup, ch, share, authentic>>, Wired,
           StopsKept(clock)
    PROVE  /\ \A f \in FlowSet :
                 Opening(f) \in Entries(agenda) => Closes(f.src, Goal(f), 41)'
           /\ \A f \in CrossFlows :
                 HeadOpening(f) \in Entries(agenda) => Closes(HeadFor(f.dst), f.dst, 82)'
           /\ clock' = clock =>
                 /\ \A f \in FlowSet :
                       FlowPacket(f, Hello(f)) \in Entries(net)
                          => Closes(f.src, Goal(f), clock)'
                 /\ \A f \in CrossFlows :
                       HeadPacket(f, HeadHello(f)) \in Entries(net)
                          => Closes(HeadFor(f.dst), f.dst, clock)'
<1>1. PICK now : now = clock
  OBVIOUS
<1>2. now \in Nat
  BY <1>1, EntryTimes DEF Talk
<1>3. ASSUME NEW time, time \in Nat, time >= clock PROVE StopsKept(time)
  <2>1. ASSUME NEW x \in Entries(agenda), x.at > time PROVE x.at > clock
    <3>1. x.at \in Nat
      BY EntryTimes DEF Talk
    <3> QED BY <1>1, <1>2, <1>3, <2>1, <3>1
  <2> QED BY <2>1 DEF StopsKept
<1>4. ASSUME NEW f \in FlowSet, Opening(f) \in Entries(agenda)
      PROVE  Closes(f.src, Goal(f), 41)'
  <2>1. PICK s, t : s = f.src /\ t = Goal(f)
    OBVIOUS
  <2>2. 41 >= clock
    <3>1. Opening(f).at = 41
      BY EntryShapes
    <3> QED BY <1>4, <3>1, EntryTimes DEF Talk
  <2>3. Closes(s, t, 41)
    BY <1>4, <2>1 DEF ClosingInv
  <2>4. Closes(s, t, 41)'
    BY <1>3, <2>2, <2>3, ClosesStay
  <2> QED BY <2>1, <2>4, Constant
<1>5. ASSUME NEW f \in CrossFlows, HeadOpening(f) \in Entries(agenda)
      PROVE  Closes(HeadFor(f.dst), f.dst, 82)'
  <2>1. PICK s, t : s = HeadFor(f.dst) /\ t = f.dst
    OBVIOUS
  <2>2. 82 >= clock
    <3>1. HeadOpening(f).at = 82
      BY EntryShapes
    <3> QED BY <1>5, <3>1, EntryTimes DEF Talk
  <2>3. Closes(s, t, 82)
    BY <1>5, <2>1 DEF ClosingInv
  <2>4. Closes(s, t, 82)'
    BY <1>3, <2>2, <2>3, ClosesStay
  <2> QED BY <2>1, <2>4, Constant
<1>6. ASSUME clock' = clock, NEW f \in FlowSet, FlowPacket(f, Hello(f)) \in Entries(net)
      PROVE  Closes(f.src, Goal(f), clock)'
  <2>1. PICK s, t : s = f.src /\ t = Goal(f)
    OBVIOUS
  <2>2. Closes(s, t, now)
    BY <1>1, <1>6, <2>1 DEF ClosingInv
  <2>3. Closes(s, t, now)'
    BY <1>1, <2>2, ClosesStay
  <2> QED BY <1>1, <1>6, <2>1, <2>3, Constant
<1>7. ASSUME clock' = clock, NEW f \in CrossFlows, HeadPacket(f, HeadHello(f)) \in Entries(net)
      PROVE  Closes(HeadFor(f.dst), f.dst, clock)'
  <2>1. PICK s, t : s = HeadFor(f.dst) /\ t = f.dst
    OBVIOUS
  <2>2. Closes(s, t, now)
    BY <1>1, <1>7, <2>1 DEF ClosingInv
  <2>3. Closes(s, t, now)'
    BY <1>1, <2>2, ClosesStay
  <2> QED BY <1>1, <1>7, <2>1, <2>3, Constant
<1> QED BY <1>4, <1>5, <1>6, <1>7

(* A stop in the network arrives where it was sent to.                          *)
Arriving(s, t, q) ==
    /\ q.msg.kind = "sstop" /\ q.msg.from = s
    /\ q.to \in UdpNodes \union {Udpch} /\ node[q.to] = t

LEMMA SessionsStay ==
    ASSUME UNCHANGED <<setup, ch, share, authentic>>, Wired, StopsKept(0),
           \A a \in UdpNodes \union {Udpch} : node'[a] = node[a],
           NEW s, NEW t, Closes(s, t, 0) \/ StopSent(s, t),
           \A q \in Entries(net) : Arriving(s, t, q) => q \in Entries(net')
    PROVE  Closes(s, t, 0)' \/ StopSent(s, t)'
<1>1. CASE Closes(s, t, 0)
  BY <1>1, ClosesStay
<1>2. CASE StopSent(s, t)
  <2>1. PICK q \in Entries(net) : Arriving(s, t, q)
    BY <1>2 DEF StopSent, Arriving
  <2>2. q \in Entries(net') /\ node'[q.to] = node[q.to]
    BY <2>1 DEF Arriving
  <2> QED BY <2>1, <2>2 DEF StopSent, Arriving
<1> QED BY <1>1, <1>2

(* What a step has to see to: that the sessions are closed, and those that new  *)
(* entries and packets will open.                                               *)
LEMMA StepCloses ==
    ASSUME Talk, ClosingInv, UNCHANGED <<setup, ch, share, authentic, clock>>, Wired,
           StopsKept(clock),
           \A r \in session' : /\ r = <<r[1], r[2]>> /\ clock # 40
                               /\ Closes(r[1], r[2], 0)' \/ StopSent(r[1], r[2])',
           \A f \in FlowSet : Opening(f) \in Entries(agenda')
              => Opening(f) \in Entries(agenda) \/ Closes(f.src, Goal(f), 41)',
           \A f \in CrossFlows : HeadOpening(f) \in Entries(agenda')
              => HeadOpening(f) \in Entries(agenda) \/ Closes(HeadFor(f.dst), f.dst, 82)',
           \A f \in FlowSet : FlowPacket(f, Hello(f)) \in Entries(net')
              => \/ FlowPacket(f, Hello(f)) \in Entries(net)
                 \/ Closes(f.src, Goal(f), clock)',
           \A f \in CrossFlows : HeadPacket(f, HeadHello(f)) \in Entries(net')
              => \/ HeadPacket(f, HeadHello(f)) \in Entries(net)
                 \/ Closes(HeadFor(f.dst), f.dst, clock)'
    PROVE  ClosingInv'
<1>1. /\ \A f \in FlowSet : Opening(f) \in Entries(agenda') => Closes(f.src, Goal(f), 41)'
      /\ \A f \in CrossFlows :
            HeadOpening(f) \in Entries(agenda') => Closes(HeadFor(f.dst), f.dst, 82)'
      /\ \A f \in FlowSet :
            FlowPacket(f, Hello(f)) \in Entries(net') => Closes(f.src, Goal(f), clock)'
      /\ \A f \in CrossFlows :
            HeadPacket(f, HeadHello(f)) \in Entries(net')
               => Closes(HeadFor(f.dst), f.dst, clock)'
  BY OpeningsStay
<1>2. \A f : /\ Opening(f)' = Opening(f) /\ HeadOpening(f)' = HeadOpening(f)
             /\ FlowPacket(f, Hello(f))' = FlowPacket(f, Hello(f))
             /\ HeadPacket(f, HeadHello(f))' = HeadPacket(f, HeadHello(f))
  BY ShapesStay
<1>3. /\ \A f \in FlowSet' : Opening(f)' \in Entries(agenda') => Closes(f.src, Goal(f), 41)'
      /\ \A f \in CrossFlows' :
            HeadOpening(f)' \in Entries(agenda') => Closes(HeadFor(f.dst), f.dst, 82)'
      /\ \A f \in FlowSet' :
            FlowPacket(f, Hello(f))' \in Entries(net') => Closes(f.src, Goal(f), clock)'
      /\ \A f \in CrossFlows' :
            HeadPacket(f, HeadHello(f))' \in Entries(net')
               => Closes(HeadFor(f.dst), f.dst, clock)'
  BY <1>1, <1>2, Constant
<1> QED BY <1>3 DEF ClosingInv

(* Nothing opens: what the steps share that schedule no sstart, send none and   *)
(* leave the stops where they are.                                              *)
LEMMA QuietCloses ==
    ASSUME Talk, ClosingInv, UNCHANGED <<setup, ch, share, authentic, clock>>, Wired,
           StopsKept(0), \A a \in UdpNodes \union {Udpch} : node'[a] = node[a],
           \A x \in Entries(agenda') :
              x.do = "send" /\ x.msg.kind = "sstart" => x \in Entries(agenda),
           Entries(net') \subseteq Entries(net),
           \A r \in session' : \/ /\ r \in session
                                  /\ \A q \in Entries(net) :
                                        Arriving(r[1], r[2], q) => q \in Entries(net')
                               \/ r = <<r[1], r[2]>> /\ clock # 40 /\ Closes(r[1], r[2], 0)
    PROVE  ClosingInv'
<1>1. StopsKept(clock)
  <2>1. clock \in Nat /\ \A x \in Entries(agenda) : x.at \in Nat
    BY EntryTimes DEF Talk
  <2> QED BY <2>1 DEF StopsKept
<1>2. ASSUME NEW r \in session'
      PROVE  /\ r = <<r[1], r[2]>> /\ clock' # 40
             /\ Closes(r[1], r[2], 0)' \/ StopSent(r[1], r[2])'
  <2>1. PICK s, t : s = r[1] /\ t = r[2]
    OBVIOUS
  <2>2. CASE r \in session /\ \A q \in Entries(net) : Arriving(s, t, q) => q \in Entries(net')
    <3>1. r = <<s, t>> /\ clock # 40 /\ (Closes(s, t, 0) \/ StopSent(s, t))
      BY <2>1, <2>2 DEF ClosingInv
    <3>2. Closes(s, t, 0)' \/ StopSent(s, t)'
      BY <2>2, <3>1, SessionsStay
    <3> QED BY <2>1, <3>1, <3>2
  <2>3. CASE r = <<s, t>> /\ clock # 40 /\ Closes(s, t, 0)
    <3>1. Closes(s, t, 0)'
      BY <2>3, ClosesStay
    <3> QED BY <2>1, <2>3, <3>1
  <2> QED BY <1>2, <2>1, <2>2, <2>3
<1>3. ASSUME NEW f
      PROVE  /\ Opening(f) \in Entries(agenda') => Opening(f) \in Entries(agenda)
             /\ HeadOpening(f) \in Entries(agenda') => HeadOpening(f) \in Entries(agenda)
  <2>1. /\ Opening(f).do = "send" /\ Opening(f).msg = Hello(f)
        /\ HeadOpening(f).do = "send" /\ HeadOpening(f).msg = HeadHello(f)
    BY EntryShapes
  <2>2. Hello(f).kind = "sstart" /\ HeadHello(f).kind = "sstart"
    BY Shapes
  <2> QED BY <2>1, <2>2
<1>4. \A r \in session' : /\ r = <<r[1], r[2]>> /\ clock # 40
                          /\ Closes(r[1], r[2], 0)' \/ StopSent(r[1], r[2])'
  BY <1>2
<1> QED BY <1>1, <1>3, <1>4, StepCloses

LEMMA TestCloses ==
    ASSUME Talk, ClosingInv, Due # {},
           UNCHANGED <<setup, ch, share, authentic, clock>>,
           NEW e, e = agenda[NextDue], NEW f, Tested(e, f)
    PROVE  ClosingInv'
<1> DEFINE t == TestEvents(e, FlowKey(f), AskTime(f))
<1>1. /\ f \in FlowSet /\ e = TestAt(40, f) /\ clock = 40
      /\ UNCHANGED <<net, session>> /\ Wired /\ Linked(f)'
      /\ agenda' = RemoveAt(agenda, NextDue) \o t
  BY DEF Tested
<1>2. IsSequence(t) /\ Entries(t) = Schedule(f)
  BY <1>1, Scheduling
<1> HIDE DEF t
<1>3. Replaced(e, t)
  BY <1>1, <1>2, Replacing DEF Talk
<1>4. session' = {} /\ Entries(net') = {}
  BY <1>1 DEF ClosingInv, Talk, ConversationInv, OnWay
<1>5. StopsKept(clock)
  <2>1. e.do = "test"
    BY <1>1, Shapes
  <2> QED BY <1>3, <2>1 DEF StopsKept, Replaced
<1>6. \A g : /\ Opening(g).at = 41 /\ Opening(g).msg = Hello(g) /\ HeadOpening(g).at = 82
             /\ Question(g).at \in {43, 44} /\ Closing(g).at \in {44, 45}
  <2>1. ASSUME NEW g
        PROVE  /\ Opening(g).at = 41 /\ Opening(g).msg = Hello(g) /\ HeadOpening(g).at = 82
               /\ Question(g).at = AskTime(g) /\ Closing(g).at = AskTime(g) + 1
               /\ AskTime(g) \in {43, 44}
    BY EntryShapes
  <2> QED BY <2>1
<1>7. Closes(f.src, Goal(f), 41)'
  <2>1. CASE FlowKey(f) = NoKey
    BY <1>1, <2>1, Constant DEF Closes, Keyless
  <2>2. CASE FlowKey(f) # NoKey
    <3>1. Closing(f) \in Entries(agenda')
      BY <1>2, <1>3, <2>2 DEF Schedule, Replaced
    <3>2. AskTime(f) + 1 > 41
      <4>1. AskTime(f) \in {43, 44}
        BY EntryShapes
      <4> QED BY <4>1
    <3> QED BY <1>1, <3>1, <3>2, Constant, ShapesStay DEF Closes, StopAfter
  <2> QED BY <2>1, <2>2
<1>8. ASSUME NEW g \in FlowSet, Opening(g) \in Entries(agenda')
      PROVE  Opening(g) \in Entries(agenda) \/ Closes(g.src, Goal(g), 41)'
  <2>1. CASE Opening(g) \in Schedule(f)
    <3>1. Opening(g) = Opening(f)
      BY <1>6, <2>1 DEF Schedule
    <3>2. Hello(g) = Hello(f)
      BY <1>6, <3>1
    <3>3. g.src = f.src /\ Goal(g) = Goal(f)
      BY <3>2, SameEnds
    <3> QED BY <1>7, <3>3, Constant
  <2> QED BY <1>2, <1>3, <1>8, <2>1 DEF Replaced
<1>9. ASSUME NEW g \in CrossFlows, HeadOpening(g) \in Entries(agenda')
      PROVE  HeadOpening(g) \in Entries(agenda)
  <2>1. HeadOpening(g) \notin Schedule(f)
    BY <1>6 DEF Schedule
  <2> QED BY <1>2, <1>3, <1>9, <2>1 DEF Replaced
<1> QED BY <1>1, <1>4, <1>5, <1>8, <1>9, StepCloses

(* Who sends an sstart.                                                         *)
LEMMA HelloIs ==
    ASSUME NEW e, InPlace(e), e.do = "send", e.msg.kind = "sstart"
    PROVE  \/ \E f \in FlowSet : e = Opening(f)
           \/ \E f \in CrossFlows : e = HeadOpening(f) /\ Relays(f)
<1>1. ~IsScript(e)
  BY Shapes DEF IsScript
<1>2. \A f : e # Question(f) /\ e # Answer(f) /\ e # Closing(f) /\ e # HeadClosing(f)
  <2>1. ASSUME NEW f
        PROVE  /\ Question(f).msg = Asks(f) /\ Answer(f).msg = Tells(f)
               /\ Closing(f).msg.kind = "sstop" /\ HeadClosing(f).msg.kind = "sstop"
    BY EntryShapes
  <2>2. \A f : Asks(f).kind = "data" /\ Tells(f).kind = "data"
    BY Shapes
  <2> QED BY <2>1, <2>2
<1>3. ~IsWatch(e)
  BY DEF IsWatch
<1> QED BY <1>1, <1>2, <1>3 DEF InPlace, IsFlow, IsRelay

LEMMA SendCloses ==
    ASSUME Talk, ClosingInv, Due # {},
           UNCHANGED <<setup, ch, share, authentic, clock>>,
           NEW e, e = agenda[NextDue], e.do = "send", Send(e)
    PROVE  ClosingInv'
<1>1. InPlace(e) /\ e.at = clock /\ e \in Entries(agenda) /\ clock \in Nat
  BY NextCall, EntryTimes DEF Talk
<1>2. UNCHANGED <<node, dst, session>>
  BY DEF Send
<1>3. Wired
  BY <1>2, SameWires
<1>4. /\ Replaced(e, << >>) /\ Entries(net) \subseteq Entries(net')
      /\ Entries(net') \subseteq Entries(net) \union {Packet(e)}
      /\ dst[e.agent] # None => Packet(e) \in Entries(net')
  BY Sent
<1>5. /\ Entries(agenda') \subseteq Entries(agenda)
      /\ \A x \in Entries(agenda) : x = e \/ x \in Entries(agenda')
  BY <1>4, NoEntry DEF Replaced
<1>6. StopsKept(clock)
  BY <1>1, <1>5 DEF StopsKept
<1>7. Packet(e).src = e.agent /\ Packet(e).to = dst[e.agent] /\ Packet(e).msg = e.msg
  BY DEF Packet
<1>8. ASSUME NEW s, NEW t, e.msg.kind = "sstop", e.msg.from = s,
             dst[e.agent] \in UdpNodes \union {Udpch}, node[dst[e.agent]] = t
      PROVE  StopSent(s, t)'
  <2>1. dst[e.agent] # None
    BY <1>8, Numbers
  <2>2. PICK q : q = Packet(e)
    OBVIOUS
  <2>3. /\ q \in Entries(net') /\ q.msg.kind = "sstop" /\ q.msg.from = s
        /\ q.to \in UdpNodes \union {Udpch} /\ node'[q.to] = t
    BY <1>2, <1>4, <1>7, <1>8, <2>1, <2>2
  <2> QED BY <2>3 DEF StopSent
<1>9. ASSUME NEW s, NEW t, Closes(s, t, 0) \/ StopSent(s, t)
      PROVE  Closes(s, t, 0)' \/ StopSent(s, t)'
  <2>1. CASE Keyless(s, t)
    BY <2>1, Constant DEF Closes
  <2>2. CASE StopSent(s, t)
    BY <1>2, <1>4, <2>2 DEF StopSent
  <2>3. ASSUME NEW f \in FlowSet, Closing(f) \in Entries(agenda), Linked(f),
               s = f.src, t = Goal(f), Closing(f) = e
        PROVE  StopSent(s, t)'
    <3>1. e.agent = f.agent /\ e.msg.kind = "sstop" /\ e.msg.from = f.src
      <4>1. /\ Closing(f).agent = f.agent
            /\ Closing(f).msg.kind = "sstop" /\ Closing(f).msg.from = f.src
        BY EntryShapes
      <4> QED BY <2>3, <4>1
    <3>2. Way(f) \in UdpNodes \union {Udpch}
      BY Addresses DEF Way, Talk
    <3> QED BY <1>8, <2>3, <3>1, <3>2 DEF Linked
  <2>4. ASSUME NEW f \in FlowSet, HeadClosing(f) \in Entries(agenda), Relays(f),
               s = HeadFor(f.dst), t = f.dst, HeadClosing(f) = e
        PROVE  StopSent(s, t)'
    <3>1. e.agent = Udpch2 /\ e.msg.kind = "sstop" /\ e.msg.from = HeadFor(f.dst)
      <4>1. /\ HeadClosing(f).agent = Udpch2
            /\ HeadClosing(f).msg.kind = "sstop" /\ HeadClosing(f).msg.from = HeadFor(f.dst)
        BY EntryShapes
      <4> QED BY <2>4, <4>1
    <3>2. f \in CrossFlows /\ f.dst \in UdpNodes /\ FirstNode[f.dst] = f.dst
      BY <2>4, Addresses DEF Relays, Talk
    <3>3. dst[Udpch2] = f.dst /\ node[f.dst] = f.dst
      BY <2>4, <3>2 DEF Relays, Talk, ConversationInv, WiringInv
    <3> QED BY <1>8, <2>4, <3>1, <3>2, <3>3
  <2>5. ASSUME NEW f \in FlowSet, Closing(f) \in Entries(agenda), Linked(f),
               s = f.src, t = Goal(f), Closing(f) # e
        PROVE  StopAfter(s, t, 0)'
    <3>1. Closing(f) \in Entries(agenda')
      BY <1>5, <2>5
    <3>2. Linked(f)' /\ AskTime(f) + 1 > 0
      <4>1. AskTime(f) \in {43, 44}
        BY EntryShapes
      <4> QED BY <1>3, <2>5, <4>1 DEF Wired
    <3> QED BY <2>5, <3>1, <3>2, Constant, ShapesStay DEF StopAfter
  <2>6. ASSUME NEW f \in FlowSet, HeadClosing(f) \in Entries(agenda), Relays(f),
               s = HeadFor(f.dst), t = f.dst, HeadClosing(f) # e
        PROVE  StopAfter(s, t, 0)'
    <3>1. HeadClosing(f) \in Entries(agenda')
      BY <1>5, <2>6
    <3>2. Relays(f)'
      BY <1>3, <2>6 DEF Wired
    <3> QED BY <2>6, <3>1, <3>2, Constant, ShapesStay DEF StopAfter
  <2>7. CASE StopAfter(s, t, 0)
    BY <2>3, <2>4, <2>5, <2>6, <2>7 DEF StopAfter, Closes
  <2> QED BY <1>9, <2>1, <2>2, <2>7 DEF Closes
<1>10. \A r \in session' : /\ r = <<r[1], r[2]>> /\ clock # 40
                           /\ Closes(r[1], r[2], 0)' \/ StopSent(r[1], r[2])'
  BY <1>2, <1>9 DEF ClosingInv
<1>11. /\ \A f \in FlowSet : Opening(f) \in Entries(agenda) => Closes(f.src, Goal(f), 41)'
       /\ \A f \in CrossFlows :
             HeadOpening(f) \in Entries(agenda) => Closes(HeadFor(f.dst), f.dst, 82)'
  BY <1>3, <1>6, OpeningsStay
<1>12. ASSUME NEW f \in FlowSet, FlowPacket(f, Hello(f)) = Packet(e)
       PROVE  Closes(f.src, Goal(f), clock)'
  <2>1. e.msg = Hello(f) /\ e.agent = f.agent
    BY <1>7, <1>12, PacketShapes
  <2>2. e.msg.kind = "sstart"
    BY <2>1, Shapes
  <2>3. ASSUME NEW g \in CrossFlows, e = HeadOpening(g) PROVE FALSE
    <3>1. e.agent = Udpch2
      <4>1. HeadOpening(g).agent = Udpch2
        BY EntryShapes
      <4> QED BY <2>3, <4>1
    <3> QED BY <2>1, <3>1, Addresses, Numbers DEF Talk
  <2>4. PICK g \in FlowSet : e = Opening(g)
    BY <1>1, <2>2, <2>3, HelloIs
  <2>5. e.msg = Hello(g) /\ clock = 41
    <3>1. Opening(g).msg = Hello(g) /\ Opening(g).at = 41
      BY EntryShapes
    <3> QED BY <1>1, <2>4, <3>1
  <2>6. Closes(g.src, Goal(g), 41)'
    BY <1>1, <1>11, <2>4
  <2>7. g.src = f.src /\ Goal(g) = Goal(f)
    BY <2>1, <2>5, SameEnds
  <2> QED BY <2>5, <2>6, <2>7, Constant
<1>13. ASSUME NEW f \in CrossFlows, HeadPacket(f, HeadHello(f)) = Packet(e)
       PROVE  Closes(HeadFor(f.dst), f.dst, clock)'
  <2>1. e.msg = HeadHello(f) /\ e.agent = Udpch2
    BY <1>7, <1>13, PacketShapes
  <2>2. e.msg.kind = "sstart"
    BY <2>1, Shapes
  <2>3. ASSUME NEW g \in FlowSet, e = Opening(g) PROVE FALSE
    <3>1. e.agent = g.agent
      <4>1. Opening(g).agent = g.agent
        BY EntryShapes
      <4> QED BY <2>3, <4>1
    <3> QED BY <2>1, <3>1, Addresses, Numbers DEF Talk
  <2>4. PICK g \in CrossFlows : e = HeadOpening(g)
    BY <1>1, <2>2, <2>3, HelloIs
  <2>5. g = f /\ clock = 82
    <3>1. g = f
      BY Addresses DEF Talk, CrossFlows
    <3>2. HeadOpening(g).at = 82
      BY EntryShapes
    <3> QED BY <1>1, <2>4, <3>1, <3>2
  <2> QED BY <1>1, <1>11, <2>4, <2>5
<1> QED BY <1>3, <1>4, <1>5, <1>6, <1>10, <1>12, <1>13, StepCloses

LEMMA MonitorCloses ==
    ASSUME Talk, ClosingInv,
           UNCHANGED <<setup, ch, share, authentic, clock>>,
           NEW e, e.do = "monitor", NEW t, Watched(e, t)
    PROVE  ClosingInv'
<1>1. /\ Replaced(e, t) /\ \A x \in Entries(t) : x.do = "send" /\ x.msg.kind = "sstop"
      /\ UNCHANGED <<net, node, dst, session>>
  BY DEF Watched
<1>2. Wired
  BY <1>1, SameWires
<1>3. StopsKept(0)
  BY <1>1 DEF StopsKept, Replaced
<1>4. \A x \in Entries(agenda') :
         x.do = "send" /\ x.msg.kind = "sstart" => x \in Entries(agenda)
  BY <1>1 DEF Replaced
<1> QED BY <1>1, <1>2, <1>3, <1>4, QuietCloses

LEMMA OpenCloses ==
    ASSUME Talk, ClosingInv, UNCHANGED <<setup, ch, share, authentic, clock>>,
           NEW p, Leaves(p), OpenSession(p.msg, node[p.to])
    PROVE  ClosingInv'
<1>1. PICK entry : entry = MonitorAt(clock, p.msg.from, p.msg.to)
  OBVIOUS
<1>2. /\ p \in Entries(net) /\ p.msg.kind = "sstart" /\ OnWay(p)
      /\ session' = session \union {<<p.msg.from, node[p.to]>>}
      /\ agenda' = Append(agenda, entry) /\ UNCHANGED <<node, dst>>
      /\ Entries(net') \subseteq Entries(net)
      /\ \A q \in Entries(net) : q = p \/ q \in Entries(net')
  BY <1>1 DEF OpenSession, Leaves, Arrives, Talk, ConversationInv
<1>3. Entries(agenda') = Entries(agenda) \union {entry} /\ entry.do = "monitor"
  BY <1>1, <1>2, AppendEntries, Fields DEF Talk, ConversationInv
<1>4. Wired
  BY <1>2, SameWires
<1>5. \A f : Asks(f).kind # "sstart" /\ Tells(f).kind # "sstart"
  BY Shapes
<1>6. clock # 40 /\ Closes(p.msg.from, node[p.to], clock)
  <2>1. clock # 40 /\ (IsFlowPacket(p) \/ IsRelayPacket(p))
    BY <1>2 DEF OnWay
  <2>2. CASE IsFlowPacket(p)
    <3>1. PICK f \in FlowSet : /\ Linked(f)
                               /\ p = FlowPacket(f, Hello(f)) \/ p = FlowPacket(f, Asks(f))
      BY <2>2 DEF IsFlowPacket
    <3>2. p # FlowPacket(f, Asks(f))
      BY <1>2, <1>5, PacketShapes
    <3>3. /\ FlowPacket(f, Hello(f)).msg = Hello(f) /\ FlowPacket(f, Hello(f)).to = Way(f)
      BY PacketShapes
    <3>4. p.msg.from = f.src /\ node[p.to] = Goal(f)
      BY <3>1, <3>2, <3>3, Shapes DEF Linked
    <3>5. Closes(f.src, Goal(f), clock)
      BY <1>2, <3>1, <3>2 DEF ClosingInv
    <3> QED BY <2>1, <3>4, <3>5
  <2>3. CASE IsRelayPacket(p)
    <3>1. PICK f \in CrossFlows : p = HeadPacket(f, HeadHello(f)) \/ p = HeadPacket(f, Tells(f))
      BY <2>3 DEF IsRelayPacket
    <3>2. p # HeadPacket(f, Tells(f))
      BY <1>2, <1>5, PacketShapes
    <3>3. /\ HeadPacket(f, HeadHello(f)).msg = HeadHello(f)
          /\ HeadPacket(f, HeadHello(f)).to = f.dst
      BY PacketShapes
    <3>4. node[f.dst] = f.dst
      <4>1. f.dst \in UdpNodes /\ FirstNode[f.dst] = f.dst
        BY Addresses DEF Talk, CrossFlows
      <4> QED BY <4>1 DEF Talk, ConversationInv, WiringInv
    <3>5. p.msg.from = HeadFor(f.dst) /\ node[p.to] = f.dst
      BY <3>1, <3>2, <3>3, <3>4, Shapes
    <3>6. Closes(HeadFor(f.dst), f.dst, clock)
      BY <1>2, <3>1, <3>2 DEF ClosingInv
    <3> QED BY <2>1, <3>5, <3>6
  <2> QED BY <2>1, <2>2, <2>3
<1>7. Closes(p.msg.from, node[p.to], 0)
  <2>1. \A f : AskTime(f) + 1 > 0
    <3>1. \A f : AskTime(f) \in {43, 44}
      BY EntryShapes
    <3> QED BY <3>1
  <2> QED BY <1>6, <2>1 DEF Closes, StopAfter
<1>8. StopsKept(0)
  BY <1>3 DEF StopsKept
<1>9. ASSUME NEW r \in session'
      PROVE  \/ /\ r \in session
                /\ \A q \in Entries(net) : Arriving(r[1], r[2], q) => q \in Entries(net')
             \/ r = <<r[1], r[2]>> /\ clock # 40 /\ Closes(r[1], r[2], 0)
  BY <1>2, <1>6, <1>7, <1>9 DEF Arriving
<1>10. \A x \in Entries(agenda') :
          x.do = "send" /\ x.msg.kind = "sstart" => x \in Entries(agenda)
  BY <1>3
<1> QED BY <1>2, <1>4, <1>8, <1>9, <1>10, QuietCloses

LEMMA CloseCloses ==
    ASSUME Talk, ClosingInv, UNCHANGED <<setup, ch, share, authentic, clock>>,
           NEW p, Leaves(p), CloseSession(p.msg, node[p.to])
    PROVE  ClosingInv'
<1>1. /\ session' = session \ {<<p.msg.from, node[p.to]>>}
      /\ UNCHANGED <<agenda, node, dst>> /\ Entries(net') \subseteq Entries(net)
      /\ \A q \in Entries(net) : q = p \/ q \in Entries(net')
  BY DEF CloseSession, Leaves, Arrives
<1>2. Wired /\ StopsKept(0)
  BY <1>1, SameWires DEF StopsKept
<1>3. ASSUME NEW r \in session', NEW q \in Entries(net), Arriving(r[1], r[2], q)
      PROVE  q \in Entries(net')
  <2>1. r = <<r[1], r[2]>> /\ r # <<p.msg.from, node[p.to]>>
    BY <1>1 DEF ClosingInv
  <2> QED BY <1>1, <1>3, <2>1 DEF Arriving
<1> QED BY <1>1, <1>2, <1>3, QuietCloses

(* Data that is ignored or accepted.                                            *)
LEMMA DataCloses ==
    ASSUME Talk, ClosingInv, UNCHANGED <<setup, ch, share, authentic, clock>>,
           NEW p, Leaves(p), p.msg.kind = "data",
           UNCHANGED <<agenda, node, dst, session>>
    PROVE  ClosingInv'
<1>1. /\ Entries(net') \subseteq Entries(net)
      /\ \A q \in Entries(net) : q = p \/ q \in Entries(net')
  BY DEF Leaves, Arrives
<1>2. Wired /\ StopsKept(0)
  BY SameWires DEF StopsKept
<1>3. \A s, t, q : q \in Entries(net) /\ Arriving(s, t, q) => q \in Entries(net')
  BY <1>1 DEF Arriving
<1> QED BY <1>1, <1>2, <1>3, QuietCloses

LEMMA RelayCloses ==
    ASSUME Talk, ClosingInv, UNCHANGED <<setup, ch, share, authentic, clock>>,
           NEW p, Leaves(p), NEW f, Passed(p, f)
    PROVE  ClosingInv'
<1>1. /\ f \in CrossFlows /\ p = AskPacket(f) /\ FlowKey(f) # NoKey
      /\ agenda' = agenda \o RelayEvents(p.msg, HeadFor(f.dst), FlowKey(f), "question")
      /\ UNCHANGED session /\ \A a \in UdpNodes \union {Udpch} : node'[a] = node[a]
      /\ Wired /\ Relays(f)'
      /\ Entries(net') \subseteq Entries(net)
      /\ \A q \in Entries(net) : q = p \/ q \in Entries(net')
  BY DEF Passed, Leaves, Arrives
<1>2. p.msg = Asks(f) /\ p.msg.kind = "data"
  BY <1>1, PacketShapes, FormsAre DEF AskPacket
<1>3. PICK t : t = RelayEvents(p.msg, HeadFor(f.dst), FlowKey(f), "question")
  OBVIOUS
<1>4. IsSequence(t) /\ Entries(t) = {HeadOpening(f), Answer(f), HeadClosing(f)}
  BY <1>1, <1>2, <1>3, Relaying
<1>5. Entries(agenda') = Entries(agenda) \union {HeadOpening(f), Answer(f), HeadClosing(f)}
  BY <1>1, <1>3, <1>4, JoinEntries DEF Talk, ConversationInv
<1>6. StopsKept(0) /\ StopsKept(clock)
  BY <1>5 DEF StopsKept
<1>7. ASSUME NEW r \in session'
      PROVE  /\ r = <<r[1], r[2]>> /\ clock # 40
             /\ Closes(r[1], r[2], 0)' \/ StopSent(r[1], r[2])'
  <2>1. PICK s, u : s = r[1] /\ u = r[2]
    OBVIOUS
  <2>2. r = <<s, u>> /\ clock # 40 /\ (Closes(s, u, 0) \/ StopSent(s, u))
    BY <1>1, <1>7, <2>1 DEF ClosingInv
  <2>3. \A q \in Entries(net) : Arriving(s, u, q) => q \in Entries(net')
    BY <1>1, <1>2 DEF Arriving
  <2>4. Closes(s, u, 0)' \/ StopSent(s, u)'
    BY <1>1, <1>6, <2>2, <2>3, SessionsStay
  <2> QED BY <2>1, <2>2, <2>4
<1>8. ASSUME NEW g \in FlowSet, Opening(g) \in Entries(agenda')
      PROVE  Opening(g) \in Entries(agenda)
  <2>1. /\ Opening(g).at = 41 /\ HeadOpening(f).at = 82 /\ Answer(f).at = 83
        /\ HeadClosing(f).at = 85
    BY EntryShapes
  <2> QED BY <1>5, <1>8, <2>1
<1>9. ASSUME NEW g \in CrossFlows
      PROVE  Closes(HeadFor(g.dst), g.dst, 82)'
  <2>1. g = f
    BY <1>1, Addresses DEF Talk, CrossFlows
  <2>2. f \in FlowSet /\ HeadClosing(f) \in Entries(agenda')
    BY <1>1, <1>5 DEF CrossFlows
  <2>3. StopAfter(HeadFor(f.dst), f.dst, 82)'
    BY <1>1, <2>2, Constant, ShapesStay DEF StopAfter
  <2> QED BY <2>1, <2>3 DEF Closes
<1> QED BY <1>1, <1>6, <1>7, <1>8, <1>9, StepCloses

LEMMA TickCloses ==
    ASSUME Talk, ClosingInv, clock < Finish, net = << >>, Tick
    PROVE  ClosingInv'
<1>1. UNCHANGED <<setup, ch, share, authentic, agenda, net, node, dst, session>>
  BY DEF Tick
<1>2. clock' > clock /\ clock' \in Nat /\ clock \in Nat /\ clock >= 40
  BY NextMoment, EntryTimes, Numbers DEF Talk, ConversationInv
<1>3. Wired /\ StopsKept(0) /\ StopsKept(clock)
  BY <1>1, SameWires DEF StopsKept
<1>4. Entries(net) = {}
  BY NoEntry
<1>5. ASSUME NEW r \in session'
      PROVE  /\ r = <<r[1], r[2]>> /\ clock' # 40
             /\ Closes(r[1], r[2], 0)' \/ StopSent(r[1], r[2])'
  <2>1. PICK s, t : s = r[1] /\ t = r[2]
    OBVIOUS
  <2>2. r = <<s, t>> /\ (Closes(s, t, 0) \/ StopSent(s, t))
    BY <1>1, <1>5, <2>1 DEF ClosingInv
  <2>3. Closes(s, t, 0)'
    BY <1>1, <1>3, <1>4, <2>2, ClosesStay DEF StopSent
  <2> QED BY <1>2, <2>1, <2>2, <2>3
<1>6. /\ \A f \in FlowSet : Opening(f) \in Entries(agenda) => Closes(f.src, Goal(f), 41)'
      /\ \A f \in CrossFlows :
            HeadOpening(f) \in Entries(agenda) => Closes(HeadFor(f.dst), f.dst, 82)'
  BY <1>1, <1>3, OpeningsStay
<1>7. \A f : Opening(f)' = Opening(f) /\ HeadOpening(f)' = HeadOpening(f)
  BY <1>1, ShapesStay
<1> QED BY <1>1, <1>4, <1>5, <1>6, <1>7, Constant DEF ClosingInv

LEMMA StartCloses ==
    ASSUME Init, WellAddressed
    PROVE  ClosingInv
<1>1. session = {} /\ Entries(net) = {} /\ clock = 40
  BY NoEntry DEF Init
<1>2. Talk
  BY StartTalks
<1>3. ASSUME NEW e \in Entries(agenda) PROVE e.do = "test"
  <2>1. DOMAIN agenda = DOMAIN Flows /\ \A x \in DOMAIN agenda : agenda[x] = TestAt(40, Flows[x])
    BY DEF Init
  <2>2. PICK x \in DOMAIN agenda : e = agenda[x]
    BY DEF Entries
  <2>3. PICK f : f = Flows[x]
    OBVIOUS
  <2>4. e = TestAt(40, f) /\ TestAt(40, f).do = "test"
    <3>1. e = TestAt(40, f)
      BY <2>1, <2>2, <2>3
    <3> QED BY <3>1, Shapes
  <2> QED BY <2>4
<1>4. \A f : Opening(f).do = "send" /\ HeadOpening(f).do = "send"
  BY EntryShapes
<1> QED BY <1>1, <1>3, <1>4 DEF ClosingInv

(* On a network that brings everything in time, and until an error ends the     *)
(* simulation, every step leaves each session its stop.                         *)
LEMMA StepsClose ==
    ASSUME Talk, ClosingInv, Reliable, aborted' = "no", [Next]_vars
    PROVE  ClosingInv'
<1>1. CASE RunEvent
  <2>1. PICK e : e = agenda[NextDue]
    OBVIOUS
  <2>2. /\ Due # {} /\ UNCHANGED <<setup, ch, share, authentic, clock>>
        /\ \/ e.do = "test" /\ (TestDirect(e) \/ TestViaHead(e))
           \/ e.do = "send" /\ Send(e)
           \/ e.do = "monitor" /\ Monitor(e)
    BY <1>1, <2>1 DEF RunEvent
  <2>3. CASE e.do = "test" /\ (TestDirect(e) \/ TestViaHead(e))
    <3>1. PICK f \in FlowSet : Tested(e, f)
      BY <2>1, <2>2, <2>3, TestIs
    <3> QED BY <2>1, <2>2, <3>1, TestCloses
  <2>4. CASE e.do = "monitor" /\ Monitor(e)
    <3>1. ~Abort("no agent")
      BY DEF Abort
    <3>2. PICK t : Watched(e, t)
      BY <2>1, <2>2, <2>4, <3>1, MonitorIs
    <3> QED BY <2>2, <2>4, <3>2, MonitorCloses
  <2> QED BY <2>1, <2>2, <2>3, <2>4, SendCloses
<1>2. CASE Deliver
  <2>1. PICK x \in DOMAIN net : /\ ProcessData(net[x].msg, node[net[x].to])
                                /\ net' = RemoveAt(net, x)
    BY <1>2 DEF Deliver
  <2>2. UNCHANGED <<setup, ch, share, authentic, clock>>
    BY <1>2 DEF Deliver
  <2>3. PICK p : p = net[x]
    OBVIOUS
  <2>4. Leaves(p) /\ p \in Entries(net)
    BY <2>1, <2>3, Leaving DEF Talk, ConversationInv, Leaves, Arrives
  <2>5. \/ OpenSession(p.msg, node[p.to]) \/ CloseSession(p.msg, node[p.to])
        \/ IgnoreData(p.msg, node[p.to])
        \/ RelayData(p.msg, node[p.to])   \/ AcceptData(p.msg, node[p.to])
    BY <2>1, <2>3 DEF ProcessData
  <2>6. CASE IgnoreData(p.msg, node[p.to])
    <3>1. p.msg.kind = "data" /\ UNCHANGED <<agenda, node, dst, session>>
      BY <2>6 DEF IgnoreData
    <3> QED BY <2>2, <2>4, <3>1, DataCloses
  <2>7. CASE AcceptData(p.msg, node[p.to])
    <3>1. p.msg.kind = "data" /\ UNCHANGED <<agenda, node, dst, session>>
      BY <2>7 DEF AcceptData, Abort
    <3> QED BY <2>2, <2>4, <3>1, DataCloses
  <2>8. CASE RelayData(p.msg, node[p.to])
    <3>1. ~Abort("late")
      BY DEF Abort
    <3>2. PICK f : Passed(p, f)
      BY <2>2, <2>4, <2>8, <3>1, RelayIs
    <3> QED BY <2>2, <2>4, <3>2, RelayCloses
  <2> QED BY <2>2, <2>4, <2>5, <2>6, <2>7, <2>8, OpenCloses, CloseCloses
<1>3. CASE Lose
  BY <1>3 DEF Lose, Reliable
<1>4. CASE Tick
  BY <1>4, TickCloses DEF Tick, Running, Reliable
<1>5. CASE UNCHANGED vars
  <2>1. UNCHANGED <<setup, ch, share, authentic, clock, agenda, net, node, dst, session>>
    BY <1>5 DEF vars
  <2>2. Wired /\ StopsKept(0)
    BY <2>1, SameWires DEF StopsKept
  <2> QED BY <2>1, <2>2, QuietCloses
<1> QED BY <1>1, <1>2, <1>3, <1>4, <1>5 DEF Next

-----------------------------------------------------------------------------------
(* What is proved of the conversation                                           *)

(* The agents of every flow are connected as test and process_data wired them,  *)
(* and each entry of the event queue and each packet belongs to one of them: a  *)
(* relayed question exists once, as an entry or as a packet, fk is 1 only while *)
(* its answer is on the way, and an error has its cause.                        *)
THEOREM ConversationKept == Spec => [](setup \in Setups /\ (WellAddressed => ConversationInv))
<1>1. Init => setup \in Setups /\ (WellAddressed => ConversationInv)
  BY StartTalks DEF Init, Talk
<1>2. setup \in Setups /\ (WellAddressed => ConversationInv) /\ [Next]_vars
        => (setup \in Setups /\ (WellAddressed => ConversationInv))'
  <2> SUFFICES ASSUME setup \in Setups, WellAddressed => ConversationInv, [Next]_vars
               PROVE  (setup \in Setups /\ (WellAddressed => ConversationInv))'
    OBVIOUS
  <2>1. UNCHANGED <<setup, ch, share, authentic>>
    BY DEF Next, RunEvent, Deliver, Lose, Tick, vars
  <2>2. WellAddressed' <=> WellAddressed
    BY <2>1, Constant
  <2>3. CASE WellAddressed
    BY <2>3, StepsTalk DEF Talk
  <2> QED BY <2>1, <2>2, <2>3
<1> QED BY <1>1, <1>2, PTL DEF Spec

(* Whatever is read is what the sender wrote, unless a head read a question     *)
(* that was relayed to itself.                                                  *)
THEOREM AlwaysReadable == Spec => []ReadableUnlessHead
<1>1. (WellAddressed => ConversationInv) => ReadableUnlessHead
  BY DEF ConversationInv, TextInv, ReadableUnlessHead
<1> QED BY <1>1, ConversationKept, PTL

(* The four Tcl errors of the traffic happen for these reasons alone.           *)
THEOREM AbortsHaveCause == Spec => []AbortHasCause
<1>1. (WellAddressed => ConversationInv) => AbortHasCause
  BY DEF ConversationInv, Causes, AbortHasCause
<1> QED BY <1>1, ConversationKept, PTL

(* As long as no error has ended the simulation, every session of a flow with a *)
(* key has its stop to come, in the event queue or in the network, and whatever *)
(* sstart is to come opens only such sessions.                                  *)
THEOREM StopsAreToCome ==
    Spec => [](WellAddressed /\ Reliable /\ aborted = "no" => ClosingInv)
<1> DEFINE C == WellAddressed /\ Reliable /\ aborted = "no" => ClosingInv
           T == setup \in Setups /\ (WellAddressed => ConversationInv)
<1>1. Init => C
  BY StartCloses
<1>2. T /\ C /\ [Next]_vars => C'
  <2> SUFFICES ASSUME T, C, [Next]_vars, (WellAddressed /\ Reliable /\ aborted = "no")'
               PROVE  ClosingInv'
    OBVIOUS
  <2>1. UNCHANGED <<setup, ch, share, authentic>>
    BY DEF Next, RunEvent, Deliver, Lose, Tick, vars
  <2>2. WellAddressed /\ Reliable
    BY <2>1, Constant
  <2>3. aborted = "no"
    <3>1. CASE UNCHANGED vars
      BY <3>1 DEF vars
    <3>2. CASE Next
      BY <3>2 DEF Next, RunEvent, Deliver, Lose, Tick, Running
    <3> QED BY <3>1, <3>2
  <2> QED BY <2>2, <2>3, StepsClose DEF Talk
<1> HIDE DEF C, T
<1>3. Spec => []T
  BY ConversationKept DEF T
<1>4. Spec => []C
  BY <1>1, <1>2, <1>3, PTL DEF Spec
<1> QED BY <1>4 DEF C

(* When everything is delivered, the sessions that are open have no key.        *)
THEOREM SessionsClose == Spec => []OnlyKeylessSessionsStayOpen
<1>1. (WellAddressed /\ Reliable /\ aborted = "no" => ClosingInv) => OnlyKeylessSessionsStayOpen
  <2> SUFFICES ASSUME ClosingInv, agenda = << >>, net = << >>, NEW p \in session
               PROVE  \E f \in FlowSet :
                         /\ FlowKey(f) = NoKey
                         /\ p = <<f.src, IF Direct(f) THEN f.dst ELSE HeadFor(f.dst)>>
    BY DEF OnlyKeylessSessionsStayOpen
  <2>1. p = <<p[1], p[2]>> /\ Keyless(p[1], p[2])
    BY NoEntry DEF ClosingInv, Closes, StopAfter, StopSent
  <2> QED BY <2>1 DEF Keyless, Goal
<1> QED BY <1>1, StopsAreToCome, PTL
===================================================================================
