-------------------------------- MODULE Shr --------------------------------
(***************************************************************************)
(* SENSE's self-healing routing (net/shr.h): the handlers of a node.  They *)
(* take the state w of the node, its address me and their arguments, and   *)
(* return the state they leave.  There is no next hop in a packet: whoever *)
(* hears it and knows the destination waits for a back-off, the first one  *)
(* to forward it silences the others, and the sender takes the forwarded   *)
(* copy for its acknowledgement.                                           *)
(*                                                                         *)
(* w.mac is where the packet handed down is: it waits for the transition   *)
(* timer, it is with the MAC ("overlapped": it is in the air, and so is    *)
(* another frame), or the MAC gave it up and owes the answer.  Delays      *)
(* matter for the order of m_send_queue only: they are small numbers here, *)
(* drawn when they run out, and timers run out in any order.               *)
(***************************************************************************)
EXTENDS Integers, Sequences, SequencesExt, TLC

CONSTANTS TimeToLive, MaxResend

Unnumbered == -1     \* 0xFFFFFFFF
\* In sim_shr, 0.001, 0.0015 and 0.1 seconds.
SlotWidth == 2
AckWindow == 4
ForwardDelay == 8    \* also for a delay that is not drawn yet

NoPacket == [type |-> "NONE"]

\* Start.  The options are those of sim_shr: a transition time, slotted
\* back-off, the counter of route repair (0: off), whether it is the program
\* with acknowledgements (SHR_ACK), and AdditionalHop.
Started(options) ==
  [opt |-> options, busy |-> FALSE, mac |-> "none", active |-> NoPacket,
   queue |-> <<>>, delayed |-> <<>>, acks |-> <<>>, buffer |-> {},
   table |-> <<>>, number |-> 0, seen |-> {}, up |-> <<>>, dropped |-> {}]

Counter(w) == IF w.opt.repair = 0 THEN 1 ELSE w.opt.repair

(***************************************************************************)
(* The cost table                                                          *)
(***************************************************************************)
Entry(w, hops) == [hc |-> hops, pending |-> 0, changing |-> FALSE, ctr |-> Counter(w)]

\* seq_number_t::hopCount(newHC, force): another hop count is believed at
\* once, or when it has been reported so often.
Counted(w, e, hops, force) ==
  LET new == Entry(w, hops)
  IN  CASE ~e.changing /\ hops = e.hc -> e
        [] ~e.changing /\ hops # e.hc /\ (force \/ Counter(w) < 2) -> [e EXCEPT !.hc = hops]
        [] ~e.changing /\ hops # e.hc /\ ~force /\ Counter(w) >= 2 ->
             [e EXCEPT !.ctr = @ - 1, !.pending = hops, !.changing = TRUE]
        [] e.changing /\ force -> new
        [] e.changing /\ ~force /\ hops = e.hc ->
             [e EXCEPT !.ctr = @ + 1, !.changing = e.ctr + 1 # Counter(w)]
        [] e.changing /\ ~force /\ hops # e.hc /\ hops = e.pending ->
             IF e.ctr = 1 THEN new ELSE [e EXCEPT !.ctr = @ - 1]
        [] OTHER -> [e EXCEPT !.pending = hops]

Knows(w, d) == d \in DOMAIN w.table

\* Whether updateHopCountInCache changes something, and what.
Updates(w, me, d, hops, type) ==
  /\ d # me
  /\ Knows(w, d) => /\ hops # w.table[d].hc
                    /\ type = "Always" \/ hops < w.table[d].hc

UpdateHopCountInCache(w, me, d, hops, type) ==
  IF ~Updates(w, me, d, hops, type) THEN w
  ELSE LET e == IF Knows(w, d) THEN Counted(w, w.table[d], hops, type = "Hello")
                ELSE Entry(w, hops)
       IN  [w EXCEPT !.table = [x \in DOMAIN @ \union {d} |-> IF x = d THEN e ELSE @[x]]]

(***************************************************************************)
(* Packets and their way to the MAC                                        *)
(***************************************************************************)
BasicPkt(type, me, dst) ==
  [type |-> type, fromDest |-> FALSE, src |-> me, dst |-> dst, cur |-> me, pre |-> me,
   seq |-> Unnumbered, id |-> 0, actual |-> 1, expected |-> 0, max |-> 1, delay |-> 0,
   canceled |-> FALSE, resend |-> 0, fresh |-> TRUE, hello |-> 0]

DataPkt(me, dst, k) == [BasicPkt("DATA", me, dst) EXCEPT !.id = k]
RequestPkt(me, dst) ==
  [BasicPkt("REQUEST", me, dst) EXCEPT !.expected = 1, !.max = TimeToLive]
ReplyPkt(me, src, hops, extra) ==
  [BasicPkt("REPLY", me, src) EXCEPT !.expected = hops, !.max = hops + extra]
AckPkt(src, cur, pre, seq, delay, fromDest) ==
  [BasicPkt("ACK", src, src) EXCEPT !.cur = cur, !.pre = pre, !.seq = seq, !.delay = delay,
                                    !.fromDest = fromDest, !.max = 0, !.fresh = FALSE]
HelloPkt(me, d, hops) ==
  [BasicPkt("HELLO", me, d) EXCEPT !.expected = 1, !.hello = hops, !.delay = ForwardDelay]

Same(p, q) == p.src = q.src /\ p.seq = q.seq
FirstSame(s, p) == SelectInSeq(s, LAMBDA q : Same(q, p))

SendToMac(w) ==
  [w EXCEPT !.busy = TRUE, !.mac = IF w.opt.transition THEN "transition" ELSE "defer"]

TransitionTimer(w) == [w EXCEPT !.mac = "defer"]

\* AddToSendQueue: behind those that waited no longer
AddToSendQueue(w, p) ==
  LET later == SelectInSeq(w.queue, LAMBDA q : q.delay > p.delay)
  IN  [w EXCEPT !.queue = InsertAt(@, IF later = 0 THEN Len(@) + 1 ELSE later, p)]

\* Once a packet has its number it keeps it.  Mutant: it gets another one
\* whenever it is sent.
AssignSeqNumberAgain(w, me, p) ==
  LET new == p.src = me /\ p.type # "ACK"
      q == [p EXCEPT !.canceled = FALSE, !.fresh = FALSE,
                     !.seq = IF new THEN w.number + 1 ELSE @]
      v == IF new THEN [w EXCEPT !.number = @ + 1, !.seen = @ \union {<<me, q.seq>>}] ELSE w
  IN  IF w.busy THEN AddToSendQueue(v, q) ELSE SendToMac([v EXCEPT !.active = q])

AssignSeqNumber(w, me, p) ==
  LET new == p.fresh /\ p.src = me
      q == [p EXCEPT !.canceled = FALSE, !.fresh = FALSE,
                     !.seq = IF new THEN w.number + 1 ELSE @]
      v == IF new THEN [w EXCEPT !.number = @ + 1, !.seen = @ \union {<<me, q.seq>>}] ELSE w
  IN  IF w.busy THEN AddToSendQueue(v, q) ELSE SendToMac([v EXCEPT !.active = q])

SendPacket(w, me, p) ==
  IF p.delay = 0 THEN AssignSeqNumber(w, me, p) ELSE [w EXCEPT !.delayed = Append(@, p)]

\* What a delay can be: floods wait for Random(ForwardDelay), elections for
\* the AckWindow and a back-off, which two draws of a flood enclose.
Delays(p) ==
  CASE p.delay # ForwardDelay -> {p.delay}
    [] p.delay = ForwardDelay /\ p.type = "DATA" -> {AckWindow + 2}
    [] p.delay = ForwardDelay /\ p.type # "DATA" -> {1, AckWindow + 3}

PktDelayTimer(w, me, i, delay) ==
  AssignSeqNumber([w EXCEPT !.delayed = RemoveAt(@, i)], me, [w.delayed[i] EXCEPT !.delay = delay])

SendAck(w, me, p, pre, delay, fromDest) ==
  SendPacket(w, me, AckPkt(p.src, me, pre, p.seq, delay, fromDest))

(***************************************************************************)
(* from_transport, CheckBuffer, HELLO                                      *)
(***************************************************************************)
Routed(p, hops, extra, delay) ==
  [p EXCEPT !.expected = hops, !.max = hops + extra, !.delay = delay]

FromTransport(w, me, dst, k) ==
  IF Knows(w, dst)
  THEN SendPacket(w, me, Routed(DataPkt(me, dst, k), w.table[dst].hc, w.opt.extra, 0))
  ELSE [SendPacket(w, me, RequestPkt(me, dst)) EXCEPT !.buffer = @ \union {DataPkt(me, dst, k)}]

\* The packets that wait for a route are of this node and have no number, so
\* no search of m_delay_list tells in which order they were put there.
CheckBuffer(w, d) ==
  LET due == SetToSeq({p \in w.buffer : p.dst = d})
  IN  [w EXCEPT !.buffer = {p \in @ : p.dst # d},
                !.delayed = @ \o [i \in DOMAIN due |->
                                    Routed(due[i], w.table[d].hc, w.opt.extra, AckWindow)]]

\* from_pm_node_up: generateHELLO, one HELLO for every entry, in some order
GenerateHello(w, me) ==
  LET known == SetToSeq(DOMAIN w.table)
  IN  [w EXCEPT !.delayed = @ \o [i \in DOMAIN known |->
                                    HelloPkt(me, known[i], w.table[known[i]].hc)]]

\* The sender of the HELLO is one hop away.  Mutant: it is forgotten.
HopsThroughForgotten(p) == p.hello

HopsThrough(p) == p.hello + 1

ReceiveHello(w, me, p) ==
  IF Updates(w, me, p.dst, HopsThrough(p), "Hello")
  THEN SendPacket(UpdateHopCountInCache(w, me, p.dst, HopsThrough(p), "Hello"),
                  me, HelloPkt(me, p.dst, HopsThrough(p)))
  ELSE w

(***************************************************************************)
(* Cancelling and acknowledging                                            *)
(***************************************************************************)
InAckList(w, p) == FirstSame(w.acks, p)
Unlisted(w, i) == IF i = 0 THEN w ELSE [w EXCEPT !.acks = RemoveAt(@, i)]

\* CancelPacket: of all the packets like p, waiting to be sent, the first
\* one found is not sent.  An acknowledgement is spared, but for one in
\* m_delay_list.  The MAC can be stopped only while it defers.  The types
\* of what was cancelled are kept in w.dropped.
CancelPacket(w, p) ==
  LET waits == FirstSame(w.delayed, p)
      queued == FirstSame(w.queue, p)
      active == w.busy /\ Same(w.active, p) /\ w.active.type # "ACK"
  IN  CASE active ->
             [w EXCEPT !.active.canceled = TRUE, !.mac = IF @ = "defer" THEN "canceled" ELSE @,
                       !.dropped = IF w.mac = "defer" THEN @ \union {w.active.type} ELSE @]
        [] ~active /\ waits > 0 ->
             [w EXCEPT !.delayed = RemoveAt(@, waits),
                       !.dropped = @ \union {w.delayed[waits].type}]
        [] ~active /\ waits = 0 /\ queued > 0 /\ w.queue[queued].type # "ACK" ->
             [w EXCEPT !.queue = RemoveAt(@, queued), !.dropped = @ \union {w.queue[queued].type}]
        [] OTHER -> w

\* doRouteRepair: q is on m_ack_list, p is what answers it
DoRouteRepair(w, me, q, p) ==
  IF w.opt.repair = 0 \/ p.expected = q.expected - 1 THEN w
  ELSE UpdateHopCountInCache(w, me, q.dst, p.expected + 1, "Always")

\* What the sender of p does when it hears that p got on: it confirms that
\* once more, so that the other candidates give up, and forgets p.
Answered(w, me, p, i) ==
  Unlisted(SendAck(DoRouteRepair(w, me, w.acks[i], p), me, p, p.cur, 0, FALSE), i)

ReceiveAck(w, me, p) ==
  LET v == CancelPacket(w, p)
      i == InAckList(w, p)
  IN  CASE ~w.opt.acks -> v
        [] w.opt.acks /\ p.pre # me -> Unlisted(v, i)
        [] w.opt.acks /\ p.pre = me /\ i > 0 /\ p.fromDest -> Answered(w, me, p, i)
        [] OTHER -> w

\* receiveDataRep: a packet heard before, of any type but ACK
ReceiveDataRep(w, me, p) ==
  LET v == CancelPacket(w, p)
      i == InAckList(v, p)
  IN  CASE i = 0 -> v
        [] i > 0 /\ p.pre = me -> Answered(v, me, p, i)
        [] OTHER -> [v EXCEPT !.acks[i].resend = MaxResend]

AckTimer(w, me, i) ==
  LET p == [w.acks[i] EXCEPT !.delay = 0, !.resend = @ + 1]
  IN  IF w.acks[i].resend < MaxResend THEN SendPacket(Unlisted(w, i), me, p) ELSE Unlisted(w, i)

(***************************************************************************)
(* from_mac_data                                                           *)
(***************************************************************************)
\* What the destination does with a packet that is new.  A packet that is
\* sent once more is none.
AtDestination(w, me, p) ==
  LET acked == SendAck(w, me, p, p.cur, AckWindow, TRUE)
  IN  CASE p.resend # 0 -> w
        [] p.resend = 0 /\ p.type = "REQUEST" ->
             CheckBuffer(SendPacket(w, me, ReplyPkt(me, p.src, w.table[p.src].hc, w.opt.extra)), p.src)
        [] p.resend = 0 /\ p.type = "REPLY" -> CheckBuffer(acked, p.src)
        [] OTHER -> [acked EXCEPT !.up = Append(@, <<p.src, p.id>>)]

Forward(w, me, p, updated) ==
  LET np == [p EXCEPT !.cur = me, !.pre = p.cur, !.resend = 0, !.actual = @ + 1,
                      !.delay = ForwardDelay]
  IN  CASE p.actual >= p.max -> w
        [] p.actual < p.max /\ p.type = "REQUEST" -> SendPacket(w, me, np)
        [] p.actual < p.max /\ p.type = "REPLY" /\ updated
             /\ (Knows(w, p.dst) \/ p.dst = me) -> SendPacket(w, me, np)
        [] p.actual < p.max /\ p.type = "DATA" /\ Knows(w, p.dst) ->
             SendPacket(Unlisted(w, InAckList(w, p)), me,
                        [np EXCEPT !.expected = w.table[p.dst].hc])
        [] OTHER -> w

\* The numbers of a source are remembered, which SequenceCache shows of
\* those that are not too far behind.  
Heard(w, p) == <<p.src, p.seq>> \in w.seen

FromMacData(w, p, me) ==
  LET updated == Updates(w, me, p.src, p.actual, "Lower")
      v == [UpdateHopCountInCache(w, me, p.src, p.actual, "Lower")
              EXCEPT !.seen = @ \union {<<p.src, p.seq>>}]
      new == ~Heard(w, p) \/ p.resend > 0
  IN  CASE p.type = "HELLO" -> ReceiveHello(w, me, p)
        [] p.type = "ACK" -> ReceiveAck(w, me, p)
        [] p.type \notin {"HELLO", "ACK"} /\ ~new -> ReceiveDataRep(v, me, p)
        [] p.type \notin {"HELLO", "ACK"} /\ new /\ p.dst = me -> AtDestination(v, me, p)
        [] OTHER -> Forward(v, me, p, updated)

(***************************************************************************)
(* from_mac_ack                                                            *)
(***************************************************************************)
\* Nothing reads the delay of a packet again that has left m_send_queue.
NextFromQueue(w) ==
  IF w.queue # <<>>
  THEN SendToMac([w EXCEPT !.active = [Head(w.queue) EXCEPT !.delay = 0], !.queue = Tail(@)])
  ELSE [w EXCEPT !.busy = FALSE, !.mac = "none", !.active = NoPacket]

\* The program with acknowledgements waits for one, unless it is the
\* destination that hears the packet next.
AwaitsAck(w) ==
  /\ w.opt.acks
  /\ ~w.active.canceled
  /\ w.active.type = "DATA"
  /\ w.active.actual < w.active.max - 1

\* A failure keeps the MAC for the packet, or, at slotted relays, gives it
\* to those that wait.  Mutant: the relay forgets them.
FromMacAckForgetful(w, me, ok) ==
  LET slotted == w.opt.slotted /\ me # w.active.src
      failed == ~ok /\ w.active.type # "ACK"
  IN  CASE failed /\ ~slotted -> SendToMac([w EXCEPT !.active.delay = 0])
        [] failed /\ slotted ->
             [SendPacket(w, me, [w.active EXCEPT !.delay = SlotWidth])
                EXCEPT !.busy = FALSE, !.mac = "none", !.active = NoPacket]
        [] ~failed /\ AwaitsAck(w) -> NextFromQueue([w EXCEPT !.acks = Append(@, w.active)])
        [] OTHER -> NextFromQueue(w)

FromMacAck(w, me, ok) ==
  LET slotted == w.opt.slotted /\ me # w.active.src
      failed == ~ok /\ w.active.type # "ACK"
  IN  CASE failed /\ ~slotted -> SendToMac([w EXCEPT !.active.delay = 0])
        [] failed /\ slotted ->
             NextFromQueue(SendPacket(w, me, [w.active EXCEPT !.delay = SlotWidth]))
        [] ~failed /\ AwaitsAck(w) -> NextFromQueue([w EXCEPT !.acks = Append(@, w.active)])
        [] OTHER -> NextFromQueue(w)

=============================================================================
