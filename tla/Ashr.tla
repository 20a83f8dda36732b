-------------------------------- MODULE Ashr --------------------------------
(***************************************************************************)
(* SENSE's autonomic self-healing routing (net/ashr.h, class SSRv02): the  *)
(* handlers of a node.  They take the state w of the node, its address me  *)
(* and their arguments, and return the state they leave.  After a packet   *)
(* was sent, time is divided into slots: nodes on a shorter way forward it *)
(* in slot 0 (T1), those on the way as long as expected in T2, and, when   *)
(* nobody did and the sender repeats it, those on longer ways in T3.  A    *)
(* sender that sees frames collide instead asks with a COLL to try again.  *)
(*                                                                         *)
(* The file does not compile as it stands: a stray word in createAckPkt    *)
(* (line 574), an undeclared counter in CancelPacket (1705).  It is read   *)
(* without the two.                                                        *)
(*                                                                         *)
(* Packets are referred to by pointers, as queues and timers share them:   *)
(* w.heap has the packets, a pointer is a number.  Times matter for the    *)
(* order of m_send_queue only and are small numbers.                       *)
(***************************************************************************)
EXTENDS Integers, Sequences, SequencesExt, Functions, TLC

CONSTANTS TimeToLive, MaxResend,
          NumT2Slots, NumT3Slots,
          Unindexed        \* 12345, the index of no timer yet

AckWindow == 1
SlotWidth == 2
ForwardDelay == 5      \* a request waits for as long at most
MaxCounter == 2
NotMeasured == -1      \* the slot of a collision that is ignored

(***************************************************************************)
(* InfiTimer (common/cost.h): slots, and the pointers in those that are on *)
(***************************************************************************)
NewTimer == [size |-> 1, free |-> <<0>>, on |-> <<>>]

\* GetEvent makes all slots up to the one asked for.
Touched(t, i) ==
  IF i < t.size THEN t
  ELSE [t EXCEPT !.size = i + 1, !.free = @ \o [k \in 1 .. i + 1 - t.size |-> t.size + k - 1]]
Extended(t) == IF t.free = <<>> THEN Touched(t, 2 * t.size - 1) ELSE t

NextSlot(t) == Last(Extended(t).free)
SetFor(t, h) ==
  LET g == Extended(t) IN [g EXCEPT !.free = Front(@), !.on = (Last(g.free) :> h) @@ @]
Released(t, i) == [t EXCEPT !.free = Append(@, i), !.on = Restrict(@, DOMAIN @ \ {i})]

\* if( timer.Active( i)) timer.Cancel( i)
CancelIfActive(t, i) ==
  LET g == Touched(t, i) IN IF i \in DOMAIN g.on THEN Released(g, i) ELSE g

(***************************************************************************)
(* The node and its packets                                                *)
(***************************************************************************)
\* seq_number_t: an entry in the state Initial counts as 99 hops.
InitialEntry == [hc |-> 99, pending |-> 0, changing |-> FALSE, ctr |-> 0]
Entry(hops) == [hc |-> hops, pending |-> 0, changing |-> FALSE, ctr |-> MaxCounter]

Started(options, me) ==
  [opt |-> options, busy |-> FALSE, mac |-> "none", active |-> 0, heap |-> <<>>,
   queue |-> <<>>, t3 |-> <<>>, colls |-> <<>>, buffer |-> <<>>,
   endT1 |-> NewTimer, endT2 |-> NewTimer, endColl |-> NewTimer,
   table |-> (me :> InitialEntry), number |-> 0, seen |-> {}, up |-> <<>>, lost |-> FALSE]

Pointers(t) == {t.on[i] : i \in DOMAIN t.on}
OnT3(w) == {w.t3[i] : i \in DOMAIN w.t3}

\* The packets somebody still points to; the other ones are forgotten.
Collected(w) ==
  LET held(q) == {q[i] : i \in DOMAIN q}
      live == {w.active} \union held(w.queue) \union OnT3(w) \union held(w.colls)
                \union Pointers(w.endT1) \union Pointers(w.endT2) \union Pointers(w.endColl)
  IN  [w EXCEPT !.heap = Restrict(@, DOMAIN @ \intersect live), !.up = <<>>]

NewPointer(w) ==
  LET free == 1 .. Len(w.queue) + Len(w.t3) + Len(w.colls) + 20
  IN  CHOOSE h \in free \ DOMAIN w.heap : \A g \in free \ DOMAIN w.heap : h <= g
Created(w, p) == [w EXCEPT !.heap = (NewPointer(w) :> p) @@ @]

BasicPkt(type, me, dst) ==
  [type |-> type, src |-> me, dst |-> dst, cur |-> me, pre |-> me, seq |-> 0, id |-> 0,
   actual |-> 1, expected |-> 0, max |-> 0, delay |-> 0, canceled |-> FALSE, resend |-> 0,
   slot |-> 0, coll |-> FALSE, t3 |-> FALSE, i1 |-> Unindexed, i2 |-> Unindexed, ic |-> Unindexed]

DataPkt(me, dst, k) == [BasicPkt("DATA", me, dst) EXCEPT !.id = k]
T3Pkt(p) == [p EXCEPT !.resend = @ + 1, !.coll = FALSE, !.t3 = TRUE, !.delay = 0]
RequestPkt(me, dst) == [BasicPkt("REQUEST", me, dst) EXCEPT !.expected = 1, !.max = TimeToLive]
ReplyPkt(me, src, hops, extra) ==
  [BasicPkt("REPLY", me, src) EXCEPT !.expected = hops, !.max = hops + extra]
AckPkt(src, cur, pre, seq, delay) ==
  [BasicPkt("ACK", src, src) EXCEPT !.cur = cur, !.pre = pre, !.seq = seq, !.delay = delay]
CollPkt(p) ==
  [BasicPkt("COLL", p.src, p.dst) EXCEPT !.expected = 1, !.cur = p.cur, !.pre = p.pre,
                                         !.slot = p.slot, !.seq = p.seq]

\* The first of the packets in q that p is a copy of
Same(p, r) == p.src = r.src /\ p.seq = r.seq
First(w, q, p) == SelectInSeq(q, LAMBDA h : Same(w.heap[h], p))

(***************************************************************************)
(* Hop counts                                                              *)
(***************************************************************************)
\* hopCount(newHC): another hop count is believed when reported twice.
Counted(e, hops) ==
  CASE e = InitialEntry -> Entry(hops)
    [] e # InitialEntry /\ ~e.changing ->
         IF hops = e.hc THEN e ELSE [e EXCEPT !.ctr = @ - 1, !.pending = hops, !.changing = TRUE]
    [] e.changing /\ hops = e.hc -> [e EXCEPT !.ctr = @ + 1, !.changing = e.ctr + 1 # MaxCounter]
    [] e.changing /\ hops # e.hc /\ hops = e.pending ->
         IF e.ctr = 1 THEN Entry(hops) ELSE [e EXCEPT !.ctr = @ - 1]
    [] OTHER -> [e EXCEPT !.pending = hops]

Knows(w, d) == d \in DOMAIN w.table

UpdateHopCountInCache(w, d, hops, always) ==
  CASE ~Knows(w, d) -> [w EXCEPT !.table = (d :> Entry(hops)) @@ @]
    [] Knows(w, d) /\ (always \/ w.table[d].hc > hops) ->
         [w EXCEPT !.table[d] = Counted(@, hops)]
    [] OTHER -> w

(***************************************************************************)
(* The way to the MAC                                                      *)
(***************************************************************************)
SendToMac(w) ==
  IF w.opt.transition THEN [w EXCEPT !.busy = TRUE, !.mac = "transition"]
  ELSE [w EXCEPT !.busy = TRUE, !.mac = "defer", !.heap[w.active].coll = FALSE]

TransitionTimer(w) == [w EXCEPT !.mac = "defer", !.heap[w.active].coll = FALSE]

SendPacket(w, me, h, newSeq) ==
  LET p == w.heap[h]
      new == newSeq /\ p.src = me
      seq == IF new THEN w.number + 1 ELSE p.seq
      v == [w EXCEPT !.heap[h].canceled = FALSE, !.heap[h].seq = seq,
                     !.number = IF new THEN seq ELSE @,
                     !.seen = IF new THEN @ \union {<<me, seq>>} ELSE @]
      later == SelectInSeq(w.queue, LAMBDA g : w.heap[g].delay > p.delay)
  IN  IF w.busy
      THEN [v EXCEPT !.queue = InsertAt(@, IF later = 0 THEN Len(@) + 1 ELSE later, h)]
      ELSE SendToMac([v EXCEPT !.active = h])

Send(w, me, p, newSeq) == SendPacket(Created(w, p), me, NewPointer(w), newSeq)

SendAck(w, me, p, pre, delay) == Send(w, me, AckPkt(p.src, me, pre, p.seq, delay), FALSE)

Routed(p, hops, extra) ==
  [p EXCEPT !.expected = hops, !.max = hops + extra, !.delay = AckWindow]

FromTransport(w, me, dst, k) ==
  IF Knows(w, dst)
  THEN Send(w, me, Routed(DataPkt(me, dst, k), w.table[dst].hc, w.opt.extra), TRUE)
  ELSE [Send(w, me, RequestPkt(me, dst), TRUE) EXCEPT !.buffer = Append(@, DataPkt(me, dst, k))]

CheckBuffer(w, me, d) ==
  LET due == SelectSeq(w.buffer, LAMBDA p : p.dst = d)
  IN  FoldLeft(LAMBDA v, p : Send(v, me, Routed(p, w.table[d].hc, w.opt.extra), TRUE),
               [w EXCEPT !.buffer = SelectSeq(@, LAMBDA p : p.dst # d)], due)

(***************************************************************************)
(* Cancelling                                                              *)
(***************************************************************************)
\* The MAC can be stopped only while it defers.
CancelPacket(w, p) ==
  LET queued == First(w, w.queue, p)
      active == w.busy /\ Same(w.heap[w.active], p) /\ w.heap[w.active].type # "ACK"
  IN  CASE active -> [w EXCEPT !.heap[w.active].canceled = TRUE,
                               !.mac = IF @ = "defer" THEN "canceled" ELSE @]
        [] ~active /\ queued > 0 /\ w.heap[w.queue[queued]].type # "ACK" ->
             [w EXCEPT !.queue = RemoveAt(@, queued)]
        [] OTHER -> w

\* Mutant: the packet leaves m_T3_queue, its timers go on.
TimersOffNever(w, p) == w
TimersOff(w, p) ==
  [w EXCEPT !.endT1 = CancelIfActive(@, p.i1), !.endT2 = CancelIfActive(@, p.i2)]

CancelRetransmission(w, p) ==
  LET i == First(w, w.t3, p)
      v == IF i = 0 THEN w
           ELSE [TimersOff(w, w.heap[w.t3[i]]) EXCEPT !.t3 = RemoveAt(@, i)]
      k == First(w, w.colls, p)
  IN  IF k = 0 THEN v
      ELSE [v EXCEPT !.endColl = CancelIfActive(@, w.heap[w.colls[k]].ic),
                     !.colls = RemoveAt(@, k)]

PerformAck(w, me, p) ==
  LET v == CancelRetransmission(w, p) IN IF p.pre = me THEN SendAck(v, me, p, me, 0) ELSE v

\* determineAckStatus: p is like a packet this node has sent.  A copy that
\* was forwarded as it should be corrects the hop count, unless it comes too
\* late, which is not acknowledged.
DetermineAckStatus(w, me, p, late) ==
  LET like(q) == SelectInSeq(q, LAMBDA h : Same(w.heap[h], p) /\ w.heap[h].type = p.type)
      i == like(w.t3)
      k == like(w.colls)
      orig == IF i > 0 THEN w.heap[w.t3[i]] ELSE w.heap[w.colls[k]]
      forwarded == ~orig.canceled /\ orig.cur = p.pre /\ orig.actual + 1 = p.actual
  IN  CASE i = 0 /\ k = 0 -> w
        [] i + k > 0 /\ forwarded /\ late -> w
        [] i + k > 0 /\ forwarded /\ ~late /\ p.expected # orig.expected - 1 ->
             PerformAck(UpdateHopCountInCache(w, orig.dst, p.expected + 1, TRUE), me, p)
        [] OTHER -> PerformAck(w, me, p)

(***************************************************************************)
(* from_mac_data.  slot is what Random chooses, late is whether the packet *)
(* is heard after T3.                                                      *)
(***************************************************************************)
ForwardPacket(w, me, p, slot) ==
  LET table == w.table[p.dst].hc
      pkt == p.expected - 1
      at == CASE ~p.t3 /\ table = pkt -> slot
              [] ~p.t3 /\ table < pkt -> 0
              [] OTHER -> table - pkt
      forwards == IF p.t3 THEN pkt < table /\ table <= pkt + NumT3Slots ELSE table <= pkt
  IN  IF Knows(w, p.dst) /\ forwards
      THEN Send(w, me, [p EXCEPT !.expected = table, !.t3 = FALSE, !.slot = at,
                                 !.delay = at * SlotWidth + AckWindow], FALSE)
      ELSE w

ReceiveAck(w, me, p) ==
  LET v == CancelPacket(w, p) IN IF p.pre = me THEN PerformAck(v, me, p) ELSE v

ReceiveCollision(w, me, p, slot) ==
  LET v == CancelPacket(w, p)
      i == First(v, v.t3, p)
      orig == v.heap[v.t3[i]]
      off == TimersOff(v, orig)
      again == IF orig.slot = p.slot
               THEN ForwardPacket(off, me, [orig EXCEPT !.expected = @ + 1], slot) ELSE off
  IN  IF i = 0 THEN v
      ELSE [again EXCEPT !.t3 = SelectSeq(@, LAMBDA h : h # v.t3[i])]

\* A packet that was sent again is not for the destination, which is thought
\* to have got the first one.
AtDestination(w, me, p) ==
  LET acked == SendAck(w, me, p, p.cur, AckWindow)
  IN  CASE p.resend # 0 -> w
        [] p.resend = 0 /\ p.type = "REQUEST" ->
             CheckBuffer(Send(w, me, ReplyPkt(me, p.src, w.table[p.src].hc, w.opt.extra), TRUE),
                         me, p.src)
        [] p.resend = 0 /\ p.type = "REPLY" -> CheckBuffer(acked, me, p.src)
        [] OTHER -> [acked EXCEPT !.up = Append(@, <<p.src, p.id>>)]

\* The copy a node forwards.  Mutant: the hop is not counted.
ForwardedUncounted(p, me) == [p EXCEPT !.cur = me, !.pre = p.cur, !.resend = 0, !.coll = FALSE]

Forwarded(p, me) ==
  [p EXCEPT !.cur = me, !.pre = p.cur, !.resend = 0, !.coll = FALSE, !.actual = @ + 1]

ReceiveReqRepData(w, me, p, slot, late) ==
  LET v == [UpdateHopCountInCache(w, p.src, p.actual, FALSE)
              EXCEPT !.seen = @ \union {<<p.src, p.seq>>}]
      new == <<p.src, p.seq>> \notin w.seen \/ p.resend # 0 \/ p.t3
      np == Forwarded(p, me)
  IN  CASE new /\ p.dst = me -> AtDestination(v, me, p)
        [] new /\ p.dst # me /\ p.actual < p.max ->
             IF p.type = "REQUEST"
             THEN Send(v, me, [np EXCEPT !.t3 = FALSE, !.delay = ForwardDelay], FALSE)
             ELSE ForwardPacket(v, me, np, slot)
        [] ~new /\ p.type # "REQUEST" -> DetermineAckStatus(CancelPacket(v, p), me, p, late)
        [] OTHER -> v

FromMacData(w, p, me, slot, late) ==
  CASE p.type = "ACK" -> ReceiveAck(w, me, p)
    [] p.type = "COLL" -> ReceiveCollision(w, me, p, slot)
    [] OTHER -> ReceiveReqRepData(w, me, p, slot, late)

(***************************************************************************)
(* Collisions and the timers of T1, T2 and of a COLL                       *)
(***************************************************************************)
\* from_mac_recv_recv_coll: the slots it may be in for the packet h.  T1 ends
\* with slot 0, T2 one slot after its last, both later by twice the transition
\* time, which is less than a slot.  A collision in the AckWindow or after the
\* slots of T3 is not measured.
SlotsFor(w, h) ==
  LET edge == IF w.opt.transition THEN 1 ELSE 0
      slots == 0 .. NumT2Slots + NumT3Slots
      measured(from, to) ==
        (slots \intersect (from .. to)) \union (IF to \in slots THEN {} ELSE {NotMeasured})
  IN  CASE h \in Pointers(w.endT1) -> {NotMeasured} \union measured(0, edge)
        [] h \notin Pointers(w.endT1) /\ h \in Pointers(w.endT2) ->
             measured(1, NumT2Slots + 1 + edge)
        [] OTHER -> {NotMeasured} \union slots

RecvRecvColl(w, slotOf) ==
  [w EXCEPT !.heap = [h \in DOMAIN @ |->
     IF h \in OnT3(w) /\ slotOf[h] # NotMeasured
     THEN [@[h] EXCEPT !.coll = TRUE, !.slot = slotOf[h]] ELSE @[h]]]

SendCollisionPacket(w, me, h) ==
  LET v == Send([w EXCEPT !.endT2 = CancelIfActive(@, w.heap[h].i2),
                          !.t3 = SelectSeq(@, LAMBDA g : g # h),
                          !.colls = Append(@, h)], me, CollPkt(w.heap[h]), FALSE)
  IN  [v EXCEPT !.heap[h].ic = NextSlot(v.endColl), !.endColl = SetFor(@, h)]

EndT1Timer(w, me, i) ==
  LET h == w.endT1.on[i]
      v == [w EXCEPT !.endT1 = Released(@, i)]
  IN  IF w.heap[h].coll THEN SendCollisionPacket(v, me, h) ELSE v

EndT2Timer(w, me, i) ==
  LET h == w.endT2.on[i]
      p == w.heap[h]
      v == [w EXCEPT !.endT2 = Released(@, i)]
  IN  CASE p.coll -> SendCollisionPacket(v, me, h)
        [] ~p.coll /\ p.resend < MaxResend ->
             [Send(v, me, T3Pkt(p), FALSE) EXCEPT
                !.t3 = Append(SelectSeq(@, LAMBDA g : g # h), NewPointer(v))]
        [] OTHER -> v

\* The packet has to be on the queue: the code erases what it found, and then
\* reads the pointer in the list node it has erased, where it still is.
EndCollTimer(w, i) ==
  LET k == First(w, w.colls, w.heap[w.endColl.on[i]])
      v == [w EXCEPT !.endColl = Released(@, i)]
  IN  IF k = 0 THEN [v EXCEPT !.lost = TRUE] ELSE [v EXCEPT !.colls = RemoveAt(@, k)]

(***************************************************************************)
(* from_mac_ack                                                            *)
(***************************************************************************)
NextFromQueue(w) ==
  IF w.queue # <<>> THEN SendToMac([w EXCEPT !.active = Head(w.queue), !.queue = Tail(@)])
  ELSE [w EXCEPT !.busy = FALSE, !.mac = "none", !.active = 0]

\* A relay does not repeat what the MAC could not send: it puts the packet on
\* m_T3_queue without timers.  Asking whether the timers are on makes slots
\* for their indices, with 12345 the first to be taken.
FromMacAck(w, me, ok) ==
  LET h == w.active
      sent == w.heap[h]
      onWay == sent.type \in {"DATA", "REPLY"}
      failed == ~ok /\ sent.type # "ACK"
      t1 == Touched(w.endT1, sent.i1)
      t2 == Touched(w.endT2, sent.i2)
  IN  CASE failed /\ (me = sent.src \/ ~onWay) -> SendToMac(w)
        [] failed /\ me # sent.src /\ onWay -> NextFromQueue([w EXCEPT !.t3 = Append(@, h)])
        [] ~failed /\ onWay /\ ~sent.canceled ->
             NextFromQueue([w EXCEPT !.heap[h].i1 = NextSlot(t1), !.endT1 = SetFor(t1, h),
                                     !.heap[h].i2 = NextSlot(t2), !.endT2 = SetFor(t2, h),
                                     !.t3 = Append(@, h)])
        [] OTHER -> NextFromQueue(w)
=============================================================================
