------------------------------- MODULE AodvII -------------------------------
(***************************************************************************)
(* SENSE's second on-demand distance vector protocol (net/aodvii.h), with  *)
(* repair of broken links and route errors: the handlers of a node.  `out' *)
(* and `up' are as in AodvI.  The protocol keeps its own queue in front of *)
(* the MAC: one packet is in the MAC at a time, until from_mac_ack.        *)
(*                                                                         *)
(* `repair' of a route stands for in_local_repair and local_repair_time: a *)
(* repair that began less than LocalRepairTime ago.  Neither is assigned   *)
(* when the route is new: `junk' is what they say then, and `made' marks   *)
(* such a route.                                                           *)
(*                                                                         *)
(* Left out: hello messages, the neighbour table and SendDataPacket, whose *)
(* timer and calls are commented out, and src_seq_num, which nothing reads.*)
(***************************************************************************)
EXTENDS Integers, Sequences, SequencesExt, FiniteSetsExt, TLC

CONSTANTS Broadcast,      \* ether_addr_t::BROADCAST
          Nothing,        \* no packet
          TimeToLive,     \* the hops a request may make
          MaxRepairTTL, MinRepairTTL, LocalAddTTL

\* Start().  `acksAtOnce': FIFOACK3 answers every packet from within to_mac,
\* as it does unless it has no buffer.
Started(acksAtOnce) ==
           [acksAtOnce |-> acksAtOnce, seq |-> 1, req |-> 0, did |-> 1, routes |-> <<>>, seen |-> {}, dataSeen |-> {},
            buffer |-> <<>>, queue |-> <<>>, busy |-> FALSE, active |-> Nothing,
            delayed |-> {}, repairs |-> <<>>, assertFailed |-> FALSE,
            out |-> <<>>, up |-> <<>>]

Knows(w, d) == d \in DOMAIN w.routes
Valid(w, d) == Knows(w, d) /\ w.routes[d].valid

(***************************************************************************)
(* To the MAC                                                              *)
(***************************************************************************)
Routed(p) == p.type \in {"RREP", "DATA"}

\* SendPacket returns false for a packet that does not reach the MAC: it is
\* dropped without a route and waits for a valid one.
Sendable(w, p) == Routed(p) => Valid(w, p.dst)

\* Mutant: the packet that goes to the MAC is not noted.
SendPacketUnmarked(w, p) ==
  CASE Sendable(w, p) ->
         [w EXCEPT !.out = Append(@, <<p, IF Routed(p) THEN w.routes[p.dst].next ELSE Broadcast>>)]
    [] Routed(p) /\ Knows(w, p.dst) /\ ~Valid(w, p.dst) -> [w EXCEPT !.buffer = Append(@, p)]
    [] OTHER -> w

SendPacket(w, p) ==
  CASE Sendable(w, p) ->
         [w EXCEPT !.active = p,
                   !.out = Append(@, <<p, IF Routed(p) THEN w.routes[p.dst].next ELSE Broadcast>>)]
    [] Routed(p) /\ Knows(w, p.dst) /\ ~Valid(w, p.dst) -> [w EXCEPT !.buffer = Append(@, p)]
    [] OTHER -> w

\* Mutant: the packet goes to the MAC whether it is busy or not.
BufferPacketAtOnce(w, p) == [SendPacket(w, p) EXCEPT !.busy = Sendable(w, p)]
BufferPacket(w, p) ==
  IF w.busy THEN [w EXCEPT !.queue = Append(@, p)]
  ELSE [SendPacket(w, p) EXCEPT !.busy = Sendable(w, p) /\ ~w.acksAtOnce]

\* CheckBuffer: what waits for d is sent.
CheckBuffer(w, d) ==
  FoldLeft(BufferPacket,
           [w EXCEPT !.buffer = SelectSeq(@, LAMBDA q : q.dst # d)],
           SelectSeq(w.buffer, LAMBDA q : q.dst = d))

(***************************************************************************)
(* Requests                                                                *)
(***************************************************************************)
InitRreq(w, me, dst, ttl, seq) ==
  BufferPacket([w EXCEPT !.req = @ + 1, !.seq = @ + 1, !.seen = @ \union {<<me, w.req + 1>>}],
               [type |-> "RREQ", src |-> me, dst |-> dst, id |-> w.req + 1, ttl |-> ttl,
                hops |-> 0, dseq |-> seq, prev |-> me])

Data(src, dst, id, hops, me) ==
  [type |-> "DATA", src |-> src, dst |-> dst, id |-> id, hops |-> hops, prev |-> me]

\* `id' of a reply names the request it answers; the program has no such field.
Reply(src, dst, id, seq, hops, me) ==
  [type |-> "RREP", src |-> src, dst |-> dst, id |-> id, dseq |-> seq, hops |-> hops,
   prev |-> me]

FromTransport(w0, me, dst) ==
  LET w == [w0 EXCEPT !.did = @ + 1]
      p == Data(me, dst, w.did, 0, me)
  IN  IF Valid(w, dst) THEN BufferPacket(w, p)
      ELSE LET v == InitRreq(w, me, dst, TimeToLive, 0)
           IN  [v EXCEPT !.buffer = Append(@, p)]

\* UpdateRoutingTable: the source of a request or a reply can be reached by
\* the neighbour it came from.  The number compared is the packet's
\* dst_seq_num, which in a request is not the source's.
NewRoute(p, junk) ==
  [seq |-> p.dseq, valid |-> TRUE, hops |-> p.hops, next |-> p.prev, origin |-> p.dst,
   repair |-> junk, made |-> TRUE]

Better(p, r) ==
  \/ ~r.valid
  \/ p.dseq > r.seq
  \/ p.dseq = r.seq /\ p.hops < r.hops

UpdateRoutingTable(w, p, junk) ==
  CASE ~Knows(w, p.src) ->
         CheckBuffer([w EXCEPT !.routes = (p.src :> NewRoute(p, junk)) @@ @], p.src)
    [] Knows(w, p.src) /\ Better(p, w.routes[p.src]) ->
         CheckBuffer([w EXCEPT !.routes[p.src] =
           [@ EXCEPT !.seq = p.dseq, !.valid = TRUE, !.hops = p.hops, !.next = p.prev,
                     !.repair = FALSE, !.made = FALSE]], p.src)
    [] OTHER -> w

Answered(w, p, me) ==
  LET seq == (IF w.seq < p.dseq THEN p.dseq ELSE w.seq) + 1
  IN  BufferPacket([w EXCEPT !.seq = seq], Reply(me, p.src, p.id, seq, 0, me))

CanReply(w, p) == Valid(w, p.dst) /\ w.routes[p.dst].seq >= p.dseq

\* A node on the way answers with the distance it knows.
RepliedFor(w, p, me) ==
  LET r == w.routes[p.dst]
  IN  [w EXCEPT !.delayed = @ \union {Reply(p.dst, p.src, p.id, r.seq, r.hops + 1, me)}]

MaxSeq(w, p) ==
  IF Knows(w, p.dst) /\ w.routes[p.dst].seq >= p.dseq THEN w.routes[p.dst].seq ELSE p.dseq

ForwardRreq(w, p, me) ==
  IF p.ttl <= 1 THEN w
  ELSE [w EXCEPT !.delayed = @ \union
          {[p EXCEPT !.ttl = @ - 1, !.hops = @ + 1, !.prev = me, !.dseq = MaxSeq(w, p)]}]

ReceiveRreq(w, p, me, junk) ==
  IF <<p.src, p.id>> \in w.seen THEN w
  ELSE LET v == UpdateRoutingTable([w EXCEPT !.seen = @ \union {<<p.src, p.id>>}], p, junk)
       IN  CASE p.dst = me                   -> Answered(v, p, me)
             [] p.dst # me /\ CanReply(v, p) -> RepliedFor(v, p, me)
             [] OTHER                        -> ForwardRreq(v, p, me)

(***************************************************************************)
(* Route errors and local repair                                           *)
(***************************************************************************)
Rerr(broken, me) == [type |-> "RERR", lost |-> broken, prev |-> me]

WithRerr(w, broken, me) ==
  IF broken = {} THEN w ELSE [w EXCEPT !.delayed = @ \union {Rerr(broken, me)}]

\* Every route by this neighbour is lost, the ones already lost as well.
InitRerr(w, me, neighbour) ==
  LET lost == {d \in DOMAIN w.routes : w.routes[d].next = neighbour}
      v == [w EXCEPT !.routes = [d \in DOMAIN @ |->
              IF d \in lost THEN [@[d] EXCEPT !.seq = @ + 1, !.valid = FALSE] ELSE @[d]]]
  IN  WithRerr(v, {<<d, v.routes[d].seq>> : d \in lost}, me)

\* The routes that were made for a request of our own are asked for again,
\* the loss of the others is passed on.
ReceiveRerr(w, p, me) ==
  LET hit == {l \in p.lost : Valid(w, l[1]) /\ w.routes[l[1]].next = p.prev}
      v == [w EXCEPT !.routes = [d \in DOMAIN @ |->
              IF \E l \in hit : l[1] = d
              THEN [@[d] EXCEPT !.valid = FALSE, !.seq = (CHOOSE l \in hit : l[1] = d)[2]]
              ELSE @[d]]]
      own == {l \in hit : w.routes[l[1]].origin = me}
      Ask(l, x) == InitRreq(x, me, l[1], TimeToLive, l[2])
  IN  WithRerr(FoldSet(Ask, v, own), hit \ own, me)

RepairTtl(w, d, src, me, hops) ==
  CASE src = me                                -> w.routes[d].hops + LocalAddTTL
    [] src # me /\ MinRepairTTL > 2 * hops     -> MinRepairTTL
    [] OTHER                                   -> hops \div 2 + LocalAddTTL

\* RepairLink: a search of limited range, or an error to the neighbours; a
\* repair that is under way is left alone.  A timer is set in every case.
RepairLink(w, me, src, d, hops) ==
  LET r == w.routes[d]
      needed == ~r.repair
      w1 == InitRreq([w EXCEPT !.routes[d].seq = @ + 1], me, d,
                     RepairTtl(w, d, src, me, hops), r.seq + 1)
      repairing == [w1 EXCEPT !.routes[d].repair = TRUE, !.routes[d].valid = FALSE,
                              !.routes[d].made = FALSE]
      given == InitRerr([w EXCEPT !.routes[d].valid = FALSE, !.routes[d].repair = FALSE,
                                  !.routes[d].made = FALSE],
                        me, r.next)
      v == CASE needed /\ (hops < MaxRepairTTL \/ src = me) -> repairing
             [] needed /\ ~(hops < MaxRepairTTL \/ src = me) -> given
             [] OTHER -> w
  IN  [v EXCEPT !.repairs = (d :> (IF d \in DOMAIN @ THEN @[d] + 1 ELSE 1)) @@ @]

\* One of the timers for d expires.
RepairTimer(w0, me, d) ==
  LET w == [w0 EXCEPT !.repairs[d] = @ - 1]
      waits == \E i \in DOMAIN w.buffer : w.buffer[i].dst = d /\ w.buffer[i].type = "DATA"
  IN  CASE waits /\ ~Knows(w, d) -> [w EXCEPT !.assertFailed = TRUE]
        [] waits /\ Knows(w, d) /\ ~Valid(w, d) -> RepairLink(w, me, me, d, 0)
        [] OTHER -> w

\* LocalRepairTime after the repair of d began
RepairAges(w, d) == [w EXCEPT !.routes[d].repair = FALSE]

(***************************************************************************)
(* Replies, data, and the answers of the MAC                               *)
(***************************************************************************)
ReceiveRrep(w, p, me, junk) ==
  LET v == UpdateRoutingTable(w, p, junk)
      q == [p EXCEPT !.hops = @ + 1, !.prev = me]
  IN  CASE p.dst = me \/ ~Knows(v, p.dst) -> v
        [] p.dst # me /\ Valid(v, p.dst) -> BufferPacket(v, q)
        [] OTHER -> LET x == RepairLink(v, me, p.src, p.dst, v.routes[p.dst].hops)
                    IN  [x EXCEPT !.buffer = Append(@, q)]

\* Mutant: a packet that is heard again is taken for a new one.
DataSeenNever(w, p) == FALSE
DataSeen(w, p) == <<p.src, p.id>> \in w.dataSeen

ReceiveData(w0, p, me) ==
  LET w == [w0 EXCEPT !.dataSeen = @ \union {<<p.src, p.id>>}]
      q == [p EXCEPT !.hops = @ + 1, !.prev = me]
  IN  CASE DataSeen(w0, p) -> w0
        [] ~DataSeen(w0, p) /\ p.dst = me -> [w EXCEPT !.up = Append(@, <<p.src, p.id>>)]
        [] ~DataSeen(w0, p) /\ p.dst # me /\ Valid(w, p.dst) -> BufferPacket(w, q)
        [] ~DataSeen(w0, p) /\ p.dst # me /\ Knows(w, p.dst) /\ ~Valid(w, p.dst) ->
             LET x == RepairLink(w, me, p.src, p.dst, w.routes[p.dst].hops)
             IN  [x EXCEPT !.buffer = Append(@, q)]
        [] OTHER -> w

FromMacData(w, p, to, me, junk) ==
  CASE to \notin {me, Broadcast} -> w
    [] to \in {me, Broadcast} /\ p.type = "RREQ" -> ReceiveRreq(w, p, me, junk)
    [] to \in {me, Broadcast} /\ p.type = "RREP" -> ReceiveRrep(w, p, me, junk)
    [] to \in {me, Broadcast} /\ p.type = "DATA" -> ReceiveData(w, p, me)
    [] OTHER -> ReceiveRerr(w, p, me)

\* A packet that failed waits for the repair of its route.
FailedPacket(w, me) ==
  LET p == w.active
  IN  IF p = Nothing \/ ~Routed(p) \/ ~Knows(w, p.dst) THEN [w EXCEPT !.assertFailed = TRUE]
      ELSE LET x == RepairLink(w, me, p.src, p.dst, w.routes[p.dst].hops)
           IN  [x EXCEPT !.buffer = Append(@, p)]

\* Packets of the queue are tried until one reaches the MAC.
TryNext(w, p) ==
  IF w.busy THEN [w EXCEPT !.queue = Append(@, p)]
  ELSE [SendPacket(w, p) EXCEPT !.busy = Sendable(w, p)]

FromMacAck(w, me, success) ==
  LET v == IF success THEN w ELSE FailedPacket(w, me)
  IN  FoldLeft(TryNext, [v EXCEPT !.busy = FALSE, !.active = Nothing, !.queue = <<>>], v.queue)

ToMacDepart(w, p) == BufferPacket([w EXCEPT !.delayed = @ \ {p}], p)
=============================================================================
