------------------------------- MODULE AodvI -------------------------------
(***************************************************************************)
(* SENSE's first on-demand distance vector protocol (net/aodvi.h): the     *)
(* handlers of a node, from its state to the next.  Two fields of the      *)
(* state belong to no variable of the program: `out' is what the step      *)
(* hands to the MAC and `up' what it hands to the application.             *)
(*                                                                         *)
(* Left out: the lifetimes of routes, which nothing reads, the flags, of   *)
(* which only `destination' is read and is always 0, and the statistics.   *)
(*                                                                         *)
(* Headers come from a pool and keep what the last packet left in them:    *)
(* dst_seq_num of a request for an unknown route and src_seq_num of a      *)
(* forwarded request are never assigned.  `junk' is what they hold.        *)
(***************************************************************************)
EXTENDS Integers, Sequences, SequencesExt, TLC

CONSTANTS Broadcast,      \* ether_addr_t::BROADCAST
          TimeToLive      \* the hops a request may make

NoRoutes == <<>>

\* Start()
Started == [seq |-> 0, req |-> 0, routes |-> NoRoutes, seen |-> {}, buffer |-> <<>>,
            delayed |-> {}, out |-> <<>>, up |-> <<>>]

Knows(w, d) == d \in DOMAIN w.routes

Route(seq, hops, next) == [seq |-> seq, hops |-> hops, next |-> next]

SetRoute(w, d, route) == [w EXCEPT !.routes = (d :> route) @@ @]

\* to_mac
ToMac(w, p, to) == [w EXCEPT !.out = Append(@, <<p, to>>)]

Data(src, dst, id, hops, me) ==
  [type |-> "DATA", src |-> src, dst |-> dst, id |-> id, hops |-> hops, prev |-> me]

\* `id' of a reply names the request it answers; the program has no such field.
Reply(src, dst, id, seq, hops, me) ==
  [type |-> "RREP", src |-> src, dst |-> dst, id |-> id, dseq |-> seq, hops |-> hops,
   prev |-> me]

InitRreq(w, me, dst, junk) ==
  ToMac([w EXCEPT !.req = @ + 1, !.seq = @ + 1, !.seen = @ \union {<<me, w.req + 1>>}],
        [type |-> "RREQ", src |-> me, dst |-> dst, id |-> w.req + 1, ttl |-> TimeToLive,
         hops |-> 0, sseq |-> w.seq + 1, prev |-> me,
         dseq |-> IF Knows(w, dst) THEN w.routes[dst].seq ELSE junk],
        Broadcast)

\* A packet without a route waits, and asks for one.
FromTransport(w, me, dst, id, junk) ==
  LET p == Data(me, dst, id, 0, me)
  IN  IF Knows(w, dst) THEN ToMac(w, p, w.routes[dst].next)
      ELSE LET v == InitRreq(w, me, dst, junk) IN [v EXCEPT !.buffer = Append(@, p)]

\* The route back to the source of a request: a newer number or fewer hops
\* replace it.  Its hops are those of the neighbour: one less than our own.
ReverseRoute(w, p) ==
  IF Knows(w, p.src) /\ p.sseq <= w.routes[p.src].seq /\ p.hops >= w.routes[p.src].hops
  THEN w ELSE SetRoute(w, p.src, Route(p.sseq, p.hops, p.prev))

\* The destination answers at once, by the route just made.
Answered(w, p, me) ==
  LET seq == IF w.seq < p.dseq THEN p.dseq ELSE w.seq
  IN  ToMac([w EXCEPT !.seq = seq], Reply(me, p.src, p.id, seq, 0, me), w.routes[p.src].next)

\* A node that knows the way as well answers after a delay; the next hop is
\* fixed before the delay.
CanReply(w, p) == Knows(w, p.dst) /\ w.routes[p.dst].seq >= p.dseq

RepliedFor(w, p, me) ==
  LET r == w.routes[p.dst]
  IN  [w EXCEPT !.delayed =
         @ \union {<<Reply(p.dst, p.src, p.id, r.seq, r.hops, me), w.routes[p.src].next>>}]

ForwardRreq(w, p, me, junk) ==
  IF p.ttl <= 1 THEN w
  ELSE [w EXCEPT !.delayed = @ \union
         {<<[p EXCEPT !.ttl = @ - 1, !.hops = @ + 1, !.prev = me, !.sseq = junk], Broadcast>>}]

ReceiveRreq(w, p, me, junk) ==
  IF <<p.src, p.id>> \in w.seen THEN w
  ELSE LET v == ReverseRoute([w EXCEPT !.seen = @ \union {<<p.src, p.id>>}], p)
       IN  CASE p.dst = me                     -> Answered(v, p, me)
             [] p.dst # me /\ CanReply(v, p)   -> RepliedFor(v, p, me)
             [] OTHER                          -> ForwardRreq(v, p, me, junk)

\* What waited for d goes out by the new route.
Flushed(w, d) ==
  LET due == SelectSeq(w.buffer, LAMBDA q : q.dst = d)
  IN  [w EXCEPT !.buffer = SelectSeq(@, LAMBDA q : q.dst # d),
                !.out = @ \o [i \in DOMAIN due |-> <<due[i], w.routes[d].next>>]]

\* The route to the source of a reply.  What waited for it is sent only when
\* the route is new; an existing route may be replaced.
ForwardRoute(w, p) ==
  LET made == Route(p.dseq, p.hops + 1, p.prev)
  IN  CASE ~Knows(w, p.src) -> Flushed(SetRoute(w, p.src, made), p.src)
        [] Knows(w, p.src) /\ (\/ p.dseq > w.routes[p.src].seq
                               \/ p.dseq = w.routes[p.src].seq
                                    /\ p.hops < w.routes[p.src].hops) ->
             SetRoute(w, p.src, made)
        [] OTHER -> w

ReceiveRrep(w, p, me) ==
  LET v == ForwardRoute(w, p)
  IN  IF p.dst = me \/ ~Knows(v, p.dst) THEN v
      ELSE ToMac(v, [p EXCEPT !.hops = @ + 1, !.prev = me], v.routes[p.dst].next)

ReceiveData(w, p, me) ==
  CASE p.dst = me                       -> [w EXCEPT !.up = Append(@, <<p.src, p.id>>)]
    [] p.dst # me /\ Knows(w, p.dst)    ->
         ToMac(w, [p EXCEPT !.hops = @ + 1, !.prev = me], w.routes[p.dst].next)
    [] OTHER                            -> w

\* Frames for others, which the MAC passes up as well, are ignored.
FromMacData(w, p, to, me, junk) ==
  CASE to \notin {me, Broadcast} -> w
    [] to \in {me, Broadcast} /\ p.type = "RREQ" -> ReceiveRreq(w, p, me, junk)
    [] to \in {me, Broadcast} /\ p.type = "RREP" -> ReceiveRrep(w, p, me)
    [] OTHER -> ReceiveData(w, p, me)

\* The delay of a packet is over.
ToMacDepart(w, d) == ToMac([w EXCEPT !.delayed = @ \ {d}], d[1], d[2])
=============================================================================
