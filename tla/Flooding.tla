------------------------------ MODULE Flooding ------------------------------
(***************************************************************************)
(* SENSE's flooding (net/flooding.h): the handlers of a node.  `out' and   *)
(* `up' are as in AodvI.  What a node remembers of the numbers of a source *)
(* is the cache of SequenceCache, whose checks may have several outcomes:  *)
(* an operator gives the set of the states a handler may leave.            *)
(***************************************************************************)
EXTENDS SequenceCache, Sequences, SequencesExt, TLC

CONSTANT Broadcast      \* ether_addr_t::BROADCAST

\* Start()
Started(acksAtOnce, me) ==
  [acksAtOnce |-> acksAtOnce, number |-> 1, busy |-> FALSE, caches |-> (me :> NothingHeard),
   delayed |-> {}, out |-> <<>>, up |-> <<>>]

CacheOf(w, src) == IF src \in DOMAIN w.caches THEN w.caches[src] ELSE NothingHeard

Remembering(w, src, cache) == [w EXCEPT !.caches = (src :> cache) @@ @]

\* m_mac_busy and to_mac; a queue with a buffer acknowledges from within.
ToMac(w, p) == [w EXCEPT !.busy = ~w.acksAtOnce, !.out = Append(@, <<p, Broadcast>>)]

\* A packet that meets a busy MAC is dropped.
FromTransport(w, me, dst) ==
  IF w.busy THEN {w}
  ELSE {ToMac([Remembering(w, me, c.cache) EXCEPT !.number = @ + 1],
              [type |-> "DATA", src |-> me, dst |-> dst, id |-> w.number + 1]) :
          c \in Checks(CacheOf(w, me), w.number + 1)}

\* A new packet is delivered, or sent on unless the MAC is busy: then nobody
\* sends it on from here any more, for its number is remembered.
FromMacData(w, p, me) ==
  {LET v == Remembering(w, p.src, c.cache)
   IN  CASE c.heard -> v
         [] ~c.heard /\ p.dst \in {me, Broadcast} -> [v EXCEPT !.up = Append(@, <<p.src, p.id>>)]
         [] ~c.heard /\ p.dst \notin {me, Broadcast} /\ ~w.busy ->
              [v EXCEPT !.delayed = @ \union {p}]
         [] OTHER -> v : c \in Checks(CacheOf(w, p.src), p.id)}

FromMacAck(w) == [w EXCEPT !.busy = FALSE]

\* The delay is over; whether the MAC is busy is not asked.
Depart(w, p) == ToMac([w EXCEPT !.delayed = @ \ {p}], p)
=============================================================================
