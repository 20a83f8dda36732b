-------------------------------- MODULE Dsri --------------------------------
(***************************************************************************)
(* SENSE's dynamic source routing (net/dsri.h): the handlers of a node.    *)
(* `out' and `up' are as in AodvI.                                         *)
(*                                                                         *)
(* truncate_copy counts one address more than it copies: a cached route    *)
(* ends in an address that was never assigned.  It is the Unset here.      *)
(***************************************************************************)
EXTENDS Integers, Sequences, SequencesExt, TLC

CONSTANTS Broadcast,     \* ether_addr_t::BROADCAST
          Unset,         \* what an unassigned address holds
          TimeToLive     \* DSRI_TIMETOLIVE; a path has room for one more

Started == [req |-> 0, requests |-> <<>>, cache |-> <<>>, buffer |-> <<>>,
            delayed |-> {}, out |-> <<>>, up |-> <<>>, assertFailed |-> FALSE]

ToMac(w, p, to) == [w EXCEPT !.out = Append(@, <<p, to>>)]

\* path_t::append, into an array of TimeToLive + 1 addresses
Appended(w, path) == [w EXCEPT !.assertFailed = @ \/ Len(path) > TimeToLive]

\* path_t::truncate_copy: what follows addr, and one address more.
\* Mutant: addr itself is copied, too.
TruncateCopyWhole(path, addr) ==
  LET i == SelectInSeq(path, LAMBDA x : x = addr)
  IN  [index |-> i, path |-> SubSeq(path, i, Len(path)) \o <<Unset>>]

TruncateCopy(path, addr) ==
  LET i == SelectInSeq(path, LAMBDA x : x = addr)
  IN  [index |-> i, path |-> SubSeq(path, i + 1, Len(path)) \o <<Unset>>]

InitRreq(w, me, dst) ==
  ToMac([w EXCEPT !.req = @ + 1, !.requests = (me :> w.req + 1) @@ @],
        [type |-> "RREQ", src |-> me, dst |-> dst, id |-> w.req + 1, ttl |-> TimeToLive - 1,
         path |-> <<me>>],
        Broadcast)

FromTransport(w, me, dst, id) ==
  LET p == [type |-> "DATA", src |-> me, dst |-> dst, id |-> id, path |-> <<>>]
  IN  IF dst \in DOMAIN w.cache
      THEN ToMac(w, [p EXCEPT !.path = w.cache[dst]], w.cache[dst][1])
      ELSE LET v == InitRreq(w, me, dst) IN [v EXCEPT !.buffer = Append(@, p)]

\* Only the last request of a source is remembered: an older one that comes
\* late is taken for a repetition.
Repeated(w, p, me) ==
  \/ p.src \in DOMAIN w.requests /\ w.requests[p.src] >= p.id
  \/ me \in ToSet(p.path)

InitRrep(w, p, me) ==
  ToMac(Appended(w, p.path),
        [type |-> "RREP", src |-> p.dst, dst |-> p.src, id |-> p.id, path |-> Append(p.path, me)],
        Last(p.path))

ReceiveRreq(w, p, me) ==
  IF Repeated(w, p, me) THEN w
  ELSE LET v == [w EXCEPT !.requests = (p.src :> p.id) @@ @]
       IN  CASE p.dst = me -> InitRrep(v, p, me)
             [] p.dst # me /\ p.ttl > 0 ->
                  [Appended(v, p.path) EXCEPT !.delayed = @ \union
                     {<<[p EXCEPT !.ttl = @ - 1, !.path = Append(@, me)], Broadcast>>}]
             [] OTHER -> v

\* What waited goes out by the first route found, not by a better one.
\* Mutant: it stays in the buffer.
FlushedNever(w, d) == w
Flushed(w, d) ==
  LET due == SelectSeq(w.buffer, LAMBDA q : q.dst = d)
  IN  [w EXCEPT !.buffer = SelectSeq(@, LAMBDA q : q.dst # d),
                !.out = @ \o [i \in DOMAIN due |->
                                <<[due[i] EXCEPT !.path = w.cache[d]], w.cache[d][1]>>]]

ReceiveRrep(w, p, me) ==
  LET cut == TruncateCopy(p.path, me)
      found == IF me = p.dst THEN cut.index = 1 ELSE cut.index > 1
      w0 == [w EXCEPT !.assertFailed = @ \/ ~found]
      w1 == IF me # p.dst THEN ToMac(w0, p, p.path[cut.index - 1]) ELSE w0
      known == p.src \in DOMAIN w.cache
      stored == [w1 EXCEPT !.cache = (p.src :> cut.path) @@ @]
  IN  CASE ~known -> Flushed(stored, p.src)
        [] known /\ Len(w.cache[p.src]) > Len(cut.path) -> stored
        [] OTHER -> w1

\* Every hop takes itself off the route.
ReceiveData(w, p, me) ==
  IF p.dst = me THEN [w EXCEPT !.up = Append(@, <<p.src, p.id>>)]
  ELSE LET rest == Tail(p.path) IN ToMac(w, [p EXCEPT !.path = rest], rest[1])

FromMacData(w, p, to, me) ==
  CASE to \notin {me, Broadcast} -> w
    [] to \in {me, Broadcast} /\ p.type = "RREQ" -> ReceiveRreq(w, p, me)
    [] to \in {me, Broadcast} /\ p.type = "RREP" -> ReceiveRrep(w, p, me)
    [] OTHER -> ReceiveData(w, p, me)

ToMacDepart(w, d) == ToMac([w EXCEPT !.delayed = @ \ {d}], d[1], d[2])
=============================================================================
