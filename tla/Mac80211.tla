------------------------------ MODULE Mac80211 ------------------------------
(***************************************************************************)
(* SENSE's 802.11 MAC (mac/mac_80211.h) at several stations, some of them  *)
(* hidden from each other, with the queue FIFOACK3 (util/fifo_ack.h)       *)
(* between each network layer and its MAC, as examples/sense/              *)
(* sim_routing.cc connects them.                                           *)
(*                                                                         *)
(* A handler is one step with all it calls: an acknowledgement to the      *)
(* queue lets the next packet into the MAC at once.  Handlers are          *)
(* operators from a station's state to the next.                           *)
(*                                                                         *)
(* Time is counted in ticks, every time is relative to now, and Elapse     *)
(* moves to the next timer.  Timers that are due at the same time expire   *)
(* in any order: propagation delays, which are far below a tick, order     *)
(* them in the program.  A frame that is put on the air begins to arrive   *)
(* at the other stations before any time passes.                           *)
(***************************************************************************)
EXTENDS Integers, Sequences, FiniteSets, SequencesExt, FiniteSetsExt

CONSTANTS Stations,      \* the ether addresses
          Hearing,       \* whom each station's frames reach
          Broadcast,     \* ether_addr_t::BROADCAST
          Nobody,        \* NULL, and no station
          Traffic,       \* what each network layer sends: a function from
                         \* Stations to sequences of [dst, long, id]
          Promiscuity,   \* pass data for others up as well
          SIFS, Slot,    \* SIFSTime, SlotTime
          ControlTime,   \* time on the air of an RTS, a CTS or an ACK
          DataTime,      \* and of a data frame
          CWMin, CWMax,  \* contention window
          ShortRetryLimit, LongRetryLimit,
          Powers,        \* how a frame may compare with one that is coming in
          MaxErrors      \* bound on frames received in error or not at all

\* Nothing takes a negative time; a slot and a frame take some.
ASSUME TimesAssumption == /\ SIFS \in Nat /\ Slot \in Nat \ {0}
                          /\ ControlTime \in Nat \ {0} /\ DataTime \in Nat \ {0}
                          /\ CWMin \in Nat /\ CWMax \in Nat

ASSUME TrafficAssumption ==
  \A s \in Stations : Traffic[s] \in Seq(ToSet(Traffic[s])) /\ Hearing[s] \subseteq Stations

ASSUME AddressAssumption == Broadcast \notin Stations

\* Two packets are never the same.
ASSUME PacketsDiffer ==
  \A s, t \in Stations : \A i \in DOMAIN Traffic[s], j \in DOMAIN Traffic[t] :
     Traffic[s][i] = Traffic[t][j] => s = t /\ i = j

DIFS == SIFS + Slot
EIFS == SIFS + ControlTime + DIFS

Off == -1       \* a timer that is not set

TxTime(type) == IF type = "DATA" THEN DataTime ELSE ControlTime

NoPayload == [dst |-> Nobody, long |-> FALSE, id |-> 0]

VARIABLES mac,        \* the stations' states
          arriving,   \* frames that begin to arrive: pairs of station and frame
          offered,    \* how many of its packets a network layer has handed down
          errors,     \* frames damaged or lost so far
          got,        \* payloads each MAC has passed up, as a sequence
          told        \* answers each network layer has had, with the payload

vars == <<mac, arriving, offered, errors, got, told>>

MaxOf(a, b) == IF a >= b THEN a ELSE b

\* Start(), and an empty queue.
Idle ==
  [state |-> "IDLE", nav |-> 0, cw |-> CWMin, backoff |-> 0, ssrc |-> 0, slrc |-> 0,
   ifs |-> 0, since |-> 0, session |-> FALSE, peer |-> Nobody, pld |-> NoPayload,
   rx |-> NoPayload, rxError |-> FALSE, txFailed |-> FALSE, long |-> FALSE,
   lastSend |-> 0, seq |-> 0, cache |-> [s \in Stations |-> 0],
   defer |-> Off, recv |-> Off, cts |-> Off, ack |-> Off, navTimer |-> Off,
   netAck |-> Off, phy |-> Off, phyFrame |-> NoPayload,
   busy |-> FALSE, queue |-> <<>>,
   assertFailed |-> FALSE, overlap |-> FALSE, refused |-> FALSE,
   air |-> {}, up |-> <<>>, answers |-> <<>>]

\* `air', `up' and `answers' hold what a step puts on the air, passes up and
\* answers; they are empty between steps.
Quiet(w) == [w EXCEPT !.air = {}, !.up = <<>>, !.answers = <<>>]

Asserted(w, cond) == [w EXCEPT !.assertFailed = @ \/ ~cond]

(***************************************************************************)
(* Deferral                                                                *)
(***************************************************************************)
\* Random(m_cw * SlotTime)
Backoffs(cw) == {Slot * k : k \in 0 .. cw - 1}

\* The deferral starts when this station and the medium are free.
\* Mutant: the reservation of the medium is not looked at.
DeferFromOwn(w) == MaxOf(0, w.lastSend)
DeferFrom(w) == MaxOf(0, MaxOf(w.lastSend, w.nav))

IFS(w) == IF w.txFailed THEN EIFS ELSE DIFS

\* While a frame is coming in, the timer is left to the end of RecvTimer.
\* Mutant: it is set all the same.
StartDeferAtOnce(w, backoff, b) ==
  [Asserted(w, w.state # "DEFER" /\ w.defer = Off) EXCEPT
     !.backoff = b, !.state = "DEFER", !.ifs = IFS(w), !.since = -DeferFrom(w),
     !.defer = DeferFrom(w) + IFS(w) + (IF backoff THEN b ELSE 0)]

StartDefer(w, backoff, b) ==
  LET v == [Asserted(w, w.state # "DEFER" /\ w.defer = Off) EXCEPT
              !.backoff = b, !.state = "DEFER"]
  IN  IF w.recv # Off THEN v
      ELSE [v EXCEPT !.ifs = IFS(w), !.since = -DeferFrom(w),
                     !.defer = DeferFrom(w) + IFS(w) + (IF backoff THEN b ELSE 0)]

ResumeDefer(w) ==
  IF w.state # "DEFER" THEN w
  ELSE [Asserted(w, w.defer = Off) EXCEPT
          !.ifs = IFS(w), !.since = -DeferFrom(w),
          !.defer = DeferFrom(w) + IFS(w) + w.backoff]

(***************************************************************************)
(* The two TxPacket functions                                              *)
(***************************************************************************)
TxNow(w, f) ==
  IF w.lastSend > 0 THEN [w EXCEPT !.overlap = TRUE]
  ELSE [w EXCEPT !.lastSend = TxTime(f.type), !.air = @ \union {f}]

TxAfterSifs(w, f) ==
  IF SIFS < w.lastSend THEN [w EXCEPT !.overlap = TRUE]
  ELSE [Asserted(w, w.phy = Off) EXCEPT
          !.lastSend = SIFS + TxTime(f.type), !.phy = SIFS, !.phyFrame = f]

(***************************************************************************)
(* from_network, and the queue above, with its buffer                      *)
(***************************************************************************)
\* A MAC that is not idle refuses the packet; the queue, which takes the
\* answer for a request, would lose all it holds.
FromNetwork(w, p, b) ==
  IF w.state # "IDLE"
  THEN [w EXCEPT !.refused = TRUE, !.queue = <<>>, !.busy = FALSE]
  ELSE LET short == ~p.long \/ p.dst = Broadcast
           v == [w EXCEPT !.long = ~short, !.pld = p, !.seq = @ + 1,
                          !.ssrc = IF short THEN 0 ELSE @,
                          !.slrc = IF short THEN @ ELSE 0]
       IN  StartDefer(v, FALSE, b)

\* FIFOACK3::in
\* Mutant: the queue does not note that the MAC is busy.
QueueInForgetful(w, p, b) == FromNetwork(w, p, b)
QueueIn(w, p, b) == IF w.busy THEN [w EXCEPT !.queue = Append(@, p)]
                    ELSE FromNetwork([w EXCEPT !.busy = TRUE], p, b)

\* FIFOACK3::next, which to_network_ack calls
QueueNext(w, b) ==
  IF w.queue # <<>> THEN FromNetwork([w EXCEPT !.queue = Tail(@)], Head(w.queue), b)
  ELSE [w EXCEPT !.busy = FALSE]

ToNetworkAck(w, ok, b) ==
  QueueNext([w EXCEPT !.answers = Append(@, <<w.pld, ok>>)], b)

(***************************************************************************)
(* Frames                                                                  *)
(***************************************************************************)
Frame(type, src, dst, dur, w) ==
  [type |-> type, src |-> src, dst |-> dst, dur |-> dur, seq |-> w.seq, pld |-> w.pld]

RtsDuration == 3 * SIFS + ControlTime + DataTime + ControlTime

\* The deferral is over: data without RTS, broadcast, or RTS.
DeferTimer(w0, me) ==
  LET w == Asserted([w0 EXCEPT !.defer = Off], w0.state = "DEFER")
      dst == w.pld.dst
      dur == SIFS + ControlTime + DataTime
  IN  CASE ~w.long /\ dst # Broadcast ->
             TxNow([w EXCEPT !.state = "ACK", !.ack = dur + DIFS],
                   Frame("DATA", me, dst, dur, w))
        [] ~w.long /\ dst = Broadcast ->
             TxNow([Asserted(w, w.netAck = Off) EXCEPT !.state = "IDLE", !.netAck = DataTime],
                   Frame("DATA", me, dst, 0, w))
        [] OTHER ->
             TxNow([w EXCEPT !.state = "CTS", !.cts = RtsDuration + SIFS],
                   Frame("RTS", me, dst, RtsDuration, w))

(***************************************************************************)
(* from_phy: the first bit of a frame.  When another one is coming in, the *)
(* powers decide: the new one is much stronger, much weaker, or neither.   *)
(***************************************************************************)
Suspended(w) ==
  LET v == Asserted(w, w.defer # Off)
      used == w.since - w.ifs
      left == IF used > 0 THEN w.backoff - used ELSE w.backoff
  IN  [Asserted(v, left >= 0) EXCEPT !.backoff = left, !.defer = Off, !.since = 0]

FromPhy(w, f, err, power) ==
  LET taken == [w EXCEPT !.rx = f, !.rxError = err, !.recv = TxTime(f.type)]
  IN  CASE w.recv = Off -> IF w.state = "DEFER" THEN Suspended(taken) ELSE taken
        [] w.recv # Off /\ power = "stronger" -> taken
        [] w.recv # Off /\ power = "weaker" -> w
        [] OTHER -> [(IF TxTime(f.type) > w.recv THEN taken ELSE w) EXCEPT !.rxError = TRUE]

(***************************************************************************)
(* The frame is complete                                                   *)
(***************************************************************************)
RecvRTS(w, f, me) ==
  IF w.state \notin {"IDLE", "DEFER"} \/ w.navTimer # Off THEN w
  ELSE LET cts == Frame("CTS", me, f.src, f.dur - (SIFS + ControlTime), w)
       IN  [Asserted(TxAfterSifs(w, cts), w.nav >= 0) EXCEPT
              !.session = TRUE, !.peer = f.src, !.navTimer = w.nav]

RecvCTS(w, f, me) ==
  IF w.state # "CTS" THEN w
  ELSE LET dur == 2 * SIFS + ControlTime + DataTime
       IN  TxAfterSifs([w EXCEPT !.state = "ACK", !.ack = dur + DIFS, !.cts = Off],
                       Frame("DATA", me, f.src, dur, w))

\* Data is acknowledged unless it falls into somebody else's session.
Acknowledges(w, f) == w.navTimer = Off \/ (w.session /\ f.src = w.peer)

\* The number is compared with the last one of the same source.
\* Mutant: it is not.
NeverDuplicate(w, f) == FALSE
Duplicate(w, f) == w.cache[f.src] = f.seq

PassedUp(w, f) ==
  IF Duplicate(w, f) THEN w
  ELSE [w EXCEPT !.cache[f.src] = f.seq, !.up = Append(@, f.pld)]

RecvData(w, f, me) ==
  CASE w.state \notin {"IDLE", "DEFER"} -> w
    [] w.state \in {"IDLE", "DEFER"} /\ f.dst = me /\ ~Acknowledges(w, f) -> ResumeDefer(w)
    [] w.state \in {"IDLE", "DEFER"} /\ f.dst = me /\ Acknowledges(w, f) ->
         PassedUp(ResumeDefer(TxAfterSifs(w, Frame("ACK", me, f.src, 0, w))), f)
    [] OTHER -> PassedUp(ResumeDefer(w), f)

RecvACK(w, b) ==
  IF w.state # "ACK" THEN w
  ELSE ToNetworkAck([w EXCEPT !.ack = Off, !.state = "IDLE", !.cw = CWMin], TRUE, b)

\* A frame that was damaged, or that began while this station was sending.
Overlapped(w, f) == w.lastSend > -TxTime(f.type)

\* Mutant: the deferral is not resumed after a damaged frame.
DamagedOnly(w) == [w EXCEPT !.txFailed = TRUE]
Damaged(w) == ResumeDefer([w EXCEPT !.txFailed = TRUE])

RecvTimer(w0, me, b) ==
  LET f == w0.rx
      w == [w0 EXCEPT !.recv = Off, !.rx = NoPayload, !.rxError = FALSE]
      v == [w EXCEPT !.nav = MaxOf(@, f.dur), !.txFailed = FALSE]
      mine == f.dst \in {me, Broadcast} \/ (Promiscuity /\ f.type = "DATA")
  IN  CASE w0.rxError \/ Overlapped(w0, f) -> Damaged(w)
        [] ~w0.rxError /\ ~Overlapped(w0, f) /\ ~mine -> ResumeDefer(v)
        [] OTHER ->
             CASE f.type = "RTS"  -> ResumeDefer(RecvRTS(v, f, me))
               [] f.type = "CTS"  -> ResumeDefer(RecvCTS(v, f, me))
               [] f.type = "ACK"  -> RecvACK(ResumeDefer(v), b)
               [] f.type = "DATA" -> RecvData(v, f, me)

(***************************************************************************)
(* Timeouts                                                                *)
(***************************************************************************)
Wider(cw) == IF cw < CWMax THEN 2 * cw + 1 ELSE cw

\* Either another attempt after a back-off, or the bad news.
RetryOrGiveUp(w, again, b) ==
  IF again THEN StartDefer([w EXCEPT !.cw = Wider(@)], TRUE, b)
  ELSE ToNetworkAck([w EXCEPT !.state = "IDLE", !.cw = CWMin], FALSE, b)

CTSTimer(w0, b) ==
  LET w == [Asserted(w0, w0.state = "CTS") EXCEPT !.cts = Off, !.ssrc = @ + 1]
  IN  RetryOrGiveUp(w, w.ssrc < ShortRetryLimit, b)

ACKTimer(w0, b) ==
  LET w == [Asserted(w0, w0.state = "ACK") EXCEPT
              !.ack = Off,
              !.slrc = IF w0.long THEN @ + 1 ELSE @,
              !.ssrc = IF w0.long THEN @ ELSE @ + 1]
      again == IF w.long THEN w.slrc < LongRetryLimit ELSE w.ssrc < ShortRetryLimit
  IN  RetryOrGiveUp(w, again, b)

NAVTimer(w) == [w EXCEPT !.navTimer = Off, !.session = FALSE]

NetworkAckTimer(w, b) == ToNetworkAck([w EXCEPT !.netAck = Off], TRUE, b)

PhyTimer(w) == [w EXCEPT !.phy = Off, !.phyFrame = NoPayload, !.air = @ \union {w.phyFrame}]

(***************************************************************************)
(* The stations together                                                   *)
(***************************************************************************)
Init == /\ mac = [s \in Stations |-> Idle]
        /\ arriving = {}
        /\ offered = [s \in Stations |-> 0]
        /\ errors = 0
        /\ got = [s \in Stations |-> <<>>]
        /\ told = [s \in Stations |-> <<>>]

\* Station s goes on as w.
Becomes(s, w) ==
  /\ mac' = [mac EXCEPT ![s] = Quiet(w)]
  /\ got' = [got EXCEPT ![s] = @ \o w.up]
  /\ told' = [told EXCEPT ![s] = @ \o w.answers]

Emits(s, w) == {<<r, f>> : r \in Hearing[s], f \in w.air}

Handles(s, w) == /\ Becomes(s, w)
                 /\ arriving' = arriving \union Emits(s, w)
                 /\ UNCHANGED <<offered, errors>>

\* The network layer hands its next packet to the queue.
Offer(s) ==
  /\ offered[s] < Len(Traffic[s])
  /\ offered' = [offered EXCEPT ![s] = @ + 1]
  /\ \E b \in Backoffs(mac[s].cw) : Becomes(s, QueueIn(mac[s], Traffic[s][offered[s] + 1], b))
  /\ UNCHANGED <<arriving, errors>>

\* A frame begins to arrive, whole or not.
Arrive(s, f) ==
  /\ <<s, f>> \in arriving
  /\ arriving' = arriving \ {<<s, f>>}
  /\ \E err \in BOOLEAN, power \in Powers :
       /\ errors' = IF err THEN errors + 1 ELSE errors
       /\ errors' <= MaxErrors
       /\ Becomes(s, FromPhy(mac[s], f, err, power))
  /\ UNCHANGED offered

\* The channel does not bring it at all.
Lose(s, f) ==
  /\ <<s, f>> \in arriving
  /\ errors < MaxErrors
  /\ errors' = errors + 1
  /\ arriving' = arriving \ {<<s, f>>}
  /\ UNCHANGED <<mac, offered, got, told>>

\* A handler that may start a deferral samples a back-off below the window
\* that it leaves behind.
WithBackoff(s, H(_)) ==
  \E b \in Backoffs(Wider(CWMax - 1)) : LET w == H(b) IN b < Slot * w.cw /\ Handles(s, w)

DeferExpires(s)  == mac[s].defer = 0 /\ Handles(s, DeferTimer(mac[s], s))
RecvExpires(s)   == mac[s].recv = 0 /\ WithBackoff(s, LAMBDA b : RecvTimer(mac[s], s, b))
CTSExpires(s)    == mac[s].cts = 0 /\ WithBackoff(s, LAMBDA b : CTSTimer(mac[s], b))
ACKExpires(s)    == mac[s].ack = 0 /\ WithBackoff(s, LAMBDA b : ACKTimer(mac[s], b))
NAVExpires(s)    == mac[s].navTimer = 0 /\ Handles(s, NAVTimer(mac[s]))
NetAckExpires(s) == mac[s].netAck = 0 /\ WithBackoff(s, LAMBDA b : NetworkAckTimer(mac[s], b))
PhyExpires(s)    == mac[s].phy = 0 /\ Handles(s, PhyTimer(mac[s]))

TimersOf(w) == {w.defer, w.recv, w.cts, w.ack, w.navTimer, w.netAck, w.phy}
Pending == (UNION {TimersOf(mac[s]) : s \in Stations}) \ {Off}

\* Time passes up to the next timer.
Elapse ==
  LET d == Min(Pending)
      Less(t) == IF t = Off THEN Off ELSE t - d
  IN  /\ arriving = {}
      /\ Pending # {}
      /\ d > 0
      /\ mac' = [s \in Stations |->
           [mac[s] EXCEPT !.defer = Less(@), !.recv = Less(@), !.cts = Less(@),
                          !.ack = Less(@), !.navTimer = Less(@), !.netAck = Less(@),
                          !.phy = Less(@),
                          !.nav = MaxOf(@ - d, 0),
                          !.since = IF mac[s].defer = Off THEN 0 ELSE @ + d,
                          !.lastSend = MaxOf(@ - d, -DataTime)]]
      /\ UNCHANGED <<arriving, offered, errors, got, told>>

Expires(s) == \/ DeferExpires(s) \/ RecvExpires(s) \/ CTSExpires(s) \/ ACKExpires(s)
              \/ NAVExpires(s) \/ NetAckExpires(s) \/ PhyExpires(s)

Next == \/ \E s \in Stations : Offer(s) \/ Expires(s)
        \/ \E a \in arriving : Arrive(a[1], a[2]) \/ Lose(a[1], a[2])
        \/ Elapse

Spec == Init /\ [][Next]_vars

(***************************************************************************)
(* Properties                                                              *)
(***************************************************************************)
\* The handlers keep the rules they assert: one deferral at a time, a timer
\* that is needed is set and one that is to be set is free, no send begins
\* during another one, and the queue never hands a packet to a MAC that is
\* not idle.
AssertsHold == \A s \in Stations : ~mac[s].assertFailed /\ ~mac[s].overlap /\ ~mac[s].refused

\* The packets of a network layer are answered once each and in order: those
\* answered, the one in the MAC and those in the queue are those offered.
AnsweredOnceInOrder ==
  \A s \in Stations :
     [i \in DOMAIN told[s] |-> told[s][i][1]]
       \o (IF mac[s].busy THEN <<mac[s].pld>> ELSE <<>>) \o mac[s].queue
     = SubSeq(Traffic[s], 1, offered[s])

\* However often a frame is sent again, its payload is passed up at most once
\* at every station, and a network layer that is told of success can rely on
\* it: the payload of a unicast has been passed up at its destination.
DeliveredOnce ==
  /\ \A s \in Stations : IsInjective(got[s])
  /\ \A s \in Stations : \A i \in DOMAIN told[s] :
       told[s][i][2] /\ told[s][i][1].dst # Broadcast
         => told[s][i][1] \in ToSet(got[told[s][i][1].dst])

\* A station that has heard in a frame how long the medium is taken does not
\* begin a transmission of its own before that time is over.
NavRespected ==
  [][\A s \in Stations : mac[s].state = "DEFER" /\ mac'[s].state # "DEFER"
                          => mac[s].nav = 0]_vars

\* The retries come to an end with an answer: when no timer is set any more
\* and no frame is on its way, every packet has been answered.
NothingLeftBehind ==
  Pending = {} /\ arriving = {}
    => \A s \in Stations : Len(told[s]) = offered[s]
=============================================================================
