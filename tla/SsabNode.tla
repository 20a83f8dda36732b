-------------------------------- MODULE SsabNode --------------------------------
(* One SENSE node: the network layer SSAB (net/ssab.h) on the broadcast MAC     *)
(* (mac/bcast_mac.h).  A packet that is new is forwarded after a back-off and   *)
(* dropped when a neighbour is overheard forwarding it first; while the MAC has *)
(* one packet, the others wait in a buffer.  The neighbours and the channel are *)
(* an environment: any frame may start at any moment.                           *)
EXTENDS SequenceCache, Sequences, FiniteSets

CONSTANTS
    Me,              \* MyEtherAddr
    Others,          \* the other sources of packets
    MaxNumber,       \* bound on the sequence numbers
    ForMe,           \* the packets addressed to this node, or to all
    Delays,          \* back-off delays of forwarded packets
    MaxBuffer        \* bound on the packets that wait

Sources == Others \union {Me}
Packets == [src : Sources, n : 2..MaxNumber]
NoPacket == [src |-> Me, n |-> 0]
NoFrame == [pkt |-> NoPacket, err |-> FALSE, overlap |-> FALSE, again |-> FALSE]

ASSUME PacketsAssumption ==
    /\ Me \notin Others
    /\ MaxNumber \in Nat \ {0}
    /\ Delays \subseteq Nat
    /\ ForMe \subseteq [src : Others, n : 2..MaxNumber]

VARIABLES
    mac,             \* BcastMAC: m_state, m_pldinf.pld, which timers are active
    rx,              \* m_rxinf, the frame recv_timer is set for, or NoFrame
    net,             \* SSAB: m_mac_busy, m_active_packet, m_packet_buffer
    number,          \* m_seq_number
    cache,           \* m_seq_cache
    sent,            \* history: the packets handed to the transceiver
    overheard,       \* history: packets heard while they waited here
    stale            \* history: m_active_packet was read after it was freed

vars == <<mac, rx, net, number, cache, sent, overheard, stale>>

Init == /\ mac = [state |-> "IDLE", pld |-> NoPacket, defer |-> FALSE, ack |-> FALSE,
                  assertFailed |-> FALSE, refused |-> FALSE]
        /\ rx = NoFrame
        /\ net = [busy |-> FALSE, active |-> NoPacket, buffer |-> << >>]
        /\ number = 1
        /\ cache = [s \in Sources |-> NothingHeard]
        /\ sent = {}
        /\ overheard = {}
        /\ stale = FALSE

----------------------------------------------------------------------------------
(* BcastMAC's handlers, as functions of the MAC's state.                        *)

Receiving == rx # NoFrame

(* from_network and StartDefer: the back-off timer is set unless a frame is     *)
(* coming in, at whose end RecvTimer sets it.  A MAC that is not idle refuses.  *)
(* m_tx_end lies ahead only in MAC_SEND.  The mutant sets the timer anyway.     *)
FromNetworkAtOnce(m, p, receiving) ==
    IF m.state # "IDLE"
    THEN [m EXCEPT !.ack = TRUE, !.refused = TRUE, !.assertFailed = @ \/ m.ack]
    ELSE [m EXCEPT !.state = "DEFER", !.pld = p, !.defer = TRUE,
                   !.assertFailed = @ \/ m.defer]

FromNetwork(m, p, receiving) ==
    IF m.state # "IDLE"
    THEN [m EXCEPT !.ack = TRUE, !.refused = TRUE, !.assertFailed = @ \/ m.ack]
    ELSE [m EXCEPT !.state = "DEFER", !.pld = p, !.defer = ~receiving,
                   !.assertFailed = @ \/ m.defer]

(* cancel: only a packet that is still deferred can be taken back; the network  *)
(* layer is told by ack_timer, at the same time.  The mutant forgets to.        *)
CancelUnanswered(m) ==
    IF m.state = "DEFER" THEN [m EXCEPT !.state = "IDLE", !.defer = FALSE] ELSE m

Cancel(m) ==
    IF m.state = "DEFER"
    THEN [m EXCEPT !.state = "IDLE", !.defer = FALSE, !.ack = TRUE,
                   !.assertFailed = @ \/ m.ack]
    ELSE m

ResumeDefer(m) ==
    IF m.state = "DEFER" THEN [m EXCEPT !.defer = TRUE, !.assertFailed = @ \/ m.defer]
    ELSE m

(* The end of a frame that is dropped.  The mutant forgets to resume.           *)
DropFrameOnly(m) == m
DropFrame(m) == ResumeDefer(m)

----------------------------------------------------------------------------------
(* SSAB's handlers.  They return the network layer and the MAC after its calls. *)

(* How far an iterator gets from begin() while the places it passes are in S.   *)
Passed(buffer, S) == Cardinality({i \in DOMAIN buffer : 1..i \subseteq S})

(* The buffer is a list sorted by delay, first come first served among equals.  *)
Insert(buffer, p, delay) ==
    LET before == Passed(buffer, {i \in DOMAIN buffer : buffer[i].delay <= delay})
    IN  SubSeq(buffer, 1, before) \o <<[pkt |-> p, delay |-> delay]>>
          \o SubSeq(buffer, before + 1, Len(buffer))

Erase(buffer, p) ==
    LET before == Passed(buffer, {i \in DOMAIN buffer : buffer[i].pkt # p})
    IN  SubSeq(buffer, 1, before) \o SubSeq(buffer, before + 2, Len(buffer))

Waiting(buffer) == {buffer[i].pkt : i \in DOMAIN buffer}

(* A packet for the MAC: at once, or into the buffer.                           *)
Submit(p, delay, m, receiving) ==
    IF net.busy
    THEN [net |-> [net EXCEPT !.buffer = Insert(@, p, delay)], mac |-> m]
    ELSE [net |-> [net EXCEPT !.busy = TRUE, !.active = p],
          mac |-> FromNetwork(m, p, receiving)]

(* from_mac_ack: whatever the answer, the next packet of the buffer goes out.   *)
FromMacAck(m) ==
    IF net.buffer # << >>
    THEN [net |-> [net EXCEPT !.active = Head(net.buffer).pkt,
                              !.buffer = Tail(@)],
          mac |-> FromNetwork(m, Head(net.buffer).pkt, Receiving)]
    ELSE [net |-> [net EXCEPT !.busy = FALSE], mac |-> m]

(* A packet heard before: take it back from the MAC, or out of the buffer.  The *)
(* mutant looks at the packet at the MAC only.                                  *)
RepetitionMacOnly(p, m) ==
    IF net.busy /\ net.active = p THEN [net |-> net, mac |-> Cancel(m)]
    ELSE [net |-> net, mac |-> m]

Repetition(p, m) ==
    IF net.busy /\ net.active = p THEN [net |-> net, mac |-> Cancel(m)]
    ELSE [net |-> [net EXCEPT !.buffer = Erase(@, p)], mac |-> m]

Answered(after) == /\ net' = after.net
                   /\ mac' = after.mac

Outstanding == Waiting(net.buffer) \union (IF net.busy THEN {net.active} ELSE {})

(* from_mac_data, called at the end of a frame, when the timers run again.      *)
FromMacData(p, m) ==
    \E outcome \in Checks(cache[p.src], p.n) :
        /\ cache' = [cache EXCEPT ![p.src] = outcome.cache]
        /\ stale' = (stale \/ (outcome.heard /\ net.busy /\ m.state # "DEFER"))
        /\ overheard' = overheard \union ({p} \cap Outstanding)
        /\ \/ outcome.heard /\ Answered(Repetition(p, m))
           \/ ~outcome.heard /\ p \in ForMe /\ net' = net /\ mac' = m
           \/ /\ ~outcome.heard /\ p \notin ForMe
              /\ \E delay \in Delays : Answered(Submit(p, delay, m, FALSE))

----------------------------------------------------------------------------------
(* The application has a packet for the network.                                *)
FromTransport ==
    /\ number < MaxNumber
    /\ Len(net.buffer) < MaxBuffer
    /\ number' = number + 1
    /\ \E outcome \in Checks(cache[Me], number') :
          cache' = [cache EXCEPT ![Me] = outcome.cache]
    /\ Answered(Submit([src |-> Me, n |-> number'], 0, mac, Receiving))
    /\ UNCHANGED <<rx, sent, overheard, stale>>

(* A frame starts.  The first one suspends the back-off.  Of two that overlap,  *)
(* one ten times as strong survives; otherwise the longer one is received in    *)
(* error.  A number repeated after 65536 frames of its sender is `again'.       *)
(* `overlap' is the test of RecvTimer for a frame that began before m_tx_end,   *)
(* taken at the beginning; the mutant does without.                             *)
FrameUnguarded(p, err, again) ==
    [pkt |-> p, err |-> err, overlap |-> FALSE, again |-> again]

FrameFrom(p, err, again) ==
    [pkt |-> p, err |-> err, overlap |-> mac.state = "SEND", again |-> again]

FromPhy(p, err, again) ==
    /\ p.src = Me => p \in sent
    /\ Len(net.buffer) < MaxBuffer
    /\ \/ /\ ~Receiving
          /\ rx' = FrameFrom(p, err, again)
          /\ mac' = IF mac.state = "DEFER"
                    THEN [mac EXCEPT !.defer = FALSE, !.assertFailed = @ \/ ~mac.defer]
                    ELSE mac
       \/ /\ Receiving
          /\ rx' \in {FrameFrom(p, err, again), rx, FrameFrom(p, TRUE, again),
                      [rx EXCEPT !.err = TRUE]}
          /\ mac' = mac
    /\ UNCHANGED <<net, number, cache, sent, overheard, stale>>

(* A frame ends.  It takes time, so no answer is due at the same moment.        *)
RecvTimer ==
    /\ Receiving
    /\ ~mac.ack
    /\ rx' = NoFrame
    /\ \/ /\ rx.err \/ rx.overlap
          /\ mac' = DropFrame(mac)
          /\ UNCHANGED <<net, cache, overheard, stale>>
       \/ /\ ~(rx.err \/ rx.overlap) /\ rx.again
          /\ mac' = ResumeDefer(mac)
          /\ UNCHANGED <<net, cache, overheard, stale>>
       \/ /\ ~(rx.err \/ rx.overlap) /\ ~rx.again
          /\ FromMacData(rx.pkt, ResumeDefer(mac))
    /\ UNCHANGED <<number, sent>>

DeferTimer ==
    /\ mac.defer
    /\ mac' = [mac EXCEPT !.state = "SEND", !.defer = FALSE,
                          !.assertFailed = @ \/ mac.state # "DEFER"]
    /\ sent' = sent \union {mac.pld}
    /\ UNCHANGED <<rx, net, number, cache, overheard, stale>>

SendTimer ==
    /\ mac.state = "SEND"
    /\ Answered(FromMacAck([mac EXCEPT !.state = "IDLE"]))
    /\ UNCHANGED <<rx, number, cache, sent, overheard, stale>>

AckTimer ==
    /\ mac.ack
    /\ Answered(FromMacAck([mac EXCEPT !.state = "IDLE", !.ack = FALSE]))
    /\ UNCHANGED <<rx, number, cache, sent, overheard, stale>>

Next == \/ FromTransport
        \/ \E p \in Packets, err, again \in BOOLEAN : FromPhy(p, err, again)
        \/ RecvTimer
        \/ DeferTimer
        \/ SendTimer
        \/ AckTimer

Spec == Init /\ [][Next]_vars

(* Timers that are set fire.  The back-off timer is cancelled by every frame    *)
(* that starts; it fires if again and again there is a pause long enough.       *)
FairSpec == /\ Spec
            /\ WF_vars(RecvTimer)
            /\ WF_vars(SendTimer)
            /\ WF_vars(AckTimer)
            /\ SF_vars(DeferTimer)

----------------------------------------------------------------------------------
Buffers == Seq([pkt : Packets, delay : Delays \union {0}])

(* The variables have their types.                                              *)
TypeOK ==
    /\ mac \in [state : {"IDLE", "DEFER", "SEND"}, pld : Packets \union {NoPacket},
                defer : BOOLEAN, ack : BOOLEAN, assertFailed : BOOLEAN,
                refused : BOOLEAN]
    /\ rx \in [pkt : Packets \union {NoPacket}, err : BOOLEAN, overlap : BOOLEAN,
               again : BOOLEAN]
    /\ net \in [busy : BOOLEAN, active : Packets \union {NoPacket}, buffer : Buffers]
    /\ number \in 1..MaxNumber
    /\ cache \in [Sources -> Caches]
    /\ sent \subseteq Packets
    /\ overheard \subseteq Packets
    /\ stale \in BOOLEAN

(* The network layer believes the MAC busy exactly while the MAC has its packet *)
(* or owes it an answer, and never both: one answer per packet.                 *)
OneAnswerPerPacket ==
    /\ net.busy <=> mac.state # "IDLE" \/ mac.ack
    /\ mac.ack => mac.state = "IDLE"

(* None of the MAC's assertions fails, and the branch of from_network that      *)
(* throws a packet away because the MAC is not idle is never taken.             *)
MacNeverSurprised == ~mac.assertFailed /\ ~mac.refused

(* from_mac_data reads m_active_packet only while the MAC still has the packet: *)
(* not after cancel() freed it, nor while the transceiver owns it.              *)
ActivePacketAlive == ~stale

(* Whatever frames come in, the node sends no packet twice, and none that it    *)
(* overheard while it waited.                                                   *)
SendsOnce ==
    [][\A p \in Packets : mac'.state = "SEND" /\ mac.state # "SEND" /\ mac.pld = p
          => p \notin sent \union overheard]_vars

(* A packet that waits is sent in the end, unless it is overheard.              *)
WaitingIsSettled ==
    \A p \in Packets : p \in Outstanding ~> p \in sent \union overheard
==================================================================================
