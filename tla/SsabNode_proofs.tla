---------------------------- MODULE SsabNode_proofs -----------------------------
(* One answer per packet: SSAB and BcastMAC agree on who has it; and nothing is *)
(* sent twice, or after it was overheard: for any number of sources, packets    *)
(* and delays, and any frames at any time.                                      *)
EXTENDS SsabNode, FiniteSetTheorems, SequenceTheorems, NaturalsInduction, TLAPS

USE WindowAssumption, PacketsAssumption

Macs == [state : {"IDLE", "DEFER", "SEND"}, pld : Packets \union {NoPacket},
         defer : BOOLEAN, ack : BOOLEAN, assertFailed : BOOLEAN, refused : BOOLEAN]
Nets == [busy : BOOLEAN, active : Packets \union {NoPacket}, buffer : Buffers]
Frames == [pkt : Packets \union {NoPacket}, err : BOOLEAN, overlap : BOOLEAN,
           again : BOOLEAN]

(* What MAC m and a network layer that is busy or not know of each other, while *)
(* a frame comes in or not.                                                     *)
Agree(m, busy, receiving) ==
    /\ m.assertFailed = FALSE
    /\ m.refused = FALSE
    /\ busy = TRUE <=> (m.state # "IDLE" \/ m.ack = TRUE)
    /\ m.ack = TRUE => m.state = "IDLE"
    /\ m.defer = TRUE <=> (m.state = "DEFER" /\ ~receiving)
    /\ m.state = "DEFER" => m.pld \in Packets

ControlInv ==
    /\ TypeOK
    /\ Agree(mac, net.busy, Receiving)
    /\ Receiving => rx.pkt \in Packets
    /\ Receiving /\ mac.state = "SEND" => rx.overlap = TRUE
    /\ stale = FALSE

----------------------------------------------------------------------------------
(* Types of the operators of seq_number_t, and what check() remembers.          *)

LEMMA AdvancesType ==
    ASSUME NEW memory \in Caches, NEW n \in Nat, ~TooOld(memory, n),
           NEW c \in Advances(memory, n)
    PROVE  /\ c \in Caches
           /\ c.current - n \in 0..(Window - 1)
           /\ c.current - n \in Offsets
<1>1. memory.current \in Nat /\ memory.bits \subseteq Offsets
  BY DEF Caches
<1>2. memory.current < n + Window
  BY <1>1 DEF TooOld
<1>3. CASE n > memory.current
  <2>1. c \in [current : {n}, bits : ShiftOutcomes(memory.bits, n - memory.current)]
    BY <1>3 DEF Advances
  <2>2. c = [current |-> c.current, bits |-> c.bits] /\ c.current = n
        /\ c.bits \in ShiftOutcomes(memory.bits, n - memory.current)
    BY <2>1
  <2>3. c.bits \subseteq Offsets
    BY <2>2 DEF ShiftOutcomes, Shifted
  <2>4. c \in Caches
    BY <2>2, <2>3 DEF Caches
  <2>5. c.current - n = 0 /\ 0 \in 0..(Window - 1) /\ 0 \in Offsets
    BY <2>2 DEF Offsets
  <2> QED BY <2>4, <2>5
<1>4. CASE ~(n > memory.current)
  <2>1. c = memory
    BY <1>4 DEF Advances
  <2>2. memory.current - n \in 0..(Window - 1)
    BY <1>1, <1>2, <1>4
  <2>3. memory.current - n \in Offsets
    BY <1>1, <1>2, <1>4 DEF Offsets
  <2> QED BY <2>1, <2>2, <2>3
<1> QED BY <1>3, <1>4

(* check() answers with a Boolean and a memory.                                 *)
LEMMA ChecksType ==
    ASSUME NEW memory \in Caches, NEW n \in Nat, NEW outcome \in Checks(memory, n)
    PROVE  outcome.heard \in BOOLEAN /\ outcome.cache \in Caches
<1>1. CASE TooOld(memory, n)
  <2>1. outcome = [heard |-> TRUE, cache |-> memory]
    BY <1>1 DEF Checks
  <2> QED BY <2>1
<1>2. CASE ~TooOld(memory, n)
  <2>1. PICK c \in Advances(memory, n) :
          outcome = [heard |-> (c.current - n) \in c.bits,
                     cache |-> [c EXCEPT !.bits = @ \union {c.current - n}]]
    BY <1>2 DEF Checks
  <2>2. c \in Caches /\ c.current - n \in Offsets
    BY <1>2, AdvancesType
  <2>3. [c EXCEPT !.bits = @ \union {c.current - n}] \in Caches
    BY <2>2 DEF Caches
  <2> QED BY <2>1, <2>3
<1> QED BY <1>1, <1>2

(* A number check() is sure to call heard: in the bits, or too old for them.    *)
Remembered(c, n) ==
    /\ n <= c.current
    /\ c.current < n + Window => (c.current - n) \in c.bits

(* check() forgets nothing, remembers what it was asked about, and knows it     *)
(* again.                                                                       *)
LEMMA ChecksRemember ==
    ASSUME NEW c \in Caches, NEW n \in Nat, NEW outcome \in Checks(c, n)
    PROVE  /\ Remembered(outcome.cache, n)
           /\ \A k \in Nat : Remembered(c, k) => Remembered(outcome.cache, k)
           /\ Remembered(c, n) => outcome.heard = TRUE
<1>1. c.current \in Nat /\ c.bits \subseteq Offsets
  BY DEF Caches
<1>2. CASE TooOld(c, n)
  <2>1. outcome = [heard |-> TRUE, cache |-> c]
    BY <1>2 DEF Checks
  <2> QED BY <1>1, <1>2, <2>1 DEF TooOld, Remembered
<1>3. CASE ~TooOld(c, n)
  <2>1. PICK a \in Advances(c, n) :
          outcome = [heard |-> (a.current - n) \in a.bits,
                     cache |-> [a EXCEPT !.bits = @ \union {a.current - n}]]
    BY <1>3 DEF Checks
  <2>2. /\ a \in Caches /\ a.current - n \in 0..(Window - 1)
        /\ a.current \in Nat
    BY <1>3, AdvancesType DEF Caches
  <2>3. /\ outcome.cache.current = a.current
        /\ outcome.cache.bits = a.bits \union {a.current - n}
        /\ outcome.heard = ((a.current - n) \in a.bits)
    BY <2>1, <2>2 DEF Caches
  <2>4. Remembered(outcome.cache, n)
    BY <2>2, <2>3 DEF Remembered
  <2>5. ASSUME NEW k \in Nat, Remembered(c, k)
        PROVE  k <= a.current /\ (a.current < k + Window => (a.current - k) \in a.bits)
    <3>1. CASE n > c.current
      <4>1. a.current = n /\ a.bits \in ShiftOutcomes(c.bits, n - c.current)
        BY <3>1 DEF Advances
      <4>2. k <= c.current
        BY <2>5 DEF Remembered
      <4>3. ASSUME n < k + Window PROVE (n - k) \in a.bits
        <5>1. n - c.current < Width /\ n - c.current \in Nat
          BY <1>1, <3>1, <4>2, <4>3
        <5>2. a.bits = Shifted(c.bits, n - c.current)
          BY <4>1, <5>1 DEF ShiftOutcomes
        <5>3. c.current < k + Window
          BY <1>1, <3>1, <4>3
        <5>4. (c.current - k) \in c.bits
          BY <2>5, <5>3 DEF Remembered
        <5>5. n - k = (c.current - k) + (n - c.current) /\ n - k \in Offsets
          BY <1>1, <3>1, <4>2, <4>3 DEF Offsets
        <5> QED BY <5>2, <5>4, <5>5 DEF Shifted
      <4> QED BY <1>1, <3>1, <4>1, <4>2, <4>3
    <3>2. CASE ~(n > c.current)
      <4>1. a = c
        BY <3>2 DEF Advances
      <4> QED BY <2>5, <4>1 DEF Remembered
    <3> QED BY <3>1, <3>2
  <2>6. \A k \in Nat : Remembered(c, k) => Remembered(outcome.cache, k)
    BY <2>3, <2>5 DEF Remembered
  <2>7. ASSUME Remembered(c, n) PROVE outcome.heard = TRUE
    <3>1. a.current < n + Window
      BY <2>2
    <3> QED BY <2>3, <2>5, <2>7, <3>1
  <2> QED BY <2>4, <2>6, <2>7
<1> QED BY <1>2, <1>3

----------------------------------------------------------------------------------
(* Types of the buffer's operators.                                             *)

Entries == [pkt : Packets, delay : Delays \union {0}]

LEMMA LengthType ==
    ASSUME NEW buffer \in Buffers
    PROVE  /\ buffer \in Seq(Entries)
           /\ Len(buffer) \in Nat
           /\ DOMAIN buffer = 1..Len(buffer)
           /\ \A i \in 1..Len(buffer) : buffer[i] \in Entries
<1>1. buffer \in Seq(Entries)
  BY DEF Buffers, Entries
<1> QED BY <1>1

LEMMA PassedType ==
    ASSUME NEW buffer \in Buffers, NEW S
    PROVE  Passed(buffer, S) \in 0..Len(buffer)
<1> DEFINE places == {i \in DOMAIN buffer : 1..i \subseteq S}
<1>1. Len(buffer) \in Nat /\ DOMAIN buffer = 1..Len(buffer)
  BY LengthType
<1>2. IsFiniteSet(1..Len(buffer)) /\ Cardinality(1..Len(buffer)) = Len(buffer)
  BY <1>1, FS_Interval
<1>3. places \in SUBSET (1..Len(buffer))
  BY <1>1
<1>4. IsFiniteSet(places) /\ Cardinality(places) <= Len(buffer)
  BY <1>2, <1>3, FS_Subset
<1>5. Cardinality(places) \in Nat
  BY <1>4, FS_CardinalityType
<1> QED BY <1>1, <1>4, <1>5 DEF Passed

LEMMA PartType ==
    ASSUME NEW buffer \in Buffers, NEW m \in Nat \ {0}, NEW n \in 0..Len(buffer)
    PROVE  SubSeq(buffer, m, n) \in Buffers
<1>1. \A i \in m..n : buffer[i] \in Entries
  BY LengthType
<1>2. n \in Int
  BY LengthType
<1> QED BY <1>1, <1>2, SubSeqProperties DEF Buffers, Entries

LEMMA ConcatType ==
    ASSUME NEW a \in Buffers, NEW b \in Buffers
    PROVE  a \o b \in Buffers
BY DEF Buffers

LEMMA InsertType ==
    ASSUME NEW buffer \in Buffers, NEW p \in Packets, NEW delay \in Delays \union {0}
    PROVE  Insert(buffer, p, delay) \in Buffers
<1> DEFINE before == Passed(buffer, {i \in DOMAIN buffer : buffer[i].delay <= delay})
           entry == [pkt |-> p, delay |-> delay]
<1>1. before \in 0..Len(buffer) /\ Len(buffer) \in Nat
  BY PassedType, LengthType
<1> HIDE DEF before
<1>2. SubSeq(buffer, 1, before) \in Buffers /\ SubSeq(buffer, before + 1, Len(buffer)) \in Buffers
  BY <1>1, PartType
<1>3. entry \in Entries
  BY DEF Entries
<1>4. <<entry>> \in Buffers
  BY <1>3 DEF Buffers, Entries
<1>5. SubSeq(buffer, 1, before) \o <<entry>> \o SubSeq(buffer, before + 1, Len(buffer)) \in Buffers
  BY <1>2, <1>4, ConcatType
<1> QED BY <1>5 DEF Insert, before

LEMMA EraseType ==
    ASSUME NEW buffer \in Buffers, NEW p
    PROVE  Erase(buffer, p) \in Buffers
<1> DEFINE before == Passed(buffer, {i \in DOMAIN buffer : buffer[i].pkt # p})
<1>1. before \in 0..Len(buffer) /\ Len(buffer) \in Nat
  BY PassedType, LengthType
<1> HIDE DEF before
<1>2. SubSeq(buffer, 1, before) \in Buffers /\ SubSeq(buffer, before + 2, Len(buffer)) \in Buffers
  BY <1>1, PartType
<1>3. SubSeq(buffer, 1, before) \o SubSeq(buffer, before + 2, Len(buffer)) \in Buffers
  BY <1>2, ConcatType
<1> QED BY <1>3 DEF Erase, before

LEMMA PopType ==
    ASSUME NEW buffer \in Buffers, buffer # << >>
    PROVE  Head(buffer).pkt \in Packets /\ Tail(buffer) \in Buffers
<1>1. Head(buffer) \in Entries /\ Tail(buffer) \in Seq(Entries)
  BY LengthType
<1> QED BY <1>1 DEF Buffers, Entries

LEMMA NotPackets == NoPacket \notin Packets
BY DEF NoPacket, Packets

----------------------------------------------------------------------------------
(* Each handler of the MAC turns an agreement into the next one.                *)

(* A packet offered to an idle MAC that owes no answer is accepted, and the     *)
(* back-off runs unless a frame comes in.                                       *)
LEMMA FromNetworkAgrees ==
    ASSUME NEW m \in Macs, NEW p \in Packets, NEW receiving \in BOOLEAN,
           Agree(m, FALSE, receiving)
    PROVE  /\ FromNetwork(m, p, receiving) \in Macs
           /\ Agree(FromNetwork(m, p, receiving), TRUE, receiving)
<1>1. /\ m.state = "IDLE" /\ m.ack = FALSE /\ m.defer = FALSE
      /\ m.assertFailed = FALSE /\ m.refused = FALSE
  BY DEF Agree, Macs
<1>2. FromNetwork(m, p, receiving) =
        [m EXCEPT !.state = "DEFER", !.pld = p, !.defer = ~receiving,
                  !.assertFailed = FALSE]
  BY <1>1 DEF FromNetwork
<1>3. CASE receiving = TRUE
  BY <1>1, <1>2, <1>3 DEF Agree, Macs
<1>4. CASE receiving = FALSE
  BY <1>1, <1>2, <1>4 DEF Agree, Macs
<1> QED BY <1>3, <1>4

(* A cancelled packet is answered at once; a packet that cannot be taken back   *)
(* any more is left alone.                                                      *)
LEMMA CancelAgrees ==
    ASSUME NEW m \in Macs, Agree(m, TRUE, FALSE)
    PROVE  Cancel(m) \in Macs /\ Agree(Cancel(m), TRUE, FALSE)
<1>1. CASE m.state = "DEFER"
  <2>1. m.ack = FALSE /\ m.assertFailed = FALSE /\ m.refused = FALSE
    BY <1>1 DEF Agree, Macs
  <2>2. Cancel(m) = [m EXCEPT !.state = "IDLE", !.defer = FALSE, !.ack = TRUE,
                              !.assertFailed = FALSE]
    BY <1>1, <2>1 DEF Cancel
  <2> QED BY <2>1, <2>2 DEF Agree, Macs
<1>2. CASE m.state # "DEFER"
  BY <1>2 DEF Cancel
<1> QED BY <1>1, <1>2

(* At the end of a frame the back-off runs again.                               *)
LEMMA ResumeAgrees ==
    ASSUME NEW m \in Macs, NEW busy \in BOOLEAN, Agree(m, busy, TRUE)
    PROVE  /\ ResumeDefer(m) \in Macs
           /\ Agree(ResumeDefer(m), busy, FALSE)
           /\ ResumeDefer(m).state = m.state
           /\ ResumeDefer(m).ack = m.ack
<1>1. m.defer = FALSE /\ m.assertFailed = FALSE /\ m.refused = FALSE
  BY DEF Agree, Macs
<1>2. CASE m.state = "DEFER"
  <2>1. ResumeDefer(m) = [m EXCEPT !.defer = TRUE, !.assertFailed = FALSE]
    BY <1>1, <1>2 DEF ResumeDefer
  <2> QED BY <1>1, <1>2, <2>1 DEF Agree, Macs
<1>3. CASE m.state # "DEFER"
  BY <1>1, <1>3 DEF ResumeDefer, Agree
<1> QED BY <1>2, <1>3

----------------------------------------------------------------------------------
(* The network layer's handlers.                                                *)

(* What a handler leaves behind: types, and agreement.                          *)
Settled(after, receiving) ==
    /\ after.net \in Nets
    /\ after.mac \in Macs
    /\ Agree(after.mac, after.net.busy, receiving)

LEMMA PairSettles ==
    ASSUME NEW n \in Nets, NEW m \in Macs, NEW receiving, Agree(m, n.busy, receiving),
           NEW after, after = [net |-> n, mac |-> m]
    PROVE  Settled(after, receiving)
<1>1. after.net = n /\ after.mac = m
  OBVIOUS
<1> QED BY <1>1, Zenon DEF Settled

LEMMA SubmitSettles ==
    ASSUME net \in Nets, NEW m \in Macs, NEW receiving \in BOOLEAN,
           Agree(m, net.busy, receiving),
           NEW p \in Packets, NEW delay \in Delays \union {0}
    PROVE  Settled(Submit(p, delay, m, receiving), receiving)
<1>1. net.busy \in BOOLEAN /\ net.buffer \in Buffers
  BY DEF Nets
<1>2. CASE net.busy = TRUE
  <2> DEFINE n == [net EXCEPT !.buffer = Insert(net.buffer, p, delay)]
  <2>1. Submit(p, delay, m, receiving) = [net |-> n, mac |-> m]
    BY <1>2 DEF Submit
  <2>2. Insert(net.buffer, p, delay) \in Buffers
    BY <1>1, InsertType
  <2>3. n \in Nets /\ n.busy = net.busy
    BY <2>2 DEF Nets
  <2> HIDE DEF n
  <2>4. Agree(m, n.busy, receiving)
    BY <2>3
  <2> QED BY <2>1, <2>3, <2>4, PairSettles
<1>3. CASE net.busy = FALSE
  <2> DEFINE n == [net EXCEPT !.busy = TRUE, !.active = p]
             k == FromNetwork(m, p, receiving)
  <2>1. Submit(p, delay, m, receiving) = [net |-> n, mac |-> k]
    BY <1>3 DEF Submit
  <2>2. n \in Nets /\ n.busy = TRUE
    BY DEF Nets
  <2>3. k \in Macs /\ Agree(k, TRUE, receiving)
    BY <1>3, FromNetworkAgrees
  <2> HIDE DEF n, k
  <2>4. Agree(k, n.busy, receiving)
    BY <2>2, <2>3
  <2> QED BY <2>1, <2>2, <2>3, <2>4, PairSettles
<1> QED BY <1>1, <1>2, <1>3

(* After an answer the MAC is idle: the next packet goes to it, or the network  *)
(* layer knows it is free.                                                      *)
LEMMA AckSettles ==
    ASSUME net \in Nets, net.busy = TRUE, NEW m \in Macs, Agree(m, FALSE, Receiving)
    PROVE  Settled(FromMacAck(m), Receiving)
<1>0. net.buffer \in Buffers /\ Receiving \in BOOLEAN
  BY DEF Nets, Receiving
<1>1. CASE net.buffer # << >>
  <2> DEFINE p == Head(net.buffer).pkt
             n == [net EXCEPT !.active = p, !.buffer = Tail(net.buffer)]
  <2>1. p \in Packets /\ Tail(net.buffer) \in Buffers
    BY <1>0, <1>1, PopType
  <2>2. FromMacAck(m) = [net |-> n, mac |-> FromNetwork(m, p, Receiving)]
    BY <1>1 DEF FromMacAck
  <2> HIDE DEF p
  <2>3. n \in Nets /\ n.busy = TRUE
    BY <2>1 DEF Nets
  <2> DEFINE k == FromNetwork(m, p, Receiving)
  <2>4. k \in Macs /\ Agree(k, TRUE, Receiving)
    BY <1>0, <2>1, FromNetworkAgrees
  <2> HIDE DEF n, k
  <2>5. Agree(k, n.busy, Receiving)
    BY <2>3, <2>4
  <2>6. FromMacAck(m) = [net |-> n, mac |-> k]
    BY <2>2 DEF k
  <2> QED BY <2>3, <2>4, <2>5, <2>6, PairSettles
<1>2. CASE net.buffer = << >>
  <2> DEFINE n == [net EXCEPT !.busy = FALSE]
  <2>1. FromMacAck(m) = [net |-> n, mac |-> m]
    BY <1>2 DEF FromMacAck
  <2>2. n \in Nets /\ n.busy = FALSE
    BY DEF Nets
  <2> HIDE DEF n
  <2>3. Agree(m, n.busy, Receiving)
    BY <2>2
  <2> QED BY <2>1, <2>2, <2>3, PairSettles
<1> QED BY <1>1, <1>2

(* A repetition is taken back from the MAC or erased from the buffer.           *)
LEMMA RepetitionSettles ==
    ASSUME net \in Nets, NEW m \in Macs, Agree(m, net.busy, FALSE), NEW p
    PROVE  Settled(Repetition(p, m), FALSE)
<1>0. net.busy \in BOOLEAN /\ net.buffer \in Buffers
  BY DEF Nets
<1>1. CASE net.busy = TRUE /\ net.active = p
  <2>1. Repetition(p, m) = [net |-> net, mac |-> Cancel(m)]
    BY <1>1 DEF Repetition
  <2>2. Cancel(m) \in Macs /\ Agree(Cancel(m), net.busy, FALSE)
    BY <1>1, CancelAgrees
  <2> QED BY <2>1, <2>2, PairSettles
<1>2. CASE ~(net.busy = TRUE /\ net.active = p)
  <2> DEFINE n == [net EXCEPT !.buffer = Erase(net.buffer, p)]
  <2>1. Repetition(p, m) = [net |-> n, mac |-> m]
    BY <1>0, <1>2 DEF Repetition
  <2>2. Erase(net.buffer, p) \in Buffers
    BY <1>0, EraseType
  <2>3. n \in Nets /\ n.busy = net.busy
    BY <2>2 DEF Nets
  <2> HIDE DEF n
  <2>4. Agree(m, n.busy, FALSE)
    BY <2>3
  <2> QED BY <2>1, <2>3, <2>4, PairSettles
<1> QED BY <1>1, <1>2

----------------------------------------------------------------------------------
(* The inductive invariant.                                                     *)

LEMMA Types ==
    TypeOK <=> /\ mac \in Macs /\ net \in Nets /\ rx \in Frames
               /\ number \in 1..MaxNumber
               /\ cache \in [Sources -> Caches]
               /\ sent \subseteq Packets /\ overheard \subseteq Packets
               /\ stale \in BOOLEAN
BY DEF TypeOK, Macs, Nets, Frames

LEMMA InitControl == Init => ControlInv
<1> SUFFICES ASSUME Init PROVE ControlInv
  OBVIOUS
<1>1. mac \in Macs /\ Agree(mac, FALSE, FALSE)
  BY DEF Init, Macs, Agree
<1>2. net \in Nets /\ net.busy = FALSE
  <2>1. << >> \in Buffers
    BY DEF Buffers
  <2> QED BY <2>1 DEF Init, Nets
<1>3. rx \in Frames /\ ~Receiving
  BY DEF Init, Frames, NoFrame, Receiving
<1>4. NothingHeard \in Caches
  BY DEF NothingHeard, Caches
<1>5. cache \in [Sources -> Caches]
  BY <1>4 DEF Init
<1>6. number \in 1..MaxNumber /\ sent = {} /\ overheard = {} /\ stale = FALSE
  BY DEF Init
<1>7. Agree(mac, net.busy, Receiving)
  BY <1>1, <1>2, <1>3 DEF Agree
<1> QED BY <1>1, <1>2, <1>3, <1>5, <1>6, <1>7, Types DEF ControlInv

(* Steps in which no frame starts or ends: what the handler settles is enough.  *)
LEMMA SettledStep ==
    ASSUME ControlInv, NEW after, Answered(after), Settled(after, Receiving), UNCHANGED rx,
           number' \in 1..MaxNumber, cache' \in [Sources -> Caches],
           sent' \subseteq Packets, overheard' \subseteq Packets, stale' = FALSE,
           after.mac.state = "SEND" => mac.state = "SEND"
    PROVE  ControlInv'
<1>1. net' = after.net /\ mac' = after.mac
  BY DEF Answered
<1>2. net' \in Nets /\ mac' \in Macs /\ Agree(mac', net'.busy, Receiving)
  BY <1>1 DEF Settled
<1>3. Receiving' = Receiving
  BY DEF Receiving
<1>4. Agree(mac, net.busy, Receiving)'
  BY <1>2, <1>3 DEF Agree
<1>5. rx' \in Frames
  BY Types DEF ControlInv
<1>6. TypeOK'
  BY <1>2, <1>5 DEF TypeOK, Macs, Nets, Frames
<1>7. Receiving' => rx'.pkt \in Packets
  BY <1>3 DEF ControlInv
<1>8. Receiving' /\ mac'.state = "SEND" => rx'.overlap = TRUE
  BY <1>1, <1>3 DEF ControlInv
<1> QED BY <1>4, <1>6, <1>7, <1>8 DEF ControlInv

LEMMA FromTransportStep ==
    ASSUME ControlInv, FromTransport
    PROVE  ControlInv'
<1> DEFINE p == [src |-> Me, n |-> number']
<1>1. /\ number \in 1..MaxNumber /\ number < MaxNumber /\ number' = number + 1
      /\ cache \in [Sources -> Caches] /\ mac \in Macs /\ net \in Nets
      /\ Agree(mac, net.busy, Receiving)
  BY Types DEF ControlInv, FromTransport
<1>2. number' \in 2..MaxNumber /\ number' \in Nat
  BY <1>1
<1>3. p \in Packets
  BY <1>2 DEF Packets, Sources
<1>4. PICK outcome \in Checks(cache[Me], number') :
        cache' = [cache EXCEPT ![Me] = outcome.cache]
  BY DEF FromTransport
<1>5. cache[Me] \in Caches
  BY <1>1 DEF Sources
<1>6. outcome.cache \in Caches
  BY <1>2, <1>5, ChecksType
<1>7. cache' \in [Sources -> Caches]
  BY <1>1, <1>4, <1>6
<1> HIDE DEF p
<1>8. Receiving \in BOOLEAN
  BY DEF Receiving
<1>9. Settled(Submit(p, 0, mac, Receiving), Receiving)
  BY <1>1, <1>3, <1>8, SubmitSettles
<1>10. Answered(Submit(p, 0, mac, Receiving))
  BY DEF FromTransport, p
<1>11. Submit(p, 0, mac, Receiving).mac.state = "SEND" => mac.state = "SEND"
  <2>1. net.busy => Submit(p, 0, mac, Receiving).mac = mac
    BY DEF Submit
  <2>2. ASSUME ~net.busy
        PROVE  Submit(p, 0, mac, Receiving).mac.state = "DEFER"
    <3>1. net.busy = FALSE
      BY <1>1, <2>2 DEF Nets
    <3>2. mac.state = "IDLE"
      BY <1>1, <3>1 DEF Agree, Macs
    <3>3. Submit(p, 0, mac, Receiving).mac = FromNetwork(mac, p, Receiving)
      BY <2>2 DEF Submit
    <3>4. FromNetwork(mac, p, Receiving).state = "DEFER"
      BY <1>1, <3>2 DEF FromNetwork, Macs
    <3> QED BY <3>3, <3>4
  <2> QED BY <2>1, <2>2
<1>12. UNCHANGED <<rx, sent, overheard, stale>> /\ sent \subseteq Packets
       /\ overheard \subseteq Packets /\ stale = FALSE
  BY Types DEF FromTransport, ControlInv
<1>13. /\ UNCHANGED rx /\ number' \in 1..MaxNumber
       /\ sent' \subseteq Packets /\ overheard' \subseteq Packets /\ stale' = FALSE
  BY <1>2, <1>12
<1> QED BY <1>7, <1>9, <1>10, <1>11, <1>13, SettledStep

LEMMA AckSteps ==
    ASSUME ControlInv, SendTimer \/ AckTimer
    PROVE  ControlInv'
<1>1. /\ mac \in Macs /\ net \in Nets /\ Agree(mac, net.busy, Receiving)
      /\ net.busy \in BOOLEAN /\ net.buffer \in Buffers
  BY Types DEF ControlInv, Nets
<1>2. PICK m : /\ m \in Macs /\ Agree(m, FALSE, Receiving) /\ net.busy = TRUE
               /\ Answered(FromMacAck(m))
  <2>1. CASE SendTimer
    <3> DEFINE m == [mac EXCEPT !.state = "IDLE"]
    <3>1. Answered(FromMacAck(m)) /\ mac.state = "SEND"
      BY <2>1 DEF SendTimer
    <3>2. m \in Macs /\ Agree(m, FALSE, Receiving) /\ net.busy = TRUE
      BY <1>1, <3>1 DEF Macs, Agree
    <3> QED BY <3>1, <3>2
  <2>2. CASE AckTimer
    <3> DEFINE m == [mac EXCEPT !.state = "IDLE", !.ack = FALSE]
    <3>1. Answered(FromMacAck(m)) /\ mac.ack = TRUE
      BY <1>1, <2>2 DEF AckTimer, Macs
    <3>2. m \in Macs /\ Agree(m, FALSE, Receiving) /\ net.busy = TRUE
      BY <1>1, <3>1 DEF Macs, Agree
    <3> QED BY <3>1, <3>2
  <2> QED BY <2>1, <2>2
<1>3. Settled(FromMacAck(m), Receiving)
  BY <1>1, <1>2, AckSettles
<1>4. m.state = "IDLE"
  BY <1>2 DEF Agree, Macs
<1>5. FromMacAck(m).mac.state # "SEND"
  <2>1. CASE net.buffer # << >>
    <3> DEFINE p == Head(net.buffer).pkt
    <3>1. FromMacAck(m).mac = FromNetwork(m, p, Receiving)
      BY <2>1 DEF FromMacAck
    <3>2. FromNetwork(m, p, Receiving).state = "DEFER"
      BY <1>2, <1>4 DEF FromNetwork, Macs
    <3> QED BY <3>1, <3>2
  <2>2. CASE net.buffer = << >>
    <3>1. FromMacAck(m).mac = m
      BY <2>2 DEF FromMacAck
    <3> QED BY <1>4, <3>1
  <2> QED BY <2>1, <2>2
<1>6. UNCHANGED <<rx, number, cache, sent, overheard, stale>>
  BY DEF SendTimer, AckTimer
<1>7. /\ number \in 1..MaxNumber /\ cache \in [Sources -> Caches]
      /\ sent \subseteq Packets /\ overheard \subseteq Packets /\ stale = FALSE
  BY Types DEF ControlInv
<1> QED BY <1>2, <1>3, <1>5, <1>6, <1>7, SettledStep

LEMMA DeferTimerStep ==
    ASSUME ControlInv, DeferTimer
    PROVE  ControlInv'
<1>1. /\ mac \in Macs /\ net \in Nets /\ Agree(mac, net.busy, Receiving)
      /\ mac.defer \in BOOLEAN
  BY Types DEF ControlInv, Macs
<1>2. mac.defer = TRUE
  BY <1>1 DEF DeferTimer
<1>3. mac.state = "DEFER" /\ ~Receiving /\ mac.ack = FALSE /\ mac.assertFailed = FALSE
      /\ mac.refused = FALSE /\ net.busy = TRUE
  BY <1>1, <1>2 DEF Agree, Macs
<1>4. mac' = [mac EXCEPT !.state = "SEND", !.defer = FALSE, !.assertFailed = FALSE]
  BY <1>3 DEF DeferTimer
<1>5. mac' \in Macs /\ UNCHANGED <<rx, net, number, cache, overheard, stale>>
  BY <1>1, <1>4 DEF Macs, DeferTimer
<1>6. ~Receiving'
  BY <1>3, <1>5 DEF Receiving
<1>7. Agree(mac, net.busy, Receiving)'
  BY <1>1, <1>3, <1>4, <1>5, <1>6 DEF Agree, Macs
<1>8. mac.pld \in Packets /\ sent' = sent \union {mac.pld}
  BY <1>1, <1>3 DEF Agree, DeferTimer
<1>9. TypeOK'
  <2>1. /\ net \in Nets /\ rx \in Frames /\ number \in 1..MaxNumber
        /\ cache \in [Sources -> Caches] /\ sent \subseteq Packets
        /\ overheard \subseteq Packets /\ stale \in BOOLEAN
    BY Types DEF ControlInv
  <2> QED BY <1>5, <1>8, <2>1 DEF TypeOK, Macs, Nets, Frames
<1>10. stale' = FALSE
  BY <1>5 DEF ControlInv
<1> QED BY <1>6, <1>7, <1>9, <1>10 DEF ControlInv

LEMMA FromPhyStep ==
    ASSUME ControlInv, NEW p \in Packets, NEW err \in BOOLEAN, NEW again \in BOOLEAN,
           FromPhy(p, err, again)
    PROVE  ControlInv'
<1>1. /\ mac \in Macs /\ net \in Nets /\ Agree(mac, net.busy, Receiving)
      /\ rx \in Frames /\ number \in 1..MaxNumber /\ cache \in [Sources -> Caches]
      /\ sent \subseteq Packets /\ overheard \subseteq Packets /\ stale = FALSE
      /\ stale \in BOOLEAN
  BY Types DEF ControlInv
<1>2. UNCHANGED <<net, number, cache, sent, overheard, stale>>
  BY DEF FromPhy
<1>3. ASSUME NEW e \in BOOLEAN
      PROVE  /\ FrameFrom(p, e, again) \in Frames
             /\ FrameFrom(p, e, again).pkt \in Packets
             /\ FrameFrom(p, e, again) # NoFrame
             /\ mac.state = "SEND" => FrameFrom(p, e, again).overlap = TRUE
  <2>1. p # NoPacket
    BY NotPackets
  <2>2. FrameFrom(p, e, again).pkt = p
    BY DEF FrameFrom
  <2>3. NoFrame.pkt = NoPacket
    BY DEF NoFrame
  <2>4. FrameFrom(p, e, again) \in Frames
    BY DEF FrameFrom, Frames
  <2>5. mac.state = "SEND" => FrameFrom(p, e, again).overlap = TRUE
    BY DEF FrameFrom
  <2> QED BY <2>1, <2>2, <2>3, <2>4, <2>5
<1>4. /\ rx' \in Frames /\ Receiving' /\ rx'.pkt \in Packets
      /\ mac.state = "SEND" => rx'.overlap = TRUE
  <2>1. CASE \E e \in BOOLEAN : rx' = FrameFrom(p, e, again)
    BY <1>3, <2>1 DEF Receiving
  <2>2. CASE Receiving /\ rx' = rx
    BY <1>1, <2>2 DEF ControlInv, Receiving
  <2>3. CASE Receiving /\ rx' = [rx EXCEPT !.err = TRUE]
    <3>1. rx.pkt \in Packets /\ (mac.state = "SEND" => rx.overlap = TRUE)
      BY <2>3 DEF ControlInv
    <3>2. rx'.err = TRUE /\ rx'.pkt = rx.pkt /\ rx'.overlap = rx.overlap /\ rx' \in Frames
      BY <1>1, <2>3 DEF Frames
    <3>3. NoFrame.err = FALSE
      BY DEF NoFrame
    <3> QED BY <3>1, <3>2, <3>3 DEF Receiving
  <2> QED BY <2>1, <2>2, <2>3 DEF FromPhy
<1>5. mac' \in Macs /\ Agree(mac', net.busy, TRUE) /\ mac'.state = mac.state
  <2>1. CASE ~Receiving /\ mac.state = "DEFER"
    <3>1. mac.defer = TRUE /\ mac.assertFailed = FALSE
      BY <1>1, <2>1 DEF Agree
    <3>2. mac' = [mac EXCEPT !.defer = FALSE, !.assertFailed = FALSE]
      BY <2>1, <3>1 DEF FromPhy
    <3> QED BY <1>1, <2>1, <3>1, <3>2 DEF Agree, Macs
  <2>2. CASE Receiving \/ mac.state # "DEFER"
    <3>1. mac' = mac
      BY <2>2 DEF FromPhy
    <3> QED BY <1>1, <2>2, <3>1 DEF Agree
  <2> QED BY <2>1, <2>2
<1>6. Agree(mac, net.busy, Receiving)'
  BY <1>2, <1>4, <1>5 DEF Agree
<1>7. TypeOK'
  BY <1>1, <1>2, <1>4, <1>5 DEF TypeOK, Macs, Nets, Frames
<1> QED BY <1>1, <1>2, <1>4, <1>5, <1>6, <1>7 DEF ControlInv

(* from_mac_data at the end of a good frame.  A busy MAC that can hear has the  *)
(* packet deferred, so m_active_packet is alive.                                *)
LEMMA FromMacDataStep ==
    ASSUME ControlInv, NEW m \in Macs, Agree(m, net.busy, FALSE), m.state # "SEND",
           m.ack = FALSE, NEW p \in Packets, FromMacData(p, m),
           rx' = NoFrame, UNCHANGED <<number, sent>>
    PROVE  ControlInv'
<1>1. /\ net \in Nets /\ number \in 1..MaxNumber /\ cache \in [Sources -> Caches]
      /\ sent \subseteq Packets /\ overheard \subseteq Packets /\ stale = FALSE
      /\ net.busy \in BOOLEAN
  BY Types DEF ControlInv, Nets
<1>2. PICK outcome \in Checks(cache[p.src], p.n) :
        /\ cache' = [cache EXCEPT ![p.src] = outcome.cache]
        /\ stale' = (stale \/ (outcome.heard /\ net.busy /\ m.state # "DEFER"))
        /\ overheard' = overheard \union ({p} \cap Outstanding)
        /\ \/ outcome.heard /\ Answered(Repetition(p, m))
           \/ ~outcome.heard /\ p \in ForMe /\ net' = net /\ mac' = m
           \/ /\ ~outcome.heard /\ p \notin ForMe
              /\ \E delay \in Delays : Answered(Submit(p, delay, m, FALSE))
  BY DEF FromMacData
<1>3. p.src \in Sources /\ p.n \in Nat
  BY DEF Packets
<1>4. outcome.cache \in Caches /\ cache' \in [Sources -> Caches]
  <2>1. cache[p.src] \in Caches
    BY <1>1, <1>3
  <2>2. outcome.cache \in Caches
    BY <1>3, <2>1, ChecksType
  <2> QED BY <1>1, <1>2, <2>2
<1>5. stale' = FALSE
  <2>1. net.busy = TRUE => m.state = "DEFER"
    BY DEF Agree, Macs
  <2>2. ~(net.busy /\ m.state # "DEFER")
    BY <1>1, <2>1
  <2> QED BY <1>1, <1>2, <2>2
<1>6. overheard' \subseteq Packets
  BY <1>1, <1>2
<1>7. net' \in Nets /\ mac' \in Macs /\ Agree(mac', net'.busy, FALSE)
  <2>1. CASE Answered(Repetition(p, m))
    <3>1. Settled(Repetition(p, m), FALSE)
      BY <1>1, RepetitionSettles
    <3> QED BY <2>1, <3>1 DEF Answered, Settled
  <2>2. CASE net' = net /\ mac' = m
    BY <1>1, <2>2
  <2>3. CASE \E delay \in Delays : Answered(Submit(p, delay, m, FALSE))
    <3>1. PICK delay \in Delays : Answered(Submit(p, delay, m, FALSE))
      BY <2>3
    <3>2. Settled(Submit(p, delay, m, FALSE), FALSE)
      BY <1>1, SubmitSettles
    <3> QED BY <3>1, <3>2 DEF Answered, Settled
  <2> QED BY <1>2, <2>1, <2>2, <2>3
<1>8. ~Receiving' /\ rx' \in Frames
  BY DEF Receiving, NoFrame, Frames
<1>9. Agree(mac, net.busy, Receiving)'
  BY <1>7, <1>8 DEF Agree
<1>10. TypeOK'
  BY <1>1, <1>4, <1>5, <1>6, <1>7, <1>8 DEF TypeOK, Macs, Nets, Frames
<1> QED BY <1>5, <1>8, <1>9, <1>10 DEF ControlInv

LEMMA RecvTimerStep ==
    ASSUME ControlInv, RecvTimer
    PROVE  ControlInv'
<1>1. /\ mac \in Macs /\ net \in Nets /\ Agree(mac, net.busy, Receiving)
      /\ net.busy \in BOOLEAN /\ mac.ack \in BOOLEAN /\ rx \in Frames
      /\ number \in 1..MaxNumber /\ cache \in [Sources -> Caches]
      /\ sent \subseteq Packets /\ overheard \subseteq Packets /\ stale = FALSE
      /\ stale \in BOOLEAN
  BY Types DEF ControlInv, Nets, Macs
<1>2. /\ Receiving /\ mac.ack = FALSE /\ rx' = NoFrame /\ UNCHANGED <<number, sent>>
      /\ rx.pkt \in Packets
  BY <1>1 DEF RecvTimer, ControlInv
<1> DEFINE m == ResumeDefer(mac)
<1>3. Agree(mac, net.busy, TRUE)
  BY <1>1, <1>2 DEF Agree
<1>4. m \in Macs /\ Agree(m, net.busy, FALSE) /\ m.state = mac.state /\ m.ack = mac.ack
  BY <1>1, <1>3, ResumeAgrees
<1> HIDE DEF m
<1>5. CASE mac' = m /\ UNCHANGED <<net, cache, overheard, stale>>
  <2>1. ~Receiving' /\ rx' \in Frames
    BY <1>2 DEF Receiving, NoFrame, Frames
  <2>2. Agree(mac, net.busy, Receiving)'
    BY <1>4, <1>5, <2>1 DEF Agree
  <2>3. TypeOK'
    BY <1>1, <1>2, <1>4, <1>5, <2>1 DEF TypeOK, Macs, Nets, Frames
  <2> QED BY <1>1, <1>5, <2>1, <2>2, <2>3 DEF ControlInv
<1>6. CASE ~(rx.err \/ rx.overlap) /\ ~rx.again /\ FromMacData(rx.pkt, m)
  <2>1. mac.state # "SEND"
    BY <1>2, <1>6 DEF ControlInv
  <2> QED BY <1>2, <1>4, <1>6, <2>1, FromMacDataStep
<1> QED BY <1>5, <1>6 DEF RecvTimer, DropFrame, m

(* The inductive invariant: types, the agreement of the two layers, and what a   *)
(* frame in reception remembers of a transmission it overlapped.                *)
THEOREM Control == Spec => []ControlInv
<1>1. ControlInv /\ [Next]_vars => ControlInv'
  <2> SUFFICES ASSUME ControlInv, [Next]_vars PROVE ControlInv'
    OBVIOUS
  <2>1. CASE FromTransport
    BY <2>1, FromTransportStep
  <2>2. CASE \E p \in Packets, err, again \in BOOLEAN : FromPhy(p, err, again)
    BY <2>2, FromPhyStep
  <2>3. CASE RecvTimer
    BY <2>3, RecvTimerStep
  <2>4. CASE DeferTimer
    BY <2>4, DeferTimerStep
  <2>5. CASE SendTimer \/ AckTimer
    BY <2>5, AckSteps
  <2>6. CASE UNCHANGED vars
    BY <2>6 DEF vars, ControlInv, TypeOK, Agree, Receiving
  <2> QED BY <2>1, <2>2, <2>3, <2>4, <2>5, <2>6 DEF Next
<1> QED BY <1>1, InitControl, PTL DEF Spec

----------------------------------------------------------------------------------
(* The variables keep their types, whatever frames come in.                     *)
THEOREM SsabTypes == Spec => []TypeOK
<1>1. ControlInv => TypeOK
  BY DEF ControlInv
<1> QED BY <1>1, Control, PTL

(* SSAB counts on one answer per packet it gives to the MAC, and gets it: by    *)
(* send_timer or by ack_timer, never by both, and never without a packet.       *)
THEOREM OneAnswer == Spec => []OneAnswerPerPacket
<1>1. ControlInv => OneAnswerPerPacket
  BY Types DEF ControlInv, Agree, Macs, OneAnswerPerPacket
<1> QED BY <1>1, Control, PTL

(* No assertion of BcastMAC fails, and from_network never throws a packet away. *)
THEOREM NeverSurprised == Spec => []MacNeverSurprised
<1>1. ControlInv => MacNeverSurprised
  BY Types DEF ControlInv, Agree, Macs, MacNeverSurprised
<1> QED BY <1>1, Control, PTL

(* from_mac_data compares a packet with m_active_packet only while that packet  *)
(* still exists.                                                                *)
THEOREM ActiveAlive == Spec => []ActivePacketAlive
<1>1. ControlInv => ActivePacketAlive
  BY DEF ControlInv, ActivePacketAlive
<1> QED BY <1>1, Control, PTL

----------------------------------------------------------------------------------
(* What the buffer's operators do to the packets that wait.                     *)

Distinct(buffer) ==
    \A i, j \in 1..Len(buffer) : i # j => buffer[i].pkt # buffer[j].pkt

(* Who waits, place by place.                                                   *)
LEMMA WaitingIs ==
    ASSUME NEW buffer \in Buffers
    PROVE  \A p : p \in Waiting(buffer) <=> \E i \in 1..Len(buffer) : p = buffer[i].pkt
BY LengthType DEF Waiting

(* The places an iterator passes are those before the first it does not.        *)
LEMMA PassedStops ==
    ASSUME NEW buffer \in Buffers, NEW S, NEW b, b = Passed(buffer, S)
    PROVE  /\ b \in 0..Len(buffer)
           /\ 1..b \subseteq S
           /\ b < Len(buffer) => b + 1 \notin S
<1> DEFINE L == Len(buffer)
           places == {i \in 1..L : 1..i \subseteq S}
           beyond == {k \in Nat : k > L \/ (k > 0 /\ ~(1..k \subseteq S))}
<1>1. L \in Nat /\ DOMAIN buffer = 1..L
  BY LengthType
<1>2. b = Cardinality(places)
  BY <1>1 DEF Passed
<1> HIDE DEF L
<1>3. PICK k \in beyond : \A x \in beyond : k <= x
  <2>1. L + 1 \in beyond
    BY <1>1
  <2>2. beyond \subseteq Nat /\ beyond # {}
    BY <2>1
  <2> HIDE DEF beyond
  <2>3. PICK x \in beyond : \A y \in beyond : ~(<<y, x>> \in OpToRel(<, Nat))
    BY <2>2, NatLessThanWellFounded, WFMin, Zenon
  <2>4. \A y \in beyond : ~(y < x)
    BY <2>2, <2>3, Zenon DEF OpToRel
  <2> QED BY <2>2, <2>4
<1>4. k \in Nat /\ k > 0 /\ k <= L + 1
  <2>1. L + 1 \in beyond /\ k \in Nat
    BY <1>1, <1>3
  <2>2. k > L \/ k > 0
    BY <1>3
  <2> QED BY <1>1, <1>3, <2>1, <2>2
<1>5. \A i \in 1..(k - 1) : 1..i \subseteq S
  <2> SUFFICES ASSUME NEW i \in 1..(k - 1) PROVE 1..i \subseteq S
    OBVIOUS
  <2>1. i \in Nat /\ i < k /\ i > 0
    BY <1>4
  <2>2. i \notin beyond
    BY <1>3, <1>4, <2>1
  <2> QED BY <2>1, <2>2
<1>6. k <= L => k \notin S
  <2> SUFFICES ASSUME k <= L, k \in S PROVE FALSE
    OBVIOUS
  <2>1. ~(1..k \subseteq S)
    BY <1>1, <1>3, <1>4
  <2>2. PICK i \in 1..k : i \notin S
    BY <2>1
  <2>3. i \in 1..(k - 1)
    BY <1>4, <2>2
  <2>4. 1..i \subseteq S /\ i \in 1..i
    BY <1>5, <2>3
  <2> QED BY <2>2, <2>4
<1>7. places = 1..(k - 1)
  <2>1. ASSUME NEW i \in 1..L, 1..i \subseteq S PROVE i \in 1..(k - 1)
    <3>1. i < k
      <4> SUFFICES ASSUME k <= i PROVE FALSE
        BY <1>1, <1>4
      <4>1. k \in 1..i /\ k <= L
        BY <1>1, <1>4
      <4> QED BY <1>6, <2>1, <4>1
    <3> QED BY <1>1, <1>4, <3>1
  <2>2. ASSUME NEW i \in 1..(k - 1) PROVE i \in 1..L /\ 1..i \subseteq S
    BY <1>1, <1>4, <1>5
  <2> QED BY <2>1, <2>2
<1>8. Cardinality(1..(k - 1)) = k - 1
  BY <1>4, FS_Interval
<1>9. b = k - 1
  BY <1>2, <1>7, <1>8
<1>10. 1..b \subseteq S
  <2>1. \A i \in 1..b : i \in 1..i
    OBVIOUS
  <2> QED BY <1>5, <1>9, <2>1
<1> QED BY <1>1, <1>4, <1>6, <1>9, <1>10 DEF L

(* A packet that is inserted waits once, and nothing else changes.              *)
LEMMA InsertWaiting ==
    ASSUME NEW buffer \in Buffers, Distinct(buffer), NEW p \in Packets,
           p \notin Waiting(buffer), NEW delay \in Delays \union {0}
    PROVE  /\ Distinct(Insert(buffer, p, delay))
           /\ Waiting(Insert(buffer, p, delay)) = Waiting(buffer) \union {p}
<1> DEFINE before == Passed(buffer, {i \in DOMAIN buffer : buffer[i].delay <= delay})
           entry == [pkt |-> p, delay |-> delay]
           L == Len(buffer)
<1>1. before \in 0..L /\ L \in Nat
  BY PassedType, LengthType
<1>2. \A i \in 1..L : buffer[i] \in Entries
  BY LengthType
<1>3. PICK b, r : b = before /\ r = Insert(buffer, p, delay)
  OBVIOUS
<1>4. r = SubSeq(buffer, 1, b) \o <<entry>> \o SubSeq(buffer, b + 1, L)
  BY <1>3 DEF Insert
<1> HIDE DEF before, L
<1>5. PICK x, y, z : x = SubSeq(buffer, 1, b) /\ y = SubSeq(buffer, b + 1, L) /\ z = <<entry>>
  OBVIOUS
<1>6. /\ x \in Seq(Entries) /\ Len(x) = b
      /\ \A i \in 1..b : x[i] = buffer[i]
  <2>1. \A i \in 1..b : buffer[i] \in Entries
    BY <1>1, <1>2, <1>3
  <2> QED BY <1>1, <1>3, <1>5, <2>1, SubSeqProperties
<1>7. /\ y \in Seq(Entries) /\ Len(y) = L - b
      /\ \A i \in 1..(L - b) : y[i] = buffer[b + i]
  <2>1. \A i \in (b + 1)..L : buffer[i] \in Entries
    BY <1>1, <1>2, <1>3
  <2>2. /\ y \in Seq(Entries) /\ Len(y) = IF b + 1 <= L THEN L - (b + 1) + 1 ELSE 0
        /\ \A i \in 1..(L - (b + 1) + 1) : y[i] = buffer[(b + 1) + i - 1]
    BY <1>1, <1>3, <1>5, <2>1, SubSeqProperties
  <2> QED BY <1>1, <1>3, <2>2
<1>8. z \in Seq(Entries) /\ Len(z) = 1 /\ z[1] = entry
  BY <1>5 DEF Entries
<1>9. /\ x \o z \in Seq(Entries) /\ Len(x \o z) = b + 1
      /\ \A i \in 1..(b + 1) : (x \o z)[i] = IF i <= b THEN x[i] ELSE z[i - b]
  <2>1. b \in Nat /\ Len(x) = b /\ Len(z) = 1
    BY <1>1, <1>3, <1>6, <1>8
  <2>2. /\ x \o z \in Seq(Entries) /\ Len(x \o z) = Len(x) + Len(z)
        /\ \A i \in 1..(Len(x) + Len(z)) : (x \o z)[i] = IF i <= Len(x) THEN x[i] ELSE z[i - Len(x)]
    BY <1>6, <1>8, ConcatProperties
  <2> QED BY <2>1, <2>2
<1>10. PICK w : w = x \o z
  OBVIOUS
<1>11. /\ Len(r) = L + 1
       /\ \A i \in 1..(L + 1) : r[i] = IF i <= b + 1 THEN w[i] ELSE y[i - (b + 1)]
  <2>1. w \in Seq(Entries) /\ Len(w) = b + 1 /\ r = w \o y
    BY <1>4, <1>5, <1>9, <1>10
  <2>2. /\ Len(w \o y) = Len(w) + Len(y)
        /\ \A i \in 1..(Len(w) + Len(y)) : (w \o y)[i] = IF i <= Len(w) THEN w[i] ELSE y[i - Len(w)]
    BY <1>7, <2>1, ConcatProperties
  <2>3. b \in Nat /\ Len(y) = L - b /\ L \in Nat /\ Len(w) + Len(y) = L + 1
    BY <1>1, <1>3, <1>7, <2>1
  <2> QED BY <2>1, <2>2, <2>3
<1>12. /\ \A i \in 1..b : r[i] = buffer[i]
       /\ r[b + 1] = entry
       /\ \A i \in (b + 2)..(L + 1) : r[i] = buffer[i - 1]
  <2>1. b \in 0..L
    BY <1>1, <1>3
  <2>2. \A i \in 1..b : r[i] = buffer[i]
    BY <1>1, <1>6, <1>9, <1>10, <1>11, <2>1
  <2>3. r[b + 1] = entry
    BY <1>1, <1>8, <1>9, <1>10, <1>11, <2>1
  <2>4. ASSUME NEW i \in (b + 2)..(L + 1) PROVE r[i] = buffer[i - 1]
    <3>1. i - (b + 1) \in 1..(L - b) /\ b + (i - (b + 1)) = i - 1 /\ ~(i <= b + 1)
          /\ i \in 1..(L + 1)
      BY <1>1, <2>1
    <3> QED BY <1>7, <1>11, <3>1
  <2> QED BY <2>2, <2>3, <2>4
<1>13. \A i \in 1..L : buffer[i].pkt # p
  BY WaitingIs DEF L
<1>14. r \in Buffers
  BY <1>3, InsertType
<1>15. Distinct(r)
  <2> SUFFICES ASSUME NEW i \in 1..(L + 1), NEW j \in 1..(L + 1), i < j
               PROVE  r[i].pkt # r[j].pkt
    BY <1>1, <1>11 DEF Distinct
  <2>1. b \in 0..L
    BY <1>1, <1>3
  <2>2. \A k, l \in 1..L : k # l => buffer[k].pkt # buffer[l].pkt
    BY DEF Distinct, L
  <2>3. CASE j <= b
    BY <1>1, <1>12, <2>1, <2>2, <2>3
  <2>4. CASE j = b + 1
    BY <1>1, <1>12, <1>13, <2>1, <2>4
  <2>5. CASE j > b + 1 /\ i <= b
    <3>1. i \in 1..b /\ j \in (b + 2)..(L + 1) /\ i \in 1..L /\ j - 1 \in 1..L /\ i # j - 1
      BY <1>1, <2>1, <2>5
    <3> QED BY <1>12, <2>2, <3>1
  <2>6. CASE j > b + 1 /\ i = b + 1
    <3>1. j \in (b + 2)..(L + 1) /\ j - 1 \in 1..L
      BY <1>1, <2>1, <2>6
    <3> QED BY <1>12, <1>13, <2>6, <3>1
  <2>7. CASE j > b + 1 /\ i > b + 1
    <3>1. /\ i \in (b + 2)..(L + 1) /\ j \in (b + 2)..(L + 1)
          /\ i - 1 \in 1..L /\ j - 1 \in 1..L /\ i - 1 # j - 1
      BY <1>1, <2>1, <2>7
    <3> QED BY <1>12, <2>2, <3>1
  <2> QED BY <1>1, <2>1, <2>3, <2>4, <2>5, <2>6, <2>7
<1>16. Waiting(r) = Waiting(buffer) \union {p}
  <2>1. b \in 0..L
    BY <1>1, <1>3
  <2>2. ASSUME NEW q \in Waiting(r) PROVE q \in Waiting(buffer) \union {p}
    <3>1. PICK i \in 1..(L + 1) : q = r[i].pkt
      BY <1>11, <1>14, <2>2, WaitingIs
    <3>2. CASE i <= b
      <4>1. i \in 1..b /\ i \in 1..L
        BY <1>1, <2>1, <3>2
      <4> QED BY <1>12, <3>1, <4>1, WaitingIs DEF L
    <3>3. CASE i = b + 1
      BY <1>12, <3>1, <3>3
    <3>4. CASE i > b + 1
      <4>1. i \in (b + 2)..(L + 1) /\ i - 1 \in 1..L
        BY <1>1, <2>1, <3>4
      <4> QED BY <1>12, <3>1, <4>1, WaitingIs DEF L
    <3> QED BY <1>1, <2>1, <3>2, <3>3, <3>4
  <2>3. ASSUME NEW q \in Waiting(buffer) PROVE q \in Waiting(r)
    <3>1. PICK i \in 1..L : q = buffer[i].pkt
      BY <2>3, WaitingIs DEF L
    <3>2. CASE i <= b
      <4>1. i \in 1..b /\ i \in 1..(L + 1)
        BY <1>1, <2>1, <3>2
      <4> QED BY <1>11, <1>12, <1>14, <3>1, <4>1, WaitingIs
    <3>3. CASE i > b
      <4>1. i + 1 \in (b + 2)..(L + 1) /\ i + 1 \in 1..(L + 1) /\ i + 1 - 1 = i
        BY <1>1, <2>1, <3>3
      <4> QED BY <1>11, <1>12, <1>14, <3>1, <4>1, WaitingIs
    <3> QED BY <1>1, <2>1, <3>2, <3>3
  <2>4. p \in Waiting(r)
    <3>1. b + 1 \in 1..(L + 1) /\ r[b + 1].pkt = p
      BY <1>1, <1>12, <2>1
    <3> QED BY <1>11, <1>14, <3>1, WaitingIs
  <2> QED BY <2>2, <2>3, <2>4
<1> QED BY <1>3, <1>15, <1>16

(* A packet that is erased waits no more, and nothing else changes.             *)
LEMMA EraseWaiting ==
    ASSUME NEW buffer \in Buffers, Distinct(buffer), NEW p
    PROVE  /\ Distinct(Erase(buffer, p))
           /\ Waiting(Erase(buffer, p)) = Waiting(buffer) \ {p}
<1> DEFINE S == {i \in DOMAIN buffer : buffer[i].pkt # p}
           L == Len(buffer)
<1>1. L \in Nat /\ DOMAIN buffer = 1..L /\ \A i \in 1..L : buffer[i] \in Entries
  BY LengthType
<1>2. PICK b, r : b = Passed(buffer, S) /\ r = Erase(buffer, p)
  OBVIOUS
<1>3. r = SubSeq(buffer, 1, b) \o SubSeq(buffer, b + 2, L)
  BY <1>2 DEF Erase
<1>4. b \in 0..L /\ 1..b \subseteq S /\ (b < L => b + 1 \notin S)
  BY <1>2, PassedStops
<1>5. /\ \A i \in 1..b : buffer[i].pkt # p
      /\ b < L => buffer[b + 1].pkt = p
  BY <1>1, <1>4
<1> HIDE DEF S, L
<1>6. PICK x, y : x = SubSeq(buffer, 1, b) /\ y = SubSeq(buffer, b + 2, L)
  OBVIOUS
<1>7. /\ x \in Seq(Entries) /\ Len(x) = b
      /\ \A i \in 1..b : x[i] = buffer[i]
  <2>1. \A i \in 1..b : buffer[i] \in Entries
    BY <1>1, <1>4
  <2> QED BY <1>1, <1>4, <1>6, <2>1, SubSeqProperties
<1>8. PICK k \in Nat : (b < L => L = b + 1 + k) /\ (~(b < L) => L = b /\ k = 0)
  <2>1. CASE b < L
    <3>1. L - b - 1 \in Nat /\ L = b + 1 + (L - b - 1)
      BY <1>1, <1>4, <2>1
    <3> QED BY <2>1, <3>1
  <2>2. CASE ~(b < L)
    BY <1>1, <1>4, <2>2
  <2> QED BY <2>1, <2>2
<1>9. /\ y \in Seq(Entries) /\ Len(y) = k
      /\ \A i \in 1..k : y[i] = buffer[b + 1 + i]
  <2>1. \A i \in (b + 2)..L : buffer[i] \in Entries
    BY <1>1, <1>4
  <2>2. /\ y \in Seq(Entries) /\ Len(y) = IF b + 2 <= L THEN L - (b + 2) + 1 ELSE 0
        /\ \A i \in 1..(L - (b + 2) + 1) : y[i] = buffer[(b + 2) + i - 1]
    BY <1>1, <1>4, <1>6, <2>1, SubSeqProperties
  <2>3. Len(y) = k
    BY <1>1, <1>4, <1>8, <2>2
  <2>4. ASSUME NEW i \in 1..k PROVE y[i] = buffer[b + 1 + i]
    <3>1. i \in 1..(L - (b + 2) + 1) /\ (b + 2) + i - 1 = b + 1 + i
      BY <1>1, <1>4, <1>8
    <3> QED BY <2>2, <3>1
  <2> QED BY <2>2, <2>3, <2>4
<1>10. /\ Len(r) = b + k
       /\ \A i \in 1..(b + k) : r[i] = IF i <= b THEN x[i] ELSE y[i - b]
  <2>1. r = x \o y /\ Len(x) = b /\ Len(y) = k
    BY <1>3, <1>6, <1>7, <1>9
  <2>2. /\ Len(x \o y) = Len(x) + Len(y)
        /\ \A i \in 1..(Len(x) + Len(y)) : (x \o y)[i] = IF i <= Len(x) THEN x[i] ELSE y[i - Len(x)]
    BY <1>7, <1>9, ConcatProperties
  <2> QED BY <2>1, <2>2
<1>11. /\ \A i \in 1..b : r[i] = buffer[i]
       /\ \A i \in (b + 1)..(b + k) : r[i] = buffer[i + 1]
  <2>1. ASSUME NEW i \in 1..b PROVE r[i] = buffer[i]
    <3>1. i \in 1..(b + k) /\ i <= b
      BY <1>4, <1>8
    <3> QED BY <1>7, <1>10, <3>1
  <2>2. ASSUME NEW i \in (b + 1)..(b + k) PROVE r[i] = buffer[i + 1]
    <3>1. i \in 1..(b + k) /\ ~(i <= b) /\ i - b \in 1..k /\ b + 1 + (i - b) = i + 1
      BY <1>4, <1>8
    <3> QED BY <1>9, <1>10, <3>1
  <2> QED BY <2>1, <2>2
<1>12. r \in Buffers
  BY <1>2, EraseType
<1>13. \A i, j \in 1..L : i # j => buffer[i].pkt # buffer[j].pkt
  BY DEF Distinct, L
<1>14. Distinct(r)
  <2> SUFFICES ASSUME NEW i \in 1..(b + k), NEW j \in 1..(b + k), i < j
               PROVE  r[i].pkt # r[j].pkt
    BY <1>4, <1>8, <1>10 DEF Distinct
  <2>1. CASE j <= b
    <3>1. i \in 1..b /\ j \in 1..b /\ i \in 1..L /\ j \in 1..L
      BY <1>1, <1>4, <2>1
    <3> QED BY <1>11, <1>13, <3>1
  <2>2. CASE j > b /\ i <= b
    <3>1. /\ i \in 1..b /\ j \in (b + 1)..(b + k) /\ i \in 1..L /\ j + 1 \in 1..L
          /\ i # j + 1
      BY <1>1, <1>4, <1>8, <2>2
    <3> QED BY <1>11, <1>13, <3>1
  <2>3. CASE i > b
    <3>1. /\ i \in (b + 1)..(b + k) /\ j \in (b + 1)..(b + k)
          /\ i + 1 \in 1..L /\ j + 1 \in 1..L /\ i + 1 # j + 1
      BY <1>1, <1>4, <1>8, <2>3
    <3> QED BY <1>11, <1>13, <3>1
  <2> QED BY <1>4, <1>8, <2>1, <2>2, <2>3
<1>15. Waiting(r) = Waiting(buffer) \ {p}
  <2>1. ASSUME NEW q \in Waiting(r) PROVE q \in Waiting(buffer) /\ q # p
    <3>1. PICK i \in 1..(b + k) : q = r[i].pkt
      BY <1>10, <1>12, <2>1, WaitingIs
    <3>2. CASE i <= b
      <4>1. i \in 1..b /\ i \in 1..L
        BY <1>1, <1>4, <3>2
      <4> QED BY <1>5, <1>11, <3>1, <4>1, WaitingIs DEF L
    <3>3. CASE i > b
      <4>1. i \in (b + 1)..(b + k) /\ i + 1 \in 1..L /\ b + 1 \in 1..L /\ i + 1 # b + 1 /\ b < L
        BY <1>1, <1>4, <1>8, <3>3
      <4> QED BY <1>5, <1>11, <1>13, <3>1, <4>1, WaitingIs DEF L
    <3> QED BY <1>4, <1>8, <3>2, <3>3
  <2>2. ASSUME NEW q \in Waiting(buffer), q # p PROVE q \in Waiting(r)
    <3>1. PICK i \in 1..L : q = buffer[i].pkt
      BY <2>2, WaitingIs DEF L
    <3>2. CASE i <= b
      <4>1. i \in 1..b /\ i \in 1..(b + k)
        BY <1>1, <1>4, <1>8, <3>2
      <4> QED BY <1>10, <1>11, <1>12, <3>1, <4>1, WaitingIs
    <3>3. CASE i > b
      <4>1. i # b + 1 /\ b < L
        BY <1>1, <1>4, <1>5, <2>2, <3>1, <3>3
      <4>2. i - 1 \in (b + 1)..(b + k) /\ i - 1 \in 1..(b + k) /\ i - 1 + 1 = i
        BY <1>1, <1>4, <1>8, <3>3, <4>1
      <4> QED BY <1>10, <1>11, <1>12, <3>1, <4>2, WaitingIs
    <3> QED BY <1>1, <1>4, <3>2, <3>3
  <2> QED BY <2>1, <2>2
<1> QED BY <1>2, <1>14, <1>15

(* The head of the buffer leaves it.                                            *)
LEMMA PopWaiting ==
    ASSUME NEW buffer \in Buffers, Distinct(buffer), buffer # << >>
    PROVE  /\ Distinct(Tail(buffer))
           /\ Head(buffer).pkt \in Waiting(buffer)
           /\ Waiting(Tail(buffer)) = Waiting(buffer) \ {Head(buffer).pkt}
<1> DEFINE L == Len(buffer)
<1>1. PICK t : t = Tail(buffer)
  OBVIOUS
<1>2. /\ buffer \in Seq(Entries) /\ L \in Nat \ {0} /\ Head(buffer) = buffer[1]
      /\ Len(t) = L - 1
      /\ \A i \in 1..(L - 1) : t[i] = buffer[i + 1]
      /\ t \in Buffers
  BY <1>1, LengthType, HeadTailProperties, PopType
<1>3. \A i, j \in 1..L : i # j => buffer[i].pkt # buffer[j].pkt
  BY DEF Distinct
<1> HIDE DEF L
<1>4. Distinct(t)
  <2> SUFFICES ASSUME NEW i \in 1..(L - 1), NEW j \in 1..(L - 1), i # j
               PROVE  t[i].pkt # t[j].pkt
    BY <1>2 DEF Distinct
  <2>1. i + 1 \in 1..L /\ j + 1 \in 1..L /\ i + 1 # j + 1
    BY <1>2
  <2> QED BY <1>2, <1>3, <2>1
<1>5. Head(buffer).pkt \in Waiting(buffer)
  <2>1. 1 \in 1..L
    BY <1>2
  <2> QED BY <1>2, <2>1, WaitingIs DEF L
<1>6. ASSUME NEW q \in Waiting(t) PROVE q \in Waiting(buffer) /\ q # Head(buffer).pkt
  <2>1. PICK i \in 1..(L - 1) : q = t[i].pkt
    BY <1>2, <1>6, WaitingIs
  <2>2. i + 1 \in 1..L /\ 1 \in 1..L /\ i + 1 # 1
    BY <1>2
  <2>3. q = buffer[i + 1].pkt
    BY <1>2, <2>1
  <2> QED BY <1>2, <1>3, <2>2, <2>3, WaitingIs DEF L
<1>7. ASSUME NEW q \in Waiting(buffer), q # Head(buffer).pkt PROVE q \in Waiting(t)
  <2>1. PICK i \in 1..L : q = buffer[i].pkt
    BY <1>7, WaitingIs DEF L
  <2>2. i # 1
    BY <1>2, <1>7, <2>1
  <2>3. i - 1 \in 1..(L - 1) /\ i - 1 + 1 = i
    BY <1>2, <2>2
  <2>4. q = t[i - 1].pkt /\ i - 1 \in 1..Len(t)
    BY <1>2, <2>1, <2>3
  <2> QED BY <1>2, <2>4, WaitingIs
<1> QED BY <1>1, <1>4, <1>5, <1>6, <1>7

----------------------------------------------------------------------------------
(* No packet waits twice, and none that waits was sent or overheard.            *)

(* The packets a network layer has.                                             *)
Has(n) == Waiting(n.buffer) \union (IF n.busy = TRUE THEN {n.active} ELSE {})

(* Network layer n and MAC m have each packet once, and none of gone, but for   *)
(* one that the MAC is done with or cannot take back.                           *)
Once(n, m, gone) ==
    /\ Distinct(n.buffer)
    /\ Waiting(n.buffer) \cap gone = {}
    /\ n.busy = TRUE => n.active \notin Waiting(n.buffer)
    /\ m.state = "DEFER" => m.pld = n.active /\ m.pld \notin gone

(* Everything that passed through the node is remembered, or is a packet of its *)
(* own, which cannot come in before it went out.                                *)
OnceInv ==
    /\ ControlInv
    /\ \A p \in Has(net) \union sent \union overheard :
          /\ p \in Packets
          /\ Remembered(cache[p.src], p.n)
          /\ p.src = Me => p.n <= number
    /\ Receiving /\ rx.pkt.src = Me => rx.pkt \in sent
    /\ Once(net, mac, sent \union overheard)

(* The network layer has p besides what it had.                                 *)
Adds(n, after, p) == Has(after) = Has(n) \union {p}

(* The packets it has are those the model calls outstanding.                    *)
LEMMA HasIs == net.busy \in BOOLEAN => Outstanding = Has(net)
BY DEF Outstanding, Has

(* FromNetwork hands the packet to a MAC that is idle.                          *)
LEMMA Deferred ==
    ASSUME NEW m \in Macs, NEW p \in Packets, NEW receiving \in BOOLEAN, m.state = "IDLE"
    PROVE  /\ FromNetwork(m, p, receiving).state = "DEFER"
           /\ FromNetwork(m, p, receiving).pld = p
BY DEF FromNetwork, Macs

(* A packet that has not been here joins those that wait, or goes to the MAC.   *)
LEMMA SubmitOnce ==
    ASSUME net \in Nets, NEW m \in Macs, NEW receiving \in BOOLEAN,
           Agree(m, net.busy, receiving), NEW gone, Once(net, m, gone),
           NEW p \in Packets, p \notin Has(net), p \notin gone,
           NEW delay \in Delays \union {0}, NEW after, after = Submit(p, delay, m, receiving)
    PROVE  Once(after.net, after.mac, gone) /\ Adds(net, after.net, p)
<1>1. net.busy \in BOOLEAN /\ net.buffer \in Buffers /\ p \notin Waiting(net.buffer)
      /\ Distinct(net.buffer)
  BY DEF Nets, Has, Once
<1>2. CASE net.busy = TRUE
  <2> DEFINE k == Insert(net.buffer, p, delay)
             n == [net EXCEPT !.buffer = k]
  <2>1. after.net = n /\ after.mac = m
    BY <1>2 DEF Submit
  <2>2. Distinct(k) /\ Waiting(k) = Waiting(net.buffer) \union {p}
    BY <1>1, InsertWaiting
  <2> HIDE DEF k
  <2>3. n.busy = TRUE /\ n.active = net.active /\ n.buffer = k
    BY <1>2 DEF Nets
  <2> HIDE DEF n
  <2>4. net.active # p
    BY <1>2 DEF Has
  <2>5. Once(n, m, gone)
    BY <1>2, <2>2, <2>3, <2>4 DEF Once
  <2>6. Adds(net, n, p)
    BY <1>2, <2>2, <2>3 DEF Has, Adds
  <2> QED BY <2>1, <2>5, <2>6
<1>3. CASE net.busy = FALSE
  <2> DEFINE n == [net EXCEPT !.busy = TRUE, !.active = p]
             k == FromNetwork(m, p, receiving)
  <2>1. after.net = n /\ after.mac = k
    BY <1>3 DEF Submit
  <2>2. m.state = "IDLE"
    BY <1>3 DEF Agree, Macs
  <2>3. k.state = "DEFER" /\ k.pld = p
    BY <2>2, Deferred
  <2>4. n.busy = TRUE /\ n.active = p /\ n.buffer = net.buffer
    BY DEF Nets
  <2> HIDE DEF n, k
  <2>5. Once(n, k, gone)
    BY <1>1, <2>3, <2>4 DEF Once
  <2>6. Adds(net, n, p)
    BY <1>3, <2>4 DEF Has, Adds
  <2> QED BY <2>1, <2>5, <2>6
<1> QED BY <1>1, <1>2, <1>3

(* The packet the MAC gets next leaves the buffer.                              *)
LEMMA AckOnce ==
    ASSUME net \in Nets, NEW m \in Macs, m.state = "IDLE", NEW gone, Once(net, mac, gone),
           NEW after, after = FromMacAck(m)
    PROVE  Once(after.net, after.mac, gone) /\ Has(after.net) \subseteq Has(net)
<1>1. net.busy \in BOOLEAN /\ net.buffer \in Buffers /\ Distinct(net.buffer)
  BY DEF Nets, Once
<1>2. CASE net.buffer # << >>
  <2> DEFINE p == Head(net.buffer).pkt
             t == Tail(net.buffer)
             n == [net EXCEPT !.active = p, !.buffer = t]
             k == FromNetwork(m, p, Receiving)
  <2>1. after.net = n /\ after.mac = k
    BY <1>2 DEF FromMacAck
  <2>2. p \in Packets /\ Receiving \in BOOLEAN
    BY <1>1, <1>2, PopType DEF Receiving
  <2>3. /\ Distinct(t) /\ p \in Waiting(net.buffer)
        /\ Waiting(t) = Waiting(net.buffer) \ {p}
    BY <1>1, <1>2, PopWaiting
  <2> HIDE DEF p, t
  <2>4. k.state = "DEFER" /\ k.pld = p
    BY <2>2, Deferred
  <2>5. n.busy = net.busy /\ n.active = p /\ n.buffer = t
    BY DEF Nets
  <2> HIDE DEF n, k
  <2>6. Once(n, k, gone)
    BY <2>3, <2>4, <2>5 DEF Once
  <2>7. Has(n) \subseteq Has(net)
    BY <2>3, <2>5 DEF Has
  <2> QED BY <2>1, <2>6, <2>7
<1>3. CASE net.buffer = << >>
  <2> DEFINE n == [net EXCEPT !.busy = FALSE]
  <2>1. after.net = n /\ after.mac = m
    BY <1>3 DEF FromMacAck
  <2>2. n.busy = FALSE /\ n.buffer = net.buffer
    BY DEF Nets
  <2> HIDE DEF n
  <2> QED BY <2>1, <2>2 DEF Once, Has
<1> QED BY <1>2, <1>3

(* A packet heard again is taken back; one that is on the air already is not    *)
(* deferred any more, so it goes out no second time.                            *)
LEMMA RepetitionOnce ==
    ASSUME net \in Nets, NEW m \in Macs, Agree(m, net.busy, FALSE), NEW gone,
           Once(net, m, gone), NEW p, NEW after, after = Repetition(p, m)
    PROVE  /\ Once(after.net, after.mac, gone \union ({p} \cap Has(net)))
           /\ Has(after.net) \subseteq Has(net)
<1>1. net.busy \in BOOLEAN /\ net.buffer \in Buffers /\ Distinct(net.buffer)
  BY DEF Nets, Once
<1>2. CASE net.busy = TRUE /\ net.active = p
  <2> DEFINE k == Cancel(m)
  <2>1. after.net = net /\ after.mac = k
    BY <1>2 DEF Repetition
  <2>2. k.state # "DEFER"
    BY DEF Cancel, Macs
  <2> HIDE DEF k
  <2>3. Once(net, k, gone \union ({p} \cap Has(net)))
    BY <1>2, <2>2 DEF Once
  <2> QED BY <2>1, <2>3
<1>3. CASE ~(net.busy = TRUE /\ net.active = p)
  <2> DEFINE e == Erase(net.buffer, p)
             n == [net EXCEPT !.buffer = e]
  <2>1. after.net = n /\ after.mac = m
    BY <1>1, <1>3 DEF Repetition
  <2>2. Distinct(e) /\ Waiting(e) = Waiting(net.buffer) \ {p}
    BY <1>1, EraseWaiting
  <2> HIDE DEF e
  <2>3. n.busy = net.busy /\ n.active = net.active /\ n.buffer = e
    BY DEF Nets
  <2> HIDE DEF n
  <2>4. m.state = "DEFER" => net.busy = TRUE
    BY DEF Agree
  <2>5. Once(n, m, gone \union ({p} \cap Has(net)))
    BY <1>3, <2>2, <2>3, <2>4 DEF Once
  <2>6. Has(n) \subseteq Has(net)
    BY <2>2, <2>3 DEF Has
  <2> QED BY <2>1, <2>5, <2>6
<1> QED BY <1>2, <1>3

(* What has been remembered stays so when check() is asked about n of source s. *)
LEMMA StaysRemembered ==
    ASSUME cache \in [Sources -> Caches], NEW s \in Sources, NEW n \in Nat,
           NEW outcome \in Checks(cache[s], n),
           cache' = [cache EXCEPT ![s] = outcome.cache]
    PROVE  /\ Remembered(cache'[s], n)
           /\ \A p \in Packets : Remembered(cache[p.src], p.n) => Remembered(cache'[p.src], p.n)
<1>1. cache[s] \in Caches
  OBVIOUS
<1>2. /\ Remembered(outcome.cache, n)
      /\ \A k \in Nat : Remembered(cache[s], k) => Remembered(outcome.cache, k)
  BY <1>1, ChecksRemember
<1>3. cache'[s] = outcome.cache
  OBVIOUS
<1>4. ASSUME NEW p \in Packets, Remembered(cache[p.src], p.n)
      PROVE  Remembered(cache'[p.src], p.n)
  <2>1. p.src \in Sources /\ p.n \in Nat
    BY DEF Packets
  <2>2. CASE p.src = s
    BY <1>2, <1>3, <1>4, <2>1, <2>2
  <2>3. CASE p.src # s
    <3>1. cache'[p.src] = cache[p.src]
      BY <2>1, <2>3
    <3> QED BY <1>4, <3>1
  <2> QED BY <2>2, <2>3
<1> QED BY <1>2, <1>3, <1>4

(* At the start the node has nothing and remembers nothing.                     *)
LEMMA InitOnce == Init => OnceInv
<1> SUFFICES ASSUME Init PROVE OnceInv
  OBVIOUS
<1>1. ControlInv
  BY InitControl
<1>2. net = [busy |-> FALSE, active |-> NoPacket, buffer |-> << >>] /\ sent = {}
      /\ overheard = {} /\ mac.state = "IDLE" /\ rx = NoFrame
  BY DEF Init
<1>3. net.busy = FALSE /\ net.buffer = << >> /\ Len(net.buffer) = 0 /\ DOMAIN net.buffer = {}
  BY <1>2
<1>4. Waiting(net.buffer) = {} /\ Distinct(net.buffer)
  BY <1>3 DEF Waiting, Distinct
<1>5. Has(net) = {} /\ ~Receiving
  BY <1>2, <1>3, <1>4 DEF Has, Receiving
<1>6. Once(net, mac, sent \union overheard)
  BY <1>2, <1>3, <1>4 DEF Once
<1> QED BY <1>1, <1>2, <1>5, <1>6 DEF OnceInv

(* The next number of this node is one that nothing here has yet.               *)
LEMMA FromTransportOnce ==
    ASSUME OnceInv, FromTransport
    PROVE  OnceInv'
<1>1. /\ net \in Nets /\ mac \in Macs /\ Agree(mac, net.busy, Receiving)
      /\ cache \in [Sources -> Caches] /\ number \in 1..MaxNumber
  BY Types DEF OnceInv, ControlInv
<1>2. /\ number < MaxNumber /\ number' = number + 1
      /\ UNCHANGED <<rx, sent, overheard>>
  BY DEF FromTransport
<1>3. PICK p : p = [src |-> Me, n |-> number']
  OBVIOUS
<1>4. p \in Packets /\ p.src = Me /\ p.n = number + 1 /\ number' \in Nat /\ number \in Nat
  <2>1. number' \in 2..MaxNumber /\ number' \in Nat /\ number \in Nat
    BY <1>1, <1>2
  <2>2. p \in Packets /\ p.src = Me /\ p.n = number'
    BY <1>3, <2>1 DEF Packets, Sources
  <2> QED BY <1>2, <2>1, <2>2
<1>5. p \notin Has(net) \union sent \union overheard
  BY <1>4 DEF OnceInv
<1>6. PICK after : after = Submit(p, 0, mac, Receiving)
  OBVIOUS
<1>7. net' = after.net /\ mac' = after.mac
  BY <1>3, <1>6 DEF FromTransport, Answered
<1>8. Receiving \in BOOLEAN /\ Receiving' = Receiving
  BY <1>2 DEF Receiving
<1>9. Once(net', mac', sent \union overheard) /\ Has(net') = Has(net) \union {p}
  <2>1. Once(net, mac, sent \union overheard)
    BY DEF OnceInv
  <2>2. Once(net', mac', sent \union overheard) /\ Adds(net, net', p)
    BY <1>1, <1>4, <1>5, <1>6, <1>7, <1>8, <2>1, SubmitOnce
  <2> QED BY <2>2 DEF Adds
<1>10. PICK outcome \in Checks(cache[Me], number') :
         cache' = [cache EXCEPT ![Me] = outcome.cache]
  BY DEF FromTransport
<1>11. /\ Remembered(cache'[Me], number')
       /\ \A q \in Packets : Remembered(cache[q.src], q.n) => Remembered(cache'[q.src], q.n)
  <2>1. Me \in Sources
    BY DEF Sources
  <2> QED BY <1>1, <1>4, <1>10, <2>1, StaysRemembered
<1>12. ASSUME NEW q \in Has(net') \union sent' \union overheard'
       PROVE  q \in Packets /\ Remembered(cache'[q.src], q.n) /\ (q.src = Me => q.n <= number')
  <2>1. CASE q = p
    BY <1>2, <1>4, <1>11, <2>1
  <2>2. CASE q \in Has(net) \union sent \union overheard
    <3>1. q \in Packets /\ Remembered(cache[q.src], q.n) /\ (q.src = Me => q.n <= number)
      BY <2>2 DEF OnceInv
    <3>2. q.n \in Nat
      BY <3>1 DEF Packets
    <3> QED BY <1>2, <1>4, <1>11, <3>1, <3>2
  <2> QED BY <1>2, <1>9, <2>1, <2>2
<1>13. ControlInv'
  BY FromTransportStep DEF OnceInv
<1>14. Receiving' /\ rx'.pkt.src = Me => rx'.pkt \in sent'
  BY <1>2, <1>8 DEF OnceInv
<1> QED BY <1>2, <1>9, <1>12, <1>13, <1>14 DEF OnceInv

(* An answer sends the next packet that waits, or none.                         *)
LEMMA AckOnces ==
    ASSUME OnceInv, SendTimer \/ AckTimer
    PROVE  OnceInv'
<1>1. net \in Nets /\ mac \in Macs
  BY Types DEF OnceInv, ControlInv
<1>2. UNCHANGED <<rx, number, cache, sent, overheard>>
  BY DEF SendTimer, AckTimer
<1>3. PICK m : m \in Macs /\ m.state = "IDLE" /\ Answered(FromMacAck(m))
  <2>1. CASE SendTimer
    <3>1. [mac EXCEPT !.state = "IDLE"] \in Macs
      BY <1>1 DEF Macs
    <3>2. [mac EXCEPT !.state = "IDLE"].state = "IDLE"
      BY <1>1 DEF Macs
    <3> QED BY <2>1, <3>1, <3>2 DEF SendTimer
  <2>2. CASE AckTimer
    <3>1. [mac EXCEPT !.state = "IDLE", !.ack = FALSE] \in Macs
      BY <1>1 DEF Macs
    <3>2. [mac EXCEPT !.state = "IDLE", !.ack = FALSE].state = "IDLE"
      BY <1>1 DEF Macs
    <3> QED BY <2>2, <3>1, <3>2 DEF AckTimer
  <2> QED BY <2>1, <2>2
<1>4. PICK after : after = FromMacAck(m)
  OBVIOUS
<1>5. net' = after.net /\ mac' = after.mac
  BY <1>3, <1>4 DEF Answered
<1>6. Once(net', mac', sent \union overheard) /\ Has(net') \subseteq Has(net)
  <2>1. Once(net, mac, sent \union overheard)
    BY DEF OnceInv
  <2> QED BY <1>1, <1>3, <1>4, <1>5, <2>1, AckOnce
<1>7. ControlInv'
  BY AckSteps DEF OnceInv
<1>8. Receiving' = Receiving
  BY <1>2 DEF Receiving
<1> QED BY <1>2, <1>6, <1>7, <1>8 DEF OnceInv

(* The packet whose back-off is over is the active one; it joins those sent.    *)
LEMMA DeferTimerOnce ==
    ASSUME OnceInv, DeferTimer
    PROVE  OnceInv' /\ mac.pld \notin sent \union overheard
<1>1. net \in Nets /\ mac \in Macs /\ Agree(mac, net.busy, Receiving)
  BY Types DEF OnceInv, ControlInv
<1>2. mac.defer = TRUE /\ UNCHANGED <<rx, net, number, cache, overheard>>
      /\ sent' = sent \union {mac.pld}
  BY <1>1 DEF DeferTimer, Macs
<1>3. mac.state = "DEFER" /\ net.busy = TRUE
  BY <1>1, <1>2 DEF Agree
<1>4. /\ mac.pld = net.active /\ mac.pld \notin sent \union overheard
      /\ net.active \notin Waiting(net.buffer)
      /\ Distinct(net.buffer) /\ Waiting(net.buffer) \cap (sent \union overheard) = {}
  BY <1>3 DEF OnceInv, Once
<1>5. mac'.state = "SEND"
  BY <1>1 DEF DeferTimer, Macs
<1>6. Once(net', mac', sent' \union overheard')
  BY <1>2, <1>4, <1>5 DEF Once
<1>7. mac.pld \in Has(net)
  BY <1>3, <1>4 DEF Has
<1>8. \A p \in Has(net') \union sent' \union overheard' : p \in Has(net) \union sent \union overheard
  BY <1>2, <1>7
<1>9. ControlInv'
  BY DeferTimerStep DEF OnceInv
<1>10. Receiving' = Receiving
  BY <1>2 DEF Receiving
<1> QED BY <1>2, <1>4, <1>6, <1>8, <1>9, <1>10 DEF OnceInv

(* A packet of this node comes in only after it went out.                       *)
LEMMA FromPhyOnce ==
    ASSUME OnceInv, NEW p \in Packets, NEW err \in BOOLEAN, NEW again \in BOOLEAN,
           FromPhy(p, err, again)
    PROVE  OnceInv'
<1>1. /\ mac \in Macs /\ rx \in Frames
      /\ UNCHANGED <<net, number, cache, sent, overheard>> /\ (p.src = Me => p \in sent)
  BY Types DEF OnceInv, ControlInv, FromPhy
<1>2. mac'.state = mac.state /\ mac'.pld = mac.pld
  BY <1>1 DEF FromPhy, Macs
<1>3. rx'.pkt = p \/ (Receiving /\ rx'.pkt = rx.pkt)
  BY <1>1 DEF FromPhy, FrameFrom, Frames
<1>4. Receiving' /\ rx'.pkt.src = Me => rx'.pkt \in sent'
  BY <1>1, <1>3 DEF OnceInv
<1>5. Once(net', mac', sent' \union overheard')
  BY <1>1, <1>2 DEF OnceInv, Once
<1>6. ControlInv'
  BY FromPhyStep DEF OnceInv
<1> QED BY <1>1, <1>4, <1>5, <1>6 DEF OnceInv

(* A packet that is new to check() has not been here; one that has is given up. *)
LEMMA FromMacDataOnce ==
    ASSUME OnceInv, NEW m \in Macs, Agree(m, net.busy, FALSE), m.pld = mac.pld,
           m.state = mac.state, NEW p \in Packets, p.src = Me => p \in sent,
           FromMacData(p, m), UNCHANGED <<number, sent>>, rx' = NoFrame, ControlInv'
    PROVE  OnceInv'
<1>1. net \in Nets /\ net.busy \in BOOLEAN /\ cache \in [Sources -> Caches]
  BY Types DEF OnceInv, ControlInv, Nets
<1>2. PICK outcome \in Checks(cache[p.src], p.n) :
        /\ cache' = [cache EXCEPT ![p.src] = outcome.cache]
        /\ overheard' = overheard \union ({p} \cap Outstanding)
        /\ \/ outcome.heard /\ Answered(Repetition(p, m))
           \/ ~outcome.heard /\ p \in ForMe /\ net' = net /\ mac' = m
           \/ /\ ~outcome.heard /\ p \notin ForMe
              /\ \E delay \in Delays : Answered(Submit(p, delay, m, FALSE))
  BY DEF FromMacData
<1>3. p.src \in Sources /\ p.n \in Nat
  BY DEF Packets
<1>4. /\ Remembered(cache'[p.src], p.n)
      /\ \A q \in Packets : Remembered(cache[q.src], q.n) => Remembered(cache'[q.src], q.n)
  BY <1>1, <1>2, <1>3, StaysRemembered
<1>5. Once(net, m, sent \union overheard)
  BY DEF OnceInv, Once
<1>6. ASSUME ~outcome.heard PROVE p \notin Has(net) \union sent \union overheard
  <2>1. cache[p.src] \in Caches
    BY <1>1, <1>3
  <2>2. ~Remembered(cache[p.src], p.n)
    BY <1>3, <1>6, <2>1, ChecksRemember
  <2> QED BY <2>2 DEF OnceInv
<1>7. overheard' = overheard \union ({p} \cap Has(net))
  BY <1>1, <1>2, HasIs
<1>8. Once(net', mac', sent' \union overheard')
      /\ Has(net') \subseteq Has(net) \union {p}
      /\ (p.src = Me => Has(net') \subseteq Has(net))
  <2>1. CASE outcome.heard /\ Answered(Repetition(p, m))
    <3>1. PICK after : after = Repetition(p, m)
      OBVIOUS
    <3>2. net' = after.net /\ mac' = after.mac
      BY <2>1, <3>1 DEF Answered
    <3>3. /\ Once(net', mac', (sent \union overheard) \union ({p} \cap Has(net)))
          /\ Has(net') \subseteq Has(net)
      BY <1>1, <1>5, <3>1, <3>2, RepetitionOnce
    <3>4. (sent \union overheard) \union ({p} \cap Has(net)) = sent' \union overheard'
      BY <1>7
    <3> QED BY <3>3, <3>4
  <2>2. CASE ~outcome.heard /\ net' = net /\ mac' = m
    <3>1. sent' \union overheard' = sent \union overheard
      BY <1>6, <1>7, <2>2
    <3> QED BY <1>5, <2>2, <3>1
  <2>3. CASE ~outcome.heard /\ \E delay \in Delays : Answered(Submit(p, delay, m, FALSE))
    <3>1. PICK delay \in Delays : Answered(Submit(p, delay, m, FALSE))
      BY <2>3
    <3>2. PICK after : after = Submit(p, delay, m, FALSE)
      OBVIOUS
    <3>3. net' = after.net /\ mac' = after.mac
      BY <3>1, <3>2 DEF Answered
    <3>4. p \notin Has(net) /\ p \notin sent \union overheard /\ p.src # Me
      BY <1>6, <2>3
    <3>5. /\ Once(net', mac', sent \union overheard)
          /\ Has(net') = Has(net) \union {p}
      <4>1. PICK gone : gone = sent \union overheard
        OBVIOUS
      <4>2. Once(net, m, gone) /\ p \notin gone /\ delay \in Delays \union {0} /\ FALSE \in BOOLEAN
        BY <1>5, <3>4, <4>1
      <4>3. Once(after.net, after.mac, gone)
        BY <1>1, <3>2, <3>4, <4>2, SubmitOnce
      <4>4. Adds(net, after.net, p)
        BY <1>1, <3>2, <3>4, <4>2, SubmitOnce
      <4> QED BY <3>3, <4>1, <4>3, <4>4 DEF Adds
    <3>6. sent' \union overheard' = sent \union overheard
      BY <1>7, <3>4
    <3> QED BY <3>4, <3>5, <3>6
  <2> QED BY <1>2, <2>1, <2>2, <2>3
<1>9. ASSUME NEW q \in Has(net') \union sent' \union overheard'
      PROVE  q \in Packets /\ Remembered(cache'[q.src], q.n) /\ (q.src = Me => q.n <= number')
  <2>1. CASE q \in Has(net) \union sent \union overheard
    BY <1>4, <2>1 DEF OnceInv
  <2>2. CASE q = p /\ p \notin Has(net) \union sent \union overheard
    <3>1. p.src # Me
      BY <2>2
    <3> QED BY <1>4, <2>2, <3>1
  <2> QED BY <1>7, <1>8, <2>1, <2>2
<1>10. ~Receiving'
  BY DEF Receiving
<1> QED BY <1>8, <1>9, <1>10 DEF OnceInv

(* The end of a frame: dropped, or passed to the network layer.                 *)
LEMMA RecvTimerOnce ==
    ASSUME OnceInv, RecvTimer
    PROVE  OnceInv'
<1>1. /\ mac \in Macs /\ net \in Nets /\ Agree(mac, net.busy, Receiving)
      /\ net.busy \in BOOLEAN
  BY Types DEF OnceInv, ControlInv, Nets
<1>2. /\ Receiving /\ rx' = NoFrame /\ UNCHANGED <<number, sent>>
      /\ rx.pkt \in Packets /\ (rx.pkt.src = Me => rx.pkt \in sent)
  BY DEF RecvTimer, OnceInv, ControlInv
<1>3. ControlInv'
  BY RecvTimerStep DEF OnceInv
<1>4. PICK m : m = ResumeDefer(mac)
  OBVIOUS
<1>5. m \in Macs /\ Agree(m, net.busy, FALSE) /\ m.state = mac.state
  <2>1. Agree(mac, net.busy, TRUE)
    BY <1>1, <1>2 DEF Agree
  <2> QED BY <1>1, <1>4, <2>1, ResumeAgrees
<1>6. m.pld = mac.pld
  BY <1>1, <1>4 DEF ResumeDefer, Macs
<1>7. CASE mac' = m /\ UNCHANGED <<net, cache, overheard, stale>>
  <2>1. Once(net', mac', sent' \union overheard')
    BY <1>2, <1>5, <1>6, <1>7 DEF OnceInv, Once
  <2>2. ~Receiving'
    BY <1>2 DEF Receiving
  <2> QED BY <1>2, <1>3, <1>7, <2>1, <2>2 DEF OnceInv
<1>8. CASE FromMacData(rx.pkt, m)
  BY <1>2, <1>3, <1>5, <1>6, <1>8, FromMacDataOnce
<1> QED BY <1>4, <1>7, <1>8 DEF RecvTimer, DropFrame

(* The invariant: every packet here is remembered, waits once, and has not been *)
(* sent or overheard.                                                           *)
THEOREM NothingTwice == Spec => []OnceInv
<1>1. Init => OnceInv
  BY InitOnce
<1>2. OnceInv /\ [Next]_vars => OnceInv'
  <2> SUFFICES ASSUME OnceInv, [Next]_vars PROVE OnceInv'
    OBVIOUS
  <2>1. CASE FromTransport
    BY <2>1, FromTransportOnce
  <2>2. CASE \E p \in Packets, err, again \in BOOLEAN : FromPhy(p, err, again)
    BY <2>2, FromPhyOnce
  <2>3. CASE RecvTimer
    BY <2>3, RecvTimerOnce
  <2>4. CASE DeferTimer
    BY <2>4, DeferTimerOnce
  <2>5. CASE SendTimer \/ AckTimer
    BY <2>5, AckOnces
  <2>6. CASE UNCHANGED vars
    <3>1. ControlInv' /\ Receiving' = Receiving
      BY <2>6 DEF OnceInv, vars, ControlInv, TypeOK, Agree, Receiving, Macs
    <3> QED BY <2>6, <3>1 DEF OnceInv, vars
  <2> QED BY <2>1, <2>2, <2>3, <2>4, <2>5, <2>6 DEF Next
<1> QED BY <1>1, <1>2, PTL DEF Spec

(* A packet is sent at most once and never after it was overheard while it      *)
(* waited: SendsOnce (seq_number_t, m_packet_buffer and cancel together), for   *)
(* any sources, numbers, windows, delays and frames.                            *)
THEOREM SentOnce == Spec => SendsOnce
<1>1. OnceInv /\ [Next]_vars =>
        [\A p \in Packets : mac'.state = "SEND" /\ mac.state # "SEND" /\ mac.pld = p
           => p \notin sent \union overheard]_vars
  <2> SUFFICES ASSUME OnceInv, Next, NEW p \in Packets,
                      mac'.state = "SEND", mac.state # "SEND", mac.pld = p
               PROVE  p \notin sent \union overheard
    BY DEF vars
  <2>1. mac \in Macs /\ net \in Nets
    BY Types DEF OnceInv, ControlInv
  <2>2. CASE DeferTimer
    BY <2>2, DeferTimerOnce
  <2>3. ~FromTransport
    <3> SUFFICES ASSUME FromTransport PROVE FALSE
      OBVIOUS
    <3>1. mac'.state # "SEND"
      BY <2>1 DEF FromTransport, Answered, Submit, FromNetwork, Macs
    <3> QED BY <3>1
  <2>4. ~\E q \in Packets, err, again \in BOOLEAN : FromPhy(q, err, again)
    BY <2>1 DEF FromPhy, Macs
  <2>5. ~RecvTimer
    <3> SUFFICES ASSUME RecvTimer PROVE FALSE
      OBVIOUS
    <3>1. PICK m : m = ResumeDefer(mac)
      OBVIOUS
    <3>2. m.state # "SEND" /\ m \in Macs
      BY <2>1, <3>1 DEF ResumeDefer, Macs
    <3>3. CASE mac' = m
      BY <3>2, <3>3
    <3>4. CASE FromMacData(rx.pkt, m)
      <4>1. mac' = m \/ mac' = Cancel(m)
              \/ \E q, delay : mac' = Submit(q, delay, m, FALSE).mac
        BY <3>4 DEF FromMacData, Answered, Repetition
      <4>2. Cancel(m).state # "SEND"
        BY <3>2 DEF Cancel, Macs
      <4>3. \A q, delay : Submit(q, delay, m, FALSE).mac.state # "SEND"
        BY <3>2 DEF Submit, FromNetwork, Macs
      <4> QED BY <3>2, <4>1, <4>2, <4>3
    <3> QED BY <3>1, <3>3, <3>4 DEF RecvTimer, DropFrame
  <2>6. ~(SendTimer \/ AckTimer)
    <3> SUFFICES ASSUME SendTimer \/ AckTimer PROVE FALSE
      OBVIOUS
    <3>1. PICK m \in Macs : m.state = "IDLE" /\ Answered(FromMacAck(m))
      <4>1. [mac EXCEPT !.state = "IDLE"] \in Macs
            /\ [mac EXCEPT !.state = "IDLE", !.ack = FALSE] \in Macs
        BY <2>1 DEF Macs
      <4>2. [mac EXCEPT !.state = "IDLE"].state = "IDLE"
            /\ [mac EXCEPT !.state = "IDLE", !.ack = FALSE].state = "IDLE"
        BY <2>1 DEF Macs
      <4> QED BY <4>1, <4>2 DEF SendTimer, AckTimer
    <3>2. FromMacAck(m).mac.state # "SEND"
      BY <3>1 DEF FromMacAck, FromNetwork, Macs
    <3> QED BY <3>1, <3>2 DEF Answered
  <2> QED BY <2>2, <2>3, <2>4, <2>5, <2>6 DEF Next
<1>2. Spec => []OnceInv
  BY NothingTwice
<1> QED BY <1>1, <1>2, PTL DEF Spec, SendsOnce
==================================================================================
