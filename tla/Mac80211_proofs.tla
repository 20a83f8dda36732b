---------------------------- MODULE Mac80211_proofs ----------------------------
(***************************************************************************)
(* The rules of the 802.11 MAC and its queue, for any stations, whoever    *)
(* hears whom, any traffic, any times, windows and limits, and any frames  *)
(* lost or damaged.                                                        *)
(***************************************************************************)
EXTENDS Mac80211, SequenceTheorems, NaturalsInduction, WellFoundedInduction, TLAPS

(***************************************************************************)
(* The invariant.  Every conjunct but the last two is about one station.   *)
(***************************************************************************)
Fields == {"state", "nav", "cw", "backoff", "ssrc", "slrc", "ifs", "since", "session",
           "peer", "pld", "rx", "rxError", "txFailed", "long", "lastSend", "seq", "cache",
           "defer", "recv", "cts", "ack", "navTimer", "netAck", "phy", "phyFrame", "busy",
           "queue", "assertFailed", "overlap", "refused", "air", "up", "answers"}

Timer == Nat \union {Off}

Payloads == (UNION {ToSet(Traffic[s]) : s \in Stations}) \union {NoPayload}

WellFormed(f) == f.type \in {"RTS", "CTS", "ACK", "DATA"} /\ f.dur \in Int

Typed(w) ==
  /\ DOMAIN w = Fields
  /\ w.state \in {"IDLE", "DEFER", "CTS", "ACK"}
  /\ w.nav \in Nat /\ w.cw \in Nat /\ w.backoff \in Nat /\ w.ifs \in Nat
  /\ w.since \in Int /\ w.lastSend \in Int
  /\ w.defer \in Timer /\ w.recv \in Timer /\ w.cts \in Timer /\ w.ack \in Timer
  /\ w.navTimer \in Timer /\ w.netAck \in Timer /\ w.phy \in Timer
  /\ w.busy \in BOOLEAN /\ w.pld \in Payloads /\ w.queue \in Seq(Payloads)
  /\ \A f \in w.air : WellFormed(f)

Unfailed(w) == w.assertFailed = FALSE /\ w.overlap = FALSE /\ w.refused = FALSE

\* What the air holds for the station, and what waits for SIFS to pass: until
\* it is sent, lastSend lies ahead.
OnAir(w) ==
  /\ w.recv # Off => WellFormed(w.rx)
  /\ w.phy # Off => /\ WellFormed(w.phyFrame)
                    /\ w.lastSend = w.phy + TxTime(w.phyFrame.type)

Core(w) == Typed(w) /\ Unfailed(w) /\ OnAir(w)

\* Who waits for an answer has a timer for it, and nobody else.
Waits(w) == /\ w.cts # Off <=> w.state = "CTS"
            /\ w.ack # Off <=> w.state = "ACK"

\* A deferral ends no earlier than the station's own last frame and the
\* reservation, and the back-off left is what its timer has beyond the space.
Deferral(w) ==
  /\ w.state # "DEFER" => w.defer = Off
  /\ w.defer # Off => /\ w.defer + w.since \in {w.ifs, w.ifs + w.backoff}
                      /\ w.lastSend <= w.defer
                      /\ w.nav <= w.defer

\* The queue and the MAC agree on who has a packet.
Service(w) ==
  /\ w.netAck # Off => w.state = "IDLE"
  /\ w.busy = TRUE <=> (w.state # "IDLE" \/ w.netAck # Off)
  /\ w.busy = FALSE => w.queue = <<>>

Sound(w) == Core(w) /\ Waits(w) /\ Deferral(w) /\ Service(w)

\* The deferral timer is set unless a frame is coming in.
Rules(w) == Sound(w) /\ (w.state = "DEFER" => (w.defer = Off <=> w.recv # Off))

Owed(w) == (IF w.busy = TRUE THEN <<w.pld>> ELSE <<>>) \o w.queue

Firsts(t) == [i \in DOMAIN t |-> t[i][1]]

MacInv ==
  /\ DOMAIN mac = Stations
  /\ \A s \in Stations : Rules(mac[s]) /\ mac[s].air = {} /\ mac[s].answers = <<>>
  /\ \A x \in arriving : x[1] \in Stations /\ WellFormed(x[2])
  /\ told \in [Stations -> Seq(Payloads \X BOOLEAN)]
  /\ offered \in [Stations -> Nat]
  /\ \A s \in Stations : /\ offered[s] \in 0 .. Len(Traffic[s])
                         /\ Firsts(told[s]) \o Owed(mac[s]) = SubSeq(Traffic[s], 1, offered[s])

-----------------------------------------------------------------------------
(* Times *)

\* The times are natural numbers, and a frame takes some time.
LEMMA TimesType ==
  /\ SIFS \in Nat /\ Slot \in Nat /\ DIFS \in Nat /\ EIFS \in Nat /\ Off = -1
  /\ ControlTime \in Nat /\ DataTime \in Nat /\ CWMin \in Nat
  /\ \A t : TxTime(t) \in Nat /\ TxTime(t) > 0
BY TimesAssumption DEF DIFS, EIFS, Off, TxTime

\* Back-offs are natural numbers.
LEMMA BackoffsType == \A cw \in Int : Backoffs(cw) \subseteq Nat
<1>1. \A k \in Nat : Slot * k \in Nat
  BY TimesAssumption
<1> QED BY <1>1 DEF Backoffs

\* So are the windows that a retry leaves behind.
LEMMA WiderType == /\ \A cw \in Nat : Wider(cw) \in Nat
                   /\ Wider(CWMax - 1) \in Int
BY TimesAssumption DEF Wider

\* The deferral counts from the later of the two.
LEMMA DeferFromType ==
  ASSUME NEW w, w.lastSend \in Int, w.nav \in Nat
  PROVE  /\ DeferFrom(w) \in Nat
         /\ w.lastSend <= DeferFrom(w)
         /\ w.nav <= DeferFrom(w)
BY DEF DeferFrom, MaxOf

\* Both spaces between frames are natural numbers.
LEMMA IFSType == \A w : IFS(w) \in Nat
BY TimesType DEF IFS

-----------------------------------------------------------------------------
(* Deferral *)

\* Two states of a station that agree in all but some fields.
Same(w, v, fields) == /\ DOMAIN w = Fields /\ DOMAIN v = Fields
                      /\ \A x \in Fields \ fields : v[x] = w[x]

\* What the queue and the air have of a station.
Kept(w, v) ==
  /\ v.busy = w.busy /\ v.pld = w.pld /\ v.queue = w.queue
  /\ v.answers = w.answers /\ v.air = w.air

\* A station that has a packet and no timer for it.
Free(w) == /\ Core(w)
           /\ w.defer = Off /\ w.cts = Off /\ w.ack = Off /\ w.netAck = Off
           /\ w.busy = TRUE

\* StartDefer puts such a station into a deferral.
LEMMA StartDeferRules ==
  ASSUME NEW w, Free(w), w.state # "DEFER", NEW backoff \in BOOLEAN, NEW b \in Nat
  PROVE  /\ Rules(StartDefer(w, backoff, b))
         /\ Kept(w, StartDefer(w, backoff, b))
         /\ StartDefer(w, backoff, b).state = "DEFER"
<1>1. PICK v : v = StartDefer(w, backoff, b)
  OBVIOUS
<1>2. /\ DOMAIN w = Fields /\ w.lastSend \in Int /\ w.nav \in Nat /\ w.assertFailed = FALSE
      /\ w.defer = Off
  BY DEF Free, Core, Typed, Unfailed
<1>3. PICK from \in Nat : from = DeferFrom(w) /\ w.lastSend <= from /\ w.nav <= from
  BY <1>2, DeferFromType
<1>4. PICK ifs \in Nat : ifs = IFS(w)
  BY IFSType
<1>5. PICK left \in {0, b} : left = IF backoff THEN b ELSE 0
  OBVIOUS
<1>6. /\ DOMAIN v = Fields /\ v.state = "DEFER" /\ v.backoff = b
      /\ v.assertFailed = FALSE
  BY <1>1, <1>2 DEF StartDefer, Asserted, Fields
<1>7. w.recv = Off => v.ifs = ifs /\ v.since = -from /\ v.defer = from + ifs + left
  BY <1>1, <1>2, <1>3, <1>4, <1>5 DEF StartDefer, Asserted, Fields
<1>8. w.recv # Off => v.ifs = w.ifs /\ v.since = w.since /\ v.defer = Off
  BY <1>1, <1>2 DEF StartDefer, Asserted, Fields
<1>9. Same(w, v, {"state", "backoff", "ifs", "since", "defer", "assertFailed"})
  BY <1>1, <1>2 DEF StartDefer, Asserted, Fields, Same
<1>10. Kept(w, v) /\ v.recv = w.recv /\ v.lastSend = w.lastSend /\ v.nav = w.nav
  BY <1>9 DEF Same, Kept, Fields
<1>11. v.ifs \in Nat /\ v.since \in Int /\ v.defer \in Timer
  <2>1. w.ifs \in Nat /\ w.since \in Int
    BY DEF Free, Core, Typed
  <2>2. CASE w.recv = Off
    BY <1>3, <1>4, <1>5, <1>7, <2>2 DEF Timer
  <2>3. CASE w.recv # Off
    BY <1>8, <2>1, <2>3 DEF Timer
  <2> QED BY <2>2, <2>3
<1>12. Typed(v)
  BY <1>6, <1>9, <1>11 DEF Same, Fields, Free, Core, Typed
<1>13. Core(v)
  BY <1>6, <1>9, <1>12 DEF Same, Fields, Free, Core, Unfailed, OnAir
<1>14. v.defer # Off => v.defer + v.since \in {v.ifs, v.ifs + v.backoff}
  BY <1>3, <1>4, <1>5, <1>6, <1>7, <1>8
<1>15. v.defer # Off => v.lastSend <= v.defer /\ v.nav <= v.defer
  BY <1>2, <1>3, <1>4, <1>5, <1>7, <1>8, <1>10
<1>16. v.defer = Off <=> v.recv # Off
  BY <1>3, <1>4, <1>5, <1>7, <1>8, <1>10 DEF Off
<1>17. Deferral(v) /\ Waits(v) /\ Service(v)
  BY <1>6, <1>9, <1>14, <1>15 DEF Same, Fields, Deferral, Waits, Service, Free
<1> QED BY <1>1, <1>6, <1>10, <1>13, <1>16, <1>17 DEF Rules, Sound

\* ResumeDefer sets the timer of a deferral again.
LEMMA ResumeDeferRules ==
  ASSUME NEW w, Sound(w), w.defer = Off, w.recv = Off
  PROVE  /\ Rules(ResumeDefer(w))
         /\ Kept(w, ResumeDefer(w))
         /\ ResumeDefer(w).state = w.state
         /\ ResumeDefer(w).recv = Off
<1>1. CASE w.state # "DEFER"
  BY <1>1 DEF ResumeDefer, Rules, Kept
<1>2. CASE w.state = "DEFER"
  <2>1. PICK v : v = ResumeDefer(w)
    OBVIOUS
  <2>2. /\ DOMAIN w = Fields /\ w.lastSend \in Int /\ w.nav \in Nat /\ w.backoff \in Nat
        /\ w.assertFailed = FALSE
    BY DEF Sound, Core, Typed, Unfailed
  <2>3. PICK from \in Nat : from = DeferFrom(w) /\ w.lastSend <= from /\ w.nav <= from
    BY <2>2, DeferFromType
  <2>4. PICK ifs \in Nat : ifs = IFS(w)
    BY IFSType
  <2>5. /\ DOMAIN v = Fields /\ v.assertFailed = FALSE
        /\ v.ifs = ifs /\ v.since = -from /\ v.defer = from + ifs + w.backoff
    BY <1>2, <2>1, <2>2, <2>3, <2>4 DEF ResumeDefer, Asserted, Fields
  <2>6. Same(w, v, {"ifs", "since", "defer", "assertFailed"})
    BY <1>2, <2>1, <2>2 DEF ResumeDefer, Asserted, Fields, Same
  <2>7. /\ Kept(w, v) /\ v.recv = w.recv /\ v.lastSend = w.lastSend /\ v.nav = w.nav
        /\ v.state = w.state /\ v.backoff = w.backoff
    BY <2>6 DEF Same, Kept, Fields
  <2>8. v.ifs \in Nat /\ v.since \in Int /\ v.defer \in Nat /\ v.defer \in Timer
    BY <2>2, <2>3, <2>4, <2>5 DEF Timer
  <2>9. Typed(v)
    BY <2>5, <2>6, <2>8 DEF Same, Fields, Sound, Core, Typed
  <2>10. Core(v)
    BY <2>5, <2>6, <2>9 DEF Same, Fields, Sound, Core, Unfailed, OnAir
  <2>11. v.defer + v.since \in {v.ifs, v.ifs + v.backoff}
    BY <2>2, <2>3, <2>4, <2>5, <2>7
  <2>12. v.lastSend <= v.defer /\ v.nav <= v.defer /\ v.defer # Off
    BY <2>2, <2>3, <2>4, <2>5, <2>7 DEF Off
  <2>13. Waits(v) /\ Service(v)
    BY <2>6 DEF Same, Fields, Waits, Service, Sound
  <2>14. Deferral(v)
    BY <1>2, <2>7, <2>11, <2>12 DEF Deferral
  <2> QED BY <1>2, <2>1, <2>7, <2>10, <2>12, <2>13, <2>14 DEF Rules, Sound
<1> QED BY <1>1, <1>2

-----------------------------------------------------------------------------
(* The queue *)

\* The next packet is in the MAC, or none is left.
Turned(w, v) ==
  /\ v.answers = w.answers /\ v.air = w.air
  /\ Owed(v) = w.queue

\* A MAC that is idle takes a packet.
LEMMA FromNetworkRules ==
  ASSUME NEW w, Free(w), w.state = "IDLE", NEW p \in Payloads, NEW b \in Nat
  PROVE  /\ Rules(FromNetwork(w, p, b))
         /\ FromNetwork(w, p, b).busy = TRUE
         /\ FromNetwork(w, p, b).pld = p
         /\ FromNetwork(w, p, b).queue = w.queue
         /\ FromNetwork(w, p, b).answers = w.answers
         /\ FromNetwork(w, p, b).air = w.air
<1>1. PICK short : short = (~p.long \/ p.dst = Broadcast)
  OBVIOUS
<1>2. PICK v : v = [w EXCEPT !.long = ~short, !.pld = p, !.seq = @ + 1,
                             !.ssrc = IF short THEN 0 ELSE @,
                             !.slrc = IF short THEN @ ELSE 0]
  OBVIOUS
<1>3. FromNetwork(w, p, b) = StartDefer(v, FALSE, b)
  BY <1>1, <1>2 DEF FromNetwork
<1>4. DOMAIN w = Fields
  BY DEF Free, Core, Typed
<1>5. v.pld = p /\ Same(w, v, {"long", "pld", "seq", "ssrc", "slrc"})
  BY <1>2, <1>4 DEF Same, Fields
<1>6. Core(v)
  BY <1>5 DEF Same, Fields, Free, Core, Typed, Unfailed, OnAir
<1>7. Free(v) /\ v.state # "DEFER"
  BY <1>5, <1>6 DEF Same, Fields, Free
<1>8. Rules(StartDefer(v, FALSE, b)) /\ Kept(v, StartDefer(v, FALSE, b))
  BY <1>7, StartDeferRules
<1> QED BY <1>3, <1>5, <1>7, <1>8 DEF Kept, Same, Fields, Free

\* A queue that is not empty is its first packet and the others.
LEMMA OneAndRest == ASSUME NEW S, NEW q \in Seq(S), q # <<>>
                    PROVE  /\ Head(q) \in S /\ Tail(q) \in Seq(S)
                           /\ <<Head(q)>> \o Tail(q) = q
<1>1. Len(q) \in Nat \ {0}
  BY EmptySeq
<1>2. SubSeq(q, 1, Len(q)) = <<q[1]>> \o SubSeq(q, 2, Len(q))
  BY <1>1, SubSeqRecursiveFirst
<1>3. SubSeq(q, 1, Len(q)) = q /\ Tail(q) = SubSeq(q, 2, Len(q))
  BY SubSeqFull, TailIsSubSeq
<1>4. Head(q) = q[1]
  OBVIOUS
<1> QED BY <1>2, <1>3, <1>4, HeadTailProperties

\* next() of the queue: the answer to the packet in the MAC brings the next.
LEMMA QueueNextRules ==
  ASSUME NEW w, Free(w), w.state = "IDLE", NEW b \in Nat
  PROVE  Rules(QueueNext(w, b)) /\ Turned(w, QueueNext(w, b))
<1>1. /\ DOMAIN w = Fields /\ w.queue \in Seq(Payloads) /\ w.busy = TRUE
  BY DEF Free, Core, Typed
<1>2. CASE w.queue # <<>>
  <2>1. PICK v : v = [w EXCEPT !.queue = Tail(@)]
    OBVIOUS
  <2>2. /\ Head(w.queue) \in Payloads /\ Tail(w.queue) \in Seq(Payloads)
        /\ <<Head(w.queue)>> \o Tail(w.queue) = w.queue
    BY <1>1, <1>2, OneAndRest
  <2>3. v.queue = Tail(w.queue) /\ Same(w, v, {"queue"})
    BY <1>1, <2>1 DEF Same, Fields
  <2>4. Free(v) /\ v.state = "IDLE"
    <3>1. Typed(v)
      BY <2>2, <2>3 DEF Same, Fields, Free, Core, Typed
    <3>2. Unfailed(v) /\ OnAir(v)
      BY <2>3 DEF Same, Fields, Free, Core, Unfailed, OnAir
    <3> QED BY <2>3, <3>1, <3>2 DEF Same, Fields, Free, Core
  <2>5. PICK u : u = FromNetwork(v, Head(w.queue), b)
    OBVIOUS
  <2>6. /\ Rules(u) /\ u.busy = TRUE /\ u.pld = Head(w.queue) /\ u.queue = v.queue
        /\ u.answers = v.answers /\ u.air = v.air
    BY <2>2, <2>4, <2>5, FromNetworkRules
  <2>7. Owed(u) = w.queue
    BY <2>2, <2>3, <2>6 DEF Owed
  <2>8. u = QueueNext(w, b)
    BY <1>2, <2>1, <2>5 DEF QueueNext
  <2> QED BY <2>3, <2>6, <2>7, <2>8 DEF Same, Fields, Turned
<1>3. CASE w.queue = <<>>
  <2>1. PICK v : v = [w EXCEPT !.busy = FALSE]
    OBVIOUS
  <2>2. v.busy = FALSE /\ Same(w, v, {"busy"})
    BY <1>1, <2>1 DEF Same, Fields
  <2>3. Core(v)
    <3>1. Typed(v)
      BY <2>2 DEF Same, Fields, Free, Core, Typed
    <3>2. Unfailed(v) /\ OnAir(v)
      BY <2>2 DEF Same, Fields, Free, Core, Unfailed, OnAir
    <3> QED BY <3>1, <3>2 DEF Core
  <2>4. Waits(v) /\ Deferral(v) /\ Service(v)
    BY <1>3, <2>2 DEF Same, Fields, Free, Waits, Deferral, Service
  <2>5. <<>> \o w.queue = w.queue
    BY <1>1, ConcatEmptySeq
  <2>6. Owed(v) = w.queue
    BY <2>2, <2>5 DEF Same, Fields, Owed
  <2>7. v = QueueNext(w, b)
    BY <1>3, <2>1 DEF QueueNext
  <2> QED BY <2>2, <2>3, <2>4, <2>6, <2>7 DEF Same, Fields, Free, Rules, Sound, Turned
<1> QED BY <1>2, <1>3

\* What a step of a station tells its network layer: nothing, or how the
\* packet in the MAC went.
Tells(w, v) ==
  \/ v.answers = <<>> /\ Owed(v) = Owed(w)
  \/ /\ \E ok \in BOOLEAN : v.answers = << <<w.pld, ok>> >>
     /\ w.busy = TRUE
     /\ Owed(v) = w.queue

\* The answer to the packet in the MAC leaves what the queue holds as owed.
LEMMA ToNetworkAckRules ==
  ASSUME NEW w, Free(w), w.state = "IDLE", w.answers = <<>>, NEW b \in Nat,
         NEW ok \in BOOLEAN
  PROVE  /\ Rules(ToNetworkAck(w, ok, b))
         /\ ToNetworkAck(w, ok, b).answers = << <<w.pld, ok>> >>
         /\ ToNetworkAck(w, ok, b).air = w.air
         /\ Owed(ToNetworkAck(w, ok, b)) = w.queue
<1>1. PICK v : v = [w EXCEPT !.answers = Append(@, <<w.pld, ok>>)]
  OBVIOUS
<1>2. DOMAIN w = Fields
  BY DEF Free, Core, Typed
<1>3. Append(<<>>, <<w.pld, ok>>) = << <<w.pld, ok>> >>
  OBVIOUS
<1>4. v.answers = << <<w.pld, ok>> >> /\ Same(w, v, {"answers"})
  BY <1>1, <1>2, <1>3 DEF Same, Fields
<1>5. Free(v) /\ v.state = "IDLE"
  BY <1>4 DEF Same, Fields, Free, Core, Typed, Unfailed, OnAir
<1>6. Rules(QueueNext(v, b)) /\ Turned(v, QueueNext(v, b))
  BY <1>5, QueueNextRules
<1>7. QueueNext(v, b) = ToNetworkAck(w, ok, b)
  BY <1>1 DEF ToNetworkAck
<1> QED BY <1>4, <1>6, <1>7 DEF Same, Fields, Turned

\* in() of the queue: what is owed grows by the packet.
LEMMA QueueInRules ==
  ASSUME NEW w, Rules(w), NEW p \in Payloads, NEW b \in Nat
  PROVE  /\ Rules(QueueIn(w, p, b))
         /\ QueueIn(w, p, b).answers = w.answers
         /\ QueueIn(w, p, b).air = w.air
         /\ Owed(QueueIn(w, p, b)) = Owed(w) \o <<p>>
         /\ w.state = "DEFER" => QueueIn(w, p, b).state = "DEFER"
<1>1. /\ DOMAIN w = Fields /\ w.queue \in Seq(Payloads) /\ w.pld \in Payloads
      /\ w.busy \in BOOLEAN
  BY DEF Rules, Sound, Core, Typed
<1>2. CASE w.busy = TRUE
  <2>1. PICK v : v = [w EXCEPT !.queue = Append(@, p)]
    OBVIOUS
  <2>2. v.queue = Append(w.queue, p) /\ Same(w, v, {"queue"})
    BY <1>1, <2>1 DEF Same, Fields
  <2>3. /\ <<w.pld>> \in Seq(Payloads) /\ <<p>> \in Seq(Payloads)
        /\ v.queue \in Seq(Payloads)
    BY <1>1, <2>2
  <2>4. v.queue = w.queue \o <<p>>
    BY <1>1, <2>2, AppendIsConcat
  <2>5. (<<w.pld>> \o w.queue) \o <<p>> = <<w.pld>> \o (w.queue \o <<p>>)
    <3>1. \A s, t, u \in Seq(Payloads) : (s \o t) \o u = s \o (t \o u)
      BY ConcatAssociative
    <3>2. PICK s, u \in Seq(Payloads) : s = <<w.pld>> /\ u = <<p>>
      BY <2>3
    <3>3. (s \o w.queue) \o u = s \o (w.queue \o u)
      BY <1>1, <3>1
    <3> QED BY <3>2, <3>3
  <2>6. Owed(v) = Owed(w) \o <<p>>
    BY <1>2, <2>2, <2>4, <2>5 DEF Same, Fields, Owed
  <2>7. Typed(v)
    BY <2>2, <2>3 DEF Same, Fields, Rules, Sound, Core, Typed
  <2>8. Unfailed(v) /\ OnAir(v)
    BY <2>2 DEF Same, Fields, Rules, Sound, Core, Unfailed, OnAir
  <2>9. Waits(v) /\ Deferral(v) /\ Service(v)
    BY <1>2, <2>2 DEF Same, Fields, Rules, Sound, Waits, Deferral, Service
  <2>10. Rules(v)
    BY <2>2, <2>7, <2>8, <2>9 DEF Same, Fields, Rules, Sound, Core
  <2>11. v = QueueIn(w, p, b)
    BY <1>2, <2>1 DEF QueueIn
  <2> QED BY <2>2, <2>6, <2>10, <2>11 DEF Same, Fields
<1>3. CASE w.busy # TRUE
  <2>1. PICK v : v = [w EXCEPT !.busy = TRUE]
    OBVIOUS
  <2>2. v.busy = TRUE /\ Same(w, v, {"busy"})
    BY <1>1, <2>1 DEF Same, Fields
  <2>3. /\ w.state = "IDLE" /\ w.netAck = Off /\ w.queue = <<>>
        /\ w.cts = Off /\ w.ack = Off /\ w.defer = Off
    BY <1>1, <1>3 DEF Rules, Sound, Core, Typed, Service, Waits, Deferral
  <2>4. Typed(v)
    BY <2>2 DEF Same, Fields, Rules, Sound, Core, Typed
  <2>5. Unfailed(v) /\ OnAir(v)
    BY <2>2 DEF Same, Fields, Rules, Sound, Core, Unfailed, OnAir
  <2>6. Free(v) /\ v.state = "IDLE"
    BY <2>2, <2>3, <2>4, <2>5 DEF Same, Fields, Free, Core
  <2>7. PICK u : u = FromNetwork(v, p, b)
    OBVIOUS
  <2>8. /\ Rules(u) /\ u.busy = TRUE /\ u.pld = p /\ u.queue = v.queue
        /\ u.answers = v.answers /\ u.air = v.air
    BY <2>6, <2>7, FromNetworkRules
  <2>9. u = QueueIn(w, p, b)
    BY <1>3, <2>1, <2>7 DEF QueueIn
  <2>10. v.queue = <<>> /\ v.answers = w.answers /\ v.air = w.air
    BY <2>2, <2>3 DEF Same, Fields
  <2>11. Owed(w) = <<>> \o <<>> /\ Owed(u) = <<p>> \o <<>>
    BY <1>3, <2>3, <2>8, <2>10 DEF Owed
  <2>12. /\ <<p>> \in Seq(Payloads) /\ <<>> \in Seq(Payloads)
    OBVIOUS
  <2>13. <<>> \o <<>> = <<>> /\ <<p>> \o <<>> = <<p>> /\ <<>> \o <<p>> = <<p>>
    BY <2>12, ConcatEmptySeq
  <2> QED BY <2>3, <2>8, <2>9, <2>10, <2>11, <2>13
<1> QED BY <1>2, <1>3

-----------------------------------------------------------------------------
(* Frames *)

\* What the rules do not look at.
Aside == {"ssrc", "slrc", "session", "peer", "rxError", "txFailed", "long", "seq",
          "cache", "up"}

\* A change of such fields keeps the rules.
LEMMA AsideSound ==
  ASSUME NEW w, NEW v, Same(w, v, Aside)
  PROVE  /\ Sound(w) => Sound(v)
         /\ Rules(w) => Rules(v)
         /\ Kept(w, v) /\ v.state = w.state /\ v.recv = w.recv /\ v.defer = w.defer
         /\ v.lastSend = w.lastSend
<1>1. Typed(w) => Typed(v)
  BY DEF Same, Aside, Fields, Typed
<1>2. Unfailed(w) => Unfailed(v)
  BY DEF Same, Aside, Fields, Unfailed
<1>3. OnAir(w) => OnAir(v)
  BY DEF Same, Aside, Fields, OnAir
<1>4. (Waits(w) => Waits(v)) /\ (Deferral(w) => Deferral(v)) /\ (Service(w) => Service(v))
  BY DEF Same, Aside, Fields, Waits, Deferral, Service
<1>5. /\ Kept(w, v) /\ v.state = w.state /\ v.recv = w.recv /\ v.defer = w.defer
      /\ v.lastSend = w.lastSend
  BY DEF Same, Aside, Fields, Kept
<1> QED BY <1>1, <1>2, <1>3, <1>4, <1>5 DEF Rules, Sound, Core

\* The station w answers with g when SIFS has passed, and else changes but the
\* fields given.
Replied(w, v, g, fields) ==
  /\ v.lastSend = SIFS + TxTime(g.type) /\ v.phy = SIFS /\ v.phyFrame = g
  /\ Same(w, v, {"lastSend", "phy", "phyFrame", "assertFailed"} \union fields)

\* A frame that is answered comes from a station that has been silent, and
\* that has nothing to send for now.
LEMMA TxAfterSifsRules ==
  ASSUME NEW w, Sound(w), w.defer = Off, w.recv = Off, w.lastSend < 0,
         NEW f, WellFormed(f)
  PROVE  /\ Sound(TxAfterSifs(w, f))
         /\ Replied(w, TxAfterSifs(w, f), f, {})
         /\ Same(w, TxAfterSifs(w, f), {"lastSend", "phy", "phyFrame", "assertFailed"})
<1>1. PICK v : v = TxAfterSifs(w, f)
  OBVIOUS
<1>2. DOMAIN w = Fields /\ w.lastSend \in Int /\ w.phy \in Timer /\ w.assertFailed = FALSE
  BY DEF Sound, Core, Typed, Unfailed
<1>3. w.phy = Off
  <2>1. SUFFICES ASSUME w.phy # Off PROVE FALSE
    OBVIOUS
  <2>2. PICK t : t = TxTime(w.phyFrame.type)
    OBVIOUS
  <2>3. t \in Nat /\ t > 0 /\ w.phy \in Nat /\ w.lastSend = w.phy + t
    BY <1>2, <2>1, <2>2, TimesType DEF Sound, Core, OnAir, Timer
  <2> QED BY <1>2, <2>3
<1>4. PICK t \in Nat : t = TxTime(f.type)
  BY TimesType
<1>5. ~(SIFS < w.lastSend)
  BY <1>2, TimesType
<1>6. /\ v.assertFailed = FALSE
      /\ v.lastSend = SIFS + t /\ v.phy = SIFS /\ v.phyFrame = f
      /\ Same(w, v, {"lastSend", "phy", "phyFrame", "assertFailed"})
  BY <1>1, <1>2, <1>3, <1>4, <1>5 DEF TxAfterSifs, Asserted, Same, Fields
<1>7. Typed(v)
  <2>1. v.phy \in Timer /\ v.lastSend \in Int
    BY <1>4, <1>6, TimesType DEF Timer
  <2> QED BY <1>6, <2>1 DEF Same, Fields, Sound, Core, Typed
<1>8. Unfailed(v) /\ OnAir(v)
  BY <1>4, <1>6 DEF Same, Fields, Sound, Core, Unfailed, OnAir
<1>9. Waits(v) /\ Deferral(v) /\ Service(v)
  BY <1>6 DEF Same, Fields, Sound, Waits, Deferral, Service
<1>10. Replied(w, v, f, {})
  BY <1>4, <1>6 DEF Replied, Same
<1> QED BY <1>1, <1>6, <1>7, <1>8, <1>9, <1>10 DEF Sound, Core

-----------------------------------------------------------------------------
(* The end of a frame *)

\* From a station w to v within a step that answers nothing.
Onward(w, v) == Sound(v) /\ Kept(w, v) /\ v.state = w.state /\ v.recv = Off /\ v.defer = Off

\* What a step that is left with v does to a station w.
Done(w, v) == /\ Rules(v) /\ Tells(w, v) /\ v.air = w.air
              /\ w.state = "DEFER" => v.state = "DEFER"

\* A step that keeps packet, queue and answers tells nothing.
LEMMA KeptTells ==
  ASSUME NEW w, NEW v, Kept(w, v), w.answers = <<>>
  PROVE  Tells(w, v)
BY DEF Kept, Tells, Owed

\* Two such steps, one after the other.
LEMMA OnwardThen ==
  ASSUME NEW w, NEW u, NEW v, Onward(w, u), Onward(u, v)
  PROVE  Onward(w, v)
BY DEF Onward, Kept

\* The end of most ways through RecvTimer.
LEMMA ResumeDone ==
  ASSUME NEW w, NEW v, Onward(w, v), w.answers = <<>>
  PROVE  Done(w, ResumeDefer(v))
<1>1. PICK u : u = ResumeDefer(v)
  OBVIOUS
<1>2. Rules(u) /\ Kept(v, u) /\ u.state = v.state
  BY <1>1, ResumeDeferRules DEF Onward
<1>3. Kept(w, u) /\ u.state = w.state
  BY <1>2 DEF Onward, Kept
<1> QED BY <1>1, <1>2, <1>3, KeptTells DEF Done, Kept

\* An RTS is answered by an idle or deferring station, which goes on as before.
LEMMA RecvRTSOnward ==
  ASSUME NEW w, Onward(w, w), w.lastSend < 0, NEW f, WellFormed(f), NEW me
  PROVE  /\ Onward(w, RecvRTS(w, f, me))
         /\ \/ RecvRTS(w, f, me) = w
            \/ \E g : /\ g.type = "CTS" /\ g.src = me /\ g.dst = f.src
                      /\ Replied(w, RecvRTS(w, f, me), g, {"session", "peer", "navTimer"})
<1>1. CASE w.state \notin {"IDLE", "DEFER"} \/ w.navTimer # Off
  BY <1>1 DEF RecvRTS
<1>2. CASE ~(w.state \notin {"IDLE", "DEFER"} \/ w.navTimer # Off)
  <2>1. PICK cts : cts = Frame("CTS", me, f.src, f.dur - (SIFS + ControlTime), w)
    OBVIOUS
  <2>2. WellFormed(cts)
    BY <2>1, TimesType DEF Frame, WellFormed
  <2>3. PICK u : u = TxAfterSifs(w, cts)
    OBVIOUS
  <2>4. /\ Sound(u) /\ Same(w, u, {"lastSend", "phy", "phyFrame", "assertFailed"})
        /\ Replied(w, u, cts, {})
    BY <2>2, <2>3, TxAfterSifsRules DEF Onward
  <2>5. PICK v : v = [Asserted(u, w.nav >= 0) EXCEPT
                        !.session = TRUE, !.peer = f.src, !.navTimer = w.nav]
    OBVIOUS
  <2>6. w.nav \in Nat /\ u.assertFailed = FALSE /\ DOMAIN u = Fields
    BY <2>4 DEF Onward, Sound, Core, Typed, Unfailed
  <2>7. v.navTimer = w.nav /\ v.assertFailed = FALSE
        /\ Same(u, v, {"session", "peer", "navTimer", "assertFailed"})
    <3>1. PICK a : a = Asserted(u, TRUE)
      OBVIOUS
    <3>2. a.assertFailed = FALSE /\ Same(u, a, {"assertFailed"})
      BY <2>6, <3>1 DEF Asserted, Same, Fields
    <3>3. (w.nav >= 0) = TRUE
      BY <2>6
    <3>4. v = [a EXCEPT !.session = TRUE, !.peer = f.src, !.navTimer = w.nav]
      BY <2>5, <3>1, <3>3
    <3> QED BY <3>2, <3>4 DEF Same, Fields
  <2>8. Typed(v)
    BY <2>4, <2>6, <2>7 DEF Same, Fields, Sound, Core, Typed, Timer
  <2>9. Unfailed(v) /\ OnAir(v)
    BY <2>4, <2>7 DEF Same, Fields, Sound, Core, Unfailed, OnAir
  <2>10. Waits(v) /\ Deferral(v) /\ Service(v)
    BY <2>4, <2>7 DEF Same, Fields, Sound, Waits, Deferral, Service
  <2>11. Kept(w, v) /\ v.state = w.state /\ v.recv = Off /\ v.defer = Off
    BY <2>4, <2>7 DEF Same, Fields, Kept, Onward
  <2>12. v = RecvRTS(w, f, me)
    BY <1>2, <2>1, <2>3, <2>5 DEF RecvRTS
  <2>13. Replied(w, v, cts, {"session", "peer", "navTimer"})
    BY <2>4, <2>7 DEF Replied, Same, Fields
  <2>14. cts.type = "CTS" /\ cts.src = me /\ cts.dst = f.src
    BY <2>1 DEF Frame
  <2> QED BY <2>8, <2>9, <2>10, <2>11, <2>12, <2>13, <2>14 DEF Onward, Sound, Core
<1> QED BY <1>1, <1>2

\* A CTS moves on a station that waits for it, and no other.
MovedOn(w, v, f, me) ==
  /\ v.state = "ACK" /\ v.ack = 2 * SIFS + ControlTime + DataTime + DIFS
  /\ \E g : /\ g.type = "DATA" /\ g.src = me /\ g.dst = f.src
            /\ g.seq = w.seq /\ g.pld = w.pld
            /\ Replied(w, v, g, {"state", "ack", "cts"})

\* It sends the data then, and waits for the ACK.
LEMMA RecvCTSDone ==
  ASSUME NEW w, Onward(w, w), w.answers = <<>>, w.lastSend < 0, NEW f, WellFormed(f), NEW me
  PROVE  /\ Done(w, ResumeDefer(RecvCTS(w, f, me)))
         /\ \/ RecvCTS(w, f, me) = w
            \/ /\ w.state = "CTS"
               /\ MovedOn(w, ResumeDefer(RecvCTS(w, f, me)), f, me)
<1>1. CASE w.state # "CTS"
  <2>1. RecvCTS(w, f, me) = w
    BY <1>1 DEF RecvCTS
  <2> QED BY <2>1, ResumeDone
<1>2. CASE w.state = "CTS"
  <2>1. PICK dur \in Nat : dur = 2 * SIFS + ControlTime + DataTime
    BY TimesType
  <2>2. PICK u : u = [w EXCEPT !.state = "ACK", !.ack = dur + DIFS, !.cts = Off]
    OBVIOUS
  <2>3. DOMAIN w = Fields
    BY DEF Onward, Sound, Core, Typed
  <2>4. /\ u.state = "ACK" /\ u.ack = dur + DIFS /\ u.cts = Off
        /\ Same(w, u, {"state", "ack", "cts"})
    BY <2>2, <2>3 DEF Same, Fields
  <2>5. u.ack \in Nat /\ u.ack # Off
    BY <2>1, <2>4, TimesType
  <2>6. Typed(u)
    BY <2>4, <2>5 DEF Same, Fields, Onward, Sound, Core, Typed, Timer
  <2>7. Unfailed(u) /\ OnAir(u)
    BY <2>4 DEF Same, Fields, Onward, Sound, Core, Unfailed, OnAir
  <2>8. Waits(u) /\ Deferral(u) /\ Service(u)
    BY <1>2, <2>4, <2>5 DEF Same, Fields, Onward, Sound, Waits, Deferral, Service
  <2>9. Sound(u) /\ u.defer = Off /\ u.recv = Off /\ u.lastSend < 0 /\ Kept(w, u)
    BY <2>4, <2>6, <2>7, <2>8 DEF Same, Fields, Onward, Sound, Core, Kept
  <2>10. PICK data : data = Frame("DATA", me, f.src, dur, u)
    OBVIOUS
  <2>11. WellFormed(data)
    BY <2>1, <2>10 DEF Frame, WellFormed
  <2>12. PICK v : v = TxAfterSifs(u, data)
    OBVIOUS
  <2>13. /\ Sound(v) /\ Same(u, v, {"lastSend", "phy", "phyFrame", "assertFailed"})
         /\ Replied(u, v, data, {})
    BY <2>9, <2>11, <2>12, TxAfterSifsRules
  <2>14. Frame("DATA", me, f.src, dur, w) = data
    BY <2>4, <2>10 DEF Frame, Same, Fields
  <2>15. v = RecvCTS(w, f, me)
    BY <1>2, <2>1, <2>2, <2>12, <2>14 DEF RecvCTS
  <2>16. v.state = "ACK" /\ Kept(w, v)
    BY <2>4, <2>9, <2>13 DEF Same, Fields, Kept
  <2>17. Rules(v) /\ ResumeDefer(v) = v
    BY <2>13, <2>16 DEF Rules, ResumeDefer
  <2>18. Tells(w, v)
    BY <2>16, KeptTells
  <2>19. Replied(w, v, data, {"state", "ack", "cts"})
    BY <2>4, <2>13 DEF Replied, Same, Fields
  <2>20. /\ data.type = "DATA" /\ data.src = me /\ data.dst = f.src
         /\ data.seq = w.seq /\ data.pld = w.pld
    BY <2>14 DEF Frame
  <2>21. v.ack = 2 * SIFS + ControlTime + DataTime + DIFS
    BY <2>1, <2>4, <2>13 DEF Same, Fields
  <2>22. MovedOn(w, v, f, me)
    BY <2>16, <2>19, <2>20, <2>21 DEF MovedOn
  <2> QED BY <1>2, <2>15, <2>16, <2>17, <2>18, <2>22 DEF Done, Kept
<1> QED BY <1>1, <1>2

\* An acknowledgement ends the wait for one.
LEMMA RecvACKDone ==
  ASSUME NEW w, Onward(w, w), w.answers = <<>>, NEW b \in Nat
  PROVE  Done(w, RecvACK(ResumeDefer(w), b))
<1>1. PICK u : u = ResumeDefer(w)
  OBVIOUS
<1>2. Rules(u) /\ Kept(w, u) /\ u.state = w.state
  BY <1>1, ResumeDeferRules DEF Onward
<1>3. CASE w.state # "ACK"
  BY <1>1, <1>2, <1>3, KeptTells DEF RecvACK, Done, Kept
<1>4. CASE w.state = "ACK"
  <2>1. u = w
    BY <1>1, <1>4 DEF ResumeDefer
  <2>2. PICK v : v = [w EXCEPT !.ack = Off, !.state = "IDLE", !.cw = CWMin]
    OBVIOUS
  <2>3. DOMAIN w = Fields
    BY DEF Onward, Sound, Core, Typed
  <2>4. /\ v.ack = Off /\ v.state = "IDLE" /\ v.cw = CWMin
        /\ Same(w, v, {"ack", "state", "cw"})
    BY <2>2, <2>3 DEF Same, Fields
  <2>5. Typed(v)
    BY <2>4, TimesType DEF Same, Fields, Onward, Sound, Core, Typed, Timer
  <2>6. Unfailed(v) /\ OnAir(v)
    BY <2>4 DEF Same, Fields, Onward, Sound, Core, Unfailed, OnAir
  <2>7. w.cts = Off /\ w.netAck = Off /\ w.busy = TRUE
    BY <1>4 DEF Onward, Sound, Waits, Service
  <2>8. Free(v) /\ v.answers = <<>> /\ v.pld = w.pld /\ v.queue = w.queue /\ v.air = w.air
    BY <2>4, <2>5, <2>6, <2>7 DEF Same, Fields, Free, Core, Onward
  <2>9. PICK r : r = ToNetworkAck(v, TRUE, b)
    OBVIOUS
  <2>10. /\ Rules(r) /\ r.answers = << <<v.pld, TRUE>> >> /\ r.air = v.air
         /\ Owed(r) = v.queue
    BY <2>4, <2>8, <2>9, ToNetworkAckRules
  <2>11. r = RecvACK(u, b)
    BY <1>4, <2>1, <2>2, <2>9 DEF RecvACK
  <2>12. Tells(w, r)
    BY <2>7, <2>8, <2>10 DEF Tells
  <2> QED BY <1>1, <1>4, <2>8, <2>10, <2>11, <2>12 DEF Done
<1> QED BY <1>3, <1>4

\* Passing data up concerns the cache only.
LEMMA PassedUpRules ==
  ASSUME NEW w, Rules(w), NEW f
  PROVE  /\ Rules(PassedUp(w, f)) /\ Kept(w, PassedUp(w, f))
         /\ PassedUp(w, f).state = w.state
<1>1. DOMAIN w = Fields
  BY DEF Rules, Sound, Core, Typed
<1>2. Same(w, PassedUp(w, f), Aside)
  BY <1>1 DEF PassedUp, Same, Fields, Aside
<1> QED BY <1>2, AsideSound

\* The deferral is resumed, then data is passed up.
LEMMA PassedUpDone ==
  ASSUME NEW w, NEW v, Onward(w, v), w.answers = <<>>, NEW f
  PROVE  Done(w, PassedUp(ResumeDefer(v), f))
<1>1. PICK u : u = ResumeDefer(v)
  OBVIOUS
<1>2. Rules(u) /\ Kept(v, u) /\ u.state = v.state
  BY <1>1, ResumeDeferRules DEF Onward
<1>3. PICK r : r = PassedUp(u, f)
  OBVIOUS
<1>4. Rules(r) /\ Kept(u, r) /\ r.state = u.state
  BY <1>2, <1>3, PassedUpRules
<1>5. Kept(w, r) /\ r.state = w.state
  BY <1>2, <1>4 DEF Onward, Kept
<1> QED BY <1>1, <1>3, <1>4, <1>5, KeptTells DEF Done, Kept

\* Data is acknowledged and passed up, or one of the two, or neither.
Taken(w, r, f, me) ==
  \E u : /\ Onward(w, u) /\ r = PassedUp(ResumeDefer(u), f)
        /\ \/ u = w
           \/ f.dst = me /\ \E g : /\ g.type = "ACK" /\ g.src = me /\ g.dst = f.src
                                  /\ Replied(w, u, g, {})

\* Nothing else happens to it.
LEMMA RecvDataDone ==
  ASSUME NEW w, Onward(w, w), w.answers = <<>>, w.lastSend < 0, NEW f, WellFormed(f), NEW me
  PROVE  /\ Done(w, RecvData(w, f, me))
         /\ \/ RecvData(w, f, me) = ResumeDefer(w)
            \/ Taken(w, RecvData(w, f, me), f, me)
<1>1. w.state \in {"IDLE", "DEFER", "CTS", "ACK"}
  BY DEF Onward, Sound, Core, Typed
<1>2. CASE w.state \notin {"IDLE", "DEFER"}
  <2>1. RecvData(w, f, me) = w
    BY <1>2 DEF RecvData
  <2>2. Rules(w) /\ ResumeDefer(w) = w
    BY <1>2 DEF Onward, Rules, ResumeDefer
  <2> QED BY <2>1, <2>2, KeptTells DEF Onward, Done
<1>3. CASE w.state \in {"IDLE", "DEFER"} /\ f.dst = me /\ ~Acknowledges(w, f)
  <2>1. RecvData(w, f, me) = ResumeDefer(w)
    BY <1>3 DEF RecvData
  <2> QED BY <2>1, ResumeDone
<1>4. CASE w.state \in {"IDLE", "DEFER"} /\ f.dst = me /\ Acknowledges(w, f)
  <2>1. PICK ack : ack = Frame("ACK", me, f.src, 0, w)
    OBVIOUS
  <2>2. WellFormed(ack)
    BY <2>1 DEF Frame, WellFormed
  <2>3. PICK v : v = TxAfterSifs(w, ack)
    OBVIOUS
  <2>4. /\ Sound(v) /\ Same(w, v, {"lastSend", "phy", "phyFrame", "assertFailed"})
        /\ Replied(w, v, ack, {})
    BY <2>2, <2>3, TxAfterSifsRules DEF Onward
  <2>5. Onward(w, v)
    BY <2>4 DEF Onward, Same, Fields, Kept
  <2>6. RecvData(w, f, me) = PassedUp(ResumeDefer(v), f)
    BY <1>4, <2>1, <2>3 DEF RecvData
  <2>7. ack.type = "ACK" /\ ack.src = me /\ ack.dst = f.src
    BY <2>1 DEF Frame
  <2>8. Taken(w, RecvData(w, f, me), f, me)
    BY <1>4, <2>4, <2>5, <2>6, <2>7 DEF Taken
  <2> QED BY <2>5, <2>6, <2>8, PassedUpDone
<1>5. CASE w.state \in {"IDLE", "DEFER"} /\ f.dst # me
  <2>1. RecvData(w, f, me) = PassedUp(ResumeDefer(w), f)
    BY <1>5 DEF RecvData
  <2>2. Taken(w, RecvData(w, f, me), f, me)
    BY <2>1 DEF Taken
  <2> QED BY <2>1, <2>2, PassedUpDone
<1> QED BY <1>1, <1>2, <1>3, <1>4, <1>5

\* RecvTimer: the frame is taken off, and perhaps read.
Read(v, r, f, me, b) ==
  /\ v.lastSend < 0
  /\ f.dst \in {me, Broadcast} \/ f.type = "DATA"
  /\ CASE f.type = "RTS"  -> r = ResumeDefer(RecvRTS(v, f, me))
       [] f.type = "CTS"  -> r = ResumeDefer(RecvCTS(v, f, me))
       [] f.type = "ACK"  -> r = RecvACK(ResumeDefer(v), b)
       [] f.type = "DATA" -> r = RecvData(v, f, me)

Heard == {"recv", "rx", "rxError", "nav", "txFailed"}

\* A frame is read if it is whole, for this station, and began in its silence.
LEMMA RecvTimerReads ==
  ASSUME NEW w0, Rules(w0), w0.recv # Off, w0.answers = <<>>, NEW me, NEW b \in Nat
  PROVE  \E v : /\ Onward(w0, v) /\ Onward(v, v) /\ v.answers = <<>> /\ WellFormed(w0.rx)
                /\ v.lastSend = w0.lastSend /\ Same(w0, v, Heard)
                /\ \/ RecvTimer(w0, me, b) = ResumeDefer(v)
                   \/ Read(v, RecvTimer(w0, me, b), w0.rx, me, b)
<1>1. PICK f : f = w0.rx
  OBVIOUS
<1>2. /\ DOMAIN w0 = Fields /\ w0.nav \in Nat /\ w0.lastSend \in Int /\ WellFormed(f)
      /\ w0.defer = Off
  BY <1>1 DEF Rules, Sound, Core, Typed, OnAir, Deferral
<1>3. PICK w : w = [w0 EXCEPT !.recv = Off, !.rx = NoPayload, !.rxError = FALSE]
  OBVIOUS
<1>4. w.recv = Off /\ Same(w0, w, {"recv", "rx", "rxError"})
  BY <1>2, <1>3 DEF Same, Fields
<1>5. Onward(w0, w)
  <2>1. Typed(w)
    BY <1>4 DEF Same, Fields, Rules, Sound, Core, Typed, Timer
  <2>2. Unfailed(w) /\ OnAir(w)
    BY <1>4 DEF Same, Fields, Rules, Sound, Core, Unfailed, OnAir
  <2>3. Waits(w) /\ Deferral(w) /\ Service(w)
    BY <1>4 DEF Same, Fields, Rules, Sound, Waits, Deferral, Service
  <2>4. Kept(w0, w) /\ w.state = w0.state /\ w.defer = Off
    BY <1>2, <1>4 DEF Same, Fields, Kept
  <2> QED BY <1>4, <2>1, <2>2, <2>3, <2>4 DEF Onward, Sound, Core
<1>6. PICK nav \in Nat : nav = MaxOf(w.nav, f.dur)
  BY <1>2, <1>4 DEF Same, Fields, MaxOf, WellFormed
<1>7. PICK v : v = [w EXCEPT !.nav = nav, !.txFailed = FALSE]
  OBVIOUS
<1>8. v.nav = nav /\ Same(w, v, {"nav", "txFailed"})
  BY <1>4, <1>7 DEF Same, Fields
<1>9. Onward(w, v)
  <2>1. Typed(v)
    BY <1>5, <1>6, <1>8 DEF Same, Fields, Onward, Sound, Core, Typed
  <2>2. Unfailed(v) /\ OnAir(v)
    BY <1>5, <1>8 DEF Same, Fields, Onward, Sound, Core, Unfailed, OnAir
  <2>3. Waits(v) /\ Deferral(v) /\ Service(v)
    BY <1>5, <1>8 DEF Same, Fields, Onward, Sound, Waits, Deferral, Service
  <2>4. Kept(w, v) /\ v.state = w.state /\ v.defer = Off /\ v.recv = Off
    BY <1>5, <1>8 DEF Same, Fields, Kept, Onward
  <2> QED BY <2>1, <2>2, <2>3, <2>4 DEF Onward, Sound, Core
<1>10. Onward(w0, v) /\ Onward(v, v)
  BY <1>5, <1>9, OnwardThen DEF Onward, Kept
<1>11. v.answers = <<>> /\ w.answers = <<>> /\ v.lastSend = w0.lastSend
  BY <1>4, <1>5, <1>8, <1>10 DEF Onward, Kept, Same, Fields
<1>12. Same(w0, v, Heard)
  BY <1>4, <1>8 DEF Same, Fields, Heard
<1>13. PICK mine : mine = (f.dst \in {me, Broadcast} \/ (Promiscuity /\ f.type = "DATA"))
  OBVIOUS
<1>14. RecvTimer(w0, me, b) =
         CASE w0.rxError \/ Overlapped(w0, f) -> Damaged(w)
           [] ~w0.rxError /\ ~Overlapped(w0, f) /\ ~mine -> ResumeDefer(v)
           [] OTHER ->
                CASE f.type = "RTS"  -> ResumeDefer(RecvRTS(v, f, me))
                  [] f.type = "CTS"  -> ResumeDefer(RecvCTS(v, f, me))
                  [] f.type = "ACK"  -> RecvACK(ResumeDefer(v), b)
                  [] f.type = "DATA" -> RecvData(v, f, me)
  BY <1>1, <1>3, <1>6, <1>7, <1>13, Zenon DEF RecvTimer
<1>15. CASE w0.rxError \/ Overlapped(w0, f)
  <2>1. PICK u : u = [w EXCEPT !.txFailed = TRUE]
    OBVIOUS
  <2>2. Same(w, u, {"txFailed"})
    BY <1>4, <2>1 DEF Same, Fields
  <2>3. Same(w, u, Aside) /\ Same(w0, u, Heard)
    BY <1>4, <2>2 DEF Same, Fields, Aside, Heard
  <2>4. /\ Sound(u) /\ Kept(w, u) /\ u.state = w.state /\ u.recv = w.recv
        /\ u.defer = w.defer /\ u.lastSend = w.lastSend
    BY <1>5, <2>3, AsideSound DEF Onward
  <2>5. Onward(w, u) /\ Onward(u, u)
    BY <1>5, <2>4 DEF Onward, Kept
  <2>6. Onward(w0, u)
    BY <1>5, <2>5, OnwardThen
  <2>7. u.answers = <<>> /\ u.lastSend = w0.lastSend
    BY <1>4, <1>11, <2>4 DEF Kept, Same, Fields
  <2>8. RecvTimer(w0, me, b) = ResumeDefer(u)
    BY <1>14, <1>15, <2>1 DEF Damaged
  <2> QED BY <1>1, <1>2, <2>3, <2>5, <2>6, <2>7, <2>8
<1>16. CASE ~w0.rxError /\ ~Overlapped(w0, f) /\ ~mine
  <2>1. RecvTimer(w0, me, b) = ResumeDefer(v)
    BY <1>14, <1>16
  <2> QED BY <1>1, <1>2, <1>10, <1>11, <1>12, <2>1
<1>17. CASE ~w0.rxError /\ ~Overlapped(w0, f) /\ mine
  <2>1. v.lastSend < 0
    <3>1. PICK t \in Nat : t = TxTime(f.type) /\ t > 0
      BY TimesType
    <3>2. ~(w0.lastSend > -t)
      BY <1>17, <3>1 DEF Overlapped
    <3> QED BY <1>2, <1>11, <3>1, <3>2
  <2>2. f.dst \in {me, Broadcast} \/ f.type = "DATA"
    BY <1>13, <1>17
  <2>3. PICK r : r = RecvTimer(w0, me, b)
    OBVIOUS
  <2>4. CASE f.type = "RTS"
    <3>1. r = ResumeDefer(RecvRTS(v, f, me))
      BY <1>14, <1>17, <2>3, <2>4
    <3> QED BY <1>1, <1>2, <1>10, <1>11, <1>12, <2>1, <2>2, <2>3, <2>4, <3>1 DEF Read
  <2>5. CASE f.type = "CTS"
    <3>1. r = ResumeDefer(RecvCTS(v, f, me))
      BY <1>14, <1>17, <2>3, <2>5
    <3> QED BY <1>1, <1>2, <1>10, <1>11, <1>12, <2>1, <2>2, <2>3, <2>5, <3>1 DEF Read
  <2>6. CASE f.type = "ACK"
    <3>1. r = RecvACK(ResumeDefer(v), b)
      BY <1>14, <1>17, <2>3, <2>6
    <3> QED BY <1>1, <1>2, <1>10, <1>11, <1>12, <2>1, <2>2, <2>3, <2>6, <3>1 DEF Read
  <2>7. CASE f.type = "DATA"
    <3>1. r = RecvData(v, f, me)
      BY <1>14, <1>17, <2>3, <2>7
    <3> QED BY <1>1, <1>2, <1>10, <1>11, <1>12, <2>1, <2>2, <2>3, <2>7, <3>1 DEF Read
  <2> QED BY <1>2, <2>4, <2>5, <2>6, <2>7 DEF WellFormed
<1> QED BY <1>15, <1>16, <1>17

\* However it is read, the station keeps its rules.
LEMMA RecvTimerDone ==
  ASSUME NEW w0, Rules(w0), w0.recv # Off, w0.answers = <<>>, NEW me, NEW b \in Nat
  PROVE  Done(w0, RecvTimer(w0, me, b))
<1>1. PICK f, r : f = w0.rx /\ r = RecvTimer(w0, me, b)
  OBVIOUS
<1>2. PICK v : /\ Onward(w0, v) /\ Onward(v, v) /\ v.answers = <<>> /\ WellFormed(f)
               /\ r = ResumeDefer(v) \/ Read(v, r, f, me, b)
  BY <1>1, RecvTimerReads
<1>3. ASSUME Done(v, r) PROVE Done(w0, r)
  BY <1>2, <1>3 DEF Onward, Done, Tells, Kept, Owed
<1>4. CASE r = ResumeDefer(v)
  BY <1>2, <1>4, ResumeDone, <1>1
<1>5. CASE Read(v, r, f, me, b)
  <2>1. v.lastSend < 0
    BY <1>5 DEF Read
  <2>2. CASE f.type = "RTS"
    <3>1. r = ResumeDefer(RecvRTS(v, f, me))
      BY <1>5, <2>2 DEF Read
    <3>2. Onward(v, RecvRTS(v, f, me))
      BY <1>2, <2>1, RecvRTSOnward
    <3> QED BY <1>1, <1>2, <1>3, <3>1, <3>2, ResumeDone
  <2>3. CASE f.type = "CTS"
    <3>1. r = ResumeDefer(RecvCTS(v, f, me))
      BY <1>5, <2>3 DEF Read
    <3> QED BY <1>1, <1>2, <1>3, <2>1, <3>1, RecvCTSDone
  <2>4. CASE f.type = "ACK"
    <3>1. r = RecvACK(ResumeDefer(v), b)
      BY <1>5, <2>4 DEF Read
    <3> QED BY <1>1, <1>2, <1>3, <3>1, RecvACKDone
  <2>5. CASE f.type = "DATA"
    <3>1. r = RecvData(v, f, me)
      BY <1>5, <2>5 DEF Read
    <3> QED BY <1>1, <1>2, <1>3, <2>1, <3>1, RecvDataDone
  <2> QED BY <1>2, <2>2, <2>3, <2>4, <2>5 DEF WellFormed
<1> QED BY <1>2, <1>4, <1>5

-----------------------------------------------------------------------------
(* The other handlers *)

\* TxPacket, when the station is not sending.
LEMMA TxNowIs ==
  ASSUME NEW w, DOMAIN w = Fields, w.lastSend \in Int, w.lastSend <= 0, NEW f, NEW t,
         t = TxTime(f.type)
  PROVE  /\ TxNow(w, f).lastSend = t /\ TxNow(w, f).air = w.air \union {f}
         /\ Same(w, TxNow(w, f), {"lastSend", "air"})
<1>1. ~(w.lastSend > 0)
  OBVIOUS
<1>2. TxNow(w, f) = [w EXCEPT !.lastSend = t, !.air = @ \union {f}]
  BY <1>1 DEF TxNow
<1> QED BY <1>2 DEF Same, Fields

\* The deferral is over: the medium is not reserved, and the frame goes out.
LEMMA DeferTimerRules ==
  ASSUME NEW w0, Rules(w0), w0.defer = 0, NEW me
  PROVE  /\ Rules(DeferTimer(w0, me))
         /\ DeferTimer(w0, me).answers = w0.answers
         /\ Owed(DeferTimer(w0, me)) = Owed(w0)
         /\ w0.nav = 0
<1>1. /\ DOMAIN w0 = Fields /\ w0.state = "DEFER" /\ w0.assertFailed = FALSE
      /\ w0.lastSend \in Int /\ w0.nav \in Nat /\ w0.phy \in Timer
      /\ w0.netAck = Off /\ w0.cts = Off /\ w0.ack = Off /\ w0.busy = TRUE
  BY TimesType DEF Rules, Sound, Core, Typed, Unfailed, Deferral, Service, Waits
<1>2. w0.lastSend <= 0 /\ w0.nav <= 0
  BY TimesType DEF Rules, Sound, Deferral
<1>3. w0.nav = 0
  BY <1>1, <1>2
<1>4. w0.phy = Off
  <2>1. SUFFICES ASSUME w0.phy # Off PROVE FALSE
    OBVIOUS
  <2>2. PICK t \in Nat : t = TxTime(w0.phyFrame.type) /\ t > 0
    BY TimesType
  <2>3. w0.phy \in Nat /\ w0.lastSend = w0.phy + t
    BY <1>1, <2>1, <2>2 DEF Rules, Sound, Core, OnAir, Timer
  <2> QED BY <1>2, <2>2, <2>3
<1>5. PICK w : w = [w0 EXCEPT !.defer = Off, !.assertFailed = FALSE]
  OBVIOUS
<1>6. w.defer = Off /\ w.assertFailed = FALSE /\ Same(w0, w, {"defer", "assertFailed"})
  BY <1>1, <1>5 DEF Same, Fields
<1>7. Asserted([w0 EXCEPT !.defer = Off], w0.state = "DEFER") = w
  BY <1>1, <1>5 DEF Asserted, Fields
<1>8. PICK dur \in Nat : dur = SIFS + ControlTime + DataTime
  BY TimesType
<1>9. w.netAck = Off /\ w.lastSend <= 0 /\ w.lastSend \in Int
  BY <1>1, <1>2, <1>6 DEF Same, Fields
<1>10. ASSUME NEW v, NEW f, WellFormed(f), NEW t \in Nat,
              v.state \in {"IDLE", "CTS", "ACK"}, v.lastSend = t, v.air = w.air \union {f},
              Same(w, v, {"state", "lastSend", "air", "ack", "cts", "netAck"}),
              v.ack \in Timer, v.cts \in Timer, v.netAck \in Timer,
              v.ack # Off <=> v.state = "ACK",
              v.cts # Off <=> v.state = "CTS",
              v.netAck # Off <=> v.state = "IDLE"
       PROVE  Rules(v) /\ v.answers = w0.answers /\ Owed(v) = Owed(w0)
  <2>1. Typed(v)
    <3>1. \A g \in v.air : WellFormed(g)
      BY <1>6, <1>10 DEF Same, Fields, Rules, Sound, Core, Typed
    <3>2. Same(w0, v, {"state", "lastSend", "air", "ack", "cts", "netAck", "defer", "assertFailed"})
          /\ v.defer = Off
      BY <1>6, <1>10 DEF Same, Fields
    <3>3. /\ DOMAIN v = Fields /\ v.nav = w0.nav /\ v.cw = w0.cw /\ v.backoff = w0.backoff
          /\ v.ifs = w0.ifs /\ v.since = w0.since /\ v.recv = w0.recv
          /\ v.navTimer = w0.navTimer /\ v.phy = w0.phy /\ v.busy = w0.busy
          /\ v.pld = w0.pld /\ v.queue = w0.queue
      BY <3>2 DEF Same, Fields
    <3>4. Typed(w0) /\ Off \in Timer /\ v.lastSend \in Int
      BY <1>10 DEF Rules, Sound, Core, Timer
    <3> QED BY <1>10, <3>1, <3>2, <3>3, <3>4 DEF Typed
  <2>2. Unfailed(v) /\ OnAir(v)
    BY <1>4, <1>6, <1>10 DEF Same, Fields, Rules, Sound, Core, Unfailed, OnAir
  <2>3. Waits(v) /\ Deferral(v) /\ Service(v)
    BY <1>1, <1>6, <1>10 DEF Same, Fields, Rules, Sound, Waits, Deferral, Service
  <2>4. v.answers = w0.answers /\ Owed(v) = Owed(w0)
    BY <1>6, <1>10 DEF Same, Fields, Owed
  <2> QED BY <1>10, <2>1, <2>2, <2>3, <2>4 DEF Rules, Sound, Core
<1>11. CASE ~w.long /\ w.pld.dst # Broadcast
  <2>1. PICK f : f = Frame("DATA", me, w.pld.dst, dur, w)
    OBVIOUS
  <2>2. PICK u : u = [w EXCEPT !.state = "ACK", !.ack = dur + DIFS]
    OBVIOUS
  <2>3. PICK v : v = TxNow(u, f)
    OBVIOUS
  <2>4. WellFormed(f) /\ f.type = "DATA"
    BY <1>8, <2>1 DEF Frame, WellFormed
  <2>5. u.state = "ACK" /\ u.ack = dur + DIFS /\ Same(w, u, {"state", "ack"})
    BY <1>6, <2>2 DEF Same, Fields
  <2>6. v.lastSend = DataTime /\ v.air = u.air \union {f} /\ Same(u, v, {"lastSend", "air"})
    <3>1. DOMAIN u = Fields /\ u.lastSend \in Int /\ u.lastSend <= 0
      BY <1>9, <2>5 DEF Same, Fields
    <3>2. DataTime = TxTime(f.type)
      BY <2>4 DEF TxTime
    <3> QED BY <2>3, <3>1, <3>2, TxNowIs
  <2>7. v.ack \in Timer /\ v.ack # Off
    BY <1>8, <2>5, <2>6, TimesType DEF Same, Fields, Timer
  <2>8. v.cts = Off /\ v.netAck = Off /\ v.state = "ACK" /\ v.air = w.air \union {f}
    BY <1>1, <1>6, <2>5, <2>6 DEF Same, Fields
  <2>9. Same(w, v, {"state", "lastSend", "air", "ack", "cts", "netAck"})
    BY <2>5, <2>6 DEF Same, Fields
  <2>10. Rules(v) /\ v.answers = w0.answers /\ Owed(v) = Owed(w0)
    BY <1>10, <2>4, <2>6, <2>7, <2>8, <2>9, TimesType DEF Timer
  <2>11. DeferTimer(w0, me) = v
    BY <1>7, <1>8, <1>11, <2>1, <2>2, <2>3 DEF DeferTimer
  <2> QED BY <1>3, <2>10, <2>11
<1>12. CASE ~w.long /\ w.pld.dst = Broadcast
  <2>1. PICK f : f = Frame("DATA", me, w.pld.dst, 0, w)
    OBVIOUS
  <2>2. PICK u : u = [Asserted(w, w.netAck = Off) EXCEPT !.state = "IDLE", !.netAck = DataTime]
    OBVIOUS
  <2>3. PICK v : v = TxNow(u, f)
    OBVIOUS
  <2>4. WellFormed(f) /\ f.type = "DATA"
    BY <2>1 DEF Frame, WellFormed
  <2>5. u.state = "IDLE" /\ u.netAck = DataTime /\ Same(w, u, {"state", "netAck"})
    BY <1>6, <1>9, <2>2 DEF Asserted, Same, Fields
  <2>6. v.lastSend = DataTime /\ v.air = u.air \union {f} /\ Same(u, v, {"lastSend", "air"})
    <3>1. DOMAIN u = Fields /\ u.lastSend \in Int /\ u.lastSend <= 0
      BY <1>9, <2>5 DEF Same, Fields
    <3>2. DataTime = TxTime(f.type)
      BY <2>4 DEF TxTime
    <3> QED BY <2>3, <3>1, <3>2, TxNowIs
  <2>7. v.netAck \in Timer /\ v.netAck # Off
    BY <2>5, <2>6, TimesType DEF Same, Fields, Timer
  <2>8. v.cts = Off /\ v.ack = Off /\ v.state = "IDLE" /\ v.air = w.air \union {f}
    BY <1>1, <1>6, <2>5, <2>6 DEF Same, Fields
  <2>9. Same(w, v, {"state", "lastSend", "air", "ack", "cts", "netAck"})
    BY <2>5, <2>6 DEF Same, Fields
  <2>10. Rules(v) /\ v.answers = w0.answers /\ Owed(v) = Owed(w0)
    BY <1>10, <2>4, <2>6, <2>7, <2>8, <2>9, TimesType DEF Timer
  <2>11. DeferTimer(w0, me) = v
    BY <1>7, <1>12, <2>1, <2>2, <2>3 DEF DeferTimer
  <2> QED BY <1>3, <2>10, <2>11
<1>13. CASE w.long
  <2>1. PICK rts \in Nat : rts = RtsDuration
    BY TimesType DEF RtsDuration
  <2>2. PICK f : f = Frame("RTS", me, w.pld.dst, rts, w)
    OBVIOUS
  <2>3. PICK u : u = [w EXCEPT !.state = "CTS", !.cts = rts + SIFS]
    OBVIOUS
  <2>4. PICK v : v = TxNow(u, f)
    OBVIOUS
  <2>5. WellFormed(f) /\ f.type = "RTS"
    BY <2>1, <2>2 DEF Frame, WellFormed
  <2>6. u.state = "CTS" /\ u.cts = rts + SIFS /\ Same(w, u, {"state", "cts"})
    BY <1>6, <2>3 DEF Same, Fields
  <2>7. v.lastSend = ControlTime /\ v.air = u.air \union {f} /\ Same(u, v, {"lastSend", "air"})
    <3>1. DOMAIN u = Fields /\ u.lastSend \in Int /\ u.lastSend <= 0
      BY <1>9, <2>6 DEF Same, Fields
    <3>2. ControlTime = TxTime(f.type)
      BY <2>5 DEF TxTime
    <3> QED BY <2>4, <3>1, <3>2, TxNowIs
  <2>8. v.cts \in Timer /\ v.cts # Off
    BY <2>1, <2>6, <2>7, TimesType DEF Same, Fields, Timer
  <2>9. v.netAck = Off /\ v.ack = Off /\ v.state = "CTS" /\ v.air = w.air \union {f}
    BY <1>1, <1>6, <2>6, <2>7 DEF Same, Fields
  <2>10. Same(w, v, {"state", "lastSend", "air", "ack", "cts", "netAck"})
    BY <2>6, <2>7 DEF Same, Fields
  <2>11. Rules(v) /\ v.answers = w0.answers /\ Owed(v) = Owed(w0)
    BY <1>10, <2>5, <2>7, <2>8, <2>9, <2>10, TimesType DEF Timer
  <2>12. DeferTimer(w0, me) = v
    BY <1>7, <1>13, <2>1, <2>2, <2>3, <2>4 DEF DeferTimer
  <2> QED BY <1>3, <2>11, <2>12
<1> QED BY <1>11, <1>12, <1>13

\* The first bit of a frame stops the deferral, and nothing else.
LEMMA FromPhyRules ==
  ASSUME NEW w, Rules(w), NEW f, WellFormed(f), NEW err, NEW power
  PROVE  /\ Rules(FromPhy(w, f, err, power)) /\ Kept(w, FromPhy(w, f, err, power))
         /\ FromPhy(w, f, err, power).state = w.state
<1>1. PICK t \in Nat : t = TxTime(f.type)
  BY TimesType
<1>2. PICK taken : taken = [w EXCEPT !.rx = f, !.rxError = err, !.recv = t]
  OBVIOUS
<1>3. /\ DOMAIN w = Fields /\ w.assertFailed = FALSE /\ w.defer \in Timer
      /\ w.since \in Int /\ w.ifs \in Nat /\ w.backoff \in Nat
  BY DEF Rules, Sound, Core, Typed, Unfailed
<1>4. taken.rx = f /\ taken.recv = t /\ Same(w, taken, {"rx", "rxError", "recv"})
  BY <1>2, <1>3 DEF Same, Fields
<1>5. taken.recv # Off /\ taken.recv \in Timer
  BY <1>4, TimesType DEF Timer
<1>6. Sound(taken)
  <2>1. Typed(taken)
    BY <1>4, <1>5 DEF Same, Fields, Rules, Sound, Core, Typed
  <2>2. Unfailed(taken) /\ OnAir(taken)
    BY <1>4 DEF Same, Fields, Rules, Sound, Core, Unfailed, OnAir
  <2>3. Waits(taken) /\ Deferral(taken) /\ Service(taken)
    BY <1>4 DEF Same, Fields, Rules, Sound, Waits, Deferral, Service
  <2> QED BY <2>1, <2>2, <2>3 DEF Sound, Core
<1>7. Kept(w, taken) /\ taken.state = w.state
  BY <1>4 DEF Same, Fields, Kept
<1>8. CASE w.recv = Off /\ w.state = "DEFER"
  <2>1. w.defer \in Nat /\ w.defer # Off /\ w.defer + w.since \in {w.ifs, w.ifs + w.backoff}
    BY <1>3, <1>8 DEF Rules, Sound, Deferral, Timer
  <2>2. PICK used \in Int : used = w.since - w.ifs
    BY <1>3
  <2>3. PICK left : left = IF used > 0 THEN w.backoff - used ELSE w.backoff
    OBVIOUS
  <2>4. left \in Nat
    BY <1>3, <2>1, <2>2, <2>3
  <2>5. PICK v : v = Suspended(taken)
    OBVIOUS
  <2>6. /\ taken.since = w.since /\ taken.ifs = w.ifs /\ taken.backoff = w.backoff
        /\ taken.defer = w.defer /\ taken.assertFailed = FALSE /\ DOMAIN taken = Fields
    BY <1>3, <1>4 DEF Same, Fields
  <2>7. PICK u : u = Asserted(Asserted(taken, TRUE), TRUE)
    OBVIOUS
  <2>8. u.assertFailed = FALSE /\ Same(taken, u, {"assertFailed"})
    BY <2>6, <2>7 DEF Asserted, Same, Fields
  <2>9. v = [u EXCEPT !.backoff = left, !.defer = Off, !.since = 0]
    <3>1. (left >= 0) = TRUE /\ (taken.defer # Off) = TRUE
      BY <2>1, <2>4, <2>6
    <3>2. Asserted(Asserted(taken, taken.defer # Off), left >= 0) = u
      BY <2>7, <3>1
    <3> QED BY <2>2, <2>3, <2>5, <2>6, <3>2 DEF Suspended
  <2>10. /\ v.backoff = left /\ v.defer = Off /\ v.since = 0 /\ v.assertFailed = FALSE
         /\ Same(taken, v, {"backoff", "defer", "since", "assertFailed"})
    BY <2>8, <2>9 DEF Same, Fields
  <2>11. Typed(v)
    <3>1. v.backoff \in Nat /\ v.defer \in Timer /\ v.since \in Int
      BY <2>4, <2>10 DEF Timer
    <3> QED BY <1>6, <2>10, <3>1 DEF Same, Fields, Sound, Core, Typed
  <2>12. Unfailed(v) /\ OnAir(v)
    BY <1>6, <2>10 DEF Same, Fields, Sound, Core, Unfailed, OnAir
  <2>13. Waits(v) /\ Deferral(v) /\ Service(v)
    BY <1>6, <2>10 DEF Same, Fields, Sound, Waits, Deferral, Service
  <2>14. Kept(w, v) /\ v.state = w.state /\ v.recv # Off
    BY <1>5, <1>7, <2>10 DEF Same, Fields, Kept
  <2>15. Rules(v)
    BY <2>10, <2>11, <2>12, <2>13, <2>14 DEF Rules, Sound, Core
  <2>16. v = FromPhy(w, f, err, power)
    BY <1>1, <1>2, <1>8, <2>5 DEF FromPhy
  <2> QED BY <2>14, <2>15, <2>16
<1>9. CASE ~(w.recv = Off /\ w.state = "DEFER")
  <2>1. Rules(taken)
    BY <1>4, <1>5, <1>6, <1>9 DEF Same, Fields, Rules
  <2>2. ASSUME NEW u, Rules(u), Kept(w, u), u.state = w.state,
               NEW v, v = [u EXCEPT !.rxError = TRUE]
        PROVE  Rules(v) /\ Kept(w, v) /\ v.state = w.state
    <3>1. DOMAIN u = Fields
      BY <2>2 DEF Rules, Sound, Core, Typed
    <3>2. Same(u, v, Aside)
      BY <2>2, <3>1 DEF Same, Fields, Aside
    <3>3. Rules(v) /\ Kept(u, v) /\ v.state = u.state
      BY <2>2, <3>2, AsideSound
    <3> QED BY <2>2, <3>3 DEF Kept
  <2>3. Kept(w, w)
    BY DEF Kept
  <2>4. \/ FromPhy(w, f, err, power) \in {w, taken}
        \/ FromPhy(w, f, err, power) = [taken EXCEPT !.rxError = TRUE]
        \/ FromPhy(w, f, err, power) = [w EXCEPT !.rxError = TRUE]
    BY <1>1, <1>2, <1>9 DEF FromPhy
  <2> QED BY <1>7, <2>1, <2>2, <2>3, <2>4
<1> QED BY <1>8, <1>9

\* Another attempt, or the bad news.
LEMMA RetryOrGiveUpRules ==
  ASSUME NEW w, Free(w), w.state # "DEFER", w.answers = <<>>, NEW again, NEW b \in Nat
  PROVE  /\ Rules(RetryOrGiveUp(w, again, b))
         /\ Tells(w, RetryOrGiveUp(w, again, b))
         /\ RetryOrGiveUp(w, again, b).air = w.air
<1>1. DOMAIN w = Fields /\ w.cw \in Nat /\ w.busy = TRUE
  BY DEF Free, Core, Typed
<1>2. CASE again
  <2>1. PICK u : u = [w EXCEPT !.cw = Wider(@)]
    OBVIOUS
  <2>2. u.cw = Wider(w.cw) /\ Same(w, u, {"cw"})
    BY <1>1, <2>1 DEF Same, Fields
  <2>3. u.cw \in Nat
    BY <1>1, <2>2, WiderType
  <2>4. Typed(u)
    BY <2>2, <2>3 DEF Same, Fields, Free, Core, Typed
  <2>5. Unfailed(u) /\ OnAir(u)
    BY <2>2 DEF Same, Fields, Free, Core, Unfailed, OnAir
  <2>6. Free(u) /\ u.state # "DEFER" /\ Kept(w, u)
    BY <2>2, <2>4, <2>5 DEF Same, Fields, Free, Core, Kept
  <2>7. PICK v : v = StartDefer(u, TRUE, b)
    OBVIOUS
  <2>8. Rules(v) /\ Kept(u, v)
    BY <2>6, <2>7, StartDeferRules
  <2>9. Kept(w, v)
    BY <2>6, <2>8 DEF Kept
  <2>10. v = RetryOrGiveUp(w, again, b)
    BY <1>2, <2>1, <2>7 DEF RetryOrGiveUp
  <2> QED BY <2>8, <2>9, <2>10, KeptTells DEF Kept
<1>3. CASE ~again
  <2>1. PICK u : u = [w EXCEPT !.state = "IDLE", !.cw = CWMin]
    OBVIOUS
  <2>2. u.state = "IDLE" /\ u.cw = CWMin /\ Same(w, u, {"state", "cw"})
    BY <1>1, <2>1 DEF Same, Fields
  <2>3. Typed(u)
    BY <2>2, TimesType DEF Same, Fields, Free, Core, Typed
  <2>4. Unfailed(u) /\ OnAir(u)
    BY <2>2 DEF Same, Fields, Free, Core, Unfailed, OnAir
  <2>5. Free(u) /\ Kept(w, u)
    BY <2>2, <2>3, <2>4 DEF Same, Fields, Free, Core, Kept
  <2>6. PICK v : v = ToNetworkAck(u, FALSE, b)
    OBVIOUS
  <2>7. /\ Rules(v) /\ v.answers = << <<u.pld, FALSE>> >> /\ v.air = u.air
        /\ Owed(v) = u.queue
    BY <2>2, <2>5, <2>6, ToNetworkAckRules DEF Kept
  <2>8. v = RetryOrGiveUp(w, again, b)
    BY <1>3, <2>1, <2>6 DEF RetryOrGiveUp
  <2> QED BY <1>1, <2>5, <2>7, <2>8 DEF Kept, Tells
<1> QED BY <1>2, <1>3

\* A time-out leaves a station that has a packet and no timer for it, but for
\* such fields as it was.
Tries(w0, v, b, fields) ==
  \E w, again : /\ Free(w) /\ w.state = w0.state /\ Same(w0, w, fields)
                /\ v = RetryOrGiveUp(w, again, b)

LEMMA TriesRules ==
  ASSUME NEW w0, NEW v, NEW b \in Nat, NEW fields, Tries(w0, v, b, fields),
         w0.state # "DEFER", w0.answers = <<>>,
         fields \subseteq {"cts", "ack", "ssrc", "slrc", "assertFailed"}
  PROVE  Rules(v) /\ Tells(w0, v)
<1>1. PICK w, again : /\ Free(w) /\ w.state = w0.state /\ Same(w0, w, fields)
                      /\ v = RetryOrGiveUp(w, again, b)
  BY DEF Tries
<1>2. Kept(w0, w)
  BY <1>1 DEF Same, Fields, Kept
<1>3. Rules(v) /\ Tells(w, v)
  BY <1>1, <1>2, RetryOrGiveUpRules DEF Kept
<1> QED BY <1>2, <1>3 DEF Tells, Kept, Owed

\* No CTS came: another RTS, or the bad news.
LEMMA CTSTimerTries ==
  ASSUME NEW w0, Rules(w0), w0.cts = 0, NEW b \in Nat
  PROVE  /\ Tries(w0, CTSTimer(w0, b), b, {"cts", "ssrc", "assertFailed"})
         /\ w0.state = "CTS"
<1>1. /\ DOMAIN w0 = Fields /\ w0.assertFailed = FALSE /\ w0.state = "CTS"
      /\ w0.defer = Off /\ w0.ack = Off /\ w0.netAck = Off /\ w0.busy = TRUE
  BY TimesType DEF Rules, Sound, Core, Typed, Unfailed, Waits, Deferral, Service
<1>2. PICK w : w = [w0 EXCEPT !.cts = Off, !.ssrc = @ + 1, !.assertFailed = FALSE]
  OBVIOUS
<1>3. /\ w.cts = Off /\ w.assertFailed = FALSE
      /\ Same(w0, w, {"cts", "ssrc", "assertFailed"})
  BY <1>1, <1>2 DEF Same, Fields
<1>4. [Asserted(w0, w0.state = "CTS") EXCEPT !.cts = Off, !.ssrc = @ + 1] = w
  BY <1>1, <1>2 DEF Asserted, Fields
<1>5. Typed(w)
  BY <1>3 DEF Same, Fields, Rules, Sound, Core, Typed, Timer
<1>6. Unfailed(w) /\ OnAir(w)
  BY <1>3 DEF Same, Fields, Rules, Sound, Core, Unfailed, OnAir
<1>7. Free(w) /\ w.state = w0.state
  BY <1>1, <1>3, <1>5, <1>6 DEF Same, Fields, Free, Core
<1>8. PICK again : again = (w.ssrc < ShortRetryLimit)
  OBVIOUS
<1>9. CTSTimer(w0, b) = RetryOrGiveUp(w, again, b)
  BY <1>4, <1>8 DEF CTSTimer
<1> QED BY <1>1, <1>3, <1>7, <1>9 DEF Tries

\* No acknowledgement came.
LEMMA ACKTimerTries ==
  ASSUME NEW w0, Rules(w0), w0.ack = 0, NEW b \in Nat
  PROVE  /\ Tries(w0, ACKTimer(w0, b), b, {"ack", "slrc", "ssrc", "assertFailed"})
         /\ w0.state = "ACK"
<1>1. /\ DOMAIN w0 = Fields /\ w0.assertFailed = FALSE /\ w0.state = "ACK"
      /\ w0.defer = Off /\ w0.cts = Off /\ w0.netAck = Off /\ w0.busy = TRUE
  BY TimesType DEF Rules, Sound, Core, Typed, Unfailed, Waits, Deferral, Service
<1>2. PICK w : w = [w0 EXCEPT !.ack = Off,
                              !.slrc = IF w0.long THEN @ + 1 ELSE @,
                              !.ssrc = IF w0.long THEN @ ELSE @ + 1,
                              !.assertFailed = FALSE]
  OBVIOUS
<1>3. /\ w.ack = Off /\ w.assertFailed = FALSE
      /\ Same(w0, w, {"ack", "slrc", "ssrc", "assertFailed"})
  BY <1>1, <1>2 DEF Same, Fields
<1>4. [Asserted(w0, w0.state = "ACK") EXCEPT
         !.ack = Off,
         !.slrc = IF w0.long THEN @ + 1 ELSE @,
         !.ssrc = IF w0.long THEN @ ELSE @ + 1] = w
  BY <1>1, <1>2 DEF Asserted, Fields
<1>5. Typed(w)
  BY <1>3 DEF Same, Fields, Rules, Sound, Core, Typed, Timer
<1>6. Unfailed(w) /\ OnAir(w)
  BY <1>3 DEF Same, Fields, Rules, Sound, Core, Unfailed, OnAir
<1>7. Free(w) /\ w.state = w0.state
  BY <1>1, <1>3, <1>5, <1>6 DEF Same, Fields, Free, Core
<1>8. PICK again \in BOOLEAN : ACKTimer(w0, b) = RetryOrGiveUp(w, again, b)
  <2>1. CASE IF w.long THEN w.slrc < LongRetryLimit ELSE w.ssrc < ShortRetryLimit
    <3>1. ACKTimer(w0, b) = RetryOrGiveUp(w, TRUE, b)
      <4> DEFINE u == [Asserted(w0, w0.state = "ACK") EXCEPT
                         !.ack = Off,
                         !.slrc = IF w0.long THEN @ + 1 ELSE @,
                         !.ssrc = IF w0.long THEN @ ELSE @ + 1]
                 more == IF u.long THEN u.slrc < LongRetryLimit ELSE u.ssrc < ShortRetryLimit
      <4>1. ACKTimer(w0, b) = RetryOrGiveUp(u, more, b)
        BY DEF ACKTimer
      <4>2. u = w
        BY <1>4
      <4>3. more
        BY <2>1, <4>2
      <4> HIDE DEF u, more
      <4> QED BY <4>1, <4>2, <4>3 DEF RetryOrGiveUp
    <3> QED BY <3>1
  <2>2. CASE ~(IF w.long THEN w.slrc < LongRetryLimit ELSE w.ssrc < ShortRetryLimit)
    <3>1. ACKTimer(w0, b) = RetryOrGiveUp(w, FALSE, b)
      BY <1>4, <2>2 DEF ACKTimer, RetryOrGiveUp
    <3> QED BY <3>1
  <2> QED BY <2>1, <2>2
<1> QED BY <1>1, <1>3, <1>7, <1>8 DEF Tries

\* A broadcast has been sent.
LEMMA NetworkAckTimerRules ==
  ASSUME NEW w0, Rules(w0), w0.netAck = 0, w0.answers = <<>>, NEW b \in Nat
  PROVE  /\ Rules(NetworkAckTimer(w0, b)) /\ Tells(w0, NetworkAckTimer(w0, b))
         /\ w0.state = "IDLE"
<1>1. /\ DOMAIN w0 = Fields /\ w0.state = "IDLE" /\ w0.busy = TRUE
      /\ w0.defer = Off /\ w0.cts = Off /\ w0.ack = Off
  BY TimesType DEF Rules, Sound, Core, Typed, Waits, Deferral, Service
<1>2. PICK w : w = [w0 EXCEPT !.netAck = Off]
  OBVIOUS
<1>3. w.netAck = Off /\ Same(w0, w, {"netAck"})
  BY <1>1, <1>2 DEF Same, Fields
<1>4. Typed(w)
  BY <1>3 DEF Same, Fields, Rules, Sound, Core, Typed, Timer
<1>5. Unfailed(w) /\ OnAir(w)
  BY <1>3 DEF Same, Fields, Rules, Sound, Core, Unfailed, OnAir
<1>6. Free(w) /\ w.state = "IDLE" /\ Kept(w0, w)
  BY <1>1, <1>3, <1>4, <1>5 DEF Same, Fields, Free, Core, Kept
<1>7. PICK v : v = ToNetworkAck(w, TRUE, b)
  OBVIOUS
<1>8. Rules(v) /\ v.answers = << <<w.pld, TRUE>> >> /\ Owed(v) = w.queue
  BY <1>6, <1>7, ToNetworkAckRules DEF Kept
<1>9. Tells(w0, v)
  BY <1>1, <1>6, <1>8 DEF Kept, Tells
<1>10. v = NetworkAckTimer(w0, b)
  BY <1>2, <1>7 DEF NetworkAckTimer
<1> QED BY <1>1, <1>8, <1>9, <1>10

\* The reservation for the other's data is over.
LEMMA NAVTimerRules ==
  ASSUME NEW w, Rules(w)
  PROVE  Rules(NAVTimer(w)) /\ Kept(w, NAVTimer(w)) /\ NAVTimer(w).state = w.state
<1>1. PICK v : v = NAVTimer(w)
  OBVIOUS
<1>2. DOMAIN w = Fields
  BY DEF Rules, Sound, Core, Typed
<1>3. v.navTimer = Off /\ Same(w, v, {"navTimer", "session"})
  BY <1>1, <1>2 DEF NAVTimer, Same, Fields
<1>4. Typed(v)
  BY <1>3 DEF Same, Fields, Rules, Sound, Core, Typed, Timer
<1>5. Unfailed(v) /\ OnAir(v)
  BY <1>3 DEF Same, Fields, Rules, Sound, Core, Unfailed, OnAir
<1>6. Waits(v) /\ Deferral(v) /\ Service(v)
  BY <1>3 DEF Same, Fields, Rules, Sound, Waits, Deferral, Service
<1>7. Kept(w, v) /\ v.state = w.state /\ v.recv = w.recv /\ v.defer = w.defer
  BY <1>3 DEF Same, Fields, Kept
<1> QED BY <1>1, <1>4, <1>5, <1>6, <1>7 DEF Rules, Sound, Core

\* SIFS has passed, and the answer goes out.
LEMMA PhyTimerRules ==
  ASSUME NEW w, Rules(w), w.phy # Off
  PROVE  /\ Rules(PhyTimer(w)) /\ PhyTimer(w).answers = w.answers
         /\ Owed(PhyTimer(w)) = Owed(w) /\ PhyTimer(w).state = w.state
<1>1. PICK v : v = PhyTimer(w)
  OBVIOUS
<1>2. DOMAIN w = Fields /\ WellFormed(w.phyFrame) /\ \A f \in w.air : WellFormed(f)
  BY DEF Rules, Sound, Core, Typed, OnAir
<1>3. /\ v.phy = Off /\ v.air = w.air \union {w.phyFrame}
      /\ Same(w, v, {"phy", "phyFrame", "air"})
  BY <1>1, <1>2 DEF PhyTimer, Same, Fields
<1>4. \A f \in v.air : WellFormed(f)
  BY <1>2, <1>3
<1>5. Typed(v)
  BY <1>3, <1>4 DEF Same, Fields, Rules, Sound, Core, Typed, Timer
<1>6. Unfailed(v) /\ OnAir(v)
  BY <1>3 DEF Same, Fields, Rules, Sound, Core, Unfailed, OnAir
<1>7. Waits(v) /\ Deferral(v) /\ Service(v)
  BY <1>3 DEF Same, Fields, Rules, Sound, Waits, Deferral, Service
<1>8. /\ Owed(v) = Owed(w) /\ v.answers = w.answers
      /\ v.state = w.state /\ v.recv = w.recv /\ v.defer = w.defer
  BY <1>3 DEF Same, Fields, Owed
<1> QED BY <1>1, <1>5, <1>6, <1>7, <1>8 DEF Rules, Sound, Core

\* Time passes, up to the next timer.
Less(t, d) == IF t = Off THEN Off ELSE t - d

Later(w, d) ==
  [w EXCEPT !.defer = Less(@, d), !.recv = Less(@, d), !.cts = Less(@, d),
            !.ack = Less(@, d), !.navTimer = Less(@, d), !.netAck = Less(@, d),
            !.phy = Less(@, d),
            !.nav = MaxOf(@ - d, 0),
            !.since = IF w.defer = Off THEN 0 ELSE @ + d,
            !.lastSend = MaxOf(@ - d, -DataTime)]

\* A timer that is not due yet stays set.
LEMMA LessType ==
  ASSUME NEW t \in Timer, NEW d \in Nat, t = Off \/ d <= t
  PROVE  Less(t, d) \in Timer /\ (Less(t, d) = Off <=> t = Off)
         /\ (t # Off => Less(t, d) = t - d)
BY DEF Less, Timer, Off

\* As time passes, timers, lastSend and the reservation keep their distances.
LEMMA LaterRules ==
  ASSUME NEW w, Rules(w), NEW d \in Nat, \A t \in TimersOf(w) : t = Off \/ d <= t
  PROVE  /\ Rules(Later(w, d)) /\ Kept(w, Later(w, d))
         /\ Later(w, d).state = w.state
<1>1. PICK v : v = Later(w, d)
  OBVIOUS
<1>2. /\ DOMAIN w = Fields /\ w.nav \in Nat /\ w.lastSend \in Int /\ w.since \in Int
      /\ w.defer \in Timer /\ w.recv \in Timer /\ w.cts \in Timer /\ w.ack \in Timer
      /\ w.navTimer \in Timer /\ w.netAck \in Timer /\ w.phy \in Timer
      /\ w.ifs \in Nat /\ w.backoff \in Nat
  BY DEF Rules, Sound, Core, Typed
<1>3. /\ v.defer = Less(w.defer, d) /\ v.recv = Less(w.recv, d) /\ v.cts = Less(w.cts, d)
      /\ v.ack = Less(w.ack, d) /\ v.navTimer = Less(w.navTimer, d)
      /\ v.netAck = Less(w.netAck, d) /\ v.phy = Less(w.phy, d)
      /\ v.nav = MaxOf(w.nav - d, 0)
      /\ v.since = (IF w.defer = Off THEN 0 ELSE w.since + d)
      /\ v.lastSend = MaxOf(w.lastSend - d, -DataTime)
      /\ Same(w, v, {"defer", "recv", "cts", "ack", "navTimer", "netAck", "phy", "nav",
                     "since", "lastSend"})
  BY <1>1, <1>2 DEF Later, Same, Fields
<1>4. \A t \in {w.defer, w.recv, w.cts, w.ack, w.navTimer, w.netAck, w.phy} :
        /\ Less(t, d) \in Timer
        /\ Less(t, d) = Off <=> t = Off
        /\ t # Off => Less(t, d) = t - d /\ d <= t
  <2> SUFFICES ASSUME NEW t \in TimersOf(w)
               PROVE  /\ Less(t, d) \in Timer
                      /\ Less(t, d) = Off <=> t = Off
                      /\ t # Off => Less(t, d) = t - d /\ d <= t
    BY DEF TimersOf
  <2>1. t \in Timer /\ (t = Off \/ d <= t)
    BY <1>2 DEF TimersOf
  <2> QED BY <2>1, LessType
<1>5. v.nav \in Nat /\ v.since \in Int /\ v.lastSend \in Int
  BY <1>2, <1>3, TimesType DEF MaxOf
<1>6. Typed(v)
  BY <1>3, <1>4, <1>5 DEF Same, Fields, Rules, Sound, Core, Typed
<1>7. OnAir(v)
  <2>1. v.recv # Off => WellFormed(v.rx)
    BY <1>3, <1>4 DEF Same, Fields, Rules, Sound, Core, OnAir
  <2>2. ASSUME v.phy # Off
        PROVE  WellFormed(v.phyFrame) /\ v.lastSend = v.phy + TxTime(v.phyFrame.type)
    <3>1. PICK t \in Nat : t = TxTime(w.phyFrame.type)
      BY TimesType
    <3>2. /\ w.phy # Off /\ w.phy \in Nat /\ d <= w.phy /\ v.phy = w.phy - d
          /\ WellFormed(w.phyFrame) /\ w.lastSend = w.phy + t /\ v.phyFrame = w.phyFrame
      BY <1>2, <1>3, <1>4, <2>2, <3>1 DEF Same, Fields, Rules, Sound, Core, OnAir, Timer
    <3>3. v.lastSend = w.lastSend - d
      BY <1>2, <1>3, <3>2, TimesType DEF MaxOf
    <3> QED BY <3>1, <3>2, <3>3
  <2> QED BY <2>1, <2>2 DEF OnAir
<1>8. Unfailed(v) /\ Waits(v) /\ Service(v)
  BY <1>3, <1>4 DEF Same, Fields, Rules, Sound, Core, Unfailed, Waits, Service
<1>9. Deferral(v)
  <2>1. v.state # "DEFER" => v.defer = Off
    BY <1>3, <1>4 DEF Same, Fields, Rules, Sound, Deferral
  <2>2. ASSUME v.defer # Off
        PROVE  /\ v.defer + v.since \in {v.ifs, v.ifs + v.backoff}
               /\ v.lastSend <= v.defer /\ v.nav <= v.defer
    <3>1. /\ w.defer # Off /\ w.defer \in Nat /\ d <= w.defer /\ v.defer = w.defer - d
      BY <1>2, <1>3, <1>4, <2>2 DEF Timer
    <3>2. /\ w.defer + w.since \in {w.ifs, w.ifs + w.backoff}
          /\ w.lastSend <= w.defer /\ w.nav <= w.defer
      BY <3>1 DEF Rules, Sound, Deferral
    <3>3. v.since = w.since + d /\ v.ifs = w.ifs /\ v.backoff = w.backoff
      BY <1>3, <3>1 DEF Same, Fields
    <3>4. v.defer + v.since = w.defer + w.since
      BY <1>2, <3>1, <3>3
    <3>5. v.lastSend <= v.defer /\ v.nav <= v.defer
      BY <1>2, <1>3, <3>1, <3>2, TimesType DEF MaxOf
    <3> QED BY <3>2, <3>3, <3>4, <3>5
  <2> QED BY <2>1, <2>2 DEF Deferral
<1>10. /\ Kept(w, v) /\ v.state = w.state
       /\ v.state = "DEFER" => (v.defer = Off <=> v.recv # Off)
  BY <1>3, <1>4 DEF Same, Fields, Kept, Rules
<1> QED BY <1>1, <1>6, <1>7, <1>8, <1>9, <1>10 DEF Rules, Sound, Core

-----------------------------------------------------------------------------
(* The stations together *)

\* The packets answered grow with the answers.
LEMMA FirstsAppend ==
  ASSUME NEW t \in Seq(Payloads \X BOOLEAN), NEW p \in Payloads, NEW ok \in BOOLEAN
  PROVE  /\ Firsts(t) \in Seq(Payloads)
         /\ Firsts(t \o << <<p, ok>> >>) = Firsts(t) \o <<p>>
         /\ t \o << <<p, ok>> >> \in Seq(Payloads \X BOOLEAN)
<1>1. PICK one : one = << <<p, ok>> >>
  OBVIOUS
<1>2. one \in Seq(Payloads \X BOOLEAN) /\ Len(one) = 1 /\ one[1] = <<p, ok>>
  BY <1>1
<1>3. PICK n \in Nat : /\ n = Len(t) /\ DOMAIN t = 1 .. n
                      /\ \A i \in 1 .. n : t[i] \in Payloads \X BOOLEAN
  BY LenProperties
<1>4. PICK u : u = t \o one
  OBVIOUS
<1>5. /\ u \in Seq(Payloads \X BOOLEAN) /\ Len(u) = n + 1 /\ DOMAIN u = 1 .. (n + 1)
      /\ \A i \in 1 .. (n + 1) : u[i] = IF i <= n THEN t[i] ELSE one[i - n]
  BY <1>2, <1>3, <1>4, ConcatProperties, LenProperties
<1>6. /\ DOMAIN Firsts(t) = 1 .. n /\ \A i \in 1 .. n : Firsts(t)[i] = t[i][1]
      /\ Firsts(t) = [i \in 1 .. n |-> t[i][1]]
  BY <1>3 DEF Firsts
<1>7. Firsts(t) \in [1 .. n -> Payloads]
  BY <1>3, <1>6
<1>8. Firsts(t) \in Seq(Payloads) /\ Len(Firsts(t)) = n
  BY <1>3, <1>6, <1>7, SeqDef
<1>9. Firsts(u) \in [1 .. (n + 1) -> Payloads]
      /\ \A i \in 1 .. (n + 1) : Firsts(u)[i] = u[i][1]
  <2>1. \A i \in 1 .. (n + 1) : u[i] \in Payloads \X BOOLEAN
    BY <1>5, ElementOfSeq
  <2> QED BY <1>5, <2>1 DEF Firsts
<1>10. Firsts(u) \in Seq(Payloads) /\ Len(Firsts(u)) = n + 1
  BY <1>3, <1>9, SeqDef
<1>11. PICK v : v = Firsts(t) \o <<p>>
  OBVIOUS
<1>12. <<p>> \in Seq(Payloads) /\ Len(<<p>>) = 1 /\ <<p>>[1] = p
  OBVIOUS
<1>13. /\ v \in Seq(Payloads) /\ Len(v) = n + 1
       /\ \A i \in 1 .. (n + 1) : v[i] = IF i <= n THEN Firsts(t)[i] ELSE <<p>>[i - n]
  BY <1>8, <1>11, <1>12, ConcatProperties
<1>14. ASSUME NEW i \in 1 .. (n + 1) PROVE Firsts(u)[i] = v[i]
  <2>1. CASE i <= n
    <3>1. u[i] = t[i] /\ i \in 1 .. n
      BY <1>5, <2>1
    <3> QED BY <1>6, <1>9, <1>13, <2>1, <3>1
  <2>2. CASE ~(i <= n)
    <3>1. i = n + 1 /\ i - n = 1
      BY <1>3, <2>2
    <3>2. u[i] = <<p, ok>> /\ v[i] = p
      BY <1>2, <1>5, <1>12, <1>13, <2>2, <3>1
    <3> QED BY <1>9, <3>2
  <2> QED BY <2>1, <2>2
<1>15. Firsts(u) = v
  BY <1>10, <1>13, <1>14, SeqEqual
<1> QED BY <1>1, <1>4, <1>5, <1>8, <1>11, <1>15

\* The packets of a network layer: those answered, and those owed.
Ledger(s, t, w, n) == Firsts(t) \o Owed(w) = SubSeq(Traffic[s], 1, n)

\* What is owed is a sequence of packets, the one in the MAC first.
LEMMA OwedType ==
  ASSUME NEW w, Rules(w)
  PROVE  Owed(w) \in Seq(Payloads) /\ (w.busy = TRUE => Owed(w) = <<w.pld>> \o w.queue)
<1>1. w.queue \in Seq(Payloads) /\ w.pld \in Payloads /\ <<w.pld>> \in Seq(Payloads)
  BY DEF Rules, Sound, Core, Typed
<1>2. <<>> \in Seq(Payloads)
  OBVIOUS
<1>3. <<w.pld>> \o w.queue \in Seq(Payloads) /\ <<>> \o w.queue \in Seq(Payloads)
  BY <1>1, <1>2, ConcatProperties
<1> QED BY <1>3 DEF Owed

\* An answer takes from what is owed what it adds to what is answered.
LEMMA TellsLedger ==
  ASSUME NEW s, NEW t \in Seq(Payloads \X BOOLEAN), NEW w, NEW v, Rules(w), Rules(v),
         Tells(w, v), NEW n, Ledger(s, t, w, n)
  PROVE  Ledger(s, t \o v.answers, v, n) /\ t \o v.answers \in Seq(Payloads \X BOOLEAN)
<1>1. CASE v.answers = <<>> /\ Owed(v) = Owed(w)
  <2>1. t \o <<>> = t
    BY ConcatEmptySeq
  <2> QED BY <1>1, <2>1 DEF Ledger
<1>2. CASE /\ \E ok \in BOOLEAN : v.answers = << <<w.pld, ok>> >>
           /\ w.busy = TRUE /\ Owed(v) = w.queue
  <2>1. PICK ok \in BOOLEAN : v.answers = << <<w.pld, ok>> >>
    BY <1>2
  <2>2. w.pld \in Payloads /\ w.queue \in Seq(Payloads) /\ Owed(w) = <<w.pld>> \o w.queue
    BY <1>2, OwedType DEF Rules, Sound, Core, Typed
  <2>3. /\ Firsts(t) \in Seq(Payloads)
        /\ Firsts(t \o v.answers) = Firsts(t) \o <<w.pld>>
        /\ t \o v.answers \in Seq(Payloads \X BOOLEAN)
    BY <2>1, <2>2, FirstsAppend
  <2>4. PICK one \in Seq(Payloads) : one = <<w.pld>>
    <3>1. <<w.pld>> \in Seq(Payloads)
      BY <2>2
    <3> QED BY <3>1
  <2>5. \A x, y, z \in Seq(Payloads) : (x \o y) \o z = x \o (y \o z)
    BY ConcatAssociative
  <2>6. (Firsts(t) \o one) \o w.queue = Firsts(t) \o (one \o w.queue)
    BY <2>2, <2>3, <2>5
  <2>7. Firsts(t \o v.answers) \o Owed(v) = Firsts(t) \o Owed(w)
    BY <1>2, <2>2, <2>3, <2>4, <2>6
  <2> QED BY <2>3, <2>7 DEF Ledger
<1> QED BY <1>1, <1>2 DEF Tells

\* What leaves the station does not matter to it.
LEMMA QuietRules ==
  ASSUME NEW w, Rules(w)
  PROVE  /\ Rules(Quiet(w)) /\ Quiet(w).air = {} /\ Quiet(w).answers = <<>>
         /\ Owed(Quiet(w)) = Owed(w) /\ Quiet(w).state = w.state
         /\ \A f \in w.air : WellFormed(f)
<1>1. PICK v : v = Quiet(w)
  OBVIOUS
<1>2. DOMAIN w = Fields /\ \A f \in w.air : WellFormed(f)
  BY DEF Rules, Sound, Core, Typed
<1>3. v.air = {} /\ v.answers = <<>> /\ Same(w, v, {"air", "up", "answers"})
  BY <1>1, <1>2 DEF Quiet, Same, Fields
<1>4. Typed(v)
  BY <1>3 DEF Same, Fields, Rules, Sound, Core, Typed
<1>5. Unfailed(v) /\ OnAir(v)
  BY <1>3 DEF Same, Fields, Rules, Sound, Core, Unfailed, OnAir
<1>6. Waits(v) /\ Deferral(v) /\ Service(v)
  BY <1>3 DEF Same, Fields, Rules, Sound, Waits, Deferral, Service
<1>7. /\ Owed(v) = Owed(w) /\ v.state = w.state /\ v.recv = w.recv /\ v.defer = w.defer
  BY <1>3 DEF Same, Fields, Owed
<1> QED BY <1>1, <1>2, <1>3, <1>4, <1>5, <1>6, <1>7 DEF Rules, Sound, Core

\* One station goes on: the others, and what was offered, stay as they are.
LEMMA BecomesInv ==
  ASSUME MacInv, NEW s \in Stations, NEW w, Becomes(s, w), Rules(w), NEW n,
         offered' = [offered EXCEPT ![s] = n], n \in 0 .. Len(Traffic[s]),
         Ledger(s, told[s] \o w.answers, w, n),
         told[s] \o w.answers \in Seq(Payloads \X BOOLEAN),
         \A x \in arriving' : x[1] \in Stations /\ WellFormed(x[2])
  PROVE  MacInv' /\ mac'[s].state = w.state
<1>1. /\ DOMAIN mac = Stations /\ told \in [Stations -> Seq(Payloads \X BOOLEAN)]
      /\ mac' = [mac EXCEPT ![s] = Quiet(w)]
      /\ told' = [told EXCEPT ![s] = @ \o w.answers]
  BY DEF MacInv, Becomes
<1>2. DOMAIN mac' = Stations /\ mac'[s] = Quiet(w)
      /\ \A r \in Stations \ {s} : mac'[r] = mac[r]
  BY <1>1
<1>3. told' \in [Stations -> Seq(Payloads \X BOOLEAN)] /\ told'[s] = told[s] \o w.answers
      /\ \A r \in Stations \ {s} : told'[r] = told[r]
  BY <1>1
<1>4. \A r \in Stations : Rules(mac'[r]) /\ mac'[r].air = {} /\ mac'[r].answers = <<>>
  BY <1>2, QuietRules DEF MacInv
<1>5. DOMAIN offered = Stations
  BY DEF MacInv
<1>6. offered'[s] = n /\ \A r \in Stations \ {s} : offered'[r] = offered[r]
  BY <1>5
<1>7. Owed(mac'[s]) = Owed(w) /\ mac'[s].state = w.state
  BY <1>2, QuietRules
<1>8. ASSUME NEW r \in Stations
      PROVE  /\ offered'[r] \in 0 .. Len(Traffic[r])
             /\ Firsts(told'[r]) \o Owed(mac'[r]) = SubSeq(Traffic[r], 1, offered'[r])
  <2>1. CASE r = s
    BY <1>3, <1>6, <1>7, <2>1 DEF Ledger
  <2>2. CASE r # s
    BY <1>2, <1>3, <1>6, <2>2 DEF MacInv
  <2> QED BY <2>1, <2>2
<1>9. offered' \in [Stations -> Nat]
  BY DEF MacInv
<1> QED BY <1>2, <1>3, <1>4, <1>7, <1>8, <1>9 DEF MacInv

\* No station leaves its deferral while the medium is reserved.
NavStep == \A s \in Stations :
             mac[s].state = "DEFER" /\ mac'[s].state # "DEFER" => mac[s].nav = 0

\* A handler that keeps the station's rules keeps those of all.
LEMMA HandlesInv ==
  ASSUME MacInv, NEW s \in Stations, NEW w, Handles(s, w), Rules(w), Tells(mac[s], w),
         mac[s].state = "DEFER" /\ w.state # "DEFER" => mac[s].nav = 0
  PROVE  MacInv' /\ NavStep
<1>1. /\ Becomes(s, w) /\ offered' = offered
      /\ arriving' = arriving \union {<<r, f>> : r \in Hearing[s], f \in w.air}
  BY DEF Handles, Emits
<1>2. DOMAIN mac = Stations /\ mac' = [mac EXCEPT ![s] = Quiet(w)]
  BY <1>1 DEF MacInv, Becomes
<1>3. PICK n : n = offered[s] /\ n \in 0 .. Len(Traffic[s]) /\ Ledger(s, told[s], mac[s], n)
  BY DEF MacInv, Ledger
<1>4. offered' = [offered EXCEPT ![s] = n]
  <2>1. offered \in [Stations -> Nat]
    BY DEF MacInv
  <2> QED BY <1>1, <1>3, <2>1
<1>5. told[s] \in Seq(Payloads \X BOOLEAN) /\ Rules(mac[s])
  BY DEF MacInv
<1>6. /\ Ledger(s, told[s] \o w.answers, w, n)
      /\ told[s] \o w.answers \in Seq(Payloads \X BOOLEAN)
  BY <1>3, <1>5, TellsLedger
<1>7. \A f \in w.air : WellFormed(f)
  BY QuietRules
<1>8. \A x \in arriving' : x[1] \in Stations /\ WellFormed(x[2])
  BY <1>1, <1>7, TrafficAssumption DEF MacInv
<1>9. MacInv' /\ mac'[s].state = w.state
  BY <1>1, <1>3, <1>4, <1>6, <1>8, BecomesInv
<1>10. \A r \in Stations \ {s} : mac'[r] = mac[r]
  BY <1>2
<1> QED BY <1>9, <1>10 DEF NavStep

\* A timer expires.
LEMMA ExpiresInv ==
  ASSUME MacInv, NEW s \in Stations, Expires(s)
  PROVE  MacInv' /\ NavStep
<1>1. Rules(mac[s]) /\ mac[s].answers = <<>> /\ 0 # Off
  BY TimesType DEF MacInv
<1>2. Backoffs(Wider(CWMax - 1)) \subseteq Nat
  BY BackoffsType, WiderType
<1>3. CASE DeferExpires(s)
  <2>1. PICK w : w = DeferTimer(mac[s], s)
    OBVIOUS
  <2>2. mac[s].defer = 0 /\ Handles(s, w)
    BY <1>3, <2>1 DEF DeferExpires
  <2>3. Rules(w) /\ w.answers = <<>> /\ Owed(w) = Owed(mac[s]) /\ mac[s].nav = 0
    BY <1>1, <2>1, <2>2, DeferTimerRules
  <2>4. Tells(mac[s], w)
    BY <2>3 DEF Tells
  <2> QED BY <2>2, <2>3, <2>4, HandlesInv
<1>4. CASE RecvExpires(s)
  <2>1. PICK b \in Backoffs(Wider(CWMax - 1)) :
          mac[s].recv = 0 /\ Handles(s, RecvTimer(mac[s], s, b))
    BY <1>4 DEF RecvExpires, WithBackoff
  <2>2. PICK w : w = RecvTimer(mac[s], s, b)
    OBVIOUS
  <2>3. b \in Nat /\ mac[s].recv # Off /\ Handles(s, w)
    BY <1>1, <1>2, <2>1, <2>2
  <2>4. Done(mac[s], w)
    BY <1>1, <2>2, <2>3, RecvTimerDone
  <2> QED BY <2>3, <2>4, HandlesInv DEF Done
<1>5. CASE CTSExpires(s)
  <2>1. PICK b \in Backoffs(Wider(CWMax - 1)) :
          mac[s].cts = 0 /\ Handles(s, CTSTimer(mac[s], b))
    BY <1>5 DEF CTSExpires, WithBackoff
  <2>2. PICK w : w = CTSTimer(mac[s], b)
    OBVIOUS
  <2>3. b \in Nat /\ Handles(s, w)
    BY <1>2, <2>1, <2>2
  <2>4. /\ Tries(mac[s], w, b, {"cts", "ssrc", "assertFailed"})
        /\ mac[s].state # "DEFER"
    BY <1>1, <2>1, <2>2, <2>3, CTSTimerTries
  <2>5. Rules(w) /\ Tells(mac[s], w)
    BY <1>1, <2>3, <2>4, TriesRules
  <2> QED BY <2>3, <2>4, <2>5, HandlesInv
<1>6. CASE ACKExpires(s)
  <2>1. PICK b \in Backoffs(Wider(CWMax - 1)) :
          mac[s].ack = 0 /\ Handles(s, ACKTimer(mac[s], b))
    BY <1>6 DEF ACKExpires, WithBackoff
  <2>2. PICK w : w = ACKTimer(mac[s], b)
    OBVIOUS
  <2>3. b \in Nat /\ Handles(s, w)
    BY <1>2, <2>1, <2>2
  <2>4. /\ Tries(mac[s], w, b, {"ack", "slrc", "ssrc", "assertFailed"})
        /\ mac[s].state # "DEFER"
    BY <1>1, <2>1, <2>2, <2>3, ACKTimerTries
  <2>5. Rules(w) /\ Tells(mac[s], w)
    BY <1>1, <2>3, <2>4, TriesRules
  <2> QED BY <2>3, <2>4, <2>5, HandlesInv
<1>7. CASE NAVExpires(s)
  <2>1. PICK w : w = NAVTimer(mac[s])
    OBVIOUS
  <2>2. Handles(s, w)
    BY <1>7, <2>1 DEF NAVExpires
  <2>3. Rules(w) /\ Kept(mac[s], w) /\ w.state = mac[s].state
    BY <1>1, <2>1, NAVTimerRules
  <2>4. Tells(mac[s], w)
    BY <1>1, <2>3, KeptTells
  <2> QED BY <2>2, <2>3, <2>4, HandlesInv
<1>8. CASE NetAckExpires(s)
  <2>1. PICK b \in Backoffs(Wider(CWMax - 1)) :
          mac[s].netAck = 0 /\ Handles(s, NetworkAckTimer(mac[s], b))
    BY <1>8 DEF NetAckExpires, WithBackoff
  <2>2. PICK w : w = NetworkAckTimer(mac[s], b)
    OBVIOUS
  <2>3. b \in Nat /\ Handles(s, w)
    BY <1>2, <2>1, <2>2
  <2>4. Rules(w) /\ Tells(mac[s], w) /\ mac[s].state # "DEFER"
    BY <1>1, <2>1, <2>2, <2>3, NetworkAckTimerRules
  <2> QED BY <2>3, <2>4, HandlesInv
<1>9. CASE PhyExpires(s)
  <2>1. PICK w : w = PhyTimer(mac[s])
    OBVIOUS
  <2>2. mac[s].phy # Off /\ Handles(s, w)
    BY <1>1, <1>9, <2>1 DEF PhyExpires
  <2>3. Rules(w) /\ w.answers = <<>> /\ Owed(w) = Owed(mac[s]) /\ w.state = mac[s].state
    BY <1>1, <2>1, <2>2, PhyTimerRules
  <2>4. Tells(mac[s], w)
    BY <2>3 DEF Tells
  <2> QED BY <2>2, <2>3, <2>4, HandlesInv
<1> QED BY <1>3, <1>4, <1>5, <1>6, <1>7, <1>8, <1>9 DEF Expires

\* A packet is handed down.
LEMMA OfferInv ==
  ASSUME MacInv, NEW s \in Stations, Offer(s)
  PROVE  MacInv' /\ NavStep
<1>1. /\ Rules(mac[s]) /\ mac[s].answers = <<>> /\ mac[s].cw \in Int /\ DOMAIN mac = Stations
      /\ told[s] \in Seq(Payloads \X BOOLEAN)
  BY DEF MacInv, Rules, Sound, Core, Typed
<1>2. PICK n \in Nat : n = offered[s] /\ n < Len(Traffic[s])
                       /\ Ledger(s, told[s], mac[s], n)
  BY DEF Offer, MacInv, Ledger
<1>3. PICK S : S = ToSet(Traffic[s]) /\ S \subseteq Payloads
  BY DEF Payloads
<1>4. PICK T \in Seq(S) : T = Traffic[s] /\ Len(T) \in Nat
  BY <1>3, TrafficAssumption, LenProperties
<1>5. n + 1 \in 1 .. Len(T) /\ (n + 1) - 1 = n
  BY <1>2, <1>4
<1>6. PICK p \in Payloads : p = T[n + 1]
  BY <1>3, <1>4, <1>5, ElementOfSeq
<1>7. PICK b \in Backoffs(mac[s].cw) : Becomes(s, QueueIn(mac[s], p, b))
  BY <1>2, <1>4, <1>6 DEF Offer
<1>8. b \in Nat
  BY <1>1, <1>7, BackoffsType
<1>9. PICK w : w = QueueIn(mac[s], p, b)
  OBVIOUS
<1>10. /\ Rules(w) /\ w.answers = <<>> /\ Owed(w) = Owed(mac[s]) \o <<p>>
       /\ mac[s].state = "DEFER" => w.state = "DEFER"
  BY <1>1, <1>8, <1>9, QueueInRules
<1>11. offered' = [offered EXCEPT ![s] = n + 1] /\ arriving' = arriving
  BY <1>2 DEF Offer
<1>12. told[s] \o w.answers = told[s]
  BY <1>1, <1>10, ConcatEmptySeq
<1>13. Ledger(s, told[s], w, n + 1)
  <2>1. SubSeq(T, 1, n + 1) = SubSeq(T, 1, (n + 1) - 1) \o <<T[n + 1]>>
    BY <1>5, SubSeqRecursiveSecond
  <2>2. PICK one \in Seq(Payloads) : one = <<p>>
    <3>1. <<p>> \in Seq(Payloads)
      OBVIOUS
    <3> QED BY <3>1
  <2>3. Firsts(told[s]) \in Seq(Payloads) /\ Owed(mac[s]) \in Seq(Payloads)
    BY <1>1, <1>6, FirstsAppend, OwedType
  <2>4. \A x, y, z \in Seq(Payloads) : (x \o y) \o z = x \o (y \o z)
    BY ConcatAssociative
  <2>5. (Firsts(told[s]) \o Owed(mac[s])) \o one = Firsts(told[s]) \o (Owed(mac[s]) \o one)
    BY <2>2, <2>3, <2>4
  <2>6. SubSeq(T, 1, n + 1) = SubSeq(T, 1, n) \o one
    BY <1>5, <1>6, <2>1, <2>2
  <2> QED BY <1>2, <1>4, <1>10, <2>2, <2>5, <2>6 DEF Ledger
<1>14. \A x \in arriving' : x[1] \in Stations /\ WellFormed(x[2])
  BY <1>11 DEF MacInv
<1>15. n + 1 \in 0 .. Len(Traffic[s])
  BY <1>4, <1>5
<1>16. MacInv' /\ mac'[s].state = w.state
  BY <1>1, <1>7, <1>9, <1>10, <1>11, <1>12, <1>13, <1>14, <1>15, BecomesInv
<1>17. \A r \in Stations \ {s} : mac'[r] = mac[r]
  BY <1>1, <1>7 DEF Becomes
<1> QED BY <1>10, <1>16, <1>17 DEF NavStep

\* A frame begins to arrive.
LEMMA ArriveInv ==
  ASSUME MacInv, NEW s \in Stations, NEW f, Arrive(s, f)
  PROVE  MacInv' /\ NavStep
<1>1. /\ Rules(mac[s]) /\ mac[s].answers = <<>> /\ DOMAIN mac = Stations
      /\ told[s] \in Seq(Payloads \X BOOLEAN)
  BY DEF MacInv
<1>2. WellFormed(f)
  BY DEF Arrive, MacInv
<1>3. PICK err \in BOOLEAN, power \in Powers : Becomes(s, FromPhy(mac[s], f, err, power))
  BY DEF Arrive
<1>4. PICK w : w = FromPhy(mac[s], f, err, power)
  OBVIOUS
<1>5. Rules(w) /\ Kept(mac[s], w) /\ w.state = mac[s].state
  BY <1>1, <1>2, <1>4, FromPhyRules
<1>6. Tells(mac[s], w)
  BY <1>1, <1>5, KeptTells
<1>7. PICK n : n = offered[s] /\ n \in 0 .. Len(Traffic[s]) /\ Ledger(s, told[s], mac[s], n)
  BY DEF MacInv, Ledger
<1>8. offered' = [offered EXCEPT ![s] = n]
  <2>1. offered \in [Stations -> Nat] /\ offered' = offered
    BY DEF MacInv, Arrive
  <2> QED BY <1>7, <2>1
<1>9. /\ Ledger(s, told[s] \o w.answers, w, n)
      /\ told[s] \o w.answers \in Seq(Payloads \X BOOLEAN)
  BY <1>1, <1>5, <1>6, <1>7, TellsLedger
<1>10. \A x \in arriving' : x[1] \in Stations /\ WellFormed(x[2])
  BY DEF Arrive, MacInv
<1>11. MacInv' /\ mac'[s].state = w.state
  BY <1>3, <1>4, <1>5, <1>7, <1>8, <1>9, <1>10, BecomesInv
<1>12. \A r \in Stations \ {s} : mac'[r] = mac[r]
  BY <1>1, <1>3 DEF Becomes
<1> QED BY <1>5, <1>11, <1>12 DEF NavStep

\* A frame is lost.
LEMMA LoseInv ==
  ASSUME MacInv, NEW s, NEW f, Lose(s, f)
  PROVE  MacInv' /\ NavStep
<1>1. mac' = mac /\ offered' = offered /\ told' = told /\ arriving' \subseteq arriving
  BY DEF Lose
<1> QED BY <1>1 DEF MacInv, NavStep

\* The pending timers.
LEMMA PendingIs ==
  \A t : t \in Pending <=> t # Off /\ \E s \in Stations : t \in TimersOf(mac[s])
<1> SUFFICES ASSUME NEW t
             PROVE  t \in UNION {TimersOf(mac[s]) : s \in Stations}
                      <=> \E s \in Stations : t \in TimersOf(mac[s])
  BY Zenon DEF Pending
<1> QED BY Zenon

\* Time passes up to the next timer.
LEMMA ElapseLater ==
  ASSUME MacInv, Elapse
  PROVE  \E least \in Nat :
           /\ mac' = [s \in Stations |-> Later(mac[s], least)]
           /\ \A s \in Stations : \A t \in TimersOf(mac[s]) : t = Off \/ least <= t
<1>1. \A s \in Stations : Rules(mac[s])
  BY DEF MacInv
<1>2. Pending \subseteq Nat
  <2> SUFFICES ASSUME NEW s \in Stations, NEW t \in TimersOf(mac[s]), t # Off
               PROVE  t \in Nat
    BY PendingIs
  <2>1. Typed(mac[s])
    BY <1>1 DEF Rules, Sound, Core
  <2> QED BY <2>1 DEF TimersOf, Typed, Timer
<1>3. PICK d \in Pending : \A t \in Pending : d <= t
  <2>1. Pending # {}
    BY DEF Elapse
  <2>2. PICK m \in Pending : \A t \in Pending : ~(<<t, m>> \in OpToRel(<, Nat))
    BY <1>2, <2>1, NatLessThanWellFounded, WFMin, Zenon
  <2>3. \A t \in Pending : ~(t < m)
    BY <1>2, <2>2, Zenon DEF OpToRel
  <2> QED BY <1>2, <2>3
<1>4. Min(Pending) \in Pending /\ \A t \in Pending : Min(Pending) <= t
  BY <1>3 DEF Min
<1>5. PICK least \in Nat : least = Min(Pending) /\ \A t \in Pending : least <= t
  BY <1>2, <1>4
<1>6. mac' = [s \in Stations |-> Later(mac[s], least)]
  <2>1. mac' = [s \in Stations |-> Later(mac[s], Min(Pending))]
    BY DEF Elapse, Later, Less
  <2> QED BY <1>5, <2>1
<1>7. \A s \in Stations : \A t \in TimersOf(mac[s]) : t = Off \/ least <= t
  BY <1>5, PendingIs
<1> QED BY <1>6, <1>7

LEMMA ElapseInv ==
  ASSUME MacInv, Elapse
  PROVE  MacInv' /\ NavStep
<1>1. \A s \in Stations : Rules(mac[s]) /\ mac[s].answers = <<>> /\ mac[s].air = {}
  BY DEF MacInv
<1>2. PICK least \in Nat :
        /\ mac' = [s \in Stations |-> Later(mac[s], least)]
        /\ \A s \in Stations : \A t \in TimersOf(mac[s]) : t = Off \/ least <= t
  BY ElapseLater
<1>3. ASSUME NEW s \in Stations
      PROVE  /\ Rules(mac'[s]) /\ Kept(mac[s], mac'[s]) /\ mac'[s].state = mac[s].state
  BY <1>1, <1>2, LaterRules
<1>4. \A s \in Stations : /\ mac'[s].answers = <<>> /\ mac'[s].air = {}
                          /\ Owed(mac'[s]) = Owed(mac[s])
  BY <1>1, <1>3 DEF Kept, Owed
<1>5. DOMAIN mac' = Stations
  BY <1>2
<1>6. arriving' = arriving /\ offered' = offered /\ told' = told
  BY DEF Elapse
<1>7. MacInv'
  BY <1>3, <1>4, <1>5, <1>6 DEF MacInv
<1> QED BY <1>3, <1>7 DEF NavStep

\* All stations are idle at first.
LEMMA InitInv == Init => MacInv
<1> SUFFICES ASSUME Init PROVE MacInv
  OBVIOUS
<1>1. /\ mac = [s \in Stations |-> Idle] /\ arriving = {}
      /\ offered = [s \in Stations |-> 0] /\ told = [s \in Stations |-> <<>>]
  BY DEF Init
<1>2. DOMAIN Idle = Fields
  BY DEF Idle, Fields
<1>3. /\ Idle.state = "IDLE" /\ Idle.nav = 0 /\ Idle.cw = CWMin /\ Idle.backoff = 0
      /\ Idle.ifs = 0 /\ Idle.since = 0 /\ Idle.lastSend = 0
      /\ Idle.defer = Off /\ Idle.recv = Off /\ Idle.cts = Off /\ Idle.ack = Off
      /\ Idle.navTimer = Off /\ Idle.netAck = Off /\ Idle.phy = Off
      /\ Idle.busy = FALSE /\ Idle.pld = NoPayload /\ Idle.queue = <<>>
      /\ Idle.air = {} /\ Idle.answers = <<>>
      /\ Idle.assertFailed = FALSE /\ Idle.overlap = FALSE /\ Idle.refused = FALSE
  BY DEF Idle
<1>4. <<>> \in Seq(Payloads) /\ NoPayload \in Payloads /\ <<>> \in Seq(Payloads \X BOOLEAN)
  <2>1. NoPayload \in Payloads
    BY Zenon DEF Payloads
  <2> QED BY <2>1
<1>5. Typed(Idle)
  <2>1. Off \in Timer /\ 0 \in Nat /\ 0 \in Int /\ CWMin \in Nat
    BY TimesType DEF Timer
  <2> QED BY <1>2, <1>3, <1>4, <2>1 DEF Typed
<1>6. Unfailed(Idle) /\ OnAir(Idle) /\ Waits(Idle) /\ Deferral(Idle) /\ Service(Idle)
  BY <1>3 DEF Unfailed, OnAir, Waits, Deferral, Service
<1>7. Rules(Idle)
  BY <1>3, <1>5, <1>6 DEF Rules, Sound, Core
<1>8. ASSUME NEW s \in Stations
      PROVE  /\ offered[s] \in 0 .. Len(Traffic[s])
             /\ Firsts(told[s]) \o Owed(mac[s]) = SubSeq(Traffic[s], 1, offered[s])
  <2>1. Len(Traffic[s]) \in Nat
    BY TrafficAssumption, LenProperties
  <2>2. <<>> \o <<>> = <<>>
    BY <1>4, ConcatEmptySeq
  <2>3. Owed(mac[s]) = <<>>
    BY <1>1, <1>3, <2>2 DEF Owed
  <2>4. Firsts(told[s]) = <<>>
    BY <1>1 DEF Firsts
  <2>5. SubSeq(Traffic[s], 1, 0) = <<>>
    BY SubSeqEmpty
  <2> QED BY <1>1, <2>1, <2>2, <2>3, <2>4, <2>5
<1>9. offered \in [Stations -> Nat] /\ told \in [Stations -> Seq(Payloads \X BOOLEAN)]
  BY <1>1, <1>4
<1>10. \A s \in Stations : Rules(mac[s]) /\ mac[s].air = {} /\ mac[s].answers = <<>>
  BY <1>1, <1>3, <1>7
<1> QED BY <1>1, <1>8, <1>9, <1>10 DEF MacInv

\* One case per action.
LEMMA StepInv == MacInv /\ [Next]_vars => MacInv' /\ [NavStep]_vars
<1> SUFFICES ASSUME MacInv, [Next]_vars PROVE MacInv' /\ (NavStep \/ vars' = vars)
  OBVIOUS
<1>1. CASE \E s \in Stations : Offer(s) \/ Expires(s)
  BY <1>1, OfferInv, ExpiresInv
<1>2. CASE \E x \in arriving : Arrive(x[1], x[2]) \/ Lose(x[1], x[2])
  <2>1. PICK x \in arriving : Arrive(x[1], x[2]) \/ Lose(x[1], x[2])
    BY <1>2
  <2>2. x[1] \in Stations
    BY <2>1 DEF MacInv
  <2> QED BY <2>1, <2>2, ArriveInv, LoseInv
<1>3. CASE Elapse
  BY <1>3, ElapseInv
<1>4. CASE UNCHANGED vars
  BY <1>4 DEF MacInv, vars
<1> QED BY <1>1, <1>2, <1>3, <1>4 DEF Next

(* The invariant of the stations together: each keeps its rules, and what a     *)
(* network layer has handed down is answered or owed, in order.                 *)
THEOREM StationsKeepRules == Spec => []MacInv
BY InitInv, StepInv, PTL DEF Spec

(* No assertion of MAC80211 fails, no transmission begins during another one    *)
(* of the same station, and the queue never hands a packet to a MAC that is not *)
(* idle.                                                                        *)
THEOREM NoAssertFails == Spec => []AssertsHold
<1>1. MacInv => AssertsHold
  BY DEF MacInv, Rules, Sound, Core, Unfailed, AssertsHold
<1> QED BY <1>1, StationsKeepRules, PTL

(* The queue and the MAC answer every packet once and in the order in which the *)
(* network layer handed it down.                                                *)
THEOREM AnswersInOrder == Spec => []AnsweredOnceInOrder
<1>1. ASSUME MacInv, NEW s \in Stations
      PROVE  [i \in DOMAIN told[s] |-> told[s][i][1]]
               \o (IF mac[s].busy THEN <<mac[s].pld>> ELSE <<>>) \o mac[s].queue
             = SubSeq(Traffic[s], 1, offered[s])
  <2>1. /\ told[s] \in Seq(Payloads \X BOOLEAN) /\ mac[s].pld \in Payloads
        /\ mac[s].queue \in Seq(Payloads) /\ mac[s].busy \in BOOLEAN
        /\ Firsts(told[s]) \o Owed(mac[s]) = SubSeq(Traffic[s], 1, offered[s])
    BY <1>1 DEF MacInv, Rules, Sound, Core, Typed
  <2>2. Firsts(told[s]) \in Seq(Payloads)
    BY <2>1, FirstsAppend
  <2>3. PICK first \in Seq(Payloads) : first = IF mac[s].busy THEN <<mac[s].pld>> ELSE <<>>
    <3>1. <<mac[s].pld>> \in Seq(Payloads) /\ <<>> \in Seq(Payloads)
      BY <2>1
    <3> QED BY <3>1
  <2>4. Owed(mac[s]) = first \o mac[s].queue
    BY <2>1, <2>3 DEF Owed
  <2>5. (Firsts(told[s]) \o first) \o mac[s].queue = Firsts(told[s]) \o (first \o mac[s].queue)
    <3>1. \A x, y, z \in Seq(Payloads) : (x \o y) \o z = x \o (y \o z)
      BY ConcatAssociative
    <3> QED BY <2>1, <2>2, <3>1
  <2> QED BY <2>1, <2>3, <2>4, <2>5 DEF Firsts
<1>2. MacInv => AnsweredOnceInOrder
  BY <1>1 DEF AnsweredOnceInOrder
<1> QED BY <1>2, StationsKeepRules, PTL

(* When no timer is set and no frame on its way, every packet handed down has   *)
(* been answered: whoever waits has a timer, or a frame coming in.              *)
THEOREM AllAnswered == Spec => []NothingLeftBehind
<1>1. ASSUME MacInv, Pending = {}, NEW s \in Stations
      PROVE  Len(told[s]) = offered[s]
  <2>1. PICK w : w = mac[s]
    OBVIOUS
  <2>2. /\ w.defer = Off /\ w.recv = Off /\ w.cts = Off /\ w.ack = Off /\ w.netAck = Off
    <3>1. \A t \in TimersOf(w) : t = Off
      BY <1>1, <2>1, PendingIs
    <3> QED BY <3>1 DEF TimersOf
  <2>3. w.state = "IDLE" /\ w.busy = FALSE /\ w.queue = <<>>
    BY <1>1, <2>1, <2>2 DEF MacInv, Rules, Sound, Core, Typed, Waits, Service
  <2>4. <<>> \in Seq(Payloads)
    OBVIOUS
  <2>5. Owed(w) = <<>>
    BY <2>3, <2>4, ConcatEmptySeq DEF Owed
  <2>6. told[s] \in Seq(Payloads \X BOOLEAN) /\ offered[s] \in 0 .. Len(Traffic[s])
        /\ Firsts(told[s]) \o Owed(w) = SubSeq(Traffic[s], 1, offered[s])
    BY <1>1, <2>1 DEF MacInv
  <2>7. Firsts(told[s]) \in Seq(Payloads)
    <3>1. NoPayload \in Payloads /\ TRUE \in BOOLEAN
      BY Zenon DEF Payloads
    <3> QED BY <2>6, <3>1, FirstsAppend
  <2>8. Firsts(told[s]) = SubSeq(Traffic[s], 1, offered[s])
    BY <2>5, <2>6, <2>7, ConcatEmptySeq
  <2>9. PICK S : S = ToSet(Traffic[s])
    OBVIOUS
  <2>10. Traffic[s] \in Seq(S) /\ Len(Traffic[s]) \in Nat
    BY <2>9, TrafficAssumption, LenProperties
  <2>11. offered[s] \in Nat /\ \A i \in 1 .. offered[s] : Traffic[s][i] \in S
    BY <2>6, <2>10, ElementOfSeq
  <2>12. Len(SubSeq(Traffic[s], 1, offered[s])) = offered[s]
    BY <2>11, SubSeqProperties
  <2>13. Len(Firsts(told[s])) = Len(told[s])
    <3>1. PICK n \in Nat : n = Len(told[s]) /\ DOMAIN told[s] = 1 .. n
      BY <2>6, LenProperties
    <3>2. DOMAIN Firsts(told[s]) = 1 .. n
      BY <3>1 DEF Firsts
    <3>3. DOMAIN Firsts(told[s]) = 1 .. Len(Firsts(told[s])) /\ Len(Firsts(told[s])) \in Nat
      BY <2>7, LenProperties
    <3> QED BY <3>1, <3>2, <3>3
  <2> QED BY <2>8, <2>12, <2>13
<1>2. MacInv => NothingLeftBehind
  BY <1>1 DEF NothingLeftBehind
<1> QED BY <1>2, StationsKeepRules, PTL

(* A station whose deferral ends, and which sends, has no reservation before    *)
(* it that it heard of: a deferral lasts at least as long as the reservation.   *)
THEOREM ReservationsKept == Spec => NavRespected
<1>1. MacInv /\ [Next]_vars =>
        [\A s \in Stations : mac[s].state = "DEFER" /\ mac'[s].state # "DEFER"
                              => mac[s].nav = 0]_vars
  BY StepInv DEF NavStep
<1> QED BY <1>1, StationsKeepRules, PTL DEF Spec, NavRespected

-----------------------------------------------------------------------------
(* Frames under way *)

\* A frame is under way to those it begins to arrive at, to those who receive
\* it, and, while SIFS passes, to the one it is addressed to.
UnderWay(m, arr, r, f) ==
  \/ <<r, f>> \in arr
  \/ r \in Stations /\ m[r].recv # Off /\ m[r].rx = f
  \/ r = f.dst /\ f.src \in Stations /\ m[f.src].phy # Off /\ m[f.src].phyFrame = f

\* What a sender w waits for while its frame f is under way.
Sent(w, f) ==
  /\ f.type = "DATA" =>
       f.dst = f.pld.dst /\ f.pld = Traffic[f.src][f.seq] /\ f.seq \in 1 .. w.seq
  /\ f.type = "DATA" /\ f.dst # Broadcast =>
       w.state = "ACK" /\ f.seq = w.seq /\ w.ack = w.lastSend + SIFS + ControlTime + DIFS
  /\ f.type = "RTS" => /\ w.state = "CTS" /\ f.dst = w.pld.dst /\ f.dst # Broadcast
                       /\ w.cts = w.lastSend + 4 * SIFS + ControlTime + DataTime
  /\ f.type \in {"CTS", "ACK"} => f.dst \in Stations

\* What w still has time for when an answer f to it is complete in t ticks, and
\* what an ACK stands for.
Due(w, t, f, passed) ==
  /\ f.type = "CTS" => /\ w.state = "CTS" /\ f.src = w.pld.dst
                       /\ w.cts = t + 3 * SIFS + DataTime
  /\ f.type = "ACK" => /\ w.state = "ACK" /\ f.src = w.pld.dst
                       /\ w.ack = t + DIFS /\ w.pld \in passed

\* A station has one frame under way at a time, and lastSend tells when it ends.
Flight(m, arr, g) ==
  /\ \A r, f : <<r, f>> \in arr => m[f.src].lastSend = TxTime(f.type)
  /\ \A r \in Stations : m[r].recv # Off => m[r].recv = m[m[r].rx.src].lastSend
  /\ \A s \in Stations : m[s].phy # Off => m[s].phyFrame.src = s
  /\ \A r, f : UnderWay(m, arr, r, f) => f.src \in Stations /\ Sent(m[f.src], f)
  /\ \A r, f : UnderWay(m, arr, r, f) /\ f.type = "DATA" =>
       \A q \in Stations : m[q].cache[f.src] <= f.seq
  /\ \A r, f : UnderWay(m, arr, r, f) /\ f.dst = r /\ r \in Stations =>
       Due(m[r], m[f.src].lastSend, f, ToSet(g[f.src]))
  /\ \A r, q, f, k : UnderWay(m, arr, r, f) /\ UnderWay(m, arr, q, k) /\ f.src = k.src
       => f = k

\* A frame that is under way ends now or later, and now only where it is heard.
LEMMA Left ==
  ASSUME NEW m, NEW arr, NEW g, Flight(m, arr, g), \A q \in Stations : Rules(m[q]),
         NEW r, NEW f, UnderWay(m, arr, r, f)
  PROVE  /\ f.src \in Stations /\ m[f.src].lastSend \in Nat
         /\ \/ m[f.src].lastSend > 0
            \/ r \in Stations /\ m[r].recv = m[f.src].lastSend /\ m[r].rx = f /\ m[r].recv # Off
<1>1. f.src \in Stations
  BY DEF Flight
<1>2. CASE <<r, f>> \in arr
  <2>1. m[f.src].lastSend = TxTime(f.type)
    BY <1>2 DEF Flight
  <2> QED BY <1>1, <2>1, TimesType
<1>3. CASE r \in Stations /\ m[r].recv # Off /\ m[r].rx = f
  <2>1. m[r].recv = m[f.src].lastSend
    BY <1>3 DEF Flight
  <2>2. m[r].recv \in Nat
    BY <1>3 DEF Rules, Sound, Core, Typed, Timer
  <2> QED BY <1>1, <1>3, <2>1, <2>2
<1>4. CASE m[f.src].phy # Off /\ m[f.src].phyFrame = f
  <2>1. PICK t \in Nat : t = TxTime(f.type) /\ t > 0
    BY TimesType
  <2>2. m[f.src].phy \in Nat /\ m[f.src].lastSend = m[f.src].phy + t
    BY <1>1, <1>4, <2>1 DEF Rules, Sound, Core, Typed, OnAir, Timer
  <2> QED BY <1>1, <2>1, <2>2
<1> QED BY <1>2, <1>3, <1>4 DEF UnderWay

\* After a step of station s, what is under way was so before or is sent by it.
LEMMA StillUnderWay ==
  ASSUME NEW m, NEW n, NEW arr, NEW brr, NEW s \in Stations, NEW v, NEW fresh,
         n[s] = v, \A q \in Stations \ {s} : n[q] = m[q],
         \A r, f : <<r, f>> \in brr => <<r, f>> \in arr \/ f \in fresh,
         v.recv # Off => \/ v.recv = m[s].recv /\ v.rx = m[s].rx
                         \/ <<s, v.rx>> \in arr,
         v.phy # Off => \/ v.phyFrame \in fresh
                        \/ m[s].phy # Off /\ v.phyFrame = m[s].phyFrame
  PROVE  \A r, f : UnderWay(n, brr, r, f) => UnderWay(m, arr, r, f) \/ f \in fresh
<1> SUFFICES ASSUME NEW r, NEW f, UnderWay(n, brr, r, f)
             PROVE  UnderWay(m, arr, r, f) \/ f \in fresh
  OBVIOUS
<1>1. CASE <<r, f>> \in brr
  BY <1>1 DEF UnderWay
<1>2. CASE r \in Stations /\ n[r].recv # Off /\ n[r].rx = f
  BY <1>2 DEF UnderWay
<1>3. CASE r = f.dst /\ f.src \in Stations /\ n[f.src].phy # Off /\ n[f.src].phyFrame = f
  BY <1>3 DEF UnderWay
<1> QED BY <1>1, <1>2, <1>3 DEF UnderWay

\* One station goes from m[s] to v, and the others stay.
Moves(m, n, s, v) == n[s] = v /\ \A q \in Stations \ {s} : n[q] = m[q]

\* It sends the frames `fresh', none or one, and then waits for what it must.
Flies(m, n, arr, brr, h, s, v, fresh) ==
  /\ \A r, f : <<r, f>> \in brr => \/ <<r, f>> \in arr
                                   \/ f \in fresh /\ v.lastSend = TxTime(f.type)
  /\ v.recv # Off => \/ v.recv = m[s].recv /\ v.rx = m[s].rx
                     \/ <<s, v.rx>> \in arr /\ v.recv = TxTime(v.rx.type)
  /\ v.phy # Off => \/ v.phyFrame \in fresh
                    \/ m[s].phy # Off /\ v.phyFrame = m[s].phyFrame
  /\ \A f \in fresh : f.src = s /\ Sent(v, f)
  /\ \A f, k \in fresh : f = k
  /\ \A f \in fresh : \A r, k : UnderWay(m, arr, r, k) /\ k.src = s => k = f
  /\ v.lastSend # m[s].lastSend => \A r, f : UnderWay(m, arr, r, f) => f.src # s
  /\ \A r, f : UnderWay(m, arr, r, f) /\ f.src = s => Sent(v, f)
  /\ \A f \in fresh : f.dst \in Stations => Due(n[f.dst], v.lastSend, f, ToSet(h[s]))
  /\ \A f : UnderWay(n, brr, s, f) /\ f \notin fresh /\ f.dst = s =>
       Due(v, n[f.src].lastSend, f, ToSet(h[f.src]))
  /\ \A r, f : UnderWay(n, brr, r, f) /\ f.type = "DATA" => v.cache[f.src] <= f.seq
  /\ \A f \in fresh : f.type = "DATA" => \A q \in Stations : m[q].cache[s] <= f.seq

\* What is under way keeps its order when a station goes on as v and sends what is fresh.
LEMMA FlightStep ==
  ASSUME NEW m, NEW n, NEW arr, NEW brr, NEW g, NEW h, NEW s \in Stations, NEW v, NEW fresh,
         Flight(m, arr, g), Moves(m, n, s, v), Flies(m, n, arr, brr, h, s, v, fresh),
         \A q \in Stations : ToSet(g[q]) \subseteq ToSet(h[q])
  PROVE  Flight(n, brr, h)
<1>1. n[s] = v /\ \A q \in Stations \ {s} : n[q] = m[q]
  BY DEF Moves
<1>2. \A r, f : UnderWay(n, brr, r, f) => UnderWay(m, arr, r, f) \/ f \in fresh
  <2>1. \A r, f : <<r, f>> \in brr => <<r, f>> \in arr \/ f \in fresh
    BY DEF Flies
  <2>2. v.recv # Off => \/ v.recv = m[s].recv /\ v.rx = m[s].rx
                        \/ <<s, v.rx>> \in arr
    BY DEF Flies
  <2>3. v.phy # Off => \/ v.phyFrame \in fresh
                       \/ m[s].phy # Off /\ v.phyFrame = m[s].phyFrame
    BY DEF Flies
  <2> QED BY ONLY <2>1, <2>2, <2>3, <1>1, s \in Stations, StillUnderWay
<1>3. \A r, f : UnderWay(m, arr, r, f) => n[f.src].lastSend = m[f.src].lastSend
  BY <1>1 DEF Flight, Flies
<1>4. \A r, f : UnderWay(n, brr, r, f) => f.src \in Stations /\ Sent(n[f.src], f)
  BY <1>2, <1>1 DEF Flight, Flies
<1>5. \A r, f : <<r, f>> \in brr => n[f.src].lastSend = TxTime(f.type)
  <2> SUFFICES ASSUME NEW r, NEW f, <<r, f>> \in brr PROVE n[f.src].lastSend = TxTime(f.type)
    OBVIOUS
  <2>1. CASE <<r, f>> \in arr
    BY <1>3, <2>1 DEF Flight, UnderWay
  <2>2. CASE f \in fresh /\ v.lastSend = TxTime(f.type)
    BY <2>2, <1>1 DEF Flies
  <2> QED BY <2>1, <2>2 DEF Flies
<1>6. ASSUME NEW r \in Stations, n[r].recv # Off
      PROVE  n[r].recv = n[n[r].rx.src].lastSend
  <2>1. CASE r # s \/ (v.recv = m[s].recv /\ v.rx = m[s].rx)
    <3>1. m[r].recv # Off /\ n[r].recv = m[r].recv /\ n[r].rx = m[r].rx
      BY <1>6, <2>1, <1>1 DEF Flies
    <3>2. UnderWay(m, arr, r, m[r].rx)
      BY <3>1 DEF UnderWay
    <3> QED BY <1>3, <3>1, <3>2 DEF Flight
  <2>2. CASE r = s /\ <<s, v.rx>> \in arr /\ v.recv = TxTime(v.rx.type)
    <3>1. UnderWay(m, arr, s, v.rx)
      BY <2>2 DEF UnderWay
    <3> QED BY <1>1, <1>3, <2>2, <3>1 DEF Flight
  <2> QED BY <1>1, <1>6, <2>1, <2>2 DEF Flies
<1>7. \A q \in Stations : n[q].phy # Off => n[q].phyFrame.src = q
  BY <1>1 DEF Flight, Flies
<1>8. ASSUME NEW r, NEW f, UnderWay(n, brr, r, f), f.type = "DATA", NEW q \in Stations
      PROVE  n[q].cache[f.src] <= f.seq
  BY <1>2, <1>8, <1>1 DEF Flight, Flies
<1>9. ASSUME NEW r \in Stations, NEW f, UnderWay(n, brr, r, f), f.dst = r
      PROVE  Due(n[r], n[f.src].lastSend, f, ToSet(h[f.src]))
  <2>1. CASE f \in fresh
    BY <1>9, <2>1, <1>1 DEF Flies
  <2>2. CASE f \notin fresh /\ r = s
    BY <1>9, <2>2, <1>1 DEF Flies
  <2>3. CASE f \notin fresh /\ r # s
    <3>1. UnderWay(m, arr, r, f) /\ n[r] = m[r]
      BY <1>2, <1>9, <2>3, <1>1 DEF Flies
    <3>2. Due(m[r], m[f.src].lastSend, f, ToSet(g[f.src])) /\ f.src \in Stations
      BY <1>9, <3>1, <1>1 DEF Flight, Flies
    <3>3. ToSet(g[f.src]) \subseteq ToSet(h[f.src])
      BY <3>2
    <3>4. Due(m[r], m[f.src].lastSend, f, ToSet(h[f.src]))
      BY <3>2, <3>3 DEF Due
    <3> QED BY <1>3, <3>1, <3>4
  <2> QED BY <2>1, <2>2, <2>3
<1>10. ASSUME NEW r, NEW q, NEW f, NEW k, UnderWay(n, brr, r, f), UnderWay(n, brr, q, k),
              f.src = k.src
       PROVE  f = k
  <2>1. CASE f \notin fresh /\ k \notin fresh
    BY <1>2, <1>10, <2>1, <1>1 DEF Flight, Flies
  <2>2. CASE f \in fresh
    BY <1>2, <1>10, <2>2, <1>1 DEF Flies
  <2>3. CASE k \in fresh
    BY <1>2, <1>10, <2>3, <1>1 DEF Flies
  <2> QED BY <2>1, <2>2, <2>3
<1> QED BY <1>4, <1>5, <1>6, <1>7, <1>8, <1>9, <1>10 DEF Flight

-----------------------------------------------------------------------------
(* What a station keeps count of *)

\* A deferral that is to end after the station's own frame leaves DIFS between.
Gap(w) == w.defer # Off /\ w.lastSend >= 0 => w.defer >= w.lastSend + DIFS

\* What the MAC notes of its packet.
Noted(w) == /\ w.long => w.pld.dst # Broadcast
            /\ w.netAck # Off => w.pld.dst = Broadcast

\* With n packets answered, seq is the number of the packet in the MAC.
Own(w, n) == /\ w.seq = n + (IF w.busy = TRUE THEN 1 ELSE 0)
             /\ Noted(w) /\ Gap(w)

Deferred == {"assertFailed", "backoff", "state", "ifs", "since", "defer"}

\* What a step changes that sends no frame, receives none and passes none up.
Inner == Deferred \union {"long", "pld", "seq", "ssrc", "slrc", "queue", "busy", "answers",
                          "cw", "cts", "ack", "netAck"}

\* Both spaces last DIFS or more.
LEMMA IFSLong == \A w : IFS(w) \in Nat /\ IFS(w) >= DIFS
BY TimesType DEF IFS, EIFS

\* StartDefer
LEMMA StartDeferIs ==
  ASSUME NEW w, Free(w), NEW backoff \in BOOLEAN, NEW b \in Nat
  PROVE  /\ Same(w, StartDefer(w, backoff, b), Deferred)
         /\ StartDefer(w, backoff, b).state = "DEFER"
         /\ Gap(StartDefer(w, backoff, b))
<1>1. PICK v : v = StartDefer(w, backoff, b)
  OBVIOUS
<1>2. /\ DOMAIN w = Fields /\ w.lastSend \in Int /\ w.nav \in Nat /\ w.defer = Off
  BY DEF Free, Core, Typed
<1>3. PICK from \in Nat, ifs \in Nat :
        from = DeferFrom(w) /\ ifs = IFS(w) /\ w.lastSend <= from /\ ifs >= DIFS
  BY <1>2, DeferFromType, IFSLong
<1>4. PICK u : u = [Asserted(w, w.state # "DEFER" /\ w.defer = Off) EXCEPT
                      !.backoff = b, !.state = "DEFER"]
  OBVIOUS
<1>5. u.state = "DEFER" /\ Same(w, u, Deferred) /\ u.defer = Off /\ u.lastSend = w.lastSend
  BY <1>2, <1>4 DEF Asserted, Same, Fields, Deferred
<1>6. CASE w.recv # Off
  BY <1>1, <1>4, <1>5, <1>6 DEF StartDefer, Gap
<1>7. CASE w.recv = Off
  <2>1. v = [u EXCEPT !.ifs = ifs, !.since = -from,
                      !.defer = from + ifs + (IF backoff THEN b ELSE 0)]
    BY <1>1, <1>3, <1>4, <1>7 DEF StartDefer
  <2>2. /\ v.state = "DEFER" /\ Same(w, v, Deferred) /\ v.lastSend = w.lastSend
        /\ v.defer = from + ifs + (IF backoff THEN b ELSE 0)
    BY <1>5, <2>1 DEF Same, Fields, Deferred
  <2>3. Gap(v)
    BY <1>2, <1>3, <2>2, TimesType DEF Gap
  <2> QED BY <1>1, <2>2, <2>3
<1> QED BY <1>6, <1>7

\* ResumeDefer
LEMMA ResumeDeferIs ==
  ASSUME NEW w, Sound(w), w.defer = Off
  PROVE  /\ Same(w, ResumeDefer(w), {"assertFailed", "ifs", "since", "defer"})
         /\ Gap(ResumeDefer(w))
<1>1. PICK v : v = ResumeDefer(w)
  OBVIOUS
<1>2. /\ DOMAIN w = Fields /\ w.lastSend \in Int /\ w.nav \in Nat /\ w.backoff \in Nat
  BY DEF Sound, Core, Typed
<1>3. CASE w.state # "DEFER"
  BY <1>2, <1>3 DEF ResumeDefer, Gap, Same
<1>4. CASE w.state = "DEFER"
  <2>1. PICK from \in Nat, ifs \in Nat :
          from = DeferFrom(w) /\ ifs = IFS(w) /\ w.lastSend <= from /\ ifs >= DIFS
    BY <1>2, DeferFromType, IFSLong
  <2>2. v = [Asserted(w, w.defer = Off) EXCEPT !.ifs = ifs, !.since = -from,
                                               !.defer = from + ifs + w.backoff]
    BY <1>1, <1>4, <2>1 DEF ResumeDefer
  <2>3. /\ Same(w, v, {"assertFailed", "ifs", "since", "defer"})
        /\ v.defer = from + ifs + w.backoff /\ v.lastSend = w.lastSend
    BY <1>2, <2>2 DEF Asserted, Same, Fields
  <2>4. Gap(v)
    BY <1>2, <2>1, <2>3, TimesType DEF Gap
  <2> QED BY <1>1, <2>3, <2>4
<1> QED BY <1>3, <1>4

\* A packet that an idle MAC takes gets the next number.
LEMMA FromNetworkIs ==
  ASSUME NEW w, Free(w), w.state = "IDLE", NEW p \in Payloads, NEW b \in Nat, w.seq \in Nat
  PROVE  /\ Same(w, FromNetwork(w, p, b), Inner)
         /\ FromNetwork(w, p, b).busy = TRUE /\ FromNetwork(w, p, b).answers = w.answers
         /\ FromNetwork(w, p, b).seq = w.seq + 1
         /\ Noted(FromNetwork(w, p, b)) /\ Gap(FromNetwork(w, p, b))
<1>1. PICK short : short = (~p.long \/ p.dst = Broadcast)
  OBVIOUS
<1>2. PICK u : u = [w EXCEPT !.long = ~short, !.pld = p, !.seq = @ + 1,
                             !.ssrc = IF short THEN 0 ELSE @,
                             !.slrc = IF short THEN @ ELSE 0]
  OBVIOUS
<1>3. DOMAIN w = Fields /\ w.busy = TRUE /\ w.netAck = Off
  BY DEF Free, Core, Typed
<1>4. /\ Same(w, u, {"long", "pld", "seq", "ssrc", "slrc"})
      /\ u.long = ~short /\ u.pld = p /\ u.seq = w.seq + 1
  BY <1>2, <1>3 DEF Same, Fields
<1>5. Free(u)
  <2>1. Typed(u)
    BY <1>4 DEF Same, Fields, Free, Core, Typed
  <2>2. Unfailed(u) /\ OnAir(u)
    BY <1>4 DEF Same, Fields, Free, Core, Unfailed, OnAir
  <2>3. u.defer = Off /\ u.cts = Off /\ u.ack = Off /\ u.netAck = Off /\ u.busy = TRUE
    BY <1>4 DEF Same, Fields, Free
  <2> QED BY <2>1, <2>2, <2>3 DEF Free, Core
<1>6. PICK v : v = StartDefer(u, FALSE, b)
  OBVIOUS
<1>7. Same(u, v, Deferred) /\ Gap(v)
  BY <1>5, <1>6, StartDeferIs
<1>8. Same(w, v, Inner)
  BY <1>4, <1>7 DEF Same, Fields, Deferred, Inner
<1>9. /\ v.busy = TRUE /\ v.answers = w.answers /\ v.seq = w.seq + 1
      /\ v.long = ~short /\ v.pld = p /\ v.netAck = Off
  BY <1>3, <1>4, <1>7 DEF Same, Fields, Deferred
<1>10. Noted(v)
  BY <1>1, <1>9 DEF Noted
<1>11. v = FromNetwork(w, p, b)
  BY <1>1, <1>2, <1>6 DEF FromNetwork
<1> QED BY <1>7, <1>8, <1>9, <1>10, <1>11

\* The next packet of the queue, or none.
LEMMA QueueNextIs ==
  ASSUME NEW w, Free(w), w.state = "IDLE", NEW b \in Nat, w.seq \in Nat, Noted(w)
  PROVE  /\ Same(w, QueueNext(w, b), Inner)
         /\ QueueNext(w, b).answers = w.answers
         /\ QueueNext(w, b).seq = w.seq + (IF QueueNext(w, b).busy = TRUE THEN 1 ELSE 0)
         /\ Noted(QueueNext(w, b)) /\ Gap(QueueNext(w, b))
<1>1. DOMAIN w = Fields /\ w.queue \in Seq(Payloads) /\ w.defer = Off /\ w.busy = TRUE
  BY DEF Free, Core, Typed
<1>2. PICK v : v = QueueNext(w, b)
  OBVIOUS
<1>3. CASE w.queue # <<>>
  <2>1. PICK u : u = [w EXCEPT !.queue = Tail(@)]
    OBVIOUS
  <2>2. Head(w.queue) \in Payloads /\ Tail(w.queue) \in Seq(Payloads)
    BY <1>1, <1>3, OneAndRest
  <2>3. u.queue = Tail(w.queue) /\ Same(w, u, {"queue"})
    BY <1>1, <2>1 DEF Same, Fields
  <2>4. Free(u) /\ u.state = "IDLE" /\ u.seq = w.seq /\ u.answers = w.answers
    <3>1. Typed(u)
      BY <2>2, <2>3 DEF Same, Fields, Free, Core, Typed
    <3>2. Unfailed(u) /\ OnAir(u)
      BY <2>3 DEF Same, Fields, Free, Core, Unfailed, OnAir
    <3>3. /\ u.defer = Off /\ u.cts = Off /\ u.ack = Off /\ u.netAck = Off /\ u.busy = TRUE
          /\ u.state = "IDLE" /\ u.seq = w.seq /\ u.answers = w.answers
      BY <2>3 DEF Same, Fields, Free
    <3> QED BY <3>1, <3>2, <3>3 DEF Free, Core
  <2>5. v = FromNetwork(u, Head(w.queue), b)
    BY <1>2, <1>3, <2>1 DEF QueueNext
  <2>6. /\ Same(u, v, Inner) /\ v.busy = TRUE /\ v.answers = u.answers
        /\ v.seq = u.seq + 1 /\ Noted(v) /\ Gap(v)
    BY <2>2, <2>4, <2>5, FromNetworkIs
  <2>7. Same(w, v, Inner)
    BY <2>3, <2>6 DEF Same, Fields, Deferred, Inner
  <2> QED BY <1>2, <2>4, <2>6, <2>7
<1>4. CASE w.queue = <<>>
  <2>1. v = [w EXCEPT !.busy = FALSE]
    BY <1>2, <1>4 DEF QueueNext
  <2>2. v.busy = FALSE /\ Same(w, v, {"busy"})
    BY <1>1, <2>1 DEF Same, Fields
  <2>3. /\ Same(w, v, Inner) /\ v.answers = w.answers /\ v.seq = w.seq /\ v.defer = Off
        /\ v.long = w.long /\ v.pld = w.pld /\ v.netAck = w.netAck
    BY <1>1, <2>2 DEF Same, Fields, Deferred, Inner
  <2> QED BY <1>2, <2>2, <2>3 DEF Noted, Gap
<1> QED BY <1>3, <1>4

\* An answer, and the next packet.
LEMMA ToNetworkAckIs ==
  ASSUME NEW w, Free(w), w.state = "IDLE", w.answers = <<>>, NEW b \in Nat,
         NEW ok \in BOOLEAN, NEW n \in Nat, Own(w, n)
  PROVE  /\ Same(w, ToNetworkAck(w, ok, b), Inner)
         /\ ToNetworkAck(w, ok, b).answers = << <<w.pld, ok>> >>
         /\ ToNetworkAck(w, ok, b).seq >= w.seq
         /\ Own(ToNetworkAck(w, ok, b), n + 1)
<1>1. PICK v : v = [w EXCEPT !.answers = Append(@, <<w.pld, ok>>)]
  OBVIOUS
<1>2. DOMAIN w = Fields /\ w.busy = TRUE
  BY DEF Free, Core, Typed
<1>3. v.answers = << <<w.pld, ok>> >> /\ Same(w, v, {"answers"})
  BY <1>1, <1>2 DEF Same, Fields
<1>4. /\ Free(v) /\ v.state = "IDLE" /\ Noted(v)
      /\ v.seq = w.seq /\ w.seq = n + 1 /\ v.seq \in Nat
  <2>1. Typed(v)
    BY <1>3 DEF Same, Fields, Free, Core, Typed
  <2>2. Unfailed(v) /\ OnAir(v)
    BY <1>3 DEF Same, Fields, Free, Core, Unfailed, OnAir
  <2>3. /\ v.defer = Off /\ v.cts = Off /\ v.ack = Off /\ v.netAck = Off /\ v.busy = TRUE
        /\ v.state = "IDLE" /\ v.seq = w.seq
    BY <1>3 DEF Same, Fields, Free
  <2>4. v.long = w.long /\ v.pld = w.pld /\ v.netAck = w.netAck
    BY <1>3 DEF Same, Fields
  <2> QED BY <1>2, <2>1, <2>2, <2>3, <2>4 DEF Free, Core, Noted, Own
<1>5. PICK u : u = QueueNext(v, b)
  OBVIOUS
<1>6. /\ Same(v, u, Inner) /\ u.answers = v.answers
      /\ u.seq = v.seq + (IF u.busy = TRUE THEN 1 ELSE 0) /\ Noted(u) /\ Gap(u)
  BY <1>4, <1>5, QueueNextIs
<1>7. Same(w, u, Inner)
  BY <1>3, <1>6 DEF Same, Fields, Deferred, Inner
<1>8. u = ToNetworkAck(w, ok, b)
  BY <1>1, <1>5 DEF ToNetworkAck
<1> QED BY <1>3, <1>4, <1>6, <1>7, <1>8 DEF Own

\* What a step from w to v does that happens within the MAC and the queue.
Serves(w, v, n, answers) ==
  /\ Same(w, v, Inner) /\ v.seq >= w.seq
  /\ v.answers \in answers /\ Own(v, n + Len(v.answers))

\* Another attempt, or the bad news.
LEMMA RetryOrGiveUpIs ==
  ASSUME NEW w, Free(w), w.state # "DEFER", w.answers = <<>>, NEW again, NEW b \in Nat,
         NEW n \in Nat, Own(w, n)
  PROVE  Serves(w, RetryOrGiveUp(w, again, b), n, {<<>>, << <<w.pld, FALSE>> >>})
<1>1. DOMAIN w = Fields /\ w.cw \in Nat /\ w.busy = TRUE /\ w.seq = n + 1
  BY DEF Free, Core, Typed, Own
<1>2. CASE again
  <2>1. PICK u : u = [w EXCEPT !.cw = Wider(@)]
    OBVIOUS
  <2>2. u.cw = Wider(w.cw) /\ Same(w, u, {"cw"})
    BY <1>1, <2>1 DEF Same, Fields
  <2>3. u.cw \in Nat
    BY <1>1, <2>2, WiderType
  <2>4. Typed(u)
    BY <2>2, <2>3 DEF Same, Fields, Free, Core, Typed
  <2>5. Unfailed(u) /\ OnAir(u)
    BY <2>2 DEF Same, Fields, Free, Core, Unfailed, OnAir
  <2>6. Free(u)
    BY <2>2, <2>4, <2>5 DEF Same, Fields, Free, Core
  <2>7. PICK v : v = StartDefer(u, TRUE, b)
    OBVIOUS
  <2>8. Same(u, v, Deferred) /\ Gap(v)
    BY <2>6, <2>7, StartDeferIs
  <2>9. /\ Same(w, v, Inner) /\ v.answers = <<>> /\ v.seq = w.seq /\ v.busy = TRUE
        /\ v.long = w.long /\ v.pld = w.pld /\ v.netAck = w.netAck
    BY <1>1, <2>2, <2>8 DEF Same, Fields, Deferred, Inner
  <2>10. v = RetryOrGiveUp(w, again, b)
    BY <1>2, <2>1, <2>7 DEF RetryOrGiveUp
  <2>11. Own(v, n + Len(v.answers))
    BY <1>1, <2>8, <2>9 DEF Own, Noted
  <2>12. v.seq >= w.seq
    BY <1>1, <2>9
  <2>13. v.answers \in {<<>>, << <<w.pld, FALSE>> >>}
    BY <2>9
  <2> QED BY <2>9, <2>10, <2>11, <2>12, <2>13 DEF Serves
<1>3. CASE ~again
  <2>1. PICK u : u = [w EXCEPT !.state = "IDLE", !.cw = CWMin]
    OBVIOUS
  <2>2. u.state = "IDLE" /\ u.cw = CWMin /\ Same(w, u, {"state", "cw"})
    BY <1>1, <2>1 DEF Same, Fields
  <2>3. Typed(u)
    BY <2>2, TimesType DEF Same, Fields, Free, Core, Typed
  <2>4. Unfailed(u) /\ OnAir(u)
    BY <2>2 DEF Same, Fields, Free, Core, Unfailed, OnAir
  <2>5. Free(u) /\ u.answers = <<>> /\ u.pld = w.pld
    BY <2>2, <2>3, <2>4 DEF Same, Fields, Free, Core
  <2>6. Own(u, n)
    BY <2>2 DEF Same, Fields, Own, Noted, Gap
  <2>7. PICK v : v = ToNetworkAck(u, FALSE, b)
    OBVIOUS
  <2>8. /\ Same(u, v, Inner) /\ v.answers = << <<u.pld, FALSE>> >>
        /\ v.seq >= u.seq /\ Own(v, n + 1)
    BY <2>2, <2>5, <2>6, <2>7, ToNetworkAckIs
  <2>9. v = RetryOrGiveUp(w, again, b)
    BY <1>3, <2>1, <2>7 DEF RetryOrGiveUp
  <2>10. Same(w, v, Inner) /\ u.seq = w.seq
    BY <2>2, <2>8 DEF Same, Fields, Deferred, Inner
  <2>11. Len(v.answers) = 1
    BY <2>8
  <2> QED BY <2>5, <2>8, <2>9, <2>10, <2>11 DEF Serves
<1> QED BY <1>2, <1>3

\* A time-out.
LEMMA TriesIs ==
  ASSUME NEW w0, NEW v, NEW b \in Nat, NEW fields, Tries(w0, v, b, fields),
         w0.state # "DEFER", w0.answers = <<>>, NEW n \in Nat, Own(w0, n),
         fields \subseteq {"cts", "ack", "ssrc", "slrc", "assertFailed"}
  PROVE  Serves(w0, v, n, {<<>>, << <<w0.pld, FALSE>> >>})
<1>1. PICK w, again : /\ Free(w) /\ w.state = w0.state /\ Same(w0, w, fields)
                      /\ v = RetryOrGiveUp(w, again, b)
  BY DEF Tries
<1>2. w.answers = <<>> /\ Own(w, n) /\ w.pld = w0.pld /\ w.seq = w0.seq
  BY <1>1 DEF Same, Fields, Own, Noted, Gap
<1>3. Serves(w, v, n, {<<>>, << <<w.pld, FALSE>> >>})
  BY <1>1, <1>2, RetryOrGiveUpIs
<1>4. Same(w0, v, Inner)
  BY <1>1, <1>3 DEF Serves, Same, Inner, Deferred
<1> QED BY <1>2, <1>3, <1>4 DEF Serves

\* A broadcast has been sent: the good news says nothing of a unicast.
LEMMA NetworkAckTimerIs ==
  ASSUME NEW w0, Rules(w0), w0.netAck = 0, w0.answers = <<>>, NEW b \in Nat,
         NEW n \in Nat, Own(w0, n)
  PROVE  /\ Serves(w0, NetworkAckTimer(w0, b), n, {<< <<w0.pld, TRUE>> >>})
         /\ w0.pld.dst = Broadcast
<1>1. /\ DOMAIN w0 = Fields /\ w0.state = "IDLE" /\ w0.busy = TRUE
      /\ w0.defer = Off /\ w0.cts = Off /\ w0.ack = Off
  BY TimesType DEF Rules, Sound, Core, Typed, Waits, Deferral, Service
<1>2. PICK w : w = [w0 EXCEPT !.netAck = Off]
  OBVIOUS
<1>3. w.netAck = Off /\ Same(w0, w, {"netAck"})
  BY <1>1, <1>2 DEF Same, Fields
<1>4. Typed(w)
  BY <1>3 DEF Same, Fields, Rules, Sound, Core, Typed, Timer
<1>5. Unfailed(w) /\ OnAir(w)
  BY <1>3 DEF Same, Fields, Rules, Sound, Core, Unfailed, OnAir
<1>6. Free(w) /\ w.state = "IDLE" /\ w.answers = <<>> /\ w.pld = w0.pld /\ w.seq = w0.seq
  BY <1>1, <1>3, <1>4, <1>5 DEF Same, Fields, Free, Core
<1>7. Own(w, n)
  BY <1>3 DEF Same, Fields, Own, Noted, Gap
<1>8. PICK v : v = ToNetworkAck(w, TRUE, b)
  OBVIOUS
<1>9. /\ Same(w, v, Inner) /\ v.answers = << <<w.pld, TRUE>> >>
      /\ v.seq >= w.seq /\ Own(v, n + 1)
  BY <1>6, <1>7, <1>8, ToNetworkAckIs
<1>10. v = NetworkAckTimer(w0, b)
  BY <1>2, <1>8 DEF NetworkAckTimer
<1>11. w0.pld.dst = Broadcast
  BY TimesType DEF Own, Noted
<1>12. Same(w0, v, Inner) /\ Len(v.answers) = 1
  BY <1>3, <1>9 DEF Same, Inner, Deferred
<1> QED BY <1>6, <1>9, <1>10, <1>11, <1>12 DEF Serves

\* An ACK is the good news for a station that waits for it.
LEMMA RecvACKIs ==
  ASSUME NEW w, Onward(w, w), w.answers = <<>>, NEW b \in Nat, NEW n \in Nat, Own(w, n)
  PROVE  /\ w.state = "ACK" => Serves(w, RecvACK(ResumeDefer(w), b), n, {<< <<w.pld, TRUE>> >>})
         /\ w.state # "ACK" => RecvACK(ResumeDefer(w), b) = ResumeDefer(w)
<1>1. CASE w.state = "ACK"
  <2>1. /\ DOMAIN w = Fields /\ w.cts = Off /\ w.netAck = Off /\ w.defer = Off /\ w.busy = TRUE
        /\ ResumeDefer(w) = w
    BY <1>1 DEF Onward, Sound, Core, Typed, Waits, Service, ResumeDefer
  <2>2. PICK u : u = [w EXCEPT !.ack = Off, !.state = "IDLE", !.cw = CWMin]
    OBVIOUS
  <2>3. u.ack = Off /\ u.state = "IDLE" /\ u.cw = CWMin /\ Same(w, u, {"ack", "state", "cw"})
    BY <2>1, <2>2 DEF Same, Fields
  <2>4. Typed(u)
    BY <2>3, TimesType DEF Same, Fields, Onward, Sound, Core, Typed, Timer
  <2>5. Unfailed(u) /\ OnAir(u)
    BY <2>3 DEF Same, Fields, Onward, Sound, Core, Unfailed, OnAir
  <2>6. Free(u) /\ u.answers = <<>> /\ u.pld = w.pld /\ u.seq = w.seq
    BY <2>1, <2>3, <2>4, <2>5 DEF Same, Fields, Free, Core
  <2>7. Own(u, n)
    BY <2>3 DEF Same, Fields, Own, Noted, Gap
  <2>8. PICK v : v = ToNetworkAck(u, TRUE, b)
    OBVIOUS
  <2>9. /\ Same(u, v, Inner) /\ v.answers = << <<u.pld, TRUE>> >>
        /\ v.seq >= u.seq /\ Own(v, n + 1)
    BY <2>3, <2>6, <2>7, <2>8, ToNetworkAckIs
  <2>10. v = RecvACK(ResumeDefer(w), b)
    BY <1>1, <2>1, <2>2, <2>8 DEF RecvACK
  <2>11. Same(w, v, Inner) /\ Len(v.answers) = 1
    BY <2>3, <2>9 DEF Same, Inner, Deferred
  <2> QED BY <1>1, <2>6, <2>9, <2>10, <2>11 DEF Serves
<1>2. CASE w.state # "ACK"
  <2>1. ResumeDefer(w).state = w.state
    BY ResumeDeferRules DEF Onward
  <2> QED BY <1>2, <2>1 DEF RecvACK
<1> QED BY <1>1, <1>2

\* A packet from the network layer goes to the queue, or to an idle MAC.
LEMMA QueueInIs ==
  ASSUME NEW w, Rules(w), NEW p \in Payloads, NEW b \in Nat, w.answers = <<>>,
         NEW n \in Nat, Own(w, n)
  PROVE  /\ Serves(w, QueueIn(w, p, b), n, {<<>>})
         /\ \/ w.state = "IDLE"
            \/ Same(w, QueueIn(w, p, b), {"queue"})
<1>1. DOMAIN w = Fields /\ w.busy \in BOOLEAN
  BY DEF Rules, Sound, Core, Typed
<1>2. CASE w.busy = TRUE
  <2>1. PICK v : v = [w EXCEPT !.queue = Append(@, p)]
    OBVIOUS
  <2>2. Same(w, v, {"queue"}) /\ v = QueueIn(w, p, b)
    BY <1>1, <1>2, <2>1 DEF Same, Fields, QueueIn
  <2>3. Own(v, n) /\ Same(w, v, Inner) /\ v.answers = <<>> /\ v.seq = w.seq
    BY <2>2 DEF Same, Fields, Inner, Deferred, Own, Noted, Gap
  <2>4. Len(v.answers) = 0 /\ w.seq = n + 1
    BY <1>2, <2>3 DEF Own
  <2> QED BY <2>2, <2>3, <2>4 DEF Serves
<1>3. CASE w.busy # TRUE
  <2>1. PICK v : v = [w EXCEPT !.busy = TRUE]
    OBVIOUS
  <2>2. v.busy = TRUE /\ Same(w, v, {"busy"})
    BY <1>1, <2>1 DEF Same, Fields
  <2>3. /\ w.state = "IDLE" /\ w.netAck = Off
        /\ w.cts = Off /\ w.ack = Off /\ w.defer = Off
    BY <1>1, <1>3 DEF Rules, Sound, Core, Typed, Service, Waits, Deferral
  <2>4. Typed(v)
    BY <2>2 DEF Same, Fields, Rules, Sound, Core, Typed
  <2>5. Unfailed(v) /\ OnAir(v)
    BY <2>2 DEF Same, Fields, Rules, Sound, Core, Unfailed, OnAir
  <2>6. Free(v) /\ v.state = "IDLE" /\ v.seq = n /\ w.seq = n /\ v.answers = <<>>
    <3>1. Free(v) /\ v.state = "IDLE" /\ v.seq = w.seq /\ v.answers = w.answers
      BY <2>2, <2>3, <2>4, <2>5 DEF Same, Fields, Free, Core
    <3>2. w.seq = n
      <4>1. w.seq = n + 0
        BY <1>3, Zenon DEF Own
      <4> QED BY <4>1
    <3> QED BY <3>1, <3>2
  <2>7. PICK u : u = FromNetwork(v, p, b)
    OBVIOUS
  <2>8. /\ Same(v, u, Inner) /\ u.busy = TRUE /\ u.answers = v.answers
        /\ u.seq = v.seq + 1 /\ Noted(u) /\ Gap(u)
    BY <2>6, <2>7, FromNetworkIs
  <2>9. u = QueueIn(w, p, b)
    BY <1>3, <2>1, <2>7 DEF QueueIn
  <2>10. Same(w, u, Inner) /\ Len(u.answers) = 0
    BY <2>2, <2>6, <2>8 DEF Same, Inner, Deferred
  <2>11. Own(u, n + Len(u.answers)) /\ u.seq >= w.seq /\ u.answers \in {<<>>}
    BY <2>6, <2>8, <2>10 DEF Own
  <2> QED BY <2>3, <2>9, <2>10, <2>11 DEF Serves
<1> QED BY <1>2, <1>3

-----------------------------------------------------------------------------
(* The handlers, as far as frames and numbers are concerned *)

\* What changes when a frame is taken off and the deferral goes on.
HeardOf == Heard \union {"assertFailed", "ifs", "since", "defer"}

\* The station hears the end of a frame and has nothing else to do.
Hears(w, r) == Same(w, r, HeardOf) /\ r.recv = Off /\ Gap(r)

\* The station hears the end of a frame and answers with g.
Answers(w, r, g, fields) ==
  /\ w.lastSend < 0 /\ r.recv = Off /\ Gap(r)
  /\ r.lastSend = SIFS + TxTime(g.type) /\ r.phy # Off /\ r.phyFrame = g
  /\ Same(w, r, (HeardOf \union {"lastSend", "phy", "phyFrame"}) \union fields)

\* The ways through RecvTimer, with n packets answered before: an RTS, a CTS, an ACK
\* and data that are for this station, or nothing of the kind.
RtsWay(w, r, f, me) ==
  /\ f.type = "RTS" /\ f.dst \in {me, Broadcast}
  /\ \E g : /\ g.type = "CTS" /\ g.src = me /\ g.dst = f.src
            /\ Answers(w, r, g, {"session", "peer", "navTimer"})

CtsWay(w, r, f, me) ==
  /\ f.type = "CTS" /\ f.dst \in {me, Broadcast} /\ w.state = "CTS"
  /\ r.state = "ACK" /\ r.ack = 2 * SIFS + ControlTime + DataTime + DIFS
  /\ \E g : /\ g.type = "DATA" /\ g.src = me /\ g.dst = f.src
            /\ g.seq = w.seq /\ g.pld = w.pld
            /\ Answers(w, r, g, {"state", "ack", "cts"})

AckWay(w, r, f, me, n) ==
  /\ f.type = "ACK" /\ f.dst \in {me, Broadcast} /\ w.state = "ACK"
  /\ \E u : /\ Same(w, u, Heard) /\ u.recv = Off
            /\ Serves(u, r, n, {<< <<w.pld, TRUE>> >>})

DataWay(w, r, f, me) ==
  /\ f.type = "DATA"
  /\ \E u : /\ \/ Hears(w, u)
               \/ f.dst = me /\ \E g : /\ g.type = "ACK" /\ g.src = me /\ g.dst = f.src
                                      /\ Answers(w, u, g, {})
            /\ r = PassedUp(u, f)

Ways(w, r, f, me, n) ==
  Hears(w, r) \/ RtsWay(w, r, f, me) \/ CtsWay(w, r, f, me) \/ AckWay(w, r, f, me, n)
    \/ DataWay(w, r, f, me)

\* Changes add up.
LEMMA SameThen ==
  ASSUME NEW w, NEW u, NEW v, NEW A, NEW B, Same(w, u, A), Same(u, v, B)
  PROVE  Same(w, v, A \union B)
BY DEF Same

\* Other fields may change as well.
LEMMA SameWider ==
  ASSUME NEW w, NEW v, NEW A, NEW B, Same(w, v, A), A \subseteq B
  PROVE  Same(w, v, B)
BY DEF Same

\* To resume the deferral is to hear nothing else.
LEMMA ResumeHears ==
  ASSUME NEW w, NEW v, Same(w, v, Heard), Onward(v, v)
  PROVE  Hears(w, ResumeDefer(v))
<1>1. Sound(v) /\ v.defer = Off /\ v.recv = Off
  BY DEF Onward
<1>2. PICK r : r = ResumeDefer(v)
  OBVIOUS
<1>3. Same(v, r, {"assertFailed", "ifs", "since", "defer"}) /\ Gap(r)
  BY <1>1, <1>2, ResumeDeferIs
<1>4. Same(w, r, HeardOf)
  BY <1>3, SameThen DEF HeardOf
<1>5. r.recv = Off
  BY <1>1, <1>3 DEF Same, Fields
<1> QED BY <1>2, <1>3, <1>4, <1>5 DEF Hears

\* Likewise after an answer.
LEMMA ResumeAnswers ==
  ASSUME NEW w, NEW v, NEW u, NEW g, NEW fields, Same(w, v, Heard), v.lastSend < 0,
         Replied(v, u, g, fields), Sound(u), u.defer = Off, u.recv = Off,
         fields \subseteq Fields \ {"lastSend"}
  PROVE  Answers(w, ResumeDefer(u), g, fields)
<1>1. PICK r : r = ResumeDefer(u)
  OBVIOUS
<1>2. Same(u, r, {"assertFailed", "ifs", "since", "defer"}) /\ Gap(r)
  BY <1>1, ResumeDeferIs
<1>3. PICK A : A = ((Heard \union ({"lastSend", "phy", "phyFrame", "assertFailed"} \union fields))
                     \union {"assertFailed", "ifs", "since", "defer"})
  OBVIOUS
<1>4. Same(w, r, A)
  BY <1>2, <1>3, SameThen DEF Replied
<1>5. A \subseteq (HeardOf \union {"lastSend", "phy", "phyFrame"}) \union fields
  BY <1>3 DEF HeardOf
<1>6. Same(w, r, (HeardOf \union {"lastSend", "phy", "phyFrame"}) \union fields)
  BY <1>4, <1>5, SameWider
<1>7. w.lastSend = v.lastSend
  BY DEF Same, Fields, Heard
<1>8. r.recv = Off /\ r.lastSend = u.lastSend /\ r.phy = u.phy /\ r.phyFrame = u.phyFrame
  BY <1>2 DEF Same, Fields
<1>9. r.phy # Off /\ r.phyFrame = g /\ r.lastSend = SIFS + TxTime(g.type)
  BY <1>8, TimesType DEF Replied
<1> QED BY <1>1, <1>2, <1>6, <1>7, <1>8, <1>9 DEF Answers

\* RecvTimer
LEMMA RecvTimerIs ==
  ASSUME NEW w, Rules(w), w.recv # Off, w.answers = <<>>, NEW me, NEW b \in Nat,
         NEW n \in Nat, Own(w, n)
  PROVE  Ways(w, RecvTimer(w, me, b), w.rx, me, n)
<1>1. PICK f, r : f = w.rx /\ r = RecvTimer(w, me, b)
  OBVIOUS
<1>2. PICK v : /\ Onward(w, v) /\ Onward(v, v) /\ v.answers = <<>> /\ WellFormed(f)
               /\ v.lastSend = w.lastSend /\ Same(w, v, Heard)
               /\ r = ResumeDefer(v) \/ Read(v, r, f, me, b)
  BY <1>1, RecvTimerReads
<1>3. ASSUME r = ResumeDefer(v) PROVE Hears(w, r)
  BY <1>2, <1>3, ResumeHears, Zenon
<1>4. v.state = w.state /\ v.pld = w.pld /\ v.seq = w.seq /\ Own(v, n) /\ v.recv = Off
  BY <1>2 DEF Onward, Same, Fields, Heard, Own, Noted, Gap
<1>5. ASSUME Read(v, r, f, me, b) PROVE Ways(w, r, f, me, n)
  <2>1. v.lastSend < 0 /\ (f.dst \in {me, Broadcast} \/ f.type = "DATA")
    BY <1>5 DEF Read
  <2>2. CASE f.type = "RTS"
    <3>1. PICK x : x = RecvRTS(v, f, me) /\ r = ResumeDefer(x)
      BY <1>5, <2>2 DEF Read
    <3>2. CASE x = v
      BY <1>3, <3>1, <3>2, Zenon DEF Ways
    <3>3. CASE x # v
      <4>1. Onward(v, x)
        BY <1>2, <2>1, <3>1, RecvRTSOnward
      <4>2. PICK g : /\ g.type = "CTS" /\ g.src = me /\ g.dst = f.src
                     /\ Replied(v, x, g, {"session", "peer", "navTimer"})
        BY <1>2, <2>1, <3>1, <3>3, RecvRTSOnward
      <4>3. Sound(x) /\ x.defer = Off /\ x.recv = Off
        BY <4>1 DEF Onward
      <4>4. {"session", "peer", "navTimer"} \subseteq Fields \ {"lastSend"}
        BY DEF Fields
      <4>5. Answers(w, ResumeDefer(x), g, {"session", "peer", "navTimer"})
        BY <1>2, <2>1, <4>2, <4>3, <4>4, ResumeAnswers
      <4>6. f.dst \in {me, Broadcast}
        BY <2>1, <2>2
      <4>7. RtsWay(w, r, f, me)
        BY <2>2, <3>1, <4>2, <4>5, <4>6, Zenon DEF RtsWay
      <4> QED BY <4>7, Zenon DEF Ways
    <3> QED BY <3>2, <3>3
  <2>3. CASE f.type = "CTS"
    <3>1. PICK x : x = RecvCTS(v, f, me) /\ r = ResumeDefer(x)
      BY <1>5, <2>3 DEF Read
    <3>2. CASE x = v
      BY <1>3, <3>1, <3>2, Zenon DEF Ways
    <3>3. CASE x # v
      <4>1. v.state = "CTS" /\ MovedOn(v, r, f, me) /\ Rules(r)
        BY <1>2, <2>1, <3>1, <3>3, RecvCTSDone DEF Done
      <4>2. PICK g : /\ g.type = "DATA" /\ g.src = me /\ g.dst = f.src
                     /\ g.seq = v.seq /\ g.pld = v.pld
                     /\ Replied(v, r, g, {"state", "ack", "cts"})
        BY <4>1 DEF MovedOn
      <4>3. r.state = "ACK" /\ r.ack = 2 * SIFS + ControlTime + DataTime + DIFS
        BY <4>1 DEF MovedOn
      <4>4. Sound(r) /\ r.defer = Off /\ r.recv = v.recv /\ ResumeDefer(r) = r
        BY <4>1, <4>2, <4>3 DEF Rules, Sound, Deferral, Replied, Same, Fields, ResumeDefer
      <4>5. {"state", "ack", "cts"} \subseteq Fields \ {"lastSend"}
        BY DEF Fields
      <4>6. Answers(w, ResumeDefer(r), g, {"state", "ack", "cts"})
        BY <1>2, <1>4, <2>1, <4>2, <4>4, <4>5, ResumeAnswers
      <4>7. f.dst \in {me, Broadcast}
        BY <2>1, <2>3
      <4>8. /\ w.state = "CTS" /\ g.seq = w.seq /\ g.pld = w.pld
            /\ Answers(w, r, g, {"state", "ack", "cts"})
        BY <1>4, <4>1, <4>2, <4>4, <4>6, Zenon
      <4>9. CtsWay(w, r, f, me)
        BY <2>3, <4>2, <4>3, <4>7, <4>8, Zenon DEF CtsWay
      <4> QED BY <4>9, Zenon DEF Ways
    <3> QED BY <3>2, <3>3
  <2>4. CASE f.type = "ACK"
    <3>1. r = RecvACK(ResumeDefer(v), b)
      BY <1>5, <2>4 DEF Read
    <3>2. CASE w.state # "ACK"
      <4>1. r = ResumeDefer(v)
        BY <1>2, <1>4, <3>1, <3>2, RecvACKIs, Zenon
      <4> QED BY <1>3, <4>1, Zenon DEF Ways
    <3>3. CASE w.state = "ACK"
      <4>1. Serves(v, r, n, {<< <<w.pld, TRUE>> >>})
        <5>1. Serves(v, r, n, {<< <<v.pld, TRUE>> >>})
          BY <1>2, <1>4, <3>1, <3>3, RecvACKIs, Zenon
        <5> QED BY <1>4, <5>1, Zenon
      <4>2. f.dst \in {me, Broadcast}
        BY <2>1, <2>4
      <4>3. AckWay(w, r, f, me, n)
        BY <1>2, <1>4, <2>4, <3>3, <4>1, <4>2, Zenon DEF AckWay
      <4> QED BY <4>3, Zenon DEF Ways
    <3> QED BY <3>2, <3>3
  <2>5. CASE f.type = "DATA"
    <3>1. r = RecvData(v, f, me)
      BY <1>5, <2>5 DEF Read
    <3>2. CASE r = ResumeDefer(v)
      BY <1>3, <3>2, Zenon DEF Ways
    <3>3. CASE Taken(v, r, f, me)
      <4>1. PICK u : /\ Onward(v, u) /\ r = PassedUp(ResumeDefer(u), f)
                     /\ \/ u = v
                        \/ f.dst = me /\ \E g : /\ g.type = "ACK" /\ g.src = me
                                               /\ g.dst = f.src /\ Replied(v, u, g, {})
        BY <3>3 DEF Taken
      <4>2. CASE u = v
        <5>1. Hears(w, ResumeDefer(u))
          BY <1>2, <4>2, ResumeHears, Zenon
        <5>2. DataWay(w, r, f, me)
          BY <2>5, <4>1, <5>1, Zenon DEF DataWay
        <5> QED BY <5>2, Zenon DEF Ways
      <4>3. CASE u # v
        <5>1. PICK g : /\ g.type = "ACK" /\ g.src = me /\ g.dst = f.src /\ Replied(v, u, g, {})
                       /\ f.dst = me
          BY <4>1, <4>3
        <5>2. Sound(u) /\ u.defer = Off /\ u.recv = Off
          BY <4>1 DEF Onward
        <5>3. Answers(w, ResumeDefer(u), g, {})
          BY <1>2, <2>1, <5>1, <5>2, ResumeAnswers
        <5>4. DataWay(w, r, f, me)
          BY <2>5, <4>1, <5>1, <5>3, Zenon DEF DataWay
        <5> QED BY <5>4, Zenon DEF Ways
      <4> QED BY <4>2, <4>3
    <3> QED BY <1>2, <2>1, <3>1, <3>2, <3>3, RecvDataDone
  <2> QED BY <1>2, <2>2, <2>3, <2>4, <2>5 DEF WellFormed
<1>6. ASSUME r = ResumeDefer(v) PROVE Ways(w, r, f, me, n)
  BY <1>3, <1>6, Zenon DEF Ways
<1>7. Ways(w, r, f, me, n)
  BY <1>2, <1>5, <1>6, Zenon
<1> QED BY <1>1, <1>7, Zenon

\* The first bit of a frame: the station takes it up, or not.
LEMMA FromPhyIs ==
  ASSUME NEW w, Rules(w), NEW f, WellFormed(f), NEW err, NEW power
  PROVE  /\ Same(w, FromPhy(w, f, err, power),
                 {"rx", "rxError", "recv", "assertFailed", "backoff", "defer", "since"})
         /\ \/ FromPhy(w, f, err, power).recv = w.recv /\ FromPhy(w, f, err, power).rx = w.rx
            \/ FromPhy(w, f, err, power).rx = f
                 /\ FromPhy(w, f, err, power).recv = TxTime(f.type)
         /\ FromPhy(w, f, err, power).defer \in {w.defer, Off}
<1>1. PICK t \in Nat : t = TxTime(f.type)
  BY TimesType
<1>2. PICK taken : taken = [w EXCEPT !.rx = f, !.rxError = err, !.recv = t]
  OBVIOUS
<1>3. DOMAIN w = Fields
  BY DEF Rules, Sound, Core, Typed
<1>4. taken.rx = f /\ taken.recv = t /\ Same(w, taken, {"rx", "rxError", "recv"})
  BY <1>2, <1>3 DEF Same, Fields
<1>5. PICK r : r = FromPhy(w, f, err, power)
  OBVIOUS
<1>6. CASE w.recv = Off /\ w.state = "DEFER"
  <2>1. r = Suspended(taken)
    BY <1>1, <1>2, <1>5, <1>6 DEF FromPhy
  <2>2. PICK left, c1, c2 : r = [Asserted(Asserted(taken, c1), c2) EXCEPT
                                   !.backoff = left, !.defer = Off, !.since = 0]
    <3>1. PICK used, left : /\ used = taken.since - taken.ifs
                            /\ left = IF used > 0 THEN taken.backoff - used ELSE taken.backoff
      OBVIOUS
    <3>2. r = [Asserted(Asserted(taken, taken.defer # Off), left >= 0) EXCEPT
                 !.backoff = left, !.defer = Off, !.since = 0]
      BY <2>1, <3>1, Zenon DEF Suspended
    <3> QED BY <3>2
  <2>3. PICK u : u = Asserted(Asserted(taken, c1), c2)
    OBVIOUS
  <2>4. Same(taken, u, {"assertFailed"})
    BY <1>4, <2>3 DEF Asserted, Same, Fields
  <2>5. /\ r.defer = Off /\ Same(u, r, {"backoff", "defer", "since"})
    BY <2>2, <2>3, <2>4 DEF Same, Fields
  <2>6. Same(w, r, {"rx", "rxError", "recv", "assertFailed", "backoff", "defer", "since"})
    BY <1>4, <2>4, <2>5 DEF Same
  <2>7. r.rx = f /\ r.recv = t
    BY <1>4, <2>4, <2>5 DEF Same, Fields
  <2> QED BY <1>1, <1>5, <2>5, <2>6, <2>7
<1>7. CASE ~(w.recv = Off /\ w.state = "DEFER")
  <2>1. PICK u : u \in {w, taken} /\ (r = u \/ r = [u EXCEPT !.rxError = TRUE])
    BY <1>1, <1>2, <1>5, <1>7 DEF FromPhy
  <2>2. DOMAIN u = Fields
    BY <1>3, <1>4, <2>1 DEF Same
  <2>3. Same(u, r, {"rxError"})
    BY <2>1, <2>2 DEF Same, Fields
  <2>4. Same(w, u, {"rx", "rxError", "recv"})
    BY <1>3, <1>4, <2>1 DEF Same
  <2>5. Same(w, r, {"rx", "rxError", "recv", "assertFailed", "backoff", "defer", "since"})
    BY <2>3, <2>4 DEF Same
  <2>6. r.rx = u.rx /\ r.recv = u.recv /\ r.defer = w.defer
    BY <2>3, <2>4 DEF Same, Fields
  <2> QED BY <1>1, <1>4, <1>5, <2>1, <2>5, <2>6
<1> QED BY <1>6, <1>7

\* The deferral is over: the packet goes out, or an RTS for it.
LEMMA DeferTimerIs ==
  ASSUME NEW w0, Rules(w0), w0.defer = 0, Gap(w0), Noted(w0), w0.air = {}, NEW me
  PROVE  \E v, f :
           /\ v = DeferTimer(w0, me) /\ v.air = {f} /\ f.src = me /\ f.type \in {"DATA", "RTS"}
           /\ f.pld = w0.pld /\ f.seq = w0.seq /\ f.dst = w0.pld.dst
           /\ Same(w0, v, {"state", "lastSend", "air", "ack", "cts", "netAck", "defer",
                           "assertFailed"})
           /\ w0.lastSend < 0 /\ v.lastSend = TxTime(f.type)
           /\ w0.phy = Off /\ v.defer = Off /\ Noted(v)
           /\ f.type = "DATA" /\ f.dst # Broadcast =>
                v.state = "ACK" /\ v.ack = v.lastSend + SIFS + ControlTime + DIFS
           /\ f.type = "RTS" => /\ v.state = "CTS" /\ f.dst # Broadcast
                                /\ v.cts = v.lastSend + 4 * SIFS + ControlTime + DataTime
<1>1. /\ DOMAIN w0 = Fields /\ w0.state = "DEFER" /\ w0.lastSend \in Int
      /\ w0.phy \in Timer /\ w0.netAck = Off
  BY TimesType DEF Rules, Sound, Core, Typed, Deferral, Service
<1>2. w0.lastSend < 0
  <2>1. DIFS \in Nat /\ DIFS > 0
    BY TimesType, TimesAssumption DEF DIFS
  <2> QED BY <1>1, <2>1, TimesType DEF Gap
<1>3. w0.phy = Off
  <2>1. SUFFICES ASSUME w0.phy # Off PROVE FALSE
    OBVIOUS
  <2>2. PICK t \in Nat : t = TxTime(w0.phyFrame.type) /\ t > 0
    BY TimesType
  <2>3. w0.phy \in Nat /\ w0.lastSend = w0.phy + t
    BY <1>1, <2>1, <2>2 DEF Rules, Sound, Core, OnAir, Timer
  <2> QED BY <1>2, <2>2, <2>3
<1>4. PICK w : w = Asserted([w0 EXCEPT !.defer = Off], w0.state = "DEFER")
  OBVIOUS
<1>5. w.defer = Off /\ Same(w0, w, {"defer", "assertFailed"})
  BY <1>1, <1>4 DEF Asserted, Same, Fields
<1>6. /\ w.pld = w0.pld /\ w.seq = w0.seq /\ w.long = w0.long /\ w.netAck = Off
      /\ w.lastSend = w0.lastSend /\ w.air = {} /\ DOMAIN w = Fields
  BY <1>1, <1>5 DEF Same, Fields
<1>7. PICK dur : dur = SIFS + ControlTime + DataTime
  OBVIOUS
<1>8. ASSUME NEW u, NEW f, NEW v, v = TxNow(u, f), v = DeferTimer(w0, me),
             Same(w, u, {"state", "ack", "cts", "netAck", "assertFailed"}),
             f.type \in {"DATA", "RTS"}, NEW dst, NEW d, f = Frame(f.type, me, dst, d, w),
             dst = w.pld.dst,
             u.netAck # Off => dst = Broadcast,
             f.type = "DATA" /\ dst # Broadcast =>
                u.state = "ACK" /\ u.ack = DataTime + SIFS + ControlTime + DIFS,
             f.type = "RTS" => /\ u.state = "CTS" /\ dst # Broadcast
                               /\ u.cts = ControlTime + 4 * SIFS + ControlTime + DataTime
      PROVE  \E x, g :
           /\ x = DeferTimer(w0, me) /\ x.air = {g} /\ g.src = me /\ g.type \in {"DATA", "RTS"}
           /\ g.pld = w0.pld /\ g.seq = w0.seq /\ g.dst = w0.pld.dst
           /\ Same(w0, x, {"state", "lastSend", "air", "ack", "cts", "netAck", "defer",
                           "assertFailed"})
           /\ w0.lastSend < 0 /\ x.lastSend = TxTime(g.type)
           /\ w0.phy = Off /\ x.defer = Off /\ Noted(x)
           /\ g.type = "DATA" /\ g.dst # Broadcast =>
                x.state = "ACK" /\ x.ack = x.lastSend + SIFS + ControlTime + DIFS
           /\ g.type = "RTS" => /\ x.state = "CTS" /\ g.dst # Broadcast
                                /\ x.cts = x.lastSend + 4 * SIFS + ControlTime + DataTime
  <2>1. f.src = me /\ f.dst = dst /\ f.pld = w0.pld /\ f.seq = w0.seq
    <3>1. PICK type : type = f.type
      OBVIOUS
    <3>2. f = [type |-> type, src |-> me, dst |-> dst, dur |-> d, seq |-> w.seq, pld |-> w.pld]
      BY <1>8, <3>1, Zenon DEF Frame
    <3> QED BY <1>6, <3>2
  <2>2. u.lastSend = w0.lastSend /\ u.air = {} /\ DOMAIN u = Fields /\ u.defer = Off
        /\ u.long = w0.long /\ u.pld = w0.pld
    BY <1>5, <1>6, <1>8 DEF Same, Fields
  <2>3. /\ v.lastSend = TxTime(f.type) /\ v.air = u.air \union {f}
        /\ Same(u, v, {"lastSend", "air"})
    <3>1. u.lastSend \in Int /\ u.lastSend <= 0
      BY <1>1, <1>2, <2>2
    <3>2. PICK t : t = TxTime(f.type)
      OBVIOUS
    <3>3. /\ TxNow(u, f).lastSend = t /\ TxNow(u, f).air = u.air \union {f}
          /\ Same(u, TxNow(u, f), {"lastSend", "air"})
      <4>1. DOMAIN u = Fields
        BY <2>2
      <4> QED BY ONLY <3>1, <3>2, <4>1, TxNowIs
    <3> QED BY <1>8, <3>2, <3>3, Zenon
  <2>4. /\ v.air = {f} /\ v.defer = Off /\ v.state = u.state /\ v.ack = u.ack /\ v.cts = u.cts
        /\ v.long = w0.long /\ v.pld = w0.pld /\ v.netAck = u.netAck
    BY <2>2, <2>3 DEF Same, Fields
  <2>5. Same(w0, v, {"state", "lastSend", "air", "ack", "cts", "netAck", "defer",
                     "assertFailed"})
    BY <1>5, <1>8, <2>3 DEF Same
  <2>6. Noted(v)
    BY <1>6, <1>8, <2>4 DEF Noted
  <2>7. f.type = "DATA" => v.lastSend = DataTime
    BY <2>3 DEF TxTime
  <2>8. f.type = "RTS" => v.lastSend = ControlTime
    BY <2>3 DEF TxTime
  <2>9. f.dst = w0.pld.dst
    BY <1>6, <1>8, <2>1
  <2>10. f.type = "DATA" /\ f.dst # Broadcast =>
                v.state = "ACK" /\ v.ack = v.lastSend + SIFS + ControlTime + DIFS
    BY <1>8, <2>1, <2>4, <2>7
  <2>11. f.type = "RTS" => /\ v.state = "CTS" /\ f.dst # Broadcast
                           /\ v.cts = v.lastSend + 4 * SIFS + ControlTime + DataTime
    BY <1>8, <2>1, <2>4, <2>8
  <2> QED BY <1>2, <1>3, <1>8, <2>1, <2>3, <2>4, <2>5, <2>6, <2>9, <2>10, <2>11, Zenon
<1>9. CASE ~w.long /\ w.pld.dst # Broadcast
  <2>1. PICK u : u = [w EXCEPT !.state = "ACK", !.ack = dur + DIFS]
    OBVIOUS
  <2>2. PICK f : f = Frame("DATA", me, w.pld.dst, dur, w) /\ f.type = "DATA"
    <3>1. PICK f : f = Frame("DATA", me, w.pld.dst, dur, w)
      OBVIOUS
    <3>2. f.type = "DATA"
      BY <3>1 DEF Frame
    <3> QED BY <3>1, <3>2
  <2>3. TxNow(u, f) = DeferTimer(w0, me)
    BY <1>4, <1>7, <1>9, <2>1, <2>2 DEF DeferTimer
  <2>4. u.state = "ACK" /\ u.ack = dur + DIFS /\ u.netAck = Off
        /\ Same(w, u, {"state", "ack", "cts", "netAck", "assertFailed"})
    BY <1>6, <2>1 DEF Same, Fields
  <2>5. u.ack = DataTime + SIFS + ControlTime + DIFS
    BY <1>7, <2>4, TimesType
  <2>6. f = Frame(f.type, me, w.pld.dst, dur, w)
    BY <2>2
  <2> QED BY <1>8, <1>9, <2>2, <2>3, <2>4, <2>5, <2>6
<1>10. CASE ~w.long /\ w.pld.dst = Broadcast
  <2>1. PICK u : u = [Asserted(w, w.netAck = Off) EXCEPT !.state = "IDLE", !.netAck = DataTime]
    OBVIOUS
  <2>2. PICK f : f = Frame("DATA", me, w.pld.dst, 0, w) /\ f.type = "DATA"
    <3>1. PICK f : f = Frame("DATA", me, w.pld.dst, 0, w)
      OBVIOUS
    <3>2. f.type = "DATA"
      BY <3>1 DEF Frame
    <3> QED BY <3>1, <3>2
  <2>3. TxNow(u, f) = DeferTimer(w0, me)
    BY <1>4, <1>10, <2>1, <2>2 DEF DeferTimer
  <2>4. Same(w, u, {"state", "ack", "cts", "netAck", "assertFailed"})
    BY <1>6, <2>1 DEF Asserted, Same, Fields
  <2>5. f = Frame(f.type, me, w.pld.dst, 0, w)
    BY <2>2
  <2> QED BY <1>8, <1>10, <2>2, <2>3, <2>4, <2>5
<1>11. CASE w.long
  <2>1. PICK u : u = [w EXCEPT !.state = "CTS", !.cts = RtsDuration + SIFS]
    OBVIOUS
  <2>2. PICK f : f = Frame("RTS", me, w.pld.dst, RtsDuration, w) /\ f.type = "RTS"
    <3>1. PICK f : f = Frame("RTS", me, w.pld.dst, RtsDuration, w)
      OBVIOUS
    <3>2. f.type = "RTS"
      BY <3>1 DEF Frame
    <3> QED BY <3>1, <3>2
  <2>3. TxNow(u, f) = DeferTimer(w0, me)
    BY <1>4, <1>11, <2>1, <2>2 DEF DeferTimer
  <2>4. u.state = "CTS" /\ u.cts = RtsDuration + SIFS /\ u.netAck = Off
        /\ Same(w, u, {"state", "ack", "cts", "netAck", "assertFailed"})
    BY <1>6, <2>1 DEF Same, Fields
  <2>5. u.cts = ControlTime + 4 * SIFS + ControlTime + DataTime
    BY <2>4, TimesType DEF RtsDuration
  <2>6. f = Frame(f.type, me, w.pld.dst, RtsDuration, w)
    BY <2>2
  <2>7. w.pld.dst # Broadcast
    BY <1>6, <1>11 DEF Noted
  <2> QED BY <1>8, <2>2, <2>3, <2>4, <2>5, <2>6, <2>7
<1> QED BY <1>9, <1>10, <1>11

-----------------------------------------------------------------------------
(* Frames under way, and a step of one station *)

\* What decides on the frames of a station, and on the answers to it.
Steady(w, v) == /\ v.state = w.state /\ v.lastSend = w.lastSend /\ v.cts = w.cts
                /\ v.ack = w.ack /\ v.pld = w.pld /\ v.seq = w.seq

\* A frame stays one that its sender waits for.
LEMMA SentSteady ==
  ASSUME NEW w, NEW v, Steady(w, v), NEW f, Sent(w, f)
  PROVE  Sent(v, f)
BY DEF Steady, Sent

\* An answer stays one that is due.
LEMMA DueSteady ==
  ASSUME NEW w, NEW v, Steady(w, v), NEW f, NEW t, NEW P, NEW Q, Due(w, t, f, P), P \subseteq Q
  PROVE  Due(v, t, f, Q)
BY DEF Steady, Due

\* A station that is not sending has nothing under way.
LEMMA Silent ==
  ASSUME NEW m, NEW arr, NEW g, Flight(m, arr, g), \A q \in Stations : Rules(m[q]),
         NEW s \in Stations, m[s].lastSend < 0
  PROVE  \A r, f : UnderWay(m, arr, r, f) => f.src # s
<1> SUFFICES ASSUME NEW r, NEW f, UnderWay(m, arr, r, f), f.src = s PROVE FALSE
  OBVIOUS
<1>1. m[f.src].lastSend \in Nat
  BY Left
<1> QED BY <1>1

\* A station sends nothing, keeps what it waits for, and perhaps takes a frame up.
Calm(m, n, arr, brr, s, v) ==
  /\ Moves(m, n, s, v) /\ Steady(m[s], v) /\ brr \subseteq arr
  /\ v.recv # Off => \/ v.recv = m[s].recv /\ v.rx = m[s].rx
                     \/ <<s, v.rx>> \in arr /\ v.recv = TxTime(v.rx.type)
  /\ v.phy = m[s].phy /\ v.phyFrame = m[s].phyFrame
  /\ \A r, f : UnderWay(n, brr, r, f) /\ f.type = "DATA" => v.cache[f.src] <= f.seq

\* A station that sends nothing leaves what is under way in order.
LEMMA CalmFlight ==
  ASSUME NEW m, NEW n, NEW arr, NEW brr, NEW g, NEW h, NEW s \in Stations, NEW v,
         Flight(m, arr, g), Calm(m, n, arr, brr, s, v),
         \A q \in Stations : ToSet(g[q]) \subseteq ToSet(h[q])
  PROVE  Flight(n, brr, h)
<1>1. n[s] = v /\ \A q \in Stations \ {s} : n[q] = m[q]
  BY DEF Moves, Calm
<1>2. /\ Moves(m, n, s, v) /\ Steady(m[s], v) /\ brr \subseteq arr
      /\ v.phy = m[s].phy /\ v.phyFrame = m[s].phyFrame
  BY DEF Calm
<1>3. PICK none : none = {}
  OBVIOUS
<1>4. \A f : f \notin none
  BY <1>3
<1>5. \A r, f : <<r, f>> \in brr => <<r, f>> \in arr
  BY <1>2
<1>6. v.recv # Off => (v.recv = m[s].recv /\ v.rx = m[s].rx) \/ <<s, v.rx>> \in arr
  BY DEF Calm
<1>7. v.phy # Off => m[s].phy # Off /\ v.phyFrame = m[s].phyFrame
  BY <1>2
<1>8. \A r, f : UnderWay(n, brr, r, f) => UnderWay(m, arr, r, f) \/ f \in none
  BY ONLY <1>1, <1>5, <1>6, <1>7, s \in Stations, StillUnderWay
<1>9. \A r, f : UnderWay(n, brr, r, f) => UnderWay(m, arr, r, f)
  BY <1>8, <1>4
<1>10. v.lastSend = m[s].lastSend
  BY <1>2 DEF Steady
<1>11. \A r, f : UnderWay(m, arr, r, f) => f.src \in Stations
  BY DEF Flight
<1>12. \A r, f : UnderWay(m, arr, r, f) /\ f.src = s => Sent(v, f)
  BY <1>2, SentSteady DEF Flight
<1>13. ASSUME NEW f, UnderWay(n, brr, s, f), f.dst = s
       PROVE  Due(v, n[f.src].lastSend, f, ToSet(h[f.src]))
  <2>1. UnderWay(m, arr, s, f) /\ f.src \in Stations
    BY <1>11, <1>13, <1>9
  <2>2. Due(m[s], m[f.src].lastSend, f, ToSet(g[f.src]))
    BY <1>13, <2>1 DEF Flight
  <2>3. n[f.src].lastSend = m[f.src].lastSend
    BY <1>1, <1>10, <2>1
  <2> QED BY <1>2, <2>1, <2>2, <2>3, DueSteady
<1>14. v.recv # Off => \/ v.recv = m[s].recv /\ v.rx = m[s].rx
                       \/ <<s, v.rx>> \in arr /\ v.recv = TxTime(v.rx.type)
  BY DEF Calm
<1>15. \A r, f : UnderWay(n, brr, r, f) /\ f.type = "DATA" => v.cache[f.src] <= f.seq
  BY DEF Calm
<1>16. Flies(m, n, arr, brr, h, s, v, none)
  <2>1. \A f \in none : FALSE
    BY <1>4
  <2>2. \A r, f : <<r, f>> \in brr => \/ <<r, f>> \in arr
                                      \/ f \in none /\ v.lastSend = TxTime(f.type)
    BY <1>5
  <2> QED BY ONLY <1>10, <1>12, <1>13, <1>7, <1>14, <1>15, <2>1, <2>2 DEF Flies
<1> QED BY <1>16, <1>2, FlightStep

\* A frame that still comes in at a station, after the end of another, ends later.
LEMMA Remaining ==
  ASSUME NEW m, NEW n, NEW arr, NEW brr, NEW g, NEW s \in Stations, NEW v, NEW fresh,
         Flight(m, arr, g), \A q \in Stations : Rules(m[q]), Moves(m, n, s, v), v.recv = Off,
         \A r, f : <<r, f>> \in brr => <<r, f>> \in arr \/ f \in fresh,
         v.phy # Off => \/ v.phyFrame \in fresh
                        \/ m[s].phy # Off /\ v.phyFrame = m[s].phyFrame,
         NEW f, UnderWay(n, brr, s, f), f \notin fresh
  PROVE  UnderWay(m, arr, s, f) /\ f.src \in Stations /\ m[f.src].lastSend > 0
<1>1. n[s] = v /\ \A q \in Stations \ {s} : n[q] = m[q]
  BY DEF Moves
<1>2. \/ <<s, f>> \in arr
      \/ s = f.dst /\ f.src \in Stations /\ m[f.src].phy # Off /\ m[f.src].phyFrame = f
  <2>1. CASE <<s, f>> \in brr
    BY <2>1
  <2>2. CASE s = f.dst /\ f.src \in Stations /\ n[f.src].phy # Off /\ n[f.src].phyFrame = f
    BY <1>1, <2>2
  <2> QED BY <1>1, <2>1, <2>2 DEF UnderWay
<1>3. UnderWay(m, arr, s, f)
  BY <1>2 DEF UnderWay
<1>4. PICK t \in Nat : t = TxTime(f.type) /\ t > 0
  BY TimesType
<1>5. CASE <<s, f>> \in arr
  BY <1>3, <1>4, <1>5 DEF Flight
<1>6. CASE f.src \in Stations /\ m[f.src].phy # Off /\ m[f.src].phyFrame = f
  <2>1. m[f.src].phy \in Nat /\ m[f.src].lastSend = m[f.src].phy + t
    BY <1>4, <1>6 DEF Rules, Sound, Core, Typed, OnAir, Timer
  <2> QED BY <1>3, <1>4, <1>6, <2>1
<1> QED BY <1>2, <1>5, <1>6

\* A station that is not sending puts frame k on the air, or will after SIFS.
Launches(m, n, arr, brr, h, s, v, k) ==
  /\ m[s].lastSend < 0 /\ k.src = s /\ Sent(v, k)
  /\ \A r, f : <<r, f>> \in brr => \/ <<r, f>> \in arr
                                   \/ f = k /\ v.lastSend = TxTime(k.type)
  /\ v.recv # Off => v.recv = m[s].recv /\ v.rx = m[s].rx
  /\ v.phy # Off => v.phyFrame = k
  /\ k.dst \in Stations => Due(n[k.dst], v.lastSend, k, ToSet(h[s]))
  /\ \A f : UnderWay(n, brr, s, f) /\ f # k /\ f.dst = s =>
        Due(v, n[f.src].lastSend, f, ToSet(h[f.src]))
  /\ \A r, f : UnderWay(n, brr, r, f) /\ f.type = "DATA" => v.cache[f.src] <= f.seq
  /\ k.type = "DATA" => \A q \in Stations : m[q].cache[s] <= k.seq

\* A station that had sent nothing and sends k leaves what is under way in order.
LEMMA LaunchFlight ==
  ASSUME NEW m, NEW n, NEW arr, NEW brr, NEW g, NEW h, NEW s \in Stations, NEW v, NEW k,
         Flight(m, arr, g), \A q \in Stations : Rules(m[q]), Moves(m, n, s, v),
         \A q \in Stations : ToSet(g[q]) \subseteq ToSet(h[q]),
         Launches(m, n, arr, brr, h, s, v, k)
  PROVE  Flight(n, brr, h)
<1>1. PICK fresh : fresh = {k}
  OBVIOUS
<1>2. \A f : f \in fresh <=> f = k
  BY <1>1
<1>3. \A r, f : UnderWay(m, arr, r, f) => f.src # s
  BY Silent DEF Launches
<1>4. /\ \A r, f : <<r, f>> \in brr => \/ <<r, f>> \in arr
                                       \/ f \in fresh /\ v.lastSend = TxTime(f.type)
      /\ v.recv # Off => \/ v.recv = m[s].recv /\ v.rx = m[s].rx
                         \/ <<s, v.rx>> \in arr /\ v.recv = TxTime(v.rx.type)
      /\ v.phy # Off => \/ v.phyFrame \in fresh
                        \/ m[s].phy # Off /\ v.phyFrame = m[s].phyFrame
  BY <1>2 DEF Launches
<1>5. /\ \A f \in fresh : f.src = s /\ Sent(v, f)
      /\ \A f, j \in fresh : f = j
      /\ \A f \in fresh : \A r, j : UnderWay(m, arr, r, j) /\ j.src = s => j = f
      /\ v.lastSend # m[s].lastSend => \A r, f : UnderWay(m, arr, r, f) => f.src # s
      /\ \A r, f : UnderWay(m, arr, r, f) /\ f.src = s => Sent(v, f)
  BY <1>2, <1>3 DEF Launches
<1>6. /\ \A f \in fresh : f.dst \in Stations => Due(n[f.dst], v.lastSend, f, ToSet(h[s]))
      /\ \A f : UnderWay(n, brr, s, f) /\ f \notin fresh /\ f.dst = s =>
           Due(v, n[f.src].lastSend, f, ToSet(h[f.src]))
      /\ \A r, f : UnderWay(n, brr, r, f) /\ f.type = "DATA" => v.cache[f.src] <= f.seq
      /\ \A f \in fresh : f.type = "DATA" => \A q \in Stations : m[q].cache[s] <= f.seq
  BY <1>2 DEF Launches
<1>7. Flies(m, n, arr, brr, h, s, v, fresh)
  BY ONLY <1>4, <1>5, <1>6 DEF Flies
<1> QED BY <1>7, FlightStep

\* SIFS has passed, and the frame goes on the air.
LEMMA PhyFlight ==
  ASSUME NEW m, NEW n, NEW arr, NEW brr, NEW g, NEW s \in Stations, NEW v, NEW k,
         Flight(m, arr, g), Moves(m, n, s, v), Steady(m[s], v),
         m[s].phy # Off, k = m[s].phyFrame, v.lastSend = TxTime(k.type), v.phy = Off,
         \A r, f : <<r, f>> \in brr => <<r, f>> \in arr \/ f = k,
         v.recv = m[s].recv, v.rx = m[s].rx, v.cache = m[s].cache
  PROVE  Flight(n, brr, g)
<1>1. PICK fresh : fresh = {k}
  OBVIOUS
<1>2. \A f : f \in fresh <=> f = k
  BY <1>1
<1>3. k.src = s /\ UnderWay(m, arr, k.dst, k)
  BY DEF Flight, UnderWay
<1>4. n[s] = v /\ (\A q \in Stations \ {s} : n[q] = m[q]) /\ v.lastSend = m[s].lastSend
  BY DEF Moves, Steady
<1>5. \A r, f : UnderWay(n, brr, r, f) => UnderWay(m, arr, r, f) \/ f \in fresh
  <2>1. \A r, f : <<r, f>> \in brr => <<r, f>> \in arr \/ f \in fresh
    BY <1>2
  <2>2. v.recv # Off => (v.recv = m[s].recv /\ v.rx = m[s].rx) \/ <<s, v.rx>> \in arr
    OBVIOUS
  <2>3. v.phy # Off => \/ v.phyFrame \in fresh
                       \/ m[s].phy # Off /\ v.phyFrame = m[s].phyFrame
    OBVIOUS
  <2>4. n[s] = v /\ \A q \in Stations \ {s} : n[q] = m[q]
    BY <1>4
  <2> QED BY ONLY <2>1, <2>2, <2>3, <2>4, s \in Stations, StillUnderWay
<1>6. \A r, f : UnderWay(n, brr, r, f) => \E q : UnderWay(m, arr, q, f)
  BY <1>2, <1>3, <1>5
<1>7. /\ \A r, f : <<r, f>> \in brr => \/ <<r, f>> \in arr
                                       \/ f \in fresh /\ v.lastSend = TxTime(f.type)
      /\ v.recv # Off => \/ v.recv = m[s].recv /\ v.rx = m[s].rx
                         \/ <<s, v.rx>> \in arr /\ v.recv = TxTime(v.rx.type)
      /\ v.phy # Off => \/ v.phyFrame \in fresh
                        \/ m[s].phy # Off /\ v.phyFrame = m[s].phyFrame
  BY <1>2
<1>8. \A r, f : UnderWay(m, arr, r, f) /\ f.src = s => Sent(v, f)
  BY SentSteady DEF Flight
<1>9. /\ \A f \in fresh : f.src = s /\ Sent(v, f)
      /\ \A f, j \in fresh : f = j
      /\ \A f \in fresh : \A r, j : UnderWay(m, arr, r, j) /\ j.src = s => j = f
      /\ v.lastSend # m[s].lastSend => \A r, f : UnderWay(m, arr, r, f) => f.src # s
      /\ \A r, f : UnderWay(m, arr, r, f) /\ f.src = s => Sent(v, f)
  BY <1>2, <1>3, <1>4, <1>8 DEF Flight
<1>10. \A r, f : UnderWay(m, arr, r, f) => /\ n[f.src].lastSend = m[f.src].lastSend
                                            /\ f.src \in Stations
  BY <1>4 DEF Flight
<1>11. ASSUME NEW r \in Stations, NEW f, UnderWay(m, arr, r, f), f.dst = r
       PROVE  Due(n[r], n[f.src].lastSend, f, ToSet(g[f.src]))
  <2>1. Due(m[r], m[f.src].lastSend, f, ToSet(g[f.src]))
    BY <1>11 DEF Flight
  <2>2. Steady(m[r], n[r])
    BY <1>4 DEF Steady
  <2> QED BY <1>10, <1>11, <2>1, <2>2, DueSteady
<1>12. /\ \A f \in fresh : f.dst \in Stations => Due(n[f.dst], v.lastSend, f, ToSet(g[s]))
       /\ \A f : UnderWay(n, brr, s, f) /\ f \notin fresh /\ f.dst = s =>
            Due(v, n[f.src].lastSend, f, ToSet(g[f.src]))
  BY <1>2, <1>3, <1>4, <1>5, <1>11
<1>13. /\ \A r, f : UnderWay(n, brr, r, f) /\ f.type = "DATA" => v.cache[f.src] <= f.seq
       /\ \A f \in fresh : f.type = "DATA" => \A q \in Stations : m[q].cache[s] <= f.seq
  BY <1>2, <1>3, <1>6 DEF Flight
<1>14. Flies(m, n, arr, brr, g, s, v, fresh)
  BY ONLY <1>7, <1>9, <1>12, <1>13 DEF Flies
<1> QED BY <1>14, FlightStep

\* A frame under way after station s sent k was under way before, or it is k.
LEMMA OrSent ==
  ASSUME NEW m, NEW n, NEW arr, NEW brr, NEW s \in Stations, NEW v, NEW k, Moves(m, n, s, v),
         \A r, f : <<r, f>> \in brr => <<r, f>> \in arr \/ f = k,
         v.recv # Off => v.recv = m[s].recv /\ v.rx = m[s].rx,
         v.phy # Off => v.phyFrame = k
  PROVE  \A r, f : UnderWay(n, brr, r, f) => UnderWay(m, arr, r, f) \/ f = k
BY DEF Moves, UnderWay

\* Frames stay under way when more is passed up.
LEMMA MorePassed ==
  ASSUME NEW m, NEW arr, NEW g, NEW h, Flight(m, arr, g),
         \A q \in Stations : ToSet(g[q]) \subseteq ToSet(h[q])
  PROVE  Flight(m, arr, h)
<1>1. ASSUME NEW r \in Stations, NEW f, UnderWay(m, arr, r, f), f.dst = r
      PROVE  Due(m[r], m[f.src].lastSend, f, ToSet(h[f.src]))
  <2>1. Due(m[r], m[f.src].lastSend, f, ToSet(g[f.src])) /\ f.src \in Stations
    BY <1>1 DEF Flight
  <2>2. ToSet(g[f.src]) \subseteq ToSet(h[f.src])
    BY <2>1
  <2> QED BY <2>1, <2>2 DEF Due
<1> QED BY <1>1 DEF Flight

-----------------------------------------------------------------------------
(* Packets that are passed up, and answers *)

\* The payload is with the station that it is for.
Relied(p, g) == p.dst \in Stations /\ p \in ToSet(g[p.dst])

\* The cache of a station holds the number of the last packet of each source that
\* it passed up.  What it passed up are packets up to these, each once.
Books(m, g, t) ==
  /\ g \in [Stations -> Seq(Payloads)]
  /\ \A s \in Stations : /\ m[s].cache \in [Stations -> Nat] /\ m[s].up = <<>>
                         /\ Own(m[s], Len(t[s])) /\ IsInjective(g[s])
  /\ \A s, q \in Stations :
       /\ m[s].cache[q] <= m[q].seq
       /\ m[s].cache[q] > 0 => Traffic[q][m[s].cache[q]] \in ToSet(g[s])
  /\ \A s \in Stations : \A p \in ToSet(g[s]) :
       \E q \in Stations : \E i \in 1 .. m[s].cache[q] : p = Traffic[q][i]
  /\ \A s \in Stations : \A a \in ToSet(t[s]) :
       a[2] = TRUE /\ a[1].dst # Broadcast => Relied(a[1], g)

\* A station that goes on as v passes nothing up, or a packet of greater number.
Passes(m, s, v, up) ==
  \/ up = <<>> /\ v.cache = m[s].cache
  \/ \E f : /\ f.src \in Stations /\ f.seq \in m[s].cache[f.src] + 1 .. m[f.src].seq
            /\ f.pld = Traffic[f.src][f.seq]
            /\ up = <<f.pld>> /\ v.cache = [m[s].cache EXCEPT ![f.src] = f.seq]

\* It answers nothing, or what can be relied on.
Reports(g, answers) ==
  \/ answers = <<>>
  \/ \E p \in Payloads, ok \in BOOLEAN :
       answers = << <<p, ok>> >> /\ (ok = TRUE /\ p.dst # Broadcast => Relied(p, g))

\* A sequence with one more element.
LEMMA OneMore ==
  ASSUME NEW S, NEW q \in Seq(S), NEW e \in S
  PROVE  /\ q \o <<e>> \in Seq(S) /\ Len(q \o <<e>>) = Len(q) + 1
         /\ ToSet(q \o <<e>>) = ToSet(q) \union {e}
         /\ IsInjective(q) /\ e \notin ToSet(q) => IsInjective(q \o <<e>>)
<1>1. PICK one \in Seq(S) : one = <<e>> /\ Len(one) = 1 /\ one[1] = e
  <2>1. <<e>> \in Seq(S) /\ Len(<<e>>) = 1 /\ <<e>>[1] = e
    OBVIOUS
  <2> QED BY <2>1
<1>2. PICK n \in Nat : n = Len(q) /\ DOMAIN q = 1 .. n
  BY LenProperties
<1>3. PICK u : u = q \o one
  OBVIOUS
<1>4. /\ u \in Seq(S) /\ Len(u) = n + 1
      /\ \A i \in 1 .. n + 1 : u[i] = IF i <= n THEN q[i] ELSE one[i - n]
  BY <1>1, <1>2, <1>3, ConcatProperties
<1>5. DOMAIN u = 1 .. n + 1
  BY <1>4, LenProperties
<1>6. (\A i \in 1 .. n : u[i] = q[i]) /\ u[n + 1] = e
  <2>1. n + 1 \in 1 .. n + 1 /\ ~(n + 1 <= n) /\ (n + 1) - n = 1
    OBVIOUS
  <2>2. u[n + 1] = one[1]
    BY <1>4, <2>1
  <2> QED BY <1>1, <1>4, <2>2
<1>7. ToSet(u) = ToSet(q) \union {e}
  <2>1. ASSUME NEW x \in ToSet(u) PROVE x \in ToSet(q) \union {e}
    <3>1. PICK i \in 1 .. n + 1 : x = u[i]
      BY <1>5, <2>1 DEF ToSet
    <3>2. CASE i = n + 1
      BY <1>6, <3>1, <3>2
    <3>3. CASE i # n + 1
      <4>1. i \in 1 .. n
        BY <3>3
      <4> QED BY <1>2, <1>6, <3>1, <4>1 DEF ToSet
    <3> QED BY <3>2, <3>3
  <2>2. ASSUME NEW x \in ToSet(q) \union {e} PROVE x \in ToSet(u)
    <3>1. CASE x = e
      <4>1. n + 1 \in DOMAIN u
        BY <1>5
      <4> QED BY <1>6, <3>1, <4>1 DEF ToSet
    <3>2. CASE x \in ToSet(q)
      <4>1. PICK i \in 1 .. n : x = q[i]
        BY <1>2, <3>2 DEF ToSet
      <4>2. i \in DOMAIN u
        BY <1>5
      <4> QED BY <1>6, <4>1, <4>2 DEF ToSet
    <3> QED BY <2>2, <3>1, <3>2
  <2> QED BY <2>1, <2>2
<1>8. ASSUME IsInjective(q), e \notin ToSet(q) PROVE IsInjective(u)
  <2>1. \A i \in 1 .. n : q[i] # e
    BY <1>2, <1>8 DEF ToSet
  <2>2. \A i, j \in 1 .. n : q[i] = q[j] => i = j
    BY <1>2, <1>8 DEF IsInjective
  <2>3. \A i \in 1 .. n + 1 : i \in 1 .. n \/ i = n + 1
    OBVIOUS
  <2>4. \A i, j \in 1 .. n + 1 : u[i] = u[j] => i = j
    BY <1>6, <2>1, <2>2, <2>3
  <2> QED BY <1>5, <2>4 DEF IsInjective
<1> QED BY <1>1, <1>2, <1>3, <1>4, <1>7, <1>8

\* The packet in the MAC is the one that its number tells.
LEMMA InMac ==
  ASSUME NEW s \in Stations, NEW t \in Seq(Payloads \X BOOLEAN), NEW w, Rules(w),
         NEW k \in 0 .. Len(Traffic[s]), Ledger(s, t, w, k), Own(w, Len(t))
  PROVE  /\ w.seq \in 0 .. Len(Traffic[s])
         /\ w.busy = TRUE => w.seq > 0 /\ w.pld = Traffic[s][w.seq]
<1>1. PICK n \in Nat : n = Len(t) /\ DOMAIN t = 1 .. n
  BY LenProperties
<1>2. PICK first \in Seq(Payloads) : first = Firsts(t) /\ Len(first) = n
  <2>1. NoPayload \in Payloads /\ TRUE \in BOOLEAN
    BY Zenon DEF Payloads
  <2>2. Firsts(t) \in Seq(Payloads)
    BY <2>1, FirstsAppend
  <2>3. DOMAIN Firsts(t) = 1 .. n
    BY <1>1 DEF Firsts
  <2>4. DOMAIN Firsts(t) = 1 .. Len(Firsts(t)) /\ Len(Firsts(t)) \in Nat
    BY <2>2, LenProperties
  <2> QED BY <2>2, <2>3, <2>4
<1>3. PICK owed \in Seq(Payloads) : /\ owed = Owed(w)
                                    /\ w.busy = TRUE => owed = <<w.pld>> \o w.queue
  BY OwedType
<1>4. PICK T, S : T = Traffic[s] /\ S = ToSet(T)
  OBVIOUS
<1>5. T \in Seq(S) /\ Len(T) \in Nat /\ k \in Nat /\ k <= Len(T)
  BY <1>4, TrafficAssumption, LenProperties
<1>6. \A i \in 1 .. k : T[i] \in S
  BY <1>5, ElementOfSeq
<1>7. PICK U : U = SubSeq(T, 1, k)
  OBVIOUS
<1>8. Len(U) = k /\ \A i \in 1 .. k : U[i] = T[i]
  <2>1. /\ Len(U) = IF 1 <= k THEN k - 1 + 1 ELSE 0
        /\ \A i \in 1 .. k - 1 + 1 : U[i] = T[1 + i - 1]
    BY <1>5, <1>6, <1>7, SubSeqProperties
  <2>2. \A i \in 1 .. k : i \in 1 .. k - 1 + 1 /\ 1 + i - 1 = i
    BY <1>5
  <2> QED BY <1>5, <2>1, <2>2
<1>9. first \o owed = U
  BY <1>2, <1>3, <1>4, <1>7 DEF Ledger
<1>10. /\ k = n + Len(owed) /\ Len(owed) \in Nat
       /\ \A i \in 1 .. n + Len(owed) : U[i] = IF i <= n THEN first[i] ELSE owed[i - n]
  <2>1. Len(owed) \in Nat
    BY LenProperties
  <2>2. /\ Len(first \o owed) = Len(first) + Len(owed)
        /\ \A i \in 1 .. Len(first) + Len(owed) :
             (first \o owed)[i] = IF i <= Len(first) THEN first[i] ELSE owed[i - Len(first)]
    BY ConcatProperties
  <2> QED BY <1>2, <1>5, <1>8, <1>9, <2>1, <2>2
<1>11. CASE w.busy # TRUE
  <2>1. w.seq = n + 0
    BY <1>1, <1>11, Zenon DEF Own
  <2>2. w.seq \in 0 .. Len(T)
    BY <1>5, <1>10, <2>1
  <2> QED BY <1>4, <1>11, <2>2, Zenon
<1>12. CASE w.busy = TRUE
  <2>1. w.seq = n + 1
    BY <1>1, <1>12, Zenon DEF Own
  <2>2. w.pld \in Payloads /\ w.queue \in Seq(Payloads) /\ Len(w.queue) \in Nat
    BY LenProperties DEF Rules, Sound, Core, Typed
  <2>3. PICK one \in Seq(Payloads) : one = <<w.pld>> /\ Len(one) = 1 /\ one[1] = w.pld
    <3>1. <<w.pld>> \in Seq(Payloads) /\ Len(<<w.pld>>) = 1 /\ <<w.pld>>[1] = w.pld
      BY <2>2
    <3> QED BY <3>1
  <2>4. owed = one \o w.queue
    BY <1>3, <1>12, <2>3
  <2>5. /\ Len(owed) = 1 + Len(w.queue)
        /\ \A i \in 1 .. 1 + Len(w.queue) : owed[i] = IF i <= 1 THEN one[i] ELSE w.queue[i - 1]
    BY <2>2, <2>3, <2>4, ConcatProperties
  <2>6. owed[1] = w.pld
    BY <2>2, <2>3, <2>5
  <2>7. n + 1 \in 1 .. n + Len(owed) /\ ~(n + 1 <= n) /\ (n + 1) - n = 1 /\ n + 1 <= k
    BY <1>10, <2>2, <2>5
  <2>8. U[n + 1] = w.pld
    BY <1>10, <2>6, <2>7
  <2>9. U[n + 1] = T[n + 1]
    BY <1>5, <1>8, <2>7
  <2> QED BY <1>4, <1>5, <2>1, <2>7, <2>8, <2>9
<1> QED BY <1>11, <1>12

\* One station goes on, passes up and answers.
Entries(m, n, g, h, t, u, s, v, up, answers) ==
  /\ Moves(m, n, s, v)
  /\ h = [g EXCEPT ![s] = @ \o up] /\ u = [t EXCEPT ![s] = @ \o answers]
  /\ v.up = <<>> /\ Own(v, Len(t[s]) + Len(answers)) /\ v.seq >= m[s].seq /\ v.seq \in Nat
  /\ Passes(m, s, v, up) /\ Reports(g, answers)

\* What a station passes up and what it answers leave the books in order.
LEMMA BooksStep ==
  ASSUME NEW m, NEW n, NEW g, NEW h, NEW t, NEW u, NEW s \in Stations, NEW v, NEW up, NEW answers,
         Books(m, g, t), t \in [Stations -> Seq(Payloads \X BOOLEAN)],
         \A q \in Stations : m[q].seq \in 0 .. Len(Traffic[q]),
         Entries(m, n, g, h, t, u, s, v, up, answers)
  PROVE  /\ Books(n, h, u)
         /\ \A q \in Stations : ToSet(g[q]) \subseteq ToSet(h[q])
<1>1. /\ Moves(m, n, s, v)
      /\ h = [g EXCEPT ![s] = @ \o up] /\ u = [t EXCEPT ![s] = @ \o answers]
      /\ v.up = <<>> /\ Own(v, Len(t[s]) + Len(answers)) /\ v.seq >= m[s].seq /\ v.seq \in Nat
  BY DEF Entries
<1>2. v.seq \in Nat /\ v.seq >= m[s].seq
  BY DEF Entries
<1>3. Passes(m, s, v, up) /\ Reports(g, answers)
  BY DEF Entries
<1>4. n[s] = v /\ \A q \in Stations \ {s} : n[q] = m[q]
  BY <1>1 DEF Moves
<1>5. g[s] \in Seq(Payloads) /\ h[s] = g[s] \o up /\ \A q \in Stations \ {s} : h[q] = g[q]
  BY <1>1 DEF Books
<1>6. /\ t[s] \in Seq(Payloads \X BOOLEAN) /\ u[s] = t[s] \o answers
      /\ \A q \in Stations \ {s} : u[q] = t[q]
  BY <1>1
<1>7. \A q \in Stations : n[q].seq \in Nat /\ m[q].seq <= n[q].seq /\ m[q].seq \in Nat
  BY <1>4, <1>2
<1>8. /\ m[s].cache \in [Stations -> Nat] /\ IsInjective(g[s])
      /\ \A q \in Stations : /\ m[s].cache[q] <= m[q].seq /\ m[s].cache[q] \in Nat
                             /\ m[s].cache[q] > 0 => Traffic[q][m[s].cache[q]] \in ToSet(g[s])
  BY DEF Books
<1>9. \A x \in ToSet(g[s]) : \E q \in Stations : \E i \in 1 .. m[s].cache[q] : x = Traffic[q][i]
  BY DEF Books
<1>10. /\ v.cache \in [Stations -> Nat] /\ IsInjective(h[s]) /\ h[s] \in Seq(Payloads)
       /\ ToSet(g[s]) \subseteq ToSet(h[s])
       /\ \A q \in Stations : /\ m[s].cache[q] <= v.cache[q] /\ v.cache[q] <= m[q].seq
                              /\ v.cache[q] > 0 => Traffic[q][v.cache[q]] \in ToSet(h[s])
       /\ \A p \in ToSet(h[s]) : \E q \in Stations : \E i \in 1 .. v.cache[q] : p = Traffic[q][i]
  <2>1. CASE up = <<>> /\ v.cache = m[s].cache
    <3>1. h[s] = g[s]
      BY <1>5, <2>1, ConcatEmptySeq
    <3>2. \A q \in Stations : m[s].cache[q] \in Nat
      BY DEF Books
    <3>3. v.cache = m[s].cache
      BY <2>1
    <3>4. \A q \in Stations : m[s].cache[q] <= v.cache[q] /\ v.cache[q] <= m[q].seq
      BY ONLY <1>8, <3>2, <3>3
    <3>5. \A q \in Stations : v.cache[q] > 0 => Traffic[q][v.cache[q]] \in ToSet(h[s])
      BY ONLY <1>8, <3>1, <3>3
    <3>6. \A p \in ToSet(h[s]) : \E q \in Stations : \E i \in 1 .. v.cache[q] : p = Traffic[q][i]
      BY ONLY <1>9, <3>1, <3>3
    <3>7. /\ v.cache \in [Stations -> Nat] /\ IsInjective(h[s]) /\ h[s] \in Seq(Payloads)
          /\ ToSet(g[s]) \subseteq ToSet(h[s])
      BY <1>5, <1>8, <3>1, <3>3
    <3> QED BY <3>4, <3>5, <3>6, <3>7
  <2>2. CASE \E f : /\ f.src \in Stations /\ f.seq \in m[s].cache[f.src] + 1 .. m[f.src].seq
                    /\ f.pld = Traffic[f.src][f.seq]
                    /\ up = <<f.pld>> /\ v.cache = [m[s].cache EXCEPT ![f.src] = f.seq]
    <3>1. PICK f : /\ f.src \in Stations /\ f.seq \in m[s].cache[f.src] + 1 .. m[f.src].seq
                   /\ f.pld = Traffic[f.src][f.seq]
                   /\ up = <<f.pld>> /\ v.cache = [m[s].cache EXCEPT ![f.src] = f.seq]
      BY <2>2, Zenon
    <3>2. PICK src, seq, c : src = f.src /\ seq = f.seq /\ c = m[s].cache
      OBVIOUS
    <3>3. /\ src \in Stations /\ seq \in c[src] + 1 .. m[src].seq
          /\ f.pld = Traffic[src][seq] /\ c = m[s].cache
          /\ up = <<f.pld>> /\ v.cache = [c EXCEPT ![src] = seq]
      BY <3>1, <3>2, Zenon
    <3>4. c \in [Stations -> Nat] /\ seq \in Nat /\ seq > 0 /\ c[src] < seq /\ seq <= m[src].seq
      <4>1. c \in [Stations -> Nat] /\ c[src] \in Nat
        BY <3>3 DEF Books
      <4> QED BY <1>7, <3>3, <4>1
    <3>5. PICK p : p = Traffic[src][seq] /\ up = <<p>>
      BY <3>3
    <3>6. \A q \in Stations : \A i \in 1 .. m[q].seq : i \in DOMAIN Traffic[q]
      <4> SUFFICES ASSUME NEW q \in Stations, NEW i \in 1 .. m[q].seq PROVE i \in DOMAIN Traffic[q]
        OBVIOUS
      <4>1. PICK S : S = ToSet(Traffic[q])
        OBVIOUS
      <4>2. Traffic[q] \in Seq(S)
        BY <4>1, TrafficAssumption
      <4>3. DOMAIN Traffic[q] = 1 .. Len(Traffic[q]) /\ Len(Traffic[q]) \in Nat
        BY <4>2, LenProperties
      <4> QED BY <1>7, <4>3
    <3>7. p \in Payloads
      <4>1. seq \in DOMAIN Traffic[src]
        BY <1>7, <3>3, <3>4, <3>6
      <4>2. p \in ToSet(Traffic[src])
        BY <3>5, <4>1 DEF ToSet
      <4> QED BY <3>3, <4>2 DEF Payloads
    <3>8. p \notin ToSet(g[s])
      <4>1. SUFFICES ASSUME p \in ToSet(g[s]) PROVE FALSE
        OBVIOUS
      <4>2. PICK q \in Stations : \E i \in 1 .. m[s].cache[q] : p = Traffic[q][i]
        BY <1>9, <4>1
      <4>3. PICK i \in 1 .. m[s].cache[q] : p = Traffic[q][i]
        BY <4>2
      <4>4. q \in Stations /\ i \in 1 .. c[q] /\ p = Traffic[q][i]
        BY <3>3, <4>3
      <4>5. c[q] \in Nat /\ c[q] <= m[q].seq
        BY <1>8, <3>3, <4>4
      <4>6. i \in DOMAIN Traffic[q]
        BY <1>7, <3>6, <4>4, <4>5
      <4>7. seq \in DOMAIN Traffic[src]
        BY <1>7, <3>3, <3>4, <3>6
      <4>8. q = src /\ i = seq
        <5>1. Traffic[q][i] = Traffic[src][seq]
          BY <3>5, <4>4
        <5> QED BY <3>3, <4>4, <4>6, <4>7, <5>1, PacketsDiffer
      <4> QED BY <3>4, <4>4, <4>5, <4>8
    <3>9. /\ h[s] \in Seq(Payloads) /\ ToSet(h[s]) = ToSet(g[s]) \union {p}
          /\ IsInjective(h[s])
      <4>1. IsInjective(g[s])
        BY DEF Books
      <4> QED BY <1>5, <3>5, <3>7, <3>8, <4>1, OneMore
    <3>10. PICK d : d = v.cache /\ d \in [Stations -> Nat] /\ d[src] = seq
                    /\ \A q \in Stations \ {src} : d[q] = c[q]
      <4>1. v.cache \in [Stations -> Nat] /\ v.cache[src] = seq
                   /\ \A q \in Stations \ {src} : v.cache[q] = c[q]
        BY <3>3, <3>4
      <4> QED BY <4>1
    <3>11. \A q \in Stations : c[q] <= d[q] /\ d[q] <= m[q].seq /\ c[q] \in Nat /\ d[q] \in Nat
      BY <1>7, <1>8, <3>3, <3>4, <3>10
    <3>12. ASSUME NEW q \in Stations, d[q] > 0 PROVE Traffic[q][d[q]] \in ToSet(h[s])
      <4>1. CASE q = src
        BY <3>5, <3>9, <3>10, <4>1
      <4>2. CASE q # src
        BY <3>3, <3>9, <3>10, <3>12, <4>2 DEF Books
      <4> QED BY <4>1, <4>2
    <3>13. ASSUME NEW x \in ToSet(h[s])
           PROVE  \E q \in Stations : \E i \in 1 .. d[q] : x = Traffic[q][i]
      <4>1. CASE x = p
        <5>1. seq \in 1 .. d[src]
          BY <3>4, <3>10
        <5> QED BY <3>3, <3>5, <4>1, <5>1
      <4>2. CASE x \in ToSet(g[s])
        <5>1. PICK q \in Stations : \E i \in 1 .. m[s].cache[q] : x = Traffic[q][i]
          BY <1>9, <4>2
        <5>2. PICK i \in 1 .. m[s].cache[q] : x = Traffic[q][i]
          BY <5>1
        <5>3. i \in 1 .. c[q] /\ x = Traffic[q][i]
          BY <3>3, <5>2
        <5>4. i \in 1 .. d[q]
          BY <3>11, <5>3
        <5> QED BY <5>3, <5>4
      <4> QED BY <3>9, <3>13, <4>1, <4>2
    <3>14. ToSet(g[s]) \subseteq ToSet(h[s])
      BY <3>9
    <3>15. \A q \in Stations : /\ m[s].cache[q] <= v.cache[q] /\ v.cache[q] <= m[q].seq
                               /\ v.cache[q] > 0 => Traffic[q][v.cache[q]] \in ToSet(h[s])
      BY <3>3, <3>10, <3>11, <3>12
    <3>16. \A x \in ToSet(h[s]) : \E q \in Stations : \E i \in 1 .. v.cache[q] : x = Traffic[q][i]
      BY <3>10, <3>13
    <3>17. v.cache \in [Stations -> Nat] /\ IsInjective(h[s]) /\ h[s] \in Seq(Payloads)
      BY <3>9, <3>10
    <3> QED BY ONLY <3>14, <3>15, <3>16, <3>17, Zenon
  <2> QED BY <1>3, <2>1, <2>2 DEF Passes
<1>11. \A q \in Stations : ToSet(g[q]) \subseteq ToSet(h[q])
  BY <1>5, <1>10
<1>12. \A p : Relied(p, g) => Relied(p, h)
  BY <1>11 DEF Relied
<1>13. /\ Own(v, Len(u[s]))
       /\ \A a \in ToSet(u[s]) : a[2] = TRUE /\ a[1].dst # Broadcast => Relied(a[1], h)
  <2>1. \A a \in ToSet(t[s]) : a[2] = TRUE /\ a[1].dst # Broadcast => Relied(a[1], h)
    BY <1>12 DEF Books
  <2>2. CASE answers = <<>>
    <3>1. u[s] = t[s]
      BY <1>6, <2>2, ConcatEmptySeq
    <3>2. Len(t[s]) + Len(answers) = Len(t[s])
      <4>1. Len(t[s]) \in Nat /\ Len(answers) = 0
        BY <1>6, <2>2, LenProperties
      <4> QED BY <4>1
    <3> QED BY <1>1, <2>1, <3>1, <3>2
  <2>3. CASE \E p \in Payloads, ok \in BOOLEAN :
               answers = << <<p, ok>> >> /\ (ok = TRUE /\ p.dst # Broadcast => Relied(p, g))
    <3>1. PICK p \in Payloads, ok \in BOOLEAN :
               answers = << <<p, ok>> >> /\ (ok = TRUE /\ p.dst # Broadcast => Relied(p, g))
      BY <2>3
    <3>2. PICK a \in Payloads \X BOOLEAN : a = <<p, ok>> /\ a[1] = p /\ a[2] = ok
      <4>1. <<p, ok>> \in Payloads \X BOOLEAN
        OBVIOUS
      <4> QED BY <4>1
    <3>3. answers = <<a>>
      BY <3>1, <3>2
    <3>4. Len(u[s]) = Len(t[s]) + 1 /\ ToSet(u[s]) = ToSet(t[s]) \union {a}
      BY <1>6, <3>3, OneMore
    <3>5. Len(answers) = 1
      BY <3>3
    <3>6. a[2] = TRUE /\ a[1].dst # Broadcast => Relied(a[1], h)
      BY <1>12, <3>1, <3>2
    <3> QED BY <1>1, <2>1, <3>4, <3>5, <3>6
  <2> QED BY <1>3, <2>2, <2>3 DEF Reports
<1>14. h \in [Stations -> Seq(Payloads)]
  <2>1. g \in [Stations -> Seq(Payloads)]
    BY DEF Books
  <2> QED BY <1>10, <1>1, <2>1
<1>15. ASSUME NEW r \in Stations
       PROVE  /\ n[r].cache \in [Stations -> Nat] /\ n[r].up = <<>>
              /\ Own(n[r], Len(u[r])) /\ IsInjective(h[r])
  BY <1>4, <1>5, <1>6, <1>10, <1>13, <1>1 DEF Books
<1>16. ASSUME NEW r \in Stations, NEW q \in Stations
       PROVE  /\ n[r].cache[q] <= n[q].seq
              /\ n[r].cache[q] > 0 => Traffic[q][n[r].cache[q]] \in ToSet(h[r])
  <2>1. /\ n[r].cache[q] <= m[q].seq
        /\ n[r].cache[q] > 0 => Traffic[q][n[r].cache[q]] \in ToSet(h[r])
    BY <1>4, <1>5, <1>10 DEF Books
  <2>2. n[r].cache[q] \in Nat
    BY <1>15
  <2> QED BY <1>7, <2>1, <2>2
<1>17. ASSUME NEW r \in Stations, NEW p \in ToSet(h[r])
       PROVE  \E q \in Stations : \E i \in 1 .. n[r].cache[q] : p = Traffic[q][i]
  <2>1. CASE r = s
    BY <1>4, <1>10, <1>17, <2>1
  <2>2. CASE r # s
    <3>1. n[r] = m[r] /\ p \in ToSet(g[r])
      BY <1>4, <1>5, <1>17, <2>2
    <3>2. \A x \in ToSet(g[r]) : \E q \in Stations : \E i \in 1 .. m[r].cache[q] : x = Traffic[q][i]
      BY DEF Books
    <3>3. PICK q \in Stations : \E i \in 1 .. m[r].cache[q] : p = Traffic[q][i]
      BY <3>1, <3>2
    <3> QED BY <3>1, <3>3
  <2> QED BY <2>1, <2>2
<1>18. ASSUME NEW r \in Stations, NEW a \in ToSet(u[r]), a[2] = TRUE, a[1].dst # Broadcast
       PROVE  Relied(a[1], h)
  BY <1>6, <1>12, <1>13, <1>18 DEF Books
<1> QED BY <1>11, <1>14, <1>15, <1>16, <1>17, <1>18 DEF Books

-----------------------------------------------------------------------------
(* The whole invariant, one action at a time *)

DeliveryInv == MacInv /\ Flight(mac, arriving, got) /\ Books(mac, got, told)

Delivers == Flight(mac', arriving', got') /\ Books(mac', got', told')

\* What the invariant says of one station.
LEMMA OfStation ==
  ASSUME DeliveryInv, NEW s \in Stations
  PROVE  /\ DOMAIN mac = Stations /\ Rules(mac[s]) /\ DOMAIN mac[s] = Fields
         /\ mac[s].answers = <<>> /\ mac[s].air = {} /\ mac[s].up = <<>>
         /\ told \in [Stations -> Seq(Payloads \X BOOLEAN)]
         /\ Len(told[s]) \in Nat /\ Own(mac[s], Len(told[s]))
         /\ mac[s].seq \in 0 .. Len(Traffic[s]) /\ mac[s].seq \in Nat
         /\ mac[s].busy = TRUE => mac[s].seq > 0 /\ mac[s].pld = Traffic[s][mac[s].seq]
<1>1. /\ Rules(mac[s]) /\ DOMAIN mac[s] = Fields /\ mac[s].answers = <<>> /\ mac[s].air = {}
      /\ told \in [Stations -> Seq(Payloads \X BOOLEAN)] /\ DOMAIN mac = Stations
  BY DEF DeliveryInv, MacInv, Rules, Sound, Core, Typed
<1>2. mac[s].up = <<>> /\ Own(mac[s], Len(told[s]))
  BY DEF DeliveryInv, Books
<1>3. PICK t \in Seq(Payloads \X BOOLEAN) : t = told[s] /\ Len(t) \in Nat
  BY <1>1, LenProperties
<1>4. PICK k \in 0 .. Len(Traffic[s]) : Ledger(s, t, mac[s], k)
  BY <1>3 DEF DeliveryInv, MacInv, Ledger
<1>5. /\ mac[s].seq \in 0 .. Len(Traffic[s])
      /\ mac[s].busy = TRUE => mac[s].seq > 0 /\ mac[s].pld = Traffic[s][mac[s].seq]
  BY <1>1, <1>2, <1>3, <1>4, InMac
<1>6. mac[s].seq \in Nat
  BY <1>5
<1> QED BY <1>1, <1>2, <1>3, <1>5, <1>6

\* A station becomes w, but for what leaves it.
LEMMA Becoming ==
  ASSUME DeliveryInv, NEW s \in Stations, NEW w, Becomes(s, w), DOMAIN w = Fields
  PROVE  /\ Moves(mac, mac', s, Quiet(w)) /\ Steady(w, Quiet(w))
         /\ Quiet(w).recv = w.recv /\ Quiet(w).rx = w.rx /\ Quiet(w).cache = w.cache
         /\ Quiet(w).phy = w.phy /\ Quiet(w).phyFrame = w.phyFrame /\ Quiet(w).up = <<>>
         /\ \A k : Own(w, k) => Own(Quiet(w), k)
<1>1. DOMAIN mac = Stations /\ mac' = [mac EXCEPT ![s] = Quiet(w)]
  BY DEF DeliveryInv, MacInv, Becomes
<1>2. PICK v : v = Quiet(w)
  OBVIOUS
<1>3. v.up = <<>> /\ Same(w, v, {"air", "up", "answers"})
  BY <1>2 DEF Quiet, Same, Fields
<1>4. Moves(mac, mac', s, v)
  BY <1>1, <1>2 DEF Moves
<1>5. /\ Steady(w, v) /\ v.recv = w.recv /\ v.rx = w.rx /\ v.cache = w.cache
      /\ v.phy = w.phy /\ v.phyFrame = w.phyFrame
  BY <1>3 DEF Same, Fields, Steady
<1>6. /\ v.seq = w.seq /\ v.busy = w.busy /\ v.long = w.long /\ v.pld = w.pld
      /\ v.netAck = w.netAck /\ v.defer = w.defer /\ v.lastSend = w.lastSend
  BY <1>3 DEF Same, Fields
<1>7. \A k : Own(w, k) => Own(v, k)
  BY <1>6 DEF Own, Noted, Gap
<1> QED BY <1>2, <1>3, <1>4, <1>5, <1>7

\* The books are kept.
LEMMA BecomesBooks ==
  ASSUME DeliveryInv, NEW s \in Stations, NEW w, Becomes(s, w), DOMAIN w = Fields,
         Own(w, Len(told[s]) + Len(w.answers)), w.seq >= mac[s].seq, w.seq \in Nat,
         Passes(mac, s, w, w.up), Reports(got, w.answers)
  PROVE  /\ Books(mac', got', told')
         /\ \A q \in Stations : ToSet(got[q]) \subseteq ToSet(got'[q])
<1>1. PICK v : v = Quiet(w)
  OBVIOUS
<1>2. /\ Moves(mac, mac', s, v) /\ v.up = <<>> /\ v.seq = w.seq /\ v.cache = w.cache
      /\ Own(v, Len(told[s]) + Len(w.answers))
  BY <1>1, Becoming DEF Steady
<1>3. PICK up, answers : up = w.up /\ answers = w.answers
  OBVIOUS
<1>4. got' = [got EXCEPT ![s] = @ \o up] /\ told' = [told EXCEPT ![s] = @ \o answers]
  BY <1>3 DEF Becomes
<1>5. \A q \in Stations : mac[q].seq \in 0 .. Len(Traffic[q])
  BY OfStation
<1>6. told \in [Stations -> Seq(Payloads \X BOOLEAN)] /\ Books(mac, got, told)
  BY DEF DeliveryInv, MacInv
<1>7. Passes(mac, s, v, up) /\ Reports(got, answers)
  BY <1>2, <1>3 DEF Passes
<1>8. v.seq >= mac[s].seq /\ v.seq \in Nat /\ Own(v, Len(told[s]) + Len(answers))
  BY <1>2, <1>3
<1>9. Moves(mac, mac', s, v) /\ v.up = <<>>
  BY <1>2
<1>10. Entries(mac, mac', got, got', told, told', s, v, up, answers)
  BY ONLY <1>4, <1>7, <1>8, <1>9 DEF Entries
<1> QED BY <1>5, <1>6, <1>10, BooksStep

\* Nothing of a station is under way that it waits for an answer to.
Unawaited(m, arr, s) ==
  \A r, f : UnderWay(m, arr, r, f) /\ f.src = s =>
     f.type # "RTS" /\ (f.type = "DATA" => f.dst = Broadcast)

\* No answer is under way to it.
Unanswered(n, brr, s) ==
  \A f : UnderWay(n, brr, s, f) /\ f.dst = s => f.type \notin {"CTS", "ACK"}

\* A step of a station that waits for nothing.
LEMMA ServesFlight ==
  ASSUME NEW m, NEW n, NEW arr, NEW g, NEW h, NEW s \in Stations, NEW v,
         Flight(m, arr, g), Moves(m, n, s, v),
         \A q \in Stations : ToSet(g[q]) \subseteq ToSet(h[q]),
         v.lastSend = m[s].lastSend, v.phy = m[s].phy, v.phyFrame = m[s].phyFrame,
         v.cache = m[s].cache, v.seq >= m[s].seq, v.seq \in Nat, m[s].seq \in Nat,
         v.recv # Off => v.recv = m[s].recv /\ v.rx = m[s].rx,
         Unawaited(m, arr, s), Unanswered(n, arr, s)
  PROVE  Flight(n, arr, h)
<1>1. n[s] = v /\ \A q \in Stations \ {s} : n[q] = m[q]
  BY DEF Moves
<1>2. PICK none : none = {}
  OBVIOUS
<1>3. \A f : f \notin none
  BY <1>2
<1>4. \A r, f : UnderWay(n, arr, r, f) => UnderWay(m, arr, r, f)
  <2>1. \A r, f : <<r, f>> \in arr => <<r, f>> \in arr \/ f \in none
    OBVIOUS
  <2>2. v.recv # Off => (v.recv = m[s].recv /\ v.rx = m[s].rx) \/ <<s, v.rx>> \in arr
    OBVIOUS
  <2>3. v.phy # Off => \/ v.phyFrame \in none
                       \/ m[s].phy # Off /\ v.phyFrame = m[s].phyFrame
    OBVIOUS
  <2>4. \A r, f : UnderWay(n, arr, r, f) => UnderWay(m, arr, r, f) \/ f \in none
    BY ONLY <1>1, <2>1, <2>2, <2>3, s \in Stations, StillUnderWay
  <2> QED BY <1>3, <2>4
<1>5. ASSUME NEW r, NEW f, UnderWay(m, arr, r, f), f.src = s PROVE Sent(v, f)
  <2>1. Sent(m[s], f)
    BY <1>5 DEF Flight
  <2>2. f.type # "RTS" /\ (f.type = "DATA" => f.dst = Broadcast)
    BY <1>5 DEF Unawaited
  <2>3. f.type = "DATA" => f.seq \in 1 .. v.seq
    BY <2>1 DEF Sent
  <2> QED BY <2>1, <2>2, <2>3 DEF Sent
<1>6. \A f : UnderWay(n, arr, s, f) /\ f.dst = s => Due(v, n[f.src].lastSend, f, ToSet(h[f.src]))
  BY DEF Unanswered, Due
<1>7. \A r, f : UnderWay(n, arr, r, f) /\ f.type = "DATA" => v.cache[f.src] <= f.seq
  BY <1>4 DEF Flight
<1>8. /\ \A r, f : <<r, f>> \in arr => \/ <<r, f>> \in arr
                                       \/ f \in none /\ v.lastSend = TxTime(f.type)
      /\ v.recv # Off => \/ v.recv = m[s].recv /\ v.rx = m[s].rx
                         \/ <<s, v.rx>> \in arr /\ v.recv = TxTime(v.rx.type)
      /\ v.phy # Off => \/ v.phyFrame \in none
                        \/ m[s].phy # Off /\ v.phyFrame = m[s].phyFrame
      /\ \A f \in none : FALSE
  BY <1>3
<1>9. v.lastSend = m[s].lastSend
  OBVIOUS
<1>10. Flies(m, n, arr, arr, h, s, v, none)
  BY ONLY <1>5, <1>6, <1>7, <1>8, <1>9 DEF Flies
<1> QED BY <1>10, FlightStep

\* A station that waits for no answer.
LEMMA NotWaiting ==
  ASSUME NEW m, NEW arr, NEW g, Flight(m, arr, g), NEW s \in Stations,
         m[s].state \notin {"CTS", "ACK"}
  PROVE  Unawaited(m, arr, s) /\ Unanswered(m, arr, s)
BY DEF Flight, Sent, Due, Unawaited, Unanswered

\* One whose wait is over.
LEMMA WaitOver ==
  ASSUME NEW m, NEW arr, NEW g, Flight(m, arr, g), \A q \in Stations : Rules(m[q]),
         NEW s \in Stations, \/ m[s].state = "CTS" /\ m[s].cts = 0
                             \/ m[s].state = "ACK" /\ m[s].ack = 0
  PROVE  Unawaited(m, arr, s) /\ Unanswered(m, arr, s)
<1>1. SIFS \in Nat /\ DIFS \in Nat /\ DIFS > 0 /\ ControlTime \in Nat /\ DataTime \in Nat
      /\ ControlTime > 0 /\ DataTime > 0
  BY TimesAssumption DEF DIFS
<1>2. ASSUME NEW r, NEW f, UnderWay(m, arr, r, f), f.src = s
      PROVE  f.type # "RTS" /\ (f.type = "DATA" => f.dst = Broadcast)
  <2>1. Sent(m[s], f) /\ m[s].lastSend \in Nat
    BY <1>2, Left DEF Flight
  <2> QED BY <1>1, <2>1 DEF Sent
<1>3. ASSUME NEW f, UnderWay(m, arr, s, f), f.dst = s
      PROVE  f.type \notin {"CTS", "ACK"}
  <2>1. m[f.src].lastSend \in Nat
    BY <1>3, Left
  <2>2. PICK t \in Nat : t = m[f.src].lastSend /\ Due(m[s], t, f, ToSet(g[f.src]))
    BY <1>3, <2>1 DEF Flight
  <2> QED BY <1>1, <2>2 DEF Due
<1> QED BY <1>2, <1>3 DEF Unawaited, Unanswered

\* A station that answers nothing.
AnswersNothing(s, w) ==
  /\ DOMAIN w = Fields /\ w.seq = mac[s].seq /\ Passes(mac, s, w, w.up)
  /\ w.answers = <<>> /\ Own(w, Len(told[s]))

\* The books stay in order in a step that answers nothing.
LEMMA BooksKept ==
  ASSUME DeliveryInv, NEW s \in Stations, NEW w, Becomes(s, w), AnswersNothing(s, w)
  PROVE  /\ Books(mac', got', told')
         /\ \A q \in Stations : ToSet(got[q]) \subseteq ToSet(got'[q])
<1>1. Len(told[s]) \in Nat /\ mac[s].seq \in Nat
  BY OfStation
<1>2. w.seq \in Nat /\ w.seq >= mac[s].seq /\ Passes(mac, s, w, w.up) /\ Reports(got, w.answers)
  BY <1>1 DEF AnswersNothing, Reports
<1>3. Own(w, Len(told[s]) + Len(w.answers))
  <2>1. Len(w.answers) = 0
    BY DEF AnswersNothing
  <2>2. Len(told[s]) + Len(w.answers) = Len(told[s])
    BY <1>1, <2>1
  <2> QED BY <2>2 DEF AnswersNothing
<1>4. DOMAIN w = Fields
  BY DEF AnswersNothing
<1> QED BY <1>2, <1>3, <1>4, BecomesBooks

\* A step that sends nothing and answers nothing.
LEMMA CalmlyDelivers ==
  ASSUME DeliveryInv, NEW s \in Stations, NEW w, Becomes(s, w), arriving' \subseteq arriving,
         AnswersNothing(s, w), Steady(mac[s], w), w.phy = mac[s].phy,
         w.phyFrame = mac[s].phyFrame,
         \A r, x : UnderWay(mac, arriving, r, x) /\ x.type = "DATA" => w.cache[x.src] <= x.seq,
         w.recv # Off => \/ w.recv = mac[s].recv /\ w.rx = mac[s].rx
                         \/ <<s, w.rx>> \in arriving /\ w.recv = TxTime(w.rx.type)
  PROVE  Delivers
<1>1. /\ Books(mac', got', told')
      /\ \A q \in Stations : ToSet(got[q]) \subseteq ToSet(got'[q])
  BY BooksKept
<1>2. PICK v : v = Quiet(w)
  OBVIOUS
<1>3. /\ Moves(mac, mac', s, v) /\ Steady(w, v) /\ v.recv = w.recv /\ v.rx = w.rx
      /\ v.cache = w.cache /\ v.phy = w.phy /\ v.phyFrame = w.phyFrame
  BY <1>2, Becoming DEF AnswersNothing
<1>4. Steady(mac[s], v)
  BY <1>3 DEF Steady
<1>5. /\ v.recv # Off => \/ v.recv = mac[s].recv /\ v.rx = mac[s].rx
                         \/ <<s, v.rx>> \in arriving /\ v.recv = TxTime(v.rx.type)
      /\ v.phy = mac[s].phy /\ v.phyFrame = mac[s].phyFrame
  BY <1>3
<1>6. Flight(mac, arriving, got)
  BY DEF DeliveryInv
<1>7. \A r, f : UnderWay(mac', arriving', r, f) => UnderWay(mac, arriving, r, f)
  <2>1. mac'[s] = v /\ \A q \in Stations \ {s} : mac'[q] = mac[q]
    BY <1>3 DEF Moves
  <2> QED BY <1>5, <2>1 DEF UnderWay
<1>8. ASSUME NEW r, NEW f, UnderWay(mac', arriving', r, f), f.type = "DATA"
      PROVE  v.cache[f.src] <= f.seq
  BY <1>3, <1>7, <1>8
<1>9. Flight(mac', arriving', got')
  <2>1. Calm(mac, mac', arriving, arriving', s, v)
    BY <1>3, <1>4, <1>5, <1>8 DEF Calm
  <2> QED BY ONLY <1>1, <1>6, <2>1, s \in Stations, CalmFlight
<1> QED BY <1>1, <1>9 DEF Delivers

\* Nor does it pass anything up.
LEMMA CalmDelivers ==
  ASSUME DeliveryInv, NEW s \in Stations, NEW w, Becomes(s, w), arriving' \subseteq arriving,
         DOMAIN w = Fields, Steady(mac[s], w), w.phy = mac[s].phy,
         w.phyFrame = mac[s].phyFrame, w.cache = mac[s].cache, w.up = mac[s].up,
         w.recv # Off => \/ w.recv = mac[s].recv /\ w.rx = mac[s].rx
                         \/ <<s, w.rx>> \in arriving /\ w.recv = TxTime(w.rx.type),
         w.answers = <<>>, Own(w, Len(told[s]))
  PROVE  Delivers
<1>1. mac[s].up = <<>>
  BY OfStation
<1>2. AnswersNothing(s, w)
  BY <1>1 DEF AnswersNothing, Passes, Steady
<1>3. \A r, x : UnderWay(mac, arriving, r, x) /\ x.type = "DATA" => w.cache[x.src] <= x.seq
  BY DEF DeliveryInv, Flight
<1> QED BY <1>2, <1>3, CalmlyDelivers

\* Frames are on their way as before.
LEMMA NoNewFrames ==
  ASSUME NEW m, NEW n, NEW arr, NEW s \in Stations, NEW v, Moves(m, n, s, v),
         v.recv # Off => v.recv = m[s].recv /\ v.rx = m[s].rx,
         v.phy = m[s].phy, v.phyFrame = m[s].phyFrame
  PROVE  \A r, f : UnderWay(n, arr, r, f) => UnderWay(m, arr, r, f)
BY DEF Moves, UnderWay

\* A number of packets tells the number of the packet in the MAC.
LEMMA OwnNumber ==
  ASSUME NEW w, NEW k \in Nat, Own(w, k)
  PROVE  w.seq \in Nat
<1>1. CASE w.busy = TRUE
  <2>1. w.seq = k + 1
    BY <1>1, Zenon DEF Own
  <2> QED BY <2>1
<1>2. CASE w.busy # TRUE
  <2>1. w.seq = k + 0
    BY <1>2, Zenon DEF Own
  <2> QED BY <2>1
<1> QED BY <1>1, <1>2

\* A step within the MAC and the queue, perhaps after the end of a frame.
LEMMA InnerDelivers ==
  ASSUME DeliveryInv, NEW s \in Stations, NEW u, NEW w, NEW answers,
         Becomes(s, w), arriving' = arriving,
         Same(mac[s], u, Heard), u.recv # Off => u.recv = mac[s].recv /\ u.rx = mac[s].rx,
         Serves(u, w, Len(told[s]), answers),
         \A a \in answers : Reports(got, a) /\ Len(a) \in Nat,
         Unawaited(mac, arriving, s), Unanswered(mac', arriving, s)
  PROVE  Delivers
<1>1. /\ Len(told[s]) \in Nat /\ mac[s].seq \in Nat /\ mac[s].up = <<>>
  BY OfStation
<1>2. /\ Same(u, w, Inner) /\ w.seq >= u.seq /\ w.answers \in answers
      /\ Own(w, Len(told[s]) + Len(w.answers))
  BY DEF Serves
<1>3. /\ w.recv = u.recv /\ w.rx = u.rx /\ DOMAIN w = Fields
      /\ w.lastSend = mac[s].lastSend /\ w.phy = mac[s].phy /\ w.phyFrame = mac[s].phyFrame
      /\ w.cache = mac[s].cache /\ w.up = mac[s].up /\ u.seq = mac[s].seq
  BY <1>2 DEF Same, Fields, Heard, Inner, Deferred
<1>4. w.seq \in Nat
  <2>1. Len(w.answers) \in Nat
    BY <1>2
  <2>2. PICK k \in Nat, i \in Nat : k = Len(told[s]) /\ i = Len(w.answers)
    BY <1>1, <2>1
  <2>3. Own(w, k + i)
    BY <1>2, <2>2, Zenon
  <2>4. k + i \in Nat
    OBVIOUS
  <2> QED BY <2>3, <2>4, OwnNumber
<1>5. Passes(mac, s, w, w.up)
  BY <1>1, <1>3 DEF Passes
<1>6. /\ Books(mac', got', told')
      /\ \A q \in Stations : ToSet(got[q]) \subseteq ToSet(got'[q])
  BY <1>2, <1>3, <1>4, <1>5, BecomesBooks
<1>7. PICK v : v = Quiet(w)
  OBVIOUS
<1>8. /\ Moves(mac, mac', s, v) /\ Steady(w, v) /\ v.recv = w.recv /\ v.rx = w.rx
      /\ v.cache = w.cache /\ v.phy = w.phy /\ v.phyFrame = w.phyFrame
  BY <1>3, <1>7, Becoming
<1>9. /\ v.lastSend = mac[s].lastSend /\ v.phy = mac[s].phy /\ v.phyFrame = mac[s].phyFrame
      /\ v.cache = mac[s].cache /\ v.seq >= mac[s].seq /\ v.seq \in Nat
      /\ v.recv # Off => v.recv = mac[s].recv /\ v.rx = mac[s].rx
  BY <1>2, <1>3, <1>4, <1>8 DEF Steady
<1>10. Flight(mac, arriving, got)
  BY DEF DeliveryInv
<1>11. Flight(mac', arriving, got')
  BY <1>1, <1>6, <1>8, <1>9, <1>10, ServesFlight
<1> QED BY <1>6, <1>11 DEF Delivers

\* No frame comes in, or an old one: what was not answered is not.
LEMMA StillUnanswered ==
  ASSUME DeliveryInv, NEW s \in Stations, NEW w, Becomes(s, w), Same(mac[s], w, Inner),
         Unanswered(mac, arriving, s)
  PROVE  Unanswered(mac', arriving, s)
<1>1. PICK v : v = Quiet(w)
  OBVIOUS
<1>2. /\ DOMAIN w = Fields /\ w.recv = mac[s].recv /\ w.rx = mac[s].rx
      /\ w.phy = mac[s].phy /\ w.phyFrame = mac[s].phyFrame
  BY DEF Same, Fields, Inner, Deferred
<1>3. /\ Moves(mac, mac', s, v) /\ v.recv = mac[s].recv /\ v.rx = mac[s].rx
      /\ v.phy = mac[s].phy /\ v.phyFrame = mac[s].phyFrame
  BY <1>1, <1>2, Becoming
<1>4. \A r, f : UnderWay(mac', arriving, r, f) => UnderWay(mac, arriving, r, f)
  BY <1>3, NoNewFrames
<1> QED BY <1>4 DEF Unanswered

\* Likewise, for a step that begins and ends between frames.
LEMMA ServeDelivers ==
  ASSUME DeliveryInv, NEW s \in Stations, NEW w, NEW answers,
         Becomes(s, w), arriving' = arriving, Serves(mac[s], w, Len(told[s]), answers),
         \A a \in answers : Reports(got, a) /\ Len(a) \in Nat,
         Unawaited(mac, arriving, s), Unanswered(mac, arriving, s)
  PROVE  Delivers
<1>1. Same(mac[s], mac[s], Heard)
  BY OfStation DEF Same
<1>2. Unanswered(mac', arriving, s)
  BY StillUnanswered DEF Serves
<1> QED BY <1>1, <1>2, InnerDelivers

\* A step that sends nothing.
LEMMA HandlesQuietly ==
  ASSUME NEW s \in Stations, NEW w, Handles(s, w), w.air = {}
  PROVE  Becomes(s, w) /\ arriving' = arriving
BY DEF Handles, Emits

\* Bad news is reliable.
LEMMA BadNews ==
  ASSUME DeliveryInv, NEW s \in Stations, NEW a \in {<<>>, << <<mac[s].pld, FALSE>> >>}
  PROVE  Reports(got, a) /\ Len(a) \in Nat
<1>1. mac[s].pld \in Payloads
  BY OfStation DEF Rules, Sound, Core, Typed
<1>2. CASE a = <<>>
  BY <1>2 DEF Reports
<1>3. CASE a = << <<mac[s].pld, FALSE>> >>
  <2>1. Len(a) = 1
    BY <1>3
  <2>2. Reports(got, a)
    BY <1>1, <1>3 DEF Reports
  <2> QED BY <2>1, <2>2
<1> QED BY <1>2, <1>3

\* What a network layer sends are payloads.
LEMMA InTraffic ==
  ASSUME NEW s \in Stations, NEW i \in 1 .. Len(Traffic[s])
  PROVE  Traffic[s][i] \in Payloads /\ Len(Traffic[s]) \in Nat
<1>1. PICK S : S = ToSet(Traffic[s])
  OBVIOUS
<1>2. Traffic[s] \in Seq(S) /\ Len(Traffic[s]) \in Nat
  BY <1>1, TrafficAssumption, LenProperties
<1>3. Traffic[s][i] \in S
  BY <1>2, ElementOfSeq
<1> QED BY <1>1, <1>2, <1>3 DEF Payloads

\* A packet is handed down.
LEMMA OfferDelivers ==
  ASSUME DeliveryInv, NEW s \in Stations, Offer(s)
  PROVE  Delivers
<1>1. /\ Rules(mac[s]) /\ mac[s].answers = <<>> /\ mac[s].up = <<>>
      /\ Len(told[s]) \in Nat /\ Own(mac[s], Len(told[s]))
  BY OfStation
<1>2. PICK n \in Nat : n = offered[s] /\ n < Len(Traffic[s])
  BY DEF Offer, DeliveryInv, MacInv
<1>3. Traffic[s][n + 1] \in Payloads
  <2>1. Len(Traffic[s]) \in Nat
    BY TrafficAssumption, LenProperties
  <2>2. n + 1 \in 1 .. Len(Traffic[s])
    BY <1>2, <2>1
  <2> QED BY <2>2, InTraffic
<1>4. PICK p \in Payloads, b \in Backoffs(mac[s].cw) : Becomes(s, QueueIn(mac[s], p, b))
  BY <1>2, <1>3 DEF Offer
<1>5. b \in Nat
  <2>1. mac[s].cw \in Int
    BY <1>1 DEF Rules, Sound, Core, Typed
  <2> QED BY <1>4, <2>1, BackoffsType
<1>6. PICK w : w = QueueIn(mac[s], p, b)
  OBVIOUS
<1>7. PICK none : none = {<<>>}
  OBVIOUS
<1>8. /\ Serves(mac[s], w, Len(told[s]), none)
      /\ mac[s].state = "IDLE" \/ Same(mac[s], w, {"queue"})
  BY <1>1, <1>5, <1>6, <1>7, QueueInIs
<1>9. Becomes(s, w) /\ arriving' = arriving
  BY <1>4, <1>6 DEF Offer
<1>10. \A a \in none : a = <<>> /\ Reports(got, a) /\ Len(a) \in Nat
  BY <1>7, BadNews
<1>11. Flight(mac, arriving, got)
  BY DEF DeliveryInv
<1>12. CASE mac[s].state = "IDLE"
  <2>1. Unawaited(mac, arriving, s) /\ Unanswered(mac, arriving, s)
    BY <1>11, <1>12, NotWaiting
  <2> QED BY <1>8, <1>9, <1>10, <2>1, ServeDelivers
<1>13. CASE Same(mac[s], w, {"queue"})
  <2>1. /\ DOMAIN w = Fields /\ Steady(mac[s], w) /\ w.recv = mac[s].recv /\ w.rx = mac[s].rx
        /\ w.phy = mac[s].phy /\ w.phyFrame = mac[s].phyFrame /\ w.cache = mac[s].cache
        /\ w.up = mac[s].up
    BY <1>13 DEF Same, Fields, Steady
  <2>2. w.answers = <<>> /\ Own(w, Len(told[s]) + Len(w.answers))
    BY <1>8, <1>10 DEF Serves
  <2>3. Own(w, Len(told[s]))
    <3>1. Len(told[s]) + Len(w.answers) = Len(told[s])
      BY <1>1, <2>2
    <3> QED BY <2>2, <3>1
  <2> QED BY <1>1, <1>9, <2>1, <2>2, <2>3, CalmDelivers
<1> QED BY <1>8, <1>12, <1>13

\* A frame begins to arrive.
LEMMA ArriveDelivers ==
  ASSUME DeliveryInv, NEW s \in Stations, NEW f, Arrive(s, f)
  PROVE  Delivers
<1>1. /\ Rules(mac[s]) /\ mac[s].answers = <<>> /\ Own(mac[s], Len(told[s]))
  BY OfStation
<1>2. /\ WellFormed(f) /\ <<s, f>> \in arriving /\ arriving' \subseteq arriving
  BY DEF Arrive, DeliveryInv, MacInv
<1>3. PICK err \in BOOLEAN, power \in Powers : Becomes(s, FromPhy(mac[s], f, err, power))
  BY DEF Arrive
<1>4. PICK w : w = FromPhy(mac[s], f, err, power)
  OBVIOUS
<1>5. /\ Same(mac[s], w, {"rx", "rxError", "recv", "assertFailed", "backoff", "defer", "since"})
      /\ (w.recv = mac[s].recv /\ w.rx = mac[s].rx) \/ (w.rx = f /\ w.recv = TxTime(f.type))
      /\ w.defer \in {mac[s].defer, Off}
  BY <1>1, <1>2, <1>4, FromPhyIs
<1>6. /\ DOMAIN w = Fields /\ Steady(mac[s], w) /\ w.phy = mac[s].phy
      /\ w.phyFrame = mac[s].phyFrame /\ w.cache = mac[s].cache /\ w.up = mac[s].up
      /\ w.answers = <<>>
  BY <1>1, <1>5 DEF Same, Fields, Steady
<1>7. /\ w.seq = mac[s].seq /\ w.busy = mac[s].busy /\ w.long = mac[s].long
      /\ w.pld = mac[s].pld /\ w.netAck = mac[s].netAck /\ w.lastSend = mac[s].lastSend
  BY <1>5 DEF Same, Fields
<1>8. Own(w, Len(told[s]))
  BY <1>1, <1>5, <1>7 DEF Own, Noted, Gap
<1> QED BY <1>2, <1>3, <1>4, <1>5, <1>6, <1>8, CalmDelivers

\* A frame is lost.
LEMMA LoseDelivers ==
  ASSUME DeliveryInv, NEW s, NEW f, Lose(s, f)
  PROVE  Delivers
<1>1. mac' = mac /\ got' = got /\ told' = told /\ arriving' \subseteq arriving
  BY DEF Lose
<1>2. \A r, k : UnderWay(mac', arriving', r, k) => UnderWay(mac, arriving, r, k)
  BY <1>1 DEF UnderWay
<1>3. Flight(mac', arriving', got')
  BY <1>1, <1>2 DEF DeliveryInv, Flight
<1> QED BY <1>1, <1>3 DEF DeliveryInv, Delivers

\* No answer came in time: nothing of this station is under way any more.
LEMMA TimeoutDelivers ==
  ASSUME DeliveryInv, NEW s \in Stations, NEW w, Handles(s, w), NEW b \in Nat, NEW fields,
         Tries(mac[s], w, b, fields),
         fields \subseteq {"cts", "ack", "ssrc", "slrc", "assertFailed"},
         \/ mac[s].state = "CTS" /\ mac[s].cts = 0
         \/ mac[s].state = "ACK" /\ mac[s].ack = 0
  PROVE  Delivers
<1>1. PICK answers : answers = {<<>>, << <<mac[s].pld, FALSE>> >>}
  OBVIOUS
<1>2. Serves(mac[s], w, Len(told[s]), answers)
  <2>1. /\ mac[s].answers = <<>> /\ Len(told[s]) \in Nat /\ Own(mac[s], Len(told[s]))
    BY OfStation
  <2> QED BY <1>1, <2>1, TriesIs
<1>3. w.air = {}
  <2>1. mac[s].air = {}
    BY OfStation
  <2> QED BY <1>2, <2>1 DEF Serves, Same, Fields, Inner, Deferred
<1>4. Becomes(s, w) /\ arriving' = arriving
  BY <1>3, HandlesQuietly
<1>5. \A a \in answers : Reports(got, a) /\ Len(a) \in Nat
  BY <1>1, BadNews
<1>6. Unawaited(mac, arriving, s) /\ Unanswered(mac, arriving, s)
  <2>1. Flight(mac, arriving, got) /\ \A q \in Stations : Rules(mac[q])
    BY DEF DeliveryInv, MacInv
  <2> QED BY <2>1, WaitOver
<1> QED BY <1>2, <1>4, <1>5, <1>6, ServeDelivers

\* The time-out of a CTS.
LEMMA CTSDelivers ==
  ASSUME DeliveryInv, NEW s \in Stations, CTSExpires(s)
  PROVE  Delivers
<1>1. PICK b \in Backoffs(Wider(CWMax - 1)) : Handles(s, CTSTimer(mac[s], b))
  BY DEF CTSExpires, WithBackoff
<1>2. PICK w : w = CTSTimer(mac[s], b) /\ Handles(s, w)
  BY <1>1
<1>3. b \in Nat
  BY <1>1, BackoffsType, WiderType
<1>4. /\ Tries(mac[s], w, b, {"cts", "ssrc", "assertFailed"})
      /\ mac[s].state = "CTS" /\ mac[s].cts = 0
  BY <1>2, <1>3, OfStation, CTSTimerTries DEF CTSExpires
<1>5. {"cts", "ssrc", "assertFailed"} \subseteq {"cts", "ack", "ssrc", "slrc", "assertFailed"}
  OBVIOUS
<1> QED BY <1>2, <1>3, <1>4, <1>5, TimeoutDelivers

\* The time-out of an ACK.
LEMMA ACKDelivers ==
  ASSUME DeliveryInv, NEW s \in Stations, ACKExpires(s)
  PROVE  Delivers
<1>1. PICK b \in Backoffs(Wider(CWMax - 1)) : Handles(s, ACKTimer(mac[s], b))
  BY DEF ACKExpires, WithBackoff
<1>2. PICK w : w = ACKTimer(mac[s], b) /\ Handles(s, w)
  BY <1>1
<1>3. b \in Nat
  BY <1>1, BackoffsType, WiderType
<1>4. /\ Tries(mac[s], w, b, {"ack", "slrc", "ssrc", "assertFailed"})
      /\ mac[s].state = "ACK" /\ mac[s].ack = 0
  BY <1>2, <1>3, OfStation, ACKTimerTries DEF ACKExpires
<1>5. {"ack", "slrc", "ssrc", "assertFailed"}
        \subseteq {"cts", "ack", "ssrc", "slrc", "assertFailed"}
  OBVIOUS
<1> QED BY <1>2, <1>3, <1>4, <1>5, TimeoutDelivers

\* The reservation for the other's data is over.
LEMMA NAVDelivers ==
  ASSUME DeliveryInv, NEW s \in Stations, NAVExpires(s)
  PROVE  Delivers
<1>1. /\ DOMAIN mac[s] = Fields /\ mac[s].answers = <<>> /\ mac[s].air = {}
      /\ Own(mac[s], Len(told[s]))
  BY OfStation
<1>2. PICK w : w = NAVTimer(mac[s]) /\ Handles(s, w)
  BY DEF NAVExpires
<1>3. Same(mac[s], w, {"navTimer", "session"})
  BY <1>1, <1>2 DEF NAVTimer, Same, Fields
<1>4. /\ DOMAIN w = Fields /\ Steady(mac[s], w) /\ w.recv = mac[s].recv /\ w.rx = mac[s].rx
      /\ w.phy = mac[s].phy /\ w.phyFrame = mac[s].phyFrame /\ w.cache = mac[s].cache
      /\ w.up = mac[s].up /\ w.answers = <<>> /\ w.air = {}
  BY <1>1, <1>3 DEF Same, Fields, Steady
<1>5. Own(w, Len(told[s]))
  BY <1>1, <1>3 DEF Same, Fields, Own, Noted, Gap
<1>6. Becomes(s, w) /\ arriving' = arriving
  BY <1>2, <1>4, HandlesQuietly
<1> QED BY <1>4, <1>5, <1>6, CalmDelivers

\* A broadcast has been sent.
LEMMA NetAckDelivers ==
  ASSUME DeliveryInv, NEW s \in Stations, NetAckExpires(s)
  PROVE  Delivers
<1>1. PICK b \in Backoffs(Wider(CWMax - 1)) : Handles(s, NetworkAckTimer(mac[s], b))
  BY DEF NetAckExpires, WithBackoff
<1>2. PICK w : w = NetworkAckTimer(mac[s], b) /\ Handles(s, w)
  BY <1>1
<1>3. b \in Nat
  BY <1>1, BackoffsType, WiderType
<1>4. /\ Rules(mac[s]) /\ mac[s].answers = <<>> /\ mac[s].air = {} /\ Len(told[s]) \in Nat
      /\ Own(mac[s], Len(told[s])) /\ mac[s].netAck = 0
  BY OfStation DEF NetAckExpires
<1>5. PICK answers : answers = {<< <<mac[s].pld, TRUE>> >>}
  OBVIOUS
<1>6. Serves(mac[s], w, Len(told[s]), answers) /\ mac[s].pld.dst = Broadcast
  BY <1>2, <1>3, <1>4, <1>5, NetworkAckTimerIs
<1>7. w.air = {}
  BY <1>4, <1>6 DEF Serves, Same, Fields, Inner, Deferred
<1>8. Becomes(s, w) /\ arriving' = arriving
  BY <1>2, <1>7, HandlesQuietly
<1>9. mac[s].pld \in Payloads /\ mac[s].state = "IDLE"
  BY <1>4, TimesType DEF Rules, Sound, Core, Typed, Service
<1>10. \A a \in answers : Reports(got, a) /\ Len(a) \in Nat
  <2>1. << <<mac[s].pld, TRUE>> >> \in Seq({<<mac[s].pld, TRUE>>})
    OBVIOUS
  <2>2. Len(<< <<mac[s].pld, TRUE>> >>) = 1
    OBVIOUS
  <2>3. Reports(got, << <<mac[s].pld, TRUE>> >>)
    BY <1>6, <1>9 DEF Reports
  <2> QED BY <1>5, <2>2, <2>3
<1>11. Unawaited(mac, arriving, s) /\ Unanswered(mac, arriving, s)
  BY <1>9, NotWaiting DEF DeliveryInv
<1> QED BY <1>6, <1>8, <1>10, <1>11, ServeDelivers

\* SIFS has passed, and the frame goes out.
LEMMA PhyDelivers ==
  ASSUME DeliveryInv, NEW s \in Stations, PhyExpires(s)
  PROVE  Delivers
<1>1. /\ Rules(mac[s]) /\ DOMAIN mac[s] = Fields /\ mac[s].answers = <<>>
      /\ mac[s].air = {} /\ mac[s].up = <<>> /\ Own(mac[s], Len(told[s]))
      /\ mac[s].phy = 0 /\ mac[s].phy # Off
  <2>1. mac[s].phy = 0 /\ 0 # Off
    BY TimesType DEF PhyExpires
  <2>2. mac[s].phy # Off
    BY <2>1
  <2> QED BY <2>1, <2>2, OfStation
<1>2. PICK w : w = PhyTimer(mac[s]) /\ Handles(s, w)
  BY DEF PhyExpires
<1>3. PICK k : k = mac[s].phyFrame
  OBVIOUS
<1>4. w.phy = Off /\ w.air = {k} /\ Same(mac[s], w, {"phy", "phyFrame", "air"})
  BY <1>1, <1>2, <1>3 DEF PhyTimer, Same, Fields
<1>5. /\ DOMAIN w = Fields /\ Steady(mac[s], w) /\ w.recv = mac[s].recv /\ w.rx = mac[s].rx
      /\ w.cache = mac[s].cache /\ w.up = mac[s].up /\ w.answers = <<>>
  BY <1>1, <1>4 DEF Same, Fields, Steady
<1>6. w.lastSend = TxTime(k.type)
  <2>1. PICK t \in Nat : t = TxTime(k.type)
    BY TimesType
  <2>2. w.lastSend = mac[s].lastSend /\ mac[s].lastSend = 0 + t
    BY <1>1, <1>3, <1>5, <2>1 DEF Rules, Sound, Core, OnAir, Steady
  <2> QED BY <2>1, <2>2
<1>7. Own(w, Len(told[s]))
  BY <1>1, <1>4 DEF Same, Fields, Own, Noted, Gap
<1>8. Becomes(s, w) /\ \A r, f : <<r, f>> \in arriving' => <<r, f>> \in arriving \/ f = k
  BY <1>2, <1>4 DEF Handles, Emits
<1>9. PICK v : v = Quiet(w)
  OBVIOUS
<1>10. /\ Moves(mac, mac', s, v) /\ Steady(w, v) /\ v.recv = w.recv /\ v.rx = w.rx
       /\ v.cache = w.cache /\ v.phy = w.phy
  BY <1>5, <1>8, <1>9, Becoming
<1>11. /\ Steady(mac[s], v) /\ v.lastSend = TxTime(k.type) /\ v.phy = Off
       /\ v.recv = mac[s].recv /\ v.rx = mac[s].rx /\ v.cache = mac[s].cache
  BY <1>4, <1>5, <1>6, <1>10 DEF Steady
<1>12. Flight(mac', arriving', got)
  <2>1. Flight(mac, arriving, got)
    BY DEF DeliveryInv
  <2>2. Moves(mac, mac', s, v)
    BY <1>10
  <2> QED BY ONLY <1>1, <1>3, <1>8, <1>11, <2>1, <2>2, s \in Stations, PhyFlight
<1>13. AnswersNothing(s, w)
  BY <1>1, <1>5, <1>7 DEF AnswersNothing, Passes, Steady
<1>14. /\ Books(mac', got', told')
       /\ \A q \in Stations : ToSet(got[q]) \subseteq ToSet(got'[q])
  BY <1>8, <1>13, BooksKept
<1> QED BY <1>12, <1>14, MorePassed DEF Delivers

\* The deferral is over.
LEMMA DeferDelivers ==
  ASSUME DeliveryInv, NEW s \in Stations, DeferExpires(s)
  PROVE  Delivers
<1>1. /\ Rules(mac[s]) /\ DOMAIN mac[s] = Fields /\ mac[s].answers = <<>>
      /\ mac[s].air = {} /\ mac[s].up = <<>> /\ Own(mac[s], Len(told[s]))
      /\ mac[s].seq \in Nat /\ mac[s].defer = 0 /\ mac[s].defer # Off
      /\ mac[s].busy = TRUE => mac[s].seq > 0 /\ mac[s].pld = Traffic[s][mac[s].seq]
  <2>1. mac[s].defer = 0 /\ 0 # Off
    BY TimesType DEF DeferExpires
  <2>2. mac[s].defer # Off
    BY <2>1
  <2> QED BY <2>1, <2>2, OfStation
<1>2. Gap(mac[s]) /\ Noted(mac[s])
  BY <1>1 DEF Own
<1>3. PICK w, k :
         /\ w = DeferTimer(mac[s], s) /\ w.air = {k} /\ k.src = s /\ k.type \in {"DATA", "RTS"}
         /\ k.pld = mac[s].pld /\ k.seq = mac[s].seq /\ k.dst = mac[s].pld.dst
         /\ Same(mac[s], w, {"state", "lastSend", "air", "ack", "cts", "netAck", "defer",
                             "assertFailed"})
         /\ mac[s].lastSend < 0 /\ w.lastSend = TxTime(k.type)
         /\ mac[s].phy = Off /\ w.defer = Off /\ Noted(w)
         /\ k.type = "DATA" /\ k.dst # Broadcast =>
              w.state = "ACK" /\ w.ack = w.lastSend + SIFS + ControlTime + DIFS
         /\ k.type = "RTS" => /\ w.state = "CTS" /\ k.dst # Broadcast
                              /\ w.cts = w.lastSend + 4 * SIFS + ControlTime + DataTime
  BY <1>1, <1>2, DeferTimerIs
<1>4. mac[s].state = "DEFER" /\ mac[s].busy = TRUE
  BY <1>1 DEF Rules, Sound, Deferral, Service
<1>5. /\ DOMAIN w = Fields /\ w.seq = mac[s].seq /\ w.pld = mac[s].pld /\ w.phy = Off
      /\ w.recv = mac[s].recv /\ w.rx = mac[s].rx /\ w.busy = mac[s].busy
      /\ w.cache = mac[s].cache /\ w.up = mac[s].up /\ w.answers = <<>>
  BY <1>1, <1>3 DEF Same, Fields
<1>6. Own(w, Len(told[s]))
  BY <1>1, <1>3, <1>5 DEF Own, Gap
<1>7. Becomes(s, w) /\ \A r, f : <<r, f>> \in arriving' => <<r, f>> \in arriving \/ f = k
  <2>1. Handles(s, w)
    BY <1>3 DEF DeferExpires
  <2> QED BY <1>3, <2>1 DEF Handles, Emits
<1>8. PICK v : v = Quiet(w)
  OBVIOUS
<1>9. /\ Moves(mac, mac', s, v) /\ Steady(w, v) /\ v.recv = w.recv /\ v.rx = w.rx
      /\ v.cache = w.cache /\ v.phy = w.phy
  BY <1>5, <1>7, <1>8, Becoming
<1>10. /\ v.recv = mac[s].recv /\ v.rx = mac[s].rx /\ v.phy = Off
       /\ v.cache = mac[s].cache /\ v.lastSend = TxTime(k.type)
  BY <1>3, <1>5, <1>9 DEF Steady
<1>11. Sent(v, k)
  <2>1. Sent(w, k)
    <3>1. k.pld = Traffic[k.src][k.seq] /\ k.seq \in 1 .. w.seq /\ k.seq = w.seq
      BY <1>1, <1>3, <1>4, <1>5
    <3>2. k.dst = k.pld.dst /\ k.dst = w.pld.dst
      BY <1>3, <1>5
    <3> QED BY <1>3, <3>1, <3>2 DEF Sent
  <2> QED BY <1>9, <2>1, SentSteady
<1>12. AnswersNothing(s, w)
  BY <1>1, <1>5, <1>6 DEF AnswersNothing, Passes
<1>13. /\ Books(mac', got', told')
       /\ \A q \in Stations : ToSet(got[q]) \subseteq ToSet(got'[q])
  BY <1>7, <1>12, BooksKept
<1>14. Flight(mac, arriving, got) /\ \A q \in Stations : Rules(mac[q])
  BY DEF DeliveryInv, MacInv
<1>15. \A r, f : UnderWay(mac', arriving', r, f) => UnderWay(mac, arriving, r, f) \/ f = k
  BY <1>7, <1>9, <1>10, OrSent
<1>16. \A q \in Stations : mac[q].cache[s] <= k.seq
  BY <1>3 DEF DeliveryInv, Books
<1>17. ASSUME NEW r, NEW f, UnderWay(mac', arriving', r, f), f.type = "DATA"
       PROVE  v.cache[f.src] <= f.seq
  BY <1>3, <1>10, <1>14, <1>15, <1>16, <1>17 DEF Flight
<1>18. ASSUME NEW f, UnderWay(mac', arriving', s, f), f # k, f.dst = s
       PROVE  Due(v, mac'[f.src].lastSend, f, ToSet(got'[f.src]))
  <2>1. f.type \notin {"CTS", "ACK"}
    BY <1>4, <1>14, <1>15, <1>18, NotWaiting DEF Unanswered
  <2> QED BY <2>1 DEF Due
<1>19. Due(mac'[k.dst], v.lastSend, k, ToSet(got'[s]))
  BY <1>3 DEF Due
<1>20. Launches(mac, mac', arriving, arriving', got', s, v, k)
  <2>1. mac[s].lastSend < 0 /\ k.src = s
    BY <1>3
  <2>2. v.recv # Off => v.recv = mac[s].recv /\ v.rx = mac[s].rx
    BY <1>10
  <2>3. v.phy # Off => v.phyFrame = k
    BY <1>10
  <2>4. v.lastSend = TxTime(k.type)
    BY <1>10
  <2> QED BY ONLY <1>7, <1>11, <1>16, <1>17, <1>18, <1>19, <2>1, <2>2, <2>3, <2>4 DEF Launches
<1> QED BY <1>9, <1>13, <1>14, <1>20, LaunchFlight DEF Delivers

\* A station hears data and passes it up, unless it has passed it up before.
LEMMA PassesData ==
  ASSUME DeliveryInv, NEW s \in Stations, NEW f, UnderWay(mac, arriving, s, f), f.type = "DATA",
         NEW u, DOMAIN u = Fields, u.cache = mac[s].cache, u.up = <<>>,
         NEW w, w = PassedUp(u, f)
  PROVE  /\ Passes(mac, s, w, w.up) /\ Same(u, w, {"cache", "up"})
         /\ \A r, x : UnderWay(mac, arriving, r, x) /\ x.type = "DATA" => w.cache[x.src] <= x.seq
         /\ Becomes(s, w) => f.pld \in ToSet(got'[s])
<1>1. Flight(mac, arriving, got) /\ Books(mac, got, told)
  BY DEF DeliveryInv
<1>2. /\ f.src \in Stations /\ f.pld = Traffic[f.src][f.seq] /\ f.seq \in 1 .. mac[f.src].seq
      /\ \A q \in Stations : mac[q].cache[f.src] <= f.seq
  BY <1>1 DEF Flight, Sent
<1>3. PICK c \in [Stations -> Nat] : c = mac[s].cache
  BY <1>1 DEF Books
<1>4. mac[f.src].seq \in Nat
  BY <1>2, OfStation
<1>5. CASE Duplicate(u, f)
  <2>1. w = u /\ c[f.src] = f.seq
    BY <1>3, <1>5 DEF Duplicate, PassedUp
  <2>2. Passes(mac, s, w, w.up)
    BY <2>1 DEF Passes
  <2>3. Same(u, w, {"cache", "up"})
    BY <2>1 DEF Same
  <2>4. \A r, x : UnderWay(mac, arriving, r, x) /\ x.type = "DATA" => w.cache[x.src] <= x.seq
    BY <1>1, <2>1 DEF Flight
  <2>5. f.pld \in ToSet(got[s])
    <3>1. f.seq > 0
      BY <1>2, <1>4
    <3> QED BY <1>1, <1>2, <1>3, <2>1, <3>1 DEF Books
  <2>6. Becomes(s, w) => f.pld \in ToSet(got'[s])
    <3>1. SUFFICES ASSUME Becomes(s, w) PROVE f.pld \in ToSet(got'[s])
      OBVIOUS
    <3>2. got \in [Stations -> Seq(Payloads)]
      BY <1>1 DEF Books
    <3>3. got'[s] = got[s] \o <<>>
      BY <2>1, <3>1, <3>2 DEF Becomes
    <3>4. got[s] \o <<>> = got[s]
      BY <3>2, ConcatEmptySeq
    <3> QED BY <2>5, <3>3, <3>4
  <2> QED BY <2>2, <2>3, <2>4, <2>6
<1>6. CASE ~Duplicate(u, f)
  <2>1. /\ w.cache = [c EXCEPT ![f.src] = f.seq] /\ w.up = <<f.pld>>
        /\ Same(u, w, {"cache", "up"})
    <3>1. PICK i, q, e : i = f.seq /\ q = f.src /\ e = f.pld
      OBVIOUS
    <3>2. w = [u EXCEPT !.cache[q] = i, !.up = Append(@, e)]
      BY <1>6, <3>1 DEF PassedUp
    <3>3. Append(<<>>, e) = <<e>>
      OBVIOUS
    <3>4. Same(u, w, {"cache", "up"})
      BY <3>2 DEF Same, Fields
    <3>5. w.up = <<e>>
      BY <3>2, <3>3 DEF Fields
    <3>6. w.cache = [u.cache EXCEPT ![q] = i]
      BY <3>2 DEF Fields
    <3> QED BY <1>3, <3>1, <3>4, <3>5, <3>6
  <2>2. c[f.src] \in Nat /\ c[f.src] <= f.seq /\ c[f.src] # f.seq
    BY <1>2, <1>3, <1>6 DEF Duplicate
  <2>3. f.seq \in c[f.src] + 1 .. mac[f.src].seq
    BY <1>2, <1>4, <2>2
  <2>4. Passes(mac, s, w, w.up)
    BY <1>2, <1>3, <2>1, <2>3 DEF Passes
  <2>5. ASSUME NEW r, NEW x, UnderWay(mac, arriving, r, x), x.type = "DATA"
        PROVE  w.cache[x.src] <= x.seq
    <3>1. x.src \in Stations /\ c[x.src] <= x.seq
      BY <1>1, <1>3, <2>5 DEF Flight
    <3>2. CASE x.src = f.src
      <4>1. x = f
        BY <1>1, <2>5, <3>2 DEF Flight
      <4>2. f.seq <= f.seq
        BY <1>2, <1>4
      <4> QED BY <1>2, <2>1, <4>1, <4>2
    <3>3. CASE x.src # f.src
      BY <2>1, <3>1, <3>3
    <3> QED BY <3>2, <3>3
  <2>6. Becomes(s, w) => f.pld \in ToSet(got'[s])
    <3>1. SUFFICES ASSUME Becomes(s, w) PROVE f.pld \in ToSet(got'[s])
      OBVIOUS
    <3>2. got \in [Stations -> Seq(Payloads)]
      BY <1>1 DEF Books
    <3>3. got'[s] = got[s] \o <<f.pld>>
      BY <2>1, <3>1, <3>2 DEF Becomes
    <3>4. f.pld \in Payloads
      <4>1. mac[f.src].seq \in 0 .. Len(Traffic[f.src])
        BY <1>2, OfStation
      <4>2. Len(Traffic[f.src]) \in Nat
        BY <1>2, TrafficAssumption, LenProperties
      <4>3. f.seq \in 1 .. Len(Traffic[f.src])
        BY <1>2, <4>1, <4>2
      <4> QED BY <1>2, <4>3, InTraffic
    <3>5. ToSet(got[s] \o <<f.pld>>) = ToSet(got[s]) \union {f.pld}
      BY <3>2, <3>4, OneMore
    <3> QED BY <3>3, <3>5
  <2> QED BY <2>1, <2>4, <2>5, <2>6
<1> QED BY <1>5, <1>6

\* A station hears a frame and answers it with g, after SIFS.
Replies(s, w, g) ==
  /\ mac[s].lastSend < 0 /\ w.recv = Off /\ w.phyFrame = g
  /\ g.src = s /\ g.dst \in Stations \ {s} /\ Sent(w, g)
  /\ Due(mac[g.dst], w.lastSend, g, ToSet(got'[s]))
  /\ \/ /\ w.state = mac[s].state /\ w.pld = mac[s].pld
        /\ w.cts = mac[s].cts /\ w.ack = mac[s].ack
     \/ Unanswered(mac', arriving, s)
  /\ \A r, x : UnderWay(mac, arriving, r, x) /\ x.type = "DATA" => w.cache[x.src] <= x.seq
  /\ g.type = "DATA" => w.cache = mac[s].cache /\ g.seq = mac[s].seq

\* A station that takes a frame and may answer it with g.
LEMMA ReplyDelivers ==
  ASSUME DeliveryInv, NEW s \in Stations, NEW w, NEW g, Becomes(s, w), arriving' = arriving,
         AnswersNothing(s, w), Replies(s, w, g)
  PROVE  Delivers
<1>1. /\ Books(mac', got', told')
      /\ \A q \in Stations : ToSet(got[q]) \subseteq ToSet(got'[q])
  BY BooksKept
<1>2. PICK v : v = Quiet(w)
  OBVIOUS
<1>3. /\ Moves(mac, mac', s, v) /\ Steady(w, v) /\ v.recv = w.recv /\ v.rx = w.rx
      /\ v.cache = w.cache /\ v.phy = w.phy /\ v.phyFrame = w.phyFrame
  BY <1>2, Becoming DEF AnswersNothing
<1>4. Flight(mac, arriving, got) /\ \A q \in Stations : Rules(mac[q])
  BY DEF DeliveryInv, MacInv
<1>5. mac[s].lastSend < 0 /\ g.src = s /\ v.recv = Off /\ v.phyFrame = g
  BY <1>3 DEF Replies
<1>6. Sent(v, g)
  BY <1>3, SentSteady DEF Replies
<1>7. mac'[s] = v /\ \A q \in Stations \ {s} : mac'[q] = mac[q]
  BY <1>3 DEF Moves
<1>8. \A r, f : UnderWay(mac', arriving, r, f) => UnderWay(mac, arriving, r, f) \/ f = g
  <2>1. /\ \A r, f : <<r, f>> \in arriving => <<r, f>> \in arriving \/ f = g
        /\ v.recv # Off => v.recv = mac[s].recv /\ v.rx = mac[s].rx
        /\ v.phy # Off => v.phyFrame = g
    BY <1>5
  <2>2. Moves(mac, mac', s, v)
    BY <1>3
  <2> QED BY ONLY <2>1, <2>2, s \in Stations, OrSent
<1>9. Due(mac'[g.dst], v.lastSend, g, ToSet(got'[s]))
  BY <1>3, <1>7 DEF Replies, Steady
<1>10. ASSUME NEW f, UnderWay(mac', arriving, s, f), f # g, f.dst = s
       PROVE  Due(v, mac'[f.src].lastSend, f, ToSet(got'[f.src]))
  <2>1. CASE Unanswered(mac', arriving, s)
    <3>1. f.type \notin {"CTS", "ACK"}
      BY <1>10, <2>1 DEF Unanswered
    <3> QED BY <3>1 DEF Due
  <2>2. CASE /\ w.state = mac[s].state /\ w.pld = mac[s].pld
             /\ w.cts = mac[s].cts /\ w.ack = mac[s].ack
    <3>1. UnderWay(mac, arriving, s, f) /\ f.src \in Stations \ {s}
      <4>1. UnderWay(mac, arriving, s, f)
        BY <1>8, <1>10
      <4>2. f.src # s
        BY <1>4, <1>5, <4>1, Silent
      <4>3. f.src \in Stations
        BY <1>4, <4>1 DEF Flight
      <4> QED BY <4>1, <4>2, <4>3
    <3>2. Due(mac[s], mac[f.src].lastSend, f, ToSet(got[f.src]))
      BY <1>4, <1>10, <3>1 DEF Flight
    <3>3. ToSet(got[f.src]) \subseteq ToSet(got'[f.src]) /\ mac'[f.src] = mac[f.src]
      BY <1>1, <1>7, <3>1
    <3>4. v.state = w.state /\ v.pld = w.pld /\ v.cts = w.cts /\ v.ack = w.ack
      BY <1>3 DEF Steady
    <3>5. Due(v, mac[f.src].lastSend, f, ToSet(got'[f.src]))
      BY <2>2, <3>2, <3>3, <3>4 DEF Due
    <3> QED BY <3>3, <3>5
  <2> QED BY <2>1, <2>2 DEF Replies
<1>11. g.type = "DATA" => \A q \in Stations : mac[q].cache[s] <= g.seq
  BY DEF Replies, DeliveryInv, Books
<1>12. ASSUME NEW r, NEW f, UnderWay(mac', arriving, r, f), f.type = "DATA"
       PROVE  v.cache[f.src] <= f.seq
  <2>1. CASE UnderWay(mac, arriving, r, f)
    BY <1>3, <1>12, <2>1 DEF Replies
  <2>2. CASE f = g
    BY <1>3, <1>5, <1>11, <1>12, <2>2 DEF Replies
  <2> QED BY <1>8, <1>12, <2>1, <2>2
<1>13. Launches(mac, mac', arriving, arriving, got', s, v, g)
  BY ONLY <1>5, <1>6, <1>9, <1>10, <1>11, <1>12, Zenon DEF Launches
<1>14. Flight(mac', arriving, got')
  BY <1>1, <1>3, <1>4, <1>13, LaunchFlight
<1> QED BY <1>1, <1>14 DEF Delivers

\* The end of a frame is heard.
LEMMA Heeded ==
  ASSUME DeliveryInv, NEW s \in Stations, mac[s].recv = 0
  PROVE  /\ UnderWay(mac, arriving, s, mac[s].rx) /\ mac[s].rx.src \in Stations
         /\ mac[mac[s].rx.src].lastSend = 0 /\ Sent(mac[mac[s].rx.src], mac[s].rx)
         /\ mac[s].lastSend < 0 => mac[s].rx.src # s
         /\ mac[s].rx.dst = s => Due(mac[s], 0, mac[s].rx, ToSet(got[mac[s].rx.src]))
<1>1. Flight(mac, arriving, got) /\ \A q \in Stations : Rules(mac[q])
  BY DEF DeliveryInv, MacInv
<1>2. mac[s].recv # Off
  <2>1. 0 # Off
    BY TimesType
  <2> QED BY <2>1
<1>3. UnderWay(mac, arriving, s, mac[s].rx)
  BY <1>2 DEF UnderWay
<1>4. /\ mac[s].rx.src \in Stations /\ Sent(mac[mac[s].rx.src], mac[s].rx)
      /\ mac[mac[s].rx.src].lastSend = 0
  BY <1>1, <1>2, <1>3 DEF Flight
<1>5. mac[s].lastSend < 0 => mac[s].rx.src # s
  BY <1>4
<1>6. mac[s].rx.dst = s => Due(mac[s], 0, mac[s].rx, ToSet(got[mac[s].rx.src]))
  BY <1>1, <1>3, <1>4 DEF Flight
<1> QED BY <1>3, <1>4, <1>5, <1>6

\* A later frame to a station that has heard one out ends later.
LEMMA StillToCome ==
  ASSUME DeliveryInv, NEW s \in Stations, NEW w, Becomes(s, w), DOMAIN w = Fields,
         w.recv = Off, NEW f, UnderWay(mac', arriving, s, f),
         w.phyFrame # f \/ (w.phy = mac[s].phy /\ w.phyFrame = mac[s].phyFrame)
  PROVE  UnderWay(mac, arriving, s, f) /\ f.src \in Stations /\ mac[f.src].lastSend > 0
<1>1. PICK fresh : fresh = {k \in {w.phyFrame} : k # f}
  OBVIOUS
<1>2. PICK v : v = Quiet(w)
  OBVIOUS
<1>3. /\ Moves(mac, mac', s, v) /\ v.recv = Off
      /\ v.phy = w.phy /\ v.phyFrame = w.phyFrame
  BY <1>2, Becoming
<1>4. Flight(mac, arriving, got) /\ \A q \in Stations : Rules(mac[q])
  BY DEF DeliveryInv, MacInv
<1>5. v.phy # Off => \/ v.phyFrame \in fresh
                     \/ mac[s].phy # Off /\ v.phyFrame = mac[s].phyFrame
  BY <1>1, <1>3
<1>6. \A r, k : <<r, k>> \in arriving => <<r, k>> \in arriving \/ k \in fresh
  OBVIOUS
<1>7. f \notin fresh
  BY <1>1
<1>8. Moves(mac, mac', s, v) /\ v.recv = Off
  BY <1>3
<1> QED BY ONLY <1>4, <1>5, <1>6, <1>7, <1>8, s \in Stations, UnderWay(mac', arriving, s, f),
             Remaining

\* It is nothing for the station.
LEMMA HearsDelivers ==
  ASSUME DeliveryInv, NEW s \in Stations, NEW w, Handles(s, w), Hears(mac[s], w)
  PROVE  Delivers
<1>1. mac[s].answers = <<>> /\ mac[s].air = {} /\ Own(mac[s], Len(told[s]))
  BY OfStation
<1>2. Same(mac[s], w, HeardOf) /\ w.recv = Off /\ Gap(w)
  BY DEF Hears
<1>3. /\ DOMAIN w = Fields /\ Steady(mac[s], w) /\ w.phy = mac[s].phy
      /\ w.phyFrame = mac[s].phyFrame /\ w.cache = mac[s].cache /\ w.up = mac[s].up
      /\ w.answers = <<>> /\ w.air = {}
  BY <1>1, <1>2 DEF Same, Fields, HeardOf, Heard, Steady
<1>4. /\ w.seq = mac[s].seq /\ w.busy = mac[s].busy /\ w.long = mac[s].long
      /\ w.pld = mac[s].pld /\ w.netAck = mac[s].netAck
  BY <1>2 DEF Same, Fields, HeardOf, Heard
<1>5. Own(w, Len(told[s]))
  BY <1>1, <1>2, <1>4 DEF Own, Noted
<1>6. Becomes(s, w) /\ arriving' = arriving
  BY <1>3, HandlesQuietly
<1> QED BY <1>2, <1>3, <1>5, <1>6, CalmDelivers

\* What an answer may change besides, and what it leaves as it was.
Besides == {"session", "peer", "navTimer", "state", "ack", "cts"}

Answered(s, w, g) ==
  /\ AnswersNothing(s, w) /\ w.cache = mac[s].cache /\ w.pld = mac[s].pld /\ w.air = {}
  /\ w.up = <<>> /\ w.seq = mac[s].seq /\ mac[s].lastSend < 0
  /\ w.recv = Off /\ w.phyFrame = g /\ w.lastSend = SIFS + TxTime(g.type)

\* A station that answers with g and does no more than that.
LEMMA AnswersKeep ==
  ASSUME DeliveryInv, NEW s \in Stations, NEW w, NEW g, NEW fields, Answers(mac[s], w, g, fields),
         fields \subseteq Besides
  PROVE  Answered(s, w, g)
<1>1. /\ mac[s].answers = <<>> /\ mac[s].air = {} /\ mac[s].up = <<>>
      /\ Own(mac[s], Len(told[s]))
  BY OfStation
<1>2. /\ Same(mac[s], w, (HeardOf \union {"lastSend", "phy", "phyFrame"}) \union fields)
      /\ mac[s].lastSend < 0 /\ w.recv = Off /\ Gap(w)
      /\ w.phyFrame = g /\ w.lastSend = SIFS + TxTime(g.type)
  BY DEF Answers
<1>3. /\ DOMAIN w = Fields /\ w.seq = mac[s].seq /\ w.busy = mac[s].busy
      /\ w.long = mac[s].long /\ w.pld = mac[s].pld /\ w.netAck = mac[s].netAck
      /\ w.cache = mac[s].cache /\ w.up = <<>> /\ w.answers = <<>> /\ w.air = {}
  BY <1>1, <1>2 DEF Same, Fields, HeardOf, Heard, Besides
<1>4. Own(w, Len(told[s]))
  BY <1>1, <1>2, <1>3 DEF Own, Noted
<1>5. AnswersNothing(s, w)
  BY <1>3, <1>4 DEF AnswersNothing, Passes
<1> QED BY <1>2, <1>3, <1>5 DEF Answered

\* The frames that are to reach a station cannot be for all.
LEMMA ToStation ==
  ASSUME NEW s \in Stations, NEW dst, dst \in {s, Broadcast}, dst # Broadcast \/ dst \in Stations
  PROVE  dst = s
BY AddressAssumption

\* An RTS is answered with a CTS.
LEMMA RtsDelivers ==
  ASSUME DeliveryInv, NEW s \in Stations, mac[s].recv = 0, NEW w, Handles(s, w),
         RtsWay(mac[s], w, mac[s].rx, s)
  PROVE  Delivers
<1>1. PICK f : f = mac[s].rx
  OBVIOUS
<1>2. PICK fields : fields = {"session", "peer", "navTimer"}
  OBVIOUS
<1>3. PICK g : /\ g.type = "CTS" /\ g.src = s /\ g.dst = f.src
               /\ Answers(mac[s], w, g, fields)
  BY <1>1, <1>2 DEF RtsWay
<1>4. /\ AnswersNothing(s, w) /\ w.cache = mac[s].cache /\ w.pld = mac[s].pld /\ w.air = {}
      /\ mac[s].lastSend < 0 /\ w.recv = Off /\ w.phyFrame = g
      /\ w.lastSend = SIFS + TxTime(g.type)
  <2>1. fields \subseteq Besides
    BY <1>2 DEF Besides
  <2>2. Answers(mac[s], w, g, fields)
    BY <1>3
  <2>3. Answered(s, w, g)
    BY <2>1, <2>2, AnswersKeep
  <2> QED BY <2>3 DEF Answered
<1>5. Becomes(s, w) /\ arriving' = arriving
  BY <1>4, HandlesQuietly
<1>6. /\ f.src \in Stations \ {s} /\ mac[f.src].lastSend = 0 /\ Sent(mac[f.src], f)
  BY <1>1, <1>4, Heeded
<1>7. w.state = mac[s].state /\ w.cts = mac[s].cts /\ w.ack = mac[s].ack
  BY <1>2, <1>3 DEF Answers, Same, Fields, HeardOf, Heard
<1>8. /\ mac[f.src].state = "CTS" /\ mac[f.src].pld.dst = s
      /\ mac[f.src].cts = 0 + 4 * SIFS + ControlTime + DataTime
  <2>1. f.type = "RTS" /\ f.dst \in {s, Broadcast}
    BY <1>1 DEF RtsWay
  <2>2. f.dst # Broadcast /\ f.dst = mac[f.src].pld.dst
    BY <1>6, <2>1 DEF Sent
  <2>3. f.dst = s
    BY <2>1, <2>2
  <2> QED BY <1>6, <2>1, <2>2, <2>3 DEF Sent
<1>9. Due(mac[g.dst], w.lastSend, g, ToSet(got'[s]))
  <2>1. w.lastSend = SIFS + ControlTime
    BY <1>3, <1>4 DEF TxTime
  <2>2. mac[f.src].cts = w.lastSend + 3 * SIFS + DataTime
    BY <1>8, <2>1, TimesType
  <2> QED BY <1>3, <1>8, <2>2 DEF Due
<1>10. Sent(w, g)
  BY <1>3, <1>6 DEF Sent
<1>11. \A r, x : UnderWay(mac, arriving, r, x) /\ x.type = "DATA" => w.cache[x.src] <= x.seq
  BY <1>4 DEF DeliveryInv, Flight
<1>12. Replies(s, w, g)
  BY <1>3, <1>4, <1>6, <1>7, <1>9, <1>10, <1>11 DEF Replies
<1> QED BY <1>4, <1>5, <1>12, ReplyDelivers

\* A CTS is answered with the data.
LEMMA CtsDelivers ==
  ASSUME DeliveryInv, NEW s \in Stations, mac[s].recv = 0, NEW w, Handles(s, w),
         CtsWay(mac[s], w, mac[s].rx, s)
  PROVE  Delivers
<1>1. PICK f : f = mac[s].rx
  OBVIOUS
<1>2. PICK fields : fields = {"state", "ack", "cts"}
  OBVIOUS
<1>3. PICK g : /\ g.type = "DATA" /\ g.src = s /\ g.dst = f.src
               /\ g.seq = mac[s].seq /\ g.pld = mac[s].pld
               /\ Answers(mac[s], w, g, fields)
  BY <1>1, <1>2 DEF CtsWay
<1>4. /\ AnswersNothing(s, w) /\ w.cache = mac[s].cache /\ w.pld = mac[s].pld /\ w.air = {}
      /\ w.seq = mac[s].seq /\ mac[s].lastSend < 0 /\ w.recv = Off /\ w.phyFrame = g
      /\ w.lastSend = SIFS + TxTime(g.type)
  <2>1. fields \subseteq Besides
    BY <1>2 DEF Besides
  <2>2. Answers(mac[s], w, g, fields)
    BY <1>3
  <2>3. Answered(s, w, g)
    BY <2>1, <2>2, AnswersKeep
  <2> QED BY <2>3 DEF Answered
<1>5. Becomes(s, w) /\ arriving' = arriving
  BY <1>4, HandlesQuietly
<1>6. /\ f.src \in Stations \ {s} /\ mac[f.src].lastSend = 0 /\ Sent(mac[f.src], f)
      /\ UnderWay(mac, arriving, s, f)
  BY <1>1, <1>4, Heeded
<1>7. /\ f.type = "CTS" /\ f.dst \in {s, Broadcast} /\ mac[s].state = "CTS"
      /\ w.state = "ACK" /\ w.ack = 2 * SIFS + ControlTime + DataTime + DIFS
  BY <1>1 DEF CtsWay
<1>8. f.dst = s
  BY <1>6, <1>7, ToStation DEF Sent
<1>9. f.src = mac[s].pld.dst
  <2>1. Due(mac[s], 0, f, ToSet(got[f.src]))
    BY <1>1, <1>8, Heeded
  <2> QED BY <1>7, <2>1 DEF Due
<1>10. /\ mac[s].seq \in Nat /\ mac[s].seq > 0 /\ mac[s].pld = Traffic[s][mac[s].seq]
  <2>1. mac[s].busy = TRUE
    BY <1>7 DEF DeliveryInv, MacInv, Rules, Sound, Service
  <2> QED BY <2>1, OfStation
<1>11. Sent(w, g)
  <2>1. w.lastSend = SIFS + DataTime
    BY <1>3, <1>4 DEF TxTime
  <2>2. w.ack = w.lastSend + SIFS + ControlTime + DIFS
    BY <1>7, <2>1, TimesType
  <2>3. g.dst = g.pld.dst /\ g.pld = Traffic[g.src][g.seq] /\ g.seq \in 1 .. w.seq /\ g.seq = w.seq
    BY <1>3, <1>4, <1>9, <1>10
  <2> QED BY <1>3, <1>7, <2>2, <2>3 DEF Sent
<1>12. Due(mac[g.dst], w.lastSend, g, ToSet(got'[s]))
  BY <1>3 DEF Due
<1>13. ASSUME NEW x, UnderWay(mac', arriving, s, x), x.dst = s
       PROVE  x.type \notin {"CTS", "ACK"}
  <2>1. x # g
    BY <1>3, <1>6, <1>13
  <2>2. UnderWay(mac, arriving, s, x) /\ mac[x.src].lastSend > 0
    <3>1. DOMAIN w = Fields
      BY <1>4 DEF AnswersNothing
    <3>2. w.phyFrame # x
      BY <1>4, <2>1
    <3> QED BY <1>4, <1>5, <1>13, <3>1, <3>2, StillToCome
  <2>3. Due(mac[s], mac[x.src].lastSend, x, ToSet(got[x.src]))
    BY <1>13, <2>2 DEF DeliveryInv, Flight
  <2>4. x.src # f.src
    BY <1>6, <2>2
  <2> QED BY <1>7, <1>9, <2>3, <2>4 DEF Due
<1>14. Unanswered(mac', arriving, s)
  BY <1>13 DEF Unanswered
<1>15. \A r, x : UnderWay(mac, arriving, r, x) /\ x.type = "DATA" => w.cache[x.src] <= x.seq
  BY <1>4 DEF DeliveryInv, Flight
<1>16. Replies(s, w, g)
  BY <1>3, <1>4, <1>6, <1>11, <1>12, <1>14, <1>15 DEF Replies
<1> QED BY <1>4, <1>5, <1>16, ReplyDelivers

\* An ACK ends the wait, and its sender has passed the payload up.
LEMMA AckDelivers ==
  ASSUME DeliveryInv, NEW s \in Stations, mac[s].recv = 0, NEW w, Handles(s, w),
         AckWay(mac[s], w, mac[s].rx, s, Len(told[s]))
  PROVE  Delivers
<1>1. PICK f : f = mac[s].rx
  OBVIOUS
<1>2. PICK answers : answers = {<< <<mac[s].pld, TRUE>> >>}
  OBVIOUS
<1>3. PICK u : Same(mac[s], u, Heard) /\ u.recv = Off /\ Serves(u, w, Len(told[s]), answers)
  BY <1>1, <1>2 DEF AckWay
<1>4. /\ f.type = "ACK" /\ f.dst \in {s, Broadcast} /\ mac[s].state = "ACK"
  BY <1>1 DEF AckWay
<1>5. /\ f.src \in Stations /\ mac[f.src].lastSend = 0 /\ Sent(mac[f.src], f)
      /\ UnderWay(mac, arriving, s, f)
  BY <1>1, Heeded
<1>6. f.dst = s
  BY <1>4, <1>5, ToStation DEF Sent
<1>7. f.src = mac[s].pld.dst /\ mac[s].ack = 0 + DIFS /\ mac[s].pld \in ToSet(got[f.src])
  <2>1. Due(mac[s], 0, f, ToSet(got[f.src]))
    BY <1>1, <1>6, Heeded
  <2> QED BY <1>4, <2>1 DEF Due
<1>8. /\ mac[s].air = {} /\ Rules(mac[s])
  BY OfStation
<1>9. /\ DOMAIN w = Fields /\ w.air = {} /\ w.recv = Off
      /\ w.phy = mac[s].phy /\ w.phyFrame = mac[s].phyFrame
  <2>1. Same(u, w, Inner)
    BY <1>3 DEF Serves
  <2> QED BY <1>3, <1>8, <2>1 DEF Same, Fields, Heard, Inner, Deferred
<1>10. Becomes(s, w) /\ arriving' = arriving
  BY <1>9, HandlesQuietly
<1>11. mac[s].pld \in Payloads
  BY <1>8 DEF Rules, Sound, Core, Typed
<1>12. \A a \in answers : Reports(got, a) /\ Len(a) \in Nat
  <2>1. Len(<< <<mac[s].pld, TRUE>> >>) = 1
    OBVIOUS
  <2>2. Reports(got, << <<mac[s].pld, TRUE>> >>)
    BY <1>5, <1>7, <1>11 DEF Reports, Relied
  <2> QED BY <1>2, <2>1, <2>2
<1>13. ASSUME NEW r, NEW x, UnderWay(mac, arriving, r, x), x.src = s
       PROVE  x.type # "RTS" /\ (x.type = "DATA" => x.dst = Broadcast)
  <2>1. Sent(mac[s], x) /\ mac[s].lastSend \in Nat
    BY <1>13, Left DEF DeliveryInv, MacInv, Flight
  <2> QED BY <1>4, <1>7, <2>1, TimesType, TimesAssumption DEF Sent
<1>14. ASSUME NEW x, UnderWay(mac', arriving, s, x), x.dst = s
       PROVE  x.type \notin {"CTS", "ACK"}
  <2>1. UnderWay(mac, arriving, s, x) /\ mac[x.src].lastSend > 0
    BY <1>9, <1>10, <1>14, StillToCome
  <2>2. Due(mac[s], mac[x.src].lastSend, x, ToSet(got[x.src]))
    BY <1>14, <2>1 DEF DeliveryInv, Flight
  <2>3. x.src # f.src
    BY <1>5, <2>1
  <2> QED BY <1>4, <1>7, <2>2, <2>3 DEF Due
<1>15. Unawaited(mac, arriving, s) /\ Unanswered(mac', arriving, s)
  BY <1>13, <1>14 DEF Unawaited, Unanswered
<1> QED BY <1>3, <1>10, <1>12, <1>15, InnerDelivers

\* Data are passed up, unless they have been before, and acknowledged to the sender.
LEMMA DataDelivers ==
  ASSUME DeliveryInv, NEW s \in Stations, mac[s].recv = 0, NEW w, Handles(s, w),
         DataWay(mac[s], w, mac[s].rx, s)
  PROVE  Delivers
<1>1. PICK f : f = mac[s].rx
  OBVIOUS
<1>2. PICK none : none = {}
  OBVIOUS
<1>3. PICK u : /\ \/ Hears(mac[s], u)
                  \/ f.dst = s /\ \E g : /\ g.type = "ACK" /\ g.src = s /\ g.dst = f.src
                                        /\ Answers(mac[s], u, g, none)
               /\ w = PassedUp(u, f)
  BY <1>1, <1>2 DEF DataWay
<1>4. /\ f.type = "DATA" /\ f.src \in Stations /\ mac[f.src].lastSend = 0
      /\ Sent(mac[f.src], f) /\ UnderWay(mac, arriving, s, f)
  BY <1>1, Heeded DEF DataWay
<1>5. CASE Hears(mac[s], u)
  <2>1. /\ mac[s].answers = <<>> /\ mac[s].air = {} /\ mac[s].up = <<>>
        /\ Own(mac[s], Len(told[s]))
    BY OfStation
  <2>2. Same(mac[s], u, HeardOf) /\ u.recv = Off /\ Gap(u)
    BY <1>5 DEF Hears
  <2>3. /\ DOMAIN u = Fields /\ u.cache = mac[s].cache /\ u.up = <<>>
    BY <2>1, <2>2 DEF Same, Fields, HeardOf, Heard
  <2>4. /\ Passes(mac, s, w, w.up) /\ Same(u, w, {"cache", "up"})
        /\ \A r, x : UnderWay(mac, arriving, r, x) /\ x.type = "DATA" => w.cache[x.src] <= x.seq
    BY <1>3, <1>4, <2>3, PassesData
  <2>5. /\ DOMAIN w = Fields /\ Steady(mac[s], w) /\ w.phy = mac[s].phy
        /\ w.phyFrame = mac[s].phyFrame /\ w.answers = <<>> /\ w.air = {} /\ w.recv = Off
    BY <2>1, <2>2, <2>4 DEF Same, Fields, HeardOf, Heard, Steady
  <2>6. /\ w.seq = mac[s].seq /\ w.busy = mac[s].busy /\ w.long = mac[s].long
        /\ w.pld = mac[s].pld /\ w.netAck = mac[s].netAck
    BY <2>2, <2>4 DEF Same, Fields, HeardOf, Heard
  <2>7. w.defer = u.defer /\ w.lastSend = u.lastSend
    BY <2>4 DEF Same, Fields
  <2>8. Own(w, Len(told[s]))
    BY <2>1, <2>2, <2>6, <2>7 DEF Own, Noted, Gap
  <2>9. AnswersNothing(s, w)
    BY <2>4, <2>5, <2>6, <2>8 DEF AnswersNothing
  <2>10. Becomes(s, w) /\ arriving' = arriving
    BY <2>5, HandlesQuietly
  <2> QED BY <2>4, <2>5, <2>9, <2>10, CalmlyDelivers
<1>6. CASE f.dst = s /\ \E g : /\ g.type = "ACK" /\ g.src = s /\ g.dst = f.src
                               /\ Answers(mac[s], u, g, none)
  <2>1. PICK g : g.type = "ACK" /\ g.src = s /\ g.dst = f.src /\ Answers(mac[s], u, g, none)
    BY <1>6
  <2>2. /\ AnswersNothing(s, u) /\ u.cache = mac[s].cache /\ u.pld = mac[s].pld /\ u.air = {}
        /\ u.up = <<>> /\ mac[s].lastSend < 0 /\ u.recv = Off /\ u.phyFrame = g
        /\ u.lastSend = SIFS + TxTime(g.type)
    <3>1. none \subseteq Besides
      BY <1>2
    <3>2. Answers(mac[s], u, g, none)
      BY <2>1
    <3>3. Answered(s, u, g)
      BY <3>1, <3>2, AnswersKeep
    <3> QED BY <3>3 DEF Answered
  <2>3. /\ Passes(mac, s, w, w.up) /\ Same(u, w, {"cache", "up"})
        /\ \A r, x : UnderWay(mac, arriving, r, x) /\ x.type = "DATA" => w.cache[x.src] <= x.seq
        /\ Becomes(s, w) => f.pld \in ToSet(got'[s])
    BY <1>3, <1>4, <2>2, PassesData DEF AnswersNothing
  <2>4. /\ w.recv = Off /\ w.phyFrame = g /\ w.lastSend = u.lastSend /\ w.pld = mac[s].pld
        /\ w.air = {}
    BY <2>2, <2>3 DEF Same, Fields
  <2>5. w.state = mac[s].state /\ w.cts = mac[s].cts /\ w.ack = mac[s].ack
    <3>1. u.state = mac[s].state /\ u.cts = mac[s].cts /\ u.ack = mac[s].ack
      BY <1>2, <2>1 DEF Answers, Same, Fields, HeardOf, Heard
    <3> QED BY <2>3, <3>1 DEF Same, Fields
  <2>6. AnswersNothing(s, w)
    <3>1. /\ w.seq = u.seq /\ w.busy = u.busy /\ w.long = u.long /\ w.pld = u.pld
          /\ w.netAck = u.netAck /\ w.defer = u.defer /\ w.lastSend = u.lastSend
          /\ w.answers = u.answers /\ DOMAIN w = Fields
      BY <2>3 DEF Same, Fields
    <3>2. Own(w, Len(told[s]))
      BY <2>2, <3>1 DEF AnswersNothing, Own, Noted, Gap
    <3> QED BY <2>2, <2>3, <3>1, <3>2 DEF AnswersNothing
  <2>7. Becomes(s, w) /\ arriving' = arriving
    BY <2>4, HandlesQuietly
  <2>8. f.src \in Stations \ {s}
    BY <1>1, <2>2, Heeded
  <2>9. /\ mac[f.src].state = "ACK" /\ f.seq = mac[f.src].seq /\ f.pld.dst = s
        /\ mac[f.src].ack = 0 + SIFS + ControlTime + DIFS /\ f.pld = Traffic[f.src][f.seq]
    <3>1. s # Broadcast
      BY AddressAssumption
    <3> QED BY <1>4, <1>6, <3>1 DEF Sent
  <2>10. mac[f.src].pld = f.pld
    <3>1. mac[f.src].busy = TRUE
      BY <1>4, <2>9 DEF DeliveryInv, MacInv, Rules, Sound, Service
    <3> QED BY <1>4, <2>9, <3>1, OfStation
  <2>11. Due(mac[g.dst], w.lastSend, g, ToSet(got'[s]))
    <3>1. w.lastSend = SIFS + ControlTime
      BY <2>1, <2>2, <2>4 DEF TxTime
    <3>2. mac[f.src].ack = w.lastSend + DIFS
      BY <2>9, <3>1, TimesType
    <3>3. f.pld \in ToSet(got'[s])
      BY <2>3, <2>7
    <3> QED BY <2>1, <2>9, <2>10, <3>2, <3>3 DEF Due
  <2>12. Sent(w, g)
    BY <2>1, <2>8 DEF Sent
  <2>13. Replies(s, w, g)
    BY <2>1, <2>2, <2>3, <2>4, <2>5, <2>8, <2>11, <2>12 DEF Replies
  <2> QED BY <2>6, <2>7, <2>13, ReplyDelivers
<1> QED BY <1>3, <1>5, <1>6

\* A frame is complete.
LEMMA RecvDelivers ==
  ASSUME DeliveryInv, NEW s \in Stations, RecvExpires(s)
  PROVE  Delivers
<1>1. PICK b \in Backoffs(Wider(CWMax - 1)) : Handles(s, RecvTimer(mac[s], s, b))
  BY DEF RecvExpires, WithBackoff
<1>2. PICK w : w = RecvTimer(mac[s], s, b) /\ Handles(s, w)
  BY <1>1
<1>3. b \in Nat
  BY <1>1, BackoffsType, WiderType
<1>4. mac[s].recv = 0 /\ 0 # Off
  BY TimesType DEF RecvExpires
<1>5. /\ Rules(mac[s]) /\ mac[s].answers = <<>> /\ Len(told[s]) \in Nat
      /\ Own(mac[s], Len(told[s]))
  BY OfStation
<1>6. mac[s].recv # Off
  BY <1>4
<1>7. Ways(mac[s], w, mac[s].rx, s, Len(told[s]))
  BY <1>2, <1>3, <1>5, <1>6, RecvTimerIs
<1>8. CASE Hears(mac[s], w)
  BY <1>2, <1>8, HearsDelivers
<1>9. CASE RtsWay(mac[s], w, mac[s].rx, s)
  BY <1>2, <1>4, <1>9, RtsDelivers
<1>10. CASE CtsWay(mac[s], w, mac[s].rx, s)
  BY <1>2, <1>4, <1>10, CtsDelivers
<1>11. CASE AckWay(mac[s], w, mac[s].rx, s, Len(told[s]))
  BY <1>2, <1>4, <1>11, AckDelivers
<1>12. CASE DataWay(mac[s], w, mac[s].rx, s)
  BY <1>2, <1>4, <1>12, DataDelivers
<1> QED BY ONLY <1>7, <1>8, <1>9, <1>10, <1>11, <1>12 DEF Ways

-----------------------------------------------------------------------------
(* Time passes *)

\* A station's times move on together, the time of its last frame with them while
\* that frame is not over.
Ages(w, v, d) ==
  /\ Same(w, v, {"defer", "recv", "cts", "ack", "navTimer", "netAck", "phy", "nav", "since",
                 "lastSend"})
  /\ w.lastSend \in Int /\ v.lastSend \in Int
  /\ w.lastSend >= d => v.lastSend = w.lastSend - d
  /\ v.lastSend >= 0 => v.lastSend = w.lastSend - d
  /\ \A x \in {"defer", "recv", "cts", "ack", "netAck", "phy"} :
       /\ v[x] # Off => w[x] # Off
       /\ w[x] # Off => w[x] \in Nat /\ d <= w[x] /\ v[x] = w[x] - d

\* Time only shortens the timers that run.
LEMMA LaterAges ==
  ASSUME NEW w, Rules(w), NEW d \in Nat, \A t \in TimersOf(w) : t = Off \/ d <= t
  PROVE  Ages(w, Later(w, d), d)
<1>1. PICK v : v = Later(w, d)
  OBVIOUS
<1>2. /\ DOMAIN w = Fields /\ w.lastSend \in Int
      /\ w.defer \in Timer /\ w.recv \in Timer /\ w.cts \in Timer /\ w.ack \in Timer
      /\ w.netAck \in Timer /\ w.phy \in Timer
  BY DEF Rules, Sound, Core, Typed
<1>3. /\ v.defer = Less(w.defer, d) /\ v.recv = Less(w.recv, d) /\ v.cts = Less(w.cts, d)
      /\ v.ack = Less(w.ack, d) /\ v.netAck = Less(w.netAck, d) /\ v.phy = Less(w.phy, d)
      /\ v.lastSend = MaxOf(w.lastSend - d, -DataTime)
      /\ Same(w, v, {"defer", "recv", "cts", "ack", "navTimer", "netAck", "phy", "nav",
                     "since", "lastSend"})
  BY <1>1, <1>2 DEF Later, Same, Fields
<1>4. /\ v.lastSend \in Int
      /\ w.lastSend >= d => v.lastSend = w.lastSend - d
      /\ v.lastSend >= 0 => v.lastSend = w.lastSend - d
  <2>1. DataTime \in Nat /\ DataTime > 0
    BY TimesAssumption
  <2> QED BY <1>2, <1>3, <2>1 DEF MaxOf
<1>5. ASSUME NEW t \in TimersOf(w), t \in Timer
      PROVE  /\ Less(t, d) # Off => t # Off
             /\ t # Off => t \in Nat /\ d <= t /\ Less(t, d) = t - d
  BY <1>5, LessType DEF Timer
<1>6. ASSUME NEW x \in {"defer", "recv", "cts", "ack", "netAck", "phy"}
      PROVE  w[x] \in TimersOf(w) /\ w[x] \in Timer /\ v[x] = Less(w[x], d)
  BY <1>2, <1>3, <1>6 DEF TimersOf
<1>7. \A x \in {"defer", "recv", "cts", "ack", "netAck", "phy"} :
        /\ v[x] # Off => w[x] # Off
        /\ w[x] # Off => w[x] \in Nat /\ d <= w[x] /\ v[x] = w[x] - d
  BY <1>5, <1>6
<1> QED BY <1>1, <1>2, <1>3, <1>4, <1>7 DEF Ages

\* Nor does time change a packet or a frame.
LEMMA AgesOne ==
  ASSUME NEW w, NEW v, NEW d \in Nat, Ages(w, v, d), NEW k, Own(w, k)
  PROVE  /\ v.state = w.state /\ v.pld = w.pld /\ v.seq = w.seq /\ v.cache = w.cache
         /\ v.rx = w.rx /\ v.phyFrame = w.phyFrame /\ v.up = w.up
         /\ Own(v, k)
<1>1. /\ v.state = w.state /\ v.pld = w.pld /\ v.seq = w.seq /\ v.cache = w.cache
      /\ v.rx = w.rx /\ v.phyFrame = w.phyFrame /\ v.up = w.up
      /\ v.long = w.long /\ v.busy = w.busy
  BY DEF Ages, Same, Fields
<1>2. /\ v.defer # Off => w.defer # Off
      /\ w.defer # Off => w.defer \in Nat /\ d <= w.defer /\ v.defer = w.defer - d
      /\ v.netAck # Off => w.netAck # Off
      /\ w.lastSend \in Int /\ v.lastSend \in Int
      /\ v.lastSend >= 0 => v.lastSend = w.lastSend - d
  BY DEF Ages
<1>3. Noted(v)
  BY <1>1, <1>2 DEF Own, Noted
<1>4. Gap(v)
  <2>1. SUFFICES ASSUME v.defer # Off, v.lastSend >= 0
                 PROVE  v.defer >= v.lastSend + DIFS
    BY DEF Gap
  <2>2. /\ w.defer # Off /\ w.defer \in Nat /\ v.defer = w.defer - d
        /\ v.lastSend = w.lastSend - d /\ w.lastSend \in Int
    BY <1>2, <2>1
  <2>3. w.lastSend >= 0
    BY <1>2, <2>1, <2>2
  <2>4. w.defer >= w.lastSend + DIFS
    BY <2>2, <2>3 DEF Own, Gap
  <2> QED BY <2>2, <2>4, TimesType
<1> QED BY <1>1, <1>3, <1>4 DEF Own

\* Frames under way get as much nearer as time passes.
LEMMA ElapseFlight ==
  ASSUME NEW m, NEW n, NEW g, NEW d \in Nat, Flight(m, {}, g),
         \A q \in Stations : Rules(m[q]) /\ Ages(m[q], n[q], d),
         \A q \in Stations : /\ n[q].state = m[q].state /\ n[q].pld = m[q].pld
                             /\ n[q].seq = m[q].seq /\ n[q].cache = m[q].cache
                             /\ n[q].rx = m[q].rx /\ n[q].phyFrame = m[q].phyFrame
  PROVE  Flight(n, {}, g)
<1>1. \A q \in Stations :
        /\ n[q].recv # Off => m[q].recv # Off
        /\ m[q].recv # Off => m[q].recv \in Nat /\ d <= m[q].recv /\ n[q].recv = m[q].recv - d
        /\ n[q].phy # Off => m[q].phy # Off
        /\ m[q].phy # Off => m[q].phy \in Nat /\ d <= m[q].phy
        /\ m[q].cts # Off => m[q].cts \in Nat /\ n[q].cts = m[q].cts - d
        /\ m[q].ack # Off => m[q].ack \in Nat /\ n[q].ack = m[q].ack - d
        /\ m[q].lastSend \in Int
        /\ m[q].lastSend >= d => n[q].lastSend = m[q].lastSend - d
  BY DEF Ages
<1>2. \A r, f : UnderWay(n, {}, r, f) => UnderWay(m, {}, r, f)
  BY <1>1 DEF UnderWay
<1>3. ASSUME NEW r, NEW f, UnderWay(m, {}, r, f)
      PROVE  /\ f.src \in Stations /\ m[f.src].lastSend \in Int
             /\ n[f.src].lastSend = m[f.src].lastSend - d
  <2>1. f.src \in Stations
    BY <1>3 DEF Flight
  <2>2. m[f.src].lastSend >= d
    <3>1. CASE r \in Stations /\ m[r].recv # Off /\ m[r].rx = f
      BY <1>1, <3>1 DEF Flight
    <3>2. CASE m[f.src].phy # Off /\ m[f.src].phyFrame = f
      <4>1. PICK t \in Nat : t = TxTime(f.type)
        BY TimesType
      <4>2. m[f.src].phy \in Nat /\ d <= m[f.src].phy
        BY <1>1, <2>1, <3>2
      <4>3. m[f.src].lastSend = m[f.src].phy + t
        BY <2>1, <3>2, <4>1 DEF Rules, Sound, Core, OnAir
      <4> QED BY <4>2, <4>3
    <3> QED BY <1>3, <3>1, <3>2 DEF UnderWay
  <2> QED BY <1>1, <2>1, <2>2
<1>4. ASSUME NEW r, NEW f, UnderWay(n, {}, r, f) PROVE f.src \in Stations /\ Sent(n[f.src], f)
  <2>1. /\ f.src \in Stations /\ Sent(m[f.src], f) /\ m[f.src].lastSend \in Int
        /\ n[f.src].lastSend = m[f.src].lastSend - d
    BY <1>2, <1>3, <1>4 DEF Flight
  <2>2. PICK w, v : /\ w = m[f.src] /\ v = n[f.src] /\ Sent(w, f) /\ w.lastSend \in Int
                    /\ v.lastSend = w.lastSend - d /\ v.state = w.state /\ v.pld = w.pld
                    /\ v.seq = w.seq /\ (w.cts # Off <=> w.state = "CTS")
                    /\ (w.ack # Off <=> w.state = "ACK")
                    /\ w.cts # Off => w.cts \in Nat /\ v.cts = w.cts - d
                    /\ w.ack # Off => w.ack \in Nat /\ v.ack = w.ack - d
    BY <1>1, <2>1 DEF Rules, Sound, Waits
  <2>3. f.type = "DATA" /\ f.dst # Broadcast =>
          v.state = "ACK" /\ v.ack = v.lastSend + SIFS + ControlTime + DIFS
    BY <2>2, TimesType DEF Sent
  <2>4. f.type = "RTS" => v.state = "CTS" /\ v.cts = v.lastSend + 4 * SIFS + ControlTime + DataTime
    BY <2>2, TimesType DEF Sent
  <2>5. Sent(v, f)
    BY <2>2, <2>3, <2>4 DEF Sent
  <2> QED BY <2>1, <2>2, <2>5
<1>5. ASSUME NEW r \in Stations, NEW f, UnderWay(n, {}, r, f), f.dst = r
      PROVE  Due(n[r], n[f.src].lastSend, f, ToSet(g[f.src]))
  <2>1. PICK t \in Int : /\ t = m[f.src].lastSend /\ n[f.src].lastSend = t - d
                         /\ Due(m[r], t, f, ToSet(g[f.src]))
    BY <1>2, <1>3, <1>5 DEF Flight
  <2>2. PICK w, v : /\ w = m[r] /\ v = n[r] /\ v.state = w.state /\ v.pld = w.pld
                    /\ (w.cts # Off <=> w.state = "CTS") /\ (w.ack # Off <=> w.state = "ACK")
                    /\ w.cts # Off => w.cts \in Nat /\ v.cts = w.cts - d
                    /\ w.ack # Off => w.ack \in Nat /\ v.ack = w.ack - d
    BY <1>1 DEF Rules, Sound, Waits
  <2>3. Due(v, t - d, f, ToSet(g[f.src]))
    BY <2>1, <2>2, TimesType DEF Due
  <2> QED BY <2>1, <2>2, <2>3
<1>6. ASSUME NEW r \in Stations, n[r].recv # Off PROVE n[r].recv = n[n[r].rx.src].lastSend
  <2>1. /\ m[r].recv # Off /\ n[r].rx = m[r].rx /\ m[r].recv = m[m[r].rx.src].lastSend
        /\ n[r].recv = m[r].recv - d
    BY <1>1, <1>6 DEF Flight
  <2>2. UnderWay(m, {}, r, m[r].rx)
    BY <2>1 DEF UnderWay
  <2> QED BY <1>3, <2>1, <2>2
<1>7. \A q \in Stations : n[q].phy # Off => n[q].phyFrame.src = q
  BY <1>1 DEF Flight
<1>8. ASSUME NEW r, NEW f, UnderWay(n, {}, r, f), f.type = "DATA", NEW q \in Stations
      PROVE  n[q].cache[f.src] <= f.seq
  BY <1>2, <1>8 DEF Flight
<1>9. \A r, q, f, k : UnderWay(n, {}, r, f) /\ UnderWay(n, {}, q, k) /\ f.src = k.src => f = k
  BY <1>2 DEF Flight
<1>10. \A r, f : <<r, f>> \in {} => n[f.src].lastSend = TxTime(f.type)
  OBVIOUS
<1> QED BY <1>4, <1>5, <1>6, <1>7, <1>8, <1>9, <1>10 DEF Flight

\* Books that are kept by what a station counts are kept while it counts the same.
LEMMA SameBooks ==
  ASSUME NEW m, NEW n, NEW g, NEW t, Books(m, g, t),
         \A s \in Stations : /\ n[s].cache = m[s].cache /\ n[s].seq = m[s].seq
                             /\ n[s].up = m[s].up /\ Own(n[s], Len(t[s]))
  PROVE  Books(n, g, t)
<1>1. \A s \in Stations : /\ n[s].cache \in [Stations -> Nat] /\ n[s].up = <<>>
                          /\ Own(n[s], Len(t[s])) /\ IsInjective(g[s])
  BY DEF Books
<1>2. \A s, q \in Stations :
        /\ n[s].cache[q] <= n[q].seq
        /\ n[s].cache[q] > 0 => Traffic[q][n[s].cache[q]] \in ToSet(g[s])
  BY DEF Books
<1>3. ASSUME NEW s \in Stations, NEW p \in ToSet(g[s])
      PROVE  \E q \in Stations : \E i \in 1 .. n[s].cache[q] : p = Traffic[q][i]
  <2>1. n[s].cache = m[s].cache
    OBVIOUS
  <2>2. \A x \in ToSet(g[s]) : \E q \in Stations : \E i \in 1 .. m[s].cache[q] : x = Traffic[q][i]
    BY DEF Books
  <2> QED BY ONLY <2>1, <2>2, p \in ToSet(g[s])
<1>4. \A s \in Stations : \A a \in ToSet(t[s]) :
        a[2] = TRUE /\ a[1].dst # Broadcast => Relied(a[1], g)
  BY DEF Books
<1>5. g \in [Stations -> Seq(Payloads)]
  BY DEF Books
<1> QED BY <1>1, <1>2, <1>3, <1>4, <1>5 DEF Books

\* Time passes.
LEMMA ElapseDelivers ==
  ASSUME DeliveryInv, Elapse
  PROVE  Delivers
<1>1. \A s \in Stations : Rules(mac[s])
  BY DEF DeliveryInv, MacInv
<1>2. PICK d \in Nat : /\ mac' = [s \in Stations |-> Later(mac[s], d)]
                       /\ \A s \in Stations : \A t \in TimersOf(mac[s]) : t = Off \/ d <= t
  BY ElapseLater DEF DeliveryInv
<1>3. \A s \in Stations : Ages(mac[s], mac'[s], d)
  BY <1>1, <1>2, LaterAges
<1>4. Flight(mac, arriving, got) /\ Books(mac, got, told)
  BY DEF DeliveryInv
<1>5. ASSUME NEW s \in Stations
      PROVE  /\ mac'[s].state = mac[s].state /\ mac'[s].pld = mac[s].pld
             /\ mac'[s].seq = mac[s].seq /\ mac'[s].cache = mac[s].cache
             /\ mac'[s].rx = mac[s].rx /\ mac'[s].phyFrame = mac[s].phyFrame
             /\ mac'[s].up = mac[s].up /\ Own(mac'[s], Len(told[s]))
  BY <1>3, <1>4, AgesOne DEF Books
<1>6. arriving = {} /\ arriving' = arriving /\ got' = got /\ told' = told
  BY DEF Elapse
<1>7. Flight(mac', {}, got)
  BY <1>1, <1>3, <1>4, <1>5, <1>6, ElapseFlight
<1>8. Books(mac', got', told')
  <2>1. Books(mac', got, told)
    BY <1>4, <1>5, SameBooks
  <2> QED BY <1>6, <2>1
<1> QED BY <1>6, <1>7, <1>8 DEF Delivers

-----------------------------------------------------------------------------
(* The stations together *)

\* At first nothing is under way, passed up or answered.
LEMMA InitDelivers == Init => DeliveryInv
<1> SUFFICES ASSUME Init PROVE DeliveryInv
  OBVIOUS
<1>1. MacInv
  BY InitInv
<1>2. ASSUME NEW s \in Stations
      PROVE  /\ mac[s].recv = Off /\ mac[s].phy = Off /\ mac[s].up = <<>>
             /\ mac[s].cache = [q \in Stations |-> 0] /\ mac[s].seq = 0
             /\ mac[s].busy = FALSE /\ mac[s].long = FALSE /\ mac[s].netAck = Off
             /\ mac[s].defer = Off /\ got[s] = <<>> /\ told[s] = <<>>
  <2>1. mac[s] = Idle /\ got[s] = <<>> /\ told[s] = <<>>
    BY DEF Init
  <2> QED BY <2>1 DEF Idle
<1>3. \A r, f : ~UnderWay(mac, arriving, r, f)
  BY <1>2 DEF UnderWay, Init
<1>4. Flight(mac, arriving, got)
  BY <1>2, <1>3 DEF Flight, Init
<1>5. ToSet(<<>>) = {} /\ Len(<<>>) = 0
  BY DEF ToSet
<1>6. ASSUME NEW s \in Stations
      PROVE  /\ mac[s].cache \in [Stations -> Nat] /\ mac[s].up = <<>>
             /\ Own(mac[s], Len(told[s])) /\ IsInjective(got[s])
  <2>1. mac[s].cache = [q \in Stations |-> 0] /\ mac[s].up = <<>>
    BY <1>2
  <2>2. mac[s].cache \in [Stations -> Nat]
    BY ONLY <2>1
  <2>3. Len(told[s]) = 0
    BY <1>2, <1>5
  <2>4. mac[s].seq = 0 /\ mac[s].busy = FALSE /\ mac[s].long = FALSE
        /\ mac[s].netAck = Off /\ mac[s].defer = Off
    BY <1>2
  <2>5. Own(mac[s], Len(told[s]))
    BY <2>3, <2>4 DEF Own, Noted, Gap
  <2>6. got[s] = <<>>
    BY <1>2
  <2>7. IsInjective(got[s])
    BY ONLY <2>6 DEF IsInjective
  <2> QED BY <2>1, <2>2, <2>5, <2>7
<1>7. \A s, q \in Stations :
        /\ mac[s].cache[q] <= mac[q].seq
        /\ mac[s].cache[q] > 0 => Traffic[q][mac[s].cache[q]] \in ToSet(got[s])
  <2> TAKE s, q \in Stations
  <2>1. mac[s].cache = [x \in Stations |-> 0] /\ mac[q].seq = 0
    BY <1>2
  <2>2. mac[s].cache[q] = 0
    BY ONLY <2>1, q \in Stations
  <2> QED BY <2>1, <2>2
<1>8. \A s \in Stations : ToSet(got[s]) = {} /\ ToSet(told[s]) = {}
  BY <1>2, <1>5
<1>9. got \in [Stations -> Seq(Payloads)]
  BY DEF Init
<1>10. Books(mac, got, told)
  BY <1>6, <1>7, <1>8, <1>9 DEF Books
<1> QED BY <1>1, <1>4, <1>10 DEF DeliveryInv

\* One case per action.
LEMMA StepDelivers == DeliveryInv /\ [Next]_vars => DeliveryInv'
<1> SUFFICES ASSUME DeliveryInv, [Next]_vars PROVE DeliveryInv'
  OBVIOUS
<1>1. MacInv'
  BY StepInv DEF DeliveryInv
<1>2. CASE \E s \in Stations : Offer(s) \/ Expires(s)
  <2>1. PICK s \in Stations : Offer(s) \/ Expires(s)
    BY <1>2
  <2>2. Delivers
    BY <2>1, OfferDelivers, DeferDelivers, RecvDelivers, CTSDelivers, ACKDelivers,
       NAVDelivers, NetAckDelivers, PhyDelivers DEF Expires
  <2> QED BY <1>1, <2>2 DEF Delivers, DeliveryInv
<1>3. CASE \E x \in arriving : Arrive(x[1], x[2]) \/ Lose(x[1], x[2])
  <2>1. PICK x \in arriving : Arrive(x[1], x[2]) \/ Lose(x[1], x[2])
    BY <1>3
  <2>2. x[1] \in Stations
    BY <2>1 DEF DeliveryInv, MacInv
  <2>3. Delivers
    BY <2>1, <2>2, ArriveDelivers, LoseDelivers
  <2> QED BY <1>1, <2>3 DEF Delivers, DeliveryInv
<1>4. CASE Elapse
  <2>1. Delivers
    BY <1>4, ElapseDelivers
  <2> QED BY <1>1, <2>1 DEF Delivers, DeliveryInv
<1>5. CASE UNCHANGED vars
  BY <1>1, <1>5 DEF DeliveryInv, vars
<1> QED BY <1>2, <1>3, <1>4, <1>5 DEF Next

(* The invariant that delivery rests on: every frame under way is one that its  *)
(* sender waits for, every answer under way reaches a station that still has    *)
(* time for it, no station has passed up a later packet than a frame under way  *)
(* carries, and an ACK under way stands for a payload that was passed up.       *)
THEOREM FramesAwaited == Spec => []DeliveryInv
BY InitDelivers, StepDelivers, PTL DEF Spec

(* However often a frame is sent again, no station passes a payload up twice;   *)
(* and what a network layer is told has arrived was passed up where it was to.  *)
THEOREM PassedUpOnce == Spec => []DeliveredOnce
<1>1. DeliveryInv => DeliveredOnce
  <2> SUFFICES ASSUME DeliveryInv PROVE DeliveredOnce
    OBVIOUS
  <2>1. \A s \in Stations : IsInjective(got[s])
    BY DEF DeliveryInv, Books
  <2>2. ASSUME NEW s \in Stations, NEW i \in DOMAIN told[s], told[s][i][2],
               told[s][i][1].dst # Broadcast
        PROVE  told[s][i][1] \in ToSet(got[told[s][i][1].dst])
    <3>1. PICK a : a = told[s][i]
      OBVIOUS
    <3>2. a \in ToSet(told[s])
      BY <3>1 DEF ToSet
    <3>3. told[s] \in Seq(Payloads \X BOOLEAN)
      BY DEF DeliveryInv, MacInv
    <3>4. a[2] = TRUE
      <4>1. i \in 1 .. Len(told[s])
        BY <3>3
      <4>2. a \in Payloads \X BOOLEAN
        BY <3>1, <3>3, <4>1, ElementOfSeq
      <4>3. a[2] \in BOOLEAN
        BY <4>2
      <4> QED BY <2>2, <3>1, <4>3
    <3>5. Relied(a[1], got)
      BY <2>2, <3>1, <3>2, <3>4 DEF DeliveryInv, Books
    <3> QED BY <3>1, <3>5 DEF Relied
  <2> QED BY <2>1, <2>2 DEF DeliveredOnce
<1> QED BY <1>1, FramesAwaited, PTL
====
