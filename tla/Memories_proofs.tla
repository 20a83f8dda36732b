---------------------------- MODULE Memories_proofs -----------------------------
(* What nodes and routers can rely on in their memories: proofs about the       *)
(* duplicate memory of SENSE's network layers (PacketNumbers) and the robust    *)
(* RED queue (RobustRed), which share nothing.                                  *)
EXTENDS PacketNumbers, RobustRed, TLAPS

----------------------------------------------------------------------------------
(* PacketNumbers: what check() guarantees for every window and width, all       *)
(* numbers and any number of packets.                                           *)

(* The types, without the verdict's bound.                                      *)
TypeInv == /\ cache \in Caches
           /\ heard \subseteq Numbers
           /\ jumped \in BOOLEAN

(* The memory is complete within the window, and without a false entry there    *)
(* until a gap makes the shift undefined.                                       *)
MemoryInv ==
    /\ TypeInv
    /\ heard = {} => cache = NothingHeard
    /\ \A n \in heard : n <= cache.current
    /\ \A n \in heard : cache.current < n + Window => (cache.current - n) \in cache.bits
    /\ ~jumped => \A b \in cache.bits : b < Window => (cache.current - b) \in heard

FullInv == MemoryInv /\ NewIsNew /\ FalseRepetition

LEMMA InitMemory == Init => FullInv
<1> SUFFICES ASSUME Init PROVE FullInv
  OBVIOUS
<1>1. cache = [current |-> 0, bits |-> {}] /\ heard = {} /\ jumped = FALSE
  BY DEF Init, NothingHeard
<1>2. TypeInv
  BY <1>1 DEF TypeInv, Caches
<1>3. MemoryInv
  BY <1>1, <1>2 DEF MemoryInv, NothingHeard
<1>4. verdict.heard = FALSE /\ verdict.was = FALSE
  BY DEF Init
<1> QED BY <1>3, <1>4 DEF FullInv, NewIsNew, FalseRepetition

(* One question to check(): the number is in the memory afterwards if it was in *)
(* it before, and the answer is right where the memory is.                      *)
LEMMA ReceiveMemory ==
    ASSUME FullInv, NEW n \in Numbers, Receive(n)
    PROVE  FullInv'
<1> USE WindowAssumption, NumbersAssumption
<1>1. n \in Nat /\ Window \in Nat /\ Width \in Nat /\ 0 < Window /\ Window <= Width
  OBVIOUS
<1>2. PICK outcome \in Checks(cache, n) :
        /\ cache' = outcome.cache
        /\ verdict' = [n |-> n, newest |-> n > cache.current,
                       heard |-> outcome.heard, was |-> n \in heard,
                       old |-> TooOld(cache, n)]
  BY DEF Receive
<1>3. /\ heard' = heard \union {n}
      /\ jumped' = (jumped \/ (heard # {} /\ n - cache.current >= Width))
  BY DEF Receive
<1>4. /\ verdict'.heard = outcome.heard
      /\ verdict'.was = (n \in heard)
      /\ verdict'.old = TooOld(cache, n)
  BY <1>2
<1>5. /\ cache \in Caches
      /\ cache.current \in Nat
      /\ cache.bits \subseteq Offsets
      /\ heard \subseteq Nat
      /\ jumped \in BOOLEAN
  BY DEF FullInv, MemoryInv, TypeInv, Caches
<1>6. CASE TooOld(cache, n)
  <2>1. outcome = [heard |-> TRUE, cache |-> cache]
    BY <1>6 DEF Checks
  <2>2. cache' = cache /\ verdict'.heard = TRUE /\ verdict'.old = TRUE
    BY <2>1, <1>2, <1>4, <1>6
  <2>3. n + Window <= cache.current
    BY <1>6 DEF TooOld
  <2>4. heard # {}
    BY <2>3, <1>1 DEF FullInv, MemoryInv, NothingHeard
  <2>5. jumped' = jumped
    <3>1. ~(n - cache.current >= Width)
      BY <1>1, <1>5, <2>3
    <3>2. CASE jumped = TRUE
      BY <1>3, <3>2
    <3>3. CASE jumped = FALSE
      BY <1>3, <3>1, <3>3
    <3>4. jumped \in BOOLEAN
      BY DEF FullInv, MemoryInv, TypeInv
    <3> QED BY <3>2, <3>3, <3>4
  <2>6. MemoryInv'
    <3>1. TypeInv'
      BY <1>3, <1>5, <2>2, <2>5 DEF FullInv, MemoryInv, TypeInv
    <3>2. \A m \in heard' : m <= cache'.current
      BY <1>1, <1>3, <1>5, <2>2, <2>3 DEF FullInv, MemoryInv
    <3>3. \A m \in heard' : cache'.current < m + Window
                              => (cache'.current - m) \in cache'.bits
      BY <1>1, <1>3, <1>5, <2>2, <2>3 DEF FullInv, MemoryInv
    <3>4. ~jumped' => \A b \in cache'.bits : b < Window => (cache'.current - b) \in heard'
      BY <1>3, <2>2, <2>5, Zenon DEF FullInv, MemoryInv
    <3>5. heard' # {}
      BY <1>3
    <3> QED BY <3>1, <3>2, <3>3, <3>4, <3>5 DEF MemoryInv
  <2> QED BY <2>2, <2>6 DEF FullInv, NewIsNew, FalseRepetition
<1>7. CASE ~TooOld(cache, n)
  <2>1. PICK c \in Advances(cache, n) :
          outcome = [heard |-> (c.current - n) \in c.bits,
                     cache |-> [c EXCEPT !.bits = @ \union {c.current - n}]]
    BY <1>7 DEF Checks
  <2>2. cache.current < n + Window
    BY <1>7, <1>1, <1>5 DEF TooOld
  <2>3. /\ c \in Caches
        /\ c.current - n \in 0..(Window - 1)
        /\ c.current - n \in Offsets
    <3>1. CASE n > cache.current
      <4>1. PICK bits \in ShiftOutcomes(cache.bits, n - cache.current) :
              c = [current |-> n, bits |-> bits]
        BY <3>1 DEF Advances
      <4>2. bits \subseteq Offsets
        BY <4>1 DEF ShiftOutcomes, Shifted
      <4> QED BY <1>1, <4>1, <4>2 DEF Caches, Offsets
    <3>2. CASE ~(n > cache.current)
      <4>1. c = cache
        BY <3>2 DEF Advances
      <4> QED BY <1>1, <1>5, <2>2, <3>2, <4>1 DEF Offsets
    <3> QED BY <3>1, <3>2
  <2>4. /\ cache'.current = c.current
        /\ cache'.bits = c.bits \union {c.current - n}
        /\ cache' \in Caches
        /\ verdict'.heard = ((c.current - n) \in c.bits)
    BY <1>2, <1>4, <2>1, <2>3 DEF Caches
  <2>5. c.current \in Nat /\ c.bits \subseteq Offsets
    BY <2>3 DEF Caches
  <2>6. TypeInv'
    BY <1>3, <1>5, <2>4 DEF FullInv, MemoryInv, TypeInv
  <2>7. \A m \in heard : c.current < m + Window => (c.current - m) \in c.bits
    <3> SUFFICES ASSUME NEW m \in heard, c.current < m + Window
                 PROVE  (c.current - m) \in c.bits
      OBVIOUS
    <3>0. m \in Nat /\ m <= cache.current
      BY <1>5 DEF FullInv, MemoryInv
    <3>1. CASE n > cache.current
      <4>1. c.current = n /\ c.bits \in ShiftOutcomes(cache.bits, n - cache.current)
        BY <3>1 DEF Advances
      <4>2. n - cache.current < Width
        BY <1>1, <1>5, <3>0, <4>1
      <4>3. c.bits = Shifted(cache.bits, n - cache.current)
        BY <4>1, <4>2 DEF ShiftOutcomes
      <4>4. (cache.current - m) \in cache.bits
        BY <1>1, <1>5, <3>0, <3>1, <4>1 DEF FullInv, MemoryInv
      <4>5. c.current - m = (cache.current - m) + (n - cache.current)
        BY <1>1, <1>5, <3>0, <4>1
      <4>6. c.current - m \in Offsets
        BY <1>1, <1>5, <3>0, <3>1, <4>1 DEF Offsets
      <4> QED BY <4>3, <4>4, <4>5, <4>6 DEF Shifted
    <3>2. CASE ~(n > cache.current)
      <4>1. c = cache
        BY <3>2 DEF Advances
      <4> QED BY <4>1 DEF FullInv, MemoryInv
    <3> QED BY <3>1, <3>2
  <2>8. ~jumped' => \A b \in c.bits : b < Window => (c.current - b) \in heard
    <3> SUFFICES ASSUME ~jumped', NEW b \in c.bits, b < Window
                 PROVE  (c.current - b) \in heard
      OBVIOUS
    <3>0. ~jumped /\ (heard = {} \/ n - cache.current < Width)
      <4>1. ~jumped /\ ~(heard # {} /\ n - cache.current >= Width)
        BY <1>3, Zenon
      <4> QED BY <1>1, <1>5, <4>1
    <3>1. CASE n > cache.current
      <4>1. c.current = n /\ c.bits \in ShiftOutcomes(cache.bits, n - cache.current)
        BY <3>1 DEF Advances
      <4>2. heard # {}
        <5>1. SUFFICES ASSUME heard = {} PROVE FALSE
          OBVIOUS
        <5>2. cache.bits = {}
          BY <5>1 DEF FullInv, MemoryInv, NothingHeard
        <5>3. c.bits = {}
          BY <4>1, <5>2 DEF ShiftOutcomes, Shifted
        <5> QED BY <5>3
      <4>3. c.bits = Shifted(cache.bits, n - cache.current)
        BY <3>0, <4>1, <4>2 DEF ShiftOutcomes
      <4>4. PICK a \in cache.bits : b = a + (n - cache.current)
        BY <4>3 DEF Shifted
      <4>5. a \in Nat
        BY <1>1, <1>5 DEF Offsets
      <4>6. a < Window
        BY <1>1, <1>5, <3>1, <4>4, <4>5
      <4>7. cache.current - a \in heard
        BY <3>0, <4>6 DEF FullInv, MemoryInv
      <4>8. c.current - b = cache.current - a
        BY <1>1, <1>5, <4>1, <4>4, <4>5
      <4> QED BY <4>7, <4>8
    <3>2. CASE ~(n > cache.current)
      <4>1. c = cache
        BY <3>2 DEF Advances
      <4> QED BY <3>0, <4>1 DEF FullInv, MemoryInv
    <3> QED BY <3>1, <3>2
  <2>9. \A m \in heard \union {n} : m <= c.current
    <3>1. cache.current <= c.current /\ n <= c.current
      BY <1>1, <1>5 DEF Advances
    <3> QED BY <1>1, <1>5, <2>5, <3>1 DEF FullInv, MemoryInv
  <2>10. MemoryInv'
    <3>1. heard' # {}
      BY <1>3
    <3>2. \A m \in heard' : m <= cache'.current
      BY <1>3, <2>4, <2>9
    <3>3. \A m \in heard' : cache'.current < m + Window
                              => (cache'.current - m) \in cache'.bits
      BY <1>3, <2>4, <2>7
    <3>4. ~jumped' => \A b \in cache'.bits : b < Window => (cache'.current - b) \in heard'
      <4> SUFFICES ASSUME ~jumped', NEW b \in cache'.bits, b < Window
                   PROVE  (cache'.current - b) \in heard'
        OBVIOUS
      <4>1. CASE b \in c.bits
        BY <1>3, <2>4, <2>8, <4>1
      <4>2. CASE b = c.current - n
        <5>1. c.current - b = n
          BY <1>1, <2>5, <4>2
        <5> QED BY <1>3, <2>4, <5>1
      <4> QED BY <2>4, <4>1, <4>2
    <3> QED BY <2>6, <3>1, <3>2, <3>3, <3>4 DEF MemoryInv
  <2>11. NewIsNew'
    <3> SUFFICES ASSUME verdict'.was PROVE verdict'.heard
      BY DEF NewIsNew
    <3>1. n \in heard
      BY <1>4
    <3>2. c.current < n + Window
      BY <1>1, <2>3, <2>5
    <3> QED BY <2>4, <2>7, <3>1, <3>2
  <2>12. FalseRepetition'
    <3> SUFFICES ASSUME verdict'.heard, ~verdict'.was, ~jumped' PROVE FALSE
      BY DEF FalseRepetition
    <3>0. (c.current - n) \in c.bits
      BY <2>4, Zenon
    <3>1. c.current - n < Window
      BY <1>1, <2>3, <2>5
    <3>2. (c.current - (c.current - n)) \in heard
      BY <2>8, <3>0, <3>1
    <3>3. c.current - (c.current - n) = n
      BY <1>1, <2>5
    <3> QED BY <1>4, <3>2, <3>3
  <2> QED BY <2>10, <2>11, <2>12 DEF FullInv
<1> QED BY <1>6, <1>7

LEMMA StutterMemory == FullInv /\ UNCHANGED vars => FullInv'
BY DEF FullInv, MemoryInv, TypeInv, NewIsNew, FalseRepetition, vars

LEMMA MemoryHolds == Spec => []FullInv
<1>1. FullInv /\ [Next]_vars => FullInv'
  BY ReceiveMemory, StutterMemory DEF Next
<1> QED BY <1>1, InitMemory, PTL DEF Spec

(* check() calls no number new twice, whatever is lost, repeated or reordered,  *)
(* for all sizes of the window and the field, undefined shifts included.        *)
THEOREM NewOnlyOnce == Spec => []NewIsNew
<1>1. FullInv => NewIsNew
  BY DEF FullInv
<1> QED BY <1>1, MemoryHolds, PTL

(* check() takes a number that never got through for a repetition only when it  *)
(* is Window behind or the shift was undefined once.                            *)
THEOREM RepetitionHasCause == Spec => []FalseRepetition
<1>1. FullInv => FalseRepetition
  BY DEF FullInv
<1> QED BY <1>1, MemoryHolds, PTL

----------------------------------------------------------------------------------
(* RobustRed: the robust RED queue refuses packets for a cause only, whatever   *)
(* its parameters and the addresses of the packets.                             *)

RedTypeOK == /\ score \in [RedLevels -> [RedBins -> Int]]
             /\ since \in [RedLevels -> [RedBins -> Nat]]
             /\ age \in Nat
             /\ quiet \in [RedLevels -> [RedBins -> Nat]]
             /\ early \in [RedLevels -> [RedBins -> BOOLEAN]]
             /\ refused \subseteq Packets

(* A score is no less than its last quiet packets make it, up to the passing    *)
(* one.                                                                         *)
QuietCounts == \A l \in RedLevels : \A b \in RedBins :
                  /\ score[l][b] >= ScoreMin
                  /\ score[l][b] >= ScorePass \/ score[l][b] >= ScoreMin + quiet[l][b]

(* Refusals, and what they lead to, start in the first Period: a bin that was   *)
(* idle then has been refused nothing since the simulation began.               *)
EarlyCounts == \A l \in RedLevels : \A b \in RedBins :
                  early[l][b] \/ (score[l][b] >= 0 /\ since[l][b] >= age)

RedInv == RedTypeOK /\ QuietCounts /\ EarlyCounts /\ RefusedForCause

(* Every packet has a bin in every level.                                       *)
LEMMA HasBin == ASSUME NEW p \in Packets, NEW l \in RedLevels
                PROVE  HashPkt(p, l) \in RedBins
<1>1. p[1] \in Nat /\ p[2] \in Nat
  BY RedAssumption
<1>2. l \in Nat
  BY RedAssumption DEF RedLevels
<1>3. 2^l \in Int
  BY <1>2
<1>4. p[1] * 2^l + p[2] \in Int
  BY <1>1, <1>3
<1> QED
  BY <1>4, RedAssumption DEF HashPkt, RedBins

LEMMA InitEstablishesRedInv == RedInit => RedInv
BY RedAssumption DEF RedInit, RedInv, RedTypeOK, QuietCounts, EarlyCounts, RefusedForCause

LEMMA TickPreservesRedInv == RedInv /\ RedTick => RedInv'
<1> SUFFICES ASSUME RedInv, RedTick PROVE RedInv'
  OBVIOUS
<1> USE RedAssumption DEF RedInv, RedTypeOK, RedTick
<1>1. RedTypeOK'
  BY DEF Later
<1>2. QuietCounts'
  BY DEF QuietCounts
<1>3. EarlyCounts'
  BY DEF EarlyCounts, Later
<1>4. RefusedForCause'
  BY DEF RefusedForCause
<1> QED
  BY <1>1, <1>2, <1>3, <1>4

LEMMA EnquePreservesRedInv ==
    ASSUME RedInv, NEW p \in Packets, RedEnque(p) PROVE RedInv'
<1> USE RedAssumption DEF RedInv
<1>1. \A l \in RedLevels : \A b \in RedBins :
         /\ ScoreAfter(l, b) \in Int
         /\ QuietAfter(l, b) \in Nat
         /\ ScoreAfter(l, b) >= ScoreMin
         /\ ScoreAfter(l, b) >= ScorePass \/ ScoreAfter(l, b) >= ScoreMin + QuietAfter(l, b)
  BY DEF RedTypeOK, QuietCounts, ScoreAfter, QuietAfter, Enough
<1>2. \A l \in RedLevels : \A b \in RedBins :
         (early[l][b] \/ age < Period) \/ (ScoreAfter(l, b) >= 0 /\ since[l][b] >= age)
  BY DEF RedTypeOK, EarlyCounts, ScoreAfter, Close
<1>3. ASSUME NEW l \in RedLevels, NEW b \in RedBins
      PROVE  /\ score'[l][b] = IF b = HashPkt(p, l) THEN ScoreAfter(l, b) ELSE score[l][b]
             /\ quiet'[l][b] = IF b = HashPkt(p, l) THEN QuietAfter(l, b) ELSE quiet[l][b]
             /\ early'[l][b] = IF b = HashPkt(p, l) THEN early[l][b] \/ age < Period
                               ELSE early[l][b]
             /\ since'[l][b] = IF Anomaly(p) /\ b = HashPkt(p, l) THEN 0 ELSE since[l][b]
  BY DEF RedEnque, Rescored
<1>4. RedTypeOK'
  <2>1. score' \in [RedLevels -> [RedBins -> Int]]
    BY <1>1 DEF RedTypeOK, RedEnque, Rescored
  <2>2. quiet' \in [RedLevels -> [RedBins -> Nat]]
    BY <1>1 DEF RedTypeOK, RedEnque, Rescored
  <2>3. early' \in [RedLevels -> [RedBins -> BOOLEAN]]
    BY DEF RedTypeOK, RedEnque, Rescored
  <2>4. since' \in [RedLevels -> [RedBins -> Nat]]
    BY DEF RedTypeOK, RedEnque, Rescored
  <2> QED
    BY <2>1, <2>2, <2>3, <2>4 DEF RedTypeOK, RedEnque
<1>5. QuietCounts'
  <2> SUFFICES ASSUME NEW l \in RedLevels, NEW b \in RedBins
               PROVE  /\ score'[l][b] >= ScoreMin
                      /\ score'[l][b] >= ScorePass \/ score'[l][b] >= ScoreMin + quiet'[l][b]
    BY DEF QuietCounts
  <2> QED
    BY <1>1, <1>3 DEF QuietCounts
<1>6. ASSUME Anomaly(p), NEW l \in RedLevels
      PROVE  /\ score'[l][HashPkt(p, l)] < ScorePass
             /\ early'[l][HashPkt(p, l)]
  <2>1. HashPkt(p, l) \in RedBins
    BY HasBin
  <2>2. ScoreAfter(l, HashPkt(p, l)) < ScorePass
    BY <1>6 DEF Anomaly
  <2>3. early[l][HashPkt(p, l)] \/ age < Period
    BY <1>1, <1>2, <2>1, <2>2
  <2> QED
    BY <1>3, <2>1, <2>2, <2>3
<1>7. EarlyCounts'
  <2> SUFFICES ASSUME NEW l \in RedLevels, NEW b \in RedBins
               PROVE  early'[l][b] \/ (score'[l][b] >= 0 /\ since'[l][b] >= age')
    BY DEF EarlyCounts
  <2>1. age' = age
    BY DEF RedEnque
  <2>2. CASE b # HashPkt(p, l)
    BY <1>3, <2>1, <2>2 DEF EarlyCounts
  <2>3. CASE b = HashPkt(p, l) /\ Anomaly(p)
    BY <1>6, <2>3
  <2>4. CASE b = HashPkt(p, l) /\ ~Anomaly(p)
    BY <1>2, <1>3, <2>1, <2>4
  <2> QED
    BY <2>2, <2>3, <2>4
<1>8. RefusedForCause'
  <2>1. CASE Anomaly(p)
    <3> SUFFICES ASSUME NEW l \in RedLevels
                 PROVE  early'[l][HashPkt(p, l)] /\ quiet'[l][HashPkt(p, l)] < Enough
      BY <2>1 DEF RefusedForCause, RedEnque
    <3>1. HashPkt(p, l) \in RedBins
      BY HasBin
    <3>2. score'[l][HashPkt(p, l)] < ScorePass /\ early'[l][HashPkt(p, l)]
      BY <1>6, <2>1
    <3>3. /\ score'[l][HashPkt(p, l)] \in Int
          /\ quiet'[l][HashPkt(p, l)] \in Nat
          /\ \/ score'[l][HashPkt(p, l)] >= ScorePass
             \/ score'[l][HashPkt(p, l)] >= ScoreMin + quiet'[l][HashPkt(p, l)]
      BY <1>4, <1>5, <3>1 DEF RedTypeOK, QuietCounts
    <3> QED
      BY <3>2, <3>3 DEF Enough
  <2>2. CASE ~Anomaly(p)
    BY <2>2 DEF RefusedForCause, RedEnque
  <2> QED
    BY <2>1, <2>2
<1> QED
  BY <1>4, <1>5, <1>7, <1>8

(* The robust RED queue refuses no packet without a cause: RefusedForCause for  *)
(* every number of bins and levels, every bounds of the scores and every        *)
(* period.                                                                      *)
THEOREM RefusesForCause == RedSpec => []RefusedForCause
<1>1. RedInit => RedInv
  BY InitEstablishesRedInv
<1>2. RedInv /\ [RedNext]_redVars => RedInv'
  <2> SUFFICES ASSUME RedInv, [RedNext]_redVars PROVE RedInv'
    OBVIOUS
  <2>1. CASE RedTick
    BY <2>1, TickPreservesRedInv
  <2>2. ASSUME NEW p \in Packets, RedEnque(p) PROVE RedInv'
    BY <2>2, EnquePreservesRedInv
  <2>3. CASE UNCHANGED redVars
    BY <2>3 DEF redVars, RedInv, RedTypeOK, QuietCounts, EarlyCounts, RefusedForCause
  <2> QED
    BY <2>1, <2>2, <2>3 DEF RedNext
<1>3. RedInv => RefusedForCause
  BY DEF RedInv
<1> QED
  BY <1>1, <1>2, <1>3, PTL DEF RedSpec
==================================================================================
