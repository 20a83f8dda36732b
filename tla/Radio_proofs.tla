----------------------------- MODULE Radio_proofs -----------------------------
(***************************************************************************)
(* Three proofs about the channel, whatever the powers, the times of       *)
(* frames and failures, the terrain and the traffic: a battery is never    *)
(* charged twice for a moment; the channel's grid hides no neighbour; and  *)
(* a packet's reference counter is the number of its owners, in the air    *)
(* and in the nodes.                                                       *)
(***************************************************************************)
EXTENDS Radio, FiniteSetTheorems, SequenceTheorems, TLAPS

States == {"TX", "RX", "IDLE", "OFF"}

\* The account of a node: what was taken from its battery is covered by the
\* time up to the last charge.
Accounted(r) ==
  /\ DOMAIN r = {"state", "on", "energy", "last", "switchAt"}
  /\ r.state \in States
  /\ r.energy \in Int
  /\ r.last \in Nat
  /\ r.energy <= InitialEnergy
  /\ InitialEnergy - r.energy <= MaxPower * r.last

\* A charge may lie ahead of the clock, as the end of a frame is announced
\* when it begins, but then only in the time that is measured.
InBounds(r, now) == r.last <= FinishTime \/ r.last <= now

\* Frames in flight have a length, which the receivers will be charged for.
BatteryInv ==
  /\ setup \in Setups
  /\ clock \in Nat
  /\ DOMAIN node = Nodes
  /\ \A n \in Nodes : Accounted(node[n]) /\ InBounds(node[n], clock)
  /\ \A x \in flight : x.txTime \in Nat

LEMMA Powers ==
  /\ MaxPower \in Nat
  /\ \A state \in States : PowerOf(state) \in Nat /\ PowerOf(state) <= MaxPower
  /\ IdlePower \in Nat /\ IdlePower <= MaxPower
BY PowerAssumption DEF MaxPower, PowerOf, States

\* A time at a lower power costs no more than at the highest.
LEMMA Cheaper ==
  ASSUME NEW k \in Nat, NEW power \in Nat, NEW most \in Nat, power <= most
  PROVE  k * power \in Nat /\ k * power <= most * k
<1>1. PICK more \in Nat : most = power + more
  <2>1. most - power \in Nat /\ most = power + (most - power)
    OBVIOUS
  <2> QED
    BY <2>1
<1>2. k * more \in Nat /\ k * power \in Nat
  OBVIOUS
<1>3. most * k = k * power + k * more
  BY <1>1
<1> QED
  BY <1>2, <1>3

LEMMA DrawnAccounted ==
  ASSUME NEW r, Accounted(r), NEW power \in Nat, power <= MaxPower, NEW t \in Nat
  PROVE  /\ Accounted(Drawn(r, power, t))
         /\ Drawn(r, power, t).last \in {r.last, t}
         /\ Drawn(r, power, t).state = r.state
<1>1. CASE t > r.last
  <2> DEFINE d == [r EXCEPT !.energy = @ - (t - r.last) * power, !.last = t]
             k == t - r.last
  <2>1. Drawn(r, power, t) = d
    BY <1>1 DEF Drawn
  <2>2. /\ DOMAIN d = DOMAIN r
        /\ d.state = r.state
        /\ d.energy = r.energy - k * power
        /\ d.last = t
    BY DEF Accounted
  <2>3. k \in Nat /\ t = r.last + k
    BY <1>1 DEF Accounted
  <2>4. k * power \in Nat /\ k * power <= MaxPower * k
    BY <2>3, Powers, Cheaper
  <2>5. MaxPower * t = MaxPower * r.last + MaxPower * k
    BY <2>3, Powers DEF Accounted
  <2>6. MaxPower * r.last \in Nat /\ MaxPower * k \in Nat
    BY <2>3, Powers DEF Accounted
  <2> HIDE DEF d, k
  <2>7. d.energy <= InitialEnergy /\ InitialEnergy - d.energy <= MaxPower * d.last
    BY <2>2, <2>4, <2>5, <2>6, PowerAssumption DEF Accounted
  <2>8. d.energy \in Int /\ d.last \in Nat /\ d.state \in States
    BY <2>2, <2>4 DEF Accounted
  <2> QED
    BY <2>1, <2>2, <2>7, <2>8 DEF Accounted
<1>2. CASE ~(t > r.last)
  BY <1>2 DEF Drawn
<1> QED
  BY <1>1, <1>2

LEMMA SwitchedAccounted ==
  ASSUME NEW r, Accounted(r), NEW state \in States, NEW t \in Nat
  PROVE  /\ Accounted(Switched(r, state, t))
         /\ Switched(r, state, t).last = r.last \/ Switched(r, state, t).last <= FinishTime
<1>1. CASE ~Measured(t)
  BY <1>1 DEF Switched
<1>2. CASE Measured(t)
  <2> DEFINE d == Drawn(r, PowerOf(r.state), t)
  <2>1. PowerOf(r.state) \in Nat /\ PowerOf(r.state) <= MaxPower
    BY Powers DEF Accounted
  <2>2. Accounted(d) /\ d.last \in {r.last, t}
    BY <2>1, DrawnAccounted
  <2>3. t <= FinishTime
    BY <1>2 DEF Measured
  <2>4. Switched(r, state, t) = IF r.state = "OFF" THEN d ELSE [d EXCEPT !.state = state]
    BY <1>2 DEF Switched
  <2> HIDE DEF d
  <2>5. Accounted([d EXCEPT !.state = state]) /\ [d EXCEPT !.state = state].last = d.last
    BY <2>2 DEF Accounted
  <2> QED
    BY <2>2, <2>3, <2>4, <2>5
<1> QED
  BY <1>1, <1>2

LEMMA OnAirAccounted ==
  ASSUME clock \in Nat, NEW r, Accounted(r), InBounds(r, clock),
         NEW state \in States, NEW txTime \in Nat
  PROVE  Accounted(OnAir(r, state, txTime)) /\ InBounds(OnAir(r, state, txTime), clock)
<1> DEFINE first == Switched(r, state, clock)
           both == Switched(first, "IDLE", clock + txTime)
<1>1. Accounted(first) /\ InBounds(first, clock)
  BY SwitchedAccounted DEF InBounds
<1>2. clock + txTime \in Nat /\ "IDLE" \in States
  BY DEF States
<1>3. Accounted(both) /\ (both.last = first.last \/ both.last <= FinishTime)
  BY <1>1, <1>2, SwitchedAccounted
<1>4. OnAir(r, state, txTime) \in {first, both}
  BY DEF OnAir, Both, First
<1> HIDE DEF first, both
<1> QED
  BY <1>1, <1>3, <1>4 DEF InBounds

(***************************************************************************)
(* The steps                                                               *)
(***************************************************************************)
LEMMA InitAccounted == Init => BatteryInv
<1> SUFFICES ASSUME Init PROVE BatteryInv
  OBVIOUS
<1>1. \A n \in Nodes : Accounted(node[n]) /\ InBounds(node[n], clock)
  BY Powers, PowerAssumption DEF Init, Accounted, InBounds, States
<1> QED
  BY <1>1 DEF Init, BatteryInv

LEMMA TransmitAccounted ==
  ASSUME BatteryInv, NEW n \in Nodes, NEW m, NEW p, NEW dst, NEW txTime \in Nat,
         Transmit(n, m, p, dst, txTime), UNCHANGED <<setup, clock>>
  PROVE  BatteryInv'
<1>1. node' = [node EXCEPT ![n] = OnAir(@, "TX", txTime)]
  BY DEF Transmit
<1>2. Accounted(OnAir(node[n], "TX", txTime)) /\ InBounds(OnAir(node[n], "TX", txTime), clock)
  BY OnAirAccounted DEF BatteryInv, States
<1>3. \A k \in Nodes : Accounted(node'[k]) /\ InBounds(node'[k], clock)
  BY <1>1, <1>2 DEF BatteryInv
<1>4. \A x \in flight' : x \in flight \/ x.txTime = txTime
  BY DEF Transmit
<1> QED
  BY <1>1, <1>3, <1>4 DEF BatteryInv

LEMMA ArriveAccounted ==
  ASSUME BatteryInv, NEW x \in flight, Arrive(x)
  PROVE  BatteryInv'
<1>1. node' = [node EXCEPT ![x.to] = OnAir(@, "RX", x.txTime)]
  BY DEF Arrive
<1>2. x.txTime \in Nat
  BY DEF BatteryInv
<1>3. \A k \in Nodes : Accounted(node'[k]) /\ InBounds(node'[k], clock)
  <2> TAKE k \in Nodes
  <2>1. CASE k = x.to
    <3>1. node'[k] = OnAir(node[k], "RX", x.txTime)
      BY <1>1, <2>1 DEF BatteryInv
    <3>2. Accounted(node[k]) /\ InBounds(node[k], clock) /\ clock \in Nat /\ "RX" \in States
      BY DEF BatteryInv, States
    <3> QED
      BY <1>2, <3>1, <3>2, OnAirAccounted
  <2>2. CASE k # x.to
    BY <1>1, <2>2 DEF BatteryInv
  <2> QED
    BY <2>1, <2>2
<1>4. UNCHANGED <<setup, clock>> /\ flight' \subseteq flight
  BY DEF Arrive
<1> QED
  BY <1>1, <1>3, <1>4 DEF BatteryInv

LEMMA PowerSwitchAccounted ==
  ASSUME BatteryInv, NEW n \in Nodes, PowerSwitch(n)
  PROVE  BatteryInv'
<1> DEFINE down == Drawn(node[n], 0, clock)
           up == Drawn(node[n], IdlePower, clock)
<1>1. PICK c \in Cycles :
        node' = [node EXCEPT ![n] =
          IF @.on
          THEN [down EXCEPT !.state = "OFF", !.on = FALSE,
                  !.switchAt = IF setup.transient THEN clock + c ELSE Never]
          ELSE [up EXCEPT !.state = "IDLE", !.on = TRUE, !.switchAt = clock + c]]
  BY DEF PowerSwitch
<1>2. clock \in Nat /\ Accounted(node[n]) /\ InBounds(node[n], clock)
  BY DEF BatteryInv
<1>3. 0 \in Nat /\ 0 <= MaxPower
  BY Powers
<1>4. /\ Accounted(down) /\ down.last \in {node[n].last, clock}
      /\ Accounted(up) /\ up.last \in {node[n].last, clock}
  BY <1>2, <1>3, Powers, DrawnAccounted
<1>5. InBounds(down, clock) /\ InBounds(up, clock)
  BY <1>2, <1>4 DEF InBounds
<1> HIDE DEF down, up
<1>6. Accounted(node'[n]) /\ InBounds(node'[n], clock)
  <2>1. CASE node[n].on
    BY <1>1, <1>4, <1>5, <2>1 DEF BatteryInv, Accounted, InBounds, States
  <2>2. CASE ~node[n].on
    BY <1>1, <1>4, <1>5, <2>2 DEF BatteryInv, Accounted, InBounds, States
  <2> QED
    BY <2>1, <2>2
<1>7. \A k \in Nodes : Accounted(node'[k]) /\ InBounds(node'[k], clock)
  BY <1>1, <1>6 DEF BatteryInv
<1>8. UNCHANGED <<setup, clock, flight>>
  BY DEF PowerSwitch
<1> QED
  BY <1>1, <1>7, <1>8 DEF BatteryInv

\* No battery is charged twice for a moment, nor for a moment at more than the
\* highest power, nor beyond FinishTime unless a node fails or comes back:
\* ChargedOnce (switch_state and power_in), for all powers, times, places and
\* failures.
THEOREM NeverChargedTwice == Spec => []ChargedOnce
<1>1. Init => BatteryInv
  BY InitAccounted
<1>2. BatteryInv /\ [Next]_vars => BatteryInv'
  <2> SUFFICES ASSUME BatteryInv, [Next]_vars PROVE BatteryInv'
    OBVIOUS
  <2>1. ASSUME NEW n \in Nodes, Send(n) PROVE BatteryInv'
    <3>1. PICK dst \in (Nodes \ {n}) \union {Broadcast}, txTime \in setup.txTimes :
            Transmit(n, [memory EXCEPT !.data = Alloc(@, NoPayload)],
                     NextBlock(memory.data), dst, txTime)
      BY <2>1 DEF Send
    <3>2. txTime \in Nat /\ UNCHANGED <<setup, clock>>
      BY <2>1, PowerAssumption DEF BatteryInv, Send
    <3> QED
      BY <3>1, <3>2, TransmitAccounted
  <2>2. ASSUME NEW n \in Nodes, Forward(n) PROVE BatteryInv'
    <3>1. PICK p \in BagToSet(held[n]), dst \in (Nodes \ {n}) \union {Broadcast},
               txTime \in setup.txTimes : Transmit(n, memory, p, dst, txTime)
      BY <2>2 DEF Forward
    <3>2. txTime \in Nat /\ UNCHANGED <<setup, clock>>
      BY <2>2, PowerAssumption DEF BatteryInv, Forward
    <3> QED
      BY <3>1, <3>2, TransmitAccounted
  <2>3. ASSUME NEW n \in Nodes, Consume(n) PROVE BatteryInv'
    BY <2>3 DEF Consume, BatteryInv
  <2>4. ASSUME NEW n \in Nodes, PowerSwitch(n) PROVE BatteryInv'
    BY <2>4, PowerSwitchAccounted
  <2>5. ASSUME NEW x \in flight, Arrive(x) PROVE BatteryInv'
    BY <2>5, ArriveAccounted
  <2>6. CASE Tick
    <3>1. \A n \in Nodes : InBounds(node[n], clock + 1)
      BY PowerAssumption DEF BatteryInv, InBounds, Accounted
    <3> QED
      BY <2>6, <3>1 DEF Tick, BatteryInv
  <2>7. CASE UNCHANGED vars
    BY <2>7 DEF vars, BatteryInv
  <2> QED
    BY <2>1, <2>2, <2>3, <2>4, <2>5, <2>6, <2>7 DEF Next
<1>3. BatteryInv => ChargedOnce
  BY DEF BatteryInv, Accounted, InBounds, ChargedOnce
<1> QED
  BY <1>1, <1>2, <1>3, PTL DEF Spec

(***************************************************************************)
(* The cells of the channel                                                *)
(***************************************************************************)
\* A number has one quotient and one remainder.
LEMMA Divided ==
  ASSUME NEW g \in Nat \ {0}, NEW x \in Nat
  PROVE  /\ x \div g \in Nat /\ x % g \in 0 .. g - 1
         /\ x = g * (x \div g) + (x % g)
OBVIOUS

LEMMA OneQuotient ==
  ASSUME NEW g \in Nat \ {0}, NEW q \in Nat, NEW r \in 0 .. g - 1
  PROVE  (r + q * g) \div g = q /\ (r + q * g) % g = r
<1> DEFINE x == r + q * g
           k == x \div g
<1>1. q * g \in Nat /\ x \in Nat
  OBVIOUS
<1>2. k \in Nat /\ x % g \in 0 .. g - 1 /\ x = g * k + (x % g)
  BY <1>1, Divided
<1> HIDE DEF k
<1>3. g * k + (x % g) = q * g + r
  BY <1>2
<1>4. ~(k > q)
  <2> SUFFICES ASSUME k > q PROVE FALSE
    OBVIOUS
  <2>1. PICK m \in Nat : k = q + 1 + m
    <3>1. k - q - 1 \in Nat /\ k = q + 1 + (k - q - 1)
      BY <1>2
    <3> QED
      BY <3>1
  <2>2. g * k = q * g + g + g * m /\ g * m \in Nat
    BY <2>1
  <2> HIDE DEF x
  <2> QED
    BY <1>1, <1>2, <1>3, <2>2
<1>5. ~(k < q)
  <2> SUFFICES ASSUME k < q PROVE FALSE
    OBVIOUS
  <2>1. PICK m \in Nat : q = k + 1 + m
    <3>1. q - k - 1 \in Nat /\ q = k + 1 + (q - k - 1)
      BY <1>2
    <3> QED
      BY <3>1
  <2>2. q * g = g * k + g + g * m /\ g * m \in Nat /\ g * k \in Nat
    BY <1>2, <2>1
  <2> HIDE DEF x
  <2> QED
    BY <1>2, <1>3, <2>2
<1>6. k = q
  BY <1>2, <1>4, <1>5
<1>7. g * k = q * g
  BY <1>6
<1> HIDE DEF x
<1>8. x % g = r
  <2> DEFINE product == q * g
             rest == x % g
  <2>1. product \in Nat /\ rest \in 0 .. g - 1 /\ product + rest = product + r
    BY <1>1, <1>2, <1>3, <1>7
  <2> HIDE DEF product, rest
  <2> QED
    BY <2>1 DEF rest
<1> QED
  BY <1>6, <1>8 DEF x, k

\* Of two places less than a cell's width apart, one lies in the cell of the
\* other or next to it.
LEMMA CellsTouch ==
  ASSUME NEW g \in Nat \ {0}, NEW x \in Nat, NEW y \in Nat, x - y < g
  PROVE  x \div g <= y \div g + 1
<1> DEFINE k == x \div g
           h == y \div g
<1>1. /\ k \in Nat /\ x % g \in 0 .. g - 1 /\ x = g * k + (x % g)
      /\ h \in Nat /\ y % g \in 0 .. g - 1 /\ y = g * h + (y % g)
  BY Divided
<1> HIDE DEF k, h
<1>2. ~(k > h + 1)
  <2> SUFFICES ASSUME k > h + 1 PROVE FALSE
    OBVIOUS
  <2>1. PICK m \in Nat : k = h + 2 + m
    <3>1. k - h - 2 \in Nat /\ k = h + 2 + (k - h - 2)
      BY <1>1
    <3> QED
      BY <3>1
  <2>2. g * k = g * h + 2 * g + g * m /\ g * m \in Nat /\ g * h \in Nat
    BY <1>1, <2>1
  <2> QED
    BY <1>1, <2>2
<1> QED
  BY <1>1, <1>2 DEF k, h

\* A place on the terrain lies in a cell.
LEMMA InCell ==
  ASSUME NEW g \in Nat \ {0}, NEW c \in Nat \ {0}, NEW x \in 0 .. c * g - 1
  PROVE  x \div g \in 0 .. c - 1
<1> DEFINE k == x \div g
<1>1. k \in Nat /\ x % g \in 0 .. g - 1 /\ x = g * k + (x % g)
  BY Divided
<1> HIDE DEF k
<1>2. ~(k >= c)
  <2> SUFFICES ASSUME k >= c PROVE FALSE
    OBVIOUS
  <2>1. PICK m \in Nat : k = c + m
    <3>1. k - c \in Nat /\ k = c + (k - c)
      BY <1>1
    <3> QED
      BY <3>1
  <2>2. g * k = c * g + g * m /\ g * m \in Nat /\ c * g \in Nat
    BY <2>1
  <2> QED
    BY <1>1, <2>2
<1> QED
  BY <1>1, <1>2 DEF k

LEMMA SquareBounds ==
  ASSUME NEW a \in Int, NEW g \in Nat, Square(a) < Square(g)
  PROVE  a < g /\ -a < g
<1>1. ~(a >= g)
  <2> SUFFICES ASSUME a >= g PROVE FALSE
    OBVIOUS
  <2>1. PICK m \in Nat : a = g + m
    <3>1. a - g \in Nat /\ a = g + (a - g)
      OBVIOUS
    <3> QED
      BY <3>1
  <2>2. a * a = g * g + 2 * (g * m) + m * m /\ g * m \in Nat /\ m * m \in Nat
    BY <2>1
  <2> QED
    BY <2>2 DEF Square
<1>2. ~(-a >= g)
  <2> SUFFICES ASSUME -a >= g PROVE FALSE
    OBVIOUS
  <2>1. PICK m \in Nat : a = -(g + m)
    <3>1. -a - g \in Nat /\ a = -(g + (-a - g))
      OBVIOUS
    <3> QED
      BY <3>1
  <2>2. a * a = g * g + 2 * (g * m) + m * m /\ g * m \in Nat /\ m * m \in Nat
    BY <2>1
  <2> QED
    BY <2>2 DEF Square
<1> QED
  BY <1>1, <1>2

\* The coordinates of two cells that touch, and how from_phy finds them.
LEMMA Found ==
  ASSUME NEW n \in Nodes, NEW m \in Nodes, setup \in Setups, Columns = Rows, InRange(n, m)
  PROVE  Grid(m) \in Looked(n)
<1> DEFINE px == setup.place[n][1]
           py == setup.place[n][2]
           qx == setup.place[m][1]
           qy == setup.place[m][2]
           cx == px \div GridSize
           cy == py \div GridSize
           dx == qx \div GridSize
           dy == qy \div GridSize
<1>1. /\ px \in 0 .. Columns * GridSize - 1 /\ py \in 0 .. Columns * GridSize - 1
      /\ qx \in 0 .. Columns * GridSize - 1 /\ qy \in 0 .. Columns * GridSize - 1
  <2>1. /\ setup.place[n] \in (0 .. Columns * GridSize - 1) \X (0 .. Columns * GridSize - 1)
        /\ setup.place[m] \in (0 .. Columns * GridSize - 1) \X (0 .. Columns * GridSize - 1)
    BY TerrainAssumption
  <2> QED
    BY <2>1
<1>2. GridSize \in Nat \ {0} /\ Columns \in Nat \ {0}
  BY TerrainAssumption
<1>3. /\ px \in Nat /\ py \in Nat /\ qx \in Nat /\ qy \in Nat
      /\ px - qx \in Int /\ py - qy \in Int
  BY <1>1
<1>4. /\ px - qx < GridSize /\ qx - px < GridSize
      /\ py - qy < GridSize /\ qy - py < GridSize
  <2>1. Square(px - qx) + Square(py - qy) < Square(GridSize)
    BY DEF InRange, DistanceSquared
  <2> HIDE DEF px, py, qx, qy
  <2> DEFINE a == Square(px - qx)
             b == Square(py - qy)
             c == Square(GridSize)
  <2>2. a \in Nat /\ b \in Nat /\ c \in Nat
    <3>1. \A k \in Int : k * k \in Nat
      OBVIOUS
    <3> QED
      BY <1>2, <1>3, <3>1 DEF Square
  <2>3. a + b < c
    BY <2>1
  <2> HIDE DEF a, b, c
  <2>4. a < c /\ b < c
    BY <2>2, <2>3
  <2>5. /\ px - qx < GridSize /\ -(px - qx) < GridSize
        /\ py - qy < GridSize /\ -(py - qy) < GridSize
    BY <1>2, <1>3, <2>4, SquareBounds DEF a, b, c
  <2> QED
    BY <1>3, <2>5
<1>5. /\ cx \in 0 .. Columns - 1 /\ cy \in 0 .. Columns - 1
      /\ dx \in 0 .. Columns - 1 /\ dy \in 0 .. Columns - 1
  BY <1>1, <1>2, InCell
<1>6. cx <= dx + 1 /\ dx <= cx + 1 /\ cy <= dy + 1 /\ dy <= cy + 1
  BY <1>2, <1>3, <1>4, CellsTouch
<1>7. Grid(n) = cx + cy * Columns /\ Grid(m) = dx + dy * Columns
  BY DEF Grid
<1> HIDE DEF px, py, qx, qy, cx, cy, dx, dy
<1>8. Grid(n) \div Rows = cy /\ Grid(n) % Columns = cx
  BY <1>2, <1>5, <1>7, OneQuotient
<1>9. Looked(n) = {i + j * Columns : i \in {cx - 1, cx, cx + 1} \cap 0 .. Columns - 1,
                                     j \in {cy - 1, cy, cy + 1} \cap 0 .. Columns - 1}
  BY <1>8 DEF Looked
<1>10. dx \in {cx - 1, cx, cx + 1} \cap 0 .. Columns - 1
  BY <1>2, <1>5, <1>6
<1>11. dy \in {cy - 1, cy, cy + 1} \cap 0 .. Columns - 1
  BY <1>2, <1>5, <1>6
<1> QED
  BY <1>7, <1>9, <1>10, <1>11

\* Dividing a cell's number by ny where nx is meant hides nobody as long as the
\* terrain has as many columns as rows: EveryNeighbourHears (pos_in and
\* from_phy of the channel), for all places, sizes of cells and of terrains.
THEOREM AllNeighboursHear == Spec => []EveryNeighbourHears
<1>1. Init => setup \in Setups
  BY DEF Init
<1>2. setup \in Setups /\ [Next]_vars => (setup \in Setups)'
  BY DEF Next, vars, Send, Forward, Consume, PowerSwitch, Arrive, Tick
<1>3. setup \in Setups => EveryNeighbourHears
  <2> SUFFICES ASSUME setup \in Setups, Columns = Rows, NEW n \in Nodes
               PROVE  Reached(n) = {m \in Nodes \ {n} : InRange(n, m)}
    BY DEF EveryNeighbourHears
  <2>1. \A m \in Nodes \ {n} : InRange(n, m) => m \in Candidates(n)
    BY Found DEF Candidates
  <2>2. Candidates(n) \subseteq Nodes \ {n}
    BY DEF Candidates
  <2> QED
    BY <2>1, <2>2 DEF Reached
<1> QED
  BY <1>1, <1>2, <1>3, PTL DEF Spec

(***************************************************************************)
(* A store: its free list                                                  *)
(***************************************************************************)
Blocks(s) == 0 .. s.capacity - 1

\* A block nobody owns is on the free list, once; a block somebody owns is not.
StoreInv(s) ==
  /\ DOMAIN s = {"free", "segment", "size", "capacity", "ref", "pld"}
  /\ s.segment \in Nat \ {0} /\ s.capacity \in Nat
  /\ DOMAIN s.ref = Blocks(s) /\ DOMAIN s.pld = Blocks(s)
  /\ \A b \in Blocks(s) : s.ref[b] \in Nat
  /\ s.free \in Seq(Blocks(s))
  /\ \A i, j \in 1 .. Len(s.free) : i # j => s.free[i] # s.free[j]
  /\ \A b \in Blocks(s) : s.ref[b] = 0 <=> \E i \in 1 .. Len(s.free) : s.free[i] = b
  /\ s.size = s.capacity - Len(s.free)

\* What is in block b of s is in block b of t.
SameBlock(s, t, b) == s.ref[b] = t.ref[b] /\ s.pld[b] = t.pld[b]

\* The blocks of a new segment are listed once each, in order.
LEMMA SegmentFree ==
  ASSUME NEW first \in Nat, NEW length \in Nat \ {0}
  PROVE  /\ Segment(first, length) \in Seq(first .. first + length - 1)
         /\ Len(Segment(first, length)) = length
         /\ \A i \in 1 .. length : Segment(first, length)[i] = first + i - 1
<1>1. /\ Segment(first, length) = [i \in 1 .. length |-> first + i - 1]
      /\ \A i \in 1 .. length : first + i - 1 \in first .. first + length - 1
  BY DEF Segment
<1>2. Segment(first, length) \in [1 .. length -> first .. first + length - 1]
  BY <1>1
<1>3. Segment(first, length) \in Seq(first .. first + length - 1)
  BY <1>2, SeqDef
<1>4. DOMAIN Segment(first, length) = 1 .. length
  BY <1>1
<1> QED
  BY <1>1, <1>3, <1>4, LenProperties

\* The store a program starts with has one segment, free.
LEMMA NewStoreInv == StoreInv(NewStore)
<1> DEFINE s == NewStore
<1>1. /\ DOMAIN s = {"free", "segment", "size", "capacity", "ref", "pld"}
      /\ s.free = Segment(0, SegmentSize) /\ s.segment = SegmentSize /\ s.size = 0
      /\ s.capacity = SegmentSize
      /\ s.ref = [b \in 0 .. SegmentSize - 1 |-> 0]
      /\ s.pld = [b \in 0 .. SegmentSize - 1 |-> NoPayload]
  BY DEF NewStore
<1> HIDE DEF s
<1>2. /\ s.free \in Seq(0 .. SegmentSize - 1) /\ Len(s.free) = SegmentSize
      /\ \A i \in 1 .. SegmentSize : s.free[i] = i - 1
  <2>1. 0 \in Nat /\ SegmentSize \in Nat \ {0}
    BY SegmentAssumption
  <2>2. /\ Segment(0, SegmentSize) \in Seq(0 .. 0 + SegmentSize - 1)
        /\ Len(Segment(0, SegmentSize)) = SegmentSize
        /\ \A i \in 1 .. SegmentSize : Segment(0, SegmentSize)[i] = 0 + i - 1
    BY <2>1, SegmentFree
  <2>3. 0 + SegmentSize = SegmentSize /\ \A i \in 1 .. SegmentSize : 0 + i - 1 = i - 1
    BY <2>1
  <2> QED
    BY <1>1, <2>2, <2>3
<1>3. \A b \in 0 .. SegmentSize - 1 : \E i \in 1 .. SegmentSize : s.free[i] = b
  <2> TAKE b \in 0 .. SegmentSize - 1
  <2>1. b + 1 \in 1 .. SegmentSize /\ b + 1 - 1 = b
    BY SegmentAssumption
  <2> QED
    BY <1>2, <2>1
<1>4. \A i, j \in 1 .. SegmentSize : i # j => s.free[i] # s.free[j]
  BY <1>2, SegmentAssumption
<1>5. Blocks(s) = 0 .. SegmentSize - 1 /\ DOMAIN s.ref = Blocks(s) /\ DOMAIN s.pld = Blocks(s)
  BY <1>1 DEF Blocks
<1>6. \A b \in Blocks(s) : s.ref[b] = 0
  BY <1>1, <1>5
<1>7. s.size = s.capacity - Len(s.free)
  BY <1>1, <1>2, SegmentAssumption
<1>8. StoreInv(s)
  <2>1. \A b \in Blocks(s) : s.ref[b] = 0 <=> \E i \in 1 .. Len(s.free) : s.free[i] = b
    BY <1>2, <1>3, <1>5, <1>6
  <2>2. \A i, j \in 1 .. Len(s.free) : i # j => s.free[i] # s.free[j]
    BY <1>2, <1>4
  <2>3. s.free \in Seq(Blocks(s)) /\ s.segment \in Nat \ {0} /\ s.capacity \in Nat
    BY <1>1, <1>2, <1>5, SegmentAssumption
  <2>4. DOMAIN s = {"free", "segment", "size", "capacity", "ref", "pld"}
    BY <1>1
  <2> QED
    BY <1>5, <1>6, <1>7, <2>1, <2>2, <2>3, <2>4 DEF StoreInv
<1> QED
  BY <1>8 DEF s

\* A segment is added only when nothing is free, and leaves the blocks there are.
LEMMA GrownInv ==
  ASSUME NEW s, StoreInv(s)
  PROVE  /\ StoreInv(Grown(s)) /\ Grown(s).free # <<>>
         /\ Blocks(s) \subseteq Blocks(Grown(s))
         /\ \A b \in Blocks(s) : SameBlock(Grown(s), s, b)
         /\ \A b \in Blocks(Grown(s)) \ Blocks(s) : Grown(s).ref[b] = 0
<1>1. CASE s.free # <<>>
  BY <1>1 DEF Grown, SameBlock
<1>2. CASE s.free = <<>>
  <2> DEFINE length == 2 * s.segment
             g == Grown(s)
  <2>1. length \in Nat \ {0} /\ s.capacity \in Nat
    BY DEF StoreInv
  <2>2. /\ DOMAIN g = DOMAIN s /\ g.size = s.size
        /\ g.segment = length /\ g.capacity = s.capacity + length
        /\ g.free = Segment(s.capacity, length)
        /\ g.ref = [b \in 0 .. s.capacity + length - 1 |-> IF b < s.capacity THEN s.ref[b] ELSE 0]
        /\ g.pld = [b \in 0 .. s.capacity + length - 1 |->
                      IF b < s.capacity THEN s.pld[b] ELSE NoPayload]
    BY <1>2 DEF Grown, StoreInv
  <2> HIDE DEF length, g
  <2>3. /\ g.free \in Seq(s.capacity .. s.capacity + length - 1) /\ Len(g.free) = length
        /\ \A i \in 1 .. length : g.free[i] = s.capacity + i - 1
    <3>1. /\ Segment(s.capacity, length) \in Seq(s.capacity .. s.capacity + length - 1)
          /\ Len(Segment(s.capacity, length)) = length
          /\ \A i \in 1 .. length : Segment(s.capacity, length)[i] = s.capacity + i - 1
      BY <2>1, SegmentFree
    <3>2. g.free = Segment(s.capacity, length)
      BY <2>2
    <3> QED
      BY <3>1, <3>2
  <2>4. Blocks(g) = 0 .. s.capacity + length - 1 /\ Blocks(s) = 0 .. s.capacity - 1
    <3>1. g.capacity = s.capacity + length
      BY <2>2
    <3> QED
      BY <2>1, <3>1 DEF Blocks
  <2>5. g.free \in Seq(Blocks(g))
    <3>1. s.capacity .. s.capacity + length - 1 \subseteq Blocks(g)
      BY <2>1, <2>4
    <3> QED
      BY <2>3, <3>1, SeqMonotonic
  <2>6. Len(s.free) = 0
    BY <1>2, EmptySeq
  <2>7. \A b \in Blocks(s) : s.ref[b] \in Nat /\ s.ref[b] # 0
    BY <2>6 DEF StoreInv
  <2>8. /\ Blocks(s) \subseteq Blocks(g)
        /\ \A b \in Blocks(s) : SameBlock(g, s, b)
        /\ \A b \in Blocks(g) \ Blocks(s) : g.ref[b] = 0
    BY <2>1, <2>2, <2>4 DEF SameBlock
  <2>9. \A b \in Blocks(g) : g.ref[b] \in Nat /\ (g.ref[b] = 0 <=> b \notin Blocks(s))
    BY <2>1, <2>2, <2>4, <2>7
  <2>10. \A b \in Blocks(g) : b \notin Blocks(s) <=> \E i \in 1 .. length : g.free[i] = b
    <3> TAKE b \in Blocks(g)
    <3>1. CASE b \notin Blocks(s)
      <4>1. b - s.capacity + 1 \in 1 .. length /\ s.capacity + (b - s.capacity + 1) - 1 = b
        BY <2>1, <2>4, <3>1
      <4> QED
        BY <2>3, <3>1, <4>1
    <3>2. CASE b \in Blocks(s)
      BY <2>1, <2>3, <2>4, <3>2
    <3> QED
      BY <3>1, <3>2
  <2>11. \A i, j \in 1 .. length : i # j => g.free[i] # g.free[j]
    <3>1. \A i, j \in 1 .. length : i # j => s.capacity + i - 1 # s.capacity + j - 1
      BY <2>1
    <3>2. \A i \in 1 .. length : g.free[i] = s.capacity + i - 1
      BY <2>3
    <3> QED
      BY <3>1, <3>2
  <2>12. g.size = g.capacity - length /\ g.capacity \in Nat /\ g.segment \in Nat \ {0}
    BY <2>1, <2>2, <2>6 DEF StoreInv
  <2>13. DOMAIN g.ref = Blocks(g) /\ DOMAIN g.pld = Blocks(g)
    BY <2>2, <2>4
  <2>14. DOMAIN g = {"free", "segment", "size", "capacity", "ref", "pld"}
    BY <2>2 DEF StoreInv
  <2>15. StoreInv(g)
    BY <2>3, <2>5, <2>9, <2>10, <2>11, <2>12, <2>13, <2>14 DEF StoreInv
  <2>16. g.free # <<>>
    BY <2>1, <2>3, EmptySeq
  <2> QED
    BY <2>8, <2>15, <2>16 DEF g
<1> QED
  BY <1>1, <1>2

\* alloc takes a block nobody owns and touches no other.
LEMMA AllocInv ==
  ASSUME NEW s, StoreInv(s), NEW pld
  PROVE  LET t == Alloc(s, pld)  f == NextBlock(s)
         IN  /\ StoreInv(t) /\ f \in Blocks(t) /\ Blocks(s) \subseteq Blocks(t)
             /\ f \in Blocks(s) => s.ref[f] = 0
             /\ t.ref[f] = 1 /\ t.pld[f] = pld
             /\ \A b \in Blocks(s) \ {f} : SameBlock(t, s, b)
             /\ \A b \in Blocks(t) \ (Blocks(s) \union {f}) : t.ref[b] = 0
<1> DEFINE g == Grown(s)
           f == Head(g.free)
           t == Alloc(s, pld)
<1>1. /\ StoreInv(g) /\ g.free # <<>>
      /\ Blocks(s) \subseteq Blocks(g)
      /\ \A b \in Blocks(s) : SameBlock(g, s, b)
      /\ \A b \in Blocks(g) \ Blocks(s) : g.ref[b] = 0
  BY GrownInv
<1>2. t = [g EXCEPT !.free = Tail(@), !.size = @ + 1, !.ref[f] = 1, !.pld[f] = pld]
  BY DEF Alloc
<1> HIDE DEF g, t
<1>3. /\ g.free \in Seq(Blocks(g)) /\ Len(g.free) \in Nat \ {0}
      /\ f = g.free[1] /\ f \in Blocks(g)
      /\ Tail(g.free) \in Seq(Blocks(g)) /\ Len(Tail(g.free)) = Len(g.free) - 1
      /\ \A i \in 1 .. Len(g.free) - 1 : Tail(g.free)[i] = g.free[i + 1]
  BY <1>1, HeadTailProperties, LenProperties DEF StoreInv
<1> HIDE DEF f
<1>4. /\ DOMAIN t = DOMAIN g /\ t.segment = g.segment /\ t.capacity = g.capacity
      /\ t.free = Tail(g.free) /\ t.size = g.size + 1
      /\ t.ref = [g.ref EXCEPT ![f] = 1] /\ t.pld = [g.pld EXCEPT ![f] = pld]
  BY <1>1, <1>2 DEF StoreInv
<1>5. Blocks(t) = Blocks(g)
  BY <1>4 DEF Blocks
<1>6. /\ t.ref[f] = 1 /\ t.pld[f] = pld
      /\ \A b \in Blocks(g) : b # f => SameBlock(t, g, b)
  BY <1>1, <1>3, <1>4 DEF StoreInv, SameBlock
<1>7. /\ DOMAIN t.ref = Blocks(t) /\ DOMAIN t.pld = Blocks(t)
      /\ \A b \in Blocks(t) : t.ref[b] \in Nat
  BY <1>1, <1>4, <1>5, <1>6 DEF StoreInv, SameBlock
<1>8. g.ref[f] = 0
  BY <1>1, <1>3 DEF StoreInv
<1>9. \A i, j \in 1 .. Len(t.free) : i # j => t.free[i] # t.free[j]
  BY <1>1, <1>3, <1>4 DEF StoreInv
<1>10. \A b \in Blocks(t) : t.ref[b] = 0 <=> \E i \in 1 .. Len(t.free) : t.free[i] = b
  <2> SUFFICES ASSUME NEW b \in Blocks(g)
               PROVE  t.ref[b] = 0 <=> \E i \in 1 .. Len(g.free) - 1 : g.free[i + 1] = b
    BY <1>3, <1>4, <1>5
  <2>1. CASE b = f
    <3>1. \A i \in 1 .. Len(g.free) - 1 : g.free[i + 1] # f
      BY <1>1, <1>3 DEF StoreInv
    <3> QED
      BY <1>6, <2>1, <3>1
  <2>2. CASE b # f
    <3>1. t.ref[b] = 0 <=> \E i \in 1 .. Len(g.free) : g.free[i] = b
      BY <1>1, <1>6, <2>2 DEF StoreInv, SameBlock
    <3>2. ASSUME NEW i \in 1 .. Len(g.free), g.free[i] = b
          PROVE  \E j \in 1 .. Len(g.free) - 1 : g.free[j + 1] = b
      <4>1. i # 1
        BY <1>3, <2>2, <3>2
      <4>2. i - 1 \in 1 .. Len(g.free) - 1 /\ i - 1 + 1 = i
        BY <1>3, <4>1
      <4> QED
        BY <3>2, <4>2
    <3>3. \A j \in 1 .. Len(g.free) - 1 : j + 1 \in 1 .. Len(g.free)
      BY <1>3
    <3> QED
      BY <3>1, <3>2, <3>3
  <2> QED
    BY <2>1, <2>2
<1>11. t.size = t.capacity - Len(t.free)
  BY <1>1, <1>3, <1>4 DEF StoreInv
<1>12. StoreInv(t)
  BY <1>1, <1>3, <1>4, <1>5, <1>7, <1>9, <1>10, <1>11 DEF StoreInv
<1>13. f \in Blocks(s) => s.ref[f] = 0
  BY <1>1, <1>8 DEF SameBlock
<1>14. ASSUME NEW b \in Blocks(s), b # f PROVE SameBlock(t, s, b)
  <2>1. b \in Blocks(g) /\ SameBlock(g, s, b)
    BY <1>1, <1>14
  <2>2. SameBlock(t, g, b)
    BY <1>6, <1>14, <2>1
  <2> QED
    BY <2>1, <2>2 DEF SameBlock
<1>15. \A b \in Blocks(t) \ (Blocks(s) \union {f}) : t.ref[b] = 0
  BY <1>1, <1>5, <1>6 DEF SameBlock
<1>16. NextBlock(s) = f
  BY DEF NextBlock, f, g
<1> QED
  BY <1>1, <1>3, <1>5, <1>6, <1>12, <1>13, <1>14, <1>15, <1>16 DEF t

\* inc_ref adds owners to a block that has some.
LEMMA OwnedInv ==
  ASSUME NEW s, StoreInv(s), NEW b \in Blocks(s), s.ref[b] # 0, NEW k \in Nat
  PROVE  /\ StoreInv(Owned(s, b, k)) /\ Blocks(Owned(s, b, k)) = Blocks(s)
         /\ Owned(s, b, k).pld = s.pld
         /\ Owned(s, b, k).ref = [s.ref EXCEPT ![b] = s.ref[b] + k]
<1> DEFINE t == Owned(s, b, k)
<1>1. /\ DOMAIN t = DOMAIN s /\ t.segment = s.segment /\ t.capacity = s.capacity
      /\ t.free = s.free /\ t.size = s.size /\ t.pld = s.pld
      /\ t.ref = [s.ref EXCEPT ![b] = s.ref[b] + k]
  BY DEF Owned, StoreInv
<1> HIDE DEF t
<1>2. Blocks(t) = Blocks(s)
  BY <1>1 DEF Blocks
<1>3. \A c \in Blocks(s) : t.ref[c] = IF c = b THEN s.ref[b] + k ELSE s.ref[c]
  BY <1>1 DEF StoreInv
<1>4. \A c \in Blocks(s) : t.ref[c] \in Nat /\ (t.ref[c] = 0 <=> s.ref[c] = 0)
  <2>1. s.ref[b] \in Nat
    BY DEF StoreInv
  <2> QED
    BY <1>3, <2>1 DEF StoreInv
<1>5. DOMAIN t.ref = Blocks(t)
  BY <1>1, <1>2 DEF StoreInv
<1>6. StoreInv(t)
  BY <1>1, <1>2, <1>4, <1>5 DEF StoreInv
<1> QED
  BY <1>1, <1>2, <1>6 DEF t

\* free takes one owner away; the block of the last goes on the free list.
LEMMA DisownedInv ==
  ASSUME NEW s, StoreInv(s), NEW b \in Blocks(s), s.ref[b] # 0
  PROVE  /\ StoreInv(Disowned(s, b)) /\ Blocks(Disowned(s, b)) = Blocks(s)
         /\ Disowned(s, b).pld = s.pld
         /\ Disowned(s, b).ref = [s.ref EXCEPT ![b] = s.ref[b] - 1]
<1> DEFINE t == Disowned(s, b)
<1>0. s.ref[b] \in Nat
  BY DEF StoreInv
<1>1. CASE s.ref[b] > 1
  <2>1. /\ DOMAIN t = DOMAIN s /\ t.segment = s.segment /\ t.capacity = s.capacity
        /\ t.free = s.free /\ t.size = s.size /\ t.pld = s.pld
        /\ t.ref = [s.ref EXCEPT ![b] = s.ref[b] - 1]
    BY <1>1 DEF Disowned, StoreInv
  <2> HIDE DEF t
  <2>2. Blocks(t) = Blocks(s)
    BY <2>1 DEF Blocks
  <2>3. \A c \in Blocks(s) : t.ref[c] = IF c = b THEN s.ref[b] - 1 ELSE s.ref[c]
    BY <2>1 DEF StoreInv
  <2>4. \A c \in Blocks(s) : t.ref[c] \in Nat /\ (t.ref[c] = 0 <=> s.ref[c] = 0)
    BY <1>0, <1>1, <2>3 DEF StoreInv
  <2>5. DOMAIN t.ref = Blocks(t)
    BY <2>1, <2>2 DEF StoreInv
  <2>6. StoreInv(t)
    BY <2>1, <2>2, <2>4, <2>5 DEF StoreInv
  <2> QED
    BY <2>1, <2>2, <2>6 DEF t
<1>2. CASE ~(s.ref[b] > 1)
  <2>0. s.ref[b] = 1
    BY <1>0, <1>2
  <2>1. /\ DOMAIN t = DOMAIN s /\ t.segment = s.segment /\ t.capacity = s.capacity
        /\ t.free = <<b>> \o s.free /\ t.size = s.size - 1 /\ t.pld = s.pld
        /\ t.ref = [s.ref EXCEPT ![b] = 0]
    BY <1>2 DEF Disowned, StoreInv
  <2> HIDE DEF t
  <2>2. Blocks(t) = Blocks(s)
    BY <2>1 DEF Blocks
  <2>3. \A c \in Blocks(s) : t.ref[c] = IF c = b THEN 0 ELSE s.ref[c]
    BY <2>1 DEF StoreInv
  <2>4. /\ s.free \in Seq(Blocks(s)) /\ Len(s.free) \in Nat
        /\ \A i \in 1 .. Len(s.free) : s.free[i] \in Blocks(s)
    BY LenProperties, ElementOfSeq DEF StoreInv
  <2>5. /\ t.free \in Seq(Blocks(s)) /\ Len(t.free) = Len(s.free) + 1
        /\ t.free[1] = b /\ \A i \in 2 .. Len(s.free) + 1 : t.free[i] = s.free[i - 1]
    <3>1. <<b>> \in Seq(Blocks(s)) /\ Len(<<b>>) = 1 /\ <<b>>[1] = b
      OBVIOUS
    <3>2. /\ <<b>> \o s.free \in Seq(Blocks(s)) /\ Len(<<b>> \o s.free) = 1 + Len(s.free)
          /\ \A i \in 1 .. 1 + Len(s.free) :
                (<<b>> \o s.free)[i] = IF i <= 1 THEN <<b>>[i] ELSE s.free[i - 1]
      BY <2>4, <3>1, ConcatProperties
    <3> QED
      BY <2>1, <2>4, <3>1, <3>2
  <2>6. \A c \in Blocks(s) : t.ref[c] \in Nat
    BY <2>3 DEF StoreInv
  <2>7. \A i \in 1 .. Len(s.free) : s.free[i] # b
    BY <2>0 DEF StoreInv
  <2>8. \A i, j \in 1 .. Len(t.free) : i # j => t.free[i] # t.free[j]
    <3> SUFFICES ASSUME NEW i \in 1 .. Len(s.free) + 1, NEW j \in 1 .. Len(s.free) + 1, i # j
                 PROVE  t.free[i] # t.free[j]
      BY <2>5
    <3>1. \A x \in 2 .. Len(s.free) + 1 : x - 1 \in 1 .. Len(s.free) /\ t.free[x] = s.free[x - 1]
      BY <2>4, <2>5
    <3>2. CASE i = 1
      <4>1. j \in 2 .. Len(s.free) + 1
        BY <2>4, <3>2
      <4> QED
        BY <2>5, <2>7, <3>1, <3>2, <4>1
    <3>3. CASE j = 1
      <4>1. i \in 2 .. Len(s.free) + 1
        BY <2>4, <3>3
      <4> QED
        BY <2>5, <2>7, <3>1, <3>3, <4>1
    <3>4. CASE i # 1 /\ j # 1
      <4>1. i \in 2 .. Len(s.free) + 1 /\ j \in 2 .. Len(s.free) + 1 /\ i - 1 # j - 1
        BY <2>4, <3>4
      <4>2. t.free[i] = s.free[i - 1] /\ i - 1 \in 1 .. Len(s.free)
        BY <3>1, <4>1
      <4>3. t.free[j] = s.free[j - 1] /\ j - 1 \in 1 .. Len(s.free)
        BY <3>1, <4>1
      <4>4. \A x, y \in 1 .. Len(s.free) : x # y => s.free[x] # s.free[y]
        BY DEF StoreInv
      <4>5. s.free[i - 1] # s.free[j - 1]
        BY <4>1, <4>2, <4>3, <4>4
      <4> QED
        BY <4>2, <4>3, <4>5
    <3> QED
      BY <3>2, <3>3, <3>4
  <2>9. \A c \in Blocks(s) : t.ref[c] = 0 <=> \E i \in 1 .. Len(t.free) : t.free[i] = c
    <3> TAKE c \in Blocks(s)
    <3>1. CASE c = b
      <4>1. 1 \in 1 .. Len(t.free)
        BY <2>4, <2>5
      <4> QED
        BY <2>3, <2>5, <3>1, <4>1
    <3>2. CASE c # b
      <4>1. t.ref[c] = 0 <=> \E i \in 1 .. Len(s.free) : s.free[i] = c
        BY <2>3, <3>2 DEF StoreInv
      <4>2. ASSUME NEW i \in 1 .. Len(s.free), s.free[i] = c
            PROVE  \E j \in 1 .. Len(t.free) : t.free[j] = c
        <5>1. i + 1 \in 2 .. Len(s.free) + 1 /\ i + 1 - 1 = i /\ i + 1 \in 1 .. Len(t.free)
          BY <2>4, <2>5
        <5> QED
          BY <2>5, <4>2, <5>1
      <4>3. ASSUME NEW i \in 1 .. Len(t.free), t.free[i] = c
            PROVE  \E j \in 1 .. Len(s.free) : s.free[j] = c
        <5>1. i # 1
          BY <2>5, <3>2, <4>3
        <5>2. i \in 2 .. Len(s.free) + 1 /\ i - 1 \in 1 .. Len(s.free)
          BY <2>4, <2>5, <5>1
        <5> QED
          BY <2>5, <4>3, <5>2
      <4> QED
        BY <4>1, <4>2, <4>3
    <3> QED
      BY <3>1, <3>2
  <2>10. t.size = t.capacity - Len(t.free)
    BY <2>1, <2>4, <2>5 DEF StoreInv
  <2>11. DOMAIN t.ref = Blocks(t)
    BY <2>1, <2>2 DEF StoreInv
  <2>12. StoreInv(t)
    BY <2>1, <2>2, <2>5, <2>6, <2>8, <2>9, <2>10, <2>11 DEF StoreInv
  <2> QED
    BY <2>0, <2>1, <2>2, <2>12 DEF t
<1> QED
  BY <1>1, <1>2

(***************************************************************************)
(* Owners                                                                  *)
(***************************************************************************)
CarryingIn(pld, fl, p) == {x \in fl : pld[x.frame] = p}
HoldingIn(h, p) == UNION {{n} \X (1 .. Copies(p, h[n])) : n \in Nodes}

\* A node has a packet a number of times, or not at all.
AreBags(h) == \A n \in Nodes : \A p \in DOMAIN h[n] : h[n][p] \in Nat \ {0}

\* Everything in the air and in the network layers lies in the stores.
Stored(m, fl, h) ==
  /\ DOMAIN m = {"frames", "data"} /\ StoreInv(m.frames) /\ StoreInv(m.data)
  /\ IsFiniteSet(fl)
  /\ \A x \in fl : /\ x.frame \in Blocks(m.frames) /\ m.frames.pld[x.frame] \in Blocks(m.data)
                   /\ x.to \in Nodes
  /\ DOMAIN h = Nodes
  /\ \A n \in Nodes : DOMAIN h[n] \subseteq Blocks(m.data)
  /\ AreBags(h)
  /\ \A p : IsFiniteSet(HoldingIn(h, p))

\* A frame's counter is the number of those it is on its way to.
FramesCounted(m, fl) ==
  \A f \in Blocks(m.frames) : m.frames.ref[f] = Cardinality({x \in fl : x.frame = f})

\* The packets in mine have one owner more, the code that is running.
DataCounted(m, fl, h, mine) ==
  \A p \in Blocks(m.data) :
     m.data.ref[p] = Cardinality(CarryingIn(m.frames.pld, fl, p)) + Cardinality(HoldingIn(h, p))
                       + (IF p \in mine THEN 1 ELSE 0)

\* What every step leaves true of the memory and its owners.
MemoryInv == /\ Stored(memory, flight, held)
             /\ FramesCounted(memory, flight)
             /\ DataCounted(memory, flight, held, {})

\* A block nobody owns, or none, is not the frame of anything in the air.
LEMMA NoFrame ==
  ASSUME NEW m, NEW fl, NEW h, Stored(m, fl, h), FramesCounted(m, fl),
         NEW f, f \in Blocks(m.frames) => m.frames.ref[f] = 0
  PROVE  \A x \in fl : x.frame # f
<1>1. CASE f \in Blocks(m.frames)
  <2> DEFINE S == {x \in fl : x.frame = f}
  <2>1. IsFiniteSet(S)
    BY FS_Subset DEF Stored
  <2>2. Cardinality(S) = 0
    BY <1>1 DEF FramesCounted
  <2>3. S = {}
    BY <2>1, <2>2, FS_EmptySet
  <2> QED
    BY <2>3
<1>2. CASE f \notin Blocks(m.frames)
  BY <1>2 DEF Stored
<1> QED
  BY <1>1, <1>2

\* The owners of a packet can be counted.
LEMMA Finite ==
  ASSUME NEW m, NEW fl, NEW h, Stored(m, fl, h), NEW p
  PROVE  /\ IsFiniteSet(CarryingIn(m.frames.pld, fl, p))
         /\ Cardinality(CarryingIn(m.frames.pld, fl, p)) \in Nat
         /\ IsFiniteSet(HoldingIn(h, p))
         /\ Cardinality(HoldingIn(h, p)) \in Nat
<1>1. CarryingIn(m.frames.pld, fl, p) \subseteq fl /\ IsFiniteSet(fl)
  BY DEF CarryingIn, Stored
<1>2. IsFiniteSet(CarryingIn(m.frames.pld, fl, p))
  BY <1>1, FS_Subset
<1>3. IsFiniteSet(HoldingIn(h, p))
  BY DEF Stored
<1> QED
  BY <1>2, <1>3, FS_CardinalityType

\* A packet has one place in a network layer for every copy there.
LEMMA HoldingOf ==
  ASSUME NEW h, NEW p, NEW y
  PROVE  y \in HoldingIn(h, p) <=>
           \E n \in Nodes : \E i \in 1 .. Copies(p, h[n]) : y = <<n, i>>
BY DEF HoldingIn

\* A free block is the packet of nobody.
LEMMA NoData ==
  ASSUME NEW m, NEW fl, NEW h, Stored(m, fl, h), DataCounted(m, fl, h, {}),
         NEW p, p \in Blocks(m.data) => m.data.ref[p] = 0
  PROVE  CarryingIn(m.frames.pld, fl, p) = {} /\ HoldingIn(h, p) = {}
<1>1. CASE p \in Blocks(m.data)
  <2> DEFINE c == Cardinality(CarryingIn(m.frames.pld, fl, p))
             k == Cardinality(HoldingIn(h, p))
  <2>1. c + k + 0 = 0
    BY <1>1 DEF DataCounted
  <2>2. c \in Nat /\ k \in Nat
    BY Finite
  <2> HIDE DEF c, k
  <2>3. c = 0 /\ k = 0
    BY <2>1, <2>2
  <2> QED
    BY <2>3, Finite, FS_EmptySet DEF c, k
<1>2. CASE p \notin Blocks(m.data)
  <2>1. CarryingIn(m.frames.pld, fl, p) = {}
    BY <1>2 DEF Stored, CarryingIn
  <2>2. \A n \in Nodes : Copies(p, h[n]) = 0
    BY <1>2 DEF Stored, Copies, BagIn, BagToSet
  <2>3. \A y : y \notin HoldingIn(h, p)
    BY <2>2, HoldingOf
  <2> QED
    BY <2>1, <2>3
<1> QED
  BY <1>1, <1>2

\* The network layer of n gets a packet, or gives one away.
Gains(h, g, n, p) == /\ DOMAIN g = Nodes /\ g[n] = BagAdd(h[n], p)
                     /\ \A x \in Nodes : x # n => g[x] = h[x]
Parts(h, g, n, p) == /\ DOMAIN g = Nodes /\ g[n] = BagRemove(h[n], p)
                     /\ \A x \in Nodes : x # n => g[x] = h[x]

\* A packet more at a node is one place more for it, and for no other packet.
LEMMA HoldsMore ==
  ASSUME NEW h, DOMAIN h = Nodes, NEW n \in Nodes, NEW p,
         AreBags(h),
         NEW g, Gains(h, g, n, p)
  PROVE  /\ DOMAIN g = Nodes /\ AreBags(g)
         /\ \A x \in Nodes : DOMAIN g[x] \subseteq DOMAIN h[x] \union {p}
         /\ \A q : q # p => HoldingIn(g, q) = HoldingIn(h, q)
         /\ \E y : y \notin HoldingIn(h, p) /\ HoldingIn(g, p) = HoldingIn(h, p) \union {y}
<1>1. /\ DOMAIN g = Nodes /\ g[n] = BagAdd(h[n], p)
      /\ \A x \in Nodes : x # n => g[x] = h[x]
  BY DEF Gains
<1>2. /\ DOMAIN g[n] = DOMAIN h[n] \union {p}
      /\ \A q \in DOMAIN h[n] : q # p => g[n][q] = h[n][q]
      /\ g[n][p] = Copies(p, h[n]) + 1
  BY <1>1 DEF BagAdd, Copies, BagIn, BagToSet
<1>3. \A x \in Nodes : \A q : Copies(q, h[x]) \in Nat
  BY DEF Copies, BagIn, BagToSet, AreBags
<1>4. \A x \in Nodes : \A q : Copies(q, g[x]) = IF x = n /\ q = p THEN Copies(p, h[n]) + 1
                                                ELSE Copies(q, h[x])
  BY <1>1, <1>2 DEF Copies, BagIn, BagToSet
<1>5. AreBags(g) /\ \A x \in Nodes : DOMAIN g[x] \subseteq DOMAIN h[x] \union {p}
  BY <1>1, <1>2, <1>3 DEF AreBags
<1>6. \A q : q # p => HoldingIn(g, q) = HoldingIn(h, q)
  BY <1>4 DEF HoldingIn
<1> DEFINE y == <<n, Copies(p, h[n]) + 1>>
<1>7. y \notin HoldingIn(h, p)
  BY <1>3, HoldingOf
<1>8. ASSUME NEW w, NEW z,
             \A x \in Nodes : \A q : Copies(q, w[x]) = IF x = n /\ q = p THEN Copies(p, h[n]) + 1
                                                       ELSE Copies(q, h[x])
      PROVE  z \in HoldingIn(w, p) <=> z \in HoldingIn(h, p) \union {y}
  <2>1. ASSUME NEW x \in Nodes, NEW i \in 1 .. Copies(p, w[x]), z = <<x, i>>
        PROVE  z \in HoldingIn(h, p) \union {y}
    <3>1. CASE x = n /\ i = Copies(p, h[n]) + 1
      BY <2>1, <3>1
    <3>2. CASE ~(x = n /\ i = Copies(p, h[n]) + 1)
      <4>1. i \in 1 .. Copies(p, h[x])
        BY <1>3, <1>8, <3>2
      <4> QED
        BY <2>1, <4>1, HoldingOf
    <3> QED
      BY <3>1, <3>2
  <2>2. ASSUME NEW x \in Nodes, NEW i \in 1 .. Copies(p, h[x]), z = <<x, i>>
        PROVE  z \in HoldingIn(w, p)
    <3>1. i \in 1 .. Copies(p, w[x])
      BY <1>3, <1>8
    <3> QED
      BY <2>2, <3>1, HoldingOf
  <2>3. y \in HoldingIn(w, p)
    <3>1. Copies(p, h[n]) + 1 \in 1 .. Copies(p, w[n])
      BY <1>3, <1>8
    <3> QED
      BY <3>1, HoldingOf
  <2> HIDE DEF y
  <2>4. ASSUME z \in HoldingIn(w, p) PROVE z \in HoldingIn(h, p) \union {y}
    <3>1. \E x \in Nodes : \E i \in 1 .. Copies(p, w[x]) : z = <<x, i>>
      BY <2>4, HoldingOf
    <3> QED
      BY <2>1, <3>1
  <2>5. ASSUME z \in HoldingIn(h, p) PROVE z \in HoldingIn(w, p)
    <3>1. \E x \in Nodes : \E i \in 1 .. Copies(p, h[x]) : z = <<x, i>>
      BY <2>5, HoldingOf
    <3> QED
      BY <2>2, <3>1
  <2> QED
    BY <2>3, <2>4, <2>5
<1> HIDE DEF y
<1>9. HoldingIn(g, p) = HoldingIn(h, p) \union {y}
  <2>1. \A z : z \in HoldingIn(g, p) <=> z \in HoldingIn(h, p) \union {y}
    BY <1>4, <1>8
  <2> QED
    BY <2>1
<1> QED
  BY <1>1, <1>5, <1>6, <1>7, <1>9

\* A packet less at a node is one place less for it, and for no other packet.
LEMMA HoldsLess ==
  ASSUME NEW h, DOMAIN h = Nodes, NEW n \in Nodes, NEW p \in DOMAIN h[n],
         AreBags(h),
         NEW g, Parts(h, g, n, p)
  PROVE  /\ DOMAIN g = Nodes /\ AreBags(g)
         /\ \A x \in Nodes : DOMAIN g[x] \subseteq DOMAIN h[x]
         /\ \A q : q # p => HoldingIn(g, q) = HoldingIn(h, q)
         /\ \E y \in HoldingIn(h, p) : HoldingIn(g, p) = HoldingIn(h, p) \ {y}
<1>1. /\ DOMAIN g = Nodes /\ g[n] = BagRemove(h[n], p)
      /\ \A x \in Nodes : x # n => g[x] = h[x]
  BY DEF Parts
<1>2. /\ DOMAIN g[n] = IF h[n][p] = 1 THEN DOMAIN h[n] \ {p} ELSE DOMAIN h[n]
      /\ \A q \in DOMAIN h[n] : q # p => g[n][q] = h[n][q]
      /\ h[n][p] # 1 => g[n][p] = h[n][p] - 1
  BY <1>1 DEF BagRemove
<1>3. \A x \in Nodes : \A q : Copies(q, h[x]) \in Nat
  BY DEF Copies, BagIn, BagToSet, AreBags
<1>4. Copies(p, h[n]) = h[n][p] /\ h[n][p] \in Nat \ {0}
  BY DEF Copies, BagIn, BagToSet, AreBags
<1>5. \A x \in Nodes : \A q : Copies(q, g[x]) = IF x = n /\ q = p THEN Copies(p, h[n]) - 1
                                                ELSE Copies(q, h[x])
  BY <1>1, <1>2, <1>4 DEF Copies, BagIn, BagToSet
<1>6. AreBags(g) /\ \A x \in Nodes : DOMAIN g[x] \subseteq DOMAIN h[x]
  <2>1. \A q \in DOMAIN g[n] : g[n][q] \in Nat \ {0}
    <3> TAKE q \in DOMAIN g[n]
    <3>1. CASE q = p
      BY <1>2, <1>4, <3>1
    <3>2. CASE q # p
      BY <1>2, <3>2 DEF AreBags
    <3> QED
      BY <3>1, <3>2
  <2> QED
    BY <1>1, <1>2, <2>1 DEF AreBags
<1>7. \A q : q # p => HoldingIn(g, q) = HoldingIn(h, q)
  BY <1>5 DEF HoldingIn
<1> DEFINE y == <<n, Copies(p, h[n])>>
<1>8. y \in HoldingIn(h, p)
  <2>1. Copies(p, h[n]) \in 1 .. Copies(p, h[n])
    BY <1>4
  <2> QED
    BY <2>1, HoldingOf
<1>9. ASSUME NEW w, NEW z,
             \A x \in Nodes : \A q : Copies(q, w[x]) = IF x = n /\ q = p THEN Copies(p, h[n]) - 1
                                                       ELSE Copies(q, h[x])
      PROVE  z \in HoldingIn(w, p) <=> z \in HoldingIn(h, p) /\ z # y
  <2>1. ASSUME NEW x \in Nodes, NEW i \in 1 .. Copies(p, w[x]), z = <<x, i>>
        PROVE  z \in HoldingIn(h, p) /\ z # y
    <3>1. i \in 1 .. Copies(p, h[x]) /\ ~(x = n /\ i = Copies(p, h[n]))
      BY <1>3, <1>9
    <3> QED
      BY <2>1, <3>1, HoldingOf
  <2>2. ASSUME NEW x \in Nodes, NEW i \in 1 .. Copies(p, h[x]), z = <<x, i>>, z # y
        PROVE  z \in HoldingIn(w, p)
    <3>1. ~(x = n /\ i = Copies(p, h[n]))
      BY <2>2
    <3>2. i \in 1 .. Copies(p, w[x])
      BY <1>3, <1>9, <3>1
    <3> QED
      BY <2>2, <3>2, HoldingOf
  <2> HIDE DEF y
  <2>3. ASSUME z \in HoldingIn(w, p) PROVE z \in HoldingIn(h, p) /\ z # y
    <3>1. \E x \in Nodes : \E i \in 1 .. Copies(p, w[x]) : z = <<x, i>>
      BY <2>3, HoldingOf
    <3> QED
      BY <2>1, <3>1
  <2>4. ASSUME z \in HoldingIn(h, p), z # y PROVE z \in HoldingIn(w, p)
    <3>1. \E x \in Nodes : \E i \in 1 .. Copies(p, h[x]) : z = <<x, i>>
      BY <2>4, HoldingOf
    <3> QED
      BY <2>2, <2>4, <3>1
  <2> QED
    BY <2>3, <2>4
<1> HIDE DEF y
<1>10. HoldingIn(g, p) = HoldingIn(h, p) \ {y}
  <2>1. \A z : z \in HoldingIn(g, p) <=> z \in HoldingIn(h, p) /\ z # y
    BY <1>5, <1>9
  <2> QED
    BY <2>1
<1> QED
  BY <1>1, <1>6, <1>7, <1>8, <1>10

\* from_network, after its packet p: the frame's owners are those who will
\* hear it, and the code gives up the packet.
LEMMA TransmitKeeps ==
  ASSUME NEW m, Stored(m, flight, held'), FramesCounted(m, flight), NEW p \in Blocks(m.data),
         DataCounted(m, flight, held', {p}),
         NEW n, NEW dst, NEW txTime, Transmit(n, m, p, dst, txTime)
  PROVE  MemoryInv'
<1> DEFINE f == NextBlock(m.frames)
           hear == IF Succeeds(node[n], "TX", txTime) THEN Reached(n) ELSE {}
           k == Cardinality(hear)
           Sent(x) == [frame |-> f, to |-> x, dst |-> dst, txTime |-> txTime,
                       at |-> clock + Delay(n, x)]
           new == {Sent(x) : x \in hear}
<1>1. /\ memory' = Free(IncRef([m EXCEPT !.frames = Alloc(@, p)], f, k), f)
      /\ flight' = flight \union new
  BY DEF Transmit
<1>2. IsFiniteSet(hear) /\ k \in Nat
  <2>1. hear \subseteq Nodes
    BY DEF Reached, Candidates
  <2> QED
    BY <2>1, NodesAssumption, FS_Subset, FS_CardinalityType
<1>3. IsFiniteSet(new) /\ Cardinality(new) = k
  <2> DEFINE b == [x \in hear |-> Sent(x)]
  <2>1. \A x, y \in hear : Sent(x) = Sent(y) => x = y
    <3> TAKE x, y \in hear
    <3>1. Sent(x).to = x /\ Sent(y).to = y
      OBVIOUS
    <3> QED
      BY <3>1
  <2> HIDE DEF Sent, hear
  <2>2. b \in [hear -> new] /\ \A x, y \in hear : b[x] = b[y] => x = y
    BY <2>1
  <2>3. \A z \in new : \E x \in hear : b[x] = z
    OBVIOUS
  <2> HIDE DEF b, new
  <2>4. b \in Injection(hear, new)
    BY <2>2 DEF Injection, IsInjective
  <2>5. b \in Surjection(hear, new)
    BY <2>2, <2>3 DEF Surjection
  <2>6. ExistsBijection(hear, new)
    BY <2>4, <2>5 DEF ExistsBijection, Bijection
  <2> QED
    BY <1>2, <2>6, FS_Bijection DEF k
<1>4. \A x \in new : x.frame = f /\ x.to \in Nodes
  BY DEF Reached, Candidates
<1> HIDE DEF new, hear, k, Sent, f
<1> DEFINE framed == Alloc(m.frames, p)
<1>5. /\ StoreInv(framed) /\ f \in Blocks(framed) /\ Blocks(m.frames) \subseteq Blocks(framed)
      /\ f \in Blocks(m.frames) => m.frames.ref[f] = 0
      /\ framed.ref[f] = 1 /\ framed.pld[f] = p
      /\ \A b \in Blocks(m.frames) \ {f} : SameBlock(framed, m.frames, b)
      /\ \A b \in Blocks(framed) \ (Blocks(m.frames) \union {f}) : framed.ref[b] = 0
  BY AllocInv DEF Stored, f
<1> HIDE DEF framed
<1>6. \A x \in flight : x.frame # f
  BY <1>5, NoFrame
<1> DEFINE counted == Owned(framed, f, k)
           shared == Owned(m.data, p, k)
<1>7. DOMAIN memory' = {"frames", "data"} /\ memory'.frames = Disowned(counted, f)
        /\ memory'.data = Disowned(shared, p)
  <2>1. [m EXCEPT !.frames = Alloc(@, p)].frames = framed
        /\ [m EXCEPT !.frames = Alloc(@, p)].data = m.data
    BY DEF Stored, framed
  <2>2. IncRef([m EXCEPT !.frames = Alloc(@, p)], f, k) = [frames |-> counted, data |-> shared]
    BY <1>5, <2>1 DEF IncRef
  <2>3. counted.pld[f] = p
    <3>1. framed.ref[f] # 0
      BY <1>5
    <3>2. counted.pld = framed.pld
      BY <1>2, <1>5, <3>1, OwnedInv
    <3> QED
      BY <1>5, <3>2
  <2> HIDE DEF counted, shared
  <2> QED
    BY <1>1, <2>2, <2>3 DEF Free
<1>8. m.data.ref[p] \in Nat /\ m.data.ref[p] # 0
  <2>1. m.data.ref[p] = Cardinality(CarryingIn(m.frames.pld, flight, p))
                          + Cardinality(HoldingIn(held', p)) + 1
    BY DEF DataCounted
  <2> QED
    BY <2>1, Finite
<1>9. /\ StoreInv(shared) /\ Blocks(shared) = Blocks(m.data)
      /\ shared.ref = [m.data.ref EXCEPT ![p] = m.data.ref[p] + k]
  BY <1>2, <1>8, OwnedInv DEF Stored
<1>10. /\ StoreInv(counted) /\ Blocks(counted) = Blocks(framed) /\ counted.pld = framed.pld
       /\ counted.ref = [framed.ref EXCEPT ![f] = 1 + k]
  BY <1>2, <1>5, OwnedInv
<1> HIDE DEF counted, shared
<1>11. /\ StoreInv(memory'.data) /\ Blocks(memory'.data) = Blocks(m.data)
       /\ \A q \in Blocks(m.data) : memory'.data.ref[q] =
             IF q = p THEN m.data.ref[p] + k - 1 ELSE m.data.ref[q]
  <2>1. DOMAIN m.data.ref = Blocks(m.data)
    BY DEF Stored, StoreInv
  <2>2. shared.ref[p] = m.data.ref[p] + k /\ shared.ref[p] # 0
    BY <1>2, <1>8, <1>9, <2>1
  <2>3. /\ StoreInv(Disowned(shared, p)) /\ Blocks(Disowned(shared, p)) = Blocks(m.data)
        /\ Disowned(shared, p).ref = [shared.ref EXCEPT ![p] = shared.ref[p] - 1]
    BY <1>9, <2>2, DisownedInv
  <2>4. memory'.data = Disowned(shared, p) /\ DOMAIN shared.ref = Blocks(m.data)
    BY <1>7, <1>9, <2>1
  <2>5. ASSUME NEW q \in Blocks(m.data)
        PROVE  memory'.data.ref[q] = IF q = p THEN m.data.ref[p] + k - 1 ELSE m.data.ref[q]
    <3>1. memory'.data.ref[q] = IF q = p THEN shared.ref[p] - 1 ELSE shared.ref[q]
      BY <2>3, <2>4
    <3>2. q # p => shared.ref[q] = m.data.ref[q]
      BY <1>9, <2>1
    <3> QED
      BY <1>2, <1>8, <2>2, <3>1, <3>2
  <2> QED
    BY <2>3, <2>4, <2>5
<1>12. /\ StoreInv(memory'.frames) /\ Blocks(memory'.frames) = Blocks(framed)
       /\ memory'.frames.pld = framed.pld
       /\ \A g \in Blocks(framed) : memory'.frames.ref[g] = IF g = f THEN k ELSE framed.ref[g]
  <2>1. DOMAIN framed.ref = Blocks(framed)
    BY <1>5 DEF StoreInv
  <2>2. counted.ref[f] = 1 + k /\ counted.ref[f] # 0 /\ 1 + k - 1 = k
    BY <1>2, <1>5, <1>10, <2>1
  <2>3. /\ StoreInv(Disowned(counted, f)) /\ Blocks(Disowned(counted, f)) = Blocks(counted)
        /\ Disowned(counted, f).pld = counted.pld
        /\ Disowned(counted, f).ref = [counted.ref EXCEPT ![f] = counted.ref[f] - 1]
    BY <1>5, <1>10, <2>2, DisownedInv
  <2>4. memory'.frames = Disowned(counted, f) /\ DOMAIN counted.ref = Blocks(framed)
    BY <1>7, <1>10, <2>1
  <2>5. ASSUME NEW g \in Blocks(framed)
        PROVE  memory'.frames.ref[g] = IF g = f THEN k ELSE framed.ref[g]
    <3>1. memory'.frames.ref[g] = IF g = f THEN counted.ref[f] - 1 ELSE counted.ref[g]
      BY <2>3, <2>4
    <3>2. g # f => counted.ref[g] = framed.ref[g]
      BY <1>10, <2>1
    <3> QED
      BY <1>2, <2>2, <3>1, <3>2
  <2> QED
    BY <1>10, <2>3, <2>4, <2>5
<1>13. IsFiniteSet(flight') /\ flight \intersect new = {}
  <2>1. flight \intersect new = {}
    BY <1>4, <1>6
  <2> QED
    BY <1>1, <1>3, <2>1, FS_Union DEF Stored
<1>14. \A x \in flight : memory'.frames.pld[x.frame] = m.frames.pld[x.frame]
  BY <1>5, <1>6, <1>12 DEF Stored, SameBlock
<1>15. \A x \in new : memory'.frames.pld[x.frame] = p
  BY <1>4, <1>5, <1>12
<1>16. Stored(memory', flight', held')
  <2>1. \A x \in flight' : /\ x.frame \in Blocks(memory'.frames)
                           /\ memory'.frames.pld[x.frame] \in Blocks(memory'.data)
                           /\ x.to \in Nodes
    <3> TAKE x \in flight'
    <3>1. CASE x \in flight
      BY <1>5, <1>11, <1>12, <1>14, <3>1 DEF Stored
    <3>2. CASE x \in new
      BY <1>4, <1>5, <1>11, <1>12, <1>15, <3>2
    <3> QED
      BY <1>1, <3>1, <3>2
  <2> QED
    BY <1>7, <1>11, <1>12, <1>13, <2>1 DEF Stored
<1>17. FramesCounted(memory', flight')
  <2> SUFFICES ASSUME NEW g \in Blocks(framed)
               PROVE  memory'.frames.ref[g] = Cardinality({x \in flight' : x.frame = g})
    BY <1>12 DEF FramesCounted
  <2>1. CASE g = f
    <3>1. {x \in flight' : x.frame = g} = new
      BY <1>1, <1>4, <1>6, <2>1
    <3> QED
      BY <1>3, <1>12, <2>1, <3>1
  <2>2. CASE g # f
    <3>1. {x \in flight' : x.frame = g} = {x \in flight : x.frame = g}
      BY <1>1, <1>4, <2>2
    <3>2. CASE g \in Blocks(m.frames)
      BY <1>5, <1>12, <2>2, <3>1, <3>2 DEF FramesCounted, SameBlock
    <3>3. CASE g \notin Blocks(m.frames)
      <4>1. {x \in flight : x.frame = g} = {}
        BY <3>3 DEF Stored
      <4>2. framed.ref[g] = 0
        BY <1>5, <2>2, <3>3
      <4> QED
        BY <1>12, <2>2, <3>1, <4>1, <4>2, FS_EmptySet
    <3> QED
      BY <3>2, <3>3
  <2> QED
    BY <2>1, <2>2
<1>18. DataCounted(memory', flight', held', {})
  <2> SUFFICES ASSUME NEW q \in Blocks(m.data)
               PROVE  memory'.data.ref[q] =
                        Cardinality(CarryingIn(memory'.frames.pld, flight', q))
                          + Cardinality(HoldingIn(held', q)) + 0
    BY <1>11 DEF DataCounted
  <2> DEFINE old == CarryingIn(m.frames.pld, flight, q)
             now == CarryingIn(memory'.frames.pld, flight', q)
             hold == Cardinality(HoldingIn(held', q))
  <2>1. IsFiniteSet(old) /\ Cardinality(old) \in Nat /\ hold \in Nat
    BY Finite
  <2>2. m.data.ref[q] = Cardinality(old) + hold + (IF q = p THEN 1 ELSE 0)
    BY DEF DataCounted
  <2>3. CASE q = p
    <3>1. now = old \union new
      BY <1>1, <1>14, <1>15, <2>3 DEF CarryingIn
    <3>2. old \intersect new = {}
      BY <1>13 DEF CarryingIn
    <3> HIDE DEF old, now, hold
    <3>3. Cardinality(now) = Cardinality(old) + k - 0
      BY <1>3, <2>1, <3>1, <3>2, FS_Union, FS_EmptySet
    <3>4. memory'.data.ref[q] = m.data.ref[q] + k - 1
      BY <1>11, <2>3
    <3> QED
      BY <1>2, <2>1, <2>2, <2>3, <3>3, <3>4 DEF now, hold
  <2>4. CASE q # p
    <3>1. now = old
      BY <1>1, <1>14, <1>15, <2>4 DEF CarryingIn
    <3> QED
      BY <1>11, <2>2, <2>4, <3>1
  <2> QED
    BY <2>3, <2>4
<1> QED
  BY <1>16, <1>17, <1>18 DEF MemoryInv

\* depart: the frame has one owner less in the air.
LEMMA Departs ==
  ASSUME MemoryInv, NEW x \in flight,
         memory'.frames = Disowned(memory.frames, x.frame), flight' = flight \ {x}
  PROVE  /\ StoreInv(memory'.frames) /\ Blocks(memory'.frames) = Blocks(memory.frames)
         /\ memory'.frames.pld = memory.frames.pld
         /\ FramesCounted(memory', flight')
         /\ IsFiniteSet(flight')
         /\ \A q : Cardinality(CarryingIn(memory'.frames.pld, flight', q)) =
              IF q = memory.frames.pld[x.frame]
              THEN Cardinality(CarryingIn(memory.frames.pld, flight, q)) - 1
              ELSE Cardinality(CarryingIn(memory.frames.pld, flight, q))
<1> DEFINE f == x.frame
           p == memory.frames.pld[f]
           s == memory.frames
           t == memory'.frames
           Owners(g) == {y \in flight : y.frame = g}
<1>1. StoreInv(s) /\ f \in Blocks(s) /\ IsFiniteSet(flight) /\ DOMAIN s.ref = Blocks(s)
  BY DEF MemoryInv, Stored, StoreInv
<1>2. \A g : IsFiniteSet(Owners(g)) /\ Cardinality(Owners(g)) \in Nat
  BY <1>1, FS_Subset, FS_CardinalityType
<1>3. s.ref[f] = Cardinality(Owners(f)) /\ x \in Owners(f)
  BY <1>1 DEF MemoryInv, FramesCounted
<1>4. s.ref[f] # 0
  <2> HIDE DEF Owners, s, f
  <2> QED
    BY <1>2, <1>3, FS_EmptySet
<1> HIDE DEF s, t, f, p
<1>5. /\ StoreInv(t) /\ Blocks(t) = Blocks(s) /\ t.pld = s.pld
      /\ t.ref = [s.ref EXCEPT ![f] = s.ref[f] - 1]
  <2>1. t = Disowned(s, f)
    BY DEF s, t, f
  <2> QED
    BY <1>1, <1>4, <2>1, DisownedInv
<1>6. \A g \in Blocks(s) : t.ref[g] = Cardinality({y \in flight' : y.frame = g})
  <2> TAKE g \in Blocks(s)
  <2>1. s.ref[g] = Cardinality(Owners(g))
    BY DEF MemoryInv, FramesCounted, s
  <2>2. CASE g = f
    <3>1. {y \in flight' : y.frame = g} = Owners(g) \ {x}
      OBVIOUS
    <3>2. t.ref[g] = s.ref[f] - 1
      BY <1>1, <1>5, <2>2
    <3> HIDE DEF Owners
    <3> QED
      BY <1>2, <1>3, <2>2, <3>1, <3>2, FS_RemoveElement
  <2>3. CASE g # f
    <3>1. {y \in flight' : y.frame = g} = Owners(g)
      BY <2>3 DEF f
    <3>2. t.ref[g] = s.ref[g]
      BY <1>1, <1>5, <2>3
    <3> QED
      BY <2>1, <3>1, <3>2
  <2> QED
    BY <2>2, <2>3
<1>7. IsFiniteSet(flight')
  BY <1>1, FS_RemoveElement
<1>8. ASSUME NEW q
      PROVE  Cardinality(CarryingIn(t.pld, flight', q)) =
               IF q = p THEN Cardinality(CarryingIn(s.pld, flight, q)) - 1
               ELSE Cardinality(CarryingIn(s.pld, flight, q))
  <2> DEFINE old == CarryingIn(s.pld, flight, q)
             now == CarryingIn(t.pld, flight', q)
  <2>1. IsFiniteSet(old)
    BY <1>1, FS_Subset DEF CarryingIn
  <2>2. CASE q = p
    <3>1. now = old \ {x} /\ x \in old
      BY <1>5, <2>2 DEF CarryingIn, p, f, s
    <3> HIDE DEF old, now
    <3> QED
      BY <2>1, <2>2, <3>1, FS_RemoveElement DEF old, now
  <2>3. CASE q # p
    <3>1. now = old
      BY <1>5, <2>3 DEF CarryingIn, p, f, s
    <3> QED
      BY <2>3, <3>1
  <2> QED
    BY <2>2, <2>3
<1>9. FramesCounted(memory', flight')
  BY <1>5, <1>6 DEF FramesCounted, t, s
<1> QED
  BY <1>5, <1>7, <1>8, <1>9 DEF s, t, f, p

\* A frame heard gives its packet an owner before the frame gives up its own;
\* one not heard only gives it up.
LEMMA ArriveKeeps ==
  ASSUME MemoryInv, NEW x \in flight, Arrive(x)
  PROVE  MemoryInv'
<1> DEFINE f == x.frame
           p == memory.frames.pld[f]
           d == memory.data
<1>1. flight' = flight \ {x}
  BY DEF Arrive
<1>2. /\ Stored(memory, flight, held) /\ DataCounted(memory, flight, held, {})
      /\ StoreInv(d) /\ p \in Blocks(d) /\ x.to \in Nodes /\ DOMAIN held = Nodes
      /\ DOMAIN d.ref = Blocks(d)
  BY DEF MemoryInv, Stored, StoreInv
<1>3. d.ref[p] \in Nat /\ d.ref[p] # 0
  <2> DEFINE c == Cardinality(CarryingIn(memory.frames.pld, flight, p))
             k == Cardinality(HoldingIn(held, p))
  <2>1. d.ref[p] = c + k + 0
    BY <1>2 DEF DataCounted
  <2>2. c \in Nat /\ k \in Nat /\ IsFiniteSet(CarryingIn(memory.frames.pld, flight, p))
    BY <1>2, Finite
  <2>3. x \in CarryingIn(memory.frames.pld, flight, p)
    BY DEF CarryingIn
  <2>4. c # 0
    BY <2>2, <2>3, FS_EmptySet
  <2> HIDE DEF c, k, p, d
  <2> QED
    BY <2>1, <2>2, <2>4
<1>4. \/ memory' = Free(memory, f) /\ held' = held
      \/ /\ memory' = Free(IncPldRef(memory, f), f)
         /\ held' = [held EXCEPT ![x.to] = BagAdd(@, p)]
  BY DEF Arrive
<1>5. DOMAIN memory' = {"frames", "data"} /\ memory'.frames = Disowned(memory.frames, f)
  BY <1>2, <1>4 DEF Free, IncPldRef, Stored
<1>6. /\ StoreInv(memory'.frames) /\ Blocks(memory'.frames) = Blocks(memory.frames)
      /\ memory'.frames.pld = memory.frames.pld
      /\ FramesCounted(memory', flight')
      /\ IsFiniteSet(flight')
      /\ \A q : Cardinality(CarryingIn(memory'.frames.pld, flight', q)) =
           IF q = p
           THEN Cardinality(CarryingIn(memory.frames.pld, flight, q)) - 1
           ELSE Cardinality(CarryingIn(memory.frames.pld, flight, q))
  BY <1>1, <1>5, Departs
<1>7. \A q \in Blocks(d) : d.ref[q] = Cardinality(CarryingIn(memory.frames.pld, flight, q))
                                        + Cardinality(HoldingIn(held, q))
  <2> TAKE q \in Blocks(d)
  <2>1. d.ref[q] = Cardinality(CarryingIn(memory.frames.pld, flight, q))
                     + Cardinality(HoldingIn(held, q)) + 0
    BY <1>2 DEF DataCounted
  <2> QED
    BY <1>2, <2>1, Finite
<1>8. \A q : /\ Cardinality(CarryingIn(memory.frames.pld, flight, q)) \in Nat
             /\ IsFiniteSet(HoldingIn(held, q)) /\ Cardinality(HoldingIn(held, q)) \in Nat
  BY <1>2, Finite
<1> DEFINE before(q) == Cardinality(CarryingIn(memory.frames.pld, flight, q))
           after(q) == Cardinality(CarryingIn(memory'.frames.pld, flight', q))
           here(q) == Cardinality(HoldingIn(held, q))
<1>9. \A q : before(q) \in Nat /\ here(q) \in Nat /\ after(q) = IF q = p THEN before(q) - 1 ELSE before(q)
  BY <1>6, <1>8
<1>10. \A q \in Blocks(d) : d.ref[q] = before(q) + here(q)
  BY <1>7
<1> HIDE DEF p, d, f, before, after, here
<1>11. CASE memory' = Free(memory, f) /\ held' = held
  <2>1. memory'.data = Disowned(d, p)
    BY <1>11 DEF Free, p, d, f
  <2>2. /\ StoreInv(memory'.data) /\ Blocks(memory'.data) = Blocks(d)
        /\ memory'.data.ref = [d.ref EXCEPT ![p] = d.ref[p] - 1]
    BY <1>2, <1>3, <2>1, DisownedInv
  <2>3. DataCounted(memory', flight', held', {})
    <3> SUFFICES ASSUME NEW q \in Blocks(d)
                 PROVE  memory'.data.ref[q] = after(q) + here(q) + 0
      BY <1>11, <2>2 DEF DataCounted, after, here
    <3>1. memory'.data.ref[q] = IF q = p THEN d.ref[p] - 1 ELSE d.ref[q]
      BY <1>2, <2>2
    <3> QED
      BY <1>9, <1>10, <3>1
  <2>4. Stored(memory', flight', held')
    BY <1>1, <1>2, <1>5, <1>6, <1>11, <2>2 DEF Stored, d
  <2> QED
    BY <1>6, <2>3, <2>4 DEF MemoryInv
<1>12. CASE /\ memory' = Free(IncPldRef(memory, f), f)
            /\ held' = [held EXCEPT ![x.to] = BagAdd(@, p)]
  <2> DEFINE owned == Owned(d, p, 1)
  <2>1. memory'.data = Disowned(owned, p)
    BY <1>2, <1>12 DEF Free, IncPldRef, Stored, p, d, f
  <2>2. /\ StoreInv(owned) /\ Blocks(owned) = Blocks(d)
        /\ owned.ref = [d.ref EXCEPT ![p] = d.ref[p] + 1]
    BY <1>2, <1>3, OwnedInv
  <2> HIDE DEF owned
  <2>3. owned.ref[p] = d.ref[p] + 1 /\ owned.ref[p] # 0 /\ d.ref[p] + 1 - 1 = d.ref[p]
    BY <1>2, <1>3, <2>2
  <2>4. /\ StoreInv(memory'.data) /\ Blocks(memory'.data) = Blocks(d)
        /\ memory'.data.ref = [owned.ref EXCEPT ![p] = owned.ref[p] - 1]
    BY <1>2, <2>1, <2>2, <2>3, DisownedInv
  <2>5. \A q \in Blocks(d) : memory'.data.ref[q] = d.ref[q]
    <3> TAKE q \in Blocks(d)
    <3>1. DOMAIN owned.ref = Blocks(d)
      BY <1>2, <2>2
    <3>2. memory'.data.ref[q] = IF q = p THEN owned.ref[p] - 1 ELSE owned.ref[q]
      BY <2>4, <3>1
    <3>3. q # p => owned.ref[q] = d.ref[q]
      BY <1>2, <2>2
    <3>4. CASE q = p
      <4>1. memory'.data.ref[q] = owned.ref[p] - 1 /\ owned.ref[p] = d.ref[p] + 1
        BY <2>3, <3>2, <3>4
      <4> QED
        BY <1>3, <3>4, <4>1
    <3>5. CASE q # p
      BY <3>2, <3>3, <3>5
    <3> QED
      BY <3>4, <3>5
  <2>6. /\ DOMAIN held' = Nodes /\ AreBags(held')
        /\ \A y \in Nodes : DOMAIN held'[y] \subseteq DOMAIN held[y] \union {p}
        /\ \A q : q # p => HoldingIn(held', q) = HoldingIn(held, q)
        /\ \E y : y \notin HoldingIn(held, p) /\ HoldingIn(held', p) = HoldingIn(held, p) \union {y}
    <3>1. AreBags(held)
      BY <1>2 DEF Stored
    <3>2. Gains(held, held', x.to, p)
      BY <1>2, <1>12 DEF Gains
    <3>3. DOMAIN held = Nodes /\ x.to \in Nodes
      BY <1>2
    <3>4. PICK h, g, n, q : h = held /\ g = held' /\ n = x.to /\ q = p
      OBVIOUS
    <3>5. /\ DOMAIN h = Nodes /\ n \in Nodes /\ AreBags(h) /\ Gains(h, g, n, q)
      BY <3>1, <3>2, <3>3, <3>4
    <3>6. /\ DOMAIN g = Nodes /\ AreBags(g)
          /\ \A y \in Nodes : DOMAIN g[y] \subseteq DOMAIN h[y] \union {q}
          /\ \A r : r # q => HoldingIn(g, r) = HoldingIn(h, r)
          /\ \E y : y \notin HoldingIn(h, q) /\ HoldingIn(g, q) = HoldingIn(h, q) \union {y}
      <4> HIDE DEF Gains, AreBags, HoldingIn
      <4>1. DOMAIN g = Nodes /\ AreBags(g)
        BY <3>5, HoldsMore
      <4>2. \A y \in Nodes : DOMAIN g[y] \subseteq DOMAIN h[y] \union {q}
        BY <3>5, HoldsMore
      <4>3. \A r : r # q => HoldingIn(g, r) = HoldingIn(h, r)
        BY <3>5, HoldsMore
      <4>4. \E y : y \notin HoldingIn(h, q) /\ HoldingIn(g, q) = HoldingIn(h, q) \union {y}
        BY <3>5, HoldsMore
      <4> QED
        BY <4>1, <4>2, <4>3, <4>4
    <3> QED
      BY <3>4, <3>6
  <2>7. /\ \A q : IsFiniteSet(HoldingIn(held', q))
        /\ Cardinality(HoldingIn(held', p)) = here(p) + 1
        /\ \A q : q # p => Cardinality(HoldingIn(held', q)) = here(q)
    <3>1. PICK y : y \notin HoldingIn(held, p) /\ HoldingIn(held', p) = HoldingIn(held, p) \union {y}
      BY <2>6
    <3>2. /\ IsFiniteSet(HoldingIn(held', p))
          /\ Cardinality(HoldingIn(held', p)) = here(p) + 1
      BY <1>8, <3>1, FS_AddElement DEF here
    <3> QED
      BY <1>8, <2>6, <3>2 DEF here
  <2>8. DataCounted(memory', flight', held', {})
    <3> SUFFICES ASSUME NEW q \in Blocks(d)
                 PROVE  memory'.data.ref[q] = after(q) + Cardinality(HoldingIn(held', q)) + 0
      BY <2>4 DEF DataCounted, after
    <3>1. CASE q = p
      BY <1>9, <1>10, <2>5, <2>7, <3>1
    <3>2. CASE q # p
      BY <1>9, <1>10, <2>5, <2>7, <3>2
    <3> QED
      BY <3>1, <3>2
  <2>9. Stored(memory', flight', held')
    <3>1. \A y \in Nodes : DOMAIN held'[y] \subseteq Blocks(memory'.data)
      BY <1>2, <2>4, <2>6 DEF Stored, d
    <3> QED
      BY <1>1, <1>2, <1>5, <1>6, <2>4, <2>6, <2>7, <3>1 DEF Stored, d
  <2> QED
    BY <1>6, <2>8, <2>9 DEF MemoryInv
<1> QED
  BY <1>4, <1>11, <1>12 DEF p, f

\* A network layer gives a packet away: the packet has one owner less.
LEMMA GivesUp ==
  ASSUME MemoryInv, NEW n \in Nodes, NEW p \in BagToSet(held[n]),
         Parts(held, held', n, p)
  PROVE  /\ Stored(memory, flight, held') /\ DataCounted(memory, flight, held', {p})
         /\ p \in Blocks(memory.data)
<1>1. /\ Stored(memory, flight, held) /\ DataCounted(memory, flight, held, {})
      /\ DOMAIN held = Nodes /\ p \in DOMAIN held[n] /\ p \in Blocks(memory.data)
      /\ AreBags(held)
  BY DEF MemoryInv, Stored, BagToSet
<1>2. /\ DOMAIN held' = Nodes /\ AreBags(held')
      /\ \A x \in Nodes : DOMAIN held'[x] \subseteq DOMAIN held[x]
      /\ \A q : q # p => HoldingIn(held', q) = HoldingIn(held, q)
      /\ \E y \in HoldingIn(held, p) : HoldingIn(held', p) = HoldingIn(held, p) \ {y}
  BY <1>1, HoldsLess
<1>3. \A q : /\ Cardinality(CarryingIn(memory.frames.pld, flight, q)) \in Nat
             /\ IsFiniteSet(HoldingIn(held, q)) /\ Cardinality(HoldingIn(held, q)) \in Nat
  BY <1>1, Finite
<1>4. /\ IsFiniteSet(HoldingIn(held', p))
      /\ Cardinality(HoldingIn(held', p)) = Cardinality(HoldingIn(held, p)) - 1
  <2>1. PICK y \in HoldingIn(held, p) : HoldingIn(held', p) = HoldingIn(held, p) \ {y}
    BY <1>2
  <2>2. IsFiniteSet(HoldingIn(held, p))
    BY <1>3
  <2>3. /\ IsFiniteSet(HoldingIn(held, p) \ {y})
        /\ Cardinality(HoldingIn(held, p) \ {y}) = Cardinality(HoldingIn(held, p)) - 1
    BY <2>1, <2>2, FS_RemoveElement
  <2> QED
    BY <2>1, <2>3
<1>5. Stored(memory, flight, held')
  <2>1. \A q : IsFiniteSet(HoldingIn(held', q))
    BY <1>2, <1>3, <1>4
  <2>2. \A x \in Nodes : DOMAIN held'[x] \subseteq Blocks(memory.data)
    BY <1>1, <1>2 DEF Stored
  <2> QED
    BY <1>1, <1>2, <2>1, <2>2 DEF Stored
<1>6. DataCounted(memory, flight, held', {p})
  <2> SUFFICES ASSUME NEW q \in Blocks(memory.data)
               PROVE  memory.data.ref[q] =
                        Cardinality(CarryingIn(memory.frames.pld, flight, q))
                          + Cardinality(HoldingIn(held', q)) + (IF q \in {p} THEN 1 ELSE 0)
    BY DEF DataCounted
  <2> DEFINE c == Cardinality(CarryingIn(memory.frames.pld, flight, q))
             k == Cardinality(HoldingIn(held, q))
             l == Cardinality(HoldingIn(held', q))
  <2>1. memory.data.ref[q] = c + k + 0
    BY <1>1 DEF DataCounted
  <2>2. c \in Nat /\ k \in Nat /\ l = IF q = p THEN k - 1 ELSE k
    BY <1>2, <1>3, <1>4
  <2> HIDE DEF c, k, l
  <2> QED
    BY <2>1, <2>2 DEF c, k, l
<1> QED
  BY <1>1, <1>5, <1>6

\* The packet stays at the node: its sink frees it.
LEMMA ConsumeKeeps ==
  ASSUME MemoryInv, NEW n \in Nodes, Consume(n)
  PROVE  MemoryInv'
<1>1. PICK p \in BagToSet(held[n]) :
        /\ memory' = [memory EXCEPT !.data = Disowned(@, p)]
        /\ held' = [held EXCEPT ![n] = BagRemove(@, p)]
  BY DEF Consume
<1> DEFINE d == memory.data
<1>2. flight' = flight
  BY DEF Consume
<1>3. Stored(memory, flight, held') /\ DataCounted(memory, flight, held', {p}) /\ p \in Blocks(d)
  <2>1. Parts(held, held', n, p)
    BY <1>1 DEF Parts, MemoryInv, Stored
  <2> QED
    BY <2>1, GivesUp
<1>4. /\ DOMAIN memory' = {"frames", "data"} /\ memory'.frames = memory.frames
      /\ memory'.data = Disowned(d, p) /\ StoreInv(d) /\ DOMAIN d.ref = Blocks(d)
  BY <1>1, <1>3 DEF Stored, StoreInv
<1>5. \A q \in Blocks(d) : /\ Cardinality(CarryingIn(memory.frames.pld, flight, q)) \in Nat
                           /\ Cardinality(HoldingIn(held', q)) \in Nat
                           /\ d.ref[q] = Cardinality(CarryingIn(memory.frames.pld, flight, q))
                                           + Cardinality(HoldingIn(held', q))
                                           + (IF q = p THEN 1 ELSE 0)
  BY <1>3, Finite DEF DataCounted
<1>6. d.ref[p] # 0
  BY <1>3, <1>5
<1>7. /\ StoreInv(memory'.data) /\ Blocks(memory'.data) = Blocks(d)
      /\ memory'.data.ref = [d.ref EXCEPT ![p] = d.ref[p] - 1]
  BY <1>3, <1>4, <1>6, DisownedInv
<1>8. DataCounted(memory', flight', held', {})
  <2> SUFFICES ASSUME NEW q \in Blocks(d)
               PROVE  memory'.data.ref[q] =
                        Cardinality(CarryingIn(memory.frames.pld, flight, q))
                          + Cardinality(HoldingIn(held', q)) + 0
    BY <1>2, <1>4, <1>7 DEF DataCounted
  <2>1. memory'.data.ref[q] = IF q = p THEN d.ref[p] - 1 ELSE d.ref[q]
    BY <1>4, <1>7
  <2> QED
    BY <1>5, <2>1
<1>9. Stored(memory', flight', held')
  BY <1>2, <1>3, <1>4, <1>7 DEF Stored
<1>10. FramesCounted(memory', flight')
  BY <1>2, <1>4 DEF MemoryInv, FramesCounted
<1> QED
  BY <1>8, <1>9, <1>10 DEF MemoryInv

\* The packet goes on: the frame owns it before the node gives it up.
LEMMA ForwardKeeps ==
  ASSUME MemoryInv, NEW n \in Nodes, Forward(n)
  PROVE  MemoryInv'
<1>1. PICK p \in BagToSet(held[n]) : \E dst, txTime :
        /\ Transmit(n, memory, p, dst, txTime)
        /\ held' = [held EXCEPT ![n] = BagRemove(@, p)]
  BY DEF Forward
<1>2. Stored(memory, flight, held') /\ DataCounted(memory, flight, held', {p})
      /\ p \in Blocks(memory.data)
  <2>1. Parts(held, held', n, p)
    BY <1>1 DEF Parts, MemoryInv, Stored
  <2> QED
    BY <2>1, GivesUp
<1> QED
  BY <1>1, <1>2, TransmitKeeps DEF MemoryInv

\* A new packet is owned by the code that sends it, then by its frame.
LEMMA SendKeeps ==
  ASSUME MemoryInv, NEW n \in Nodes, Send(n)
  PROVE  MemoryInv'
<1> DEFINE m == [memory EXCEPT !.data = Alloc(@, NoPayload)]
           p == NextBlock(memory.data)
           s == memory.data
           t == Alloc(s, NoPayload)
<1>1. PICK dst, txTime : Transmit(n, m, p, dst, txTime)
  BY DEF Send
<1>2. held' = held
  BY DEF Send
<1>3. /\ Stored(memory, flight, held) /\ DataCounted(memory, flight, held, {})
      /\ FramesCounted(memory, flight)
  BY DEF MemoryInv
<1>4. /\ StoreInv(t) /\ p \in Blocks(t) /\ Blocks(s) \subseteq Blocks(t)
      /\ p \in Blocks(s) => s.ref[p] = 0
      /\ t.ref[p] = 1
      /\ \A b \in Blocks(s) \ {p} : SameBlock(t, s, b)
      /\ \A b \in Blocks(t) \ (Blocks(s) \union {p}) : t.ref[b] = 0
  BY <1>3, AllocInv DEF Stored
<1>5. m.frames = memory.frames /\ m.data = t /\ DOMAIN m = {"frames", "data"}
  BY <1>3 DEF Stored
<1> HIDE DEF m, p, t
<1>6. Stored(m, flight, held)
  BY <1>3, <1>4, <1>5 DEF Stored
<1>7. DataCounted(m, flight, held, {p})
  <2> SUFFICES ASSUME NEW q \in Blocks(t)
               PROVE  t.ref[q] = Cardinality(CarryingIn(memory.frames.pld, flight, q))
                                   + Cardinality(HoldingIn(held, q))
                                   + (IF q \in {p} THEN 1 ELSE 0)
    BY <1>5 DEF DataCounted
  <2>1. CASE q \in Blocks(s) /\ q # p
    BY <1>3, <1>4, <2>1 DEF DataCounted, SameBlock
  <2>2. CASE q \notin Blocks(s) \/ q = p
    <3>1. q \in Blocks(s) => s.ref[q] = 0
      BY <1>4, <2>2
    <3>2. CarryingIn(memory.frames.pld, flight, q) = {} /\ HoldingIn(held, q) = {}
      BY <1>3, <3>1, NoData
    <3>3. /\ Cardinality(CarryingIn(memory.frames.pld, flight, q)) = 0
          /\ Cardinality(HoldingIn(held, q)) = 0
      BY <3>2, FS_EmptySet
    <3>4. t.ref[q] = IF q = p THEN 1 ELSE 0
      BY <1>4, <2>2
    <3> QED
      BY <3>3, <3>4
  <2> QED
    BY <2>1, <2>2
<1>8. FramesCounted(m, flight)
  BY <1>3, <1>5 DEF FramesCounted
<1> QED
  BY <1>1, <1>2, <1>4, <1>5, <1>6, <1>7, <1>8, TransmitKeeps

\* Nothing is owned at the start.
LEMMA InitMemory == Init => MemoryInv
<1> SUFFICES ASSUME Init PROVE MemoryInv
  OBVIOUS
<1>1. /\ memory = [frames |-> NewStore, data |-> NewStore] /\ flight = {}
      /\ held = [n \in Nodes |-> EmptyBag]
  BY DEF Init
<1>2. \A p : HoldingIn(held, p) = {}
  <2>1. \A p : \A n \in Nodes : DOMAIN held[n] = {} /\ Copies(p, held[n]) = 0
    BY <1>1 DEF Copies, BagIn, BagToSet, EmptyBag, SetToBag
  <2>2. ASSUME NEW p, NEW y, y \in HoldingIn(held, p) PROVE FALSE
    <3>1. PICK n \in Nodes : \E i \in 1 .. Copies(p, held[n]) : y = <<n, i>>
      BY <2>2, HoldingOf
    <3> QED
      BY <2>1, <3>1
  <2> QED
    BY <2>2
<1>3. DOMAIN held = Nodes /\ \A n \in Nodes : DOMAIN held[n] = {}
  BY <1>1 DEF EmptyBag, SetToBag
<1>4. \A pld, p : CarryingIn(pld, flight, p) = {}
  BY <1>1 DEF CarryingIn
<1>5. IsFiniteSet({}) /\ Cardinality({}) = 0
  BY FS_EmptySet
<1>6. Stored(memory, flight, held)
  BY <1>1, <1>2, <1>3, <1>5, NewStoreInv DEF Stored, AreBags
<1>7. \A b \in Blocks(NewStore) : NewStore.ref[b] = 0
  BY SegmentAssumption DEF NewStore, Blocks
<1>8. FramesCounted(memory, flight)
  <2>1. \A f : {x \in flight : x.frame = f} = {}
    BY <1>1
  <2> QED
    BY <1>1, <1>5, <1>7, <2>1 DEF FramesCounted
<1>9. DataCounted(memory, flight, held, {})
  BY <1>1, <1>2, <1>4, <1>5, <1>7 DEF DataCounted
<1> QED
  BY <1>6, <1>8, <1>9 DEF MemoryInv

\* The counts of owners, and the lists of free blocks, of frames and packets
\* are right whatever is sent on, dropped or not heard: ReferencesCounted
\* (smart_packet_t and CorsaAllocator, as NullMAC and the transceiver use
\* them), for all nodes, places, failures, numbers of sends and segments.
THEOREM OwnersCounted == Spec => []ReferencesCounted
<1>1. MemoryInv /\ [Next]_vars => MemoryInv'
  <2> SUFFICES ASSUME MemoryInv, [Next]_vars PROVE MemoryInv'
    OBVIOUS
  <2>1. CASE UNCHANGED <<memory, flight, held>>
    BY <2>1 DEF MemoryInv
  <2>2. ASSUME NEW n \in Nodes, PowerSwitch(n) PROVE UNCHANGED <<memory, flight, held>>
    BY <2>2 DEF PowerSwitch
  <2>3. Tick \/ UNCHANGED vars => UNCHANGED <<memory, flight, held>>
    BY DEF Tick, vars
  <2> QED
    BY <2>1, <2>2, <2>3, SendKeeps, ForwardKeeps, ConsumeKeeps, ArriveKeeps DEF Next
<1>2. MemoryInv => ReferencesCounted
  <2> SUFFICES ASSUME MemoryInv PROVE ReferencesCounted
    OBVIOUS
  <2>1. /\ Stored(memory, flight, held) /\ FramesCounted(memory, flight)
        /\ DataCounted(memory, flight, held, {})
    BY DEF MemoryInv
  <2>2. /\ DOMAIN memory.frames.ref = Blocks(memory.frames)
        /\ DOMAIN memory.data.ref = Blocks(memory.data)
    BY <2>1 DEF Stored, StoreInv
  <2>3. \A f \in Blocks(memory.frames) : memory.frames.ref[f] = Cardinality(Receivers(f))
    BY <2>1 DEF FramesCounted, Receivers
  <2>4. \A p \in Blocks(memory.data) :
          memory.data.ref[p] = Cardinality(Carrying(p)) + Cardinality(Holding(p))
    <3> TAKE p \in Blocks(memory.data)
    <3>1. Carrying(p) = CarryingIn(memory.frames.pld, flight, p) /\ Holding(p) = HoldingIn(held, p)
      BY DEF Carrying, CarryingIn, Holding, HoldingIn
    <3>2. memory.data.ref[p] = Cardinality(Carrying(p)) + Cardinality(Holding(p)) + 0
      BY <2>1, <3>1 DEF DataCounted
    <3>3. Cardinality(Carrying(p)) \in Nat /\ Cardinality(Holding(p)) \in Nat
      BY <2>1, <3>1, Finite
    <3> QED
      BY <3>2, <3>3
  <2>5. ASSUME NEW s, StoreInv(s) PROVE FreeBlocks(s)
    <3>1. DOMAIN s.free = 1 .. Len(s.free) /\ \A i \in 1 .. Len(s.free) : s.free[i] \in Blocks(s)
      BY <2>5, LenProperties, ElementOfSeq DEF StoreInv
    <3>2. \A i, j \in DOMAIN s.free : i # j => s.free[i] # s.free[j]
      BY <2>5, <3>1 DEF StoreInv
    <3>3. {s.free[i] : i \in DOMAIN s.free} = {b \in DOMAIN s.ref : s.ref[b] = 0}
      <4>1. /\ DOMAIN s.ref = Blocks(s)
            /\ \A b \in Blocks(s) : s.ref[b] = 0 <=> \E i \in DOMAIN s.free : s.free[i] = b
        BY <2>5, <3>1 DEF StoreInv
      <4> QED
        BY <3>1, <4>1
    <3>4. s.size = s.capacity - Len(s.free)
      BY <2>5 DEF StoreInv
    <3> QED
      BY <3>2, <3>3, <3>4 DEF FreeBlocks
  <2> QED
    BY <2>1, <2>2, <2>3, <2>4, <2>5 DEF ReferencesCounted, Stored
<1> QED
  BY InitMemory, <1>1, <1>2, PTL DEF Spec
==============================================================================
