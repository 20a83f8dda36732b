-------------------------------- MODULE Radio --------------------------------
(***************************************************************************)
(* The lower half of a SENSE node: NullMAC (mac/null_mac.h), the           *)
(* DuplexTransceiver (phy/transceiver.h), the PowerManager and the         *)
(* SimpleBattery (energy/power.h, energy/battery.h), with all nodes on one *)
(* SimpleChannel (phy/simple_channel.h).  Above each node there is a       *)
(* network layer that keeps what it gets, and sends it on or frees it.     *)
(*                                                                         *)
(* Time is counted in ticks, energy in what a power of 1 takes in a tick.  *)
(***************************************************************************)
EXTENDS SmartPackets, FiniteSets, Bags
INSTANCE BagsExt

CONSTANTS Nodes, Broadcast, Never,
          Setups,          \* what to look at, a set of records of:
                           \*   place     the coordinates of a node
                           \*   grid      GridEnabled
                           \*   fails     failureStats: when a node first fails, or Never
                           \*   transient and whether it comes back
                           \*   promiscuity
                           \*   sends     how many frames, at most
                           \*   txTimes   what hdr.tx_time may hold: NullMAC never sets it
          GridSize, Columns, Rows,   \* gridsize, nx and ny
          TXPower, RXPower, IdlePower, InitialEnergy,
          BeginTime, FinishTime, StopTime,
          Cycles           \* how long a transient node stays up or down

ASSUME NodesAssumption == IsFiniteSet(Nodes)

ASSUME PowerAssumption ==
  /\ {TXPower, RXPower, IdlePower} \subseteq Nat /\ InitialEnergy \in Nat
  /\ BeginTime \in Nat /\ FinishTime \in Nat
  /\ Cycles \subseteq Nat
  /\ \A s \in Setups : s.txTimes \subseteq Nat

\* Setup() chooses nx and ny so that the cells cover the terrain.
ASSUME TerrainAssumption ==
  /\ GridSize \in Nat \ {0} /\ Columns \in Nat \ {0} /\ Rows \in Nat \ {0}
  /\ \A s \in Setups : \A n \in Nodes :
        s.place[n] \in (0 .. Columns * GridSize - 1) \X (0 .. Rows * GridSize - 1)

VARIABLES setup,
          clock,
          node,      \* power manager and battery of each node
          memory,    \* the stores of frames and of the network layers' packets
          flight,    \* propagation_delay of the channel
          held,      \* what each network layer holds
          sends

vars == <<setup, clock, node, memory, flight, held, sends>>

(***************************************************************************)
(* Battery and power manager                                               *)
(***************************************************************************)
\* SimpleBattery::power_in.  Mutant: the time of the last call is not kept.
DrawnTwice(r, power, t) ==
  IF t > r.last THEN [r EXCEPT !.energy = @ - t * power, !.last = t] ELSE r
Drawn(r, power, t) ==
  IF t > r.last THEN [r EXCEPT !.energy = @ - (t - r.last) * power, !.last = t] ELSE r

PowerOf(state) == CASE state = "TX"   -> TXPower
                    [] state = "RX"   -> RXPower
                    [] state = "IDLE" -> IdlePower
                    [] state = "OFF"  -> 0

\* switch_state: the time up to t is charged at the power of the old state.
\* It returns the energy left, or 0 from a node that is off or a time at
\* which nothing is measured, when the state is left as it is.
Measured(t) == BeginTime <= t /\ t <= FinishTime
Switched(r, state, t) ==
  IF ~Measured(t) THEN r
  ELSE LET d == Drawn(r, PowerOf(r.state), t)
       IN  IF r.state = "OFF" THEN d ELSE [d EXCEPT !.state = state]
PowerLeft(r, t) == IF Measured(t) /\ r.state # "OFF" THEN r.energy ELSE 0

\* The two calls with which the transceiver begins, for a frame that lasts
\* txTime: now to TX or RX, and at once to IDLE for the end of the frame.
First(r, state) == Switched(r, state, clock)
InTime(r, state) == PowerLeft(First(r, state), clock) > 0
Both(r, state, txTime) == Switched(First(r, state), "IDLE", clock + txTime)
OnAir(r, state, txTime) == IF InTime(r, state) THEN Both(r, state, txTime) ELSE First(r, state)
Succeeds(r, state, txTime) ==
  InTime(r, state) /\ PowerLeft(Both(r, state, txTime), clock + txTime) > 0

(***************************************************************************)
(* The channel                                                             *)
(***************************************************************************)
Square(x) == x * x
DistanceSquared(m, n) == Square(setup.place[m][1] - setup.place[n][1])
                           + Square(setup.place[m][2] - setup.place[n][2])

\* forward: with free space propagation a node receives more than CSThresh up
\* to the distance gridsize was computed from.
InRange(m, n) == DistanceSquared(m, n) < Square(GridSize)
Delay(m, n) == IF DistanceSquared(m, n) = 0 THEN 0 ELSE 1

\* pos_in, and the cells from_phy looks at.  Its row is computed with ny.
Grid(n) == setup.place[n][1] \div GridSize + (setup.place[n][2] \div GridSize) * Columns
\* Mutant: the cells left and above are forgotten.
LookedAhead(n) ==
  LET m == Grid(n) % Columns
      r == Grid(n) \div Rows
  IN  {i + j * Columns : i \in {m, m + 1} \cap 0 .. Columns - 1,
                         j \in {r, r + 1} \cap 0 .. Rows - 1}
Looked(n) ==
  LET m == Grid(n) % Columns
      r == Grid(n) \div Rows
  IN  {i + j * Columns : i \in {m - 1, m, m + 1} \cap 0 .. Columns - 1,
                         j \in {r - 1, r, r + 1} \cap 0 .. Rows - 1}

\* from_phy: the nodes a frame of n is forwarded to
Candidates(n) == IF setup.grid THEN {m \in Nodes \ {n} : Grid(m) \in Looked(n)}
                 ELSE Nodes \ {n}
Reached(n) == {m \in Candidates(n) : InRange(n, m)}

(***************************************************************************)
(* The steps                                                               *)
(***************************************************************************)
Init == /\ setup \in Setups
        /\ clock = 0
        /\ node = [n \in Nodes |->
                     [state |-> "IDLE", on |-> TRUE, energy |-> InitialEnergy, last |-> 0,
                      switchAt |-> IF setup.fails[n] = Never THEN Never
                                   ELSE BeginTime + setup.fails[n]]]
        /\ memory = [frames |-> NewStore, data |-> NewStore]
        /\ flight = {}
        /\ held = [n \in Nodes |-> EmptyBag]
        /\ sends = 0

\* NullMAC::from_network with a packet p of the memory m, down to the channel
Transmit(n, m, p, dst, txTime) ==
  LET f == NextBlock(m.frames)
      framed == [m EXCEPT !.frames = Alloc(@, p)]
      hear == IF Succeeds(node[n], "TX", txTime) THEN Reached(n) ELSE {}
  IN  /\ node' = [node EXCEPT ![n] = OnAir(@, "TX", txTime)]
      /\ memory' = Free(IncRef(framed, f, Cardinality(hear)), f)
      /\ flight' = flight \union
           {[frame |-> f, to |-> h, dst |-> dst, txTime |-> txTime,
             at |-> clock + Delay(n, h)] : h \in hear}

Send(n) ==
  /\ sends < setup.sends
  /\ sends' = sends + 1
  /\ \E dst \in (Nodes \ {n}) \union {Broadcast}, txTime \in setup.txTimes :
       Transmit(n, [memory EXCEPT !.data = Alloc(@, NoPayload)], NextBlock(memory.data), dst, txTime)
  /\ UNCHANGED <<setup, clock, held>>

Forward(n) ==
  /\ sends < setup.sends
  /\ sends' = sends + 1
  /\ \E p \in BagToSet(held[n]), dst \in (Nodes \ {n}) \union {Broadcast}, txTime \in setup.txTimes :
       /\ Transmit(n, memory, p, dst, txTime)
       /\ held' = [held EXCEPT ![n] = BagRemove(@, p)]
  /\ UNCHANGED <<setup, clock>>

Consume(n) ==
  /\ \E p \in BagToSet(held[n]) :
       /\ memory' = [memory EXCEPT !.data = Disowned(@, p)]
       /\ held' = [held EXCEPT ![n] = BagRemove(@, p)]
  /\ UNCHANGED <<setup, clock, node, flight, sends>>

\* depart, from_channel and NullMAC::from_phy, which does not look at the
\* error flag.  With a gain below 1 the receiver may not detect the frame.
Arrive(x) ==
  /\ x.at = clock
  /\ flight' = flight \ {x}
  /\ node' = [node EXCEPT ![x.to] = OnAir(@, "RX", x.txTime)]
  /\ \E detected \in BOOLEAN :
       IF /\ Succeeds(node[x.to], "RX", x.txTime) /\ detected
          /\ x.dst \in {x.to, Broadcast} \/ setup.promiscuity
       THEN /\ held' = [held EXCEPT ![x.to] = BagAdd(@, memory.frames.pld[x.frame])]
            /\ memory' = Free(IncPldRef(memory, x.frame), x.frame)
       ELSE /\ memory' = Free(memory, x.frame)
            /\ UNCHANGED held
  /\ UNCHANGED <<setup, clock, sends>>

\* power_switch.  Going down, a node is charged nothing for the time since the
\* last call; coming up, it is charged IdlePower for the time it was down.
PowerSwitch(n) ==
  /\ node[n].switchAt = clock
  /\ \E c \in Cycles :
       node' = [node EXCEPT ![n] =
         IF @.on
         THEN [Drawn(@, 0, clock) EXCEPT !.state = "OFF", !.on = FALSE,
                 !.switchAt = IF setup.transient THEN clock + c ELSE Never]
         ELSE [Drawn(@, IdlePower, clock) EXCEPT !.state = "IDLE", !.on = TRUE,
                 !.switchAt = clock + c]]
  /\ UNCHANGED <<setup, clock, memory, flight, held, sends>>

Tick ==
  /\ clock < StopTime
  /\ \A x \in flight : x.at > clock
  /\ \A n \in Nodes : node[n].switchAt # clock
  /\ clock' = clock + 1
  /\ UNCHANGED <<setup, node, memory, flight, held, sends>>

Next == \/ \E n \in Nodes : Send(n) \/ Forward(n) \/ Consume(n) \/ PowerSwitch(n)
        \/ \E x \in flight : Arrive(x)
        \/ Tick

Spec == Init /\ [][Next]_vars

(***************************************************************************)
(* Properties                                                              *)
(***************************************************************************)
\* The reference counts are the numbers of owners: a frame is owned by the
\* receivers it is on its way to, a network packet by the receivers of the
\* frames that carry it and by the network layers that hold it.  A block is free,
\* once, exactly when nobody owns it: nothing is lost and nothing is freed
\* under an owner, whatever is sent on, dropped or not heard.
Receivers(f) == {x \in flight : x.frame = f}
Carrying(p) == {x \in flight : memory.frames.pld[x.frame] = p}
Copies(p, bag) == IF BagIn(p, bag) THEN bag[p] ELSE 0
Holding(p) == UNION {{n} \X (1 .. Copies(p, held[n])) : n \in Nodes}

FreeBlocks(s) ==
  /\ \A i, j \in DOMAIN s.free : i # j => s.free[i] # s.free[j]
  /\ {s.free[i] : i \in DOMAIN s.free} = {b \in DOMAIN s.ref : s.ref[b] = 0}
  /\ s.size = s.capacity - Len(s.free)

ReferencesCounted ==
  /\ \A f \in DOMAIN memory.frames.ref :
       memory.frames.ref[f] = Cardinality(Receivers(f))
  /\ \A p \in DOMAIN memory.data.ref :
       memory.data.ref[p] = Cardinality(Carrying(p)) + Cardinality(Holding(p))
  /\ FreeBlocks(memory.frames) /\ FreeBlocks(memory.data)

\* A moment is charged at most once, and at the power of one state, although
\* the transceiver announces the end of a frame when it begins, frames overlap
\* and nodes fail; nothing is charged after FinishTime but the switch of a
\* node that fails or comes back.
MaxPower == IF TXPower >= RXPower /\ TXPower >= IdlePower THEN TXPower
            ELSE IF RXPower >= IdlePower THEN RXPower ELSE IdlePower
ChargedOnce ==
  \A n \in Nodes : /\ node[n].energy <= InitialEnergy
                   /\ InitialEnergy - node[n].energy <= MaxPower * node[n].last
                   /\ node[n].last <= FinishTime \/ node[n].last <= clock

\* On a square terrain the cells the grid looks at hold every node in range.
EveryNeighbourHears ==
  Columns = Rows => \A n \in Nodes : Reached(n) = {m \in Nodes \ {n} : InRange(n, m)}
=============================================================================
