# Intrusion monitoring in a clustered sensor network: verification project

The repository is a student project on intrusion monitoring in a clustered
wireless sensor network. Its program is a family of NS-2 scripts (Tcl); the most
complete one, `combi/final/ck-ickdd-attack-triple.tcl`, is the reference here and
is called *the script* below. Around it the repository holds earlier and later
variants of the script, a small C program (`LEACH/rsa.c`), a copy of the SENSE
sensor-network simulator with a patch, patches for NS-2, and large amounts of
traces, plots and data.

This directory holds TLA+ models of the program's own logic and of the SENSE
protocols the repository patches, TLC configurations that check them, and TLAPS
proofs about the parts everything else rests on. All paths below are relative to
`src/`; SENSE's to `combi/final/sensor patch/sense/code/`.

## 1. Inventory

### The script

| Component | State | Operations | Hard behaviour |
|---|---|---|---|
| Authentication (lines 22-207) | `txt/base.txt` (a line `e c n phi` per node), `rsanode(i)` | `rsa` once per node at start-up, `decrypt`, `sleach` | unbounded searches, a primality test that is nearly right, one lost file descriptor per call |
| Cluster layout (854-864, 1599-1611) | `first..eighth`, `div` | computed by `leach` and again by `keygen` | two copies of one computation, `div` local in one of them |
| Election `leach` (1531-1660) | `ch1..ch4`, `clusterhead(i)`, `r` | one call per round, at 2.0 and 3.0 | rejection loops without bound, authentication of a value that is about to be replaced |
| Key shares `keygen`, `ran` (822-974) | `txt1/*.txt`, `txt1/test.txt` | one call at 2.5 | files overwritten while they are still the source, stale files of earlier runs |
| Key discovery `keydis`, `readvalue`, `readvalue1` (977-1181) | none | called by both ends of a session | the result depends on the order of the arguments |
| Sessions `test`, `process_data` (1191-1220, 1407-1529, 1661-1752) | `session(i,j)`, `fk`, agents and their connections, NS-2's event queue | one handler per datagram, events at fixed times | datagrams lost, late or reordered; one global flag for all sessions; times in the past |
| Monitoring `monitor` (1221-1406) | reads `session`, `kdd/1.txt`, positions | one event per opened session | its stop races the data it is meant to keep out |
| Topology, movement, labels, traces (211-805) | NS-2 objects | set-up | not protocol logic |
| DoS block (1774-1917) | NS-2 objects | events from 60 s on | never runs: `finish` is at 12.0 |

They interact through globals (`ch1..ch4`, `first..eighth`, `rsanode`, `session`,
`fk`, `udp`), through files (`txt`, `txt1`, `kdd`) and through NS-2's event queue
and network:

    rsa --txt/base.txt--> sleach --> leach --ch1..ch4--> keygen --txt1--> readvalue(1)
                            |          |                                     |
                            |          +--first..eighth, ch1..ch4--> test <--+
                            |                                          |  sstart, data, sstop
                            +----------> monitor <--event-- process_data <--+ (network)
                                            |                     |
                                            +------ sstop --------+--> relay to the receiver

What makes each correct, in one sentence: an honest node authenticates and a
dishonest one does not; heads rotate, one per cluster and round; after `keygen`
every node can read its own share and no other node's share is left where it
would be read; the two ends of a session compute the same key; a receiver reads
what the sender wrote; a session ends; data of an untrusted or suspicious session
is not read.

### SENSE and the patches

A SENSE node is a stack of components that call each other through ports: an
application, a network layer, a queue or none, a MAC, a transceiver with power
manager and battery; the channel connects the nodes, and the engine runs the timers
of all of them from one event queue.

    application (CBR)
        |  from_transport / to_transport
    Flooding, AODVI, AODVII, DSRI         SSAB, SHR, ASHR         any
        |  to_mac / from_mac_ack             |                      |
    FIFOACK3                                 |                      |
        |                                    |                      |
    MAC80211                              BcastMAC               NullMAC
        |                                    |                      |
    DuplexTransceiver  --  PowerManager  --  SimpleBattery
        |
    SimpleChannel                            engine: Timer, MultiTimer, InfiTimer

| Component | State | Operations | Hard behaviour | Correct if |
|---|---|---|---|---|
| `seq_number_t` (`net/flooding.h`, `ssab.h`, `aodvi.h`) | the highest number heard, a field of 32 bits | `check` | numbers late, repeated, far apart; an undefined shift | nothing is new twice, and a refusal has a reason |
| `BcastMAC`, `SSAB` | MAC state, timers, the frame in reception; `m_mac_busy`, `m_active_packet`, buffer | `from_network`, `cancel`, `from_phy`, timers; `from_transport`, `from_mac_data`, `from_mac_ack` | frames that start, collide and end while a back-off runs or a packet is sent | one answer per packet, nothing sent twice or after it was overheard, what waits is settled |
| Engine (`common/cost.h`, `priority_q.h`) | the event queue in three versions, timers, slots | `Run`, `Set`, `Cancel` of three timers | calendars rebuilt in mid-operation, slots released before their handler runs | it is an event queue: the earliest event next, each once |
| Packets (`common/sense.h`, `corsa_alloc.h`) | reference counts, segments, free list | `alloc`, `inc_ref`, `free`, `inc_pld_ref` | a packet shared by receivers, its payload shared by packets | freed by the last owner, by no other |
| 802.11 MAC and `FIFOACK3` | MAC state, seven timers, retry counters, NAV, caches | frames, timers, `from_network` | collisions, hidden stations, lost acknowledgements | answers in order, payload at most once, reservations kept |
| `Flooding`, `AODVI`, `AODVII`, `DSRI` | routes, caches, buffers, requests seen, repairs | packets of five types, failures, timers | floods that meet, lost answers, broken links | delivered once, routes true, nothing waits without a reason |
| `SHR`, `ASHR` | cost table, queues, timers per packet | the same and HELLO, ACK, COLL | several candidates forward, repeat or cancel one packet | delivered once, hop counts not too small, timers die with their packets |
| Battery, power manager, transceiver, channel, `NullMAC` | energy, power state, positions | `switch_state`, `power_switch`, `from_phy`, `from_channel` | a state announced ahead, failing nodes, borders of the grid | no moment charged twice, no neighbour left out |
| `RobustREDQueue`, `RobustFairBlue` (`dos1/ns2-integration`) | bins with scores, a linked list of flows | `enque`, `drop` | a detector nobody reports to, a list changed while it is searched | a refusal has a cause, flows that behave keep their place |

Other parts: the interactive RSA calculator `LEACH/rsa.c` (modelled), script
variants, component compiler, traces and data (section 6).

## 2. Modules

| Module | Models | Kind |
|---|---|---|
| `ClusterLayout` | the four index ranges | operators |
| `HeadRota` | what an election promises | abstract specification |
| `LeachElection` | `leach`, with `sleach` as it matters to it | state machine, implements `HeadRota` |
| `KeyDistribution` | `keygen` | state machine |
| `KeyDiscovery` | `keydis`, `readvalue`, `readvalue1` | operators |
| `RsaAuth`, `RsaTool` | `rsa`, `decrypt`, `sleach`; `LEACH/rsa.c` | state machines, side by side in `MCRsa` |
| `SessionMonitor` | `test`, `process_data`, `monitor` over NS-2's queue and network; uses `ClusterLayout`, `KeyDiscovery` | state machine |
| `SequenceCache`, `PacketNumbers` | `seq_number_t`, and a stream of packets | operators; state machine |
| `SsabNode` | `SSAB` on `BcastMAC`; uses `SequenceCache` | state machine, the channel is its environment |
| `EventQueue` | what the engine promises its components | abstract specification |
| `CostQueues`, `CostEngine` | the three queues; the engine with its timers | operators; state machine, implements `EventQueue` |
| `Mac80211` | the 802.11 MAC and `FIFOACK3` at several stations | state machine |
| `Flooding`, `AodvI`, `AodvII`, `Dsri` | the handlers of one node; `Flooding` uses `SequenceCache` | operators on a node's state |
| `SimRouting` | the four in a network on an abstract MAC | state machine |
| `Shr`, `Ashr` | the handlers of one node | operators on a node's state |
| `SelfHealing`, `Autonomic` | the two in networks on an abstract broadcast MAC | state machines |
| `SmartPackets`, `Radio` | packet memory; NullMAC, transceiver, power, channel | operators; state machine |
| `RobustRed`, `RobustBlue` | the two queue disciplines | state machines |
| `MC...` | inputs for TLC; `MCNetworks`, `MCMemories` and `MCRsa` put several machines of one question side by side, a behaviour being one of one of them | |
| `..._proofs` | theorems | |

### How state and actions correspond to the code

**LeachElection.** A step is one turn of one of the four `while {1}` loops.
`loop` says which loop runs; `ch`, `clusterhead`, `r` are the script's variables;
`t` is the threshold in hundredths, as the script rounds it to two places. The
random draws are existential: `rand()*100` gives a percentage for `p` and the
candidate's chance, and any member of the cluster as the candidate. (`myRand`
takes 0..99 modulo the width, so for clusters of at most 100 nodes every member
can come up.) `authentic` is the set of nodes `sleach` accepts; it is arbitrary,
`RsaAuth` is about what is in it. `Examined` is the point where the source
surprises: loop 1 draws and then authenticates, loops 2 to 4 authenticate the
value their variable still has and then draw. `open` counts the descriptors
`sleach` does not close, and `OutOfDescriptors` is the Tcl error that follows.

**KeyDistribution.** A share is named by the node it was drawn for; a file is a
sequence of lines. `Split` is everything up to the four reads (no event can come
between), `Deal` one turn of a `foreach`, `CopyHead` the copy of the scratch file
that follows each. `div` is `val(nn)/4` or 0: in the script `leach` does not
declare `div` global, so `keygen` reads the 0 of line 1552; `combi/combifinal.tcl`
declares it. All files exist from an earlier run (the repository ships them), the
scratch file may not.

**KeyDiscovery.** `keydis` in integers: `sqrt(y)` is `y` for `y` in {0, 1}, and
the halved terms are whole. A key is the digits `x1 x2` it is the SHA-1 of.

**RsaAuth.** One action per loop of `rsa` (`DrawP`, `DrawQ`, `DrawE`, `TestE`,
`FindD`, `DrawM`). A loop that spins is an action that changes nothing, so that
it shows as a failure of liveness. `Decrypt` is `decrypt`, `Sleach` the comparison.

**RsaTool.** The same for the C program, with ints of `W` bits that wrap. The user keeps to
what the program asks for (an e below phi), and the search for d is followed as long as d is
an int.

**SessionMonitor.** `agenda` is NS-2's event queue restricted to the script's own
events, `net` the datagrams in flight; `node` and `dst` are what `attach-agent` and
`connect` change; `session`, `fk` and `ch` are the script's. Events that are due
run before a packet arrives, in time order and first-come-first-served at equal
times, each as one step (Tcl is single-threaded): `TestDirect`/`TestViaHead`,
`Send`, `Monitor`. A packet that arrives runs `process_data` at the node its agent
is attached to: `OpenSession`, `CloseSession`, `IgnoreData`, `RelayData` (the
receiving node is not the addressee), `AcceptData`. `Tick` advances the clock to the
next time the script names. A Tcl error inside an event ends NS-2: `aborted` names
the reason. Encrypted data is the pair of text and key; decryption with another key
gives `"garbage"`. `share` is what `readvalue` reads from a node's file.

Distances are a Boolean (`MayDrift` lets a node be out of its head's range). The
lines of `kdd/1.txt` are reduced to `Alarms`, the number of attack lines that match
a UDP session of 500 bytes with `land` 0 or 1; in the file as shipped there is
none. (The column the script calls `land`, field 7, is `wrong_fragment` in the KDD
format, `land` being field 6; the model only needs that it is a number.)

**SequenceCache, PacketNumbers.** `Checks` is `check()`; the field `bits` is the set of
distances below `current`. `Window` is `sizeof(unsigned long)`, which the code adds to
a packet number. `bits << by` with `by` of 32 or more is undefined; `ShiftOutcomes` has
the two results a build can give, the distance taken modulo 32 (x86) and 0.
`PacketNumbers` asks about any sequence of numbers, in any order, repeatedly, and
keeps what was really heard as history.

**SsabNode.** `mac` is BcastMAC's state with `defer` and `ack` for the timers that are
set (`send_timer` is set exactly in `MAC_SEND`), `rx` the frame `recv_timer` is set
for, `net` SSAB's `m_mac_busy`, `m_active_packet` and buffer. A handler that calls
into the other layer is one step: `SendTimer` and `AckTimer` call `FromMacAck`, which
may call `FromNetwork`; `RecvTimer` resumes the back-off and calls `FromMacData`,
which may call `Cancel` or `FromNetwork`. Each assertion of the code sets
`assertFailed` when it would fail. The channel is an environment: any frame may start
at any time (`FromPhy`), may be received in error, and may collide with the one in
reception; the three branches on the power of the two are a choice. Only a packet
with this node as its source must have been sent by it first. Time is abstracted to
which timers are set, with two consequences kept: an `ack_timer` is due at once, so
no frame ends before it; and a frame that began before `m_tx_end` is one that began
in `MAC_SEND`. `m_sr_collision` is left out (SSAB ignores the argument of
`from_mac_ack`), and so are the radio's energy states.

**EventQueue, CostEngine, CostQueues.** `when` stands for an event's active flag and
time. `Step`'s actions are what a handler may do between two events (`SetTimer`,
`CancelTimer` and their kind for the other two timers), `Return` ends it, `Activate` and
`Finish` are the turns of `Run`. The list is kept with its links in both directions,
the heap with the position each element knows, the calendar with buckets, `bucket_top`
in half ticks and `m_head` outside the buckets; `ReSized` moves the events as
`ReSize` does, the new width being a choice among `Widths` because `NewWidth` computes
it from a sample of real times.

**Mac80211.** A station is a record with the fields of `MAC80211` and of the queue; each
handler is an operator on it, `Handles` puts on the air what it sends, and timers
count ticks to their end. `Arrive` is `from_phy`: the comparison of powers is a choice
(`Powers`). `DropPacket`, `RecvTimer` and the timers' retries follow the code's order. An
assertion sets `assertFailed`.

**Flooding, AodvI, AodvII, Dsri, SimRouting.** Handlers are operators from a node's state
to the next; `out` and `up` of the state collect what is handed to the MAC and to the
application. Fields the code reads before it assigns them (header fields from a
pool, `in_local_repair`, the last address of a truncated path) hold `Junk` or `Unset`.
`SimRouting` replaces the MAC by what `Mac80211` shows of it: in order, a unicast at
most once, success only after arrival. With `QUEUE_NOBUFFER` the queue refuses at once
what meets a busy MAC.

**Shr, Ashr, SelfHealing, Autonomic.** The same for self-healing routing, with the lists,
tables and options of the code; the MAC is `SsabNode`'s: it answers each packet once,
later, and a cancelled one, too. It answers that a packet failed only if another frame
began to arrive while it was sent (`Overlap`, for which somebody else must be sending or about
to), and as long as its own frame is in the air the node hears nothing (`Listening`). Delays
order `m_send_queue` and nothing else, so in `Shr` they are drawn when they run out
(`Delays`): those of floods are shorter or longer than an election's, which are longer than
the `AckWindow`. In `Ashr` packets lie on a heap, as several queues and
timers refer to them, and the three `InfiTimer`s have their slots, of which the code
copies the indices from packet to packet. `ashr.h` does not compile as it stands (a stray word
in line 574, an undeclared counter in 1705) and is read without the two. `EndCollTimer` reads
the list node it has just erased (lines 928 and 929); the pointer is still there with the
library it was built with, and that is what the model takes it to read. Twice the
transition time is taken to be less than a slot.

**SmartPackets, Radio.** A store is a `CorsaAllocator` with the counts of its blocks. `Send`,
`Forward` and `Consume` are what network layers do with packets, `Arrive` is a frame
that leaves the channel and comes up to the network layer, `PowerSwitch` the failure of a node
or its return. Energy is counted in what a power of 1 takes in a tick. The cells
are those of `pos_in` and `from_phy`, the row divided by `ny`. No component of the
repository moves a node, so `pos_in` is called once for each.

**RobustRed, RobustBlue.** `enque` of the two classes, with `RedTick` for the time that
passes. The score's history (`quiet`, `early`) is what `RefusedForCause` speaks of. The
linked list of flows has addresses and pointers, and a new item takes a free address. What the
base classes do is a choice (FairBlue is in an archive).

## 3. Runs

| Run | Question | Bounds |
|---|---|---|
| `leach_election` | does the election rotate, and end? | 7 nodes (clusters of 2, 2, 2, 1), 2 rounds, 9 descriptors, draws 0, 30 and 80, fairness |
| `key_distribution` | does every node end with its own share? | 11 nodes, every choice of heads, both values of `div`, scratch file old, blank or missing |
| `rsa` | which draws give a working identity, and when does the calculator return the plain text? | p and q below 12; 9-bit ints, p and q in {2, 3, 5, 7, 11} |
| `session_relay` | is what arrives read correctly, and is an untrusted or suspicious session stopped in time? | flows of `ck-ic-attack.tcl` on a network that loses, delays and reorders; flows of `ck-kdd.tcl` and the relayed one with drifting nodes and attack records; 40 nodes, 2 shares |
| `session_prompt` | do sessions close, and does a trusted question arrive? | a direct and a relayed flow, 3 shares, network faster than 0.1 s, fairness |
| `memories` | is what nodes and routers remember of packets right? | real sizes 8 and 32, 14 numbers, 4 of which get through; 3 bins in 2 levels, 3 flows, 4 places in the queue |
| `ssab_node` | do network layer and MAC agree, is nothing sent twice, is what waits settled? | two sources, numbers to 4, window and width 2, buffer of 2, fairness |
| `cost_engine` | are the engine and each of its queues an event queue? | 5 events, calendars of 1 and 8 buckets, 4 ticks |
| `mac_80211` | does the MAC keep its rules under loss and hidden stations? | 3 stations in a chain, 4 packets, 1 frame damaged or lost, retry limits of 2 |
| `networks` | do six routing protocols deliver once, with true routes, and leave nothing behind? | 4 nodes in a chain, a diamond or a kite; 1 or 2 packets; up to 2 losses or collisions; for SHR 3 command lines and 1 HELLO |
| `radio` | is memory freed once, is a battery charged once, does every neighbour hear? | 3 nodes, 3 frames, 5 ticks, a battery for two frames; all places about a corner, a border and a far corner of 6 x 6 cells |
| `request_flood` | are requests flooded without election? They are not | the kite, s looks for d, nothing is lost |

What they show:

* `ImplementsRota`: the rotation is fair and serves the clusters in order. Because
  `clusterhead` is never reset, the smallest cluster limits the number of rounds, and
  the round after the last one ends with a Tcl error, after all descriptors are used
  up. `RoundEnds` holds *only* because of the descriptor leak; closing the file would turn
  the error into a loop without end. That is its mutant.
* `HeadVouchedFor` says how much the authentication of loops 2 to 4 is worth.
* `EveryNodeHasItsShare` holds for both values of `div`, which is not obvious: with
  `div = 0` almost every head is dealt for in a cluster it does not belong to. It
  works because the dealing goes upward, a head never lies below the lines dealt for
  it, and whatever is overwritten too early is written again later. The one failure
  is `AbortsOnlyWhenDivLost`.
* `HonestNodeAccepted` and `HangsOnlyOnBadDraw` list exactly the draws that are bad:
  p = q, the composite 4, an e that divides phi (or is 0 or 4) and p = q = 2.
  `PlainTextRestored` does the same for the widths of the calculator's ints.
* `ReadableUnlessHead`: a receiver that is the head its question was routed through
  is the only one that reads garbage. `AbortHasCause` names the four Tcl errors. They and
  `OnlyKeylessSessionsStayOpen` suppose flows that are `WellAddressed`, as those of the
  scripts (and of every run) are; it is what the proofs needed, and TLC shows each of them
  false without it. `test 0 2 0` sends to whomever `udp(0)` is connected to, so that node 1
  gets what was meant for node 2; of two relayed questions, `test 5 15 5` and `test 1 15 1`,
  the second takes `udpch` from the first and the one flag `fk` serves both; and a direct question
  through the agent of a relayed one's end, such as `test 0 1 0` with `test 0 15 0`, is sent
  to the head.
* `UntrustedDataNeverRead`, `AlarmedDataNeverRead`: monitoring works when the network
  brings everything within the 0.1 s `test` leaves between `sstart` and the data
  (`Reliable`), at the head and at the receiver. `Stoppable` names the sessions this is
  true of. `monitor` sends its stop through `udp(n1)`, so a sender must use its own agent
  (`test 0 2 3` does not) and ask one receiver only: with `test 0 1 0` and `test 0 15 0`
  the second call connects `udp(0)` elsewhere, and a later `sstart` opens again what was
  stopped. At a relaying head with an agent of its own the stop leaves through that agent
  and not through `udpch2`, the session's; a head without one ends the simulation
  instead. Attack records are looked up at the receiver only: at a relaying head
  `monitor` looks up a session nobody opened.
* `OnlyKeylessSessionsStayOpen`: `test` opens a session before it knows whether there
  is a key, and closes it only if there is. `TrustedQuestionArrives` is the good case.
* `NewIsNew`: `check()` never calls a number new twice, even when a late packet and an
  undefined shift meet. The price is `FalseRepetition`: a packet that is 8 behind the
  newest, or comes after a gap of 32, may be refused although it never came. The
  comment in `flooding.h:210` promises the 32 most recent; line 223 compares with a
  number of bytes.
* `RefusedForCause`: the robust RED queue refuses a packet only if its bins have had one
  in the first `drop_related_period_` (when "never dropped", time 0, still counts as a
  drop) and not enough quiet ones since. `reportDrop` being commented out, a queue that
  is idle in that period never detects anything.
* `BenignKeepPlace`: a packet of a flow that behaved lately is lost only if the queue is
  full of such packets.
* `OneAnswerPerPacket` and `MacNeverSurprised`: whatever frames come in, SSAB and the
  MAC agree on who has the packet, no assertion of the MAC fails, and the branch in
  which `from_network` throws a packet away is never taken under SSAB.
* `ActivePacketAlive`: `from_mac_data` dereferences `m_active_packet` while the packet
  may belong to the transceiver or have been freed by `cancel`. It never does, and what
  prevents it is the collision test of `RecvTimer`, without which (the mutant) it would.
* `SendsOnce`: a packet is sent at most once, never after it was overheard while it
  waited. `WaitingIsSettled`: what waits is sent or overheard in the end. Dropping a
  frame without resuming the back-off (the mutant) stops the node.
* `QueueSpec`: whichever queue it is compiled with, the engine implements `EventQueue`.
  `ActiveIsQueued` and `SlotsAccounted` are the representation behind it.
* `AssertsHold` of `Mac80211`: no timer is set twice and no packet reaches a MAC that is not
  idle. `AnsweredOnceInOrder`, `DeliveredOnce` (with its second half: success means
  arrival) and `NothingLeftBehind` are what the network layers above rely on;
  `NavRespected` is the reservation. They justify the MAC of `SimRouting`.
* `DeliveredOnce` of the networks: no application gets a packet twice under any of the six
  protocols. `RoutesTellTruth`: source routes are walks in the topology, hop counts no
  less than the distance, in ASHR too; `NeverTooNear` is the same for SHR, whose
  elections depend on it. `WaitsOnlyForRoute` names the two cases in which a packet waits although
  there is a route: AODVI does not look at its buffer when a request of the destination
  brings one, and AODVII takes a new route for one under repair when `in_local_repair`,
  never assigned, says so. Its second half for ASHR, and
  `QueueServed` for SHR: nothing waits for a MAC that is free.
  `AssertsHold` there: the assertions of AODVII and DSRI, AODVII gives the MAC one packet at
  a time, and no timer of ASHR survives its packet, although timer indices travel with packets and 12345, their value before the
  first, is itself a slot that is taken first once it has been asked for.
* `request_flood` ends in a violation. `shr.h:1399` says that requests are flooded without
  election; line 1540 cancels one that waits when a neighbour is heard forwarding it, as
  for data. In the trace a and b hear the request of s, a forwards it, and b takes back its copy.
* `ReferencesCounted`: what is sent on, dropped or not heard, the counts of frames and
  payloads are the numbers of their owners, and a block is free exactly when nobody owns it.
  `ChargedOnce`: although the end of a frame is announced when it begins, no moment is
  charged twice. `EveryNeighbourHears`: dividing by `ny` where `nx` is meant does no harm on a
  square terrain.

### Bounds and why they are enough

Seven nodes is the smallest number with three clusters of more than one member and
one of a single member, which exhausts in the second round; two rounds without a
rejection take eight draws, so nine descriptors allow complete rounds, rejected
draws and exhaustion. With eleven nodes the clusters have 3, 3, 3 and 2 members, so
that a head can be first, last or between. In `RsaAuth`, p and q below 12 include
every kind of draw: 2, odd primes, the composite 4, equal and distinct pairs. In
`RsaTool`, 14*14 fits a 9-bit int and 20*20 does not, so some moduli are safe and
others overflow. The session runs use the flows the scripts schedule; the heads
include the receiver, nodes with an agent and nodes without; the shares include
a pair with a key, a pair without and a triple with a key. In `SsabNode`,
numbers up to 4 pass a window and a width of 2; a buffer of 2 has an order and a middle.
In `CostEngine`, five events and the thresholds of the calendar (a sample of 1,
that is two different times)
make calendars grow and shrink within a run, an `InfiTimer` doubles once, and `MaxTop`
bounds `bucket_top`, which grows with every search of an empty calendar. In `Mac80211`, three
stations have a hidden pair, the long packet takes RTS and CTS, and a retry limit of 2 is the
smallest with a repetition and a failure; one error is enough for each of them.
In `MCNetworks`, the diamond is the smallest graph in which a flood meets itself, the chain
has a link that can break behind a relay, in the kite two candidates compete that do
not hear the same nodes. `MaxRequests`, `MaxResend`, `MaxLosses` and `maxFaults` bound what the
protocols repeat; `Junk` has a value below and one above every real sequence number.
With `NumT2Slots` and `NumT3Slots` of 1 the slots T1, T2 and T3 of ASHR remain distinct; `Unindexed`
is 3 for 12345, a slot that is made when first asked for. In `Radio`, places on a lattice of three
to a cell reach every pair of touching cells. In `MCMemories`, the three packets share a
bin with each other in one level and not in the other.

`CHECK_DEADLOCK FALSE` is said where the program ends: the scripts, the calculator, the
engine, and networks whose applications have sent everything. `ssab_node` and `memories`
check for deadlock.

### Fairness

Weak fairness of a whole next-state relation (`LeachElection`) says that Tcl runs a
started procedure to its end. In `SessionMonitor` the scheduler runs due events, time passes, and
in the run that checks liveness the network does not lose packets. In `SsabNode` a timer that is set
fires (weak fairness of `RecvTimer`, `SendTimer`, `AckTimer`). The back-off timer is
cancelled by every frame that starts, so it gets strong fairness: set again and again,
it fires. That is an assumption on the channel, a pause longer than the remaining
back-off now and then; it is justified since every node sends a packet once
(`SendsOnce`) and the applications stop before the simulation does, so only finitely
many frames start. The other SENSE machines state no fairness: what must not be left
behind is stated of the states in which nothing more can happen (`NothingLeftBehind`)
or of every state (`QueueServed`, `WaitsOnlyForRoute`).

## 4. Proofs

All proofs are for every value of the constants, under the assumptions
`NNAssumption` (the fourth cluster is not empty; `myRand` divides by its width),
`AbsentAssumption` (a missing file is no file), `ElectionAssumption`, `NumbersAssumption`,
`PacketsAssumption`, `PowerAssumption`, `RedAssumption` (types and signs), `WindowAssumption`
(the window is positive and not wider than the field), `TerrainAssumption` (the cells
cover the terrain, as `Setup` makes them), `NodesAssumption` and `SegmentAssumption` (finitely
many nodes, segments that are not empty), `TimesAssumption` (times of the 802.11 MAC are
natural numbers; a frame takes some time, and so does a slot: `SlotTime` is 20
microseconds), `TrafficAssumption` (a station's traffic is a finite
sequence, those who hear it are stations), `AddressAssumption` (`BROADCAST` is no station's
address), `PacketsDiffer` (two packets that network layers hand down are two, whatever
they contain, which the field `id` stands for), `ScenariosOK` (self-healing routing: links go
both ways, as equal radios make them, and no hop count known at the start is below the
distance; TLC checks it of the scenarios of the runs), and `SessionAssumption` (flows between nodes through
agents the script creates, more than 15 nodes since `udp(15)` is attached to one, every
cluster with a possible head).

* `LeachElection_proofs`. `TypeCorrect`; then `RotaInv`, which adds to
  `OneNewHeadPerRound` that a running loop implies a started round: without it the
  number of terms of a cluster drops below zero when loop 1 accepts. The step
  lemmas count served nodes: a rejected draw changes nothing that counts, an
  accepted one adds a node to one cluster, and since the clusters are disjoint
  (`ClustersPartition`) to no other. `RoundsLimited` is the pigeon-hole argument on
  top. `HeadsAreVouchedFor` needs `VouchInv`: between rounds every `ch` is 0 or a
  member of its cluster. `LeachImplementsRota` maps an accepting draw to `Elect`,
  the start of a round to `NewRound` (or a stutter in the first round) and everything
  else to a stutter.
* `KeyDistribution_proofs`. `DealInv` says, for the cluster being dealt, which of
  its nodes already hold their shares, that the head's share is in the scratch file
  from the moment its line was dealt, and that the lists still to be dealt are what
  `split` returned. `DealDeal` is the core: a line goes to the node it is numbered
  for, or to the scratch file; the blank last line goes one above the cluster, which
  is dealt later. It gives `SharesArrive` and `PrefixHolds`. `ScratchInv` adds that the
  scratch file can be missing in the first cluster only, and only while no line dealt was
  the head's; `OneWayToAbort` follows.
* `SessionMonitor_proofs`. `WhenKeysExist` (a key exists iff the `u` differ and the
  `i` differ by an odd number) and `KeyDependsOnOrder` (two keys, exchanged when the
  shares are), for shares of any integers, hence also for the summed ones. Then
  `UntrustedNeverRead` and `AlarmedNeverRead`, for any number of nodes, any sequence of
  flows and any heads, on a network that is prompt and loses nothing, in whatever order
  it delivers. Their invariant `PromptInv` follows the clock. `AgendaInv` and `NetInv` say which
  events and datagrams there are at each time: `sstart` at 4.1, data not before 4.3, the
  head's `sstart` at 8.2 and its data at 8.3. `SessionInv`: a session with a suspicious end or
  a matching record is open at 4.1 only, and then its stop is coming, as an entry for `monitor`,
  as its stop in the event queue, or as a datagram on the way to where the session is;
  since the clock only passes when all of that has arrived, it is closed when data comes.
  `RelayInv` says the same of what a head sends on: it was announced, and `monitor`
  either has it before it or found nothing, because a stop would have ended the
  simulation. The arguments that fail without a hypothesis are what `Stoppable` excludes.

  The second half is about the conversation of `WellAddressed` flows, on any network.
  `ReadableUnlessHead` is not inductive, since what is read depends on which key the
  receiver picks, and that on `fk`, which one question sets and the arrival of any clears.
  `ConversationInv` says where everything comes from. `WiringInv`: the agents of a direct
  flow stay connected as at the start, and those of a relayed one as `test` left them (`Linked`)
  until the end, the head's as `process_data` left them (`Relays`). Every entry of the event queue is
  one of the script's, of a flow's or of its relay's, or one of `monitor`'s and due
  (`InPlace`); every packet is a flow's question or `sstart`, a head's, or an `sstop`
  (`OnWay`). `TokenInv` is the core: the relayed question is there once, as the call of `test`, the entry that
  sends it or the packet, then its answer is, and `fk` is 1 only from the one to the other. So
  when an addressee finds `fk` set, the packet is the answer (and both compute the key of
  three shares), or a direct question, which ends the simulation; and with `fk` clear it is a
  direct question, or one whose head is the addressee itself. `AlwaysReadable` and
  `AbortsHaveCause` follow (`TextInv`, `Causes`). The steps are `TestTalks`, `SendTalks`, `MonitorTalks`,
  `OpenTalks`, `RelayTalks`, `AcceptTalks`, `TickTalks` and, for all that changes no
  more than a session, `ThinTalks`. For `SessionsClose` the network has to be prompt:
  `ClosingInv` says that a session is of a flow without a key, or its `sstop` is in the event
  queue or on the way to where the session is, and that whatever `sstart` is still to be sent
  or to arrive opens only such sessions, with an `sstop` scheduled later than it. Each
  step may turn one form into the next: `SendCloses` the entry into the packet, `CloseCloses`
  the packet into a session that is closed.
* `Memories_proofs`. `MemoryInv` says that every number heard that is less than a
  window behind the newest, and not ahead of it, has its bit set (so it cannot be called
  new again), and that as long as no gap reached the width every bit that is set and
  lies in the window stands for a number heard. The undefined shift only happens when everything heard falls out
  of the window, which is why `NewOnlyOnce` holds in spite of it. For the robust RED queue,
  `QuietCounts`: a score is no less than its last quiet packets make
  it, up to the passing one. `EarlyCounts`: a bin that was idle in the first period has a score
  of 0 or more and no refusal. A refused packet has a failing score in every level, so
  both give its cause (`RefusesForCause`).
* `SsabNode_proofs`. `ControlInv` strengthens `OneAnswerPerPacket` and
  `MacNeverSurprised` with when the back-off timer is set (`MAC_DEFER` and no frame in
  reception), that a frame in reception during `MAC_SEND` is marked as overlapping, and
  that a deferred payload is a packet. The handlers of the two layers call each other,
  so the lemmas are about the operators (`SubmitSettles`, `RepetitionSettles`,
  `AckSettles`, `ResumeAgrees`): from layers that agree, each leaves layers that agree.
  `SentOnce` needs the memory as well. `ChecksRemember` says that `check()` forgets nothing
  it would know again and knows again what it was just asked, also where the shift is
  undefined. `OnceInv` adds that whatever passed through the node is remembered, except an
  own packet, whose number is at most `number` and which only comes in after it went out;
  that the buffer has no packet twice nor the one at the MAC; and that the deferred packet
  is the active one, neither sent nor overheard so far. So neither of the two ways onto the
  air, the buffer and the deferral, has a packet that was there before (`NothingTwice`).
* `Mac80211_proofs`. `MacInv` says what each station keeps between two events, in four
  parts. `Core`: types, no failed assertion, and a station on the air has a timer that ends when its
  last frame does. `Waits`: the timers for CTS and ACK are set exactly in the states that wait
  for them. `Deferral`: the timer ends after the reservation and after the station's own
  frame, and what it has left is the space and the back-off. `Service`: FIFOACK is busy
  exactly while the MAC has a packet, and has a queue only then. On top, the deferral timer
  is set unless a frame is coming in. Each handler may find the rules true in part only, since
  the frame that calls it has just been taken off: the lemmas (`...Rules`) say from
  which part each restores all. That the queue's next packet meets an idle MAC
  holds because a good frame cannot come in during the station's own. The ledger
  (what was answered, then what is owed, is what was handed down) gives `AnswersInOrder`; that
  whoever owes something is in a state with a timer or a frame gives `AllAnswered`.

  `PassedUpOnce` needs the frames that are in the air too, for a copy of a packet is refused
  by a number the receiver remembers, while the packet's sender may already serve
  another. `DeliveryInv` therefore speaks of every frame under way, be it waiting out SIFS,
  coming in or about to (`UnderWay`). `Sent`: its sender still waits for the answer, with
  as much time as the whole exchange takes. `Due`: if it is an answer, it comes in before the
  time-out of the station it is for, and an ACK stands for a payload that was passed up.
  A sender has one frame under way (`Flight`), and `lastSend` tells when it ends. It follows that
  a sender gives a packet up only when no frame of it is left, hence that no receiver
  remembers a later number than a data frame brings. `Books` relates the memories, the
  sequence numbers and what was passed up and answered. A step is one of three kinds: a station sends
  nothing (`CalmFlight`), sends a first frame (`LaunchFlight`), or passes up and
  answers (`BooksStep`); time keeps all differences (`ElapseFlight`). That a slot takes
  time matters: were `DIFS` 0, a time-out could fall together with the answer it waits for.
* `Radio_proofs`. `Accounted`: what was taken from a battery is covered by the time up to its
  last charge at the highest power; each of `Drawn`, `Switched` and `OnAir` keeps it,
  and charges ahead of the clock end at `FinishTime` (`NeverChargedTwice`). `Found` is the
  arithmetic of the cells: two places in range have quotients that differ by at most
  one (`CellsTouch`), and a cell's number gives back its row and column
  (`OneQuotient`), the row by `ny` only because it equals `nx` (`AllNeighboursHear`).
  `OwnersCounted` is about the memory. `StoreInv` is the representation of an allocator:
  a block is on the free list, once, iff its counter is 0, and `size` is what is left. `AllocInv`,
  `OwnedInv`, `DisownedInv` show that each operation keeps it and what it does to one
  counter. `MemoryInv` adds that everything in the air and in the network layers lies in
  the stores (`Stored`), that a frame's counter is the number of its receivers
  (`FramesCounted`), and a packet's the number of frames and layers that have it, plus one
  while the code between two calls owns it (`DataCounted`, with the set `mine`): a packet that
  is sent on has the new frame as an owner before the old owner gives it up
  (`TransmitKeeps`, `ForwardKeeps`), and a frame that is heard gives its packet an owner before
  the frame goes (`ArriveKeeps`). `HoldsMore` and `HoldsLess` count copies in bags by the
  pairs of a node and a number.

* `SelfHealing_proofs`, for any set of nodes, links that go both ways, traffic, command line,
  losses, overlapping frames, HELLOs, and any order of the timers. `HealingInv` has two layers.
  `Local` is about one node: the layer is busy exactly while the MAC is (`Settled`), table and
  packets carry no hop count below the distance (`Truthful`, `Placed`), what waits for the MAC has
  its number (`Sent`), and a packet of the application without one is in one place (`FreshOnce`).
  Every handler keeps it, whatever it hears of a neighbour (`...Kept`, with `Hears` as the
  hypothesis), and only passes on what it had or heard, answers it, or gives a number to a
  packet of its own (`Goes`). `Network` is about all copies of a packet. `Sound`: they have
  a number their source has used and remembers. `Agreed`: packets with the same source and
  number are copies of one, an ACK that says it comes from the destination does, and copies of a
  packet of the application all have a number or none. `Received`: of what an application
  got, every copy left has a number its node remembers. A step of all nodes keeps the
  three because what is named now has a larger number than everything there
  (`OldUnnamed`) and leaves no copy without one (`NamedOut`); so `AgreedOn`, `ReceivedOn`,
  `ReceivedNow`. The layers meet in `NeighbourHears`: what a neighbour sends is what a node may
  believe. This needs `Agreed`, because route repair takes the destination from a packet
  on `m_ack_list` and the hop count from the one that answers it: the count of an ACK is 0, and
  right only because that ACK is the destination's. `Within` is a recursive function;
  `WithinRule` gives its defining equation, `NearNeighbour` the triangle inequality.

Model-checked only: all liveness properties; `HonestNodeAccepted` and the other
properties of `RsaAuth` and `RsaTool`, number theory over recursive computations; the
engine, whose sifting, calendars and searches are recursive; `DeliveredOnce` of the networks
other than SHR's, whose invariant would have to describe the messages of five more protocols
in flight, and their routes and assertions (`RoutesTellTruth`, `WaitsOnlyForRoute`,
`AssertsHold`); `BenignKeepPlace`. The run `networks` checks the three properties proved of
`SelfHealing` on its networks, and `DeliveredOnce` on those of all other protocols too.

## 5. Possible extensions

1. A refinement of `SimRouting`'s abstract MAC by `Mac80211`, now an argument by the
   properties of the one and the comment of the other.
2. Re-keying: the schedules of `combi-key.tcl` and `ck-triple-key.tcl`, which call
   `keygen` between two tests, as a variant of `SessionMonitor` in which shares change
   while a question is in flight.
3. SSAB over several nodes that hear each other, and `SelfHealing` on `SsabNode`'s MAC.
4. Proofs: `DeliveredOnce` of the flooding protocol, `NeverTooNear` of ASHR.

## 6. Not modelled

* Script variants (`combi/final/*.tcl`, `combi/*.tcl`, `LEACH/*.tcl`, `PE/**.tcl`): earlier
  stages and copies; the flows two of them schedule are inputs of the session runs.
* The DoS block (1774-1917) never runs: `finish` is at 12.0, its events from 60 s on.
  Topology, movement, colours and traces are set-up of NS-2.
* `compc++`, SENSE's component compiler, has no state at run time; the simulators without a
  model (`sim_loc`, the distributed channel) and the traffic sources other than CBR
  draw times and destinations only.
* The NS-2 simulator and the wireless stack under the agents are external: the models
  have the delays, losses and reorderings they allow and nothing of how they come
  about. So are `REDQueue` and FairBlue, whose bins `refineQueue` lets drift from the queue
  (`robustfairblue.cc:337`).
* In ASHR, a packet that a relay could not send goes to `m_T3_queue` without a timer although
  the comment (`ashr.h:1786`) promises a COLL at the end of T2. The model does what the code
  does; no property tells that the packet was given up.
* `keygen` opens a node's file four times for reading (lines 882 to 891) and closes none of them.
  Unlike those of `sleach`, which `LeachElection` counts, the descriptors are not counted: it runs
  once per cluster.
* AODVII splits a route error with more than `MAX_UNREACHABLE` (5) destinations and keeps the packet it
  fills in a static variable (`aodvii.h` 557-589); with four nodes no error has as many.
* The reply of `process_data` (1486-1518) never sends anything, since `node-addr`
  is four more than the number its `switch` tests. The payload's framing is not
  modelled either: a cipher text that contains a colon is cut by the `split` of line
  1418. AES and SHA-1 are ideal. `connection(i,j)` is counted and never read.
* In `bcast_mac.h`, the payload of a frame freed after a collision is passed to
  `to_network_recv_recv_coll` (line 392). `sim_ssab.cc` connects that port (line 270), but
  SSAB's handler (`ssab.h` 295-300) returns without reading it. `IFS`, which
  `sim_ssab.cc` never sets, is added to every resumed back-off (line 543) and has no
  counterpart where time is abstracted.
