------------------------------- MODULE RobustBlue -------------------------------
(* dos1/ns2-integration/robustfairblue.cc: a stochastic fair BLUE queue that    *)
(* remembers the flows which behaved last.  What SFB wants to drop is queued    *)
(* all the same when it belongs to one of these, if need be in the place of a   *)
(* packet of another flow.  SFB itself is part of an archive (fairblue.cc in    *)
(* ns2-blue.tar.gz) and modelled as far as it calls and is called.              *)
EXTENDS Integers, Sequences, SequencesExt, Functions, TLC

CONSTANTS
    Flows,           \* source addresses, which are all that hashPkt looks at
    Limit,           \* qlim_
    MaxFlows,        \* benign_flow_queue_size_, 0 would turn the list off
    Null

Addresses == 1 .. MaxFlows + 1

VARIABLES
    flowQueue,       \* the linked list of the flows that behaved last
    waiting,         \* q_; a packet is no more than its flow
    lost,            \* the packets dropped in the last step
    behaved          \* history: the flows, in the order in which they last behaved

blueVars == <<flowQueue, waiting, lost, behaved>>

BlueInit == /\ flowQueue = [size |-> 0, head |-> Null, tail |-> Null, flow |-> <<>>, next |-> <<>>]
            /\ waiting = <<>> /\ lost = {} /\ behaved = <<>>

(********************************************************************************)
(* FlowQueue: new takes the first free address.  What a pointer to a deleted    *)
(* item leads to is not defined; here it leads nowhere.                         *)
(********************************************************************************)
Item(q, index) ==
    LET walk[k \in 0 .. index] == IF k = 0 THEN q.head ELSE q.next[walk[k - 1]]
    IN  walk[index]

FlowAt(q, i) == q.flow[Item(q, i - 1)]
Find(q, f) == SelectInSeq([i \in 1 .. q.size |-> FlowAt(q, i)], LAMBDA g : g = f) - 1

Deleted(q, h) == [q EXCEPT !.size = @ - 1, !.flow = Restrict(@, DOMAIN @ \ {h}),
                           !.next = Restrict(@, DOMAIN @ \ {h})]

FlowDeque(q, index) ==
    IF index = 0 THEN Deleted([q EXCEPT !.head = q.next[q.head]], q.head)
    ELSE LET item == Item(q, index)
         IN  Deleted([q EXCEPT !.next[Item(q, index - 1)] = q.next[item]], item)

Linked(q, h, f) ==
    [q EXCEPT !.size = @ + 1, !.flow = (h :> f) @@ @,
              !.next = (h :> Null) @@ (IF q.tail = Null THEN @ ELSE [@ EXCEPT ![q.tail] = h]),
              !.head = IF @ = Null THEN h ELSE @, !.tail = h]

Shortened(q) == IF q.size > MaxFlows THEN FlowDeque(q, 0) ELSE q

(* Mutant: a flow that is in the list already is not taken out.                 *)
FlowEnqueTwice(q, f) ==
    LET item == CHOOSE x \in Addresses \ DOMAIN q.flow : TRUE
    IN  Shortened(Linked(q, item, f))
FlowEnque(q, f) ==
    LET item == CHOOSE x \in Addresses \ DOMAIN q.flow : TRUE
        linked == Linked(q, item, f)
        known == Find(q, f)
    IN  Shortened(IF known >= 0 THEN FlowDeque(linked, known) ELSE linked)

(********************************************************************************)
(* RobustFairBlue                                                               *)
(********************************************************************************)
InBenignFlow(p) == Find(flowQueue, p) >= 0

Intruder(q) == SelectInSeq(q, LAMBDA p : ~InBenignFlow(p))

(* drop and refineQueue: the queue and the packets that are dropped then        *)
Dropped(q, p) ==
    CASE ~InBenignFlow(p) -> [q |-> q, lost |-> {p}]
      [] InBenignFlow(p) /\ Len(q) + 1 < Limit -> [q |-> Append(q, p), lost |-> {}]
      [] InBenignFlow(p) /\ Len(q) + 1 >= Limit /\ Intruder(q) > 0 ->
            [q |-> Append(RemoveAt(q, Intruder(q)), p), lost |-> {q[Intruder(q)]}]
      [] OTHER -> [q |-> q, lost |-> {p}]

(* The flow of a packet that SFB did not want to drop behaves, if one of its    *)
(* bins is marked rarely enough: it is put at the end once for each such bin.   *)
Behaves(f, times) ==
    /\ flowQueue' = (CASE times = 0 -> flowQueue
                       [] times = 1 -> FlowEnque(flowQueue, f)
                       [] OTHER -> FlowEnque(FlowEnque(flowQueue, f), f))
    /\ behaved' = IF times = 0 THEN behaved
                  ELSE Append(SelectSeq(behaved, LAMBDA g : g # f), f)

(* FairBlue::enque penalizes a packet, drops it early or queues it, and drops   *)
(* it when the queue is full then.                                              *)
BlueEnque(p) ==
    \/ LET drop == Dropped(waiting, p)
       IN  /\ waiting' = drop.q
           /\ lost' = drop.lost
           /\ UNCHANGED <<flowQueue, behaved>>
    \/ /\ Len(waiting) + 1 < Limit
       /\ waiting' = Append(waiting, p)
       /\ lost' = {}
       /\ \E times \in 0 .. 2 : Behaves(p, times)

BlueDeque == /\ waiting # <<>>
             /\ waiting' = Tail(waiting)
             /\ lost' = {}
             /\ UNCHANGED <<flowQueue, behaved>>

BlueNext == BlueDeque \/ \E p \in Flows : BlueEnque(p)

BlueSpec == BlueInit /\ [][BlueNext]_blueVars

(* The MaxFlows flows that behaved last keep their place: a packet of theirs is *)
(* lost only when the queue is full of packets of such flows.  And no packet    *)
(* overfills the queue.                                                         *)
Recent == {behaved[i] : i \in {j \in DOMAIN behaved : j + MaxFlows > Len(behaved)}}

BenignKeepPlace ==
    [][/\ Len(waiting') < Limit
       /\ \A p \in lost' : p \in Recent =>
              /\ Len(waiting') + 1 = Limit
              /\ \A i \in DOMAIN waiting' : waiting'[i] \in Recent]_blueVars
==================================================================================
