------------------------------- MODULE LeachElection ------------------------------
(* The procedure `leach': every round it recomputes the threshold t, forgets    *)
(* the heads and then, cluster by cluster, draws candidates until one passes    *)
(* the three tests (never a head before, authenticated, lucky).  One action is  *)
(* one turn of one of its four `while {1}' loops.                               *)
EXTENDS ClusterLayout, FiniteSets

CONSTANTS
    Percents,        \* the values of int(rand()*100), for p and for ch<k>r
    MaxRounds,       \* how many times the event queue holds "leach"
    MaxOpen          \* file descriptors the process may hold open

ASSUME ElectionAssumption ==
    /\ Percents \subseteq 0..99
    /\ MaxRounds \in Nat
    /\ MaxOpen \in Nat

VARIABLES
    authentic,       \* nodes whose txt/base.txt line decrypts to rsanode(i)
    clusterhead,     \* nodes with clusterhead(i) = 1
    ch,              \* ch1..ch4
    r,               \* rounds started
    t,               \* the threshold, in hundredths
    loop,            \* which of the four loops is running, 0 when none is
    open,            \* descriptors sleach opened and never closed
    aborted          \* a Tcl error ended the simulation

vars == <<authentic, clusterhead, ch, r, t, loop, open, aborted>>

(* p/(1-p*(r%int(1/p))) printed with "%.2f", in hundredths: the nearest one,    *)
(* either neighbour when the quotient lies half way.                            *)
Distance(a, b) == IF a < b THEN b - a ELSE a - b
Denominator(p, round) == 100 - p * (round % (100 \div p))
Thresholds(p, round) ==
    {q \in 0..100 : 2 * Distance(q * Denominator(p, round), 100 * p)
                       <= Denominator(p, round)}

Init == /\ authentic \in SUBSET Nodes
        /\ clusterhead = {}
        /\ ch = [k \in Clusters |-> 0]
        /\ r = 0
        /\ t = 0
        /\ loop = 0
        /\ open = 0
        /\ aborted = FALSE

(* leach up to its first loop; p = 0.00 makes int(1/p) fail.                    *)
StartRound(p) ==
    /\ ~aborted /\ loop = 0 /\ r < MaxRounds
    /\ IF p = 0
       THEN aborted' = TRUE /\ UNCHANGED <<ch, r, t, loop>>
       ELSE /\ r' = r + 1
            /\ t' \in Thresholds(p, r')
            /\ ch' = [k \in Clusters |-> 0]
            /\ loop' = 1
            /\ UNCHANGED aborted
    /\ UNCHANGED <<authentic, clusterhead, open>>

(* The node whose credentials `sleach' examines in loop k when h is drawn: the  *)
(* first loop draws and then authenticates, the others authenticate the value   *)
(* ch<k> still has (0 after the reset) and then draw.                           *)
Examined(k, h) == IF k = 1 THEN h ELSE ch[k]

(* Mutants of Accepted: the clusterhead test forgotten, the leachval test        *)
(* forgotten.                                                                   *)
AcceptedTwice(k, h, chance) == Examined(k, h) \in authentic /\ chance < t
AcceptedUnchecked(k, h, chance) == h \notin clusterhead /\ chance < t

Accepted(k, h, chance) ==
    /\ h \notin clusterhead
    /\ Examined(k, h) \in authentic
    /\ chance < t

(* `break' leads to the next loop, after the fourth to the end of leach.       *)
NextLoop(k) == IF k = 4 THEN 0 ELSE k + 1

(* sleach returns before it reaches `close $fid'.  Its mutant closes the file.  *)
DescriptorsClosed == open
DescriptorsAfterSleach == open + 1

Draw(k, h, chance) ==
    /\ ~aborted /\ loop = k /\ open < MaxOpen
    /\ open' = DescriptorsAfterSleach
    /\ ch' = [ch EXCEPT ![k] = h]
    /\ IF Accepted(k, h, chance)
       THEN /\ clusterhead' = clusterhead \union {h}
            /\ loop' = NextLoop(k)
       ELSE UNCHANGED <<clusterhead, loop>>
    /\ UNCHANGED <<authentic, r, t, aborted>>

(* `open txt/base.txt' fails: loop 1 has drawn by then, the others have not.    *)
OutOfDescriptors(k, h) ==
    /\ ~aborted /\ loop = k /\ open = MaxOpen
    /\ ch' = IF k = 1 THEN [ch EXCEPT ![1] = h] ELSE ch
    /\ aborted' = TRUE
    /\ UNCHANGED <<authentic, clusterhead, r, t, loop, open>>

Next == \/ \E p \in Percents : StartRound(p)
        \/ \E k \in Clusters : \E h \in Cluster(k) :
              \/ \E chance \in Percents : Draw(k, h, chance)
              \/ OutOfDescriptors(k, h)

Spec == Init /\ [][Next]_vars

(* The event loop runs a due event and Tcl runs a started procedure to its end. *)
FairSpec == Spec /\ WF_vars(Next)
-----------------------------------------------------------------------------------
(* The head cluster k was given in the current round.                           *)
Elected(k) == r > 0 /\ (loop = 0 \/ k < loop)

(* Rounds in which cluster k was given a head.                                  *)
Terms(k) == IF Elected(k) \/ r = 0 THEN r ELSE r - 1

Served(k) == clusterhead \intersect Cluster(k)

(* Types of leach's globals.                                                    *)
TypeOK == /\ authentic \subseteq Nodes
          /\ clusterhead \subseteq Nodes
          /\ ch \in [Clusters -> Nodes]
          /\ r \in 0..MaxRounds
          /\ t \in 0..100
          /\ loop \in 0..4
          /\ open \in 0..MaxOpen
          /\ aborted \in BOOLEAN

(* The rotation is fair over the rounds: cluster k has had exactly one new head *)
(* in each round that got past its loop, so nobody served twice (leach's        *)
(* clusterhead array) and the current head is one of those who served.          *)
OneNewHeadPerRound ==
    \A k \in Clusters : /\ Cardinality(Served(k)) = Terms(k)
                        /\ Elected(k) => ch[k] \in Served(k)

(* `leach' never resets clusterhead, so a cluster can be led for at most as     *)
(* many rounds as it has members: the smallest one, the fourth, limits them.    *)
RoundsLimitedByLastCluster ==
    \A k \in Clusters : Terms(k) <= Cardinality(Cluster(k))

(* Authentication runs before the draw in loops 2 to 4: what an election in     *)
(* these clusters guarantees is that node 0 or some member of the cluster has   *)
(* genuine credentials, not that the head has; only head 1 is itself genuine.   *)
HeadVouchedFor ==
    \A k \in Clusters : Elected(k) =>
        IF k = 1 THEN ch[1] \in authentic
                 ELSE authentic \intersect (Cluster(k) \union {0}) # {}

(* Every draw leaks the descriptor sleach opened, so a round cannot retry more  *)
(* often than there are descriptors: it elects four heads or kills the run.     *)
RoundEnds == (loop # 0) ~> (loop = 0 \/ aborted)

-----------------------------------------------------------------------------------
NoHead == NN
Rota == INSTANCE HeadRota WITH
    served <- clusterhead,
    head <- [k \in Clusters |-> IF Elected(k) THEN ch[k] ELSE NoHead]

(* leach implements the rotation: no node is head twice and the clusters are    *)
(* served in order, whatever the stale authentication lets through.             *)
ImplementsRota == Rota!RotaSpec
===================================================================================
