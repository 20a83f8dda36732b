--------------------------- MODULE LeachElection_proofs ---------------------------
(* Proofs about the election for every number of nodes, every set of draws and  *)
(* any limit on rounds and descriptors.                                         *)
EXTENDS LeachElection, FiniteSetTheorems, TLAPS

(* val(nn)/4 is a natural number small enough for four ranges.                  *)
LEMMA DivType == NN \in Nat /\ Div \in Nat /\ 3 * Div + 3 < NN
  BY NNAssumption DEF Div

(* leach's four ranges consist of nodes, and first..eighth never overlap.       *)
LEMMA ClustersPartition ==
    /\ \A k \in Clusters : Cluster(k) \subseteq Nodes
    /\ \A j, k \in Clusters : j # k => Cluster(j) \intersect Cluster(k) = {}
    /\ \A k \in Clusters : Cluster(k) # {}
    /\ \A i \in Nodes : \E k \in Clusters : i \in Cluster(k)
<1> DEFINE D == Div
<1>1. NN \in Nat /\ D \in Nat /\ 3 * D + 3 < NN
  BY DivType
<1>2. /\ Cluster(1) = 0..D
      /\ Cluster(2) = (D + 1)..(2 * D + 1)
      /\ Cluster(3) = (2 * D + 2)..(3 * D + 2)
      /\ Cluster(4) = (3 * D + 3)..(NN - 1)
  BY <1>1 DEF Cluster, Span, Start, End
<1>3. Clusters = {1, 2, 3, 4}
  BY DEF Clusters
<1> HIDE DEF D
<1>4. \A k \in Clusters : Cluster(k) \subseteq Nodes
  BY <1>1, <1>2, <1>3 DEF Nodes
<1>5. \A j, k \in Clusters : j # k => Cluster(j) \intersect Cluster(k) = {}
  BY <1>1, <1>2, <1>3
<1>6. \A k \in Clusters : Cluster(k) # {}
  <2>1. 0 \in Cluster(1) /\ D + 1 \in Cluster(2) /\ 2 * D + 2 \in Cluster(3)
        /\ 3 * D + 3 \in Cluster(4)
    BY <1>1, <1>2
  <2> QED BY <2>1, <1>3
<1>7. \A i \in Nodes : \E k \in Clusters : i \in Cluster(k)
  BY <1>1, <1>2, <1>3 DEF Nodes
<1> QED BY <1>4, <1>5, <1>6, <1>7

(* leach's globals keep their types.                                            *)
THEOREM TypeCorrect == Spec => []TypeOK
<1>1. Init => TypeOK
  <2>1. 0 \in Nodes
    BY DivType DEF Nodes
  <2> SUFFICES ASSUME Init PROVE TypeOK
    OBVIOUS
  <2>2. ch \in [Clusters -> Nodes]
    BY <2>1 DEF Init
  <2>3. r \in 0..MaxRounds /\ t \in 0..100 /\ loop \in 0..4 /\ open \in 0..MaxOpen
    BY ElectionAssumption DEF Init
  <2> QED BY <2>2, <2>3 DEF Init, TypeOK
<1>2. TypeOK /\ [Next]_vars => TypeOK'
  <2> SUFFICES ASSUME TypeOK, [Next]_vars PROVE TypeOK'
    OBVIOUS
  <2> USE ElectionAssumption DEF TypeOK
  <2>1. ASSUME NEW p \in Percents, StartRound(p) PROVE TypeOK'
    <3>1. 0 \in Nodes
      BY DivType DEF Nodes
    <3>2. ch' \in [Clusters -> Nodes] /\ clusterhead' \subseteq Nodes /\ authentic' \subseteq Nodes
      BY <2>1, <3>1 DEF StartRound
    <3>3. r' \in 0..MaxRounds /\ loop' \in 0..4 /\ open' \in 0..MaxOpen
      BY <2>1 DEF StartRound
    <3>4. t' \in 0..100
      BY <2>1 DEF StartRound, Thresholds
    <3>5. aborted' \in BOOLEAN
      BY <2>1, Zenon DEF StartRound
    <3> QED BY <3>2, <3>3, <3>4, <3>5
  <2>2. ASSUME NEW k \in Clusters, NEW h \in Cluster(k), NEW chance \in Percents,
               Draw(k, h, chance)
        PROVE TypeOK'
    <3>1. h \in Nodes
      BY ClustersPartition
    <3> QED BY <2>2, <3>1 DEF Draw, Clusters, NextLoop, DescriptorsAfterSleach
  <2>3. ASSUME NEW k \in Clusters, NEW h \in Cluster(k), OutOfDescriptors(k, h)
        PROVE TypeOK'
    <3>1. h \in Nodes
      BY ClustersPartition
    <3> QED BY <2>3, <3>1 DEF OutOfDescriptors
  <2>4. CASE UNCHANGED vars
    BY <2>4 DEF vars
  <2> QED BY <2>1, <2>2, <2>3, <2>4 DEF Next
<1> QED BY <1>1, <1>2, PTL DEF Spec
-----------------------------------------------------------------------------------
(* OneNewHeadPerRound is not inductive alone: the count for a running round     *)
(* needs a round to have started.                                               *)
RotaInv == TypeOK /\ OneNewHeadPerRound /\ (loop # 0 => r > 0)

(* Nodes, and so everything counted here, are finitely many.                    *)
LEMMA ServedFinite ==
    ASSUME TypeOK
    PROVE  \A k \in Clusters : IsFiniteSet(Served(k)) /\ Cardinality(Served(k)) \in Nat
<1>1. IsFiniteSet(Nodes)
  BY FS_Interval, DivType DEF Nodes
<1>2. \A k \in Clusters : IsFiniteSet(Served(k))
  BY <1>1, FS_Subset DEF Served, TypeOK
<1> QED BY <1>2, FS_CardinalityType

(* Starting a round changes no head's count.                                    *)
LEMMA StartRoundKeepsRota ==
    ASSUME RotaInv, NEW p \in Percents, StartRound(p)
    PROVE  OneNewHeadPerRound' /\ (loop' # 0 => r' > 0)
<1>1. CASE p = 0
  <2>1. UNCHANGED <<ch, r, loop, clusterhead>>
    BY <1>1 DEF StartRound
  <2> QED BY <2>1 DEF RotaInv, OneNewHeadPerRound, Elected, Terms, Served
<1>2. CASE p # 0
  <2>1. r \in Nat /\ r' = r + 1 /\ loop = 0 /\ loop' = 1 /\ clusterhead' = clusterhead
    BY <1>2, ElectionAssumption DEF StartRound, RotaInv, TypeOK
  <2>2. \A k \in Clusters : ~Elected(k)' /\ Terms(k) = r /\ Terms(k)' = r
    BY <2>1 DEF Elected, Terms, Clusters
  <2>3. \A k \in Clusters : Served(k)' = Served(k)
    BY <2>1 DEF Served
  <2> QED BY <2>1, <2>2, <2>3 DEF RotaInv, OneNewHeadPerRound
<1> QED BY <1>1, <1>2

(* One turn of loop k: a rejected candidate changes nothing that counts, an     *)
(* accepted one is a new head of cluster k and of no other.                     *)
LEMMA DrawKeepsRota ==
    ASSUME RotaInv, NEW k \in Clusters, NEW h \in Cluster(k), NEW chance \in Percents,
           Draw(k, h, chance)
    PROVE  OneNewHeadPerRound' /\ (loop' # 0 => r' > 0)
<1>1. r \in Nat /\ r > 0 /\ r' = r /\ loop = k /\ k \in 1..4
      /\ ch \in [Clusters -> Nodes] /\ ch' = [ch EXCEPT ![k] = h]
  BY ElectionAssumption DEF Draw, RotaInv, TypeOK, Clusters
<1>2. \A j \in Clusters : j # k => ch'[j] = ch[j]
  BY <1>1
<1>3. CASE Accepted(k, h, chance)
  <2>1. /\ clusterhead' = clusterhead \union {h} /\ h \notin clusterhead
        /\ loop' = IF k = 4 THEN 0 ELSE k + 1
    BY <1>3 DEF Draw, Accepted, NextLoop
  <2>2. \A j \in Clusters : Elected(j)' <=> (Elected(j) \/ j = k)
    BY <1>1, <2>1 DEF Elected, Clusters
  <2>3. ~Elected(k) /\ Terms(k) = r - 1 /\ Terms(k)' = r
    BY <1>1, <2>2 DEF Elected, Terms
  <2>4. \A j \in Clusters : j # k => Terms(j)' = Terms(j) /\ Served(j)' = Served(j)
    <3>1. \A j \in Clusters : j # k => h \notin Cluster(j)
      BY ClustersPartition
    <3> QED BY <1>1, <2>1, <2>2, <3>1 DEF Terms, Served
  <2>5. Served(k)' = Served(k) \union {h} /\ h \notin Served(k)
    BY <2>1 DEF Served
  <2>6. Cardinality(Served(k)') = Cardinality(Served(k)) + 1
    BY <2>5, ServedFinite, FS_AddElement DEF RotaInv
  <2>7. Cardinality(Served(k)') = Terms(k)'
    BY <1>1, <2>3, <2>6 DEF RotaInv, OneNewHeadPerRound
  <2>8. ch'[k] \in Served(k)'
    BY <1>1, <2>5
  <2>9. \A j \in Clusters : j # k => (Cardinality(Served(j)') = Terms(j)'
                                      /\ (Elected(j)' => ch'[j] \in Served(j)'))
    BY <1>2, <2>2, <2>4 DEF RotaInv, OneNewHeadPerRound
  <2>10. OneNewHeadPerRound'
    BY <2>7, <2>8, <2>9 DEF OneNewHeadPerRound
  <2> QED BY <1>1, <2>10
<1>4. CASE ~Accepted(k, h, chance)
  <2>1. clusterhead' = clusterhead /\ loop' = loop
    BY <1>4 DEF Draw
  <2>2. \A j \in Clusters : /\ Elected(j)' <=> Elected(j)
                            /\ Terms(j)' = Terms(j) /\ Served(j)' = Served(j)
    BY <1>1, <2>1 DEF Elected, Terms, Served
  <2>3. ~Elected(k)
    BY <1>1 DEF Elected
  <2> QED BY <1>1, <1>2, <2>1, <2>2, <2>3 DEF RotaInv, OneNewHeadPerRound
<1> QED BY <1>3, <1>4

(* A failed `open' gives no cluster a head.                                     *)
LEMMA OutOfDescriptorsKeepsRota ==
    ASSUME RotaInv, NEW k \in Clusters, NEW h \in Cluster(k), OutOfDescriptors(k, h)
    PROVE  OneNewHeadPerRound' /\ (loop' # 0 => r' > 0)
<1>1. /\ UNCHANGED <<clusterhead, r, loop>> /\ loop = k /\ k \in 1..4 /\ r > 0
      /\ \A j \in Clusters : j # k => ch'[j] = ch[j]
  BY DEF OutOfDescriptors, RotaInv, TypeOK, Clusters
<1>2. ~Elected(k)
  BY <1>1 DEF Elected
<1>3. \A j \in Clusters : /\ Elected(j)' <=> Elected(j)
                          /\ Terms(j)' = Terms(j) /\ Served(j)' = Served(j)
  BY <1>1 DEF Elected, Terms, Served
<1> QED BY <1>1, <1>2, <1>3 DEF RotaInv, OneNewHeadPerRound

(* Every cluster has exactly one new head per round, however the draws fall and *)
(* whoever authenticates.                                                       *)
THEOREM RotationIsFair == Spec => []RotaInv
<1>1. Init => RotaInv
  <2> SUFFICES ASSUME Init PROVE OneNewHeadPerRound /\ loop = 0 /\ TypeOK
    BY DEF RotaInv
  <2>1. \A k \in Clusters : Served(k) = {} /\ ~Elected(k) /\ Terms(k) = 0
    BY DEF Init, Served, Elected, Terms
  <2>2. Cardinality({}) = 0
    BY FS_EmptySet
  <2>3. TypeOK
    <3>1. 0 \in Nodes
      BY DivType DEF Nodes
    <3>2. ch \in [Clusters -> Nodes]
      BY <3>1 DEF Init
    <3>3. r \in 0..MaxRounds /\ t \in 0..100 /\ loop \in 0..4 /\ open \in 0..MaxOpen
      BY ElectionAssumption DEF Init
    <3> QED BY <3>2, <3>3 DEF Init, TypeOK
  <2> QED BY <2>1, <2>2, <2>3 DEF OneNewHeadPerRound, Init
<1>2. RotaInv /\ TypeOK' /\ [Next]_vars => RotaInv'
  <2> SUFFICES ASSUME RotaInv, TypeOK', [Next]_vars PROVE RotaInv'
    OBVIOUS
  <2>1. ASSUME NEW p \in Percents, StartRound(p) PROVE RotaInv'
    BY <2>1, StartRoundKeepsRota DEF RotaInv
  <2>2. ASSUME NEW k \in Clusters, NEW h \in Cluster(k), NEW chance \in Percents,
               Draw(k, h, chance)
        PROVE RotaInv'
    BY <2>2, DrawKeepsRota DEF RotaInv
  <2>3. ASSUME NEW k \in Clusters, NEW h \in Cluster(k), OutOfDescriptors(k, h)
        PROVE RotaInv'
    BY <2>3, OutOfDescriptorsKeepsRota DEF RotaInv
  <2>4. CASE UNCHANGED vars
    BY <2>4 DEF vars, RotaInv, OneNewHeadPerRound, Elected, Terms, Served, TypeOK
  <2> QED BY <2>1, <2>2, <2>3, <2>4 DEF Next
<1> QED BY <1>1, <1>2, TypeCorrect, PTL DEF Spec

(* The invariant in the form the runs check it.                                 *)
THEOREM OneNewHead == Spec => []OneNewHeadPerRound
<1>1. RotaInv => OneNewHeadPerRound
  BY DEF RotaInv
<1> QED BY <1>1, RotationIsFair, PTL

(* No cluster outlives its members: the pigeon-hole argument on clusterhead.    *)
THEOREM RoundsLimited == Spec => []RoundsLimitedByLastCluster
<1>1. ASSUME RotaInv PROVE RoundsLimitedByLastCluster
  <2> SUFFICES ASSUME NEW k \in Clusters PROVE Terms(k) <= Cardinality(Cluster(k))
    BY DEF RoundsLimitedByLastCluster
  <2>1. IsFiniteSet(Cluster(k))
    <3>1. IsFiniteSet(Nodes)
      BY FS_Interval, DivType DEF Nodes
    <3> QED BY <3>1, ClustersPartition, FS_Subset
  <2>2. Served(k) \subseteq Cluster(k)
    BY DEF Served
  <2>3. Cardinality(Served(k)) <= Cardinality(Cluster(k))
    BY <2>1, <2>2, FS_Subset
  <2> QED BY <1>1, <2>3 DEF RotaInv, OneNewHeadPerRound
<1> QED BY <1>1, RotationIsFair, PTL
-----------------------------------------------------------------------------------
(* What sleach examines in loops 2 to 4 is node 0 or a member of the cluster.   *)
VouchInv == HeadVouchedFor /\ \A k \in Clusters : ch[k] \in Cluster(k) \union {0}

LEMMA DrawKeepsVouch ==
    ASSUME TypeOK, VouchInv, NEW k \in Clusters, NEW h \in Cluster(k), NEW chance \in Percents,
           Draw(k, h, chance)
    PROVE  VouchInv'
<1>1. /\ ch \in [Clusters -> Nodes] /\ ch' = [ch EXCEPT ![k] = h] /\ loop = k
      /\ r' = r /\ authentic' = authentic /\ k \in 1..4
  BY DEF Draw, TypeOK, Clusters
<1>2. \A j \in Clusters : ch'[j] \in Cluster(j) \union {0}
  BY <1>1 DEF VouchInv
<1>3. \A j \in Clusters : Elected(j)' => (Elected(j) /\ ch'[j] = ch[j])
                                         \/ (j = k /\ Accepted(k, h, chance))
  <2>1. CASE Accepted(k, h, chance)
    <3>1. loop' = IF k = 4 THEN 0 ELSE k + 1
      BY <2>1 DEF Draw, NextLoop
    <3> QED BY <1>1, <2>1, <3>1 DEF Elected, Clusters
  <2>2. CASE ~Accepted(k, h, chance)
    <3>1. loop' = loop
      BY <2>2 DEF Draw
    <3> QED BY <1>1, <3>1 DEF Elected, Clusters
  <2> QED BY <2>1, <2>2
<1>4. ASSUME NEW j \in Clusters, Elected(j)'
      PROVE  IF j = 1 THEN ch'[1] \in authentic
                      ELSE authentic \intersect (Cluster(j) \union {0}) # {}
  <2>1. CASE Elected(j) /\ ch'[j] = ch[j]
    BY <2>1 DEF VouchInv, HeadVouchedFor
  <2>2. CASE j = k /\ Accepted(k, h, chance)
    <3>1. CASE k = 1
      BY <1>1, <2>2, <3>1 DEF Accepted, Examined
    <3>2. CASE k # 1
      <4>1. ch[k] \in authentic /\ ch[k] \in Cluster(k) \union {0}
        BY <2>2, <3>2 DEF Accepted, Examined, VouchInv
      <4> QED BY <2>2, <3>2, <4>1
    <3> QED BY <3>1, <3>2
  <2> QED BY <1>3, <1>4, <2>1, <2>2
<1>5. HeadVouchedFor'
  BY <1>1, <1>4 DEF HeadVouchedFor
<1> QED BY <1>2, <1>5 DEF VouchInv

(* Who can become a head although authentication looks at another node.         *)
THEOREM HeadsAreVouchedFor == Spec => []HeadVouchedFor
<1>1. Init => VouchInv
  BY DEF Init, VouchInv, HeadVouchedFor, Elected
<1>2. TypeOK /\ VouchInv /\ [Next]_vars => VouchInv'
  <2> SUFFICES ASSUME TypeOK, VouchInv, [Next]_vars PROVE VouchInv'
    OBVIOUS
  <2>1. ASSUME NEW p \in Percents, StartRound(p) PROVE VouchInv'
    <3>1. CASE p = 0
      BY <2>1, <3>1 DEF StartRound, VouchInv, HeadVouchedFor, Elected
    <3>2. CASE p # 0
      <4>1. loop' = 1 /\ ch' = [k \in Clusters |-> 0]
        BY <2>1, <3>2 DEF StartRound
      <4>2. \A k \in Clusters : ~Elected(k)'
        BY <4>1 DEF Elected, Clusters
      <4> QED BY <4>1, <4>2 DEF VouchInv, HeadVouchedFor
    <3> QED BY <3>1, <3>2
  <2>2. ASSUME NEW k \in Clusters, NEW h \in Cluster(k), NEW chance \in Percents,
               Draw(k, h, chance)
        PROVE VouchInv'
    BY <2>2, DrawKeepsVouch
  <2>3. ASSUME NEW k \in Clusters, NEW h \in Cluster(k), OutOfDescriptors(k, h)
        PROVE VouchInv'
    <3>1. /\ UNCHANGED <<authentic, loop, r>> /\ loop = k /\ k \in 1..4
          /\ ch' = IF k = 1 THEN [ch EXCEPT ![1] = h] ELSE ch
          /\ ch \in [Clusters -> Nodes]
      BY <2>3 DEF OutOfDescriptors, TypeOK, Clusters
    <3>2. \A j \in Clusters : ch'[j] \in Cluster(j) \union {0}
      BY <3>1 DEF VouchInv
    <3>3. \A j \in Clusters : Elected(j)' => Elected(j) /\ ch'[j] = ch[j]
      BY <3>1 DEF Elected, Clusters
    <3>4. 1 \in Clusters
      BY DEF Clusters
    <3> QED BY <3>1, <3>2, <3>3, <3>4 DEF VouchInv, HeadVouchedFor
  <2>4. CASE UNCHANGED vars
    BY <2>4 DEF vars, VouchInv, HeadVouchedFor, Elected
  <2> QED BY <2>1, <2>2, <2>3, <2>4 DEF Next
<1>3. VouchInv => HeadVouchedFor
  BY DEF VouchInv
<1> QED BY <1>1, <1>2, <1>3, TypeCorrect, PTL DEF Spec
-----------------------------------------------------------------------------------
(* The heads of the abstract rotation, as ImplementsRota sees them.             *)
RotaHead == [k \in Clusters |-> IF Elected(k) THEN ch[k] ELSE NoHead]

(* A turn of a loop is an abstract election or, when rejected, a stutter.       *)
LEMMA DrawRefines ==
    ASSUME RotaInv, NEW k \in Clusters, NEW h \in Cluster(k), NEW chance \in Percents,
           Draw(k, h, chance)
    PROVE  \/ Rota!Elect(k, h)
           \/ UNCHANGED <<clusterhead, RotaHead>>
<1>1. /\ ch \in [Clusters -> Nodes] /\ ch' = [ch EXCEPT ![k] = h] /\ loop = k
      /\ r \in Nat /\ r > 0 /\ r' = r /\ k \in 1..4
  BY ElectionAssumption DEF Draw, RotaInv, TypeOK, Clusters
<1>2. NoHead \notin Nodes
  BY DivType DEF NoHead, Nodes
<1>3. \A j \in Clusters : Elected(j) <=> j < k
  BY <1>1 DEF Elected, Clusters
<1>4. CASE Accepted(k, h, chance)
  <2>1. /\ clusterhead' = clusterhead \union {h} /\ h \notin clusterhead
        /\ loop' = IF k = 4 THEN 0 ELSE k + 1
    BY <1>4 DEF Draw, Accepted, NextLoop
  <2>2. \A j \in Clusters : Elected(j)' <=> (j < k \/ j = k)
    BY <1>1, <2>1 DEF Elected, Clusters
  <2>3. RotaHead' = [RotaHead EXCEPT ![k] = h]
    BY <1>1, <1>3, <2>2 DEF RotaHead, Clusters
  <2>4. RotaHead[k] = NoHead
    BY <1>1, <1>3 DEF RotaHead
  <2>5. \A j \in 1..(k - 1) : RotaHead[j] # NoHead
    BY <1>1, <1>2, <1>3 DEF RotaHead, Clusters
  <2> QED BY <2>1, <2>3, <2>4, <2>5 DEF Rota!Elect, RotaHead
<1>5. CASE ~Accepted(k, h, chance)
  <2>1. clusterhead' = clusterhead /\ loop' = loop
    BY <1>5 DEF Draw
  <2>2. \A j \in Clusters : Elected(j)' <=> Elected(j)
    BY <1>1, <2>1 DEF Elected
  <2>3. \A j \in Clusters : Elected(j) => ch'[j] = ch[j]
    BY <1>1, <1>3
  <2> QED BY <2>1, <2>2, <2>3 DEF RotaHead
<1> QED BY <1>4, <1>5

(* leach implements HeadRota.                                                   *)
THEOREM LeachImplementsRota == Spec => ImplementsRota
<1>1. Init => Rota!RotaInit
  BY DEF Init, Rota!RotaInit, Elected, Rota!Clusters, Clusters
<1>2. RotaInv /\ [Next]_vars => [Rota!RotaNext]_(Rota!rotaVars)
  <2> SUFFICES ASSUME RotaInv, [Next]_vars
               PROVE  Rota!RotaNext \/ UNCHANGED <<clusterhead, RotaHead>>
    BY DEF Rota!rotaVars, RotaHead
  <2>0. Rota!Clusters = Clusters /\ \A k \in Clusters : Rota!Cluster(k) = Cluster(k)
    BY DEF Rota!Clusters, Clusters, Rota!Cluster, Cluster, Rota!Span, Span, Rota!Start, Start,
           Rota!End, End, Rota!Div, Div
  <2>1. ASSUME NEW p \in Percents, StartRound(p)
        PROVE  Rota!NewRound \/ UNCHANGED <<clusterhead, RotaHead>>
    <3>1. CASE p = 0
      BY <2>1, <3>1 DEF StartRound, RotaHead, Elected
    <3>2. CASE p # 0
      <4>1. /\ r \in Nat /\ loop = 0 /\ r' = r + 1 /\ loop' = 1 /\ clusterhead' = clusterhead
            /\ ch \in [Clusters -> Nodes]
        BY <2>1, <3>2, ElectionAssumption DEF StartRound, RotaInv, TypeOK
      <4>2. RotaHead' = [k \in Clusters |-> NoHead]
        BY <4>1 DEF RotaHead, Elected, Clusters
      <4>3. CASE r = 0
        BY <4>1, <4>2, <4>3 DEF RotaHead, Elected
      <4>4. CASE r > 0
        <5>1. RotaHead[4] = ch[4] /\ ch[4] \in Nodes
          BY <4>1, <4>4 DEF RotaHead, Elected, Clusters
        <5>2. RotaHead[4] # NoHead
          BY <5>1, DivType DEF NoHead, Nodes
        <5> QED BY <2>0, <4>1, <4>2, <5>2 DEF Rota!NewRound, RotaHead
      <4> QED BY <4>1, <4>3, <4>4
    <3> QED BY <3>1, <3>2
  <2>2. ASSUME NEW k \in Clusters, NEW h \in Cluster(k), NEW chance \in Percents,
               Draw(k, h, chance)
        PROVE  Rota!Elect(k, h) \/ UNCHANGED <<clusterhead, RotaHead>>
    BY <2>2, DrawRefines
  <2>3. ASSUME NEW k \in Clusters, NEW h \in Cluster(k), OutOfDescriptors(k, h)
        PROVE  UNCHANGED <<clusterhead, RotaHead>>
    <3>1. /\ UNCHANGED <<clusterhead, r, loop>> /\ loop = k /\ k \in 1..4
          /\ \A j \in Clusters : j # k => ch'[j] = ch[j]
      BY <2>3 DEF OutOfDescriptors, RotaInv, TypeOK, Clusters
    <3>2. ~Elected(k) /\ \A j \in Clusters : Elected(j)' <=> Elected(j)
      BY <3>1 DEF Elected
    <3> QED BY <3>1, <3>2 DEF RotaHead
  <2>4. CASE UNCHANGED vars
    BY <2>4 DEF vars, RotaHead, Elected
  <2> QED BY <2>0, <2>1, <2>2, <2>3, <2>4 DEF Next, Rota!RotaNext
<1> QED BY <1>1, <1>2, RotationIsFair, PTL DEF Spec, ImplementsRota, Rota!RotaSpec
===================================================================================
