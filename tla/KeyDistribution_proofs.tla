-------------------------- MODULE KeyDistribution_proofs --------------------------
(* Proofs that keygen gives every node its own share, for every number of nodes *)
(* and every choice of heads, with div right or lost.                           *)
EXTENDS KeyDistribution, TLAPS

Heads == {h \in [Clusters -> Nodes] : \A c \in Clusters : h[c] \in Cluster(c)}

(* The bounds keygen computes, for either value of div: they cut the nodes into *)
(* four intervals, and no head lies below the interval of its number.           *)
LEMMA Bounds ==
    ASSUME div \in {0, Div}, ch \in Heads
    PROVE  /\ NN \in Nat /\ First(1) = 0 /\ Last(4) = NN - 1
           /\ \A c \in Clusters : /\ First(c) \in Nat /\ Last(c) \in Nat
                                  /\ First(c) <= Last(c) /\ Last(c) < NN
                                  /\ ch[c] \in Nodes /\ First(c) <= ch[c]
           /\ \A c \in 1..3 : First(c + 1) = Last(c) + 1
<1> DEFINE D == Div
<1>1. NN \in Nat /\ D \in Nat /\ 3 * D + 3 < NN
  BY NNAssumption DEF Div
<1>2. Clusters = {1, 2, 3, 4} /\ 1..3 = {1, 2, 3}
  BY DEF Clusters
<1>3. div \in Nat /\ div <= D
  BY <1>1
<1>4. /\ First(1) = 0 /\ First(2) = div + 1 /\ First(3) = 2 * div + 2 /\ First(4) = 3 * div + 3
      /\ Last(1) = div /\ Last(2) = 2 * div + 1 /\ Last(3) = 3 * div + 2 /\ Last(4) = NN - 1
  BY <1>1, <1>3 DEF First, Last, Start, End
<1>5. \A c \in Clusters : ch[c] \in Nodes /\ ch[c] \in Cluster(c)
  BY DEF Heads
<1>6. /\ Cluster(1) = 0..D
      /\ Cluster(2) = (D + 1)..(2 * D + 1)
      /\ Cluster(3) = (2 * D + 2)..(3 * D + 2)
      /\ Cluster(4) = (3 * D + 3)..(NN - 1)
  BY <1>1 DEF Cluster, Span, Start, End
<1> HIDE DEF D
<1>7. First(1) <= ch[1] /\ First(2) <= ch[2] /\ First(3) <= ch[3] /\ First(4) <= ch[4]
  <2>1. ch[1] \in Cluster(1) /\ ch[2] \in Cluster(2) /\ ch[3] \in Cluster(3) /\ ch[4] \in Cluster(4)
    BY <1>2, <1>5
  <2>2. /\ ch[1] \in Int /\ 0 <= ch[1]
        /\ ch[2] \in Int /\ D + 1 <= ch[2]
        /\ ch[3] \in Int /\ 2 * D + 2 <= ch[3]
        /\ ch[4] \in Int /\ 3 * D + 3 <= ch[4]
    <3>1. ch[1] \in Int /\ 0 <= ch[1]
      BY <1>1, <1>6, <2>1
    <3>2. ch[2] \in Int /\ D + 1 <= ch[2]
      BY <1>1, <1>6, <2>1
    <3>3. ch[3] \in Int /\ 2 * D + 2 <= ch[3]
      BY <1>1, <1>6, <2>1
    <3>4. ch[4] \in Int /\ 3 * D + 3 <= ch[4]
      BY <1>1, <1>6, <2>1
    <3> QED BY <3>1, <3>2, <3>3, <3>4
  <2> QED BY <1>1, <1>3, <1>4, <2>2
<1>8. \A c \in Clusters : /\ First(c) \in Nat /\ Last(c) \in Nat
                          /\ First(c) <= Last(c) /\ Last(c) < NN
  BY <1>1, <1>2, <1>3, <1>4
<1> QED BY <1>1, <1>2, <1>4, <1>5, <1>7, <1>8

Width(c) == Last(c) - First(c) + 1

(* The list `split' returns: the cluster's lines in order, then one empty one.  *)
LEMMA SplitShape ==
    ASSUME div \in {0, Div}, ch \in Heads, NEW c \in Clusters
    PROVE  /\ Width(c) \in Nat /\ Width(c) > 0 /\ Len(SplitLines(c)) = Width(c) + 1
           /\ \A x \in 1..Width(c) : SplitLines(c)[x] = First(c) + x - 1
           /\ SplitLines(c)[Width(c) + 1] = Blank
<1>1. First(c) \in Nat /\ Last(c) \in Nat /\ First(c) <= Last(c)
  BY Bounds
<1>2. Width(c) \in Nat /\ Width(c) > 0
  BY <1>1 DEF Width
<1>3. ClusterLines(c) = [x \in 1..Width(c) |-> First(c) + x - 1]
  BY DEF ClusterLines, Width
<1>4. ClusterLines(c) \in Seq(Int) /\ Len(ClusterLines(c)) = Width(c)
  BY <1>1, <1>2, <1>3
<1>5. /\ Len(SplitLines(c)) = Width(c) + 1
      /\ \A x \in 1..Width(c) : SplitLines(c)[x] = ClusterLines(c)[x]
      /\ SplitLines(c)[Width(c) + 1] = Blank
  BY <1>2, <1>4 DEF SplitLines
<1> QED BY <1>2, <1>3, <1>5

(* Reading a file depends on that file only.                                    *)
LEMMA HoldsFrame ==
    ASSUME NEW i \in Nodes, Holds(i), txt1'[i] = txt1[i]
    PROVE  Holds(i)'
  BY DEF Holds

-----------------------------------------------------------------------------------
(* The nodes dealt for in earlier clusters hold their shares, those dealt for   *)
(* in this one too, except the head, whose share is in the scratch file.        *)
Below(c) == IF c = 5 THEN NN ELSE First(c)

DealInv ==
    /\ div \in {0, Div} /\ ch \in Heads
    /\ txt1 = [f \in Files |-> txt1[f]]
    /\ k \in 0..5 /\ line \in Nat \ {0} /\ (k = 0 => line = 1)
    /\ k > 0 => data = [c \in Clusters |-> SplitLines(c)]
    /\ k \in Clusters => line <= Width(k) + 2
    /\ k > 0 => \A i \in Nodes : i < Below(k) => Holds(i)
    /\ k \in Clusters =>
         \A i \in Nodes : (First(k) <= i /\ i <= Last(k) /\ i < First(k) + line - 1) =>
             IF i = ch[k] THEN txt1[Scratch] = <<i>> ELSE Holds(i)

LEMMA InitDeal == Init => DealInv
<1> SUFFICES ASSUME Init PROVE DealInv
  OBVIOUS
<1>1. ch \in Heads /\ div \in {0, Div} /\ k = 0 /\ line = 1
  BY DEF Init, Heads
<1>2. txt1 = [f \in Files |-> txt1[f]]
  BY DEF Init
<1> QED BY <1>1, <1>2 DEF DealInv, Clusters

LEMMA SplitDeal ==
    ASSUME DealInv, Split
    PROVE  DealInv'
<1>1. /\ k = 0 /\ k' = 1 /\ line' = 1 /\ ch' = ch /\ div' = div
      /\ data' = [c \in Clusters |-> SplitLines(c)]
  BY DEF Split, DealInv
<1>2. txt1' = [f \in Files |-> txt1'[f]]
  BY DEF Split
<1>3. \A c : Width(c)' = Width(c) /\ First(c)' = First(c) /\ Last(c)' = Last(c)
             /\ SplitLines(c)' = SplitLines(c)
  BY <1>1 DEF Width, First, Last, SplitLines, ClusterLines
<1>4. Below(1)' = 0 /\ First(1) = 0
  BY <1>3, Bounds DEF Below, DealInv
<1>5. \A i \in Nodes : ~(i < 0)
  BY DEF Nodes
<1>6. Width(1) \in Nat
  BY SplitShape DEF DealInv, Clusters
<1> QED BY <1>1, <1>2, <1>3, <1>4, <1>5, <1>6 DEF DealInv, Clusters

(* One line of cluster k goes to the node it is numbered for, or to the scratch *)
(* file if that is the head; the blank last line goes above the cluster.        *)
LEMMA DealDeal ==
    ASSUME DealInv, Deal
    PROVE  DealInv'
<1> DEFINE T == Target(k, line)
           v == data[k][line]
<1>1. /\ k \in Clusters /\ div \in {0, Div} /\ ch \in Heads /\ line \in Nat /\ line > 0
      /\ data[k] = SplitLines(k) /\ k > 0 /\ k # 5 /\ k # 0
  BY DEF Deal, DealInv, Clusters
<1>2. /\ First(k) \in Nat /\ Last(k) \in Nat /\ First(k) <= Last(k) /\ Last(k) < NN
      /\ NN \in Nat /\ ch[k] \in Nodes /\ First(k) <= ch[k]
  BY <1>1, Bounds
<1>3. /\ Width(k) = Last(k) - First(k) + 1 /\ Len(data[k]) = Width(k) + 1
      /\ \A x \in 1..Width(k) : data[k][x] = First(k) + x - 1
      /\ line <= Width(k) + 1
  BY <1>1, SplitShape DEF Width, Deal
<1>4. /\ txt1' = [txt1 EXCEPT ![T] = <<v>>] /\ line' = line + 1 /\ k' = k /\ ch' = ch
      /\ div' = div /\ data' = data /\ txt1 = [f \in Files |-> txt1[f]]
  BY DEF Deal, DealInv, NextLine
<1>5. T = IF First(k) + line - 1 # ch[k] THEN First(k) + line - 1 ELSE Scratch
  BY DEF Target
<1> HIDE DEF T, v
<1>6. T \in Files /\ Scratch \in Files /\ Nodes \subseteq Files /\ Scratch = NN + 1
  BY <1>2, <1>3, <1>5, <1>1 DEF Files, Scratch, Nodes
<1>7. \A f \in Files : txt1'[f] = IF f = T THEN <<v>> ELSE txt1[f]
  BY <1>4, <1>6
<1>8. \A c : Width(c)' = Width(c) /\ First(c)' = First(c) /\ Last(c)' = Last(c)
             /\ SplitLines(c)' = SplitLines(c) /\ Below(c)' = Below(c)
  BY <1>4 DEF Width, First, Last, SplitLines, ClusterLines, Below
<1>9. ASSUME NEW i \in Nodes, i < Below(k) PROVE Holds(i)'
  <2>1. i < First(k) /\ Holds(i)
    BY <1>1, <1>9 DEF Below, DealInv
  <2>2. i # T /\ i \in Files
    BY <2>1, <1>1, <1>2, <1>5, <1>6 DEF Nodes
  <2> QED BY <2>1, <2>2, <1>7, HoldsFrame
<1>10. ASSUME NEW i \in Nodes, First(k) <= i, i <= Last(k), i < First(k) + line
       PROVE  IF i = ch[k] THEN txt1'[Scratch] = <<i>> ELSE Holds(i)'
  <2>1. i \in Int /\ 0 <= i /\ i < NN
    BY <1>2 DEF Nodes
  <2>2. CASE i = First(k) + line - 1
    <3>1. line \in 1..Width(k)
      BY <1>1, <1>2, <1>3, <1>10, <2>1, <2>2
    <3>2. v = i
      BY <1>3, <2>2, <3>1 DEF v
    <3>3. CASE i = ch[k]
      BY <1>5, <1>6, <1>7, <2>2, <3>2, <3>3
    <3>4. CASE i # ch[k]
      <4>1. txt1'[i] = <<i>>
        BY <1>5, <1>6, <1>7, <2>2, <3>2, <3>4
      <4> QED BY <4>1, <3>4 DEF Holds
    <3> QED BY <3>3, <3>4
  <2>3. CASE i # First(k) + line - 1
    <3>1. i < First(k) + line - 1
      BY <1>1, <1>2, <1>10, <2>1, <2>3
    <3>2. IF i = ch[k] THEN txt1[Scratch] = <<i>> ELSE Holds(i)
      BY <1>1, <1>10, <3>1 DEF DealInv
    <3>3. CASE i = ch[k]
      <4>1. T # Scratch
        <5>1. First(k) + line - 1 # ch[k]
          BY <2>3, <3>3
        <5>2. First(k) + line - 1 <= NN
          BY <1>1, <1>2, <1>3
        <5> QED BY <5>1, <5>2, <1>1, <1>2, <1>5, <1>6
      <4> QED BY <1>6, <1>7, <3>2, <3>3, <4>1
    <3>4. CASE i # ch[k]
      <4>1. i # T /\ i \in Files
        BY <1>2, <1>5, <1>6, <2>1, <2>3
      <4> QED BY <1>7, <3>2, <3>4, <4>1, HoldsFrame
    <3> QED BY <3>3, <3>4
  <2> QED BY <2>2, <2>3
<1>11. txt1' = [f \in Files |-> txt1'[f]]
  BY <1>4, <1>6
<1>12. line' <= Width(k) + 2 /\ line' \in Nat \ {0} /\ First(k) + line' - 1 = First(k) + line
  <2>1. Width(k) \in Int /\ line \in Int /\ First(k) \in Int /\ line' = line + 1
    BY <1>1, <1>2, <1>3, <1>4
  <2>2. line <= Width(k) + 1 /\ line > 0
    BY <1>1, <1>3
  <2> QED BY <2>1, <2>2
<1>13. data' = [c \in Clusters |-> SplitLines(c)]
  BY <1>1, <1>4 DEF DealInv
<1> QED BY <1>1, <1>4, <1>8, <1>9, <1>10, <1>11, <1>12, <1>13 DEF DealInv

(* The head's copy completes the cluster, and it lies at or above its start, so *)
(* nothing dealt before is lost.                                                *)
LEMMA CopyDeal ==
    ASSUME DealInv, CopyHead
    PROVE  DealInv'
<1>1. /\ k \in Clusters /\ div \in {0, Div} /\ ch \in Heads /\ line \in Nat /\ line > 0
      /\ data[k] = SplitLines(k) /\ k > 0 /\ k # 5 /\ k # 0
      /\ txt1 = [f \in Files |-> txt1[f]]
  BY DEF CopyHead, DealInv, Clusters
<1>2. /\ First(k) \in Nat /\ Last(k) \in Nat /\ First(k) <= Last(k) /\ Last(k) < NN
      /\ NN \in Nat /\ ch[k] \in Nodes /\ First(k) <= ch[k]
  BY <1>1, Bounds
<1>3. /\ Width(k) = Last(k) - First(k) + 1 /\ Len(data[k]) = Width(k) + 1
      /\ line > Width(k) + 1
  BY <1>1, SplitShape DEF Width, CopyHead
<1>4. CASE txt1[Scratch] = Absent
  <2>1. UNCHANGED <<div, ch, txt1, data, k, line>>
    BY <1>4 DEF CopyHead
  <2> QED BY <2>1 DEF DealInv, Heads, First, Last, Width, Below, Holds, SplitLines, ClusterLines
<1>5. CASE txt1[Scratch] # Absent
  <2>1. /\ txt1' = [txt1 EXCEPT ![ch[k]] = Append(txt1[Scratch], Blank)]
        /\ k' = k + 1 /\ line' = 1 /\ ch' = ch /\ div' = div /\ data' = data
    BY <1>5 DEF CopyHead
  <2>2. ch[k] \in Files /\ Nodes \subseteq Files
    BY <1>2 DEF Files, Nodes, Scratch
  <2>3. \A f \in Files : txt1'[f] = IF f = ch[k] THEN Append(txt1[Scratch], Blank) ELSE txt1[f]
    BY <1>1, <2>1, <2>2
  <2>4. \A c : Width(c)' = Width(c) /\ First(c)' = First(c) /\ Last(c)' = Last(c)
               /\ SplitLines(c)' = SplitLines(c) /\ Below(c)' = Below(c)
    BY <2>1 DEF Width, First, Last, SplitLines, ClusterLines, Below
  <2>5. Below(k + 1) = Last(k) + 1
    <3>1. CASE k = 4
      BY <1>1, <3>1, Bounds DEF Below
    <3>2. CASE k \in 1..3
      BY <1>1, <3>2, Bounds DEF Below
    <3> QED BY <1>1, <3>1, <3>2 DEF Clusters
  <2>6. ASSUME NEW i \in Nodes, i < Last(k) + 1 PROVE Holds(i)'
    <3>1. i \in Int /\ 0 <= i /\ i < NN
      BY <1>2 DEF Nodes
    <3>2. CASE i < First(k)
      <4>1. Holds(i)
        BY <1>1, <3>2 DEF DealInv, Below
      <4>2. i # ch[k] /\ i \in Files
        BY <1>2, <2>2, <3>1, <3>2 DEF Nodes
      <4> QED BY <2>3, <4>1, <4>2, HoldsFrame
    <3>3. CASE First(k) <= i
      <4>1. i <= Last(k) /\ i < First(k) + line - 1
        BY <1>1, <1>2, <1>3, <2>6, <3>1
      <4>2. IF i = ch[k] THEN txt1[Scratch] = <<i>> ELSE Holds(i)
        BY <1>1, <3>3, <4>1 DEF DealInv
      <4>3. CASE i = ch[k]
        <5>1. txt1'[i] = Append(<<i>>, Blank)
          BY <2>2, <2>3, <4>2, <4>3
        <5>2. <<i>> \in Seq(Nodes \union {Blank}) /\ Len(<<i>>) = 1 /\ <<i>>[1] = i
          OBVIOUS
        <5>3. /\ Len(Append(<<i>>, Blank)) = 2 /\ Append(<<i>>, Blank) # << >>
              /\ Append(<<i>>, Blank)[1] = i /\ Append(<<i>>, Blank)[2] = Blank
          BY <5>2
        <5> QED BY <5>1, <5>3 DEF Holds
      <4>4. CASE i # ch[k]
        BY <2>2, <2>3, <4>2, <4>4, HoldsFrame
      <4> QED BY <4>3, <4>4
    <3> QED BY <1>2, <3>1, <3>2, <3>3
  <2>7. txt1' = [f \in Files |-> txt1'[f]]
    BY <1>1, <2>1
  <2>8. data' = [c \in Clusters |-> SplitLines(c)]
    BY <1>1, <2>1 DEF DealInv
  <2>9. k + 1 \in 1..5
    BY <1>1 DEF Clusters
  <2>10. k + 1 \in Clusters =>
            /\ 1 <= Width(k + 1) + 2
            /\ \A i \in Nodes : ~(First(k + 1) <= i /\ i < First(k + 1) + 1 - 1)
    <3> SUFFICES ASSUME k + 1 \in Clusters
                 PROVE  /\ Width(k + 1) \in Nat /\ First(k + 1) \in Nat
      BY DEF Nodes
    <3> QED BY <1>1, SplitShape, Bounds
  <2>11. \A i \in Nodes : i < Below(k') => Holds(i)'
    BY <2>1, <2>5, <2>6
  <2> QED BY <1>1, <2>1, <2>4, <2>7, <2>8, <2>9, <2>10, <2>11 DEF DealInv
<1> QED BY <1>4, <1>5

(* At every point of keygen the clusters dealt are right.                       *)
THEOREM DealingCorrect == Spec => []DealInv
<1>1. DealInv /\ [Next]_vars => DealInv'
  <2> SUFFICES ASSUME DealInv, [Next]_vars PROVE DealInv'
    OBVIOUS
  <2>1. CASE Split
    BY <2>1, SplitDeal
  <2>2. CASE Deal
    BY <2>2, DealDeal
  <2>3. CASE CopyHead
    BY <2>3, CopyDeal
  <2>4. CASE UNCHANGED vars
    BY <2>4 DEF vars, DealInv, Heads, First, Last, Width, Below, Holds, SplitLines, ClusterLines
  <2> QED BY <2>1, <2>2, <2>3, <2>4 DEF Next
<1> QED BY <1>1, InitDeal, PTL DEF Spec

(* What keygen's users rely on: when it has returned, every node reads its own  *)
(* share and nothing else from its file.                                        *)
THEOREM SharesArrive == Spec => []EveryNodeHasItsShare
<1>1. ASSUME DealInv PROVE EveryNodeHasItsShare
  <2> SUFFICES ASSUME k = 5, NEW i \in Nodes PROVE Holds(i)
    BY DEF EveryNodeHasItsShare
  <2>1. i < NN
    BY NNAssumption DEF Nodes
  <2> QED BY <1>1, <2>1 DEF DealInv, Below
<1> QED BY <1>1, DealingCorrect, PTL

(* The same for the clusters already dealt while keygen runs.                   *)
THEOREM PrefixHolds == Spec => []DealtPrefix
<1>1. ASSUME DealInv PROVE DealtPrefix
  <2> SUFFICES ASSUME k \in 1..5, NEW i \in Nodes, k = 5 \/ i < First(k) PROVE Holds(i)
    BY DEF DealtPrefix
  <2>1. i < NN
    BY NNAssumption DEF Nodes
  <2>2. i < Below(k)
    BY <2>1 DEF Below
  <2> QED BY <1>1, <2>2 DEF DealInv
<1> QED BY <1>1, DealingCorrect, PTL

-----------------------------------------------------------------------------------
(* Only the dealing of the first cluster may find the scratch file missing, and *)
(* only as long as no line of it was the head's: later the file exists.         *)
ScratchInv ==
    /\ DealInv
    /\ AbortsOnlyWhenDivLost
    /\ k > 1 => txt1[Scratch] # Absent
    /\ k = 1 /\ txt1[Scratch] = Absent => line - 1 <= ch[1]

(* A line that is dealt makes a file.                                           *)
LEMMA DealtLine ==
    ASSUME DealInv, Deal
    PROVE  <<data[k][line]>> # Absent
<1>1. /\ k \in Clusters /\ div \in {0, Div} /\ ch \in Heads
      /\ data[k] = SplitLines(k) /\ line \in 1..Len(SplitLines(k))
  BY DEF Deal, DealInv, Clusters
<1>2. /\ First(k) \in Nat /\ Last(k) \in Nat /\ Last(k) < NN /\ NN \in Nat
      /\ Width(k) = Last(k) - First(k) + 1 /\ Width(k) \in Nat
      /\ Len(SplitLines(k)) = Width(k) + 1
      /\ \A x \in 1..Width(k) : SplitLines(k)[x] = First(k) + x - 1
      /\ SplitLines(k)[Width(k) + 1] = Blank
  BY <1>1, Bounds, SplitShape DEF Width
<1>3. data[k][line] \in Lines
  <2>1. CASE line <= Width(k)
    BY <1>1, <1>2, <2>1 DEF Lines, Nodes
  <2>2. CASE line = Width(k) + 1
    BY <1>1, <1>2, <2>2 DEF Lines
  <2> QED BY <1>1, <1>2, <2>1, <2>2
<1>4. <<data[k][line]>> \in Seq(Lines)
  BY <1>3
<1> QED BY <1>4, AbsentAssumption

LEMMA DealScratch ==
    ASSUME ScratchInv, Deal
    PROVE  ScratchInv'
<1>1. DealInv'
  BY DealDeal DEF ScratchInv
<1>2. /\ k \in Clusters /\ div \in {0, Div} /\ ch \in Heads /\ line \in Nat
      /\ txt1 = [f \in Files |-> txt1[f]] /\ NN \in Nat
  BY Bounds DEF Deal, DealInv, ScratchInv
<1>3. /\ txt1' = [txt1 EXCEPT ![Target(k, line)] = <<data[k][line]>>]
      /\ line' = line + 1 /\ UNCHANGED <<div, ch, k, aborted>>
  BY DEF Deal, NextLine
<1>4. Scratch \in Files
  BY <1>2 DEF Scratch, Files
<1>5. txt1[Scratch] # Absent => txt1'[Scratch] # Absent
  BY <1>2, <1>3, <1>4, DealtLine DEF ScratchInv
<1>6. ASSUME k = 1, txt1'[Scratch] = Absent PROVE line' - 1 <= ch[1]
  <2>1. txt1[Scratch] = Absent /\ line - 1 <= ch[1]
    BY <1>5, <1>6 DEF ScratchInv
  <2>2. Target(k, line) # Scratch
    BY <1>2, <1>3, <1>4, <1>6, DealtLine DEF ScratchInv
  <2>3. First(1) = 0 /\ ch[1] \in Int
    BY <1>2, Bounds DEF Nodes, Clusters
  <2>4. line - 1 # ch[1]
    BY <1>2, <1>6, <2>2, <2>3 DEF Target
  <2> QED BY <1>2, <1>3, <2>1, <2>3, <2>4
<1> QED BY <1>1, <1>3, <1>5, <1>6 DEF ScratchInv, AbortsOnlyWhenDivLost

(* The copy finds the file, or the head lies beyond the lines of its cluster.   *)
LEMMA CopyScratch ==
    ASSUME ScratchInv, CopyHead
    PROVE  ScratchInv'
<1>1. DealInv'
  BY CopyDeal DEF ScratchInv
<1>2. /\ k \in Clusters /\ div \in {0, Div} /\ ch \in Heads /\ line \in Nat
      /\ data[k] = SplitLines(k) /\ txt1 = [f \in Files |-> txt1[f]]
  BY DEF CopyHead, DealInv, ScratchInv, Clusters
<1>3. ch[k] \in Nodes /\ NN \in Nat
  BY <1>2, Bounds
<1>4. CASE txt1[Scratch] # Absent
  <2>1. /\ txt1' = [txt1 EXCEPT ![ch[k]] = Append(txt1[Scratch], Blank)]
        /\ k' = k + 1 /\ UNCHANGED <<div, ch, aborted>> /\ ~aborted
    BY <1>4 DEF CopyHead
  <2>2. Scratch # ch[k] /\ Scratch \in Files
    BY <1>3 DEF Scratch, Nodes, Files
  <2>3. txt1'[Scratch] # Absent
    BY <1>2, <1>4, <2>1, <2>2
  <2> QED BY <1>1, <2>1, <2>3 DEF ScratchInv, AbortsOnlyWhenDivLost
<1>5. CASE txt1[Scratch] = Absent
  <2>1. UNCHANGED <<div, ch, txt1, k, line>>
    BY <1>5 DEF CopyHead
  <2>2. k = 1 /\ line - 1 <= ch[1]
    BY <1>2, <1>5 DEF ScratchInv, Clusters
  <2>3. line > Len(SplitLines(1)) /\ 1 \in Clusters
    BY <1>2, <2>2 DEF CopyHead
  <2>4. Len(SplitLines(1)) = Last(1) - First(1) + 2 /\ First(1) = 0
    <3>1. /\ Width(1) \in Nat /\ Len(SplitLines(1)) = Width(1) + 1
          /\ Width(1) = Last(1) - First(1) + 1
      BY <1>2, <2>3, SplitShape DEF Width
    <3>2. First(1) = 0 /\ Last(1) \in Nat
      BY <1>2, <2>3, Bounds
    <3> QED BY <3>1, <3>2
  <2>5. Last(1) = div /\ Div \in Nat
    <3>1. Div \in Nat
      BY NNAssumption DEF Div
    <3>2. div \in Nat
      BY <1>2, <3>1
    <3> QED BY <3>1, <3>2 DEF Last, End, Start
  <2>6. ch[1] \in Int /\ ch[1] > div + 1
    BY <1>2, <1>3, <2>2, <2>3, <2>4, <2>5 DEF Nodes
  <2>7. ch[1] <= Div
    <3>1. ch[1] \in Cluster(1)
      BY <1>2, <2>3 DEF Heads
    <3> QED BY <2>5, <3>1 DEF Cluster, Span, Start, End
  <2>8. div = 0 /\ ch[1] > 1
    BY <1>2, <2>5, <2>6, <2>7
  <2> QED BY <1>1, <2>1, <2>2, <2>8 DEF ScratchInv, AbortsOnlyWhenDivLost
<1> QED BY <1>4, <1>5

(* keygen fails in one case only: div was lost and the first head lies outside  *)
(* the two lines of its first cluster (the read of txt1/test.txt), for every    *)
(* number of nodes.                                                             *)
THEOREM OneWayToAbort == Spec => []AbortsOnlyWhenDivLost
<1>1. Init => ScratchInv
  BY InitDeal DEF Init, ScratchInv, AbortsOnlyWhenDivLost
<1>2. ScratchInv /\ [Next]_vars => ScratchInv'
  <2> SUFFICES ASSUME ScratchInv, [Next]_vars PROVE ScratchInv'
    OBVIOUS
  <2>1. CASE Split
    <3>1. DealInv'
      BY <2>1, SplitDeal DEF ScratchInv
    <3>2. k' = 1 /\ line' = 1 /\ UNCHANGED <<ch, aborted>> /\ ~aborted
      BY <2>1 DEF Split, ScratchInv, DealInv, AbortsOnlyWhenDivLost
    <3>3. ch[1] \in Nat
      BY Bounds DEF ScratchInv, DealInv, Clusters, Nodes
    <3> QED BY <3>1, <3>2, <3>3 DEF ScratchInv, AbortsOnlyWhenDivLost
  <2>2. CASE Deal
    BY <2>2, DealScratch
  <2>3. CASE CopyHead
    BY <2>3, CopyScratch
  <2>4. CASE UNCHANGED vars
    BY <2>4 DEF vars, ScratchInv, AbortsOnlyWhenDivLost, DealInv, Heads, First, Last,
                Width, Below, Holds, SplitLines, ClusterLines
  <2> QED BY <2>1, <2>2, <2>3, <2>4 DEF Next
<1>3. ScratchInv => AbortsOnlyWhenDivLost
  BY DEF ScratchInv
<1> QED BY <1>1, <1>2, <1>3, PTL DEF Spec
===================================================================================
