------------------------------ MODULE ClusterLayout ------------------------------
(* The node numbering every procedure of the intrusion monitor shares: the      *)
(* NN sensor nodes 0..NN-1 are cut into four consecutive ranges.  `leach'       *)
(* computes the bounds first..eighth from val(nn)/4; `keygen' computes the same *)
(* expressions from the global `div', which is a different number in the        *)
(* scripts whose `leach' keeps its own div local (it is then 0).                *)
EXTENDS Integers

CONSTANT NN          \* val(nn): the number of sensor nodes

(* Tcl's integer division; the fourth range must not be empty, otherwise        *)
(* `myRand seventh eighth' divides by zero (nn = 8, 9, 12 are such sizes).      *)
Div == NN \div 4

ASSUME NNAssumption == NN \in Nat /\ NN > 3 * (Div + 1)

Nodes == 0..(NN - 1)
Clusters == 1..4

(* first, third, fifth, seventh and second, fourth, sixth, eighth, for a        *)
(* cluster width d.                                                             *)
Start(d, k) == (k - 1) * (d + 1)
End(d, k) == IF k < 4 THEN Start(d, k) + d ELSE NN - 1

Span(d, k) == Start(d, k)..End(d, k)

(* The clusters as `leach' draws their heads from them.                         *)
Cluster(k) == Span(Div, k)
==================================================================================
