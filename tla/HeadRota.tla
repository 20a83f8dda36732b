--------------------------------- MODULE HeadRota --------------------------------
(* What the cluster-head election promises the rest of the simulation: rounds   *)
(* in which clusters 1 to 4 are given a head in that order, the head of cluster *)
(* k being a member of cluster k that has never been a head before.             *)
EXTENDS ClusterLayout

CONSTANT NoHead      \* no head (yet) in this round

VARIABLES served,    \* every node that has been a head
          head       \* the heads of the current round

rotaVars == <<served, head>>

RotaInit == served = {} /\ head = [k \in Clusters |-> NoHead]

NewRound == /\ head[4] # NoHead
            /\ head' = [k \in Clusters |-> NoHead]
            /\ UNCHANGED served

Elect(k, h) == /\ head[k] = NoHead
               /\ \A j \in 1..(k - 1) : head[j] # NoHead
               /\ h \notin served
               /\ served' = served \union {h}
               /\ head' = [head EXCEPT ![k] = h]

RotaNext == NewRound \/ \E k \in Clusters : \E h \in Cluster(k) : Elect(k, h)

RotaSpec == RotaInit /\ [][RotaNext]_rotaVars
==================================================================================
