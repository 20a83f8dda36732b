----------------------------- MODULE MCSessionMonitor -----------------------------
(* SessionMonitor with the flows the scripts schedule.                          *)
EXTENDS SessionMonitor

Flow(src, to, agent) == [src |-> src, dst |-> to, agent |-> agent]

(* With 40 nodes the clusters start at 0, 11, 22 and 33; cluster 2 may be led   *)
(* by the receiver 15 or by a node without an agent.                            *)
MCHeads == {0, 14, 15, 22, 33}

(* Two shares with a common key, and one that has none with the second.         *)
MCTwoShares == {[i |-> 0, j |-> 0, u |-> 1], [i |-> 1, j |-> 2, u |-> 3]}
MCShares == MCTwoShares \union {[i |-> 2, j |-> 0, u |-> 3]}

(* The shipped kdd/1.txt has no udp/private record of 500 bytes; a database     *)
(* with two matching attack records of open sessions.                           *)
MCNoAlarms == [land \in {0, 1} |-> 0]
MCAlarms == [land \in {0, 1} |-> 2 * land]

(* `test 0 1 0' and `test 5 15 5', the flows of ck-ic-attack.tcl, on a network  *)
(* that loses, delays and reorders; at most one node fails to authenticate.     *)
Adverse == [flows |-> <<Flow(0, 1, 0), Flow(5, 15, 5)>>, heads |-> MCHeads,
            shares |-> MCTwoShares, alarms |-> MCNoAlarms, maxUntrusted |-> 1,
            mayDrift |-> FALSE, lossy |-> TRUE, inOrder |-> FALSE, prompt |-> FALSE]

(* The flows of ck-kdd.tcl, one of them through another node's agent, and the   *)
(* relayed one; nodes drift, records of attacks match.                          *)
Drifting == [flows |-> <<Flow(0, 1, 0), Flow(0, 2, 3), Flow(5, 15, 5)>>, heads |-> MCHeads,
             shares |-> MCTwoShares, alarms |-> MCAlarms, maxUntrusted |-> 6,
             mayDrift |-> TRUE, lossy |-> FALSE, inOrder |-> TRUE, prompt |-> TRUE]

(* The flows of ck-ic-attack.tcl again, each through its sender's agent, on a   *)
(* network that is fast and reorders.                                           *)
Attacked == [Drifting EXCEPT !.flows = Adverse.flows, !.inOrder = FALSE]

(* A direct flow sent through another node's agent and the relayed one, on a    *)
(* fast network with all nodes in range; at most two fail to authenticate.      *)
Prompt == [flows |-> <<Flow(0, 2, 3), Flow(5, 15, 5)>>, heads |-> MCHeads,
           shares |-> MCShares, alarms |-> MCNoAlarms, maxUntrusted |-> 2,
           mayDrift |-> FALSE, lossy |-> FALSE, inOrder |-> TRUE, prompt |-> TRUE]

MCRelaySetups == {Adverse, Drifting, Attacked}
MCPromptSetups == {Prompt}
===================================================================================
