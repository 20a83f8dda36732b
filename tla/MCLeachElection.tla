----------------------------- MODULE MCLeachElection ------------------------------
(* LeachElection on small instances.                                            *)
EXTENDS LeachElection

(* An unlucky and a lucky draw, and thresholds below and above both.            *)
MCPercents == {0, 30, 80}
===================================================================================
