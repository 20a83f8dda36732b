------------------------------- MODULE MCSsabNode -------------------------------
(* Inputs for the runs of SsabNode.                                             *)
EXTENDS SsabNode

\* The packet in the middle ends here, an older and a newer one are forwarded.
MCMiddleForMe == [src : Others, n : {3}]
==================================================================================
