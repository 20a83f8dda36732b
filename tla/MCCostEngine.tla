---------------------------- MODULE MCCostEngine ----------------------------
(***************************************************************************)
(* The engine with five events: one Timer, a MultiTimer of two indices and *)
(* an InfiTimer that grows from one slot to two.                           *)
(***************************************************************************)
EXTENDS CostEngine

CONSTANT timer

MCEvents == {timer, <<"multi", 0>>, <<"multi", 1>>, <<"slot", 0>>, <<"slot", 1>>}
=============================================================================
