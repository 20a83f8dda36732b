------------------------------ MODULE MCRadio ------------------------------
(***************************************************************************)
(* Three nodes: one fails for good or comes and goes, and the terrain has  *)
(* the nodes in a corner, across a border of cells or on the far side.     *)
(***************************************************************************)
EXTENDS Radio

CONSTANTS a, b, c

At(pa, pb, pc) == [n \in Nodes |-> CASE n = a -> pa [] n = b -> pb [] n = c -> pc]

Corner == At(<<0, 0>>, <<2, 1>>, <<1, 0>>)
Border == At(<<14, 9>>, <<15, 8>>, <<14, 11>>)
FarSide == At(<<16, 17>>, <<14, 17>>, <<6, 5>>)

NoneFails == [n \in Nodes |-> Never]
BFails == [NoneFails EXCEPT ![b] = 1]

\* every place of b about a node in an inner cell or in a corner
Square3(x, y) == (x .. x + 2) \X (y .. y + 2)
Anywhere == {At(pa, pb, <<17, 0>>) : pa \in Square3(0, 0) \union Square3(9, 9) \union Square3(15, 15),
                                     pb \in (0 .. 17) \X (0 .. 17)}

MCSetups ==
  [place : Anywhere, grid : {TRUE}, fails : {NoneFails},
   transient : {FALSE}, promiscuity : {FALSE}, sends : {0}, txTimes : {{2}}]
  \union
  [place : {Corner, Border, FarSide}, grid : {TRUE}, fails : {BFails},
   transient : {FALSE, TRUE}, promiscuity : {FALSE}, sends : {2}, txTimes : {{0, 2}}]
  \union
  [place : {Border}, grid : {FALSE}, fails : {NoneFails},
   transient : {FALSE}, promiscuity : {TRUE}, sends : {2}, txTimes : {{0, 2}}]
  \union
  [place : {Corner}, grid : {TRUE}, fails : {NoneFails},
   transient : {FALSE}, promiscuity : {FALSE}, sends : {3}, txTimes : {{2}}]
=============================================================================
