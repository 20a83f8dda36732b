------------------------------- MODULE KeyDiscovery -------------------------------
(* The key two or three nodes compute from their shares: `keydis', `readvalue'  *)
(* and `readvalue1'.  A share is the quadruple `ran' draws, without its sign s, *)
(* which no procedure uses.                                                     *)
EXTENDS Integers

Shares == [i : 0..5, j : 0..5, u : 0..5]

(* What a key comes out as: 0 ("No common key"), or sha1 of the two digits x1x2,*)
(* named by those digits; the test x1 < 10, x2 < 10 cannot fail modulo q = 2.   *)
NoKey == <<>>
Keys == {NoKey, <<0, 0>>, <<0, 1>>, <<1, 0>>, <<1, 1>>}

(* sqrt(y) for y modulo 2 is y itself, and num/2 is then a whole number.        *)
KeyDis(a, b) ==
    LET i_i1 == a.i - b.i
        sum == i_i1 * i_i1 + (a.j - b.j) * 4
        sqr == sum % 2
    IN  IF a.u = b.u \/ sqr = 0
        THEN NoKey
        ELSE << ((i_i1 + sqr) \div 2) % 2, ((i_i1 - sqr) \div 2) % 2 >>

(* The share a head and a receiver make together in readvalue1.                 *)
Plus(b, c) == [i |-> b.i + c.i, j |-> b.j + c.j, u |-> b.u + c.u]

PairKey(a, b) == KeyDis(a, b)
TripleKey(a, b, c) == KeyDis(a, Plus(b, c))
===================================================================================
