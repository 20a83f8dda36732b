---------------------------------- MODULE RsaAuth ---------------------------------
(* The node authentication the election rests on: `rsa' draws a key pair and a  *)
(* number m for a node, writes (e, c, n, phi) to txt/base.txt and keeps m in    *)
(* rsanode; `sleach' decrypts the line with `decrypt' and compares.             *)
EXTENDS Integers

CONSTANT Limit       \* p and q are int(rand()*Limit); the script has 1000, 3 is the least

VARIABLES pc,        \* the loop `rsa' is in
          p, q, e,   \* its draws
          phi,       \* (p-1)(q-1)
          d,         \* the private exponent
          record,    \* the node's line of txt/base.txt
          rsanode    \* rsanode(i), the number the node is known by

vars == <<pc, p, q, e, phi, d, record, rsanode>>

(* Euclid's algorithm as `gcd' has it.                                          *)
Gcd(a, b) == LET g[x \in 0..(Limit * Limit), y \in 0..(Limit * Limit)] ==
                     IF y = 0 THEN x ELSE g[y, x % y]
             IN  g[a, b]

(* Trial division stops before a/2, so 4 passes, and 0 and 1 do.                *)
(* The mutant stops at a/3 and takes 9 for a prime as well.                     *)
IsPrimeThird(a) == \A i \in 2..((a \div 3) - 1) : a % i # 0
IsPrime(a) == \A i \in 2..((a \div 2) - 1) : a % i # 0

(* The loops that multiply x times modulo n.                                    *)
Power(base, x, n) ==
    LET turn == [c \in 0..n |-> (c * base) % n]
        c[i \in 0..x] == IF i = 0 THEN 1 ELSE turn[c[i - 1]]
    IN  c[x] % n

(* The loop that looks for d counts up from 1; the residues repeat after phi    *)
(* steps, so it ends within phi steps or never.                                 *)
Inverses(x, f) == {y \in 1..f : (y * x) % f = 1}
Least(S) == CHOOSE y \in S : \A z \in S : y <= z

(* `rsa' takes back the increment its loop ends with.                           *)
Exponent(x, f) == Least(Inverses(x, f))

(* decrypt e phi c n, on a line of base.txt.                                    *)
Decrypt(l) == Power(l.c, Least(Inverses(l.e, l.phi)), l.n)
Sleach == Decrypt(record) = rsanode

Init == /\ pc = "p" /\ p = 0 /\ q = 0 /\ e = 0 /\ phi = 0 /\ d = 0
        /\ record = [e |-> 0, c |-> 0, n |-> 1, phi |-> 1] /\ rsanode = 0

DrawP == /\ pc = "p"
         /\ p' \in 0..(Limit - 1)
         /\ pc' = IF p' \notin {0, 1} /\ IsPrime(p') THEN "q" ELSE "p"
         /\ UNCHANGED <<q, e, phi, d, record, rsanode>>

DrawQ == /\ pc = "q"
         /\ q' \in 0..(Limit - 1)
         /\ IF q' \notin {0, 1} /\ IsPrime(q')
            THEN pc' = "e" /\ phi' = (p - 1) * (q' - 1)
            ELSE UNCHANGED <<pc, phi>>
         /\ UNCHANGED <<p, e, d, record, rsanode>>

DrawE == /\ pc = "e"
         /\ e' \in 0..(phi - 1)
         /\ pc' = IF IsPrime(e') THEN "gcd" ELSE "e"
         /\ UNCHANGED <<p, q, phi, d, record, rsanode>>

(* `while {$ans!=1}' goes round without drawing another e, because primee stays *)
(* 1 once it is: the step then changes nothing and is taken for ever.           *)
TestE == /\ pc = "gcd"
         /\ pc' = IF Gcd(e, phi) = 1 THEN "d" ELSE "gcd"
         /\ UNCHANGED <<p, q, e, phi, d, record, rsanode>>

(* The search for d, which spins when there is none.                            *)
FindD == /\ pc = "d"
         /\ IF Inverses(e, phi) = {}
            THEN UNCHANGED <<pc, d>>
            ELSE d' = Exponent(e, phi) /\ pc' = "m"
         /\ UNCHANGED <<p, q, e, phi, record, rsanode>>

DrawM == /\ pc = "m"
         /\ rsanode' \in 0..(p * q - 1)
         /\ record' = [e |-> e, c |-> Power(rsanode', e, p * q), n |-> p * q, phi |-> phi]
         /\ pc' = "done"
         /\ UNCHANGED <<p, q, e, phi, d>>

Next == DrawP \/ DrawQ \/ DrawE \/ TestE \/ FindD \/ DrawM

Spec == Init /\ [][Next]_vars
-----------------------------------------------------------------------------------
(* An honest node authenticates whatever was drawn, unless rsa drew p = q (it   *)
(* does not compare them) or took 4 for a prime: with those the arithmetic of   *)
(* RSA does not hold and sleach rejects a node for good.                        *)
HonestNodeAccepted == (pc = "done" /\ p # q /\ 4 \notin {p, q}) => Sleach

(* Where rsa can hang: its test of e for primality leaves only an e that divides*)
(* phi, 0 (which it takes for a prime) and 4; without p = q = 2 (phi is 1 then  *)
(* and nothing is 1 modulo 1) an e past the test always has its d.              *)
HangsOnlyOnBadDraw ==
    /\ (pc = "gcd" /\ Gcd(e, phi) # 1) => e \in {0, 4} \/ phi % e = 0
    /\ (pc = "d" /\ Inverses(e, phi) = {}) => phi = 1
===================================================================================
