---------------------------------- MODULE RsaTool ---------------------------------
(* LEACH/rsa.c, the interactive RSA calculator: it asks for p and q, for e      *)
(* until `check' is content, searches d, encrypts a number and decrypts what it *)
(* is given.  All its variables are C ints, W bits wide here; an overflow wraps,*)
(* as it does where the program was built.                                      *)
EXTENDS Integers

CONSTANTS W,         \* width of an int, more than 3
          Inputs     \* what the user may enter for p and q, from 2 on

VARIABLES pc, p, q, n, phi, e, d, M, C, plain

vars == <<pc, p, q, n, phi, e, d, M, C, plain>>

MaxInt == 2^(W - 1) - 1
Wrap(x) == ((x + 2^(W - 1)) % 2^W) - 2^(W - 1)

(* C's remainder has the sign of the dividend.                                  *)
Rem(a, b) == IF a >= 0 THEN a % b ELSE 0 - ((0 - a) % b)

(* The for loop of check() returns in its first iteration or does not run: it   *)
(* only ever tries the divisor 3.                                               *)
Flag(x) == x % 3 = 0 /\ phi % 3 = 0

(* C=C*M%n (encrypt) and M=M*C%n (decrypt), x times, then once more modulo n.   *)
(* The mutant takes one turn too many.                                          *)
Turn(base) == [c \in (0 - MaxInt - 1)..MaxInt |-> Rem(Wrap(c * base), n)]
PowerOneMore(base, x) ==
    LET f[i \in 0..(x + 1)] == IF i = 0 THEN 1 ELSE Turn(base)[f[i - 1]]
    IN  Rem(f[x + 1], n)
Power(base, x) ==
    LET f[i \in 0..x] == IF i = 0 THEN 1 ELSE Turn(base)[f[i - 1]]
    IN  Rem(f[x], n)

(* The do-while loop over d, until s is 1; what it does once d itself has left  *)
(* an int is not followed.                                                      *)
Found == {y \in 1..MaxInt : Rem(Wrap(y * e), phi) = 1}

Init == /\ pc = "ask" /\ p = 0 /\ q = 0 /\ n = 0 /\ phi = 0 /\ e = 0 /\ d = 0
        /\ M = 0 /\ C = 0 /\ plain = 0

EnterPrimes ==
    /\ pc = "ask"
    /\ p' \in Inputs /\ q' \in Inputs
    /\ n' = Wrap(p' * q') /\ n' > 0
    /\ phi' = Wrap((p' - 1) * (q' - 1))
    /\ pc' = "e"
    /\ UNCHANGED <<e, d, M, C, plain>>

(* The user keeps to what the program asks for, an e that is less than phi; it  *)
(* takes any number.                                                            *)
EnterE ==
    /\ pc = "e"
    /\ e' \in 1..(phi - 1)
    /\ pc' = IF Flag(e') THEN "e" ELSE "d"
    /\ UNCHANGED <<p, q, n, phi, d, M, C, plain>>

FindD ==
    /\ pc = "d"
    /\ IF Found = {} THEN UNCHANGED <<pc, d>>
       ELSE d' = (CHOOSE y \in Found : \A z \in Found : y <= z) /\ pc' = "plain"
    /\ UNCHANGED <<p, q, n, phi, e, M, C, plain>>

Encrypt ==
    /\ pc = "plain"
    /\ plain' \in 0..(n - 1)
    /\ M' = plain'
    /\ C' = Power(plain', e)
    /\ pc' = "cipher"
    /\ UNCHANGED <<p, q, n, phi, e, d>>

(* The user types in the number the program printed.                            *)
DecryptIt ==
    /\ pc = "cipher"
    /\ M' = Power(C, d)
    /\ pc' = "done"
    /\ UNCHANGED <<p, q, n, phi, e, d, C, plain>>

Next == EnterPrimes \/ EnterE \/ FindD \/ Encrypt \/ DecryptIt

Spec == Init /\ [][Next]_vars
-----------------------------------------------------------------------------------
Divides(a, b) == b % a = 0
Prime(x) == x > 1 /\ \A y \in 2..(x - 1) : ~Divides(y, x)
Coprime(a, b) == \A y \in 2..a : ~(Divides(y, a) /\ Divides(y, b))

(* The tool is right as long as no product leaves an int: for distinct primes   *)
(* with (n-1)*(n-1) representable and e coprime to phi, decrypting returns what *)
(* was entered.  check() does not ensure the last condition, and without it the *)
(* search for d may end all the same, on a d whose product with e wrapped.      *)
PlainTextRestored ==
    (/\ pc = "done" /\ Prime(p) /\ Prime(q) /\ p # q /\ Coprime(e, phi)
     /\ (p * q - 1) * (p * q - 1) <= MaxInt) => M = plain
===================================================================================
