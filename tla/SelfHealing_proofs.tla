--------------------------- MODULE SelfHealing_proofs ---------------------------
(* Proofs about self-healing routing, for any number of nodes, links, traffic,  *)
(* losses and order of the timers.                                              *)
EXTENDS SelfHealing, FiniteSetTheorems, SequenceTheorems, WellFoundedInduction, TLAPS

----------------------------------------------------------------------------------
(* Distances                                                                    *)

LEMMA LeastNumber ==
    ASSUME NEW S, S \subseteq Nat, S # {}
    PROVE  \E x \in S : \A y \in S : x <= y
<1>1. PICK x \in S : \A y \in S : ~(<<y, x>> \in OpToRel(<, Nat))
  BY NatLessThanWellFounded, WFMin, Zenon
<1>2. \A y \in S : ~(y < x)
  BY <1>1, Zenon DEF OpToRel
<1> QED BY <1>2

(* The rule by which Within is computed, up to a number of links.               *)
Grows(links, V) == UNION {{l} \union links[l] : l \in V}
Computes(links, k, g) ==
    /\ g = [j \in 0 .. k |-> [m \in Nodes |-> g[j][m]]]
    /\ \A m \in Nodes : g[0][m] = {m}
    /\ \A j \in 1 .. k : \A m \in Nodes : g[j][m] = Grows(links, g[j - 1][m])

LEMMA Computable == ASSUME NEW links, NEW k \in Nat PROVE \E g : Computes(links, k, g)
<1> DEFINE Bad == {j \in Nat : ~\E g : Computes(links, j, g)}
<1>1. ASSUME Bad # {} PROVE FALSE
  <2>1. PICK j \in Bad : \A i \in Bad : j <= i
    <3> HIDE DEF Bad
    <3>1. Bad \subseteq Nat
      BY DEF Bad
    <3> QED BY <1>1, <3>1, LeastNumber
  <2>2. CASE j = 0
    <3> DEFINE g == [i \in 0 .. 0 |-> [m \in Nodes |-> {m}]]
    <3>1. Computes(links, 0, g)
      BY DEF Computes
    <3> QED BY <2>2, <3>1
  <2>3. CASE j # 0
    <3>1. PICK f : Computes(links, j - 1, f)
      BY <2>1, <2>3
    <3> DEFINE g == [i \in 0 .. j |-> IF i = j THEN [m \in Nodes |-> Grows(links, f[j - 1][m])]
                                      ELSE [m \in Nodes |-> f[i][m]]]
    <3>2. \A i \in 0 .. j - 1, m \in Nodes : g[i][m] = f[i][m]
      BY <2>1, <2>3
    <3>3. \A m \in Nodes : g[j][m] = Grows(links, f[j - 1][m])
      BY <2>1
    <3>4. /\ \A m \in Nodes : f[0][m] = {m}
          /\ \A i \in 1 .. j - 1 : \A m \in Nodes : f[i][m] = Grows(links, f[i - 1][m])
      BY <3>1 DEF Computes
    <3>5. Computes(links, j, g)
      <4>1. g = [i \in 0 .. j |-> [m \in Nodes |-> g[i][m]]]
        BY <2>1
      <4> HIDE DEF g
      <4>2. \A m \in Nodes : g[0][m] = {m}
        <5>1. 0 \in 0 .. j - 1
          BY <2>1, <2>3
        <5> QED BY <3>2, <3>4, <5>1
      <4>3. ASSUME NEW i \in 1 .. j, NEW m \in Nodes PROVE g[i][m] = Grows(links, g[i - 1][m])
        <5>1. CASE i = j
          <6>1. i - 1 \in 0 .. j - 1
            BY <2>1, <5>1
          <6> QED BY <3>2, <3>3, <5>1, <6>1
        <5>2. CASE i # j
          <6>1. i \in 1 .. j - 1 /\ i - 1 \in 0 .. j - 1 /\ i \in 0 .. j - 1
            BY <2>1, <5>2
          <6>2. f[i][m] = Grows(links, f[i - 1][m])
            BY <3>4, <6>1
          <6> QED BY <3>2, <6>1, <6>2
        <5> QED BY <5>1, <5>2
      <4> QED BY <4>1, <4>2, <4>3 DEF Computes
    <3> QED BY <2>1, <3>5
  <2> QED BY <2>2, <2>3
<1> QED BY <1>1

LEMMA ComputedOnce ==
    ASSUME NEW links, NEW j \in Nat, NEW k \in Nat, NEW f, NEW g,
           Computes(links, j, f), Computes(links, k, g),
           NEW i \in Nat, i <= j, i <= k, NEW n \in Nodes
    PROVE  f[i][n] = g[i][n]
<1> DEFINE Bad == {l \in 0 .. i : \E m \in Nodes : f[l][m] # g[l][m]}
<1>1. /\ \A m \in Nodes : f[0][m] = {m} /\ g[0][m] = {m}
      /\ \A l \in 1 .. j : \A m \in Nodes : f[l][m] = Grows(links, f[l - 1][m])
      /\ \A l \in 1 .. k : \A m \in Nodes : g[l][m] = Grows(links, g[l - 1][m])
  BY DEF Computes
<1>2. ASSUME Bad # {} PROVE FALSE
  <2>1. PICK l \in Bad : \A y \in Bad : l <= y
    <3>1. Bad \subseteq Nat
      OBVIOUS
    <3> HIDE DEF Bad
    <3> QED BY <1>2, <3>1, LeastNumber
  <2>2. PICK m \in Nodes : f[l][m] # g[l][m]
    BY <2>1
  <2>3. l # 0
    BY <1>1, <2>2
  <2>4. l - 1 \notin Bad /\ l - 1 \in 0 .. i
    <3>1. l \in 0 .. i
      BY <2>1
    <3>2. l - 1 \in 0 .. i
      BY <2>3, <3>1
    <3> HIDE DEF Bad
    <3> QED BY <2>1, <3>1, <3>2
  <2>5. f[l - 1][m] = g[l - 1][m]
    BY <2>4
  <2>6. l \in 1 .. j /\ l \in 1 .. k
    BY <2>1, <2>3
  <2>7. f[l][m] = g[l][m]
    BY <1>1, <2>5, <2>6
  <2> QED BY <2>2, <2>7
<1> QED BY <1>2

LEMMA WithinRule ==
    ASSUME NEW links, NEW n \in Nodes
    PROVE  /\ Within(links, 0, n) = {n}
           /\ \A k \in Nat : Within(links, k + 1, n) = Grows(links, Within(links, k, n))
<1> DEFINE F(V) == [j \in Nat |-> [m \in Nodes |-> IF j = 0 THEN {m} ELSE Grows(links, V[j - 1][m])]]
           G(k) == CHOOSE g : Computes(links, k, g)
           V == [j \in Nat |-> [m \in Nodes |-> G(j)[j][m]]]
           W == CHOOSE W : W = F(W)
<1>1. \A k \in Nat : Computes(links, k, G(k))
  BY Computable
<1>2. V = F(V)
  <2>1. 0 \in Nat /\ Computes(links, 0, G(0))
    BY <1>1
  <2> HIDE DEF G
  <2>2. \A m \in Nodes : V[0][m] = {m}
    BY <2>1 DEF Computes
  <2>3. ASSUME NEW j \in Nat \ {0}, NEW m \in Nodes PROVE V[j][m] = Grows(links, V[j - 1][m])
    <3>1. j \in 1 .. j /\ j - 1 \in Nat /\ j - 1 <= j - 1 /\ j - 1 <= j
      OBVIOUS
    <3>2. Computes(links, j, G(j)) /\ Computes(links, j - 1, G(j - 1))
      BY <1>1, <3>1
    <3>3. G(j)[j - 1][m] = G(j - 1)[j - 1][m]
      BY <3>1, <3>2, ComputedOnce
    <3>4. G(j)[j][m] = Grows(links, G(j)[j - 1][m])
      BY <3>1, <3>2 DEF Computes
    <3> QED BY <3>1, <3>3, <3>4
  <2>4. ASSUME NEW j \in Nat
        PROVE  V[j] = [m \in Nodes |-> IF j = 0 THEN {m} ELSE Grows(links, V[j - 1][m])]
    <3>1. V[j] = [m \in Nodes |-> V[j][m]]
      OBVIOUS
    <3> HIDE DEF V
    <3>2. CASE j = 0
      BY <2>2, <3>1, <3>2
    <3>3. CASE j # 0
      <4>1. \A m \in Nodes : V[j][m] = Grows(links, V[j - 1][m])
        BY <2>3, <3>3
      <4> QED BY <3>1, <3>3, <4>1
    <3> QED BY <3>2, <3>3
  <2> QED BY <2>4
<1>3. W = F(W)
  <2> HIDE DEF V, F
  <2> QED BY <1>2
<1>4. \A k : Within(links, k, n) = W[k][n]
  BY DEF Within, Grows
<1> HIDE DEF W
<1>5. W[0][n] = {n}
  BY <1>3
<1>6. ASSUME NEW k \in Nat PROVE W[k + 1][n] = Grows(links, W[k][n])
  <2>1. k + 1 \in Nat /\ k + 1 # 0 /\ (k + 1) - 1 = k
    OBVIOUS
  <2>2. \A j \in Nat \ {0} : W[j][n] = Grows(links, W[j - 1][n])
    <3>1. ASSUME NEW j \in Nat \ {0} PROVE W[j][n] = Grows(links, W[j - 1][n])
      <4>1. W[j] = F(W)[j]
        BY <1>3
      <4>2. F(W)[j] = [m \in Nodes |-> IF j = 0 THEN {m} ELSE Grows(links, W[j - 1][m])]
        OBVIOUS
      <4> QED BY <4>1, <4>2
    <3> QED BY <3>1
  <2> QED BY <2>1, <2>2
<1> QED BY <1>4, <1>5, <1>6

(* Node d is at most k links away from n.                                       *)
Near(d, k, n) == k \in Nat /\ d \in Within(Links, k, n)

LEMMA NearSelf == ASSUME NEW n \in Nodes PROVE Near(n, 0, n)
BY WithinRule DEF Near

LEMMA NearRule ==
    ASSUME NEW n \in Nodes, NEW k \in Nat, NEW d
    PROVE  Near(d, k + 1, n) <=> \E l : Near(l, k, n) /\ (d = l \/ d \in Links[l])
<1>1. Within(Links, k + 1, n) = Grows(Links, Within(Links, k, n))
  BY WithinRule
<1> QED BY <1>1 DEF Near, Grows

(* What is near a neighbour is one link further away.                           *)
LEMMA NearNeighbour ==
    ASSUME NEW m \in Nodes, NEW n \in Nodes, n \in Links[m], NEW d, NEW k, Near(d, k, n)
    PROVE  Near(d, k + 1, m)
<1> DEFINE Bad == {j \in Nat : \E x : Near(x, j, n) /\ ~Near(x, j + 1, m)}
<1>1. ASSUME Bad # {} PROVE FALSE
  <2>1. PICK j \in Bad : \A y \in Bad : j <= y
    <3>1. Bad \subseteq Nat
      OBVIOUS
    <3> HIDE DEF Bad
    <3> QED BY <1>1, <3>1, LeastNumber
  <2>2. PICK x : Near(x, j, n) /\ ~Near(x, j + 1, m)
    BY <2>1
  <2>3. CASE j = 0
    <3>1. x = n
      BY <2>2, <2>3, WithinRule DEF Near
    <3>2. Near(m, 0, m)
      BY NearSelf
    <3>3. Near(x, 0 + 1, m)
      BY <3>1, <3>2, NearRule
    <3> QED BY <2>2, <2>3, <3>3
  <2>4. CASE j # 0
    <3>1. j - 1 \in Nat /\ (j - 1) + 1 = j /\ j - 1 \notin Bad
      <4>1. j \in Nat
        BY <2>1
      <4>2. j - 1 \in Nat
        BY <2>4, <4>1
      <4> HIDE DEF Bad
      <4> QED BY <2>1, <4>1, <4>2
    <3>2. PICK l : Near(l, j - 1, n) /\ (x = l \/ x \in Links[l])
      BY <2>2, <3>1, NearRule
    <3>3. Near(l, (j - 1) + 1, m)
      BY <3>1, <3>2
    <3>4. Near(x, j + 1, m)
      BY <3>1, <3>2, <3>3, NearRule
    <3> QED BY <2>2, <3>4
  <2> QED BY <2>3, <2>4
<1>2. k \in Nat
  BY DEF Near
<1> QED BY <1>1, <1>2

LEMMA NearStays ==
    ASSUME UNCHANGED scenario
    PROVE  \A d, k, n : Near(d, k, n)' <=> Near(d, k, n)
BY DEF Near, Links

----------------------------------------------------------------------------------
(* The state of a node                                                          *)

PacketTypes == {"DATA", "REQUEST", "REPLY", "ACK", "HELLO"}
Packets == [type : PacketTypes, fromDest : BOOLEAN, src : Nodes, dst : Nodes, cur : Nodes,
            pre : Nodes, seq : Int, id : Nat, actual : Nat, expected : Nat, max : Nat,
            delay : Nat, canceled : BOOLEAN, resend : Nat, fresh : BOOLEAN, hello : Nat]
Costs == [hc : Nat, pending : Nat, changing : BOOLEAN, ctr : Int]
Tables == UNION {[known -> Costs] : known \in SUBSET Nodes}
States == [opt : Options, busy : BOOLEAN,
           mac : {"none", "transition", "defer", "overlapped", "canceled"},
           active : Packets \union {NoPacket}, queue : Seq(Packets), delayed : Seq(Packets),
           acks : Seq(Packets), buffer : SUBSET Packets, table : Tables, number : Nat,
           seen : SUBSET (Nodes \X Int), up : Seq(Nodes \X Nat), dropped : SUBSET PacketTypes]

(* The hop counts a packet at node me carries, and the table's, are no less     *)
(* than the distances.                                                          *)
Placed(me, p) ==
    /\ p \in Packets
    /\ p.fresh => p.src = me /\ p.type # "ACK"
    /\ p.type \in {"DATA", "REQUEST", "REPLY"} => p.actual # 0 /\ Near(p.src, p.actual - 1, me)
    /\ p.type = "DATA" => Near(p.dst, p.expected, me)
    /\ p.type = "HELLO" => Near(p.dst, p.hello, me)
    /\ p.type = "ACK" => p.expected = 0

Sent(me, p) == Placed(me, p) /\ ~p.fresh
Waits(me, p) == p \in Packets /\ p.fresh /\ p.type = "DATA" /\ p.src = me /\ p.actual = 1

Truthful(me, table) ==
    \A d \in DOMAIN table : /\ Near(d, table[d].hc, me)
                            /\ table[d].changing => Near(d, table[d].pending, me)

Settled(w) == /\ w.busy <=> w.mac # "none"
              /\ w.queue # <<>> => w.busy
              /\ w.busy => w.active \in Packets

(* A packet of the application that has no number yet is at one place only.     *)
Fresh(p) == p.fresh /\ p.type = "DATA"
FreshOnce(delayed, buffer) ==
    /\ \A i, j \in DOMAIN delayed :
          Fresh(delayed[i]) /\ Fresh(delayed[j]) /\ delayed[i].id = delayed[j].id => i = j
    /\ \A i \in DOMAIN delayed : Fresh(delayed[i]) => \A q \in buffer : delayed[i].id # q.id
    /\ \A p, q \in buffer : p.id = q.id => p = q

Local(me, w) ==
    /\ w \in States
    /\ IsFiniteSet(DOMAIN w.table) /\ IsFiniteSet(w.buffer)
    /\ Settled(w)
    /\ Truthful(me, w.table)
    /\ \A p \in ToSet(w.delayed) : Placed(me, p)
    /\ \A p \in ToSet(w.queue) : Sent(me, p)
    /\ \A p \in ToSet(w.acks) : Sent(me, p) /\ p.type = "DATA"
    /\ w.busy => Sent(me, w.active)
    /\ \A p \in w.buffer : Waits(me, p)
    /\ FreshOnce(w.delayed, w.buffer)
    /\ w.up = <<>>

(* The packets of a node, and what two copies of a packet have in common.       *)
Held(w) == ToSet(w.delayed) \union ToSet(w.queue) \union ToSet(w.acks) \union w.buffer
             \union (IF w.busy THEN {w.active} ELSE {})

Like(x, y) == /\ x.type = y.type /\ x.src = y.src /\ x.dst = y.dst /\ x.seq = y.seq
              /\ x.id = y.id /\ x.fresh = y.fresh /\ x.fromDest = y.fromDest

(* x acknowledges y at me, as its destination only if it is.                    *)
Acknowledges(me, x, y) ==
    /\ x.type = "ACK" /\ ~x.fresh /\ ~y.fresh /\ x.src = y.src /\ x.seq = y.seq
    /\ x.fromDest => y.dst = me /\ y.type # "ACK"

(* A packet of me without a number yet; data come from the application only.    *)
Own(me, x) == x.src = me /\ x.fresh /\ x.type \in {"REQUEST", "REPLY", "HELLO"}

(* Where a packet x of node me comes from, old being the packets it had and P   *)
(* what it hears.                                                               *)
Comes(me, x, old, P) == \/ \E y \in old : Like(x, y)
                        \/ \E y \in P : y.type # "ACK" /\ Like(x, y)
                        \/ \E y \in P : Acknowledges(me, x, y)
                        \/ Own(me, x)

(* Node me goes from w to v without giving a number.                            *)
Calm(me, w, v, P) ==
    /\ v.number = w.number /\ w.seen \subseteq v.seen
    /\ \A x \in Held(v) : Comes(me, x, Held(w), P)

(* It gives the packet z the next number.                                       *)
Given(x, z, k) == /\ x.type = z.type /\ x.src = z.src /\ x.dst = z.dst /\ x.seq = k
                  /\ x.id = z.id /\ ~x.fresh /\ x.fromDest = z.fromDest

Numbers(me, w, v, P, z) ==
    /\ v.number = w.number + 1 /\ w.seen \subseteq v.seen /\ <<me, v.number>> \in v.seen
    /\ z.fresh /\ z.src = me /\ z.type # "ACK"
    /\ Comes(me, z, Held(w), P)
    /\ \A x \in Held(v) : Comes(me, x, Held(w), P) \/ Given(x, z, v.number)
    /\ z.type = "DATA" => \A x \in Held(v) : ~(Fresh(x) /\ x.id = z.id)

Goes(me, w, v, P) == Calm(me, w, v, P) \/ \E z : Numbers(me, w, v, P, z)

LEMMA CalmStays == ASSUME NEW me, NEW w, NEW P PROVE Calm(me, w, w, P)
BY DEF Calm, Comes, Like

LEMMA ComesOn ==
    ASSUME NEW me, NEW x, NEW old, NEW new, NEW P,
           \A y \in new : Comes(me, y, old, P), Comes(me, x, new, P)
    PROVE  Comes(me, x, old, P)
<1>1. CASE \E y \in P : (y.type # "ACK" /\ Like(x, y)) \/ Acknowledges(me, x, y)
  BY <1>1 DEF Comes
<1>2. CASE Own(me, x)
  BY <1>2 DEF Comes
<1>3. CASE \E y \in new : Like(x, y)
  <2>1. PICK y \in new : Like(x, y)
    BY <1>3
  <2>2. Comes(me, y, old, P)
    BY <2>1
  <2>3. \A z : Like(y, z) => Like(x, z)
    BY <2>1 DEF Like
  <2>4. \A z : Acknowledges(me, y, z) => Acknowledges(me, x, z)
    BY <2>1 DEF Like, Acknowledges
  <2>5. Own(me, y) => Own(me, x)
    BY <2>1 DEF Like, Own
  <2> QED BY <2>2, <2>3, <2>4, <2>5 DEF Comes
<1> QED BY <1>1, <1>2, <1>3 DEF Comes

LEMMA CalmSteps ==
    ASSUME NEW me, NEW u, NEW v, NEW w, NEW P, Calm(me, u, v, P), Calm(me, v, w, P)
    PROVE  Calm(me, u, w, P)
<1>1. \A x \in Held(w) : Comes(me, x, Held(u), P)
  BY ComesOn DEF Calm
<1>2. w.number = u.number /\ u.seen \subseteq w.seen
  BY DEF Calm
<1> QED BY <1>1, <1>2 DEF Calm

LEMMA CalmNumbers ==
    ASSUME NEW me, NEW u, NEW v, NEW w, NEW P, NEW z, Calm(me, u, v, P), Numbers(me, v, w, P, z)
    PROVE  Numbers(me, u, w, P, z)
<1>1. \A x \in Held(w) : Comes(me, x, Held(u), P) \/ Given(x, z, w.number)
  BY ComesOn DEF Calm, Numbers
<1>2. Comes(me, z, Held(u), P)
  BY ComesOn DEF Calm, Numbers
<1>3. w.number = u.number + 1 /\ u.seen \subseteq w.seen /\ <<me, w.number>> \in w.seen
  BY DEF Calm, Numbers
<1> QED BY <1>1, <1>2, <1>3 DEF Numbers

(* What is heard has a number.                                                  *)
LEMMA NumbersCalm ==
    ASSUME NEW me, NEW u, NEW v, NEW w, NEW P, NEW z, Numbers(me, u, v, P, z), Calm(me, v, w, P),
           \A y \in P : ~y.fresh
    PROVE  Numbers(me, u, w, P, z)
<1>1. ASSUME NEW x \in Held(w)
      PROVE  /\ Comes(me, x, Held(u), P) \/ Given(x, z, w.number)
             /\ z.type = "DATA" => ~(Fresh(x) /\ x.id = z.id)
  <2>1. Comes(me, x, Held(v), P) /\ w.number = v.number
    BY DEF Calm
  <2>2. CASE \E y \in P : (y.type # "ACK" /\ Like(x, y)) \/ Acknowledges(me, x, y)
    <3>1. ~x.fresh
      BY <2>2 DEF Like, Acknowledges
    <3> QED BY <2>2, <3>1 DEF Comes, Fresh
  <2>3. CASE Own(me, x)
    BY <2>3 DEF Comes, Own, Fresh
  <2>4. CASE \E y \in Held(v) : Like(x, y)
    <3>1. PICK y \in Held(v) : Like(x, y)
      BY <2>4
    <3>2. /\ Comes(me, y, Held(u), P) \/ Given(y, z, v.number)
          /\ z.type = "DATA" => ~(Fresh(y) /\ y.id = z.id)
      BY DEF Numbers
    <3>3. Comes(me, x, {y}, P)
      BY <3>1 DEF Comes
    <3>4. CASE Comes(me, y, Held(u), P)
      <4>1. Comes(me, x, Held(u), P)
        BY <3>3, <3>4, ComesOn
      <4> QED BY <3>1, <3>2, <4>1 DEF Like, Fresh
    <3>5. CASE Given(y, z, v.number)
      BY <2>1, <3>1, <3>2, <3>5 DEF Like, Given, Fresh
    <3> QED BY <3>2, <3>4, <3>5
  <2> QED BY <2>1, <2>2, <2>3, <2>4 DEF Comes
<1>2. w.number = u.number + 1 /\ u.seen \subseteq w.seen /\ <<me, w.number>> \in w.seen
  BY DEF Calm, Numbers
<1> QED BY <1>1, <1>2 DEF Numbers

----------------------------------------------------------------------------------
(* Sequences                                                                    *)

LEMMA Elements ==
    ASSUME NEW S, NEW s \in Seq(S)
    PROVE  /\ DOMAIN s = 1 .. Len(s) /\ Len(s) \in Nat
           /\ ToSet(s) \subseteq S
           /\ \A i \in 1 .. Len(s) : s[i] \in ToSet(s) /\ s[i] \in S
           /\ \A x \in ToSet(s) : \E i \in 1 .. Len(s) : x = s[i]
<1>1. DOMAIN s = 1 .. Len(s) /\ Len(s) \in Nat
  BY LenProperties
<1>2. \A i \in 1 .. Len(s) : s[i] \in S
  BY ElementOfSeq
<1> QED BY <1>1, <1>2 DEF ToSet

LEMMA Appended ==
    ASSUME NEW S, NEW s \in Seq(S), NEW e \in S
    PROVE  /\ Append(s, e) \in Seq(S) /\ Append(s, e) # <<>>
           /\ Len(Append(s, e)) = Len(s) + 1
           /\ \A i \in 1 .. Len(s) : Append(s, e)[i] = s[i]
           /\ Append(s, e)[Len(s) + 1] = e
           /\ ToSet(Append(s, e)) = ToSet(s) \union {e}
<1>1. /\ Append(s, e) \in Seq(S)
      /\ Len(Append(s, e)) = Len(s) + 1
      /\ \A i \in 1 .. Len(s) : Append(s, e)[i] = s[i]
      /\ Append(s, e)[Len(s) + 1] = e
  BY AppendProperties
<1>2. /\ DOMAIN s = 1 .. Len(s) /\ DOMAIN Append(s, e) = 1 .. Len(s) + 1 /\ Len(s) \in Nat
  BY <1>1, LenProperties
<1>3. Append(s, e) # <<>>
  BY <1>1, <1>2, EmptySeq
<1>4. ToSet(Append(s, e)) = ToSet(s) \union {e}
  <2>1. ASSUME NEW i \in 1 .. Len(s) + 1 PROVE Append(s, e)[i] \in ToSet(s) \union {e}
    BY <1>1, <1>2 DEF ToSet
  <2>2. ASSUME NEW i \in 1 .. Len(s) PROVE s[i] \in ToSet(Append(s, e))
    <3>1. i \in 1 .. Len(s) + 1
      BY <1>2
    <3> QED BY <1>1, <1>2, <3>1 DEF ToSet
  <2>3. e \in ToSet(Append(s, e))
    BY <1>1, <1>2 DEF ToSet
  <2> QED BY <1>2, <2>1, <2>2, <2>3 DEF ToSet
<1> QED BY <1>1, <1>3, <1>4

LEMMA Joined ==
    ASSUME NEW S, NEW s \in Seq(S), NEW t \in Seq(S)
    PROVE  /\ s \o t \in Seq(S)
           /\ Len(s \o t) = Len(s) + Len(t)
           /\ \A i \in 1 .. Len(s) : (s \o t)[i] = s[i]
           /\ \A i \in 1 .. Len(t) : (s \o t)[Len(s) + i] = t[i]
           /\ ToSet(s \o t) = ToSet(s) \union ToSet(t)
<1>1. /\ s \o t \in Seq(S)
      /\ Len(s \o t) = Len(s) + Len(t)
      /\ \A i \in 1 .. Len(s) + Len(t) : (s \o t)[i] = IF i <= Len(s) THEN s[i] ELSE t[i - Len(s)]
  BY ConcatProperties
<1>2. /\ DOMAIN s = 1 .. Len(s) /\ DOMAIN t = 1 .. Len(t) /\ Len(s) \in Nat /\ Len(t) \in Nat
      /\ DOMAIN (s \o t) = 1 .. Len(s) + Len(t)
  BY <1>1, LenProperties
<1>3. \A i \in 1 .. Len(s) : i \in 1 .. Len(s) + Len(t) /\ (s \o t)[i] = s[i]
  BY <1>1, <1>2
<1>4. \A i \in 1 .. Len(t) : Len(s) + i \in 1 .. Len(s) + Len(t) /\ (s \o t)[Len(s) + i] = t[i]
  BY <1>1, <1>2
<1>5. ASSUME NEW i \in 1 .. Len(s) + Len(t) PROVE (s \o t)[i] \in ToSet(s) \union ToSet(t)
  <2>1. CASE i <= Len(s)
    BY <1>2, <1>3, <2>1 DEF ToSet
  <2>2. CASE i > Len(s)
    <3>1. i - Len(s) \in 1 .. Len(t)
      BY <1>2, <2>2
    <3> QED BY <1>1, <1>2, <2>2, <3>1 DEF ToSet
  <2> QED BY <1>2, <2>1, <2>2
<1> HIDE DEF ToSet
<1>6. ToSet(s \o t) = ToSet(s) \union ToSet(t)
  <2>1. ASSUME NEW x \in ToSet(s) \union ToSet(t) PROVE x \in ToSet(s \o t)
    <3>1. CASE x \in ToSet(s)
      BY <1>2, <1>3, <3>1 DEF ToSet
    <3>2. CASE x \in ToSet(t)
      <4>1. PICK i \in 1 .. Len(t) : x = t[i]
        BY <1>2, <3>2 DEF ToSet
      <4>2. Len(s) + i \in DOMAIN (s \o t) /\ (s \o t)[Len(s) + i] = x
        BY <1>2, <1>4, <4>1
      <4> QED BY <4>2 DEF ToSet
    <3> QED BY <2>1, <3>1, <3>2
  <2>2. ASSUME NEW x \in ToSet(s \o t) PROVE x \in ToSet(s) \union ToSet(t)
    <3>1. PICK i \in 1 .. Len(s) + Len(t) : x = (s \o t)[i]
      BY <1>2, <2>2 DEF ToSet
    <3> QED BY <1>5, <3>1
  <2> QED BY <2>1, <2>2
<1> QED BY <1>1, <1>3, <1>4, <1>6

LEMMA Removed ==
    ASSUME NEW S, NEW s \in Seq(S), NEW i \in 1 .. Len(s)
    PROVE  /\ RemoveAt(s, i) \in Seq(S)
           /\ Len(RemoveAt(s, i)) = Len(s) - 1
           /\ \A j \in 1 .. Len(s) - 1 : RemoveAt(s, i)[j] = s[IF j < i THEN j ELSE j + 1]
           /\ ToSet(RemoveAt(s, i)) \subseteq ToSet(s)
<1> DEFINE a == SubSeq(s, 1, i - 1)
           b == SubSeq(s, i + 1, Len(s))
<1>1. Len(s) \in Nat /\ \A j \in 1 .. Len(s) : s[j] \in S
  BY LenProperties, ElementOfSeq
<1>2. a \in Seq(S) /\ Len(a) = i - 1 /\ \A j \in 1 .. i - 1 : a[j] = s[j]
  BY <1>1, SubSeqProperties
<1>3. b \in Seq(S) /\ Len(b) = Len(s) - i /\ \A j \in 1 .. Len(s) - i : b[j] = s[j + i]
  <2>1. \A j \in i + 1 .. Len(s) : s[j] \in S
    BY <1>1
  <2>2. /\ b \in Seq(S)
        /\ Len(b) = IF i + 1 <= Len(s) THEN Len(s) - (i + 1) + 1 ELSE 0
        /\ \A j \in 1 .. Len(s) - (i + 1) + 1 : b[j] = s[(i + 1) + j - 1]
    BY <1>1, <2>1, SubSeqProperties
  <2>3. Len(b) = Len(s) - i
    BY <1>1, <2>2
  <2>4. ASSUME NEW j \in 1 .. Len(s) - i PROVE b[j] = s[j + i]
    <3>1. j \in 1 .. Len(s) - (i + 1) + 1 /\ (i + 1) + j - 1 = j + i
      BY <1>1
    <3> QED BY <2>2, <3>1
  <2> QED BY <2>2, <2>3, <2>4
<1>4. /\ a \o b \in Seq(S) /\ Len(a \o b) = Len(s) - 1
      /\ \A j \in 1 .. Len(s) - 1 : (a \o b)[j] = IF j <= i - 1 THEN a[j] ELSE b[j - (i - 1)]
  <2> HIDE DEF a, b
  <2>1. /\ a \o b \in Seq(S) /\ Len(a \o b) = Len(a) + Len(b)
        /\ \A j \in 1 .. Len(a) + Len(b) : (a \o b)[j] = IF j <= Len(a) THEN a[j] ELSE b[j - Len(a)]
    BY <1>2, <1>3, ConcatProperties
  <2>2. Len(a) = i - 1 /\ Len(a) + Len(b) = Len(s) - 1
    BY <1>1, <1>2, <1>3
  <2> QED BY <2>1, <2>2
<1>5. RemoveAt(s, i) = a \o b
  BY DEF RemoveAt
<1>6. ASSUME NEW j \in 1 .. Len(s) - 1
      PROVE  (a \o b)[j] = s[IF j < i THEN j ELSE j + 1]
  <2> HIDE DEF a, b
  <2>1. CASE j < i
    <3>1. j \in 1 .. i - 1 /\ j <= i - 1
      BY <1>1, <2>1
    <3> QED BY <1>2, <1>4, <2>1, <3>1
  <2>2. CASE ~(j < i)
    <3>1. j - (i - 1) \in 1 .. Len(s) - i /\ (j - (i - 1)) + i = j + 1 /\ ~(j <= i - 1)
      BY <1>1, <2>2
    <3>2. (a \o b)[j] = b[j - (i - 1)]
      BY <1>4, <3>1
    <3> QED BY <1>3, <2>2, <3>1, <3>2
  <2> QED BY <2>1, <2>2
<1>7. ASSUME NEW x \in ToSet(a \o b) PROVE x \in ToSet(s)
  <2> HIDE DEF a, b
  <2>1. PICK j \in 1 .. Len(s) - 1 : x = (a \o b)[j]
    BY <1>4, LenProperties DEF ToSet
  <2>2. (IF j < i THEN j ELSE j + 1) \in 1 .. Len(s)
    BY <1>1
  <2> QED BY <1>6, <2>1, <2>2, LenProperties DEF ToSet
<1> HIDE DEF a, b
<1> QED BY <1>4, <1>5, <1>6, <1>7

LEMMA Inserted ==
    ASSUME NEW S, NEW s \in Seq(S), NEW i \in 1 .. Len(s) + 1, NEW e \in S
    PROVE  InsertAt(s, i, e) \in Seq(S) /\ ToSet(InsertAt(s, i, e)) \subseteq ToSet(s) \union {e}
<1> DEFINE a == SubSeq(s, 1, i - 1)
           b == SubSeq(s, i, Len(s))
<1>1. Len(s) \in Nat /\ DOMAIN s = 1 .. Len(s) /\ \A j \in 1 .. Len(s) : s[j] \in S
  BY LenProperties, ElementOfSeq
<1>2. \A j \in 1 .. Len(s) : s[j] \in ToSet(s) \union {e}
  BY <1>1 DEF ToSet
<1>3. a \in Seq(ToSet(s) \union {e}) /\ b \in Seq(ToSet(s) \union {e})
  <2> HIDE DEF ToSet
  <2>1. \A j \in 1 .. i - 1 : s[j] \in ToSet(s) \union {e}
    BY <1>1, <1>2
  <2>2. \A j \in i .. Len(s) : s[j] \in ToSet(s) \union {e}
    BY <1>1, <1>2
  <2>3. i - 1 \in Int /\ i \in Int /\ Len(s) \in Int
    BY <1>1
  <2> QED BY <2>1, <2>2, <2>3, SubSeqProperties
<1>4. <<e>> \in Seq(ToSet(s) \union {e})
  OBVIOUS
<1> HIDE DEF a, b
<1>5. (a \o <<e>>) \o b \in Seq(ToSet(s) \union {e})
  BY <1>3, <1>4, ConcatProperties
<1>6. InsertAt(s, i, e) \in Seq(ToSet(s) \union {e})
  BY <1>5 DEF InsertAt, a, b
<1>7. ToSet(s) \union {e} \subseteq S
  BY <1>1 DEF ToSet
<1> HIDE DEF ToSet
<1> QED BY <1>6, <1>7, Elements, SeqMonotonic

LEMMA Taken ==
    ASSUME NEW S, NEW s \in Seq(S), s # <<>>
    PROVE  Head(s) \in ToSet(s) /\ Tail(s) \in Seq(S) /\ ToSet(Tail(s)) \subseteq ToSet(s)
<1>1. Len(s) \in Nat \ {0} /\ DOMAIN s = 1 .. Len(s)
  BY EmptySeq, LenProperties
<1>2. /\ Head(s) = s[1] /\ Tail(s) \in Seq(S) /\ Len(Tail(s)) = Len(s) - 1
      /\ \A i \in 1 .. Len(Tail(s)) : Tail(s)[i] = s[i + 1]
  BY HeadTailProperties
<1>3. ASSUME NEW i \in 1 .. Len(s) - 1 PROVE Tail(s)[i] \in ToSet(s)
  <2>1. i + 1 \in 1 .. Len(s) /\ i \in 1 .. Len(Tail(s))
    BY <1>1, <1>2
  <2> QED BY <1>1, <1>2, <2>1 DEF ToSet
<1>4. DOMAIN Tail(s) = 1 .. Len(s) - 1
  BY <1>2, LenProperties
<1> QED BY <1>1, <1>2, <1>3, <1>4 DEF ToSet

LEMMA LeastIndex ==
    ASSUME NEW n \in Nat, NEW I, I \subseteq 1 .. n
    PROVE  (IF I # {} THEN Min(I) ELSE 0) \in 0 .. n /\ (I # {} => Min(I) \in I)
<1>1. ASSUME I # {} PROVE Min(I) \in I
  <2>1. I \subseteq Nat
    OBVIOUS
  <2>2. \E x \in I : \A y \in I : x <= y
    BY <1>1, <2>1, LeastNumber
  <2> QED BY <2>2 DEF Min
<1>2. CASE I = {}
  BY <1>2
<1>3. CASE I # {}
  <2>1. Min(I) \in 1 .. n
    BY <1>1, <1>3
  <2> QED BY <1>1, <1>3, <2>1
<1> QED BY <1>2, <1>3

(* A sequence of all the elements of a set, each once.                          *)
LEMMA Listed ==
    ASSUME NEW S, IsFiniteSet(S)
    PROVE  /\ SetToSeq(S) \in Seq(S) /\ ToSet(SetToSeq(S)) \subseteq S
           /\ DOMAIN SetToSeq(S) = 1 .. Len(SetToSeq(S)) /\ Len(SetToSeq(S)) \in Nat
           /\ \A i, j \in DOMAIN SetToSeq(S) : SetToSeq(S)[i] = SetToSeq(S)[j] => i = j
<1>1. Cardinality(S) \in Nat /\ ExistsBijection(1 .. Cardinality(S), S)
  BY FS_CardinalityType
<1>2. \E f \in [1 .. Cardinality(S) -> S] : IsInjective(f)
  BY <1>1 DEF ExistsBijection, Bijection, Injection, IsInjective
<1>3. SetToSeq(S) \in [1 .. Cardinality(S) -> S] /\ IsInjective(SetToSeq(S))
  BY <1>2 DEF SetToSeq
<1>4. SetToSeq(S) \in Seq(S)
  BY <1>1, <1>3, SeqDef
<1> QED BY <1>3, <1>4, Elements DEF IsInjective

----------------------------------------------------------------------------------
(* The cost table                                                               *)

(* v has the packets of w.                                                      *)
SamePackets(w, v) ==
    /\ v.delayed = w.delayed /\ v.queue = w.queue /\ v.acks = w.acks /\ v.buffer = w.buffer
    /\ v.busy = w.busy /\ v.mac = w.mac /\ v.active = w.active

LEMMA SamePacketsCalm ==
    ASSUME NEW me, NEW w, NEW v, NEW P, SamePackets(w, v), v.number = w.number,
           w.seen \subseteq v.seen
    PROVE  Calm(me, w, v, P) /\ Held(v) = Held(w)
<1>1. Held(v) = Held(w)
  BY DEF SamePackets, Held
<1> QED BY <1>1 DEF Calm, Comes, Like

LEMMA SamePacketsLocal ==
    ASSUME NEW me, NEW w, NEW v, SamePackets(w, v), v \in States, Local(me, w),
           Truthful(me, v.table), IsFiniteSet(DOMAIN v.table), v.up = <<>>
    PROVE  Local(me, v)
BY DEF SamePackets, Local, Settled

(* What seq_number_t::hopCount may make of an entry.                             *)
Believes(c, e, hops) ==
    /\ c \in Costs
    /\ c.hc = e.hc \/ c.hc = hops
    /\ c.changing => c.pending = hops \/ (e.changing /\ c.pending = e.pending)

LEMMA Edited ==
    ASSUME NEW e \in Costs, NEW hops \in Nat, NEW b \in BOOLEAN, NEW k \in Int
    PROVE  /\ Believes(e, e, hops)
           /\ ~e.changing => Believes([e EXCEPT !.hc = hops], e, hops)
           /\ Believes([e EXCEPT !.ctr = k, !.pending = hops, !.changing = TRUE], e, hops)
           /\ e.changing => Believes([e EXCEPT !.ctr = k, !.changing = b], e, hops)
           /\ Believes([e EXCEPT !.ctr = k], e, hops)
           /\ Believes([e EXCEPT !.pending = hops], e, hops)
<1>1. Believes(e, e, hops)
  BY DEF Believes, Costs
<1>2. ASSUME ~e.changing PROVE Believes([e EXCEPT !.hc = hops], e, hops)
  BY <1>2 DEF Believes, Costs
<1>3. Believes([e EXCEPT !.ctr = k, !.pending = hops, !.changing = TRUE], e, hops)
  BY DEF Believes, Costs
<1>4. ASSUME e.changing PROVE Believes([e EXCEPT !.ctr = k, !.changing = b], e, hops)
  BY <1>4 DEF Believes, Costs
<1>5. Believes([e EXCEPT !.ctr = k], e, hops)
  BY DEF Believes, Costs
<1>6. Believes([e EXCEPT !.pending = hops], e, hops)
  BY DEF Believes, Costs
<1> QED BY <1>1, <1>2, <1>3, <1>4, <1>5, <1>6

LEMMA CountedTrue ==
    ASSUME NEW w \in States, NEW e \in Costs, NEW hops \in Nat, NEW force \in BOOLEAN
    PROVE  Believes(Counted(w, e, hops, force), e, hops)
<1>1. w.opt.repair \in Nat
  BY DEF States, Options
<1>2. Counter(w) \in Nat
  BY <1>1 DEF Counter
<1>3. Believes(Entry(w, hops), e, hops)
  BY <1>2 DEF Entry, Costs, Believes
<1>4. e.ctr + 1 \in Int /\ e.ctr - 1 \in Int
  BY DEF Costs
<1> DEFINE c == Counted(w, e, hops, force)
           b == e.ctr + 1 # Counter(w)
<1> SUFFICES Believes(c, e, hops)
  OBVIOUS
<1>5. CASE ~e.changing /\ hops = e.hc
  <2>1. c = e
    BY <1>5, Zenon DEF Counted
  <2> HIDE DEF c
  <2> QED BY <2>1, Edited, <1>4
<1>6. CASE ~e.changing /\ hops # e.hc /\ (force \/ Counter(w) < 2)
  <2>1. force \/ ~(Counter(w) >= 2)
    BY <1>2, <1>6
  <2>2. c = [e EXCEPT !.hc = hops]
    BY <1>6, <2>1, Zenon DEF Counted
  <2> HIDE DEF c
  <2> QED BY <2>2, Edited, <1>4, <1>6
<1>7. CASE ~e.changing /\ hops # e.hc /\ ~force /\ Counter(w) >= 2
  <2>1. ~(Counter(w) < 2)
    BY <1>2, <1>7
  <2>2. c = [e EXCEPT !.ctr = e.ctr - 1, !.pending = hops, !.changing = TRUE]
    BY <1>7, <2>1, Zenon DEF Counted
  <2> HIDE DEF c
  <2> QED BY <2>2, Edited, <1>4
<1>8. CASE e.changing /\ force
  <2>1. c = Entry(w, hops)
    BY <1>8, Zenon DEF Counted
  <2> HIDE DEF c
  <2> QED BY <1>3, <2>1
<1>9. CASE e.changing /\ ~force /\ hops = e.hc
  <2>1. c = [e EXCEPT !.ctr = e.ctr + 1, !.changing = b]
    BY <1>9, Zenon DEF Counted
  <2>2. b \in BOOLEAN
    OBVIOUS
  <2> HIDE DEF c, b
  <2> QED BY <2>1, <2>2, Edited, <1>4, <1>9
<1>10. CASE e.changing /\ ~force /\ hops # e.hc /\ hops = e.pending
  <2>1. c = IF e.ctr = 1 THEN Entry(w, hops) ELSE [e EXCEPT !.ctr = e.ctr - 1]
    BY <1>10, Zenon DEF Counted
  <2> HIDE DEF c
  <2> QED BY <1>3, <2>1, Edited, <1>4
<1>11. CASE e.changing /\ ~force /\ hops # e.hc /\ hops # e.pending
  <2>1. c = [e EXCEPT !.pending = hops]
    BY <1>11, Zenon DEF Counted
  <2> HIDE DEF c
  <2> QED BY <2>1, Edited, <1>4
<1>12. Counter(w) < 2 \/ Counter(w) >= 2
  BY <1>2
<1> QED BY <1>5, <1>6, <1>7, <1>8, <1>9, <1>10, <1>11, <1>12, Zenon

LEMMA TableSet ==
    ASSUME NEW t \in Tables, NEW d \in Nodes, NEW e \in Costs
    PROVE  [x \in DOMAIN t \union {d} |-> IF x = d THEN e ELSE t[x]] \in Tables
<1>1. PICK known \in SUBSET Nodes : t \in [known -> Costs]
  BY DEF Tables
<1>2. [x \in DOMAIN t \union {d} |-> IF x = d THEN e ELSE t[x]] \in [known \union {d} -> Costs]
  BY <1>1
<1>3. known \union {d} \in SUBSET Nodes
  OBVIOUS
<1> QED BY <1>2, <1>3 DEF Tables

LEMMA UpdateKept ==
    ASSUME NEW me \in Nodes, NEW w, Local(me, w), NEW d \in Nodes, NEW hops, Near(d, hops, me),
           NEW type, NEW P
    PROVE  LET v == UpdateHopCountInCache(w, me, d, hops, type)
           IN  /\ Local(me, v) /\ Calm(me, w, v, P)
               /\ SamePackets(w, v) /\ v.number = w.number /\ v.seen = w.seen /\ v.up = w.up
               /\ v.opt = w.opt
               /\ d # me => d \in DOMAIN v.table
<1> DEFINE e == IF Knows(w, d) THEN Counted(w, w.table[d], hops, type = "Hello") ELSE Entry(w, hops)
           v == UpdateHopCountInCache(w, me, d, hops, type)
<1>1. w \in States /\ hops \in Nat /\ w.table \in Tables /\ Truthful(me, w.table)
      /\ IsFiniteSet(DOMAIN w.table)
  BY DEF Local, Near, States
<1>2. CASE ~Updates(w, me, d, hops, type)
  <2>1. v = w
    BY <1>2 DEF UpdateHopCountInCache
  <2>2. d # me => d \in DOMAIN w.table
    BY <1>2 DEF Updates, Knows
  <2>3. SamePackets(w, w)
    BY DEF SamePackets
  <2> QED BY <2>1, <2>2, <2>3, CalmStays
<1>3. CASE Updates(w, me, d, hops, type)
  <2>1. v = [w EXCEPT !.table = [x \in DOMAIN @ \union {d} |-> IF x = d THEN e ELSE @[x]]]
    BY <1>3 DEF UpdateHopCountInCache
  <2>2. /\ e \in Costs
        /\ Near(d, e.hc, me)
        /\ e.changing => Near(d, e.pending, me)
    <3>1. CASE Knows(w, d)
      <4>1. w.table[d] \in Costs
        BY <1>1, <3>1 DEF Knows, Tables
      <4>2. e = Counted(w, w.table[d], hops, type = "Hello")
        BY <3>1
      <4>3. Near(d, w.table[d].hc, me) /\ (w.table[d].changing => Near(d, w.table[d].pending, me))
        BY <1>1, <3>1 DEF Truthful, Knows
      <4>4. (type = "Hello") \in BOOLEAN
        OBVIOUS
      <4> HIDE DEF e
      <4>5. Believes(e, w.table[d], hops)
        BY <1>1, <4>1, <4>2, <4>4, CountedTrue
      <4> QED BY <4>3, <4>5 DEF Believes
    <3>2. CASE ~Knows(w, d)
      <4>1. e = [hc |-> hops, pending |-> 0, changing |-> FALSE, ctr |-> Counter(w)]
        BY <3>2 DEF Entry
      <4>2. Counter(w) \in Int
        BY <1>1 DEF States, Options, Counter
      <4> HIDE DEF e
      <4> QED BY <1>1, <4>1, <4>2 DEF Costs
    <3> QED BY <3>1, <3>2
  <2> HIDE DEF e
  <2> DEFINE t == [x \in DOMAIN w.table \union {d} |-> IF x = d THEN e ELSE w.table[x]]
  <2>3. /\ t \in Tables /\ DOMAIN t = DOMAIN w.table \union {d}
        /\ \A x \in DOMAIN w.table \union {d} : t[x] = IF x = d THEN e ELSE w.table[x]
    BY <1>1, <2>2, TableSet
  <2>4. IsFiniteSet(DOMAIN t)
    BY <1>1, <2>3, FS_AddElement
  <2>5. Truthful(me, t)
    BY <1>1, <2>2, <2>3 DEF Truthful
  <2> HIDE DEF t
  <2>6. v = [w EXCEPT !.table = t]
    BY <2>1 DEF t
  <2> HIDE DEF v
  <2>7. v \in States
    BY <1>1, <2>3, <2>6 DEF States
  <2>8. v.table = t /\ SamePackets(w, v) /\ v.number = w.number /\ v.seen = w.seen
        /\ v.up = w.up /\ v.opt = w.opt
    BY <1>1, <2>6 DEF States, SamePackets
  <2>9. Local(me, v)
    BY <2>4, <2>5, <2>7, <2>8, SamePacketsLocal DEF Local
  <2>10. Calm(me, w, v, P)
    BY <2>8, SamePacketsCalm
  <2> QED BY <2>3, <2>8, <2>9, <2>10 DEF v
<1> QED BY <1>2, <1>3


----------------------------------------------------------------------------------
(* Parts of the state that change                                               *)

LEMMA HeldCalm ==
    ASSUME NEW me, NEW w, NEW v, NEW P, v.number = w.number, w.seen \subseteq v.seen,
           \A x \in Held(v) : x \in Held(w) \/ Comes(me, x, Held(w), P)
    PROVE  Calm(me, w, v, P)
<1>1. \A x \in Held(w) : Comes(me, x, Held(w), P)
  BY DEF Comes, Like
<1> QED BY <1>1 DEF Calm


LEMMA DelayedSet ==
    ASSUME NEW me, NEW w, Local(me, w), NEW s \in Seq(Packets),
           \A p \in ToSet(s) : Placed(me, p), FreshOnce(s, w.buffer)
    PROVE  LET v == [w EXCEPT !.delayed = s]
           IN  /\ Local(me, v) /\ Held(v) \subseteq Held(w) \union ToSet(s)
               /\ v.number = w.number /\ v.seen = w.seen
<1> DEFINE v == [w EXCEPT !.delayed = s]
<1>1. w \in States
  BY DEF Local
<1>2. v \in States
  BY <1>1 DEF States
<1>3. /\ v.busy = w.busy /\ v.mac = w.mac /\ v.active = w.active
      /\ v.queue = w.queue /\ v.delayed = s /\ v.acks = w.acks /\ v.buffer = w.buffer
      /\ v.table = w.table /\ v.number = w.number /\ v.seen = w.seen /\ v.up = w.up
  BY <1>1 DEF States
<1> HIDE DEF v
<1>4. Local(me, v)
  BY <1>2, <1>3 DEF Local, Settled
<1>5. Held(v) \subseteq Held(w) \union ToSet(s)
  BY <1>3 DEF Held
<1> QED BY <1>3, <1>4, <1>5 DEF v

LEMMA AcksSet ==
    ASSUME NEW me, NEW w, Local(me, w), NEW s \in Seq(Packets),
           \A p \in ToSet(s) : Sent(me, p) /\ p.type = "DATA"
    PROVE  LET v == [w EXCEPT !.acks = s]
           IN  /\ Local(me, v) /\ Held(v) \subseteq Held(w) \union ToSet(s)
               /\ v.number = w.number /\ v.seen = w.seen
               /\ v.busy = w.busy /\ v.active = w.active /\ v.queue = w.queue /\ v.acks = s
               /\ v.delayed = w.delayed /\ v.table = w.table
<1> DEFINE v == [w EXCEPT !.acks = s]
<1>1. w \in States
  BY DEF Local
<1>2. v \in States
  BY <1>1 DEF States
<1>3. /\ v.busy = w.busy /\ v.mac = w.mac /\ v.active = w.active
      /\ v.queue = w.queue /\ v.delayed = w.delayed /\ v.acks = s /\ v.buffer = w.buffer
      /\ v.table = w.table /\ v.number = w.number /\ v.seen = w.seen /\ v.up = w.up
  BY <1>1 DEF States
<1> HIDE DEF v
<1>4. Local(me, v)
  BY <1>2, <1>3 DEF Local, Settled
<1>5. Held(v) \subseteq Held(w) \union ToSet(s)
  BY <1>3 DEF Held
<1> QED BY <1>3, <1>4, <1>5 DEF v

LEMMA MacSet ==
    ASSUME NEW me, NEW w, Local(me, w), NEW v \in States,
           v.delayed = w.delayed, v.acks = w.acks, v.buffer = w.buffer, v.table = w.table,
           v.up = w.up, Settled(v), v.busy => Sent(me, v.active),
           \A p \in ToSet(v.queue) : Sent(me, p)
    PROVE  /\ Local(me, v)
           /\ \A x \in Held(v) : x \in Held(w) \/ x \in ToSet(v.queue) \/ (v.busy /\ x = v.active)
BY DEF Local, Held

LEMMA DroppedSet ==
    ASSUME NEW me \in Nodes, NEW w, Local(me, w), NEW S \in SUBSET PacketTypes
    PROVE  LET v == [w EXCEPT !.dropped = S]
           IN  /\ Local(me, v) /\ SamePackets(w, v) /\ Held(v) = Held(w)
               /\ v.number = w.number /\ v.seen = w.seen /\ v.table = w.table
<1> DEFINE v == [w EXCEPT !.dropped = S]
<1>1. w \in States
  BY DEF Local
<1>2. v \in States
  BY <1>1 DEF States
<1>3. /\ v.busy = w.busy /\ v.mac = w.mac /\ v.active = w.active
      /\ v.queue = w.queue /\ v.delayed = w.delayed /\ v.acks = w.acks /\ v.buffer = w.buffer
      /\ v.table = w.table /\ v.number = w.number /\ v.seen = w.seen /\ v.up = w.up
  BY <1>1 DEF States
<1> HIDE DEF v
<1>4. Local(me, v) /\ SamePackets(w, v)
  BY <1>2, <1>3 DEF Local, Settled, SamePackets
<1>5. Held(v) = Held(w)
  BY <1>3 DEF Held
<1> QED BY <1>3, <1>4, <1>5 DEF v

LEMMA Types ==
    ASSUME NEW w \in States
    PROVE  /\ w.delayed \in Seq(Packets) /\ w.queue \in Seq(Packets) /\ w.acks \in Seq(Packets)
           /\ w.buffer \subseteq Packets /\ w.number \in Nat /\ w.seen \in SUBSET (Nodes \X Int)
           /\ w.busy \in BOOLEAN /\ w.mac \in {"none", "transition", "defer", "overlapped", "canceled"}
           /\ w.active \in Packets \union {NoPacket} /\ w.table \in Tables
           /\ w.dropped \in SUBSET PacketTypes /\ w.opt \in Options /\ w.up \in Seq(Nodes \X Nat)
BY DEF States

----------------------------------------------------------------------------------
(* Sending                                                                      *)

(* The packet q with its number goes to the MAC, or to the queue before it.     *)
Handed(w, q) == IF w.busy THEN AddToSendQueue(w, q) ELSE SendToMac([w EXCEPT !.active = q])

LEMMA HandedKept ==
    ASSUME NEW me \in Nodes, NEW w, Local(me, w), NEW q, Sent(me, q)
    PROVE  /\ Local(me, Handed(w, q))
           /\ Held(Handed(w, q)) \subseteq Held(w) \union {q}
           /\ Handed(w, q).number = w.number /\ Handed(w, q).seen = w.seen
           /\ Handed(w, q).delayed = w.delayed /\ Handed(w, q).buffer = w.buffer
           /\ Handed(w, q).acks = w.acks /\ Handed(w, q).table = w.table
<1>1. w \in States /\ q \in Packets
  BY DEF Local, Sent, Placed
<1>2. \A p \in ToSet(w.queue) : Sent(me, p)
  BY DEF Local
<1>3. CASE w.busy
  <2> DEFINE I == {i \in 1 .. Len(w.queue) : w.queue[i].delay > q.delay}
             later == IF I # {} THEN Min(I) ELSE 0
             i == IF later = 0 THEN Len(w.queue) + 1 ELSE later
             s == InsertAt(w.queue, i, q)
             v == [w EXCEPT !.queue = s]
  <2>1. Handed(w, q) = [w EXCEPT !.queue = s]
    BY <1>3, Zenon DEF Handed, AddToSendQueue, SelectInSeq
  <2>2. Len(w.queue) \in Nat
    BY <1>1, Types, Elements
  <2>3. later \in 0 .. Len(w.queue)
    <3>1. I \subseteq 1 .. Len(w.queue)
      OBVIOUS
    <3> HIDE DEF I
    <3> QED BY <2>2, <3>1, LeastIndex
  <2> HIDE DEF later
  <2>4. i \in 1 .. Len(w.queue) + 1
    BY <2>2, <2>3
  <2> HIDE DEF i
  <2>5. s \in Seq(Packets) /\ ToSet(s) \subseteq ToSet(w.queue) \union {q}
    BY <1>1, <2>4, Types, Inserted
  <2> HIDE DEF s
  <2>6. /\ v \in States /\ v.busy = w.busy /\ v.mac = w.mac /\ v.active = w.active /\ v.queue = s
        /\ v.delayed = w.delayed /\ v.acks = w.acks /\ v.buffer = w.buffer /\ v.table = w.table
        /\ v.up = w.up /\ v.number = w.number /\ v.seen = w.seen
    BY <1>1, <2>5 DEF States
  <2> HIDE DEF v
  <2>7. Settled(v) /\ (v.busy => Sent(me, v.active))
    BY <1>3, <2>6 DEF Local, Settled
  <2>8. \A p \in ToSet(v.queue) : Sent(me, p)
    BY <1>2, <2>5, <2>6
  <2>9. /\ Local(me, v)
        /\ \A x \in Held(v) : x \in Held(w) \/ x \in ToSet(s) \/ (v.busy /\ x = w.active)
    BY <2>6, <2>7, <2>8, MacSet
  <2>10. ToSet(w.queue) \subseteq Held(w) /\ (w.busy => w.active \in Held(w))
    BY DEF Held
  <2> QED BY <1>3, <2>1, <2>5, <2>6, <2>9, <2>10 DEF v
<1>4. CASE ~w.busy
  <2> DEFINE mac == IF w.opt.transition THEN "transition" ELSE "defer"
             v == Handed(w, q)
  <2>1. v = [w EXCEPT !.active = q, !.busy = TRUE, !.mac = mac]
    BY <1>1, <1>4 DEF Handed, SendToMac, States
  <2>2. mac \in {"none", "transition", "defer", "overlapped", "canceled"} /\ mac # "none"
    OBVIOUS
  <2> HIDE DEF mac, v
  <2>3. /\ v \in States /\ v.busy = TRUE /\ v.mac = mac /\ v.active = q /\ v.queue = w.queue
        /\ v.delayed = w.delayed /\ v.acks = w.acks /\ v.buffer = w.buffer /\ v.table = w.table
        /\ v.up = w.up /\ v.number = w.number /\ v.seen = w.seen
    BY <1>1, <2>1, <2>2 DEF States
  <2>4. Settled(v) /\ (v.busy => Sent(me, v.active)) /\ \A p \in ToSet(v.queue) : Sent(me, p)
    BY <1>1, <1>2, <2>2, <2>3 DEF Settled
  <2>5. Local(me, v) /\ \A x \in Held(v) : x \in Held(w) \/ x \in ToSet(w.queue) \/ x = q
    BY <2>3, <2>4, MacSet
  <2>6. ToSet(w.queue) \subseteq Held(w)
    BY DEF Held
  <2> QED BY <2>3, <2>5, <2>6 DEF v
<1>5. w.busy \in BOOLEAN
  BY <1>1, Types
<1> QED BY <1>3, <1>4, <1>5

LEMMA SentAgain ==
    ASSUME NEW me \in Nodes, NEW p, Sent(me, p)
    PROVE  LET q == [p EXCEPT !.canceled = FALSE, !.fresh = FALSE]
           IN  Sent(me, q) /\ Like(q, p)
BY DEF Sent, Placed, Like, Packets

(* Node me has come from o to w, and v has no more than that and new packets.   *)
LEMMA CalmMore ==
    ASSUME NEW me, NEW o, NEW w, NEW v, NEW P, Calm(me, o, w, P), v.number = w.number,
           w.seen \subseteq v.seen,
           \A x \in Held(v) : x \in Held(w) \/ Comes(me, x, Held(o), P)
    PROVE  Calm(me, o, v, P)
BY DEF Calm

LEMMA AssignSent ==
    ASSUME NEW me \in Nodes, NEW w, Local(me, w), NEW p, Sent(me, p), NEW P,
           NEW o, Calm(me, o, w, P), Comes(me, p, Held(o), P)
    PROVE  LET v == AssignSeqNumber(w, me, p)
           IN  /\ Local(me, v) /\ Calm(me, o, v, P)
               /\ v.acks = w.acks /\ v.table = w.table /\ v.delayed = w.delayed /\ v.seen = w.seen
<1> DEFINE q == [p EXCEPT !.canceled = FALSE, !.fresh = FALSE]
           v == AssignSeqNumber(w, me, p)
<1>1. v = Handed(w, q)
  <2>1. ~p.fresh /\ p = [p EXCEPT !.seq = p.seq]
    BY DEF Sent, Placed, Packets
  <2>2. q = [p EXCEPT !.canceled = FALSE, !.fresh = FALSE, !.seq = p.seq]
    BY DEF Sent, Placed, Packets
  <2> HIDE DEF q
  <2>3. ~(p.fresh /\ p.src = me)
    BY <2>1
  <2> QED BY <2>2, <2>3, Zenon DEF AssignSeqNumber, Handed
<1>2. Sent(me, q) /\ Like(q, p)
  BY SentAgain
<1> HIDE DEF q, v
<1>3. Comes(me, q, Held(o), P)
  <2>1. Comes(me, q, {p}, P)
    BY <1>2 DEF Comes
  <2> QED BY <2>1, ComesOn
<1>4. /\ Local(me, v) /\ Held(v) \subseteq Held(w) \union {q}
      /\ v.number = w.number /\ v.seen = w.seen /\ v.acks = w.acks /\ v.table = w.table
      /\ v.delayed = w.delayed
  BY <1>1, <1>2, HandedKept
<1>5. Calm(me, o, v, P)
  BY <1>3, <1>4, CalmMore
<1> QED BY <1>4, <1>5 DEF v

LEMMA GivenNumber ==
    ASSUME NEW me \in Nodes, NEW p, Placed(me, p), p.fresh, NEW k \in Int
    PROVE  LET q == [p EXCEPT !.canceled = FALSE, !.fresh = FALSE, !.seq = k]
           IN  Sent(me, q) /\ Given(q, p, k) /\ q.seq = k
<1> DEFINE q == [p EXCEPT !.canceled = FALSE, !.fresh = FALSE, !.seq = k]
<1>1. p \in Packets
  BY DEF Placed
<1>2. q \in Packets
  BY <1>1 DEF Packets
<1>3. /\ q.type = p.type /\ q.src = p.src /\ q.dst = p.dst /\ q.seq = k /\ q.id = p.id /\ q.fresh = FALSE
      /\ q.fromDest = p.fromDest /\ q.actual = p.actual /\ q.expected = p.expected /\ q.hello = p.hello
  BY <1>1 DEF Packets
<1> HIDE DEF q
<1>4. Sent(me, q)
  BY <1>2, <1>3 DEF Sent, Placed
<1>5. Given(q, p, k)
  BY <1>3 DEF Given
<1> QED BY <1>3, <1>4, <1>5 DEF q

(* A packet of the application gets its number where no other place has it.     *)
LEMMA AssignFresh ==
    ASSUME NEW me \in Nodes, NEW w, Local(me, w), NEW p, Placed(me, p), p.fresh, NEW P,
           NEW o, Calm(me, o, w, P), Comes(me, p, Held(o), P),
           p.type = "DATA" => \A x \in Held(w) : ~(Fresh(x) /\ x.id = p.id)
    PROVE  LET v == AssignSeqNumber(w, me, p)
           IN  /\ Local(me, v) /\ Numbers(me, o, v, P, p)
               /\ v.acks = w.acks /\ v.table = w.table /\ v.buffer = w.buffer
<1> DEFINE k == w.number + 1
           q == [p EXCEPT !.canceled = FALSE, !.fresh = FALSE, !.seq = k]
           S == w.seen \union {<<me, k>>}
           u == [w EXCEPT !.number = k, !.seen = S]
           v == AssignSeqNumber(w, me, p)
<1>1. w \in States
  BY DEF Local
<1>2. w.number \in Nat /\ k \in Nat /\ w.seen \in SUBSET (Nodes \X Int) /\ S \in SUBSET (Nodes \X Int)
  BY <1>1, Types
<1>3. Sent(me, q) /\ Given(q, p, k) /\ q.seq = k
  <2>1. k \in Int
    BY <1>2
  <2> HIDE DEF k
  <2> QED BY <2>1, GivenNumber
<1>4. p.src = me /\ p.type # "ACK"
  BY DEF Placed
<1>5. v = Handed(u, q)
  <2>1. p.fresh /\ p.src = me
    BY <1>4
  <2>2. u = [w EXCEPT !.number = w.number + 1, !.seen = w.seen \union {<<me, q.seq>>}]
    BY <1>3
  <2>3. u.busy = w.busy
    BY <1>1 DEF States
  <2> DEFINE new == p.fresh /\ p.src = me
             q1 == [p EXCEPT !.canceled = FALSE, !.fresh = FALSE,
                             !.seq = IF new THEN w.number + 1 ELSE p.seq]
             u1 == IF new THEN [w EXCEPT !.number = w.number + 1,
                                         !.seen = w.seen \union {<<me, q1.seq>>}] ELSE w
  <2>4. v = IF w.busy THEN AddToSendQueue(u1, q1) ELSE SendToMac([u1 EXCEPT !.active = q1])
    BY Zenon DEF AssignSeqNumber
  <2>5. q1 = q
    BY <2>1
  <2> HIDE DEF q1, q
  <2>6. u1 = u
    BY <2>1, <2>2, <2>5
  <2> HIDE DEF u1, u, v
  <2> QED BY <2>3, <2>4, <2>5, <2>6 DEF Handed
<1> HIDE DEF k, q, S, v
<1>6. /\ Local(me, u) /\ SamePackets(w, u) /\ Held(u) = Held(w)
      /\ u.number = k /\ u.seen = S /\ u.table = w.table
  <2>1. /\ u \in States /\ SamePackets(w, u) /\ u.number = k /\ u.seen = S
        /\ u.table = w.table /\ u.up = w.up
    BY <1>1, <1>2 DEF States, SamePackets
  <2> HIDE DEF u
  <2>2. Local(me, u)
    BY <2>1, SamePacketsLocal DEF Local
  <2> QED BY <2>1, <2>2 DEF SamePackets, Held
<1> HIDE DEF u
<1>7. /\ Local(me, v) /\ Held(v) \subseteq Held(u) \union {q}
      /\ v.number = u.number /\ v.seen = u.seen /\ v.acks = u.acks /\ v.table = u.table
      /\ v.buffer = u.buffer
  BY <1>3, <1>5, <1>6, HandedKept
<1>8. Numbers(me, o, v, P, p)
  <2>1. v.number = o.number + 1 /\ o.seen \subseteq v.seen /\ <<me, v.number>> \in v.seen
    BY <1>6, <1>7 DEF k, S, Calm
  <2>2. Given(q, p, v.number)
    BY <1>3, <1>6, <1>7
  <2>3. \A x \in Held(w) : Comes(me, x, Held(o), P)
    BY DEF Calm
  <2>4. ~Fresh(q)
    BY <1>3 DEF Given, Fresh
  <2>5. \A x \in Held(v) : x \in Held(w) \/ x = q
    BY <1>6, <1>7
  <2> QED BY <1>4, <2>1, <2>2, <2>3, <2>4, <2>5 DEF Numbers
<1> QED BY <1>6, <1>7, <1>8 DEF v, SamePackets

LEMMA FreshAppended ==
    ASSUME NEW d \in Seq(Packets), NEW B, FreshOnce(d, B), NEW p \in Packets, ~Fresh(p)
    PROVE  FreshOnce(Append(d, p), B)
<1> DEFINE s == Append(d, p)
<1>1. /\ DOMAIN d = 1 .. Len(d) /\ Len(d) \in Nat /\ DOMAIN s = 1 .. Len(d) + 1
      /\ \A i \in 1 .. Len(d) : s[i] = d[i]
      /\ s[Len(d) + 1] = p
  BY Elements, Appended
<1> HIDE DEF s
<1>2. \A i \in DOMAIN s : Fresh(s[i]) => i \in 1 .. Len(d) /\ s[i] = d[i]
  BY <1>1
<1> QED BY <1>1, <1>2 DEF FreshOnce, s

LEMMA FreshRemoved ==
    ASSUME NEW d \in Seq(Packets), NEW B, FreshOnce(d, B), NEW i \in 1 .. Len(d)
    PROVE  /\ FreshOnce(RemoveAt(d, i), B)
           /\ Fresh(d[i]) => \A x \in ToSet(RemoveAt(d, i)) : ~(Fresh(x) /\ x.id = d[i].id)
<1> DEFINE s == RemoveAt(d, i)
           at(j) == IF j < i THEN j ELSE j + 1
<1>1. /\ DOMAIN d = 1 .. Len(d) /\ Len(d) \in Nat /\ DOMAIN s = 1 .. Len(d) - 1
      /\ \A j \in 1 .. Len(d) - 1 : s[j] = d[at(j)]
  BY Elements, Removed
<1>2. /\ \A j \in DOMAIN s : at(j) \in DOMAIN d /\ at(j) # i
      /\ \A j, l \in DOMAIN s : at(j) = at(l) => j = l
  BY <1>1
<1> HIDE DEF s, at
<1>3. FreshOnce(s, B)
  BY <1>1, <1>2 DEF FreshOnce
<1>4. ASSUME Fresh(d[i]), NEW x \in ToSet(s), Fresh(x), x.id = d[i].id PROVE FALSE
  <2>1. PICK j \in DOMAIN s : x = s[j]
    BY DEF ToSet
  <2>2. x = d[at(j)] /\ at(j) \in DOMAIN d /\ at(j) # i
    BY <1>1, <1>2, <2>1
  <2> QED BY <1>1, <1>4, <2>2 DEF FreshOnce
<1> QED BY <1>3, <1>4 DEF s

LEMMA DelayedOneMore ==
    ASSUME NEW me \in Nodes, NEW w, Local(me, w), NEW p, Placed(me, p), ~Fresh(p), NEW P,
           NEW o, Calm(me, o, w, P), Comes(me, p, Held(o), P)
    PROVE  LET v == [w EXCEPT !.delayed = Append(@, p)]
           IN  /\ Local(me, v) /\ Calm(me, o, v, P)
               /\ v.acks = w.acks /\ v.table = w.table /\ v.buffer = w.buffer
<1> DEFINE s == Append(w.delayed, p)
           v == [w EXCEPT !.delayed = s]
<1>1. w \in States /\ FreshOnce(w.delayed, w.buffer) /\ p \in Packets
      /\ \A x \in ToSet(w.delayed) : Placed(me, x)
  BY DEF Local, Placed
<1>2. w.delayed \in Seq(Packets)
  BY <1>1, Types
<1>3. s \in Seq(Packets) /\ ToSet(s) = ToSet(w.delayed) \union {p}
  BY <1>1, <1>2, Appended
<1>4. FreshOnce(s, w.buffer)
  BY <1>1, <1>2, FreshAppended
<1> HIDE DEF s
<1>5. \A x \in ToSet(s) : Placed(me, x)
  BY <1>1, <1>3
<1>6. /\ Local(me, v) /\ Held(v) \subseteq Held(w) \union ToSet(s)
      /\ v.number = w.number /\ v.seen = w.seen
  BY <1>3, <1>4, <1>5, DelayedSet
<1>7. v.acks = w.acks /\ v.table = w.table /\ v.buffer = w.buffer
  BY <1>1 DEF States
<1> HIDE DEF v
<1>8. ToSet(w.delayed) \subseteq Held(w)
  BY DEF Held
<1>9. Calm(me, o, v, P)
  BY <1>3, <1>6, <1>8, CalmMore
<1> QED BY <1>6, <1>7, <1>9 DEF v, s

(* A packet that has its number, or is no packet of the application.            *)
LEMMA SendKept ==
    ASSUME NEW me \in Nodes, NEW w, Local(me, w), NEW p, Placed(me, p), ~Fresh(p), NEW P,
           NEW o, Calm(me, o, w, P), Comes(me, p, Held(o), P)
    PROVE  LET v == SendPacket(w, me, p)
           IN  /\ Local(me, v) /\ Goes(me, o, v, P)
               /\ ~p.fresh \/ p.delay # 0 => Calm(me, o, v, P)
               /\ v.acks = w.acks /\ v.table = w.table
<1>1. CASE p.delay # 0
  BY <1>1, DelayedOneMore DEF SendPacket, Goes
<1>2. CASE p.delay = 0 /\ ~p.fresh
  <2>1. Sent(me, p)
    BY <1>2 DEF Sent
  <2> QED BY <1>2, <2>1, AssignSent DEF SendPacket, Goes
<1>3. CASE p.delay = 0 /\ p.fresh
  <2>1. p.type # "DATA"
    BY <1>3 DEF Fresh
  <2> QED BY <1>3, <2>1, AssignFresh DEF SendPacket, Goes
<1> QED BY <1>1, <1>2, <1>3

----------------------------------------------------------------------------------
(* Acknowledging and cancelling                                                 *)

LEMMA FirstFound ==
    ASSUME NEW s \in Seq(Packets), NEW p
    PROVE  /\ FirstSame(s, p) \in 0 .. Len(s)
           /\ FirstSame(s, p) > 0 => FirstSame(s, p) \in 1 .. Len(s) /\ Same(s[FirstSame(s, p)], p)
<1> DEFINE I == {i \in 1 .. Len(s) : Same(s[i], p)}
           i == IF I # {} THEN Min(I) ELSE 0
<1>1. Len(s) \in Nat /\ I \subseteq 1 .. Len(s)
  BY Elements
<1>2. FirstSame(s, p) = i
  BY Zenon DEF FirstSame, SelectInSeq
<1>3. I # {} => Min(I) \in I
  <2> HIDE DEF I
  <2> QED BY <1>1, LeastIndex
<1>4. i \in 0 .. Len(s) /\ (i > 0 => i \in I)
  <2>1. I # {} => Min(I) \in 1 .. Len(s)
    BY <1>3
  <2> HIDE DEF I
  <2> QED BY <1>1, <1>3, <2>1
<1>5. i > 0 => i \in 1 .. Len(s) /\ Same(s[i], p)
  BY <1>4
<1> HIDE DEF i
<1> QED BY <1>2, <1>4, <1>5

LEMMA UnlistedKept ==
    ASSUME NEW me \in Nodes, NEW w, Local(me, w), NEW i \in 0 .. Len(w.acks), NEW P
    PROVE  LET v == Unlisted(w, i)
           IN  Local(me, v) /\ Calm(me, w, v, P) /\ v.table = w.table /\ v.seen = w.seen
<1>1. CASE i = 0
  <2>1. Unlisted(w, i) = w
    BY <1>1 DEF Unlisted
  <2> QED BY <2>1, CalmStays
<1>2. CASE i # 0
  <2> DEFINE s == RemoveAt(w.acks, i)
             v == [w EXCEPT !.acks = s]
  <2>1. Unlisted(w, i) = v
    BY <1>2 DEF Unlisted
  <2>2. w \in States /\ \A p \in ToSet(w.acks) : Sent(me, p) /\ p.type = "DATA"
    BY DEF Local
  <2>3. w.acks \in Seq(Packets)
    BY <2>2, Types
  <2>4. Len(w.acks) \in Nat
    BY <2>3, Elements
  <2>5. i \in 1 .. Len(w.acks)
    BY <1>2, <2>4
  <2>6. s \in Seq(Packets) /\ ToSet(s) \subseteq ToSet(w.acks)
    BY <2>3, <2>5, Removed
  <2> HIDE DEF s
  <2>7. \A p \in ToSet(s) : Sent(me, p) /\ p.type = "DATA"
    BY <2>2, <2>6
  <2>8. /\ Local(me, v) /\ Held(v) \subseteq Held(w) \union ToSet(s)
        /\ v.number = w.number /\ v.seen = w.seen /\ v.table = w.table
    BY <2>6, <2>7, AcksSet
  <2>9. ToSet(w.acks) \subseteq Held(w)
    BY DEF Held
  <2> HIDE DEF v
  <2>10. Calm(me, w, v, P)
    BY <2>6, <2>8, <2>9, HeldCalm
  <2> QED BY <2>1, <2>8, <2>10
<1> QED BY <1>1, <1>2

(* A packet that waits is not sent.                                             *)
LEMMA NotDelayed ==
    ASSUME NEW me \in Nodes, NEW w, Local(me, w), NEW i \in 1 .. Len(w.delayed), NEW P
    PROVE  LET v == [w EXCEPT !.delayed = RemoveAt(@, i)]
           IN  /\ Local(me, v) /\ Calm(me, w, v, P) /\ v.table = w.table /\ v.acks = w.acks
               /\ w.delayed[i] \in Held(w) /\ Placed(me, w.delayed[i])
               /\ Held(v) \subseteq Held(w) /\ v.number = w.number /\ v.seen = w.seen
               /\ Fresh(w.delayed[i]) => \A x \in Held(v) : ~(Fresh(x) /\ x.id = w.delayed[i].id)
<1> DEFINE s == RemoveAt(w.delayed, i)
           v == [w EXCEPT !.delayed = s]
<1>1. w \in States /\ FreshOnce(w.delayed, w.buffer) /\ \A p \in ToSet(w.delayed) : Placed(me, p)
  BY DEF Local
<1>2. w.delayed \in Seq(Packets)
  BY <1>1, Types
<1>3. s \in Seq(Packets) /\ ToSet(s) \subseteq ToSet(w.delayed)
  BY <1>2, Removed
<1>4. /\ FreshOnce(s, w.buffer)
      /\ Fresh(w.delayed[i]) => \A x \in ToSet(s) : ~(Fresh(x) /\ x.id = w.delayed[i].id)
  BY <1>1, <1>2, FreshRemoved
<1> HIDE DEF s
<1>5. \A p \in ToSet(s) : Placed(me, p)
  BY <1>1, <1>3
<1>6. /\ Local(me, v) /\ Held(v) \subseteq Held(w) \union ToSet(s)
      /\ v.number = w.number /\ v.seen = w.seen
  BY <1>3, <1>4, <1>5, DelayedSet
<1>7. /\ v.acks = w.acks /\ v.table = w.table /\ v.delayed = s /\ v.queue = w.queue
      /\ v.busy = w.busy /\ v.active = w.active /\ v.buffer = w.buffer
  BY <1>1 DEF States
<1> HIDE DEF v
<1>8. ToSet(w.delayed) \subseteq Held(w)
  BY DEF Held
<1>9. Calm(me, w, v, P)
  BY <1>3, <1>6, <1>8, HeldCalm
<1>10. w.delayed[i] \in ToSet(w.delayed)
  BY <1>2, Elements
<1>11. ASSUME Fresh(w.delayed[i]), NEW x \in Held(v), Fresh(x), x.id = w.delayed[i].id PROVE FALSE
  <2>1. x \notin ToSet(s)
    BY <1>4, <1>11
  <2>2. /\ \A p \in ToSet(w.queue) : ~p.fresh
        /\ \A p \in ToSet(w.acks) : ~p.fresh
        /\ w.busy => ~w.active.fresh
    BY DEF Local, Sent
  <2>3. x \in w.buffer
    BY <1>7, <1>11, <2>1, <2>2 DEF Held, Fresh
  <2>4. i \in DOMAIN w.delayed
    BY <1>2, Elements
  <2> QED BY <1>1, <1>11, <2>3, <2>4 DEF FreshOnce
<1>12. Held(v) \subseteq Held(w)
  BY <1>3, <1>6, <1>8
<1> QED BY <1>1, <1>6, <1>7, <1>8, <1>9, <1>10, <1>11, <1>12 DEF v, s

LEMMA NotQueued ==
    ASSUME NEW me \in Nodes, NEW w, Local(me, w), NEW i \in 1 .. Len(w.queue), NEW P
    PROVE  LET v == [w EXCEPT !.queue = RemoveAt(@, i)]
           IN  /\ Local(me, v) /\ Calm(me, w, v, P) /\ v.table = w.table /\ v.acks = w.acks
               /\ w.queue[i] \in Packets
<1> DEFINE s == RemoveAt(w.queue, i)
           v == [w EXCEPT !.queue = s]
<1>1. w \in States /\ Settled(w) /\ (w.busy => Sent(me, w.active))
      /\ \A p \in ToSet(w.queue) : Sent(me, p)
  BY DEF Local
<1>2. w.queue \in Seq(Packets)
  BY <1>1, Types
<1>3. s \in Seq(Packets) /\ ToSet(s) \subseteq ToSet(w.queue) /\ w.queue[i] \in Packets
  BY <1>2, Removed, Elements
<1>4. w.busy
  <2>1. Len(w.queue) \in Nat
    BY <1>2, Elements
  <2>2. w.queue # <<>>
    BY <1>2, <2>1, EmptySeq
  <2> QED BY <1>1, <2>2 DEF Settled
<1> HIDE DEF s
<1>5. \A p \in ToSet(s) : Sent(me, p)
  BY <1>1, <1>3
<1>6. /\ v \in States /\ v.busy = w.busy /\ v.mac = w.mac /\ v.active = w.active /\ v.queue = s
      /\ v.delayed = w.delayed /\ v.acks = w.acks /\ v.buffer = w.buffer /\ v.table = w.table
      /\ v.up = w.up /\ v.number = w.number /\ v.seen = w.seen
  BY <1>1, <1>3 DEF States
<1> HIDE DEF v
<1>7. Settled(v)
  BY <1>1, <1>4, <1>6 DEF Settled
<1>8. Local(me, v) /\ \A x \in Held(v) : x \in Held(w) \/ x \in ToSet(s) \/ (v.busy /\ x = v.active)
  BY <1>1, <1>5, <1>6, <1>7, MacSet
<1>9. ToSet(w.queue) \subseteq Held(w) /\ (w.busy => w.active \in Held(w))
  BY DEF Held
<1>10. Calm(me, w, v, P)
  BY <1>3, <1>6, <1>8, <1>9, HeldCalm
<1> QED BY <1>3, <1>6, <1>8, <1>10 DEF v, s

LEMMA DroppedCalm ==
    ASSUME NEW me \in Nodes, NEW w, NEW u, Local(me, u), NEW P, Calm(me, w, u, P),
           NEW S \in SUBSET PacketTypes
    PROVE  LET v == [u EXCEPT !.dropped = S]
           IN  Local(me, v) /\ Calm(me, w, v, P) /\ v.table = u.table /\ v.acks = u.acks
<1> DEFINE v == [u EXCEPT !.dropped = S]
<1>1. Local(me, v) /\ Held(v) = Held(u) /\ v.number = u.number /\ v.seen = u.seen /\ SamePackets(u, v)
      /\ v.table = u.table
  BY DroppedSet
<1> HIDE DEF v
<1>2. Calm(me, u, v, P)
  BY <1>1, SamePacketsCalm
<1> QED BY <1>1, <1>2, CalmSteps DEF v, SamePackets

LEMMA CancelKept ==
    ASSUME NEW me \in Nodes, NEW w, Local(me, w), NEW p, NEW P
    PROVE  LET v == CancelPacket(w, p)
           IN  Local(me, v) /\ Calm(me, w, v, P) /\ v.table = w.table /\ v.acks = w.acks
<1> DEFINE waits == FirstSame(w.delayed, p)
           queued == FirstSame(w.queue, p)
           active == w.busy /\ Same(w.active, p) /\ w.active.type # "ACK"
           v == CancelPacket(w, p)
<1>1. w \in States
  BY DEF Local
<1>2. w.delayed \in Seq(Packets) /\ w.queue \in Seq(Packets) /\ w.dropped \in SUBSET PacketTypes
  BY <1>1, Types
<1>3. waits \in 0 .. Len(w.delayed) /\ (waits > 0 => waits \in 1 .. Len(w.delayed))
  BY <1>2, FirstFound
<1>4. queued \in 0 .. Len(w.queue) /\ (queued > 0 => queued \in 1 .. Len(w.queue))
  BY <1>2, FirstFound
<1> SUFFICES Local(me, v) /\ Calm(me, w, v, P) /\ v.table = w.table /\ v.acks = w.acks
  OBVIOUS
<1>5. CASE active
  <2> DEFINE a == [w.active EXCEPT !.canceled = TRUE]
             mac == IF w.mac = "defer" THEN "canceled" ELSE w.mac
             S == IF w.mac = "defer" THEN w.dropped \union {w.active.type} ELSE w.dropped
  <2>1. v = [w EXCEPT !.active.canceled = TRUE, !.mac = mac, !.dropped = S]
    BY <1>5, Zenon DEF CancelPacket
  <2>2. v = [w EXCEPT !.active = a, !.mac = mac, !.dropped = S]
    BY <2>1, Zenon
  <2>3. w.active \in Packets /\ Sent(me, w.active) /\ w.busy /\ Settled(w)
        /\ w.mac \in {"none", "transition", "defer", "overlapped", "canceled"}
        /\ \A x \in ToSet(w.queue) : Sent(me, x)
    BY <1>1, <1>5, Types DEF Local, Settled
  <2>4. Sent(me, a) /\ Like(a, w.active) /\ a \in Packets
    BY <2>3 DEF Sent, Placed, Like, Packets
  <2>5. mac \in {"none", "transition", "defer", "overlapped", "canceled"} /\ mac # "none"
    BY <2>3 DEF Settled
  <2>6. S \in SUBSET PacketTypes
    BY <1>2, <2>3 DEF Packets
  <2> HIDE DEF v, a, mac, S
  <2>7. /\ v \in States /\ v.busy = w.busy /\ v.mac = mac /\ v.active = a /\ v.queue = w.queue
        /\ v.delayed = w.delayed /\ v.acks = w.acks /\ v.buffer = w.buffer /\ v.table = w.table
        /\ v.up = w.up /\ v.number = w.number /\ v.seen = w.seen
    BY <1>1, <2>2, <2>4, <2>5, <2>6 DEF States
  <2>8. Settled(v) /\ (v.busy => Sent(me, v.active)) /\ \A x \in ToSet(v.queue) : Sent(me, x)
    BY <2>3, <2>4, <2>5, <2>7 DEF Settled
  <2>9. Local(me, v) /\ \A x \in Held(v) : x \in Held(w) \/ x \in ToSet(w.queue) \/ x = a
    BY <2>7, <2>8, MacSet
  <2>10. w.active \in Held(w) /\ ToSet(w.queue) \subseteq Held(w)
    BY <2>3 DEF Held
  <2>11. Comes(me, a, Held(w), P)
    BY <2>4, <2>10 DEF Comes
  <2>12. Calm(me, w, v, P)
    BY <2>7, <2>9, <2>10, <2>11, HeldCalm
  <2> QED BY <2>7, <2>9, <2>12
<1>6. CASE ~active /\ waits > 0
  <2> DEFINE u == [w EXCEPT !.delayed = RemoveAt(@, waits)]
             S == w.dropped \union {w.delayed[waits].type}
  <2>1. v = [w EXCEPT !.delayed = RemoveAt(@, waits), !.dropped = S]
    <3>1. waits # 0
      BY <1>6
    <3> QED BY <1>6, <3>1, Zenon DEF CancelPacket
  <2>2. waits \in 1 .. Len(w.delayed)
    BY <1>3, <1>6
  <2> HIDE DEF waits, v
  <2>3. Local(me, u) /\ Calm(me, w, u, P) /\ u.table = w.table /\ u.acks = w.acks
        /\ Placed(me, w.delayed[waits])
    BY <2>2, NotDelayed
  <2>4. S \in SUBSET PacketTypes
    BY <1>2, <2>3 DEF Placed, Packets
  <2>5. v = [u EXCEPT !.dropped = S]
    BY <2>1, Zenon
  <2> HIDE DEF u, S
  <2> QED BY <2>3, <2>4, <2>5, DroppedCalm
<1>7. CASE ~active /\ waits = 0 /\ queued > 0 /\ w.queue[queued].type # "ACK"
  <2> DEFINE u == [w EXCEPT !.queue = RemoveAt(@, queued)]
             S == w.dropped \union {w.queue[queued].type}
  <2>1. v = [w EXCEPT !.queue = RemoveAt(@, queued), !.dropped = S]
    <3>1. ~(waits > 0)
      BY <1>7
    <3> QED BY <1>7, <3>1, Zenon DEF CancelPacket
  <2>2. queued \in 1 .. Len(w.queue)
    BY <1>4, <1>7
  <2> HIDE DEF queued, v
  <2>3. Local(me, u) /\ Calm(me, w, u, P) /\ u.table = w.table /\ u.acks = w.acks
        /\ w.queue[queued] \in Packets
    BY <2>2, NotQueued
  <2>4. S \in SUBSET PacketTypes
    BY <1>2, <2>3 DEF Packets
  <2>5. v = [u EXCEPT !.dropped = S]
    BY <2>1, Zenon
  <2> HIDE DEF u, S
  <2> QED BY <2>3, <2>4, <2>5, DroppedCalm
<1>8. CASE ~active /\ ~(waits > 0) /\ ~(waits = 0 /\ queued > 0 /\ w.queue[queued].type # "ACK")
  <2>1. v = w
    BY <1>8, Zenon DEF CancelPacket
  <2> HIDE DEF v, waits, queued, active
  <2> QED BY <2>1, CalmStays
<1> QED BY <1>5, <1>6, <1>7, <1>8

(* What p says of the node that waits for q to get on.                          *)
Says(me, p, q) == Near(q.dst, p.expected + 1, me)

LEMMA RepairKept ==
    ASSUME NEW me \in Nodes, NEW w, Local(me, w), NEW q \in Packets, NEW p, Says(me, p, q), NEW P
    PROVE  LET v == DoRouteRepair(w, me, q, p)
           IN  Local(me, v) /\ Calm(me, w, v, P) /\ v.acks = w.acks /\ Held(v) = Held(w)
<1>1. CASE w.opt.repair = 0 \/ p.expected = q.expected - 1
  <2>1. DoRouteRepair(w, me, q, p) = w
    BY <1>1 DEF DoRouteRepair
  <2> QED BY <2>1, CalmStays
<1>2. CASE ~(w.opt.repair = 0 \/ p.expected = q.expected - 1)
  <2> DEFINE v == UpdateHopCountInCache(w, me, q.dst, p.expected + 1, "Always")
  <2>1. DoRouteRepair(w, me, q, p) = v
    BY <1>2 DEF DoRouteRepair
  <2>2. q.dst \in Nodes
    BY DEF Packets
  <2>3. Local(me, v) /\ Calm(me, w, v, P) /\ SamePackets(w, v)
    BY <2>2, UpdateKept DEF Says
  <2> HIDE DEF v
  <2>4. v.acks = w.acks /\ Held(v) = Held(w)
    BY <2>3 DEF SamePackets, Held
  <2> QED BY <2>1, <2>3, <2>4
<1> QED BY <1>1, <1>2

LEMMA AckPacket ==
    ASSUME NEW me \in Nodes, NEW p \in Packets, ~p.fresh, NEW pre \in Nodes, NEW delay \in Nat,
           NEW fromDest \in BOOLEAN, fromDest => p.dst = me /\ p.type # "ACK"
    PROVE  LET q == AckPkt(p.src, me, pre, p.seq, delay, fromDest)
           IN  Sent(me, q) /\ Acknowledges(me, q, p)
<1> DEFINE q == AckPkt(p.src, me, pre, p.seq, delay, fromDest)
<1>1. p.src \in Nodes /\ p.seq \in Int
  BY DEF Packets
<1> DEFINE b == BasicPkt("ACK", p.src, p.src)
<1>2. /\ b \in Packets /\ b.type = "ACK" /\ b.src = p.src /\ b.expected = 0
  BY <1>1 DEF BasicPkt, Unnumbered, Packets, PacketTypes
<1> HIDE DEF b
<1>3. q = [b EXCEPT !.cur = me, !.pre = pre, !.seq = p.seq, !.delay = delay,
                    !.fromDest = fromDest, !.max = 0, !.fresh = FALSE]
  BY Zenon DEF AckPkt, b
<1> HIDE DEF q
<1>4. q \in Packets
  BY <1>1, <1>2, <1>3 DEF Packets
<1>5. /\ q.type = "ACK" /\ q.src = p.src /\ q.expected = 0 /\ q.seq = p.seq /\ q.fresh = FALSE
      /\ q.fromDest = fromDest
  BY <1>1, <1>2, <1>3 DEF Packets
<1>6. Sent(me, q)
  BY <1>4, <1>5 DEF Sent, Placed
<1>7. Acknowledges(me, q, p)
  BY <1>5 DEF Acknowledges
<1> QED BY <1>6, <1>7 DEF q

LEMMA SendAckKept ==
    ASSUME NEW me \in Nodes, NEW w, Local(me, w), NEW P, NEW p \in P, p \in Packets, ~p.fresh,
           NEW pre \in Nodes, NEW delay \in Nat, NEW fromDest \in BOOLEAN,
           fromDest => p.dst = me /\ p.type # "ACK", NEW o, Calm(me, o, w, P)
    PROVE  LET v == SendAck(w, me, p, pre, delay, fromDest)
           IN  Local(me, v) /\ Calm(me, o, v, P) /\ v.acks = w.acks /\ v.table = w.table
<1> DEFINE q == AckPkt(p.src, me, pre, p.seq, delay, fromDest)
<1>1. Sent(me, q) /\ Acknowledges(me, q, p)
  BY AckPacket
<1>2. SendAck(w, me, p, pre, delay, fromDest) = SendPacket(w, me, q)
  BY DEF SendAck
<1> HIDE DEF q
<1>3. Comes(me, q, Held(o), P) /\ Placed(me, q) /\ ~q.fresh /\ ~Fresh(q)
  BY <1>1 DEF Comes, Sent, Fresh
<1> QED BY <1>2, <1>3, SendKept

LEMMA AnsweredKept ==
    ASSUME NEW me \in Nodes, NEW w, Local(me, w), NEW P, NEW p \in P, p \in Packets, ~p.fresh,
           NEW i \in 1 .. Len(w.acks), Says(me, p, w.acks[i]), NEW o, Calm(me, o, w, P)
    PROVE  LET v == Answered(w, me, p, i)
           IN  Local(me, v) /\ Calm(me, o, v, P)
<1> DEFINE u == DoRouteRepair(w, me, w.acks[i], p)
           t == SendAck(u, me, p, p.cur, 0, FALSE)
<1>1. w.acks \in Seq(Packets)
  BY Types DEF Local
<1>2. w.acks[i] \in Packets /\ Len(w.acks) \in Nat
  BY <1>1, Elements
<1>3. Local(me, u) /\ Calm(me, w, u, P) /\ u.acks = w.acks
  BY <1>2, RepairKept
<1>4. Answered(w, me, p, i) = Unlisted(t, i)
  BY DEF Answered
<1> HIDE DEF u
<1>5. Calm(me, o, u, P)
  BY <1>3, CalmSteps
<1>6. p.cur \in Nodes /\ 0 \in Nat /\ FALSE \in BOOLEAN
  BY DEF Packets
<1>7. Local(me, t) /\ Calm(me, o, t, P) /\ t.acks = u.acks
  <2> DEFINE no == FALSE
  <2>1. no \in BOOLEAN /\ (no => p.dst = me /\ p.type # "ACK")
    OBVIOUS
  <2> HIDE DEF no
  <2>2. \A pre \in Nodes, delay \in Nat :
           LET v == SendAck(u, me, p, pre, delay, no)
           IN  Local(me, v) /\ Calm(me, o, v, P) /\ v.acks = u.acks
    BY <1>3, <1>5, <2>1, SendAckKept
  <2> QED BY <1>6, <2>2 DEF no
<1> HIDE DEF t
<1>8. i \in 0 .. Len(t.acks)
  BY <1>2, <1>3, <1>7
<1>9. Local(me, Unlisted(t, i)) /\ Calm(me, t, Unlisted(t, i), P)
  BY <1>7, <1>8, UnlistedKept
<1> QED BY <1>4, <1>7, <1>9, CalmSteps

(* What node me hears.                                                          *)
Hears(me, w, p) ==
    /\ p \in Packets /\ ~p.fresh
    /\ p.type \in {"DATA", "REQUEST", "REPLY"} => Near(p.src, p.actual, me)
    /\ p.type = "HELLO" => Near(p.dst, p.hello + 1, me)
    /\ \A q \in ToSet(w.acks) :
          Same(q, p) /\ p.type # "HELLO" /\ (p.type = "ACK" => p.fromDest) => Says(me, p, q)
    /\ p.src = me => <<me, p.seq>> \in w.seen

LEMMA ReceiveAckKept ==
    ASSUME NEW me \in Nodes, NEW w, Local(me, w), NEW p, Hears(me, w, p), p.type = "ACK"
    PROVE  LET v == ReceiveAck(w, me, p)
           IN  Local(me, v) /\ Calm(me, w, v, {p})
<1> DEFINE c == CancelPacket(w, p)
           i == InAckList(w, p)
           v == ReceiveAck(w, me, p)
<1>1. Local(me, c) /\ Calm(me, w, c, {p}) /\ c.acks = w.acks
  BY CancelKept
<1>2. w.acks \in Seq(Packets)
  BY Types DEF Local
<1>3. i \in 0 .. Len(w.acks) /\ (i > 0 => i \in 1 .. Len(w.acks) /\ Same(w.acks[i], p))
  BY <1>2, FirstFound DEF InAckList
<1> HIDE DEF c, i
<1> SUFFICES Local(me, v) /\ Calm(me, w, v, {p})
  OBVIOUS
<1>4. CASE ~w.opt.acks
  <2>1. v = c
    BY <1>4, Zenon DEF ReceiveAck, c
  <2> QED BY <1>1, <2>1
<1>5. CASE w.opt.acks /\ p.pre # me
  <2>1. v = Unlisted(c, i)
    BY <1>5, Zenon DEF ReceiveAck, c, i
  <2>2. Local(me, Unlisted(c, i)) /\ Calm(me, c, Unlisted(c, i), {p})
    BY <1>1, <1>3, UnlistedKept
  <2> HIDE DEF v
  <2> QED BY <1>1, <2>1, <2>2, CalmSteps
<1>6. CASE w.opt.acks /\ p.pre = me /\ i > 0 /\ p.fromDest
  <2>1. v = Answered(w, me, p, i)
    BY <1>6, Zenon DEF ReceiveAck, i
  <2>2. w.acks[i] \in ToSet(w.acks) /\ Same(w.acks[i], p) /\ i \in 1 .. Len(w.acks)
    BY <1>2, <1>3, <1>6, Elements
  <2>3. Says(me, p, w.acks[i])
    BY <1>6, <2>2 DEF Hears
  <2> HIDE DEF v
  <2>4. p \in Packets /\ ~p.fresh /\ Calm(me, w, w, {p})
    BY CalmStays DEF Hears
  <2> QED BY <2>1, <2>2, <2>3, <2>4, AnsweredKept
<1>7. CASE w.opt.acks /\ p.pre = me /\ ~(i > 0 /\ p.fromDest)
  <2>1. v = w
    BY <1>7, Zenon DEF ReceiveAck, i
  <2> QED BY <2>1, CalmStays
<1> QED BY <1>4, <1>5, <1>6, <1>7

LEMMA ReceiveDataRepKept ==
    ASSUME MaxResend \in Nat, NEW me \in Nodes, NEW w, Local(me, w), NEW p, Hears(me, w, p),
           p.type \in {"DATA", "REQUEST", "REPLY"}, NEW o, Calm(me, o, w, {p})
    PROVE  LET v == ReceiveDataRep(w, me, p)
           IN  Local(me, v) /\ Calm(me, o, v, {p})
<1> DEFINE c == CancelPacket(w, p)
           i == InAckList(c, p)
           v == ReceiveDataRep(w, me, p)
<1>1. Local(me, c) /\ Calm(me, w, c, {p}) /\ c.acks = w.acks
  BY CancelKept
<1>2. w.acks \in Seq(Packets)
  BY Types DEF Local
<1> HIDE DEF c
<1>3. i \in 0 .. Len(w.acks) /\ (i > 0 => i \in 1 .. Len(w.acks) /\ Same(w.acks[i], p))
  BY <1>1, <1>2, FirstFound DEF InAckList
<1> HIDE DEF i
<1>4. Calm(me, o, c, {p})
  BY <1>1, CalmSteps
<1> SUFFICES Local(me, v) /\ Calm(me, o, v, {p})
  OBVIOUS
<1>5. CASE i = 0
  <2>1. v = c
    <3>1. ~(i > 0)
      BY <1>5
    <3> QED BY <1>5, <3>1, Zenon DEF ReceiveDataRep, c, i
  <2> QED BY <1>1, <1>4, <2>1
<1>6. CASE i > 0 /\ p.pre = me
  <2>1. v = Answered(c, me, p, i)
    <3>1. i # 0
      BY <1>6
    <3> QED BY <1>6, <3>1, Zenon DEF ReceiveDataRep, c, i
  <2>2. w.acks[i] \in ToSet(w.acks) /\ Same(w.acks[i], p) /\ i \in 1 .. Len(w.acks)
    BY <1>2, <1>3, <1>6, Elements
  <2>3. Says(me, p, w.acks[i])
    BY <2>2 DEF Hears
  <2> HIDE DEF v
  <2>4. p \in Packets /\ ~p.fresh
    BY DEF Hears
  <2> QED BY <1>1, <1>4, <2>1, <2>2, <2>3, <2>4, AnsweredKept
<1>7. CASE i # 0 /\ ~(i > 0 /\ p.pre = me)
  <2> DEFINE q == [w.acks[i] EXCEPT !.resend = MaxResend]
             s == [w.acks EXCEPT ![i] = q]
             u == [c EXCEPT !.acks = s]
  <2>1. v = [c EXCEPT !.acks[i].resend = MaxResend]
    BY <1>7, Zenon DEF ReceiveDataRep, c, i
  <2>2. i \in 1 .. Len(w.acks)
    <3>1. Len(w.acks) \in Nat
      BY <1>2, Elements
    <3> QED BY <1>3, <1>7, <3>1
  <2>3. w.acks[i] \in ToSet(w.acks) /\ w.acks[i] \in Packets /\ DOMAIN w.acks = 1 .. Len(w.acks)
        /\ Len(w.acks) \in Nat
    BY <1>2, <2>2, Elements
  <2>4. \A x \in ToSet(w.acks) : Sent(me, x) /\ x.type = "DATA"
    BY DEF Local
  <2>5. Sent(me, q) /\ q.type = "DATA" /\ Like(q, w.acks[i]) /\ q \in Packets
    BY <2>3, <2>4 DEF Sent, Placed, Like, Packets
  <2>6. v = u
    <3>1. s = [w.acks EXCEPT ![i].resend = MaxResend]
      OBVIOUS
    <3>2. v = [c EXCEPT !.acks = [c.acks EXCEPT ![i].resend = MaxResend]]
      BY <2>1
    <3> HIDE DEF s, v
    <3> QED BY <1>1, <3>1, <3>2
  <2> HIDE DEF v, q
  <2>7. s \in Seq(Packets) /\ \A x \in ToSet(s) : x = q \/ x \in ToSet(w.acks)
    <3>1. s \in Seq(Packets)
      BY <1>2, <2>2, <2>5, ExceptSeq
    <3>2. DOMAIN s = 1 .. Len(w.acks) /\ \A j \in 1 .. Len(w.acks) : s[j] = IF j = i THEN q ELSE w.acks[j]
      BY <2>3
    <3> QED BY <2>3, <3>1, <3>2 DEF ToSet
  <2> HIDE DEF s
  <2>8. \A x \in ToSet(s) : Sent(me, x) /\ x.type = "DATA"
    BY <2>4, <2>5, <2>7
  <2>9. /\ Local(me, u) /\ Held(u) \subseteq Held(c) \union ToSet(s)
        /\ u.number = c.number /\ u.seen = c.seen
    BY <1>1, <2>7, <2>8, AcksSet
  <2> HIDE DEF u
  <2>10. ToSet(c.acks) \subseteq Held(c)
    BY DEF Held
  <2>11. Comes(me, q, Held(o), {p})
    <3>1. Comes(me, w.acks[i], Held(o), {p})
      BY <1>1, <1>4, <2>3, <2>10 DEF Calm
    <3>2. Comes(me, q, {w.acks[i]}, {p})
      BY <2>5 DEF Comes
    <3> QED BY <3>1, <3>2, ComesOn
  <2>12. Calm(me, o, u, {p})
    BY <1>1, <1>4, <2>7, <2>9, <2>10, <2>11, CalmMore
  <2> QED BY <2>6, <2>9, <2>12
<1> QED BY <1>5, <1>6, <1>7

LEMMA AckTimerKept ==
    ASSUME NEW me \in Nodes, NEW w, Local(me, w), NEW i \in DOMAIN w.acks
    PROVE  LET v == AckTimer(w, me, i)
           IN  Local(me, v) /\ Calm(me, w, v, {})
<1> DEFINE p == [w.acks[i] EXCEPT !.delay = 0, !.resend = @ + 1]
           u == Unlisted(w, i)
<1>1. w.acks \in Seq(Packets)
  BY Types DEF Local
<1>2. i \in 1 .. Len(w.acks) /\ w.acks[i] \in ToSet(w.acks) /\ w.acks[i] \in Packets /\ Len(w.acks) \in Nat
  BY <1>1, Elements
<1>3. Local(me, u) /\ Calm(me, w, u, {})
  <2>1. i \in 0 .. Len(w.acks)
    BY <1>2
  <2> QED BY <2>1, UnlistedKept
<1>4. Sent(me, w.acks[i]) /\ w.acks[i] \in Held(w)
  BY <1>2 DEF Local, Held
<1>5. Sent(me, p) /\ Like(p, w.acks[i])
  <2> DEFINE q == w.acks[i]
             k == q.resend + 1
  <2>1. q \in Packets /\ Sent(me, q)
    BY <1>2, <1>4
  <2> HIDE DEF q
  <2>2. p = [q EXCEPT !.delay = 0, !.resend = k]
    BY DEF q
  <2>3. k \in Nat
    BY <2>1 DEF Packets
  <2> HIDE DEF k, p
  <2>4. p \in Packets
    BY <2>1, <2>2, <2>3 DEF Packets
  <2>5. Sent(me, p) /\ Like(p, q)
    BY <2>1, <2>2, <2>4 DEF Sent, Placed, Like, Packets
  <2> QED BY <2>5 DEF q
<1>6. AckTimer(w, me, i) = IF w.acks[i].resend < MaxResend THEN SendPacket(u, me, p) ELSE u
  BY DEF AckTimer
<1> HIDE DEF u, p
<1>7. Comes(me, p, Held(w), {}) /\ Placed(me, p) /\ ~p.fresh /\ ~Fresh(p)
  BY <1>4, <1>5 DEF Comes, Sent, Fresh
<1>8. Local(me, SendPacket(u, me, p)) /\ Calm(me, w, SendPacket(u, me, p), {})
  BY <1>3, <1>7, SendKept
<1> QED BY <1>3, <1>6, <1>8

----------------------------------------------------------------------------------
(* HELLO packets, and the packets that waited for a route                       *)

LEMMA HelloPacket ==
    ASSUME NEW me \in Nodes, NEW d \in Nodes, NEW hops, Near(d, hops, me)
    PROVE  LET q == HelloPkt(me, d, hops)
           IN  Placed(me, q) /\ Own(me, q) /\ ~Fresh(q) /\ q.delay # 0
<1> DEFINE b == BasicPkt("HELLO", me, d)
           q == HelloPkt(me, d, hops)
<1>1. /\ b \in Packets /\ b.type = "HELLO" /\ b.src = me /\ b.dst = d /\ b.fresh = TRUE
  BY DEF BasicPkt, Unnumbered, Packets, PacketTypes
<1> HIDE DEF b
<1>2. q = [b EXCEPT !.expected = 1, !.hello = hops, !.delay = 8]
  BY Zenon DEF HelloPkt, b, ForwardDelay
<1> HIDE DEF q
<1>3. hops \in Nat
  BY DEF Near
<1>4. q \in Packets
  BY <1>1, <1>2, <1>3 DEF Packets
<1>5. q.type = "HELLO" /\ q.src = me /\ q.dst = d /\ q.fresh = TRUE /\ q.hello = hops /\ q.delay = 8
  BY <1>1, <1>2 DEF Packets
<1>6. Placed(me, q)
  BY <1>4, <1>5 DEF Placed
<1> QED BY <1>5, <1>6 DEF Own, Fresh, q

LEMMA ReceiveHelloKept ==
    ASSUME NEW me \in Nodes, NEW w, Local(me, w), NEW p, Hears(me, w, p), p.type = "HELLO"
    PROVE  LET v == ReceiveHello(w, me, p)
           IN  Local(me, v) /\ Calm(me, w, v, {p})
<1> DEFINE hops == HopsThrough(p)
           u == UpdateHopCountInCache(w, me, p.dst, hops, "Hello")
           q == HelloPkt(me, p.dst, hops)
<1>1. p.dst \in Nodes /\ Near(p.dst, hops, me)
  BY DEF Hears, HopsThrough, Packets
<1> HIDE DEF hops
<1>2. Local(me, u) /\ Calm(me, w, u, {p})
  BY <1>1, UpdateKept
<1>3. Placed(me, q) /\ Own(me, q) /\ ~Fresh(q) /\ q.delay # 0
  BY <1>1, HelloPacket
<1> HIDE DEF u, q
<1>4. Comes(me, q, Held(w), {p})
  BY <1>3 DEF Comes
<1>5. Local(me, SendPacket(u, me, q)) /\ Calm(me, w, SendPacket(u, me, q), {p})
  BY <1>2, <1>3, <1>4, SendKept
<1>6. ReceiveHello(w, me, p) = IF Updates(w, me, p.dst, hops, "Hello") THEN SendPacket(u, me, q) ELSE w
  BY DEF ReceiveHello, hops, u, q
<1> QED BY <1>5, <1>6, CalmStays

LEMMA GenerateHelloKept ==
    ASSUME NEW me \in Nodes, NEW w, Local(me, w)
    PROVE  LET v == GenerateHello(w, me)
           IN  Local(me, v) /\ Calm(me, w, v, {})
<1> DEFINE known == SetToSeq(DOMAIN w.table)
           t == [i \in DOMAIN known |-> HelloPkt(me, known[i], w.table[known[i]].hc)]
           s == w.delayed \o t
           v == [w EXCEPT !.delayed = s]
<1>1. /\ w \in States /\ FreshOnce(w.delayed, w.buffer) /\ IsFiniteSet(DOMAIN w.table)
      /\ Truthful(me, w.table) /\ \A p \in ToSet(w.delayed) : Placed(me, p)
  BY DEF Local
<1>2. w.delayed \in Seq(Packets) /\ DOMAIN w.table \subseteq Nodes
  BY <1>1, Types DEF Tables
<1>3. /\ known \in Seq(DOMAIN w.table) /\ DOMAIN known = 1 .. Len(known) /\ Len(known) \in Nat
      /\ \A i \in DOMAIN known : known[i] \in DOMAIN w.table
  BY <1>1, Listed, Elements
<1> HIDE DEF known
<1>4. \A i \in DOMAIN known : Placed(me, t[i]) /\ Own(me, t[i]) /\ ~Fresh(t[i])
  BY <1>1, <1>2, <1>3, HelloPacket DEF Truthful
<1>5. t \in Seq(Packets) /\ Len(t) = Len(known)
  <2>1. \A i \in DOMAIN known : t[i] \in Packets
    BY <1>4 DEF Placed
  <2>2. t \in [1 .. Len(known) -> Packets]
    BY <1>3, <2>1
  <2> HIDE DEF t
  <2>3. t \in Seq(Packets)
    BY <1>3, <2>2, SeqDef
  <2> QED BY <1>3, <2>2, <2>3, LenProperties
<1>6. DOMAIN t = DOMAIN known
  OBVIOUS
<1> HIDE DEF t
<1>7. \A x \in ToSet(t) : Placed(me, x) /\ Own(me, x) /\ ~Fresh(x)
  BY <1>4, <1>6 DEF ToSet
<1>8. /\ s \in Seq(Packets) /\ ToSet(s) = ToSet(w.delayed) \union ToSet(t)
      /\ Len(s) = Len(w.delayed) + Len(t)
      /\ \A i \in 1 .. Len(w.delayed) : s[i] = w.delayed[i]
      /\ \A i \in 1 .. Len(t) : s[Len(w.delayed) + i] = t[i]
  <2>1. w.delayed \in Seq(Packets) /\ t \in Seq(Packets)
    BY <1>2, <1>5
  <2> QED BY <2>1, Joined
<1> HIDE DEF s
<1>9. FreshOnce(s, w.buffer)
  <2>1. /\ DOMAIN w.delayed = 1 .. Len(w.delayed) /\ Len(w.delayed) \in Nat
        /\ Len(s) = Len(w.delayed) + Len(t) /\ DOMAIN s = 1 .. Len(s)
        /\ \A i \in 1 .. Len(w.delayed) : s[i] = w.delayed[i]
        /\ \A i \in 1 .. Len(t) : s[Len(w.delayed) + i] = t[i]
    BY <1>2, <1>8, Elements
  <2>2. ASSUME NEW i \in DOMAIN s, Fresh(s[i]) PROVE i \in DOMAIN w.delayed /\ s[i] = w.delayed[i]
    <3>1. CASE i <= Len(w.delayed)
      BY <2>1, <3>1
    <3>2. CASE i > Len(w.delayed)
      <4>1. i - Len(w.delayed) \in 1 .. Len(t) /\ i = Len(w.delayed) + (i - Len(w.delayed))
        BY <1>3, <1>5, <2>1, <3>2
      <4>2. s[i] = t[i - Len(w.delayed)]
        BY <2>1, <4>1
      <4>3. ~Fresh(s[i])
        BY <1>4, <1>5, <1>3, <4>1, <4>2
      <4> QED BY <2>2, <4>3
    <3> QED BY <1>3, <1>5, <2>1, <3>1, <3>2
  <2> QED BY <1>1, <2>2 DEF FreshOnce
<1>10. v = GenerateHello(w, me)
  BY DEF GenerateHello, s, t, known
<1>11. \A x \in ToSet(s) : Placed(me, x)
  BY <1>1, <1>7, <1>8
<1>12. /\ Local(me, v) /\ Held(v) \subseteq Held(w) \union ToSet(s)
       /\ v.number = w.number /\ v.seen = w.seen
  BY <1>8, <1>9, <1>11, DelayedSet
<1> HIDE DEF v
<1>13. ToSet(w.delayed) \subseteq Held(w)
  BY DEF Held
<1>14. \A x \in ToSet(t) : Comes(me, x, Held(w), {})
  BY <1>7 DEF Comes
<1>15. Calm(me, w, v, {})
  BY <1>8, <1>12, <1>13, <1>14, HeldCalm
<1> QED BY <1>10, <1>12, <1>15

LEMMA RoutedPacket ==
    ASSUME NEW me \in Nodes, NEW p, Waits(me, p), NEW hops, Near(p.dst, hops, me), NEW extra \in Nat,
           NEW delay \in Nat
    PROVE  LET q == Routed(p, hops, extra, delay)
           IN  Placed(me, q) /\ Like(q, p) /\ Fresh(q) /\ q.delay = delay
<1> DEFINE q == Routed(p, hops, extra, delay)
           max == hops + extra
<1>1. hops \in Nat /\ max \in Nat /\ p \in Packets
  BY DEF Near, Waits
<1>2. q = [p EXCEPT !.expected = hops, !.max = max, !.delay = delay]
  BY Zenon DEF Routed
<1> HIDE DEF q, max
<1>3. q \in Packets
  BY <1>1, <1>2 DEF Packets
<1>4. /\ q.type = p.type /\ q.src = p.src /\ q.dst = p.dst /\ q.seq = p.seq /\ q.id = p.id
      /\ q.fresh = p.fresh /\ q.fromDest = p.fromDest /\ q.expected = hops /\ q.actual = p.actual
      /\ q.delay = delay
  BY <1>1, <1>2 DEF Packets
<1>5. Near(p.src, 0, me)
  BY NearSelf DEF Waits
<1>6. Placed(me, q)
  BY <1>3, <1>4, <1>5 DEF Placed, Waits
<1> QED BY <1>4, <1>6 DEF Like, Fresh, Waits, q

LEMMA BufferSet ==
    ASSUME NEW me, NEW w, Local(me, w), NEW v \in States,
           v.busy = w.busy, v.mac = w.mac, v.active = w.active, v.queue = w.queue,
           v.acks = w.acks, v.table = w.table, v.up = w.up, IsFiniteSet(v.buffer),
           \A p \in v.buffer : Waits(me, p), \A p \in ToSet(v.delayed) : Placed(me, p),
           FreshOnce(v.delayed, v.buffer)
    PROVE  /\ Local(me, v)
           /\ \A x \in Held(v) : x \in Held(w) \/ x \in v.buffer \/ x \in ToSet(v.delayed)
BY DEF Local, Held, Settled

(* The packets of the buffer for a destination, each once, with their routes.   *)
Due(w, d) == SetToSeq({p \in w.buffer : p.dst = d})
Ready(w, d) == [i \in DOMAIN Due(w, d) |-> Routed(Due(w, d)[i], w.table[d].hc, w.opt.extra, AckWindow)]

LEMMA DuePackets ==
    ASSUME NEW me \in Nodes, NEW w, Local(me, w), NEW d \in DOMAIN w.table
    PROVE  /\ Ready(w, d) \in Seq(Packets)
           /\ \A i \in 1 .. Len(Ready(w, d)) :
                 /\ Placed(me, Ready(w, d)[i]) /\ Fresh(Ready(w, d)[i])
                 /\ \E p \in w.buffer : p.dst = d /\ Like(Ready(w, d)[i], p)
           /\ \A i, j \in 1 .. Len(Ready(w, d)) : Ready(w, d)[i].id = Ready(w, d)[j].id => i = j
<1> DEFINE due == Due(w, d)
           t == Ready(w, d)
           B == {p \in w.buffer : p.dst = d}
<1>1. /\ w \in States /\ IsFiniteSet(w.buffer) /\ Truthful(me, w.table)
      /\ FreshOnce(w.delayed, w.buffer) /\ \A p \in w.buffer : Waits(me, p)
  BY DEF Local
<1>2. IsFiniteSet(B)
  <2>1. B \subseteq w.buffer
    OBVIOUS
  <2> HIDE DEF B
  <2> QED BY <1>1, <2>1, FS_Subset
<1>3. /\ due \in Seq(B) /\ DOMAIN due = 1 .. Len(due) /\ Len(due) \in Nat
      /\ \A i, j \in DOMAIN due : due[i] = due[j] => i = j
      /\ \A i \in DOMAIN due : due[i] \in B
  <2>1. due = SetToSeq(B)
    BY DEF Due
  <2> HIDE DEF B, due
  <2>2. /\ due \in Seq(B) /\ DOMAIN due = 1 .. Len(due) /\ Len(due) \in Nat
        /\ \A i, j \in DOMAIN due : due[i] = due[j] => i = j
    BY <1>2, <2>1, Listed
  <2> QED BY <2>2, Elements
<1>4. Near(d, w.table[d].hc, me) /\ w.opt.extra \in Nat /\ 1 \in Nat
  BY <1>1 DEF Truthful, States, Options
<1>5. ASSUME NEW i \in DOMAIN due
      PROVE  Placed(me, t[i]) /\ Fresh(t[i]) /\ Like(t[i], due[i]) /\ due[i] \in B
  <2>1. Waits(me, due[i]) /\ due[i].dst = d /\ due[i] \in B
    BY <1>1, <1>3
  <2>2. t[i] = Routed(due[i], w.table[d].hc, w.opt.extra, 4)
    BY DEF AckWindow, Ready
  <2> HIDE DEF t, due
  <2> QED BY <1>4, <2>1, <2>2, RoutedPacket
<1>6. DOMAIN t = 1 .. Len(due)
  BY <1>3 DEF Ready
<1>7. t = [i \in 1 .. Len(due) |-> t[i]]
  BY <1>3 DEF Ready
<1> HIDE DEF t, due
<1>8. t \in Seq(Packets) /\ Len(t) = Len(due)
  <2>1. \A i \in 1 .. Len(due) : t[i] \in Packets
    BY <1>3, <1>5 DEF Placed
  <2>2. t \in [1 .. Len(due) -> Packets]
    BY <1>7, <2>1
  <2>3. t \in Seq(Packets)
    BY <1>3, <2>2, SeqDef
  <2> QED BY <1>3, <1>6, <2>3, LenProperties
<1>9. ASSUME NEW i \in 1 .. Len(t), NEW j \in 1 .. Len(t), t[i].id = t[j].id PROVE i = j
  <2>1. due[i].id = due[j].id /\ due[i] \in w.buffer /\ due[j] \in w.buffer
    BY <1>3, <1>5, <1>8, <1>9 DEF Like
  <2> QED BY <1>1, <1>3, <1>8, <2>1 DEF FreshOnce
<1> QED BY <1>3, <1>5, <1>8, <1>9 DEF t

LEMMA CheckBufferKept ==
    ASSUME NEW me \in Nodes, NEW w, Local(me, w), NEW d \in DOMAIN w.table, NEW P
    PROVE  LET v == CheckBuffer(w, d)
           IN  Local(me, v) /\ Calm(me, w, v, P)
<1> DEFINE t == Ready(w, d)
           s == w.delayed \o t
           B == {p \in w.buffer : p.dst # d}
           v == CheckBuffer(w, d)
<1>1. /\ w \in States /\ IsFiniteSet(w.buffer) /\ FreshOnce(w.delayed, w.buffer)
      /\ \A p \in w.buffer : Waits(me, p)
      /\ \A p \in ToSet(w.delayed) : Placed(me, p)
  BY DEF Local
<1>2. v = [w EXCEPT !.buffer = B, !.delayed = s]
  BY DEF CheckBuffer, Ready, Due
<1>3. /\ t \in Seq(Packets)
      /\ \A i \in 1 .. Len(t) :
            /\ Placed(me, t[i]) /\ Fresh(t[i])
            /\ \E p \in w.buffer : p.dst = d /\ Like(t[i], p)
      /\ \A i, j \in 1 .. Len(t) : t[i].id = t[j].id => i = j
  BY DuePackets
<1> HIDE DEF t, v
<1>4. w.delayed \in Seq(Packets)
  BY <1>1, Types
<1>5. /\ s \in Seq(Packets) /\ ToSet(s) = ToSet(w.delayed) \union ToSet(t)
      /\ Len(s) = Len(w.delayed) + Len(t)
      /\ \A i \in 1 .. Len(w.delayed) : s[i] = w.delayed[i]
      /\ \A i \in 1 .. Len(t) : s[Len(w.delayed) + i] = t[i]
  BY <1>3, <1>4, Joined
<1> HIDE DEF s
<1>6. /\ DOMAIN w.delayed = 1 .. Len(w.delayed) /\ Len(w.delayed) \in Nat
      /\ DOMAIN s = 1 .. Len(s) /\ Len(t) \in Nat
      /\ \A x \in ToSet(t) : \E i \in 1 .. Len(t) : x = t[i]
  BY <1>3, <1>4, <1>5, Elements
<1>7. ASSUME NEW i \in DOMAIN s
      PROVE  \/ i \in DOMAIN w.delayed /\ s[i] = w.delayed[i]
             \/ i - Len(w.delayed) \in 1 .. Len(t) /\ s[i] = t[i - Len(w.delayed)]
  <2>1. CASE i <= Len(w.delayed)
    BY <1>5, <1>6, <2>1
  <2>2. CASE i > Len(w.delayed)
    <3>1. i - Len(w.delayed) \in 1 .. Len(t) /\ i = Len(w.delayed) + (i - Len(w.delayed))
      BY <1>5, <1>6, <2>2
    <3> QED BY <1>5, <3>1
  <2> QED BY <1>5, <1>6, <2>1, <2>2
<1>8. B \subseteq w.buffer
  OBVIOUS
<1>9. FreshOnce(s, B)
  <2>1. \A p, q \in B : p.id = q.id => p = q
    BY <1>1 DEF FreshOnce
  <2>2. ASSUME NEW i \in DOMAIN s, Fresh(s[i]), NEW q \in B PROVE s[i].id # q.id
    <3>1. CASE i \in DOMAIN w.delayed /\ s[i] = w.delayed[i]
      BY <1>1, <2>2, <3>1 DEF FreshOnce
    <3>2. CASE i - Len(w.delayed) \in 1 .. Len(t) /\ s[i] = t[i - Len(w.delayed)]
      <4>1. PICK p \in w.buffer : p.dst = d /\ Like(s[i], p)
        BY <1>3, <3>2
      <4>2. s[i].id = p.id /\ p # q
        BY <4>1 DEF Like
      <4> QED BY <1>1, <4>1, <4>2 DEF FreshOnce
    <3> QED BY <1>7, <3>1, <3>2
  <2>3. ASSUME NEW i \in DOMAIN s, NEW j \in DOMAIN s, Fresh(s[i]), Fresh(s[j]), s[i].id = s[j].id,
               i \in DOMAIN w.delayed, s[i] = w.delayed[i]
        PROVE  i = j
    <3>1. CASE j \in DOMAIN w.delayed /\ s[j] = w.delayed[j]
      BY <1>1, <2>3, <3>1 DEF FreshOnce
    <3>2. CASE j - Len(w.delayed) \in 1 .. Len(t) /\ s[j] = t[j - Len(w.delayed)]
      <4>1. PICK p \in w.buffer : p.dst = d /\ Like(s[j], p)
        BY <1>3, <3>2
      <4>2. w.delayed[i].id = p.id
        BY <2>3, <4>1 DEF Like
      <4> QED BY <1>1, <2>3, <4>1, <4>2 DEF FreshOnce
    <3> QED BY <1>7, <3>1, <3>2
  <2>4. ASSUME NEW i \in DOMAIN s, NEW j \in DOMAIN s, Fresh(s[i]), Fresh(s[j]), s[i].id = s[j].id
        PROVE  i = j
    <3>1. CASE i \in DOMAIN w.delayed /\ s[i] = w.delayed[i]
      BY <2>3, <2>4, <3>1
    <3>2. CASE j \in DOMAIN w.delayed /\ s[j] = w.delayed[j]
      BY <2>3, <2>4, <3>2
    <3>3. CASE /\ i - Len(w.delayed) \in 1 .. Len(t) /\ s[i] = t[i - Len(w.delayed)]
               /\ j - Len(w.delayed) \in 1 .. Len(t) /\ s[j] = t[j - Len(w.delayed)]
      <4>1. i - Len(w.delayed) = j - Len(w.delayed)
        BY <1>3, <2>4, <3>3
      <4>2. i \in Int /\ j \in Int
        BY <1>6
      <4> QED BY <1>6, <4>1, <4>2
    <3> QED BY <1>7, <3>1, <3>2, <3>3
  <2> HIDE DEF B
  <2> QED BY <2>1, <2>2, <2>4 DEF FreshOnce
<1>10. \A x \in ToSet(s) : Placed(me, x)
  BY <1>1, <1>3, <1>5, <1>6
<1>11. IsFiniteSet(B) /\ \A p \in B : Waits(me, p)
  <2> HIDE DEF B
  <2> QED BY <1>1, <1>8, FS_Subset
<1>12. B \subseteq Packets
  BY <1>1, Types
<1> HIDE DEF B
<1>13. /\ v \in States /\ v.busy = w.busy /\ v.mac = w.mac /\ v.active = w.active /\ v.queue = w.queue
       /\ v.delayed = s /\ v.acks = w.acks /\ v.buffer = B /\ v.table = w.table
       /\ v.up = w.up /\ v.number = w.number /\ v.seen = w.seen
  BY <1>1, <1>2, <1>5, <1>12 DEF States
<1>14. Local(me, v) /\ \A x \in Held(v) : x \in Held(w) \/ x \in B \/ x \in ToSet(s)
  BY <1>9, <1>10, <1>11, <1>13, BufferSet
<1>15. ToSet(w.delayed) \subseteq Held(w) /\ w.buffer \subseteq Held(w)
  BY DEF Held
<1>16. \A x \in ToSet(t) : Comes(me, x, Held(w), P)
  BY <1>3, <1>6, <1>15 DEF Comes
<1>17. Calm(me, w, v, P)
  BY <1>5, <1>8, <1>13, <1>14, <1>15, <1>16, HeldCalm
<1> QED BY <1>14, <1>17 DEF v

----------------------------------------------------------------------------------
(* What node me does with a packet it hears                                     *)

LEMMA CalmGoes ==
    ASSUME NEW me, NEW u, NEW v, NEW w, NEW P, Calm(me, u, v, P), Goes(me, v, w, P)
    PROVE  Goes(me, u, w, P)
BY CalmSteps, CalmNumbers DEF Goes

LEMMA GoesCalm ==
    ASSUME NEW me, NEW u, NEW v, NEW w, NEW P, Goes(me, u, v, P), Calm(me, v, w, P),
           \A y \in P : ~y.fresh
    PROVE  Goes(me, u, w, P)
BY CalmSteps, NumbersCalm DEF Goes

LEMMA QuietSame ==
    ASSUME NEW me, NEW v, Local(me, v)
    PROVE  Quiet(v) = v /\ v.up = <<>>
<1>1. v \in States /\ v.up = <<>>
  BY DEF Local
<1> QED BY <1>1 DEF Quiet, States

(* The result v of hearing p, and what has gone up.                             *)
Handled(me, w, v, p) ==
    /\ Local(me, Quiet(v)) /\ Goes(me, w, Quiet(v), {p})
    /\ \/ v.up = <<>>
       \/ /\ v.up = <<<<p.src, p.id>>>> /\ p.type = "DATA" /\ p.dst = me /\ p.resend = 0

LEMMA HandledQuietly ==
    ASSUME NEW me, NEW w, NEW v, NEW p, Local(me, v), Goes(me, w, v, {p})
    PROVE  Handled(me, w, v, p)
BY QuietSame DEF Handled

LEMMA ReplyPacket ==
    ASSUME NEW me \in Nodes, NEW d \in Nodes, NEW hops \in Nat, NEW extra \in Nat
    PROVE  LET q == ReplyPkt(me, d, hops, extra)
           IN  Placed(me, q) /\ Own(me, q) /\ ~Fresh(q)
<1> DEFINE b == BasicPkt("REPLY", me, d)
           max == hops + extra
           q == ReplyPkt(me, d, hops, extra)
<1>1. /\ b \in Packets /\ b.type = "REPLY" /\ b.src = me /\ b.dst = d /\ b.fresh = TRUE /\ b.actual = 1
  BY DEF BasicPkt, Unnumbered, Packets, PacketTypes
<1> HIDE DEF b
<1>2. q = [b EXCEPT !.expected = hops, !.max = max]
  BY Zenon DEF ReplyPkt, b
<1>3. max \in Nat
  OBVIOUS
<1> HIDE DEF q, max
<1>4. q \in Packets
  BY <1>1, <1>2, <1>3 DEF Packets
<1>5. q.type = "REPLY" /\ q.src = me /\ q.dst = d /\ q.fresh = TRUE /\ q.actual = 1
  BY <1>1, <1>2 DEF Packets
<1>6. Near(me, 0, me)
  BY NearSelf
<1>7. Placed(me, q)
  BY <1>4, <1>5, <1>6 DEF Placed
<1> QED BY <1>5, <1>7 DEF Own, Fresh, q

LEMMA AtDestinationKept ==
    ASSUME NEW me \in Nodes, NEW w, Local(me, w), NEW p, Hears(me, w, p), p.dst = me,
           p.type \in {"DATA", "REQUEST", "REPLY"}, p.resend = 0 => p.src \in DOMAIN w.table
    PROVE  Handled(me, w, AtDestination(w, me, p), p)
<1> DEFINE acked == SendAck(w, me, p, p.cur, AckWindow, TRUE)
           v == AtDestination(w, me, p)
<1>1. p \in Packets /\ p.cur \in Nodes /\ p.src \in Nodes /\ p.type # "ACK" /\ ~p.fresh
  BY DEF Hears, Packets
<1>2. Local(me, acked) /\ Calm(me, w, acked, {p}) /\ acked.table = w.table
  <2> DEFINE yes == TRUE
  <2>1. yes \in BOOLEAN /\ (yes => p.dst = me /\ p.type # "ACK") /\ AckWindow \in Nat
    BY <1>1 DEF AckWindow
  <2> HIDE DEF yes
  <2>2. LET t == SendAck(w, me, p, p.cur, AckWindow, yes)
        IN  Local(me, t) /\ Calm(me, w, t, {p}) /\ t.table = w.table
    BY <1>1, <2>1, SendAckKept, CalmStays
  <2> QED BY <2>2 DEF yes
<1> HIDE DEF acked
<1> SUFFICES Handled(me, w, v, p)
  OBVIOUS
<1>3. CASE p.resend # 0
  <2>1. v = w
    BY <1>3, Zenon DEF AtDestination
  <2> HIDE DEF v
  <2> QED BY <2>1, CalmStays, HandledQuietly DEF Goes
<1>4. CASE p.resend = 0 /\ p.type = "REQUEST"
  <2> DEFINE q == ReplyPkt(me, p.src, w.table[p.src].hc, w.opt.extra)
             u == SendPacket(w, me, q)
  <2>1. v = CheckBuffer(u, p.src)
    BY <1>4, Zenon DEF AtDestination
  <2>2. w.table[p.src].hc \in Nat /\ w.opt.extra \in Nat
    BY <1>4 DEF Local, Truthful, Near, States, Options
  <2>3. Placed(me, q) /\ Own(me, q) /\ ~Fresh(q)
    BY <1>1, <2>2, ReplyPacket
  <2> HIDE DEF q
  <2>4. Comes(me, q, Held(w), {p}) /\ Calm(me, w, w, {p})
    BY <2>3, CalmStays DEF Comes
  <2>5. Local(me, u) /\ Goes(me, w, u, {p}) /\ u.table = w.table
    BY <2>3, <2>4, SendKept
  <2> HIDE DEF u, v
  <2>6. Local(me, v) /\ Calm(me, u, v, {p})
    BY <1>4, <2>1, <2>5, CheckBufferKept
  <2>7. Goes(me, w, v, {p})
    BY <1>1, <2>5, <2>6, GoesCalm
  <2> QED BY <2>6, <2>7, HandledQuietly
<1>5. CASE p.resend = 0 /\ p.type = "REPLY"
  <2>1. v = CheckBuffer(acked, p.src)
    BY <1>5, Zenon DEF AtDestination, acked
  <2> HIDE DEF v
  <2>2. Local(me, v) /\ Calm(me, acked, v, {p})
    BY <1>2, <1>5, <2>1, CheckBufferKept
  <2>3. Goes(me, w, v, {p})
    BY <1>2, <2>2, CalmSteps DEF Goes
  <2> QED BY <2>2, <2>3, HandledQuietly
<1>6. CASE p.resend = 0 /\ p.type = "DATA"
  <2>1. v = [acked EXCEPT !.up = Append(acked.up, <<p.src, p.id>>)]
    BY <1>6, Zenon DEF AtDestination, acked
  <2>2. acked \in States /\ acked.up = <<>>
    BY <1>2 DEF Local
  <2> HIDE DEF v
  <2>3. v.up = <<<<p.src, p.id>>>>
    BY <2>1, <2>2 DEF States
  <2>4. Quiet(v) = acked
    <3>1. Quiet(v) = [acked EXCEPT !.up = <<>>]
      BY <2>1, <2>2 DEF Quiet, States
    <3> QED BY <2>2, <3>1 DEF States
  <2> QED BY <1>2, <1>6, <2>3, <2>4 DEF Handled, Goes
<1> QED BY <1>3, <1>4, <1>5, <1>6

LEMMA Relabelled ==
    ASSUME NEW p \in Packets, NEW me \in Nodes, NEW pre \in Nodes, NEW k \in Nat, NEW q,
           q = [p EXCEPT !.cur = me, !.pre = pre, !.resend = 0, !.actual = k, !.delay = 8]
    PROVE  q \in Packets /\ Like(q, p) /\ q.actual = k /\ q.fresh = p.fresh
<1> DEFINE r == [p EXCEPT !.cur = me, !.pre = pre, !.resend = 0]
<1>1. r \in Packets /\ Like(r, p) /\ r.fresh = p.fresh
  BY DEF Packets, Like
<1>2. q = [r EXCEPT !.actual = k, !.delay = 8]
  BY Zenon
<1> HIDE DEF r
<1>3. q \in Packets
  <2> DEFINE t == [r EXCEPT !.actual = k, !.delay = 8]
  <2>1. t \in Packets
    BY <1>1 DEF Packets
  <2> QED BY <1>2, <2>1, Zenon
<1>4. q.actual = k /\ Like(q, r) /\ q.fresh = r.fresh
  <2> DEFINE t == [r EXCEPT !.actual = k, !.delay = 8]
  <2>1. t.actual = k /\ Like(t, r) /\ t.fresh = r.fresh
    BY <1>1 DEF Packets, Like
  <2> QED BY <1>2, <2>1, Zenon
<1>5. Like(q, p)
  BY <1>1, <1>4 DEF Like
<1> QED BY <1>1, <1>3, <1>4, <1>5

LEMMA ForwardedPacket ==
    ASSUME NEW me \in Nodes, NEW w, NEW p, Hears(me, w, p), p.type \in {"DATA", "REQUEST", "REPLY"},
           NEW q, q = [p EXCEPT !.cur = me, !.pre = p.cur, !.resend = 0, !.actual = @ + 1,
                                !.delay = ForwardDelay]
    PROVE  /\ q \in Packets /\ Like(q, p) /\ ~q.fresh /\ q.actual = p.actual + 1
           /\ p.type # "DATA" => Placed(me, q)
<1>1. p \in Packets /\ p.cur \in Nodes /\ ~p.fresh /\ p.actual \in Nat /\ Near(p.src, p.actual, me)
  BY DEF Hears, Packets
<1>2. p.actual + 1 \in Nat /\ p.actual + 1 # 0 /\ (p.actual + 1) - 1 = p.actual
  BY <1>1
<1>3. q = [p EXCEPT !.cur = me, !.pre = p.cur, !.resend = 0, !.actual = p.actual + 1, !.delay = 8]
  BY Zenon DEF ForwardDelay
<1>4. q \in Packets /\ Like(q, p) /\ q.actual = p.actual + 1 /\ q.fresh = p.fresh
  <2>1. \A pre \in Nodes, k \in Nat : \A z :
           z = [p EXCEPT !.cur = me, !.pre = pre, !.resend = 0, !.actual = k, !.delay = 8]
           => z \in Packets /\ Like(z, p) /\ z.actual = k /\ z.fresh = p.fresh
    BY <1>1, Relabelled
  <2>2. \A k \in Nat : \A z :
           z = [p EXCEPT !.cur = me, !.pre = p.cur, !.resend = 0, !.actual = k, !.delay = 8]
           => z \in Packets /\ Like(z, p) /\ z.actual = k /\ z.fresh = p.fresh
    BY <1>1, <2>1, Zenon
  <2> QED BY <1>2, <1>3, <2>2, Zenon
<1>5. q.type = p.type /\ q.src = p.src
  BY <1>4 DEF Like
<1>6. p.type # "DATA" => Placed(me, q)
  BY <1>1, <1>2, <1>4, <1>5 DEF Placed
<1> QED BY <1>1, <1>4, <1>6

LEMMA ForwardKept ==
    ASSUME NEW me \in Nodes, NEW w, Local(me, w), NEW p, Hears(me, w, p),
           p.type \in {"DATA", "REQUEST", "REPLY"}, NEW updated \in BOOLEAN
    PROVE  LET v == Forward(w, me, p, updated)
           IN  Local(me, v) /\ Calm(me, w, v, {p})
<1> DEFINE np == [p EXCEPT !.cur = me, !.pre = p.cur, !.resend = 0, !.actual = @ + 1,
                           !.delay = ForwardDelay]
           v == Forward(w, me, p, updated)
<1>1. /\ np \in Packets /\ Like(np, p) /\ ~np.fresh /\ np.actual = p.actual + 1
      /\ p.type # "DATA" => Placed(me, np)
  <2>1. np = [p EXCEPT !.cur = me, !.pre = p.cur, !.resend = 0, !.actual = @ + 1,
                       !.delay = ForwardDelay]
    OBVIOUS
  <2> HIDE DEF np
  <2> QED BY <2>1, ForwardedPacket
<1>2. p \in Packets /\ p.actual \in Nat /\ p.max \in Nat /\ p.dst \in Nodes /\ ~p.fresh
      /\ Near(p.src, p.actual, me)
  BY DEF Hears, Packets
<1> HIDE DEF np
<1> SUFFICES Local(me, v) /\ Calm(me, w, v, {p})
  OBVIOUS
<1>3. Calm(me, w, w, {p})
  BY CalmStays
<1>4. Comes(me, np, Held(w), {p}) /\ ~Fresh(np)
  BY <1>1 DEF Comes, Fresh
<1>5. ASSUME p.type # "DATA" PROVE LET u == SendPacket(w, me, np) IN Local(me, u) /\ Calm(me, w, u, {p})
  BY <1>1, <1>3, <1>4, <1>5, SendKept
<1>6. CASE p.actual >= p.max
  <2>1. v = w
    <3>1. ~(p.actual < p.max)
      BY <1>2, <1>6
    <3> QED BY <1>6, <3>1, Zenon DEF Forward
  <2> HIDE DEF v
  <2> QED BY <1>3, <2>1
<1>7. CASE p.actual < p.max /\ p.type = "REQUEST"
  <2>1. v = SendPacket(w, me, np)
    <3>1. ~(p.actual >= p.max)
      BY <1>2, <1>7
    <3> QED BY <1>7, <3>1, Zenon DEF Forward, np
  <2> HIDE DEF v
  <2> QED BY <1>5, <1>7, <2>1
<1>8. CASE p.actual < p.max /\ p.type = "REPLY" /\ updated /\ (Knows(w, p.dst) \/ p.dst = me)
  <2>1. v = SendPacket(w, me, np)
    <3>1. ~(p.actual >= p.max)
      BY <1>2, <1>8
    <3> QED BY <1>8, <3>1, Zenon DEF Forward, np
  <2> HIDE DEF v
  <2> QED BY <1>5, <1>8, <2>1
<1>9. CASE p.actual < p.max /\ p.type = "DATA" /\ Knows(w, p.dst)
  <2> DEFINE i == InAckList(w, p)
             u == Unlisted(w, i)
             q == [np EXCEPT !.expected = w.table[p.dst].hc]
  <2>1. v = SendPacket(u, me, q)
    <3>1. ~(p.actual >= p.max)
      BY <1>2, <1>9
    <3> QED BY <1>9, <3>1, Zenon DEF Forward, np
  <2>2. i \in 0 .. Len(w.acks)
    <3>1. w.acks \in Seq(Packets)
      BY Types DEF Local
    <3> QED BY <3>1, FirstFound DEF InAckList
  <2> HIDE DEF i
  <2>3. Local(me, u) /\ Calm(me, w, u, {p})
    BY <2>2, UnlistedKept
  <2>4. Near(p.dst, w.table[p.dst].hc, me) /\ w.table[p.dst].hc \in Nat
    BY <1>9 DEF Local, Truthful, Knows, Near
  <2>5. /\ q \in Packets /\ q.type = np.type /\ q.src = np.src /\ q.dst = np.dst /\ q.seq = np.seq
        /\ q.id = np.id /\ q.fresh = np.fresh /\ q.fromDest = np.fromDest /\ q.actual = np.actual
        /\ q.expected = w.table[p.dst].hc
    BY <1>1, <2>4 DEF Packets
  <2> HIDE DEF v, u, q
  <2>6. Like(q, p)
    BY <1>1, <2>5 DEF Like
  <2>7. q.actual = p.actual + 1 /\ ~q.fresh /\ q.type = "DATA" /\ q.src = p.src /\ q.dst = p.dst
    BY <1>1, <1>9, <2>5 DEF Like
  <2>8. q.actual # 0 /\ q.actual - 1 = p.actual
    BY <1>2, <2>7
  <2>9. Placed(me, q)
    BY <1>2, <2>4, <2>5, <2>7, <2>8 DEF Placed
  <2>10. Comes(me, q, Held(w), {p}) /\ ~Fresh(q)
    BY <1>9, <2>6, <2>7 DEF Comes, Fresh
  <2> QED BY <2>1, <2>3, <2>7, <2>9, <2>10, SendKept
<1>10. CASE /\ ~(p.actual >= p.max)
            /\ ~(p.actual < p.max /\ p.type = "REQUEST")
            /\ ~(p.actual < p.max /\ p.type = "REPLY" /\ updated /\ (Knows(w, p.dst) \/ p.dst = me))
            /\ ~(p.actual < p.max /\ p.type = "DATA" /\ Knows(w, p.dst))
  <2>1. v = w
    BY <1>10, Zenon DEF Forward
  <2> HIDE DEF v
  <2> QED BY <1>3, <2>1
<1> QED BY <1>6, <1>7, <1>8, <1>9, <1>10

LEMMA FromMacDataKept ==
    ASSUME MaxResend \in Nat, NEW me \in Nodes, NEW w, Local(me, w), NEW p, Hears(me, w, p)
    PROVE  LET v == FromMacData(w, p, me)
           IN  /\ Handled(me, w, v, p)
               /\ v.up # <<>> => <<p.src, p.seq>> \notin w.seen /\ <<p.src, p.seq>> \in Quiet(v).seen
<1> DEFINE updated == Updates(w, me, p.src, p.actual, "Lower")
           r == UpdateHopCountInCache(w, me, p.src, p.actual, "Lower")
           S == r.seen \union {<<p.src, p.seq>>}
           u == [r EXCEPT !.seen = S]
           new == ~Heard(w, p) \/ p.resend > 0
           v == FromMacData(w, p, me)
<1>1. /\ p \in Packets /\ ~p.fresh /\ p.src \in Nodes /\ p.seq \in Int /\ p.resend \in Nat
      /\ p.type \in PacketTypes
  BY DEF Hears, Packets
<1> SUFFICES /\ Handled(me, w, v, p)
             /\ v.up # <<>> => <<p.src, p.seq>> \notin w.seen /\ <<p.src, p.seq>> \in Quiet(v).seen
  OBVIOUS
<1>2. ASSUME Local(me, v), Calm(me, w, v, {p})
      PROVE  /\ Handled(me, w, v, p)
             /\ v.up # <<>> => <<p.src, p.seq>> \notin w.seen /\ <<p.src, p.seq>> \in Quiet(v).seen
  <2> HIDE DEF v
  <2> QED BY <1>2, HandledQuietly, QuietSame DEF Goes
<1>3. CASE p.type = "HELLO"
  <2>1. v = ReceiveHello(w, me, p)
    BY <1>3, Zenon DEF FromMacData
  <2> HIDE DEF v
  <2>2. Local(me, v) /\ Calm(me, w, v, {p})
    BY <1>3, <2>1, ReceiveHelloKept
  <2> QED BY <1>2, <2>2
<1>4. CASE p.type = "ACK"
  <2>1. v = ReceiveAck(w, me, p)
    BY <1>4, Zenon DEF FromMacData
  <2> HIDE DEF v
  <2>2. Local(me, v) /\ Calm(me, w, v, {p})
    BY <1>4, <2>1, ReceiveAckKept
  <2> QED BY <1>2, <2>2
<1>5. CASE p.type \in {"DATA", "REQUEST", "REPLY"}
  <2>1. p.type \notin {"HELLO", "ACK"} /\ p.type # "HELLO" /\ p.type # "ACK"
    BY <1>5
  <2>2. Near(p.src, p.actual, me)
    BY <1>5 DEF Hears
  <2>3. /\ Local(me, r) /\ Calm(me, w, r, {p}) /\ SamePackets(w, r) /\ r.seen = w.seen
        /\ p.src # me => p.src \in DOMAIN r.table
    BY <1>1, <2>2, UpdateKept
  <2>4. updated \in BOOLEAN
    BY DEF Updates
  <2>5. r.number \in Nat /\ S \in SUBSET (Nodes \X Int)
    <3>1. r \in States
      BY <2>3 DEF Local
    <3> HIDE DEF r
    <3> QED BY <1>1, <3>1, Types
  <2>6. /\ v = IF ~new THEN ReceiveDataRep(u, me, p)
               ELSE IF p.dst = me THEN AtDestination(u, me, p) ELSE Forward(u, me, p, updated)
    <3>1. CASE ~new
      <4>1. v = ReceiveDataRep(u, me, p)
        BY <2>1, <3>1, Zenon DEF FromMacData
      <4> QED BY <3>1, <4>1, Zenon
    <3>2. CASE new /\ p.dst = me
      <4>1. v = AtDestination(u, me, p)
        BY <2>1, <3>2, Zenon DEF FromMacData
      <4> QED BY <3>2, <4>1, Zenon
    <3>3. CASE new /\ p.dst # me
      <4>1. v = Forward(u, me, p, updated)
        BY <2>1, <3>3, Zenon DEF FromMacData
      <4> QED BY <3>3, <4>1, Zenon
    <3> QED BY <3>1, <3>2, <3>3
  <2> HIDE DEF v, updated
  <2>7. /\ Local(me, u) /\ Calm(me, w, u, {p}) /\ u.seen = S /\ u.acks = w.acks
        /\ p.src # me => p.src \in DOMAIN u.table
    <3> HIDE DEF r, S
    <3>1. r \in States
      BY <2>3 DEF Local
    <3>2. /\ u \in States /\ SamePackets(r, u) /\ u.number = r.number /\ u.seen = S
          /\ u.table = r.table /\ u.up = r.up
      BY <2>5, <3>1 DEF States, SamePackets
    <3>3. Local(me, u)
      <4> HIDE DEF u
      <4> QED BY <2>3, <3>2, SamePacketsLocal DEF Local
    <3> HIDE DEF u
    <3>4. Calm(me, r, u, {p})
      BY <3>2, SamePacketsCalm DEF S
    <3>5. Calm(me, w, u, {p})
      BY <2>3, <3>4, CalmSteps
    <3>6. u.acks = w.acks
      BY <2>3, <3>2 DEF SamePackets
    <3> QED BY <2>3, <3>2, <3>3, <3>5, <3>6
  <2>8. <<p.src, p.seq>> \in u.seen /\ w.seen \subseteq u.seen
    BY <2>3, <2>7
  <2> HIDE DEF u
  <2>9. Hears(me, u, p)
    BY <2>7, <2>8 DEF Hears
  <2>10. CASE ~new
    <3>1. v = ReceiveDataRep(u, me, p)
      BY <2>6, <2>10
    <3>2. Local(me, v) /\ Calm(me, w, v, {p})
      BY <1>5, <2>7, <2>9, <3>1, ReceiveDataRepKept
    <3> QED BY <1>2, <3>2
  <2>11. CASE new /\ p.dst = me
    <3>1. v = AtDestination(u, me, p)
      BY <2>6, <2>11
    <3>2. p.resend = 0 => ~Heard(w, p)
      BY <1>1, <2>11
    <3>3. p.resend = 0 => p.src \in DOMAIN u.table
      BY <2>7, <3>2 DEF Heard, Hears
    <3>4. Handled(me, u, v, p)
      BY <1>5, <2>7, <2>9, <2>11, <3>1, <3>3, AtDestinationKept
    <3>5. Goes(me, w, Quiet(v), {p}) /\ u.seen \subseteq Quiet(v).seen
      <4> DEFINE q == Quiet(v)
      <4>1. Goes(me, u, q, {p})
        BY <3>4 DEF Handled
      <4> HIDE DEF q
      <4>2. Goes(me, w, q, {p})
        BY <2>7, <4>1, CalmGoes
      <4>3. u.seen \subseteq q.seen
        BY <4>1 DEF Goes, Calm, Numbers
      <4> QED BY <4>2, <4>3 DEF q
    <3>6. v.up # <<>> => p.resend = 0
      BY <3>4 DEF Handled
    <3> QED BY <2>8, <3>2, <3>4, <3>5, <3>6 DEF Handled, Heard
  <2>12. CASE new /\ p.dst # me
    <3>1. v = Forward(u, me, p, updated)
      BY <2>6, <2>12
    <3>2. Local(me, v) /\ Calm(me, u, v, {p})
      BY <1>5, <2>4, <2>7, <2>9, <3>1, ForwardKept DEF updated
    <3>3. Calm(me, w, v, {p})
      BY <2>7, <3>2, CalmSteps
    <3> QED BY <1>2, <3>2, <3>3
  <2> QED BY <2>10, <2>11, <2>12
<1> QED BY <1>1, <1>3, <1>4, <1>5 DEF PacketTypes

----------------------------------------------------------------------------------
(* The timers, the answers of the MAC and the application                       *)

(* A packet with another delay.                                                 *)
LEMMA Drawn ==
    ASSUME NEW me \in Nodes, NEW p, Placed(me, p), NEW k \in Nat
    PROVE  LET q == [p EXCEPT !.delay = k] IN Placed(me, q) /\ Like(q, p)
<1> DEFINE q == [p EXCEPT !.delay = k]
<1>1. p \in Packets
  BY DEF Placed
<1>2. q \in Packets
  BY <1>1 DEF Packets
<1>3. /\ q.type = p.type /\ q.src = p.src /\ q.dst = p.dst /\ q.seq = p.seq /\ q.id = p.id
      /\ q.fresh = p.fresh /\ q.fromDest = p.fromDest /\ q.actual = p.actual
      /\ q.expected = p.expected /\ q.hello = p.hello
  BY <1>1 DEF Packets
<1> HIDE DEF q
<1>4. Placed(me, q)
  BY <1>2, <1>3 DEF Placed
<1> QED BY <1>3, <1>4 DEF Like, q

LEMMA Redelayed ==
    ASSUME NEW me \in Nodes, NEW p, Sent(me, p), NEW k \in Nat
    PROVE  LET q == [p EXCEPT !.delay = k] IN Sent(me, q) /\ Like(q, p) /\ ~Fresh(q)
<1> DEFINE q == [p EXCEPT !.delay = k]
<1>1. Placed(me, q) /\ Like(q, p)
  BY Drawn DEF Sent
<1> HIDE DEF q
<1> QED BY <1>1 DEF Like, Fresh, Sent, q

LEMMA NextKept ==
    ASSUME NEW me \in Nodes, NEW w, Local(me, w), NEW P, NEW o, Calm(me, o, w, P)
    PROVE  LET v == NextFromQueue(w)
           IN  Local(me, v) /\ Calm(me, o, v, P)
<1> DEFINE v == NextFromQueue(w)
<1>1. w \in States /\ \A p \in ToSet(w.queue) : Sent(me, p)
  BY DEF Local
<1>2. w.queue \in Seq(Packets)
  BY <1>1, Types
<1>3. CASE w.queue # <<>>
  <2> DEFINE mac == IF w.opt.transition THEN "transition" ELSE "defer"
             h == Head(w.queue)
             a == [h EXCEPT !.delay = 0]
             s == Tail(w.queue)
  <2>1. v = [w EXCEPT !.active = a, !.queue = s, !.busy = TRUE, !.mac = mac]
    BY <1>1, <1>3 DEF NextFromQueue, SendToMac, States
  <2>2. h \in ToSet(w.queue) /\ s \in Seq(Packets) /\ ToSet(s) \subseteq ToSet(w.queue)
    BY <1>2, <1>3, Taken
  <2>3. mac \in {"none", "transition", "defer", "overlapped", "canceled"} /\ mac # "none"
    OBVIOUS
  <2> HIDE DEF h, s, mac, v
  <2>4. Sent(me, a) /\ Like(a, h)
    BY <1>1, <2>2, Redelayed
  <2> HIDE DEF a
  <2>5. a \in Packets /\ \A p \in ToSet(s) : Sent(me, p)
    BY <1>1, <2>2, <2>4 DEF Sent, Placed
  <2>6. /\ v \in States /\ v.busy = TRUE /\ v.mac = mac /\ v.active = a /\ v.queue = s
        /\ v.delayed = w.delayed /\ v.acks = w.acks /\ v.buffer = w.buffer /\ v.table = w.table
        /\ v.up = w.up /\ v.number = w.number /\ v.seen = w.seen
    BY <1>1, <2>1, <2>2, <2>3, <2>5 DEF States
  <2>7. Settled(v) /\ (v.busy => Sent(me, v.active)) /\ \A p \in ToSet(v.queue) : Sent(me, p)
    BY <2>3, <2>4, <2>5, <2>6 DEF Settled
  <2>8. Local(me, v) /\ \A x \in Held(v) : x \in Held(w) \/ x \in ToSet(s) \/ x = a
    BY <2>6, <2>7, MacSet
  <2>9. ToSet(w.queue) \subseteq Held(w)
    BY DEF Held
  <2>10. Comes(me, a, Held(o), P)
    <3>1. Comes(me, a, Held(w), P)
      BY <2>2, <2>4, <2>9 DEF Comes
    <3> QED BY <3>1, ComesOn DEF Calm
  <2>11. Calm(me, o, v, P)
    BY <2>2, <2>6, <2>8, <2>9, <2>10, CalmMore
  <2> QED BY <2>8, <2>11 DEF v
<1>4. CASE w.queue = <<>>
  <2>1. v = [w EXCEPT !.busy = FALSE, !.mac = "none", !.active = NoPacket]
    BY <1>4 DEF NextFromQueue
  <2> HIDE DEF v
  <2>2. /\ v \in States /\ v.busy = FALSE /\ v.mac = "none" /\ v.queue = w.queue
        /\ v.delayed = w.delayed /\ v.acks = w.acks /\ v.buffer = w.buffer /\ v.table = w.table
        /\ v.up = w.up /\ v.number = w.number /\ v.seen = w.seen
    BY <1>1, <2>1 DEF States
  <2>3. Settled(v) /\ (v.busy => Sent(me, v.active)) /\ \A p \in ToSet(v.queue) : Sent(me, p)
    BY <1>1, <1>4, <2>2 DEF Settled
  <2>4. Local(me, v) /\ \A x \in Held(v) : x \in Held(w) \/ x \in ToSet(w.queue)
    BY <2>2, <2>3, MacSet
  <2>5. ToSet(w.queue) \subseteq Held(w)
    BY DEF Held
  <2>6. Calm(me, o, v, P)
    BY <2>2, <2>4, <2>5, CalmMore
  <2> QED BY <2>4, <2>6 DEF v
<1> QED BY <1>3, <1>4

LEMMA FromMacAckKept ==
    ASSUME NEW me \in Nodes, NEW w, Local(me, w), w.busy, NEW ok \in BOOLEAN
    PROVE  LET v == FromMacAck(w, me, ok)
           IN  Local(me, v) /\ Calm(me, w, v, {})
<1> DEFINE slotted == w.opt.slotted /\ me # w.active.src
           failed == ~ok /\ w.active.type # "ACK"
           v == FromMacAck(w, me, ok)
<1>1. /\ w \in States /\ Sent(me, w.active) /\ \A p \in ToSet(w.queue) : Sent(me, p)
      /\ \A p \in ToSet(w.acks) : Sent(me, p) /\ p.type = "DATA"
      /\ w.active \in Packets
  BY DEF Local, Sent, Placed
<1>2. w.active \in Held(w) /\ Calm(me, w, w, {})
  BY CalmStays DEF Held
<1> SUFFICES Local(me, v) /\ Calm(me, w, v, {})
  OBVIOUS
<1>3. CASE failed /\ ~slotted
  <2> DEFINE a == [w.active EXCEPT !.delay = 0]
             u == [w EXCEPT !.active = a]
             mac == IF w.opt.transition THEN "transition" ELSE "defer"
  <2>1. v = SendToMac([w EXCEPT !.active.delay = 0])
    BY <1>3, Zenon DEF FromMacAck
  <2>2. v = [w EXCEPT !.active = a, !.busy = TRUE, !.mac = mac]
    BY <1>1, <2>1 DEF SendToMac, States
  <2>3. Sent(me, a) /\ Like(a, w.active)
    BY <1>1, Redelayed
  <2>4. mac \in {"none", "transition", "defer", "overlapped", "canceled"} /\ mac # "none"
    OBVIOUS
  <2> HIDE DEF a, mac, v
  <2>5. a \in Packets
    BY <2>3 DEF Sent, Placed
  <2>6. /\ v \in States /\ v.busy = TRUE /\ v.mac = mac /\ v.active = a /\ v.queue = w.queue
        /\ v.delayed = w.delayed /\ v.acks = w.acks /\ v.buffer = w.buffer /\ v.table = w.table
        /\ v.up = w.up /\ v.number = w.number /\ v.seen = w.seen
    BY <1>1, <2>2, <2>4, <2>5 DEF States
  <2>7. Settled(v) /\ (v.busy => Sent(me, v.active)) /\ \A p \in ToSet(v.queue) : Sent(me, p)
    BY <1>1, <2>3, <2>4, <2>5, <2>6 DEF Settled
  <2>8. Local(me, v) /\ \A x \in Held(v) : x \in Held(w) \/ x \in ToSet(w.queue) \/ x = a
    BY <2>6, <2>7, MacSet
  <2>9. ToSet(w.queue) \subseteq Held(w) /\ Comes(me, a, Held(w), {})
    BY <1>2, <2>3 DEF Held, Comes
  <2>10. Calm(me, w, v, {})
    BY <1>2, <2>6, <2>8, <2>9, HeldCalm
  <2> QED BY <2>8, <2>10
<1>4. CASE failed /\ slotted
  <2> DEFINE q == [w.active EXCEPT !.delay = SlotWidth]
             u == SendPacket(w, me, q)
  <2>1. v = NextFromQueue(u)
    BY <1>4, Zenon DEF FromMacAck
  <2>2. Sent(me, q) /\ Like(q, w.active) /\ ~Fresh(q)
    BY <1>1, Redelayed DEF SlotWidth
  <2> HIDE DEF q, v
  <2>3. Comes(me, q, Held(w), {}) /\ Placed(me, q) /\ ~q.fresh
    BY <1>2, <2>2 DEF Comes, Sent
  <2>4. Local(me, u) /\ Calm(me, w, u, {})
    BY <1>2, <2>2, <2>3, SendKept
  <2> HIDE DEF u
  <2> QED BY <2>1, <2>4, NextKept
<1>5. CASE ~failed /\ AwaitsAck(w)
  <2> DEFINE s == Append(w.acks, w.active)
             u == [w EXCEPT !.acks = s]
  <2>1. v = NextFromQueue(u)
    BY <1>5, Zenon DEF FromMacAck
  <2>2. w.acks \in Seq(Packets)
    BY <1>1, Types
  <2>3. s \in Seq(Packets) /\ ToSet(s) = ToSet(w.acks) \union {w.active}
    BY <1>1, <2>2, Appended
  <2> HIDE DEF s, v
  <2>4. \A p \in ToSet(s) : Sent(me, p) /\ p.type = "DATA"
    BY <1>1, <1>5, <2>3 DEF AwaitsAck
  <2>5. /\ Local(me, u) /\ Held(u) \subseteq Held(w) \union ToSet(s)
        /\ u.number = w.number /\ u.seen = w.seen
    BY <2>3, <2>4, AcksSet
  <2> HIDE DEF u
  <2>6. ToSet(w.acks) \subseteq Held(w)
    BY DEF Held
  <2>7. Calm(me, w, u, {})
    BY <1>2, <2>3, <2>5, <2>6, HeldCalm
  <2> QED BY <2>1, <2>5, <2>7, NextKept
<1>6. CASE ~failed /\ ~AwaitsAck(w)
  <2>1. v = NextFromQueue(w)
    BY <1>6, Zenon DEF FromMacAck
  <2> HIDE DEF v
  <2> QED BY <1>2, <2>1, NextKept
<1> QED BY <1>3, <1>4, <1>5, <1>6

LEMMA TransitionKept ==
    ASSUME NEW me \in Nodes, NEW w, Local(me, w), w.mac = "transition"
    PROVE  LET v == TransitionTimer(w)
           IN  Local(me, v) /\ Calm(me, w, v, {})
<1> DEFINE v == TransitionTimer(w)
<1>1. w \in States /\ w.busy /\ w.active \in Packets /\ Sent(me, w.active) 
      /\ \A p \in ToSet(w.queue) : Sent(me, p)
  BY DEF Local, Settled
<1>2. /\ v \in States /\ v.busy = w.busy /\ v.mac = "defer" /\ v.active = w.active /\ v.queue = w.queue
      /\ v.delayed = w.delayed /\ v.acks = w.acks /\ v.buffer = w.buffer /\ v.table = w.table
      /\ v.up = w.up /\ v.number = w.number /\ v.seen = w.seen
  BY <1>1 DEF States, TransitionTimer
<1> HIDE DEF v
<1>3. Settled(v) /\ (v.busy => Sent(me, v.active)) /\ \A p \in ToSet(v.queue) : Sent(me, p)
  BY <1>1, <1>2 DEF Settled
<1>4. Local(me, v) /\ \A x \in Held(v) : x \in Held(w) \/ x \in ToSet(w.queue) \/ x = w.active
  BY <1>2, <1>3, MacSet
<1>5. ToSet(w.queue) \subseteq Held(w) /\ w.active \in Held(w)
  BY <1>1 DEF Held
<1>6. Calm(me, w, v, {})
  BY <1>2, <1>4, <1>5, HeldCalm
<1> QED BY <1>4, <1>6 DEF v

LEMMA OverlapKept ==
    ASSUME NEW me \in Nodes, NEW w, Local(me, w), w.mac = "defer"
    PROVE  LET v == [w EXCEPT !.mac = "overlapped"]
           IN  Local(me, v) /\ Calm(me, w, v, {})
<1> DEFINE v == [w EXCEPT !.mac = "overlapped"]
<1>1. w \in States /\ w.busy /\ w.active \in Packets /\ Sent(me, w.active) 
      /\ \A p \in ToSet(w.queue) : Sent(me, p)
  BY DEF Local, Settled
<1>2. /\ v \in States /\ v.busy = w.busy /\ v.mac = "overlapped" /\ v.active = w.active /\ v.queue = w.queue
      /\ v.delayed = w.delayed /\ v.acks = w.acks /\ v.buffer = w.buffer /\ v.table = w.table
      /\ v.up = w.up /\ v.number = w.number /\ v.seen = w.seen
  BY <1>1 DEF States
<1> HIDE DEF v
<1>3. Settled(v) /\ (v.busy => Sent(me, v.active)) /\ \A p \in ToSet(v.queue) : Sent(me, p)
  BY <1>1, <1>2 DEF Settled
<1>4. Local(me, v) /\ \A x \in Held(v) : x \in Held(w) \/ x \in ToSet(w.queue) \/ x = w.active
  BY <1>2, <1>3, MacSet
<1>5. ToSet(w.queue) \subseteq Held(w) /\ w.active \in Held(w)
  BY <1>1 DEF Held
<1>6. Calm(me, w, v, {})
  BY <1>2, <1>4, <1>5, HeldCalm
<1> QED BY <1>4, <1>6 DEF v

LEMMA PktDelayKept ==
    ASSUME NEW me \in Nodes, NEW w, Local(me, w), NEW i \in DOMAIN w.delayed, NEW k \in Nat
    PROVE  LET v == PktDelayTimer(w, me, i, k)
           IN  Local(me, v) /\ Goes(me, w, v, {})
<1> DEFINE u == [w EXCEPT !.delayed = RemoveAt(@, i)]
           p == w.delayed[i]
           q == [p EXCEPT !.delay = k]
           v == PktDelayTimer(w, me, i, k)
<1>1. i \in 1 .. Len(w.delayed)
  <2>1. w.delayed \in Seq(Packets)
    BY Types DEF Local
  <2> QED BY <2>1, Elements
<1>2. /\ Local(me, u) /\ Calm(me, w, u, {}) /\ p \in Held(w) /\ Placed(me, p)
      /\ Fresh(p) => \A x \in Held(u) : ~(Fresh(x) /\ x.id = p.id)
  BY <1>1, NotDelayed
<1>3. v = AssignSeqNumber(u, me, q)
  BY DEF PktDelayTimer
<1> HIDE DEF u, p, v
<1>4. Placed(me, q) /\ Like(q, p)
  BY <1>2, Drawn
<1> HIDE DEF q
<1>5. Comes(me, q, Held(w), {})
  BY <1>2, <1>4 DEF Comes
<1>6. CASE q.fresh
  <2>1. q.type = "DATA" => \A x \in Held(u) : ~(Fresh(x) /\ x.id = q.id)
    BY <1>2, <1>4, <1>6 DEF Fresh, Like
  <2>2. Local(me, v) /\ Numbers(me, w, v, {}, q)
    BY <1>2, <1>3, <1>4, <1>5, <1>6, <2>1, AssignFresh
  <2> QED BY <2>2 DEF Goes, v
<1>7. CASE ~q.fresh
  <2>1. Sent(me, q)
    BY <1>4, <1>7 DEF Sent
  <2>2. Local(me, v) /\ Calm(me, w, v, {})
    BY <1>2, <1>3, <1>5, <2>1, AssignSent
  <2> QED BY <2>2 DEF Goes, v
<1> QED BY <1>6, <1>7

LEMMA DataPacket ==
    ASSUME NEW me \in Nodes, NEW dst \in Nodes, NEW k \in Nat
    PROVE  LET p == DataPkt(me, dst, k)
           IN  Waits(me, p) /\ Fresh(p) /\ p.id = k /\ p.src = me /\ p.type = "DATA" /\ p.dst = dst
<1> DEFINE b == BasicPkt("DATA", me, dst)
           p == DataPkt(me, dst, k)
<1>1. /\ b \in Packets /\ b.type = "DATA" /\ b.src = me /\ b.dst = dst /\ b.fresh = TRUE /\ b.actual = 1
  BY DEF BasicPkt, Unnumbered, Packets, PacketTypes
<1> HIDE DEF b
<1>2. p = [b EXCEPT !.id = k]
  BY Zenon DEF DataPkt, b
<1> HIDE DEF p
<1>3. /\ p \in Packets /\ p.type = "DATA" /\ p.src = me /\ p.dst = dst /\ p.fresh = TRUE /\ p.actual = 1
      /\ p.id = k
  BY <1>1, <1>2 DEF Packets
<1> QED BY <1>3 DEF Waits, Fresh, p

LEMMA RequestPacket ==
    ASSUME NEW me \in Nodes, NEW dst \in Nodes, TimeToLive \in Nat
    PROVE  LET p == RequestPkt(me, dst)
           IN  Placed(me, p) /\ Own(me, p) /\ ~Fresh(p) /\ p.fresh /\ p.type = "REQUEST" /\ p.delay = 0
<1> DEFINE b == BasicPkt("REQUEST", me, dst)
           p == RequestPkt(me, dst)
<1>1. /\ b \in Packets /\ b.type = "REQUEST" /\ b.src = me /\ b.fresh = TRUE /\ b.actual = 1 /\ b.delay = 0
  BY DEF BasicPkt, Unnumbered, Packets, PacketTypes
<1> HIDE DEF b
<1>2. p = [b EXCEPT !.expected = 1, !.max = TimeToLive]
  BY Zenon DEF RequestPkt, b
<1> HIDE DEF p
<1>3. /\ p \in Packets /\ p.type = "REQUEST" /\ p.src = me /\ p.fresh = TRUE /\ p.actual = 1 /\ p.delay = 0
  BY <1>1, <1>2 DEF Packets
<1>4. Near(me, 0, me)
  BY NearSelf
<1>5. Placed(me, p)
  BY <1>3, <1>4 DEF Placed
<1> QED BY <1>3, <1>5 DEF Own, Fresh, p

LEMMA FromTransportKept ==
    ASSUME TimeToLive \in Nat, NEW me \in Nodes, NEW w, Local(me, w), NEW dst \in Nodes, NEW k \in Nat,
           \A x \in Held(w) : ~(Fresh(x) /\ x.id = k)
    PROVE  LET v == FromTransport(w, me, dst, k)
           IN  Local(me, v) /\ Goes(me, w, v, {DataPkt(me, dst, k)})
<1> DEFINE d == DataPkt(me, dst, k)
           v == FromTransport(w, me, dst, k)
<1>1. Waits(me, d) /\ Fresh(d) /\ d.id = k /\ d.src = me /\ d.type = "DATA" /\ d.dst = dst
  BY DataPacket
<1>2. Calm(me, w, w, {d}) /\ Calm(me, w, w, {})
  BY CalmStays
<1>3. CASE Knows(w, dst)
  <2> DEFINE p == Routed(d, w.table[dst].hc, w.opt.extra, 0)
  <2>1. v = SendPacket(w, me, p)
    BY <1>3 DEF FromTransport
  <2> HIDE DEF d
  <2>2. Near(d.dst, w.table[dst].hc, me) /\ w.opt.extra \in Nat /\ 0 \in Nat
    BY <1>1, <1>3 DEF Local, Truthful, Knows, States, Options
  <2>3. Placed(me, p) /\ Like(p, d) /\ Fresh(p) /\ p.delay = 0
    BY <1>1, <2>2, RoutedPacket
  <2> HIDE DEF p, v
  <2>4. v = AssignSeqNumber(w, me, p)
    BY <2>1, <2>3 DEF SendPacket
  <2>5. Comes(me, p, Held(w), {d}) /\ p.fresh /\ p.id = k
    BY <1>1, <2>3 DEF Comes, Fresh, Like
  <2>6. Local(me, v) /\ Numbers(me, w, v, {d}, p)
    BY <1>2, <2>3, <2>4, <2>5, AssignFresh
  <2> QED BY <2>6 DEF Goes, v, d
<1>4. CASE ~Knows(w, dst)
  <2> DEFINE q == RequestPkt(me, dst)
             u == SendPacket(w, me, q)
  <2>1. v = [u EXCEPT !.buffer = u.buffer \union {d}]
    BY <1>4, Zenon DEF FromTransport
  <2>2. Placed(me, q) /\ Own(me, q) /\ ~Fresh(q) /\ q.fresh /\ q.type = "REQUEST" /\ q.delay = 0
    BY RequestPacket
  <2> HIDE DEF q, d, v
  <2>3. u = AssignSeqNumber(w, me, q) /\ Comes(me, q, Held(w), {}) /\ q.type # "DATA"
    BY <2>2 DEF SendPacket, Comes
  <2>4. Local(me, u) /\ Numbers(me, w, u, {}, q)
    BY <1>2, <2>2, <2>3, AssignFresh
  <2> HIDE DEF u
  <2>5. \A x \in Held(u) : ~(Fresh(x) /\ x.id = k)
    <3>1. SUFFICES ASSUME NEW x \in Held(u), Fresh(x), x.id = k PROVE FALSE
      OBVIOUS
    <3>2. Comes(me, x, Held(w), {}) \/ Given(x, q, u.number)
      BY <2>4 DEF Numbers
    <3>3. \E y \in Held(w) : Like(x, y)
      BY <3>1, <3>2 DEF Comes, Own, Given, Fresh
    <3> QED BY <3>1, <3>3 DEF Like, Fresh
  <2>6. /\ u \in States /\ IsFiniteSet(u.buffer) /\ FreshOnce(u.delayed, u.buffer)
        /\ \A p \in u.buffer : Waits(me, p)
        /\ \A p \in ToSet(u.delayed) : Placed(me, p)
    BY <2>4 DEF Local
  <2>7. u.buffer \union {d} \subseteq Packets /\ IsFiniteSet(u.buffer \union {d})
    BY <1>1, <2>6, Types, FS_AddElement DEF Waits
  <2>8. FreshOnce(u.delayed, u.buffer \union {d})
    <3>1. \A p \in u.buffer : p.id # k
      BY <2>5, <2>6 DEF Waits, Fresh, Held
    <3>2. u.delayed \in Seq(Packets)
      BY <2>6, Types
    <3>3. \A i \in DOMAIN u.delayed : u.delayed[i] \in Held(u)
      BY <3>2, Elements DEF Held
    <3>4. \A i \in DOMAIN u.delayed : Fresh(u.delayed[i]) => u.delayed[i].id # k
      BY <2>5, <3>3
    <3> QED BY <1>1, <2>6, <3>1, <3>4 DEF FreshOnce
  <2>9. /\ v \in States /\ v.busy = u.busy /\ v.mac = u.mac /\ v.active = u.active /\ v.queue = u.queue
        /\ v.delayed = u.delayed /\ v.acks = u.acks /\ v.buffer = u.buffer \union {d}
        /\ v.table = u.table /\ v.up = u.up /\ v.number = u.number /\ v.seen = u.seen
    BY <2>1, <2>6, <2>7 DEF States
  <2>10. \A p \in v.buffer : Waits(me, p)
    BY <1>1, <2>6, <2>9
  <2>11. Local(me, v) /\ \A x \in Held(v) : x \in Held(u) \/ x \in v.buffer \/ x \in ToSet(u.delayed)
    <3>1. /\ IsFiniteSet(v.buffer) /\ FreshOnce(v.delayed, v.buffer)
          /\ \A p \in ToSet(v.delayed) : Placed(me, p)
      BY <2>6, <2>7, <2>8, <2>9
    <3> QED BY <2>4, <2>9, <2>10, <3>1, BufferSet
  <2>12. \A x \in Held(v) : x \in Held(u) \/ x = d
    BY <2>9, <2>11 DEF Held
  <2>13. Numbers(me, w, v, {d}, q)
    <3>1. \A x : Comes(me, x, Held(w), {}) => Comes(me, x, Held(w), {d})
      BY DEF Comes
    <3>2. Comes(me, d, Held(w), {d})
      BY <1>1 DEF Comes, Like
    <3> QED BY <2>3, <2>4, <2>9, <2>12, <3>1, <3>2 DEF Numbers
  <2> QED BY <2>11, <2>13 DEF Goes, v, d
<1> QED BY <1>3, <1>4

----------------------------------------------------------------------------------
(* The copies of a packet in the network: H has the packets of the nodes, N     *)
(* their numbers and what they have seen, st how much was sent.                 *)

Sound(N, H, st) == \A n \in Nodes : \A x \in H[n] :
    /\ x.fresh => x.src = n /\ x.type # "ACK"
    /\ ~x.fresh => x.seq \in 1 .. N[x.src].number /\ <<x.src, x.seq>> \in N[x.src].seen
    /\ x.src \in Nodes /\ x.id \in Nat
    /\ x.type = "DATA" => x.id <= st[x.src]

(* What two copies x, held by m, and y agree on.                                *)
Agree(m, x, y) ==
    /\ ~x.fresh /\ ~y.fresh /\ Same(x, y) /\ x.type # "ACK" /\ y.type # "ACK" =>
          x.type = y.type /\ x.dst = y.dst /\ x.id = y.id
    /\ ~y.fresh /\ Same(x, y) /\ x.type = "ACK" /\ x.fromDest /\ y.type # "ACK" => y.dst = m
    /\ x.type = "DATA" /\ y.type = "DATA" /\ x.src = y.src /\ x.id = y.id =>
          /\ x.fresh <=> y.fresh
          /\ ~x.fresh => x.seq = y.seq

Agreed(H) == \A m, n \in Nodes : \A x \in H[m], y \in H[n] : Agree(m, x, y)

(* What application n has got was sent, and its copies have a number known at n. *)
Received(N, H, st, n, e) ==
    /\ e[1] \in Nodes /\ e[2] \in Nat /\ e[2] <= st[e[1]]
    /\ \A m \in Nodes : \A x \in H[m] :
          x.type = "DATA" /\ x.src = e[1] /\ x.id = e[2] => ~x.fresh /\ <<x.src, x.seq>> \in N[n].seen

Copied(r, x, H) == \E m \in Nodes : \E y \in H[m] : Like(x, y) /\ (y.type = "ACK" => m = r)
Answers(r, x, H) == \E m \in Nodes : \E y \in H[m] : Acknowledges(r, x, y)
From(r, x, H) == Copied(r, x, H) \/ Answers(r, x, H) \/ Own(r, x)

(* Node r gives the number to z; K has the packets afterwards.                  *)
Gives(r, N, M, H, K, z) ==
    /\ M[r].number = N[r].number + 1 /\ <<r, M[r].number>> \in M[r].seen
    /\ z.fresh /\ z.src = r /\ z.type # "ACK" /\ From(r, z, H)
    /\ \A x \in K[r] : From(r, x, H) \/ Given(x, z, M[r].number)
    /\ z.type = "DATA" => \A x \in K[r] : ~(Fresh(x) /\ x.id = z.id)

Moves(r, N, M, H, K) ==
    /\ N[r].seen \subseteq M[r].seen
    /\ \/ M[r].number = N[r].number /\ \A x \in K[r] : From(r, x, H)
       \/ \E z : Gives(r, N, M, H, K, z)

Chosen(r, N, M, H, K) == CHOOSE z : Gives(r, N, M, H, K, z)

(* Packet x of node r has got its number in this step.                          *)
Named(r, x, N, M, H, K) ==
    LET z == Chosen(r, N, M, H, K)
    IN  Gives(r, N, M, H, K, z) /\ Given(x, z, N[r].number + 1)

LEMMA Origin ==
    ASSUME NEW r \in Nodes, NEW N, NEW M, NEW H, NEW K, Moves(r, N, M, H, K), NEW x \in K[r]
    PROVE  From(r, x, H) \/ Named(r, x, N, M, H, K)
<1>1. CASE \E z : Gives(r, N, M, H, K, z)
  <2>1. Gives(r, N, M, H, K, Chosen(r, N, M, H, K))
    BY <1>1, Zenon DEF Chosen
  <2> QED BY <2>1 DEF Gives, Named
<1>2. CASE \A y \in K[r] : From(r, y, H)
  BY <1>2
<1> QED BY <1>1, <1>2 DEF Moves

(* A packet of the application is the copy of one that is there.                *)
LEMMA OriginData ==
    ASSUME NEW r \in Nodes, NEW N, NEW M, NEW H, NEW K, NEW x, x.type = "DATA"
    PROVE  /\ From(r, x, H) => \E m \in Nodes : \E y \in H[m] : Like(x, y)
           /\ Named(r, x, N, M, H, K) =>
                 \E m \in Nodes : \E y \in H[m] :
                    /\ y.fresh /\ y.src = r /\ y.type = "DATA" /\ y.id = x.id /\ x.src = r
                    /\ x.seq = N[r].number + 1 /\ ~x.fresh
<1>1. ASSUME NEW y, y.type = "DATA", From(r, y, H) PROVE \E m \in Nodes : \E u \in H[m] : Like(y, u)
  BY <1>1 DEF From, Copied, Answers, Own, Acknowledges
<1>2. ASSUME Named(r, x, N, M, H, K)
      PROVE  \E m \in Nodes : \E y \in H[m] :
                /\ y.fresh /\ y.src = r /\ y.type = "DATA" /\ y.id = x.id /\ x.src = r
                /\ x.seq = N[r].number + 1 /\ ~x.fresh
  <2>1. PICK z : Gives(r, N, M, H, K, z) /\ Given(x, z, N[r].number + 1)
    BY <1>2 DEF Named
  <2>2. z.type = "DATA" /\ From(r, z, H) /\ z.fresh /\ z.src = r
    BY <2>1 DEF Gives, Given
  <2>3. PICK m \in Nodes : \E u \in H[m] : Like(z, u)
    BY <1>1, <2>2
  <2>4. PICK y \in H[m] : Like(z, y)
    BY <2>3
  <2>5. y.fresh /\ y.src = r /\ y.type = "DATA" /\ y.id = x.id /\ x.src = r
        /\ x.seq = N[r].number + 1 /\ ~x.fresh
    BY <2>1, <2>2, <2>4 DEF Given, Like
  <2> QED BY <2>5
<1> QED BY <1>1, <1>2

LEMMA GrowsOn ==
    ASSUME NEW N, NEW M, NEW H, NEW K, \A r \in Nodes : Moves(r, N, M, H, K),
           \A r \in Nodes : N[r].number \in Nat
    PROVE  \A r \in Nodes : /\ M[r].number \in Nat /\ N[r].number <= M[r].number
                            /\ N[r].seen \subseteq M[r].seen
<1> SUFFICES ASSUME NEW r \in Nodes
             PROVE  M[r].number \in Nat /\ N[r].number <= M[r].number /\ N[r].seen \subseteq M[r].seen
  OBVIOUS
<1>1. N[r].number \in Nat /\ Moves(r, N, M, H, K)
  OBVIOUS
<1>2. M[r].number = N[r].number \/ M[r].number = N[r].number + 1
  BY <1>1 DEF Moves, Gives
<1>3. N[r].seen \subseteq M[r].seen
  BY <1>1 DEF Moves
<1> QED BY <1>1, <1>2, <1>3

LEMMA SoundOn ==
    ASSUME NEW N, NEW M, NEW H, NEW K, NEW st, \A r \in Nodes : Moves(r, N, M, H, K),
           \A r \in Nodes : N[r].number \in Nat, Sound(N, H, st), st \in [Nodes -> Nat],
           \A n \in Nodes : \A x \in K[n] :
              /\ x.fresh => x.src = n /\ x.type # "ACK"
              /\ x.src \in Nodes /\ x.id \in Nat
    PROVE  Sound(M, K, st)
<1> SUFFICES ASSUME NEW n \in Nodes, NEW x \in K[n]
             PROVE  /\ ~x.fresh => x.seq \in 1 .. M[x.src].number /\ <<x.src, x.seq>> \in M[x.src].seen
                    /\ x.type = "DATA" => x.id <= st[x.src]
  BY DEF Sound
<1>1. \A r \in Nodes : /\ M[r].number \in Nat /\ N[r].number <= M[r].number
                       /\ N[r].seen \subseteq M[r].seen
  BY GrowsOn
<1>2. From(n, x, H) \/ Named(n, x, N, M, H, K)
  BY Origin
<1>3. x.type = "DATA" => x.id <= st[x.src]
  <2> SUFFICES ASSUME x.type = "DATA" PROVE x.id <= st[x.src]
    OBVIOUS
  <2>1. \E m \in Nodes : \E y \in H[m] : y.type = "DATA" /\ y.id = x.id /\ y.src = x.src
    <3>1. CASE From(n, x, H)
      <4>1. \E m \in Nodes : \E y \in H[m] : Like(x, y)
        BY <3>1, OriginData
      <4> QED BY <4>1 DEF Like
    <3>2. CASE Named(n, x, N, M, H, K)
      <4>1. \E m \in Nodes : \E y \in H[m] :
               /\ y.fresh /\ y.src = n /\ y.type = "DATA" /\ y.id = x.id /\ x.src = n
               /\ x.seq = N[n].number + 1 /\ ~x.fresh
        BY <3>2, OriginData
      <4> QED BY <4>1
    <3> QED BY <1>2, <3>1, <3>2
  <2> QED BY <2>1 DEF Sound
<1>4. ASSUME ~x.fresh PROVE x.seq \in 1 .. M[x.src].number /\ <<x.src, x.seq>> \in M[x.src].seen
  <2>1. CASE From(n, x, H)
    <3>1. \E m \in Nodes : \E y \in H[m] : ~y.fresh /\ y.src = x.src /\ y.seq = x.seq
      BY <1>4, <2>1 DEF From, Copied, Answers, Own, Like, Acknowledges
    <3>2. x.seq \in 1 .. N[x.src].number /\ <<x.src, x.seq>> \in N[x.src].seen /\ x.src \in Nodes
      BY <3>1 DEF Sound
    <3> QED BY <1>1, <3>2
  <2>2. CASE Named(n, x, N, M, H, K)
    <3>1. x.src = n /\ x.seq = M[n].number /\ <<n, M[n].number>> \in M[n].seen
          /\ M[n].number = N[n].number + 1
      BY <2>2 DEF Named, Gives, Given
    <3> QED BY <1>1, <3>1
  <2> QED BY <1>2, <2>1, <2>2
<1> QED BY <1>3, <1>4

(* What was there before has a smaller number than what is named now.           *)
LEMMA OldUnnamed ==
    ASSUME NEW N, NEW M, NEW H, NEW K, NEW st, Sound(N, H, st), \A r \in Nodes : N[r].number \in Nat,
           NEW m \in Nodes, NEW y \in H[m], ~y.fresh, NEW r, NEW x,
           Named(r, x, N, M, H, K), Same(x, y)
    PROVE  FALSE
<1>1. x.src = r /\ x.seq = N[r].number + 1
  BY DEF Named, Gives, Given
<1>2. y.src \in Nodes /\ y.seq \in 1 .. N[y.src].number
  BY DEF Sound
<1>3. y.src = r /\ y.seq = N[r].number + 1
  BY <1>1 DEF Same
<1> QED BY <1>2, <1>3

(* Where a packet with a number comes from that is no acknowledgement.          *)
LEMMA OriginNumbered ==
    ASSUME NEW r \in Nodes, NEW N, NEW M, NEW H, NEW K, Moves(r, N, M, H, K), NEW x \in K[r],
           ~x.fresh, x.type # "ACK"
    PROVE  (\E m \in Nodes : \E y \in H[m] : Like(x, y)) \/ Named(r, x, N, M, H, K)
BY Origin DEF From, Copied, Answers, Acknowledges, Own

(* What is named in one step is one packet at each node.                        *)
LEMMA NamedAlike ==
    ASSUME NEW N, NEW M, NEW H, NEW K, NEW m, NEW n, NEW x, NEW y,
           Named(m, x, N, M, H, K), Named(n, y, N, M, H, K), x.src = y.src
    PROVE  /\ x.type = y.type /\ x.dst = y.dst /\ x.id = y.id /\ x.seq = y.seq
           /\ ~x.fresh /\ ~y.fresh
<1>1. x.src = m /\ y.src = n
  BY DEF Named, Gives, Given
<1> QED BY <1>1 DEF Named, Given

(* A step of all nodes.                                                         *)
Step(N, M, H, K, st) ==
    /\ \A r \in Nodes : Moves(r, N, M, H, K)
    /\ \A r \in Nodes : N[r].number \in Nat
    /\ Sound(N, H, st) /\ Agreed(H)

LEMMA NumberedAgree ==
    ASSUME NEW N, NEW M, NEW H, NEW K, NEW st, Step(N, M, H, K, st),
           NEW m \in Nodes, NEW n \in Nodes, NEW x \in K[m], NEW y \in K[n],
           ~x.fresh, ~y.fresh, Same(x, y), x.type # "ACK", y.type # "ACK"
    PROVE  x.type = y.type /\ x.dst = y.dst /\ x.id = y.id
<1> USE DEF Step
<1>1. (\E k \in Nodes : \E u \in H[k] : Like(x, u)) \/ Named(m, x, N, M, H, K)
  BY OriginNumbered
<1>2. (\E k \in Nodes : \E u \in H[k] : Like(y, u)) \/ Named(n, y, N, M, H, K)
  BY OriginNumbered
<1>3. CASE (\E k \in Nodes : \E u \in H[k] : Like(x, u)) /\ (\E k \in Nodes : \E u \in H[k] : Like(y, u))
  <2>1. PICK k \in Nodes : \E u \in H[k] : Like(x, u)
    BY <1>3
  <2>2. PICK u \in H[k] : Like(x, u)
    BY <2>1
  <2>3. PICK l \in Nodes : \E v \in H[l] : Like(y, v)
    BY <1>3
  <2>4. PICK v \in H[l] : Like(y, v)
    BY <2>3
  <2>5. Agree(k, u, v)
    BY DEF Agreed
  <2> QED BY <2>2, <2>4, <2>5 DEF Agree, Like, Same
<1>4. CASE (\E k \in Nodes : \E u \in H[k] : Like(x, u)) /\ Named(n, y, N, M, H, K)
  <2>1. PICK k \in Nodes : \E u \in H[k] : Like(x, u)
    BY <1>4
  <2>2. PICK u \in H[k] : Like(x, u)
    BY <2>1
  <2>3. ~u.fresh /\ Same(y, u)
    BY <2>2 DEF Like, Same
  <2> QED BY <1>4, <2>3, OldUnnamed
<1>5. CASE Named(m, x, N, M, H, K) /\ (\E k \in Nodes : \E u \in H[k] : Like(y, u))
  <2>1. PICK k \in Nodes : \E u \in H[k] : Like(y, u)
    BY <1>5
  <2>2. PICK u \in H[k] : Like(y, u)
    BY <2>1
  <2>3. ~u.fresh /\ Same(x, u)
    BY <2>2 DEF Like, Same
  <2> QED BY <1>5, <2>3, OldUnnamed
<1>6. CASE Named(m, x, N, M, H, K) /\ Named(n, y, N, M, H, K)
  BY <1>6, NamedAlike DEF Same
<1> QED BY <1>1, <1>2, <1>3, <1>4, <1>5, <1>6

LEMMA AnswerAgrees ==
    ASSUME NEW N, NEW M, NEW H, NEW K, NEW st, Step(N, M, H, K, st),
           NEW m \in Nodes, NEW n \in Nodes, NEW x \in K[m], NEW y \in K[n],
           ~y.fresh, Same(x, y), x.type = "ACK", x.fromDest, y.type # "ACK"
    PROVE  y.dst = m
<1> USE DEF Step
<1>1. (\E k \in Nodes : \E u \in H[k] : Like(y, u)) \/ Named(n, y, N, M, H, K)
  BY OriginNumbered
<1>2. (\E u \in H[m] : Like(x, u)) \/ Answers(m, x, H)
  <2>1. From(m, x, H) \/ Named(m, x, N, M, H, K)
    BY Origin
  <2>2. ~Named(m, x, N, M, H, K)
    BY DEF Named, Gives, Given
  <2>3. ~Own(m, x)
    BY DEF Own
  <2>4. Copied(m, x, H) \/ Answers(m, x, H)
    BY <2>1, <2>2, <2>3 DEF From
  <2> QED BY <2>4 DEF Copied, Like
(* Whatever x goes back to has the number of y.                                 *)
<1>3. \E l \in Nodes : \E v \in H[l] :
         /\ ~v.fresh /\ Same(x, v)
         /\ \A k \in Nodes : \A u \in H[k] : ~u.fresh /\ Same(u, v) /\ u.type # "ACK" => u.dst = m
  <2>1. CASE \E u \in H[m] : Like(x, u)
    <3>1. PICK v \in H[m] : Like(x, v)
      BY <2>1
    <3>2. v.type = "ACK" /\ v.fromDest /\ ~v.fresh /\ Same(x, v)
      BY <3>1 DEF Sound, Like, Same
    <3>3. ASSUME NEW k \in Nodes, NEW u \in H[k], ~u.fresh, Same(u, v), u.type # "ACK"
          PROVE  u.dst = m
      <4>1. Agree(m, v, u)
        BY DEF Agreed
      <4> QED BY <3>2, <3>3, <4>1 DEF Agree, Same
    <3> QED BY <3>2, <3>3
  <2>2. CASE Answers(m, x, H)
    <3>1. PICK l \in Nodes : \E v \in H[l] : Acknowledges(m, x, v)
      BY <2>2 DEF Answers
    <3>2. PICK v \in H[l] : Acknowledges(m, x, v)
      BY <3>1
    <3>3. ~v.fresh /\ Same(x, v) /\ v.dst = m /\ v.type # "ACK"
      BY <3>2 DEF Acknowledges, Same
    <3>4. ASSUME NEW k \in Nodes, NEW u \in H[k], ~u.fresh, Same(u, v), u.type # "ACK"
          PROVE  u.dst = m
      <4>1. Agree(k, u, v)
        BY DEF Agreed
      <4> QED BY <3>3, <3>4, <4>1 DEF Agree
    <3> QED BY <3>3, <3>4
  <2> QED BY <1>2, <2>1, <2>2
<1>4. PICK l \in Nodes : \E v \in H[l] :
         /\ ~v.fresh /\ Same(x, v)
         /\ \A k \in Nodes : \A u \in H[k] : ~u.fresh /\ Same(u, v) /\ u.type # "ACK" => u.dst = m
  BY <1>3
<1>5. PICK v \in H[l] :
         /\ ~v.fresh /\ Same(x, v)
         /\ \A k \in Nodes : \A u \in H[k] : ~u.fresh /\ Same(u, v) /\ u.type # "ACK" => u.dst = m
  BY <1>4
<1>6. Same(y, v)
  BY <1>5 DEF Same
<1>7. ~Named(n, y, N, M, H, K)
  BY <1>5, <1>6, OldUnnamed
<1>8. PICK k \in Nodes : \E u \in H[k] : Like(y, u)
  BY <1>1, <1>7
<1>9. PICK u \in H[k] : Like(y, u)
  BY <1>8
<1>10. ~u.fresh /\ Same(u, v) /\ u.type # "ACK" /\ u.dst = y.dst
  BY <1>6, <1>9 DEF Like, Same
<1> QED BY <1>5, <1>10

(* A packet that is given a number has no copy without one left.                *)
LEMMA NamedOut ==
    ASSUME NEW N, NEW M, NEW H, NEW K, Agreed(H),
           NEW m \in Nodes, NEW n \in Nodes, NEW x, NEW y \in K[n], x.type = "DATA", y.type = "DATA",
           y.fresh => y.src = n, x.src = y.src, x.id = y.id,
           Named(m, x, N, M, H, K), \E k \in Nodes : \E u \in H[k] : Like(y, u)
    PROVE  FALSE
<1>1. x.src = m
  BY DEF Named, Gives, Given
<1>2. PICK l \in Nodes : \E v \in H[l] : v.fresh /\ v.src = m /\ v.type = "DATA" /\ v.id = x.id
  BY OriginData
<1>3. PICK v \in H[l] : v.fresh /\ v.src = m /\ v.type = "DATA" /\ v.id = x.id
  BY <1>2
<1>4. PICK k \in Nodes : \E u \in H[k] : Like(y, u)
  OBVIOUS
<1>5. PICK u \in H[k] : Like(y, u)
  BY <1>4
<1>6. Agree(l, v, u)
  BY DEF Agreed
<1>7. y.fresh
  BY <1>1, <1>3, <1>5, <1>6 DEF Agree, Like
<1>8. n = m /\ y \in K[m]
  BY <1>1, <1>7
<1>9. PICK z : Gives(m, N, M, H, K, z) /\ Given(x, z, N[m].number + 1)
  BY DEF Named
<1>10. z.type = "DATA" /\ z.id = y.id
  BY <1>9 DEF Given
<1> QED BY <1>7, <1>8, <1>9, <1>10 DEF Gives, Fresh

LEMMA DataAgree ==
    ASSUME NEW N, NEW M, NEW H, NEW K, NEW st, Step(N, M, H, K, st),
           NEW m \in Nodes, NEW n \in Nodes, NEW x \in K[m], NEW y \in K[n],
           x.fresh => x.src = m, y.fresh => y.src = n,
           x.type = "DATA", y.type = "DATA", x.src = y.src, x.id = y.id
    PROVE  (x.fresh <=> y.fresh) /\ (~x.fresh => x.seq = y.seq)
<1> USE DEF Step
<1>1. (\E k \in Nodes : \E u \in H[k] : Like(x, u)) \/ Named(m, x, N, M, H, K)
  BY Origin, OriginData
<1>2. (\E k \in Nodes : \E u \in H[k] : Like(y, u)) \/ Named(n, y, N, M, H, K)
  BY Origin, OriginData
<1>3. CASE (\E k \in Nodes : \E u \in H[k] : Like(x, u)) /\ (\E k \in Nodes : \E u \in H[k] : Like(y, u))
  <2>1. PICK k \in Nodes : \E u \in H[k] : Like(x, u)
    BY <1>3
  <2>2. PICK u \in H[k] : Like(x, u)
    BY <2>1
  <2>3. PICK l \in Nodes : \E v \in H[l] : Like(y, v)
    BY <1>3
  <2>4. PICK v \in H[l] : Like(y, v)
    BY <2>3
  <2>5. Agree(k, u, v)
    BY DEF Agreed
  <2> QED BY <2>2, <2>4, <2>5 DEF Agree, Like
<1>4. CASE (\E k \in Nodes : \E u \in H[k] : Like(x, u)) /\ Named(n, y, N, M, H, K)
  BY <1>4, NamedOut
<1>5. CASE Named(m, x, N, M, H, K) /\ (\E k \in Nodes : \E u \in H[k] : Like(y, u))
  BY <1>5, NamedOut
<1>6. CASE Named(m, x, N, M, H, K) /\ Named(n, y, N, M, H, K)
  BY <1>6, NamedAlike
<1> QED BY <1>1, <1>2, <1>3, <1>4, <1>5, <1>6

LEMMA AgreedOn ==
    ASSUME NEW N, NEW M, NEW H, NEW K, NEW st, Step(N, M, H, K, st),
           \A n \in Nodes : \A x \in K[n] : x.fresh => x.src = n /\ x.type # "ACK"
    PROVE  Agreed(K)
<1> SUFFICES ASSUME NEW m \in Nodes, NEW n \in Nodes, NEW x \in K[m], NEW y \in K[n]
             PROVE  Agree(m, x, y)
  BY DEF Agreed
<1>1. (x.fresh => x.src = m) /\ (y.fresh => y.src = n)
  OBVIOUS
<1>2. ASSUME ~x.fresh, ~y.fresh, Same(x, y), x.type # "ACK", y.type # "ACK"
      PROVE  x.type = y.type /\ x.dst = y.dst /\ x.id = y.id
  BY <1>2, NumberedAgree
<1>3. ASSUME ~y.fresh, Same(x, y), x.type = "ACK", x.fromDest, y.type # "ACK" PROVE y.dst = m
  BY <1>3, AnswerAgrees
<1>4. ASSUME x.type = "DATA", y.type = "DATA", x.src = y.src, x.id = y.id
      PROVE  (x.fresh <=> y.fresh) /\ (~x.fresh => x.seq = y.seq)
  <2> HIDE DEF Agreed
  <2> QED BY <1>1, <1>4, DataAgree
<1> QED BY <1>2, <1>3, <1>4 DEF Agree

(* What an application has got stays received,                                  *)
LEMMA ReceivedOn ==
    ASSUME NEW N, NEW M, NEW H, NEW K, NEW st, Step(N, M, H, K, st),
           NEW n \in Nodes, NEW e, Received(N, H, st, n, e)
    PROVE  Received(M, K, st, n, e)
<1> USE DEF Step
<1>1. N[n].seen \subseteq M[n].seen
  BY DEF Moves
<1>2. ASSUME NEW m \in Nodes, NEW x \in K[m], x.type = "DATA", x.src = e[1], x.id = e[2]
      PROVE  ~x.fresh /\ <<x.src, x.seq>> \in M[n].seen
  <2>1. CASE \E k \in Nodes : \E u \in H[k] : Like(x, u)
    <3>1. PICK k \in Nodes : \E u \in H[k] : Like(x, u)
      BY <2>1
    <3>2. PICK u \in H[k] : Like(x, u)
      BY <3>1
    <3>3. ~u.fresh /\ <<u.src, u.seq>> \in N[n].seen
      BY <1>2, <3>2 DEF Received, Like
    <3> QED BY <1>1, <3>2, <3>3 DEF Like
  <2>2. ~Named(m, x, N, M, H, K)
    <3>1. SUFFICES ASSUME Named(m, x, N, M, H, K) PROVE FALSE
      OBVIOUS
    <3>2. x.src = m
      BY <3>1 DEF Named, Gives, Given
    <3>3. PICK k \in Nodes : \E u \in H[k] : u.fresh /\ u.src = m /\ u.type = "DATA" /\ u.id = x.id
      BY <1>2, <3>1, OriginData
    <3> QED BY <1>2, <3>2, <3>3 DEF Received
  <2> QED BY <1>2, <2>1, <2>2, Origin, OriginData
<1> QED BY <1>2 DEF Received

(* and so does what it gets now.                                                *)
LEMMA ReceivedNow ==
    ASSUME NEW N, NEW M, NEW H, NEW K, NEW st, Step(N, M, H, K, st),
           NEW n \in Nodes, NEW k \in Nodes, NEW p \in H[k],
           ~p.fresh, p.type = "DATA", <<p.src, p.seq>> \in M[n].seen
    PROVE  Received(M, K, st, n, <<p.src, p.id>>)
<1> USE DEF Step
<1>1. p.src \in Nodes /\ p.id \in Nat /\ p.id <= st[p.src]
  BY DEF Sound
<1>2. ASSUME NEW m \in Nodes, NEW x \in K[m], x.type = "DATA", x.src = p.src, x.id = p.id
      PROVE  ~x.fresh /\ <<x.src, x.seq>> \in M[n].seen
  <2>1. CASE \E l \in Nodes : \E u \in H[l] : Like(x, u)
    <3>1. PICK l \in Nodes : \E u \in H[l] : Like(x, u)
      BY <2>1
    <3>2. PICK u \in H[l] : Like(x, u)
      BY <3>1
    <3>3. Agree(k, p, u)
      BY DEF Agreed
    <3>4. ~u.fresh /\ u.seq = p.seq
      BY <1>2, <3>2, <3>3 DEF Agree, Like
    <3> QED BY <1>2, <3>2, <3>4 DEF Like
  <2>2. ~Named(m, x, N, M, H, K)
    <3>1. SUFFICES ASSUME Named(m, x, N, M, H, K) PROVE FALSE
      OBVIOUS
    <3>2. x.src = m
      BY <3>1 DEF Named, Gives, Given
    <3>3. PICK l \in Nodes : \E u \in H[l] : u.fresh /\ u.src = m /\ u.type = "DATA" /\ u.id = x.id
      BY <1>2, <3>1, OriginData
    <3>4. PICK u \in H[l] : u.fresh /\ u.src = m /\ u.type = "DATA" /\ u.id = x.id
      BY <3>3
    <3>5. Agree(k, p, u)
      BY DEF Agreed
    <3> QED BY <1>2, <3>2, <3>4, <3>5 DEF Agree
  <2> QED BY <1>2, <2>1, <2>2, Origin, OriginData
<1> QED BY <1>1, <1>2 DEF Received

----------------------------------------------------------------------------------
(* The steps of the network                                                     *)

Holds(N) == [n \in Nodes |-> Held(N[n])]

LEMMA HeldFacts ==
    ASSUME NEW me \in Nodes, NEW w, Local(me, w)
    PROVE  \A x \in Held(w) : /\ x.fresh => x.src = me /\ x.type # "ACK"
                              /\ x.src \in Nodes /\ x.id \in Nat
<1>1. \A x \in Held(w) : x \in Packets /\ (x.fresh => x.src = me /\ x.type # "ACK")
  BY DEF Held, Local, Sent, Placed, Waits
<1> QED BY <1>1 DEF Packets

LEMMA ComesFrom ==
    ASSUME NEW r \in Nodes, NEW x, NEW old, NEW P, Comes(r, x, old, P),
           NEW H, old \subseteq H[r], \A y \in P : \E m \in Nodes : y \in H[m]
    PROVE  From(r, x, H)
<1>1. CASE \E y \in old : Like(x, y)
  BY <1>1 DEF From, Copied
<1>2. CASE \E y \in P : y.type # "ACK" /\ Like(x, y)
  BY <1>2 DEF From, Copied
<1>3. CASE \E y \in P : Acknowledges(r, x, y)
  BY <1>3 DEF From, Answers
<1>4. CASE Own(r, x)
  BY <1>4 DEF From
<1> QED BY <1>1, <1>2, <1>3, <1>4 DEF Comes

LEMMA GoesMoves ==
    ASSUME NEW r \in Nodes, NEW w, NEW v, NEW P, Goes(r, w, v, P), NEW N, NEW M, NEW H, NEW K,
           N[r] = w, M[r] = v, K[r] = Held(v), Held(w) \subseteq H[r],
           \A y \in P : \E m \in Nodes : y \in H[m]
    PROVE  Moves(r, N, M, H, K)
<1>1. \A x : Comes(r, x, Held(w), P) => From(r, x, H)
  BY ComesFrom
<1>2. CASE Calm(r, w, v, P)
  BY <1>1, <1>2 DEF Calm, Moves
<1>3. CASE \E z : Numbers(r, w, v, P, z)
  <2>1. PICK z : Numbers(r, w, v, P, z)
    BY <1>3
  <2>2. Gives(r, N, M, H, K, z)
    BY <1>1, <2>1 DEF Numbers, Gives
  <2> QED BY <2>1, <2>2 DEF Numbers, Moves
<1> QED BY <1>2, <1>3 DEF Goes

(* What the applications got, and what is known of it.                          *)
Network(N, H, st, g) ==
    /\ st \in [Nodes -> Nat]
    /\ g \in [Nodes -> Seq(Nodes \X Nat)]
    /\ Sound(N, H, st) /\ Agreed(H)
    /\ \A n \in Nodes : \A e \in ToSet(g[n]) : Received(N, H, st, n, e)
    /\ \A n \in Nodes : IsInjective(g[n])

(* Application r gets packet p of the network.                                  *)
Gets(r, N, M, H, p) == /\ \E k \in Nodes : p \in H[k]
                       /\ ~p.fresh /\ p.type = "DATA"
                       /\ <<p.src, p.seq>> \notin N[r].seen /\ <<p.src, p.seq>> \in M[r].seen

LEMMA NetworkKept ==
    ASSUME NEW N, NEW M, NEW H, NEW st, NEW g, NEW f, Network(N, H, st, g),
           \A r \in Nodes : Local(r, N[r]) /\ Local(r, M[r]),
           \A r \in Nodes : Moves(r, N, M, H, Holds(M)),
           f = [r \in Nodes |-> f[r]],
           \A r \in Nodes : \/ f[r] = g[r]
                            \/ \E p : Gets(r, N, M, H, p) /\ f[r] = g[r] \o <<<<p.src, p.id>>>>
    PROVE  Network(M, Holds(M), st, f)
<1> DEFINE K == Holds(M)
<1>1. \A r \in Nodes : N[r].number \in Nat
  BY Types DEF Local
<1>2. \A n \in Nodes : \A x \in K[n] : /\ x.fresh => x.src = n /\ x.type # "ACK"
                                       /\ x.src \in Nodes /\ x.id \in Nat
  BY HeldFacts DEF Holds
<1> HIDE DEF K
<1>3. \A r \in Nodes : Moves(r, N, M, H, K)
  BY DEF K
<1>4. /\ st \in [Nodes -> Nat] /\ g \in [Nodes -> Seq(Nodes \X Nat)] /\ Sound(N, H, st) /\ Agreed(H)
      /\ \A n \in Nodes : \A e \in ToSet(g[n]) : Received(N, H, st, n, e)
      /\ \A n \in Nodes : IsInjective(g[n])
  BY DEF Network
<1>5. Step(N, M, H, K, st)
  BY <1>1, <1>3, <1>4 DEF Step
<1>6. Sound(M, K, st)
  BY <1>1, <1>2, <1>3, <1>4, SoundOn
<1>7. Agreed(K)
  BY <1>2, <1>5, AgreedOn
<1>8. ASSUME NEW n \in Nodes
      PROVE  /\ f[n] \in Seq(Nodes \X Nat) /\ IsInjective(f[n])
             /\ \A e \in ToSet(f[n]) : Received(M, K, st, n, e)
  <2>1. /\ g[n] \in Seq(Nodes \X Nat) /\ IsInjective(g[n])
        /\ \A e \in ToSet(g[n]) : Received(M, K, st, n, e)
    BY <1>4, <1>5, ReceivedOn
  <2>2. CASE f[n] = g[n]
    BY <2>1, <2>2
  <2>3. CASE \E p : Gets(n, N, M, H, p) /\ f[n] = g[n] \o <<<<p.src, p.id>>>>
    <3>1. PICK p : Gets(n, N, M, H, p) /\ f[n] = g[n] \o <<<<p.src, p.id>>>>
      BY <2>3
    <3>2. PICK k \in Nodes : p \in H[k]
      BY <3>1 DEF Gets
    <3> DEFINE e == <<p.src, p.id>>
    <3>3. ~p.fresh /\ p.type = "DATA" /\ <<p.src, p.seq>> \in M[n].seen /\ <<p.src, p.seq>> \notin N[n].seen
      BY <3>1 DEF Gets
    <3>4. Received(M, K, st, n, e)
      BY <1>5, <3>2, <3>3, ReceivedNow
    <3>5. e \in Nodes \X Nat /\ e[1] = p.src /\ e[2] = p.id
      BY <3>4 DEF Received
    <3>6. e \notin ToSet(g[n])
      <4>1. SUFFICES ASSUME Received(N, H, st, n, e) PROVE FALSE
        BY <1>4
      <4> QED BY <3>2, <3>3, <3>5, <4>1 DEF Received
    <3> HIDE DEF e
    <3>7. f[n] = Append(g[n], e)
      BY <2>1, <3>1, <3>5, AppendIsConcat DEF e
    <3>8. f[n] \in Seq(Nodes \X Nat) /\ Len(f[n]) = Len(g[n]) + 1 /\ f[n][Len(g[n]) + 1] = e
          /\ \A i \in 1 .. Len(g[n]) : f[n][i] = g[n][i]
      <4> DEFINE s == Append(g[n], e)
      <4>1. s \in Seq(Nodes \X Nat) /\ Len(s) = Len(g[n]) + 1 /\ s[Len(g[n]) + 1] = e
            /\ \A i \in 1 .. Len(g[n]) : s[i] = g[n][i]
        BY <2>1, <3>5, AppendProperties
      <4> HIDE DEF s
      <4> QED BY <3>7, <4>1 DEF s
    <3>9. /\ DOMAIN f[n] = 1 .. Len(g[n]) + 1 /\ DOMAIN g[n] = 1 .. Len(g[n]) /\ Len(g[n]) \in Nat
          /\ \A i \in 1 .. Len(g[n]) : g[n][i] \in ToSet(g[n])
      BY <2>1, <3>8, Elements
    <3>10. IsInjective(f[n])
      <4>1. SUFFICES ASSUME NEW i \in 1 .. Len(g[n]) + 1, NEW j \in 1 .. Len(g[n]) + 1, f[n][i] = f[n][j]
                     PROVE  i = j
        BY <3>9 DEF IsInjective
      <4>2. \A l \in 1 .. Len(g[n]) : f[n][l] # e
        BY <3>6, <3>8, <3>9
      <4>3. i \in 1 .. Len(g[n]) \/ i = Len(g[n]) + 1
        BY <3>9
      <4>4. j \in 1 .. Len(g[n]) \/ j = Len(g[n]) + 1
        BY <3>9
      <4>5. CASE i \in 1 .. Len(g[n]) /\ j \in 1 .. Len(g[n])
        BY <2>1, <3>8, <3>9, <4>1, <4>5 DEF IsInjective
      <4> QED BY <3>8, <4>1, <4>2, <4>3, <4>4, <4>5
    <3>11. \A y \in ToSet(f[n]) : y \in ToSet(g[n]) \/ y = e
      <4>1. SUFFICES ASSUME NEW y \in ToSet(f[n]) PROVE y \in ToSet(g[n]) \/ y = e
        OBVIOUS
      <4>2. PICK i \in 1 .. Len(f[n]) : y = f[n][i]
        BY <3>8, Elements
      <4>3. i \in 1 .. Len(g[n]) \/ i = Len(g[n]) + 1
        BY <3>8, <3>9
      <4> QED BY <3>8, <3>9, <4>2, <4>3
    <3> QED BY <2>1, <3>4, <3>8, <3>10, <3>11
  <2> QED BY <2>2, <2>3
<1>9. f \in [Nodes -> Seq(Nodes \X Nat)]
  BY <1>8
<1> QED BY <1>4, <1>6, <1>7, <1>8, <1>9 DEF Network, K

----------------------------------------------------------------------------------
(* The inductive invariant                                                      *)

HealingInv ==
    /\ scenario \in Scenarios
    /\ node = [n \in Nodes |-> node[n]]
    /\ \A n \in Nodes : Local(n, node[n])
    /\ Network(node, Holds(node), sent, got)

LEMMA LocalStays ==
    ASSUME UNCHANGED scenario, \A n \in Nodes : Local(n, node'[n])
    PROVE  (\A n \in Nodes : Local(n, node[n]))'
BY DEF Local, Truthful, Sent, Placed, Near, Links

LEMMA NetworkNext ==
    ASSUME Network(node', Holds(node'), sent', got')
    PROVE  Network(node, Holds(node), sent, got)'
OBVIOUS

LEMMA StaysMoves ==
    ASSUME NEW r \in Nodes, NEW N, NEW M, NEW H, N[r] = M[r], Held(N[r]) \subseteq H[r]
    PROVE  Moves(r, N, M, H, Holds(M))
<1>1. Goes(r, N[r], N[r], {})
  BY CalmStays DEF Goes
<1>2. Holds(M)[r] = Held(N[r])
  BY DEF Holds
<1> HIDE DEF Goes
<1> QED BY <1>1, <1>2, GoesMoves

(* A step of one node that hears nothing.                                       *)
LEMMA OneNodeKept ==
    ASSUME HealingInv, NEW n \in Nodes, NEW v, Local(n, v), Goes(n, node[n], v, {}),
           Becomes(n, v), UNCHANGED <<scenario, sent, got>>
    PROVE  HealingInv'
<1>1. /\ node'[n] = v /\ \A r \in Nodes : r # n => node'[r] = node[r]
      /\ node' = [r \in Nodes |-> node'[r]]
  BY DEF Becomes, HealingInv
<1>2. \A r \in Nodes : Local(r, node[r]) /\ Local(r, node'[r])
  BY <1>1 DEF HealingInv
<1> DEFINE H == Holds(node)
<1>3. \A r \in Nodes : H[r] = Held(node[r]) /\ Holds(node')[r] = Held(node'[r])
  BY DEF Holds
<1> HIDE DEF H
<1>4. ASSUME NEW r \in Nodes PROVE Moves(r, node, node', H, Holds(node'))
  <2>1. CASE r = n
    <3> DEFINE K == Holds(node')
    <3>1. node'[r] = v /\ K[r] = Held(v) /\ Held(node[r]) \subseteq H[r] /\ Goes(r, node[r], v, {})
      BY <1>1, <1>3, <2>1
    <3>2. \A y \in {} : \E m \in Nodes : y \in H[m]
      OBVIOUS
    <3> HIDE DEF K
    <3>3. Moves(r, node, node', H, K)
      BY <3>1, <3>2, GoesMoves
    <3> QED BY <3>3 DEF K
  <2>2. CASE r # n
    <3>1. node[r] = node'[r] /\ Held(node[r]) \subseteq H[r]
      BY <1>1, <1>3, <2>2
    <3> QED BY <3>1, StaysMoves
  <2> QED BY <2>1, <2>2
<1>5. Network(node, H, sent, got)
  BY DEF HealingInv, H
<1>6. got = [r \in Nodes |-> got[r]] /\ got' = got /\ sent' = sent
  BY <1>5 DEF Network
<1>7. Network(node', Holds(node'), sent', got')
  BY <1>2, <1>4, <1>5, <1>6, NetworkKept
<1>8. (\A r \in Nodes : Local(r, node[r]))'
  BY <1>2, LocalStays
<1>9. scenario' \in Scenarios
  BY DEF HealingInv
<1> QED BY <1>1, <1>7, <1>8, <1>9, NetworkNext DEF HealingInv

LEMMA TransitionStep ==
    ASSUME HealingInv, NEW n \in Nodes, Transition(n) PROVE HealingInv'
<1> DEFINE w == node[n]
           v == TransitionTimer(w)
<1>1. Local(n, w) /\ w.mac = "transition"
  BY DEF HealingInv, Transition
<1>2. Becomes(n, v) /\ UNCHANGED <<scenario, sent, got>>
  BY DEF Transition
<1>3. Local(n, v) /\ Calm(n, w, v, {})
  BY <1>1, TransitionKept
<1>4. Goes(n, w, v, {})
  BY <1>3 DEF Goes
<1> HIDE DEF v
<1> QED BY <1>2, <1>3, <1>4, OneNodeKept

LEMMA OverlapStep ==
    ASSUME HealingInv, NEW n \in Nodes, Overlap(n) PROVE HealingInv'
<1> DEFINE w == node[n]
           v == [w EXCEPT !.mac = "overlapped"]
<1>1. Local(n, w) /\ w.mac = "defer"
  BY DEF HealingInv, Overlap
<1>2. Becomes(n, v) /\ UNCHANGED <<scenario, sent, got>>
  BY DEF Overlap
<1>3. Local(n, v) /\ Calm(n, w, v, {})
  BY <1>1, OverlapKept
<1>4. Goes(n, w, v, {})
  BY <1>3 DEF Goes
<1> HIDE DEF v
<1> QED BY <1>2, <1>3, <1>4, OneNodeKept

LEMMA DelayedStep ==
    ASSUME HealingInv, NEW n \in Nodes, Delayed(n) PROVE HealingInv'
<1> DEFINE w == node[n]
<1>1. Local(n, w) /\ w.delayed \in Seq(Packets)
  BY Types DEF HealingInv, Local
<1>2. PICK i \in DOMAIN w.delayed :
         \E k \in Delays(w.delayed[i]) \union {w.delayed[i].delay} :
            Becomes(n, PktDelayTimer(w, n, i, k))
  BY DEF Delayed
<1>3. PICK k \in Delays(w.delayed[i]) \union {w.delayed[i].delay} :
         Becomes(n, PktDelayTimer(w, n, i, k))
  BY <1>2
<1>4. k \in Nat
  <2>1. w.delayed[i] \in Packets
    BY <1>1, Elements
  <2>2. w.delayed[i].delay \in Nat
    BY <2>1 DEF Packets
  <2> QED BY <2>2 DEF Delays, AckWindow
<1> DEFINE v == PktDelayTimer(w, n, i, k)
<1>5. Becomes(n, v) /\ UNCHANGED <<scenario, sent, got>>
  BY <1>3 DEF Delayed
<1>6. Local(n, v) /\ Goes(n, w, v, {})
  BY <1>1, <1>4, PktDelayKept
<1> HIDE DEF v
<1> QED BY <1>5, <1>6, OneNodeKept

LEMMA UnansweredStep ==
    ASSUME HealingInv, NEW n \in Nodes, Unanswered(n) PROVE HealingInv'
<1> DEFINE w == node[n]
<1>1. Local(n, w)
  BY DEF HealingInv
<1>2. PICK i \in DOMAIN w.acks : Becomes(n, AckTimer(w, n, i))
  BY DEF Unanswered
<1> DEFINE v == AckTimer(w, n, i)
<1>3. Becomes(n, v) /\ UNCHANGED <<scenario, sent, got>>
  BY <1>2 DEF Unanswered
<1>4. Local(n, v) /\ Calm(n, w, v, {})
  BY <1>1, AckTimerKept
<1>5. Goes(n, w, v, {})
  BY <1>4 DEF Goes
<1> HIDE DEF v
<1> QED BY <1>3, <1>4, <1>5, OneNodeKept

LEMMA WakeStep ==
    ASSUME HealingInv, NEW n \in Nodes, Wake(n) PROVE HealingInv'
<1> DEFINE w == node[n]
           v == GenerateHello(w, n)
<1>1. Local(n, w)
  BY DEF HealingInv
<1>2. Becomes(n, v) /\ UNCHANGED <<scenario, sent, got>>
  BY DEF Wake
<1>3. Local(n, v) /\ Calm(n, w, v, {})
  BY <1>1, GenerateHelloKept
<1>4. Goes(n, w, v, {})
  BY <1>3 DEF Goes
<1> HIDE DEF v
<1> QED BY <1>2, <1>3, <1>4, OneNodeKept

LEMMA CanceledStep ==
    ASSUME HealingInv, NEW n \in Nodes, Canceled(n) PROVE HealingInv'
<1> DEFINE w == node[n]
           v == FromMacAck(w, n, TRUE)
<1>1. Local(n, w) /\ w.busy
  BY DEF HealingInv, Canceled, Local, Settled
<1>2. Becomes(n, v) /\ UNCHANGED <<scenario, sent, got>>
  BY DEF Canceled
<1>3. Local(n, v) /\ Calm(n, w, v, {})
  <2>1. \A ok \in BOOLEAN : LET u == FromMacAck(w, n, ok) IN Local(n, u) /\ Calm(n, w, u, {})
    BY <1>1, FromMacAckKept
  <2>2. TRUE \in BOOLEAN
    OBVIOUS
  <2> QED BY <2>1, <2>2
<1>4. Goes(n, w, v, {})
  BY <1>3 DEF Goes
<1> HIDE DEF v
<1> QED BY <1>2, <1>3, <1>4, OneNodeKept

LEMMA SentNetwork ==
    ASSUME NEW N, NEW st, NEW g, NEW B, Network(N, B, st, g), NEW n \in Nodes,
           DOMAIN B = Nodes, NEW d, d.fresh, d.type = "DATA", d.src = n, d.id = st[n] + 1
    PROVE  Network(N, [B EXCEPT ![n] = @ \union {d}], [st EXCEPT ![n] = @ + 1], g)
<1> DEFINE H == [B EXCEPT ![n] = @ \union {d}]
           s == [st EXCEPT ![n] = @ + 1]
<1>1. /\ st \in [Nodes -> Nat] /\ g \in [Nodes -> Seq(Nodes \X Nat)] /\ Sound(N, B, st) /\ Agreed(B)
      /\ \A r \in Nodes : \A e \in ToSet(g[r]) : Received(N, B, st, r, e)
      /\ \A r \in Nodes : IsInjective(g[r])
  BY DEF Network
<1>2. s \in [Nodes -> Nat] /\ s[n] = st[n] + 1 /\ \A r \in Nodes : st[r] <= s[r] /\ st[r] \in Nat
  BY <1>1
<1>3. \A r \in Nodes : \A x \in H[r] : x \in B[r] \/ (r = n /\ x = d)
  OBVIOUS
<1> HIDE DEF H, s
<1>4. ASSUME NEW r \in Nodes, NEW x \in B[r], x.type = "DATA", x.src = n PROVE x.id # d.id
  <2>1. x.id <= st[n] /\ x.id \in Nat /\ st[n] \in Nat
    BY <1>1, <1>2, <1>4 DEF Sound
  <2> QED BY <2>1
<1>5. Sound(N, H, s)
  <2>1. SUFFICES ASSUME NEW r \in Nodes, NEW x \in H[r]
                 PROVE  /\ x.fresh => x.src = r /\ x.type # "ACK"
                        /\ ~x.fresh => x.seq \in 1 .. N[x.src].number /\ <<x.src, x.seq>> \in N[x.src].seen
                        /\ x.src \in Nodes /\ x.id \in Nat
                        /\ x.type = "DATA" => x.id <= s[x.src]
    BY DEF Sound
  <2>2. CASE x \in B[r]
    <3>1. /\ x.fresh => x.src = r /\ x.type # "ACK"
          /\ ~x.fresh => x.seq \in 1 .. N[x.src].number /\ <<x.src, x.seq>> \in N[x.src].seen
          /\ x.src \in Nodes /\ x.id \in Nat
          /\ x.type = "DATA" => x.id <= st[x.src]
      BY <1>1, <2>2 DEF Sound
    <3>2. x.type = "DATA" => x.id <= s[x.src]
      <4>1. st[x.src] <= s[x.src] /\ st[x.src] \in Nat /\ s[x.src] \in Nat
        BY <1>2, <3>1
      <4> QED BY <3>1, <4>1
    <3> QED BY <3>1, <3>2
  <2>3. CASE r = n /\ x = d
    BY <1>2, <2>3
  <2> QED BY <1>3, <2>2, <2>3
<1>6. Agreed(H)
  <2>1. SUFFICES ASSUME NEW r \in Nodes, NEW m \in Nodes, NEW x \in H[r], NEW y \in H[m]
                 PROVE  Agree(r, x, y)
    BY DEF Agreed
  <2>2. CASE x \in B[r] /\ y \in B[m]
    BY <1>1, <2>2 DEF Agreed
  <2>3. CASE x = d \/ y = d
    <3>1. x.type = "DATA" /\ y.type = "DATA" /\ x.src = y.src /\ x.id = y.id => x = d /\ y = d
      BY <1>3, <1>4, <2>3
    <3> QED BY <2>3, <3>1 DEF Agree
  <2> QED BY <1>3, <2>2, <2>3
<1>7. ASSUME NEW r \in Nodes, NEW e \in ToSet(g[r]) PROVE Received(N, H, s, r, e)
  <2>1. Received(N, B, st, r, e)
    BY <1>1
  <2>2. e[1] \in Nodes /\ e[2] \in Nat /\ e[2] <= st[e[1]]
    BY <2>1 DEF Received
  <2>3. e[2] <= s[e[1]]
    <3>1. st[e[1]] <= s[e[1]] /\ st[e[1]] \in Nat /\ s[e[1]] \in Nat
      BY <1>2, <2>2
    <3> QED BY <2>2, <3>1
  <2>4. ~(d.src = e[1] /\ d.id = e[2])
    BY <1>2, <2>2
  <2>5. ASSUME NEW m \in Nodes, NEW x \in H[m], x.type = "DATA", x.src = e[1], x.id = e[2]
        PROVE  ~x.fresh /\ <<x.src, x.seq>> \in N[r].seen
    <3>1. x \in B[m]
      BY <1>3, <2>4, <2>5
    <3> QED BY <2>1, <2>5, <3>1 DEF Received
  <2> QED BY <2>2, <2>3, <2>5 DEF Received
<1> QED BY <1>1, <1>2, <1>5, <1>6, <1>7 DEF Network, H, s

LEMMA SendStep ==
    ASSUME ScenariosOK, HealingInv, NEW n \in Nodes, Send(n) PROVE HealingInv'
<1> DEFINE w == node[n]
           dst == scenario.traffic[n][sent[n] + 1]
           k == sent[n] + 1
           v == FromTransport(w, n, dst, k)
           d == DataPkt(n, dst, k)
           B == Holds(node)
           H == [B EXCEPT ![n] = @ \union {d}]
<1>1. Local(n, w) /\ Network(node, B, sent, got) /\ TimeToLive \in Nat /\ sent[n] \in Nat
  BY DEF HealingInv, ScenariosOK, Network
<1>2. dst \in Nodes /\ k \in Nat
  <2>1. scenario.traffic[n] \in Seq(Nodes) /\ sent[n] < Len(scenario.traffic[n])
    BY DEF ScenariosOK, HealingInv, Send
  <2>2. sent[n] + 1 \in 1 .. Len(scenario.traffic[n])
    BY <1>1, <2>1, Elements
  <2> QED BY <1>1, <2>1, <2>2, Elements
<1>3. \A x \in Held(w) : ~(Fresh(x) /\ x.id = k)
  <2>1. SUFFICES ASSUME NEW x \in Held(w), Fresh(x), x.id = k PROVE FALSE
    OBVIOUS
  <2>2. x \in B[n]
    BY DEF Holds
  <2> HIDE DEF B
  <2>3. x.src = n /\ x.id <= sent[n]
    BY <1>1, <2>1, <2>2 DEF Network, Sound, Fresh
  <2> QED BY <1>1, <2>1, <2>3
<1>4. Becomes(n, v) /\ UNCHANGED <<scenario, got>> /\ sent' = [sent EXCEPT ![n] = @ + 1]
  BY DEF Send
<1> HIDE DEF dst
<1>5. Local(n, v) /\ Goes(n, w, v, {d})
  <2> HIDE DEF k
  <2> QED BY <1>1, <1>2, <1>3, FromTransportKept
<1>6. d.fresh /\ d.type = "DATA" /\ d.src = n /\ d.id = k
  <2> HIDE DEF k
  <2> QED BY <1>2, DataPacket DEF Fresh
<1> HIDE DEF v, d
<1>7. Network(node, H, sent', got)
  <2>1. DOMAIN B = Nodes
    BY DEF Holds
  <2> HIDE DEF B
  <2> QED BY <1>1, <1>4, <1>6, <2>1, SentNetwork
<1>8. /\ node'[n] = v /\ \A r \in Nodes : r # n => node'[r] = node[r]
      /\ node' = [r \in Nodes |-> node'[r]]
  BY <1>4 DEF Becomes, HealingInv
<1>9. \A r \in Nodes : Local(r, node[r]) /\ Local(r, node'[r])
  BY <1>5, <1>8 DEF HealingInv
<1>10. d \in H[n] /\ \A r \in Nodes : Held(node[r]) \subseteq H[r] /\ Holds(node')[r] = Held(node'[r])
  BY DEF Holds
<1> HIDE DEF H
<1>11. ASSUME NEW r \in Nodes PROVE Moves(r, node, node', H, Holds(node'))
  <2>1. CASE r = n
    <3> DEFINE K == Holds(node')
    <3>1. node'[r] = v /\ K[r] = Held(v) /\ Held(node[r]) \subseteq H[r] /\ Goes(r, node[r], v, {d})
      BY <1>5, <1>8, <1>10, <2>1
    <3>2. \A y \in {d} : \E m \in Nodes : y \in H[m]
      BY <1>10
    <3> HIDE DEF K
    <3>3. Moves(r, node, node', H, K)
      BY <3>1, <3>2, GoesMoves
    <3> QED BY <3>3 DEF K
  <2>2. CASE r # n
    <3>1. node[r] = node'[r] /\ Held(node[r]) \subseteq H[r]
      BY <1>8, <1>10, <2>2
    <3> QED BY <3>1, StaysMoves
  <2> QED BY <2>1, <2>2
<1>12. got = [r \in Nodes |-> got[r]] /\ got' = got
  BY <1>4, <1>7 DEF Network
<1>13. Network(node', Holds(node'), sent', got')
  BY <1>7, <1>9, <1>11, <1>12, NetworkKept
<1>14. (\A r \in Nodes : Local(r, node[r]))'
  BY <1>4, <1>9, LocalStays
<1>15. scenario' \in Scenarios
  BY <1>4 DEF HealingInv
<1> QED BY <1>8, <1>13, <1>14, <1>15, NetworkNext DEF HealingInv

(* A neighbour knows enough of the sender to hear what it sends.                *)
LEMMA NeighbourHears ==
    ASSUME ScenariosOK, HealingInv, NEW n \in Nodes, node[n].busy, NEW r \in Links[n]
    PROVE  r \in Nodes /\ r # n /\ Hears(r, node[r], node[n].active)
<1> DEFINE p == node[n].active
           w == node[r]
           H == Holds(node)
<1>1. Links \in [Nodes -> SUBSET Nodes] /\ \A l \in Nodes : l \notin Links[l] /\ \A m \in Links[l] : l \in Links[m]
  BY DEF ScenariosOK, HealingInv, Links
<1>2. r \in Nodes /\ n \in Links[r] /\ r # n
  BY <1>1
<1>3. Local(n, node[n]) /\ Local(r, w) /\ Sound(node, H, sent) /\ Agreed(H)
  BY <1>2 DEF HealingInv, Network
<1>4. Sent(n, p) /\ p \in Packets /\ p \in H[n]
  BY <1>3 DEF Local, Settled, Holds, Held
<1>5. \A q \in ToSet(w.acks) : q \in H[r] /\ Sent(r, q) /\ q.type = "DATA"
  BY <1>2, <1>3 DEF Local, Holds, Held
<1> HIDE DEF p, H
<1>6. \A d, k : Near(d, k, n) => Near(d, k + 1, r)
  BY <1>2, NearNeighbour
<1>7. /\ ~p.fresh
      /\ p.type \in {"DATA", "REQUEST", "REPLY"} => p.actual # 0 /\ Near(p.src, p.actual - 1, n)
      /\ p.type = "DATA" => Near(p.dst, p.expected, n)
      /\ p.type = "HELLO" => Near(p.dst, p.hello, n)
      /\ p.type = "ACK" => p.expected = 0
  BY <1>4 DEF Sent, Placed
<1>8. p.type \in {"DATA", "REQUEST", "REPLY"} => Near(p.src, p.actual, r)
  <2>1. p.actual \in Nat
    BY <1>4 DEF Packets
  <2>2. (p.actual - 1) + 1 = p.actual
    BY <2>1
  <2>3. Near(p.src, p.actual - 1, n) => Near(p.src, (p.actual - 1) + 1, r)
    BY <1>6
  <2> QED BY <1>7, <2>2, <2>3
<1>9. p.type = "HELLO" => Near(p.dst, p.hello + 1, r)
  BY <1>6, <1>7
<1>10. ASSUME NEW q \in ToSet(w.acks), Same(q, p), p.type # "HELLO", p.type = "ACK" => p.fromDest
       PROVE  Says(r, p, q)
  <2>1. q \in H[r] /\ ~q.fresh /\ q.type = "DATA"
    BY <1>5 DEF Sent
  <2>2. Agree(n, p, q)
    BY <1>2, <1>3, <1>4, <2>1 DEF Agreed
  <2>3. CASE p.type = "ACK"
    <3>1. q.dst = n
      BY <1>10, <2>1, <2>2, <2>3 DEF Agree, Same
    <3>2. Near(n, 0, n)
      BY NearSelf
    <3> QED BY <1>6, <1>7, <2>3, <3>1, <3>2 DEF Says
  <2>4. CASE p.type # "ACK"
    <3>1. p.type = "DATA" /\ p.dst = q.dst
      BY <1>7, <1>10, <2>1, <2>2, <2>4 DEF Agree, Same
    <3> QED BY <1>6, <1>7, <3>1 DEF Says
  <2> QED BY <2>3, <2>4
<1>11. p.src = r => <<r, p.seq>> \in w.seen
  BY <1>3, <1>4, <1>7 DEF Sound
<1>12. Hears(r, w, p)
  BY <1>4, <1>7, <1>8, <1>9, <1>10, <1>11 DEF Hears
<1> QED BY <1>2, <1>12 DEF p

LEMMA TransmitStep ==
    ASSUME ScenariosOK, HealingInv, NEW n \in Nodes, Transmit(n) PROVE HealingInv'
<1> DEFINE p == node[n].active
           next(r) == FromMacData(node[r], p, r)
           H == Holds(node)
           ok == node[n].mac = "defer"
<1>1. PICK hear \in SUBSET Listening(n) :
         /\ node' = [r \in Nodes |-> CASE r = n -> FromMacAck(node[n], n, ok)
                                       [] r \in hear -> Quiet(next(r))
                                       [] OTHER -> node[r]]
         /\ got' = [r \in Nodes |-> IF r \in hear THEN got[r] \o next(r).up ELSE got[r]]
  BY DEF Transmit
<1>2. UNCHANGED <<scenario, sent>>
  BY DEF Transmit
<1>3. Local(n, node[n]) /\ node[n].busy /\ MaxResend \in Nat
  BY DEF HealingInv, Transmit, Local, Settled, ScenariosOK
<1>4. p \in H[n]
  BY <1>3 DEF Holds, Held
<1>5. \A r \in hear : r \in Nodes /\ r # n /\ Hears(r, node[r], p)
  <2>1. \A r \in Links[n] : r \in Nodes /\ r # n /\ Hears(r, node[r], node[n].active)
    BY <1>3, NeighbourHears
  <2> QED BY <2>1 DEF Listening
<1>6. \A r \in hear : /\ Handled(r, node[r], next(r), p)
                      /\ next(r).up # <<>> => /\ <<p.src, p.seq>> \notin node[r].seen
                                              /\ <<p.src, p.seq>> \in Quiet(next(r)).seen
  <2>1. ASSUME NEW r \in hear
        PROVE  /\ Handled(r, node[r], next(r), p)
               /\ next(r).up # <<>> => /\ <<p.src, p.seq>> \notin node[r].seen
                                       /\ <<p.src, p.seq>> \in Quiet(next(r)).seen
    <3>1. r \in Nodes /\ Hears(r, node[r], p) /\ Local(r, node[r])
      BY <1>5 DEF HealingInv
    <3> QED BY <1>3, <3>1, FromMacDataKept
  <2> QED BY <2>1
<1>7. Local(n, FromMacAck(node[n], n, ok)) /\ Calm(n, node[n], FromMacAck(node[n], n, ok), {})
  <2>1. ok \in BOOLEAN
    OBVIOUS
  <2> HIDE DEF ok
  <2> QED BY <1>3, <2>1, FromMacAckKept
<1> DEFINE answered == FromMacAck(node[n], n, ok)
<1> HIDE DEF next, p, H, ok, answered
<1>8. /\ node'[n] = answered
      /\ \A r \in hear : node'[r] = Quiet(next(r))
      /\ \A r \in Nodes : r # n /\ r \notin hear => node'[r] = node[r]
      /\ node' = [r \in Nodes |-> node'[r]]
  BY <1>1, <1>5 DEF answered
<1>9. /\ got' = [r \in Nodes |-> got'[r]]
      /\ \A r \in hear : got'[r] = got[r] \o next(r).up
      /\ \A r \in Nodes : r \notin hear => got'[r] = got[r]
  BY <1>1, <1>5
<1>10. \A r \in Nodes : Local(r, node[r]) /\ Local(r, node'[r])
  <2>1. ASSUME NEW r \in Nodes PROVE Local(r, node'[r])
    <3>1. CASE r = n
      BY <1>7, <1>8, <3>1 DEF answered
    <3>2. CASE r \in hear
      BY <1>6, <1>8, <3>2 DEF Handled
    <3>3. CASE r # n /\ r \notin hear
      BY <1>8, <3>3 DEF HealingInv
    <3> QED BY <3>1, <3>2, <3>3
  <2> QED BY <2>1 DEF HealingInv
<1>11. \A r \in Nodes : H[r] = Held(node[r]) /\ Holds(node')[r] = Held(node'[r])
  BY DEF Holds, H
<1>12. ASSUME NEW r \in Nodes PROVE Moves(r, node, node', H, Holds(node'))
  <2> DEFINE K == Holds(node')
  <2>1. CASE r = n
    <3>1. /\ node'[r] = answered /\ K[r] = Held(answered) /\ Held(node[r]) \subseteq H[r]
          /\ Goes(r, node[r], answered, {})
      BY <1>7, <1>8, <1>11, <2>1 DEF Goes, answered
    <3>2. \A y \in {} : \E m \in Nodes : y \in H[m]
      OBVIOUS
    <3> HIDE DEF K
    <3>3. Moves(r, node, node', H, K)
      BY <3>1, <3>2, GoesMoves
    <3> QED BY <3>3 DEF K
  <2>2. CASE r \in hear
    <3> DEFINE u == Quiet(next(r))
    <3>1. node'[r] = u /\ K[r] = Held(u) /\ Held(node[r]) \subseteq H[r] /\ Goes(r, node[r], u, {p})
      <4>1. Goes(r, node[r], u, {p})
        BY <1>6, <2>2 DEF Handled
      <4>2. node'[r] = u
        BY <1>8, <2>2
      <4> HIDE DEF u
      <4> QED BY <1>11, <4>1, <4>2
    <3>2. \A y \in {p} : \E m \in Nodes : y \in H[m]
      BY <1>4
    <3> HIDE DEF K, u
    <3>3. Moves(r, node, node', H, K)
      BY <3>1, <3>2, GoesMoves
    <3> QED BY <3>3 DEF K
  <2>3. CASE r # n /\ r \notin hear
    <3>1. node[r] = node'[r] /\ Held(node[r]) \subseteq H[r]
      BY <1>8, <1>11, <2>3
    <3> QED BY <3>1, StaysMoves
  <2> QED BY <2>1, <2>2, <2>3
<1>13. Network(node, H, sent, got)
  BY DEF HealingInv, H
<1>14. ASSUME NEW r \in Nodes
       PROVE  \/ got'[r] = got[r]
              \/ \E q : Gets(r, node, node', H, q) /\ got'[r] = got[r] \o <<<<q.src, q.id>>>>
  <2>1. CASE r \notin hear
    BY <1>9, <2>1
  <2>2. CASE r \in hear /\ next(r).up = <<>>
    <3>1. got'[r] = got[r] \o <<>> /\ got[r] \in Seq(Nodes \X Nat)
      BY <1>9, <1>13, <2>2 DEF Network
    <3> QED BY <3>1, ConcatEmptySeq
  <2>3. CASE r \in hear /\ next(r).up # <<>>
    <3>1. next(r).up = <<<<p.src, p.id>>>> /\ p.type = "DATA"
      BY <1>6, <2>3 DEF Handled
    <3>2. ~p.fresh
      BY <1>5, <2>3 DEF Hears
    <3>3. <<p.src, p.seq>> \notin node[r].seen /\ <<p.src, p.seq>> \in node'[r].seen
      BY <1>6, <1>8, <2>3
    <3>4. Gets(r, node, node', H, p)
      BY <1>4, <3>1, <3>2, <3>3 DEF Gets
    <3> QED BY <1>9, <2>3, <3>1, <3>4
  <2> QED BY <2>1, <2>2, <2>3
<1>15. Network(node', Holds(node'), sent', got')
  <2>1. Network(node', Holds(node'), sent, got')
    BY <1>9, <1>10, <1>12, <1>13, <1>14, NetworkKept
  <2> QED BY <1>2, <2>1
<1>16. (\A r \in Nodes : Local(r, node[r]))'
  BY <1>2, <1>10, LocalStays
<1>17. scenario' \in Scenarios
  BY <1>2 DEF HealingInv
<1> QED BY <1>8, <1>15, <1>16, <1>17, NetworkNext DEF HealingInv

LEMMA StartedKept ==
    ASSUME NEW me \in Nodes, NEW options \in Options, NEW hops,
           IsFiniteSet(DOMAIN hops), DOMAIN hops \subseteq Nodes,
           \A d \in DOMAIN hops : hops[d] \in Nat /\ Near(d, hops[d], me)
    PROVE  LET w == Learnt(Started(options), hops)
           IN  Local(me, w) /\ Held(w) = {}
<1> DEFINE s == Started(options)
           t == [x \in DOMAIN hops |-> Entry(s, hops[x])]
           w == Learnt(s, hops)
<1>1. Counter(s) \in Int
  BY DEF Counter, Started, Options
<1>2. t \in Tables
  <2>1. \A x \in DOMAIN hops : Entry(s, hops[x]) \in Costs
    BY <1>1 DEF Entry, Costs
  <2>2. t \in [DOMAIN hops -> Costs]
    BY <2>1
  <2> HIDE DEF t
  <2> QED BY <2>2 DEF Tables
<1>3. \A d \in DOMAIN t : d \in DOMAIN hops /\ t[d].hc = hops[d] /\ ~t[d].changing
  BY DEF Entry
<1>4. DOMAIN t = DOMAIN hops
  OBVIOUS
<1>5. w = [s EXCEPT !.table = t]
  BY DEF Learnt
<1> HIDE DEF t
<1>6. /\ w.opt = options /\ w.busy = FALSE /\ w.mac = "none" /\ w.active = NoPacket /\ w.queue = <<>>
      /\ w.delayed = <<>> /\ w.acks = <<>> /\ w.buffer = {} /\ w.table = t /\ w.number = 0
      /\ w.seen = {} /\ w.up = <<>> /\ w.dropped = {}
  BY <1>5 DEF Started
<1>7. w \in States
  <2>1. w = [opt |-> options, busy |-> FALSE, mac |-> "none", active |-> NoPacket,
             queue |-> <<>>, delayed |-> <<>>, acks |-> <<>>, buffer |-> {},
             table |-> t, number |-> 0, seen |-> {}, up |-> <<>>, dropped |-> {}]
    BY <1>5 DEF Started
  <2>2. <<>> \in Seq(Packets) /\ <<>> \in Seq(Nodes \X Nat)
    BY EmptySeq
  <2> HIDE DEF w
  <2> QED BY <1>2, <2>1, <2>2 DEF States
<1>8. ToSet(w.delayed) = {} /\ ToSet(w.queue) = {} /\ ToSet(w.acks) = {}
  BY <1>6 DEF ToSet
<1> HIDE DEF w
<1>9. Settled(w) /\ FreshOnce(w.delayed, w.buffer)
  BY <1>6 DEF Settled, FreshOnce
<1>10. IsFiniteSet(DOMAIN w.table) /\ IsFiniteSet(w.buffer)
  BY <1>4, <1>6, FS_EmptySet
<1>11. Truthful(me, w.table)
  BY <1>3, <1>6 DEF Truthful
<1>12. Local(me, w)
  BY <1>6, <1>7, <1>8, <1>9, <1>10, <1>11 DEF Local
<1>13. Held(w) = {}
  BY <1>6, <1>8 DEF Held
<1> QED BY <1>12, <1>13 DEF w

LEMMA HealingInit == ASSUME ScenariosOK, Init PROVE HealingInv
<1> DEFINE w(n) == Learnt(Started(scenario.options), scenario.learnt[n])
<1>1. /\ scenario \in Scenarios /\ node = [n \in Nodes |-> w(n)]
      /\ sent = [n \in Nodes |-> 0] /\ got = [n \in Nodes |-> <<>>]
  BY DEF Init
<1>2. \A n \in Nodes : Local(n, w(n)) /\ Held(w(n)) = {}
  <2>1. ASSUME NEW n \in Nodes PROVE Local(n, w(n)) /\ Held(w(n)) = {}
    <3> DEFINE hops == scenario.learnt[n]
    <3>1. /\ scenario.options \in Options /\ IsFiniteSet(DOMAIN hops) /\ DOMAIN hops \subseteq Nodes
          /\ \A d \in DOMAIN hops : hops[d] \in Nat /\ d \in Within(scenario.links, hops[d], n)
      BY <1>1 DEF ScenariosOK
    <3>2. \A d \in DOMAIN hops : hops[d] \in Nat /\ Near(d, hops[d], n)
      BY <3>1 DEF Near, Links
    <3> HIDE DEF hops
    <3>3. Local(n, Learnt(Started(scenario.options), hops)) /\ Held(Learnt(Started(scenario.options), hops)) = {}
      BY <3>1, <3>2, StartedKept
    <3> QED BY <3>3 DEF hops
  <2> QED BY <2>1
<1> HIDE DEF w
<1>3. \A n \in Nodes : node[n] = w(n) /\ Local(n, node[n]) /\ Holds(node)[n] = {}
  BY <1>1, <1>2 DEF Holds
<1>4. Sound(node, Holds(node), sent) /\ Agreed(Holds(node))
  BY <1>3 DEF Sound, Agreed
<1>5. \A n \in Nodes : ToSet(got[n]) = {} /\ IsInjective(got[n])
  BY <1>1 DEF ToSet, IsInjective
<1>6. sent \in [Nodes -> Nat] /\ got \in [Nodes -> Seq(Nodes \X Nat)]
  <2>1. <<>> \in Seq(Nodes \X Nat)
    BY EmptySeq
  <2> QED BY <1>1, <2>1
<1>7. Network(node, Holds(node), sent, got)
  BY <1>4, <1>5, <1>6 DEF Network
<1>8. node = [n \in Nodes |-> node[n]]
  BY <1>1
<1> QED BY <1>1, <1>3, <1>7, <1>8 DEF HealingInv

LEMMA HealingNext == ASSUME ScenariosOK, HealingInv, [Next]_vars PROVE HealingInv'
<1>1. ASSUME NEW n \in Nodes, Send(n) PROVE HealingInv'
  BY <1>1, SendStep
<1>2. ASSUME NEW n \in Nodes, Transition(n) PROVE HealingInv'
  BY <1>2, TransitionStep
<1>3. ASSUME NEW n \in Nodes, Delayed(n) PROVE HealingInv'
  BY <1>3, DelayedStep
<1>4. ASSUME NEW n \in Nodes, Unanswered(n) PROVE HealingInv'
  BY <1>4, UnansweredStep
<1>5. ASSUME NEW n \in Nodes, Wake(n) PROVE HealingInv'
  BY <1>5, WakeStep
<1>6. ASSUME NEW n \in Nodes, Transmit(n) PROVE HealingInv'
  BY <1>6, TransmitStep
<1>7. ASSUME NEW n \in Nodes, Canceled(n) PROVE HealingInv'
  BY <1>7, CanceledStep
<1>8. ASSUME NEW n \in Nodes, Overlap(n) PROVE HealingInv'
  BY <1>8, OverlapStep
<1>9. CASE UNCHANGED vars
  <2>1. \A r \in Nodes : Local(r, node'[r])
    BY <1>9 DEF HealingInv, vars
  <2>2. (\A r \in Nodes : Local(r, node[r]))'
    BY <1>9, <2>1, LocalStays DEF vars
  <2>3. Network(node', Holds(node'), sent', got')
    BY <1>9 DEF HealingInv, vars
  <2>4. scenario' \in Scenarios /\ node' = [n \in Nodes |-> node'[n]]
    BY <1>9 DEF HealingInv, vars
  <2> QED BY <2>2, <2>3, <2>4, NetworkNext DEF HealingInv
<1> QED BY <1>1, <1>2, <1>3, <1>4, <1>5, <1>6, <1>7, <1>8, <1>9 DEF Next

THEOREM HealingInvariant == ASSUME ScenariosOK PROVE Spec => []HealingInv
<1>1. Init => HealingInv
  BY HealingInit
<1>2. HealingInv /\ [Next]_vars => HealingInv'
  BY HealingNext
<1> QED BY <1>1, <1>2, PTL DEF Spec

(* The network layer waits for the MAC exactly while the MAC has something to   *)
(* answer, and no packet waits for a MAC that is free: from_mac_ack, the timers *)
(* and whatever cancels a packet leave m_mac_busy and m_send_queue in step.     *)
THEOREM HealingServed == ASSUME ScenariosOK PROVE Spec => []QueueServed
<1>1. HealingInv => QueueServed
  BY DEF HealingInv, Local, Settled, QueueServed
<1> QED BY <1>1, HealingInvariant, PTL

(* No hop count of the cost table, and none on its way to be believed, is less  *)
(* than the distance, whatever is lost, repeated, repaired or told by a HELLO.  *)
THEOREM HealingDistances == ASSUME ScenariosOK PROVE Spec => []NeverTooNear
<1>1. HealingInv => NeverTooNear
  <2>1. SUFFICES ASSUME HealingInv, NEW n \in Nodes, NEW d \in DOMAIN node[n].table
                 PROVE  LET e == node[n].table[d]
                        IN  /\ d \in Within(Links, e.hc, n)
                            /\ e.changing => d \in Within(Links, e.pending, n)
    BY DEF NeverTooNear
  <2>2. Truthful(n, node[n].table)
    BY <2>1 DEF HealingInv, Local
  <2> QED BY <2>2 DEF Truthful, Near
<1> QED BY <1>1, HealingInvariant, PTL

(* No application gets a packet twice, however many candidates forward it and   *)
(* however often a sender that missed the answer repeats it.                    *)
THEOREM HealingDelivers == ASSUME ScenariosOK PROVE Spec => []DeliveredOnce
<1>1. HealingInv => DeliveredOnce
  BY DEF HealingInv, Network, DeliveredOnce
<1> QED BY <1>1, HealingInvariant, PTL
=================================================================================
