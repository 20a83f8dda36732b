------------------------------- MODULE RobustRed --------------------------------
(* dos1/ns2-integration/red-robust.cc: a RED queue that refuses packets which   *)
(* follow too closely on a refusal.  Each packet has a bin in every level; a    *)
(* bin has a score and the time of its last refusal.  A packet is refused when  *)
(* its bins in all levels score less than score_pass_.                          *)
(*                                                                              *)
(* Times are kept as time passed, up to drop_related_period_: no more of them   *)
(* is ever looked at.  What REDQueue::enque does with a packet it gets is not   *)
(* reported back, not even when it drops the packet.                            *)
EXTENDS Integers

CONSTANTS
    Packets,         \* pairs of addresses <<saddr, daddr>>
    HashBins,        \* hash_bins_
    HashLevels,      \* hash_levels_
    ScoreMax, ScoreMin, ScorePass,
    Period           \* drop_related_period_

RedLevels == 0 .. HashLevels - 1
RedBins == 0 .. HashBins - 1

ASSUME RedAssumption ==
    /\ Packets \subseteq Nat \X Nat
    /\ HashBins \in Nat \ {0} /\ HashLevels \in Nat
    /\ ScoreMax \in Int /\ ScoreMin \in Int /\ ScorePass \in Int
    /\ ScoreMin <= 0 /\ ScorePass <= 0 /\ ScoreMax >= 0
    /\ Period \in Nat

VARIABLES
    score,           \* bins_[level][bin].score
    since,           \* time passed since bins_[level][bin].last_drop_time
    age,             \* time passed since last_drop_time_, which stays 0
    quiet,           \* history: how many of the last packets of a bin were quiet
    early,           \* history: a bin has had a packet in the first Period
    refused          \* the packets refused by the last call of enque

redVars == <<score, since, age, quiet, early, refused>>

RedInit == /\ score = [l \in RedLevels |-> [b \in RedBins |-> 0]]
           /\ since = [l \in RedLevels |-> [b \in RedBins |-> 0]]
           /\ age = 0
           /\ quiet = [l \in RedLevels |-> [b \in RedBins |-> 0]]
           /\ early = [l \in RedLevels |-> [b \in RedBins |-> FALSE]]
           /\ refused = {}

(* (saddr << level) + daddr, both taken as unsigned                             *)
HashPkt(p, l) == (p[1] * 2^l + p[2]) % HashBins

(* now - MAX(last_drop_time_, last_drop_time) < drop_related_period_            *)
Close(l, b) == age < Period \/ since[l][b] < Period

(* Mutant: the score has no lower bound.                                        *)
ScoreAfterUnbounded(l, b) ==
    IF Close(l, b) THEN score[l][b] - 1
    ELSE IF score[l][b] < ScoreMax THEN score[l][b] + 1 ELSE score[l][b]
ScoreAfter(l, b) ==
    IF Close(l, b)
    THEN IF score[l][b] > ScoreMin THEN score[l][b] - 1 ELSE score[l][b]
    ELSE IF score[l][b] < ScoreMax THEN score[l][b] + 1 ELSE score[l][b]

(* dropAnomaly: no level's bin passes it                                        *)
Anomaly(p) == \A l \in RedLevels : ScoreAfter(l, HashPkt(p, l)) < ScorePass

(* The packet's bin in each level gets a new value.                             *)
Rescored(p, of, new) ==
    [l \in RedLevels |-> [b \in RedBins |-> IF b = HashPkt(p, l) THEN new[l] ELSE of[l][b]]]

(* As many quiet packets bring the score from its least value to the passing    *)
(* one; the history counts no further.                                          *)
Enough == ScorePass - ScoreMin
QuietAfter(l, b) ==
    IF Close(l, b) THEN 0
    ELSE IF quiet[l][b] < Enough THEN quiet[l][b] + 1 ELSE quiet[l][b]

RedEnque(p) ==
    /\ score' = Rescored(p, score, [l \in RedLevels |-> ScoreAfter(l, HashPkt(p, l))])
    /\ quiet' = Rescored(p, quiet, [l \in RedLevels |-> QuietAfter(l, HashPkt(p, l))])
    /\ early' = Rescored(p, early, [l \in RedLevels |-> early[l][HashPkt(p, l)] \/ age < Period])
    /\ IF Anomaly(p)
       THEN /\ since' = Rescored(p, since, [l \in RedLevels |-> 0])
            /\ refused' = {p}
       ELSE /\ refused' = {}
            /\ UNCHANGED since
    /\ UNCHANGED age

(* Time passes.                                                                 *)
Later(t) == IF t < Period THEN t + 1 ELSE t
RedTick == /\ age' = Later(age)
           /\ since' = [l \in RedLevels |-> [b \in RedBins |-> Later(since[l][b])]]
           /\ refused' = {}
           /\ UNCHANGED <<score, quiet, early>>

RedNext == RedTick \/ \E p \in Packets : RedEnque(p)

RedSpec == RedInit /\ [][RedNext]_redVars

(* A packet is refused only if the bins it falls into had it coming.  Each got  *)
(* a packet in the first Period of the simulation, when the time 0 that stands  *)
(* for no refusal yet counts as one; and its last packets, up to this one, were *)
(* not all quiet for as many as make up for the worst score.  (So a queue that  *)
(* was idle for the first Period never refuses anything: what RED drops for its *)
(* own reasons is not reported to the bins.)                                    *)
RefusedForCause ==
    \A p \in refused : \A l \in RedLevels :
        /\ early[l][HashPkt(p, l)]
        /\ quiet[l][HashPkt(p, l)] < Enough
==================================================================================
