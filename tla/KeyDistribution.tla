------------------------------ MODULE KeyDistribution -----------------------------
(* The procedure `keygen': it draws a key share (s i j u) for every node, sends *)
(* each cluster's shares to its head as one file, and lets every head deal them *)
(* out, one file per node.  A head's own file still holds the whole cluster     *)
(* while it deals, so its own share takes a detour through txt1/test.txt.       *)
(* A share is named by the node it was drawn for.                               *)
EXTENDS ClusterLayout, Sequences

CONSTANT Absent      \* the value of a file that does not exist

Blank == NN          \* an empty line
Old == NN + 1        \* a line an earlier run left in the directory
Lines == Nodes \union {Blank, Old}

Scratch == NN + 1    \* txt1/test.txt; the dealing also touches txt1/<NN>.txt
Files == 0..Scratch

(* A missing file differs from every file there is.                             *)
ASSUME AbsentAssumption == Absent \notin Seq(Lines)

VARIABLES
    div,             \* the global keygen reads: val(nn)/4, or 0 where leach keeps it local
    ch,              \* the heads leach elected
    txt1,            \* the directory: the lines of each file
    data,            \* data1..data4
    k,               \* the cluster being dealt, 0 before the split, 5 at the end
    line,            \* the line of data<k> the foreach is at
    aborted          \* opening a missing test.txt ended the simulation

vars == <<div, ch, txt1, data, k, line, aborted>>

First(c) == Start(div, c)
Last(c) == End(div, c)

(* What `split' makes of a file with one line per node of cluster c: the text   *)
(* ends in a newline, so the list has an empty last element.                    *)
ClusterLines(c) == [x \in 1..(Last(c) - First(c) + 1) |-> First(c) + x - 1]

SplitLines(c) == Append(ClusterLines(c), Blank)

Init == /\ div \in {0, Div}
        /\ ch \in {h \in [Clusters -> Nodes] : \A c \in Clusters : h[c] \in Cluster(c)}
        /\ txt1 \in {[f \in Files |-> IF f = Scratch THEN s ELSE <<Old>>] :
                        s \in {<<Old>>, <<Blank>>, Absent}}
        /\ data = [c \in Clusters |-> << >>]
        /\ k = 0
        /\ line = 1
        /\ aborted = FALSE

(* base.txt is written and sorted into the four heads' files, which are all     *)
(* read back before the first node's file is written.                           *)
Split ==
    /\ k = 0
    /\ txt1' = [f \in Files |-> IF \E c \in Clusters : f = ch[c]
                                THEN ClusterLines(CHOOSE c \in Clusters : f = ch[c])
                                ELSE txt1[f]]
    /\ data' = [c \in Clusters |-> SplitLines(c)]
    /\ k' = 1
    /\ UNCHANGED <<div, ch, line, aborted>>

(* The file line number x of cluster c goes to.  Mutants: no detour for the     *)
(* head, a detour for its neighbour.                                            *)
TargetNoScratch(c, x) == First(c) + x - 1
TargetNeighbour(c, x) == LET count == First(c) + x - 1
                         IN  IF count # ch[c] + 1 THEN count ELSE Scratch
Target(c, x) == LET count == First(c) + x - 1
                IN  IF count # ch[c] THEN count ELSE Scratch

(* `foreach' goes on to the next line.                                          *)
NextLine == line + 1

Deal ==
    /\ k \in Clusters /\ line <= Len(data[k])
    /\ txt1' = [txt1 EXCEPT ![Target(k, line)] = <<data[k][line]>>]
    /\ line' = NextLine
    /\ UNCHANGED <<div, ch, data, k, aborted>>

(* The head's own file becomes the scratch file plus the newline of `puts'.     *)
CopyHead ==
    /\ k \in Clusters /\ line > Len(data[k]) /\ ~aborted
    /\ IF txt1[Scratch] = Absent
       THEN aborted' = TRUE /\ UNCHANGED <<txt1, k, line>>
       ELSE /\ txt1' = [txt1 EXCEPT ![ch[k]] = Append(txt1[Scratch], Blank)]
            /\ k' = k + 1
            /\ line' = 1
            /\ UNCHANGED aborted
    /\ UNCHANGED <<div, ch, data>>

Next == Split \/ Deal \/ CopyHead

Spec == Init /\ [][Next]_vars

-----------------------------------------------------------------------------------
(* The share readvalue finds in node i's file: the first four words.  A file    *)
(* that holds one share holds it on its first line, possibly followed by blanks.*)
Holds(i) == /\ txt1[i] # << >>
            /\ txt1[i][1] = i
            /\ \A x \in 2..Len(txt1[i]) : txt1[i][x] = Blank

(* Types of keygen's variables and files.                                       *)
TypeOK == /\ div \in {0, Div}
          /\ ch \in [Clusters -> Nodes]
          /\ txt1 \in [Files -> Seq(Lines) \union {Absent}]
          /\ data \in [Clusters -> Seq(Lines)]
          /\ k \in 0..5
          /\ line \in 1..(NN - 1)
          /\ aborted \in BOOLEAN

(* Once cluster c has been dealt, every node numbered below the next cluster    *)
(* has its own share and nothing else: neither the blank that spills over a     *)
(* cluster's end nor a stale scratch file survives where it can be read.        *)
DealtPrefix == k \in 1..5 =>
    \A i \in Nodes : (k = 5 \/ i < First(k)) => Holds(i)

(* keygen's purpose: when it returns every node can read its own share, the     *)
(* heads no longer hold those of their clusters, and this for either value of   *)
(* div although with div = 0 almost every head is dealt for in a wrong cluster. *)
EveryNodeHasItsShare == k = 5 => \A i \in Nodes : Holds(i)

(* The scratch file is read before it is written only when div was lost and the *)
(* first head lies outside the two lines of keygen's first cluster.             *)
AbortsOnlyWhenDivLost == aborted => div = 0 /\ ch[1] > 1 /\ k = 1

===================================================================================
