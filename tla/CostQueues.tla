----------------------------- MODULE CostQueues -----------------------------
(***************************************************************************)
(* The three event queues of common/priority_q.h that the engine can be    *)
(* compiled with (queue_t in common/cost.h): SimpleQueue, a doubly linked  *)
(* list; HeapQueue, an implicit heap whose elements know their position;   *)
(* CalendarQueue, a ring of sorted lists that is resized as it fills.      *)
(*                                                                         *)
(* Every operator takes the events' times as its argument `when'.  Links   *)
(* and positions of an event outside the queue are cleared here; the code  *)
(* leaves the old ones, and overwrites them before it reads them.          *)
(*                                                                         *)
(* Times are whole ticks, Second of them to the code's 1.0.  A calendar    *)
(* adds half a bucket's width to bucket_top, so `top' and `prio' count     *)
(* half ticks.                                                             *)
(***************************************************************************)
EXTENDS Integers, Sequences, FiniteSets, SequencesExt

CONSTANTS Events,           \* the events
          Nil,              \* NULL
          Second,           \* ticks in 1.0
          Widths,           \* widths NewWidth may estimate
          Sample,           \* the least sample it wants: 5 in the code
          BucketCounts      \* buckets of a new calendar: 16 in the code

ASSUME NilAssumption == Nil \notin Events
ASSUME WidthAssumption == Second \in Nat \ {0} /\ Widths \subseteq Nat \ {0}

(***************************************************************************)
(* SimpleQueue                                                             *)
(***************************************************************************)
SimpleEmpty == [head |-> Nil, next |-> [e \in Events |-> Nil],
                prev |-> [e \in Events |-> Nil]]

\* The element after which an event of time t goes, given that it does not
\* go first.
Before(q, when, t) ==
  LET Walk[i \in Events] ==
        IF q.next[i] # Nil /\ t > when[q.next[i]] THEN Walk[q.next[i]] ELSE i
  IN  Walk[q.head]

SimpleEnQueue(q, when, e) ==
  IF q.head = Nil \/ when[e] < when[q.head]
  THEN [head |-> e,
        next |-> [q.next EXCEPT ![e] = q.head],
        prev |-> [f \in Events |-> CASE f = q.head -> e
                                     [] f = e      -> Nil
                                     [] OTHER      -> q.prev[f]]]
  ELSE LET i == Before(q, when, when[e])
           n == q.next[i]
       IN  [q EXCEPT !.next[e] = n, !.next[i] = e,
                     !.prev = [f \in Events |-> CASE f = n -> e
                                                  [] f = e -> i
                                                  [] OTHER -> q.prev[f]]]

\* An element is taken out: its neighbours are linked to each other.
SimpleDelete(q, e) ==
  LET p == q.prev[e]
      n == q.next[e]
  IN  [head |-> IF e = q.head THEN n ELSE q.head,
       next |-> [f \in Events |-> CASE f = e                   -> Nil
                                    [] f = p /\ e # q.head     -> n
                                    [] OTHER                   -> q.next[f]],
       prev |-> [f \in Events |-> CASE f = e                   -> Nil
                                    [] f = n /\ e = q.head     -> Nil
                                    [] f = n /\ e # q.head     -> p
                                    [] OTHER                   -> q.prev[f]]]

SimpleDeQueue(q) == IF q.head = Nil THEN q ELSE SimpleDelete(q, q.head)

SimpleMembers(q) ==
  LET From[e \in Events \union {Nil}] ==
        IF e = Nil THEN <<>> ELSE <<e>> \o From[q.next[e]]
  IN  From[q.head]

(***************************************************************************)
(* HeapQueue.  elems[0 .. num-1] is the heap; what lies behind is cleared. *)
(* (The array doubles when it is full; here it is long enough.)            *)
(***************************************************************************)
Places == 0 .. Cardinality(Events) - 1

HeapEmpty == [elems |-> [i \in Places |-> Nil], num |-> 0,
              pos |-> [e \in Events |-> 0]]

Swapped(h, i, k) ==
  LET a == h.elems[i]
      b == h.elems[k]
  IN  [h EXCEPT !.elems[i] = b, !.elems[k] = a, !.pos[a] = k, !.pos[b] = i]

RECURSIVE SiftDown(_, _, _)
SiftDown(h, when, k) ==
  LET T(i) == when[h.elems[i]]
      c == 2 * k + 1
      left  == IF c < h.num /\ T(c) < T(k) THEN c ELSE k
      least == IF c + 1 < h.num /\ T(c + 1) < T(left) THEN c + 1 ELSE left
  IN  IF h.num <= 1 \/ least = k THEN h
      ELSE SiftDown(Swapped(h, least, k), when, least)

RECURSIVE PercolateUp(_, _, _)
PercolateUp(h, when, k) ==
  LET p == (k + 1) \div 2 - 1
  IN  IF p >= 0 /\ when[h.elems[k]] < when[h.elems[p]]
      THEN PercolateUp(Swapped(h, p, k), when, p)
      ELSE h

HeapEnQueue(h, when, e) ==
  PercolateUp([h EXCEPT !.elems[h.num] = e, !.pos[e] = h.num, !.num = @ + 1],
              when, h.num)

\* The last element takes the place of one that leaves.
LastInto(h, i) ==
  LET last == h.elems[h.num - 1]
  IN  [h EXCEPT !.elems[i] = last, !.pos[last] = i, !.num = @ - 1]

Trimmed(h, e) == [h EXCEPT !.elems = [i \in Places |-> IF i < h.num THEN @[i] ELSE Nil],
                           !.pos[e] = 0]

HeapDeQueue(h, when) ==
  IF h.num <= 0 THEN h
  ELSE Trimmed(SiftDown(LastInto(h, 0), when, 0), h.elems[0])

\* Mutant: the element moved into the gap is not let down.
HeapDeleteNoSift(h, when, e) ==
  LET i == h.pos[e]
  IN  Trimmed(PercolateUp(LastInto(h, i), when, i), e)

HeapDelete(h, when, e) ==
  LET i == h.pos[e]
  IN  Trimmed(PercolateUp(SiftDown(LastInto(h, i), when, i), when, i), e)

HeapMembers(h) == [i \in 1 .. h.num |-> h.elems[i - 1]]

(***************************************************************************)
(* CalendarQueue.  `head' (m_head) is kept outside the buckets.            *)
(***************************************************************************)
Calendar(n, width) ==
  [head |-> Nil, buckets |-> [i \in 0 .. n - 1 |-> <<>>], n |-> n, width |-> width,
   last |-> 0, top |-> 2 * width, prio |-> 0, total |-> 0]

CalendarsEmpty == {Calendar(n, Second) : n \in BucketCounts}

\* bucket_top for the bucket that holds the half tick p.
TopOf(width, p) == 2 * width * (p \div (2 * width) + 1) + width

\* Where an event of time t goes in a bucket's list: in front, or behind the
\* first element and all the others that are earlier.
PlaceIn(l, when, t) ==
  IF l = <<>> \/ t < when[Head(l)] THEN 1
  ELSE 2 + Cardinality({j \in 2 .. Len(l) : \A m \in 2 .. j : t > when[l[m]]})

\* enqueue() without the resizing.
CalInsert(c, when, e) ==
  LET t == when[e]
      i == (t \div c.width) % c.n
      l == c.buckets[i]
      back == 2 * t < c.prio
  IN  [c EXCEPT !.buckets[i] = InsertAt(l, PlaceIn(l, when, t), e),
                !.total = @ + 1,
                !.prio = IF back THEN 2 * t ELSE @,
                !.top  = IF back THEN TopOf(c.width, 2 * t) ELSE @,
                !.last = IF back THEN i ELSE @]

\* NewWidth takes a sample of events out and puts it back; if there are not as
\* many with different times as it wants, the width is 1.0 again.
NewWidths(c, when) ==
  LET times == UNION {{when[e] : e \in ToSet(c.buckets[i])} : i \in 0 .. c.n - 1}
  IN  IF Cardinality(times) <= Sample + c.total \div 10 THEN {Second} ELSE Widths

\* ReSize() to n buckets of width w: the events move to the new buckets in
\* the order of the old ones, and the search starts at last_priority.
ReSized(c, when, n, w) ==
  LET order == FlattenSeq([k \in 1 .. c.n |-> c.buckets[k - 1]])
      empty == [Calendar(n, w) EXCEPT !.head = c.head, !.prio = c.prio, !.top = c.top]
      moved == FoldLeft(LAMBDA d, e : CalInsert(d, when, e), empty, order)
  IN  [moved EXCEPT !.top = TopOf(w, moved.prio),
                    !.last = (moved.prio \div (2 * w)) % n]

Grown(c, when)  == IF c.total > 2 * c.n
                   THEN {ReSized(c, when, 2 * c.n, w) : w \in NewWidths(c, when)} ELSE {c}
Shrunk(c, when) == IF c.total < c.n \div 2 - 2
                   THEN {ReSized(c, when, c.n \div 2, w) : w \in NewWidths(c, when)} ELSE {c}

\* dequeue(): the bucket the search ends at, or -1 when the queue is empty.
Due(c, when, k) ==
  LET l == c.buckets[(c.last + k) % c.n]
  IN  l # <<>> /\ 2 * when[Head(l)] < c.top + 2 * c.width * k

Filled(c) == {i \in 0 .. c.n - 1 : c.buckets[i] # <<>>}

\* The first bucket whose first event lies below the moving bucket_top.
Taken(c, when, i, top) ==
  LET e == Head(c.buckets[i])
  IN  [c EXCEPT !.buckets[i] = Tail(@), !.total = @ - 1, !.last = i,
                !.prio = 2 * when[e], !.top = top]

Smallest(c, when) ==
  CHOOSE i \in Filled(c) :
    \A j \in Filled(c) : \/ when[Head(c.buckets[i])] < when[Head(c.buckets[j])]
                         \/ when[Head(c.buckets[i])] = when[Head(c.buckets[j])] /\ i <= j

\* dequeue(): the calendars it may leave, m_head being the event it took.
CalTake(c, when) ==
  LET due == {k \in 0 .. c.n - 1 : Due(c, when, k)}
      k == CHOOSE x \in due : \A y \in due : x <= y
      i == (c.last + k) % c.n
      s == Smallest(c, when)
      beyond == c.top + 2 * c.width * c.n
  IN  CASE due # {} ->
             LET e == Head(c.buckets[i])
             IN  {[d EXCEPT !.head = e] :
                    d \in Shrunk(Taken(c, when, i, c.top + 2 * c.width * k), when)}
        [] due = {} /\ Filled(c) # {} ->
             {[Taken(c, when, s, TopOf(c.width, 2 * when[Head(c.buckets[s])]))
                 EXCEPT !.head = Head(c.buckets[s])]}
        [] OTHER -> {[c EXCEPT !.head = Nil, !.top = beyond, !.prio = beyond]}

CalEnQueue(c, when, e) ==
  CASE c.head = Nil              -> {[c EXCEPT !.head = e]}
    [] c.head # Nil /\ when[c.head] > when[e] ->
         {[d EXCEPT !.head = e] : d \in Grown(CalInsert(c, when, c.head), when)}
    [] OTHER                     -> Grown(CalInsert(c, when, e), when)

CalDeQueue(c, when) == CalTake(c, when)

CalDelete(c, when, e) ==
  LET j == (when[e] \div c.width) % c.n
      found == e \in ToSet(c.buckets[j])
      d == [c EXCEPT !.buckets[j] = Remove(@, e), !.total = @ - 1]
  IN  CASE e = c.head                 -> CalTake(c, when)
        [] e # c.head /\ found        -> Shrunk(d, when)
        [] OTHER                      -> {c}

CalMembers(c) == (IF c.head = Nil THEN <<>> ELSE <<c.head>>)
                 \o FlattenSeq([k \in 1 .. c.n |-> c.buckets[k - 1]])
=============================================================================
