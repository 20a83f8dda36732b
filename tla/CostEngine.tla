----------------------------- MODULE CostEngine -----------------------------
(***************************************************************************)
(* The simulation engine of SENSE (common/cost.h): CostSimEng::Run over    *)
(* one of the three event queues, and the timers through which components  *)
(* use it: Timer (one event), MultiTimer (one event per index, made when   *)
(* first used) and InfiTimer (slots that are taken, released and reused).  *)
(*                                                                         *)
(* A component's code runs in Start() or in the handler of the event that  *)
(* fired, and sets and cancels timers there, as often as it likes.  It     *)
(* follows two rules: no time in the past, and no InfiTimer slot is        *)
(* cancelled that is not set (cost.h asserts both).                        *)
(*                                                                         *)
(* `when' stands for an event's active flag and its time.                  *)
(***************************************************************************)
EXTENDS CostQueues

CONSTANTS Plain,        \* events of Timer components
          MaxMulti,     \* bound on the indices of a MultiTimer
          MaxSlots,     \* bound on the slots of an InfiTimer
          Delays,       \* how far ahead components set timers, in ticks
          Stop,         \* stopTime
          ClearStats,   \* clearStatsTime, 0 when not used
          MaxTop,       \* bound on bucket_top, which grows with every
                        \* search of an empty calendar
          None          \* the time of an event that is not active

Multi(i) == <<"multi", i>>
Slot(i)  == <<"slot", i>>

AllEvents == Plain \union {Multi(i) : i \in 0 .. MaxMulti - 1}
                   \union {Slot(i) : i \in 0 .. MaxSlots - 1}

ASSUME EventsAssumption == Events = AllEvents
ASSUME StopAssumption == ClearStats = 0 \/ ClearStats < Stop

VARIABLES kind,      \* which queue queue_t is: "simple", "heap", "calendar"
          queue,     \* m_queue
          when,      \* time of each event, None when it is not active
          clock,     \* m_clock
          nextTime,  \* where Run() looks up: clearStatsTime, then stopTime
          multi,     \* m_events.size() of the MultiTimer
          slots,     \* m_events.size() of the InfiTimer
          free,      \* m_free_slots, the last one on top
          mode       \* "running" a component, "idle" between events, "over"

vars == <<kind, queue, when, clock, nextTime, multi, slots, free, mode>>

Active(e) == when[e] # None

(***************************************************************************)
(* m_queue, whichever it is: the outcomes of its three operations.         *)
(***************************************************************************)
EnQueued(q, w, e) ==
  CASE kind = "simple"   -> {SimpleEnQueue(q, w, e)}
    [] kind = "heap"     -> {HeapEnQueue(q, w, e)}
    [] kind = "calendar" -> CalEnQueue(q, w, e)

Deleted(q, w, e) ==
  CASE kind = "simple"   -> {SimpleDelete(q, e)}
    [] kind = "heap"     -> {HeapDelete(q, w, e)}
    [] kind = "calendar" -> CalDelete(q, w, e)

DeQueued(q, w) ==
  CASE kind = "simple"   -> {SimpleDeQueue(q)}
    [] kind = "heap"     -> {HeapDeQueue(q, w)}
    [] kind = "calendar" -> CalDeQueue(q, w)

NextEvent(q) == CASE kind = "heap" -> IF q.num = 0 THEN Nil ELSE q.elems[0]
              [] OTHER         -> q.head

Members == CASE kind = "simple"   -> SimpleMembers(queue)
             [] kind = "heap"     -> HeapMembers(queue)
             [] kind = "calendar" -> CalMembers(queue)

Init == /\ kind \in {"simple", "heap", "calendar"}
        /\ queue \in CASE kind = "simple"   -> {SimpleEmpty}
                       [] kind = "heap"     -> {HeapEmpty}
                       [] kind = "calendar" -> CalendarsEmpty
        /\ when = [e \in AllEvents |-> None]
        /\ clock = 0
        /\ nextTime = IF ClearStats # 0 THEN ClearStats ELSE Stop
        /\ multi = 1
        /\ slots = 1
        /\ free = <<0>>
        /\ mode = "running"

(***************************************************************************)
(* Set of any timer: an active event leaves the queue, with its old time,  *)
(* and is scheduled again.                                                 *)
(***************************************************************************)
Scheduled(e, t) ==
  /\ when' = [when EXCEPT ![e] = t]
  /\ \E q \in (IF Active(e) THEN Deleted(queue, when, e) ELSE {queue}) :
       queue' \in EnQueued(q, when', e)

\* Mutant: the flag is cleared, the event stays in the queue.
CancelledFlagOnly(e) ==
  /\ when' = [when EXCEPT ![e] = None]
  /\ UNCHANGED queue

Cancelled(e) ==
  /\ when' = [when EXCEPT ![e] = None]
  /\ IF Active(e) THEN queue' \in Deleted(queue, when, e) ELSE UNCHANGED queue

SetTimer(e) ==
  /\ mode = "running"
  /\ \E d \in Delays : Scheduled(e, clock + d)
  /\ UNCHANGED <<kind, clock, nextTime, multi, slots, free, mode>>

CancelTimer(e) ==
  /\ mode = "running"
  /\ Cancelled(e)
  /\ UNCHANGED <<kind, clock, nextTime, multi, slots, free, mode>>

\* GetEvent of a MultiTimer makes the events up to the index asked for.
MultiSize(i) == IF i >= multi THEN i + 1 ELSE multi

SetMulti(i) ==
  /\ mode = "running"
  /\ multi' = MultiSize(i)
  /\ \E d \in Delays : Scheduled(Multi(i), clock + d)
  /\ UNCHANGED <<kind, clock, nextTime, slots, free, mode>>

CancelMulti(i) ==
  /\ mode = "running"
  /\ multi' = MultiSize(i)
  /\ Cancelled(Multi(i))
  /\ UNCHANGED <<kind, clock, nextTime, slots, free, mode>>

\* GetSlot: with no slot free the table doubles and the last new one is taken.
GrownSlots == IF free = <<>> THEN 2 * slots ELSE slots
SlotStack  == IF free = <<>> THEN [k \in 1 .. slots |-> slots + k - 1] ELSE free

SetSlot ==
  LET i == Last(SlotStack)
  IN  /\ mode = "running"
      /\ GrownSlots <= MaxSlots
      /\ slots' = GrownSlots
      /\ free' = SubSeq(SlotStack, 1, Len(SlotStack) - 1)
      /\ \E d \in Delays : Scheduled(Slot(i), clock + d)
      /\ UNCHANGED <<kind, clock, nextTime, multi, mode>>

\* Mutant: the slot of a cancelled event is not released.
CancelSlotKept(i) ==
  /\ mode = "running"
  /\ Active(Slot(i))
  /\ Cancelled(Slot(i))
  /\ UNCHANGED <<kind, clock, nextTime, multi, slots, free, mode>>

CancelSlot(i) ==
  /\ mode = "running"
  /\ Active(Slot(i))
  /\ Cancelled(Slot(i))
  /\ free' = Append(free, i)
  /\ UNCHANGED <<kind, clock, nextTime, multi, slots, mode>>

\* Start() or the handler returns to Run().
Return == /\ mode = "running"
          /\ mode' = "idle"
          /\ UNCHANGED <<kind, queue, when, clock, nextTime, multi, slots, free>>

\* The loop of Run(): ClearStats() at its time, then the event's handler.  An
\* InfiTimer's slot is released before its handler is called.
Activate ==
  LET e == NextEvent(queue)
  IN  /\ mode = "idle"
      /\ e # Nil
      /\ when[e] < nextTime \/ nextTime # Stop
      /\ nextTime' = IF when[e] >= nextTime THEN Stop ELSE nextTime
      /\ queue' \in DeQueued(queue, when)
      /\ clock' = when[e]
      /\ when' = [when EXCEPT ![e] = None]
      /\ free' = IF \E i \in 0 .. MaxSlots - 1 : e = Slot(i)
                 THEN Append(free, e[2]) ELSE free
      /\ mode' = "running"
      /\ UNCHANGED <<kind, multi, slots>>

\* No event is left, or none before the stop time.
Finish ==
  LET e == NextEvent(queue)
  IN  /\ mode = "idle"
      /\ e # Nil => when[e] >= nextTime /\ nextTime = Stop
      /\ queue' \in DeQueued(queue, when)
      /\ clock' = Stop
      /\ mode' = "over"
      /\ UNCHANGED <<kind, when, nextTime, multi, slots, free>>

CalendarBound == kind = "calendar" => queue'.top <= MaxTop

Step == \/ \E e \in Plain : SetTimer(e) \/ CancelTimer(e)
        \/ \E i \in 0 .. MaxMulti - 1 : SetMulti(i) \/ CancelMulti(i)
        \/ SetSlot
        \/ \E i \in 0 .. MaxSlots - 1 : CancelSlot(i)
        \/ Return
        \/ Activate
        \/ Finish

Next == Step /\ CalendarBound

Spec == Init /\ [][Next]_vars

\* The links of the list point both ways, and every element of the heap knows
\* its place: what Delete relies on to find an event at once.
LinksAgree ==
  CASE kind = "simple" -> \A e \in AllEvents : queue.next[e] # Nil => queue.prev[queue.next[e]] = e
    [] kind = "heap"   -> \A i \in 0 .. queue.num - 1 : queue.pos[queue.elems[i]] = i
    [] OTHER           -> queue.total = Cardinality(ToSet(Members) \ {queue.head})

(***************************************************************************)
(* The queue holds exactly the active events, each once: no timer is lost  *)
(* by a collision of times, a resize or a cancellation, and none can fire  *)
(* twice (EnQueue, Delete and DeQueue of all three queues).                *)
(***************************************************************************)
ActiveIsQueued ==
  mode # "over" => /\ ToSet(Members) = {e \in AllEvents : Active(e)}
                   /\ IsInjective(Members)
                   /\ LinksAgree

(***************************************************************************)
(* Every slot of an InfiTimer is either set or free, and free only once:   *)
(* two users never get the same slot (GetSlot, ReleaseSlot).               *)
(***************************************************************************)
SlotsAccounted ==
  /\ IsInjective(free)
  /\ ToSet(free) = {i \in 0 .. slots - 1 : ~Active(Slot(i))}

(***************************************************************************)
(* Whichever queue it is compiled with, the engine does what EventQueue    *)
(* promises: the earliest event fires next, at its time, once.             *)
(***************************************************************************)
Queue == INSTANCE EventQueue WITH Events <- AllEvents, over <- mode = "over"
QueueSpec == Queue!Spec
=============================================================================
