----------------------------- MODULE EventQueue -----------------------------
(***************************************************************************)
(* What the simulation engine of SENSE (common/cost.h) promises to the     *)
(* components: a timer that is set fires once, at its time, unless it is   *)
(* cancelled or set again first; timers fire in the order of their times;  *)
(* nothing fires at or after the stop time, but for one event: Run() does  *)
(* not look at the stop time for the event at which it clears the          *)
(* statistics.  Which of several timers with equal times fires first is    *)
(* left open.                                                              *)
(***************************************************************************)
EXTENDS Naturals

CONSTANTS Events,     \* the events, one per timer or per slot of a timer
          Stop,       \* stopTime
          ClearStats, \* clearStatsTime, or 0
          None        \* the time of an event that is not pending, no number

VARIABLES when,       \* the time each event is pending for, or None
          clock,      \* m_clock
          over        \* Run() has left its loop

vars == <<when, clock, over>>

Pending == {e \in Events : when[e] # None}

\* Run() starts at time 0 with whatever the components' Start() has set.
Init == /\ when \in [Events -> Nat \union {None}]
        /\ clock = 0
        /\ over = FALSE

\* A component sets a timer, pending or not, for now or later.
Set(e) == /\ ~over
          /\ when'[e] \in Nat
          /\ when'[e] >= clock
          /\ when' = [when EXCEPT ![e] = when'[e]]
          /\ UNCHANGED <<clock, over>>

Cancel(e) == /\ ~over
             /\ when' = [when EXCEPT ![e] = None]
             /\ UNCHANGED <<clock, over>>

\* The earliest event fires.
Fire(e) == /\ ~over
           /\ e \in Pending
           /\ \A f \in Pending : when[e] <= when[f]
           /\ when[e] < Stop \/ clock < ClearStats
           /\ clock' = when[e]
           /\ when' = [when EXCEPT ![e] = None]
           /\ UNCHANGED over

\* Nothing is left before the stop time.
Finish == /\ ~over
          /\ \A e \in Pending : when[e] >= Stop /\ clock >= ClearStats
          /\ over' = TRUE
          /\ clock' = Stop
          /\ UNCHANGED when

Next == \/ \E e \in Events : \/ Set(e)
                             \/ Cancel(e)
                             \/ Fire(e)
        \/ Finish

Spec == Init /\ [][Next]_vars

(***************************************************************************)
(* Nothing is pending in the past while the engine runs: the assertions    *)
(* `e->time >= m_clock' of ScheduleEvent and Run cannot fail.              *)
(***************************************************************************)
NothingOverdue == ~over => \A e \in Pending : when[e] >= clock
=============================================================================
