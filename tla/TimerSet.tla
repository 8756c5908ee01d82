------------------------------ MODULE TimerSet ------------------------------
(***************************************************************************)
(* What event.cpp expects of timeheap: a set of events with deadlines,     *)
(* from which it takes any event, or one whose deadline no other precedes. *)
(***************************************************************************)
EXTENDS Integers

CONSTANTS Event, NoEvent, Time

VARIABLES
  armed,      \* the events in the set
  deadline,   \* ev_timeout of every event
  ret         \* the event the last operation returns

vars == <<armed, deadline, ret>>

Init ==
  /\ armed = {}
  /\ deadline \in [Event -> Time]
  /\ ret = NoEvent

Insert(e, t) ==
  /\ e \notin armed
  /\ armed' = armed \cup {e}
  /\ deadline' = [deadline EXCEPT ![e] = t]
  /\ ret' = NoEvent

Earliest(e) == e \in armed /\ \A f \in armed : deadline[e] <= deadline[f]

RemoveEarliest(e) ==
  /\ Earliest(e)
  /\ armed' = armed \ {e}
  /\ ret' = e
  /\ UNCHANGED deadline

Remove(e) ==
  /\ e \in armed
  /\ armed' = armed \ {e}
  /\ ret' = NoEvent
  /\ UNCHANGED deadline

\* The clock went back by off.
Shift(off) ==
  /\ \A e \in armed : deadline[e] - off \in Time
  /\ deadline' = [e \in Event |-> IF e \in armed THEN deadline[e] - off
                                  ELSE deadline[e]]
  /\ UNCHANGED <<armed, ret>>

Next == \/ \E e \in Event : \/ \E t \in Time : Insert(e, t)
                            \/ RemoveEarliest(e) \/ Remove(e)
        \/ \E t, u \in Time : Shift(t - u)

Spec == Init /\ [][Next]_vars
=============================================================================
