------------------------------- MODULE MinHeap -------------------------------
(***************************************************************************)
(* include/minheap.cpp: the timer heap, an array of pointers to events     *)
(* that grows by realloc; every event knows its slot (min_heap_idx).       *)
(* min_heap_push, min_heap_pop and min_heap_erase end in one of two loops, *)
(* which run here one iteration a step, with the hole they move.           *)
(***************************************************************************)
EXTENDS Integers, FiniteSets

CONSTANTS
  Event,
  NoEvent,     \* the null struct event*
  Time,        \* the values of ev_timeout
  MinCap       \* the slots of the first allocation

ASSUME HeapAssumption ==
  /\ NoEvent \notin Event
  /\ Time \subseteq Int
  /\ MinCap \in Nat \ {0}

VARIABLES
  p,           \* the slots
  n,           \* the slots in use
  a,           \* the slots allocated
  idx,         \* min_heap_idx of every event, -1 outside the heap
  deadline,    \* ev_timeout of every event
  pc,          \* "down" and "up" are the two shift loops
  hole,        \* hole_index
  elem,        \* e, the event the loop finds a slot for
  out,         \* the event that leaves the heap
  ret          \* the event the last operation returns: min_heap_pop does

vars == <<p, n, a, idx, deadline, pc, hole, elem, out, ret>>

Slots == 0 .. n - 1

Init ==
  /\ p = [k \in {} |-> NoEvent]
  /\ n = 0
  /\ a = 0
  /\ idx = [e \in Event |-> -1]
  /\ deadline \in [Event -> Time]
  /\ pc = "idle"
  /\ hole = 0
  /\ elem = NoEvent
  /\ out = NoEvent
  /\ ret = NoEvent

Greater(e, f) == deadline[e] > deadline[f]
Parent(k) == (k - 1) \div 2

-----------------------------------------------------------------------------
(* min_heap_reserve.                                                       *)

Grown(size) ==
  IF a >= size THEN a
  ELSE LET twice == IF a # 0 THEN 2 * a ELSE MinCap
       IN  IF twice < size THEN size ELSE twice

\* realloc keeps the slots; a new one is never read before it is written.
Resized(size) ==
  [k \in 0 .. size - 1 |-> IF k < a THEN p[k] ELSE NoEvent]

Reserve ==
  /\ pc = "idle"
  /\ a' = Grown(n + 1)
  /\ p' = Resized(a')
  /\ UNCHANGED <<n, idx, deadline, pc, hole, elem, out, ret>>

-----------------------------------------------------------------------------
(* The operations, up to the loop they end in.                             *)

\* event_queue_insert, for an event that event_add has given a timeout.
Push(e, t) ==
  /\ pc = "idle"
  /\ idx[e] = -1
  /\ a' = Grown(n + 1)
  /\ p' = Resized(a')
  /\ n' = n + 1
  /\ deadline' = [deadline EXCEPT ![e] = t]
  /\ pc' = "up"
  /\ hole' = n
  /\ elem' = e
  /\ ret' = NoEvent
  /\ UNCHANGED <<idx, out>>

\* Fault: the event that min_heap_pop returns stays the top.
PopMovesLast ==
  /\ pc = "idle"
  /\ n # 0
  /\ n' = n - 1
  /\ pc' = "down"
  /\ hole' = n - 1
  /\ elem' = p[n - 1]
  /\ out' = p[n - 1]
  /\ ret' = p[0]
  /\ UNCHANGED <<p, a, idx, deadline>>

Pop ==
  /\ pc = "idle"
  /\ n # 0
  /\ n' = n - 1
  /\ pc' = "down"
  /\ hole' = 0
  /\ elem' = p[n - 1]
  /\ out' = p[0]
  /\ ret' = p[0]
  /\ UNCHANGED <<p, a, idx, deadline>>

Erase(e) ==
  LET last == p[n - 1]
      k == idx[e]
  IN  /\ pc = "idle"
      /\ idx[e] # -1
      /\ n' = n - 1
      /\ pc' = IF k > 0 /\ Greater(p[Parent(k)], last) THEN "up" ELSE "down"
      /\ hole' = k
      /\ elem' = last
      /\ out' = e
      /\ ret' = NoEvent
      /\ UNCHANGED <<p, a, idx, deadline>>

\* timeout_correct: the clock went back, every deadline in the heap follows.
TimeoutCorrect(off) ==
  /\ pc = "idle"
  /\ \A k \in Slots : deadline[p[k]] - off \in Time
  /\ deadline' = [e \in Event |-> IF \E k \in Slots : p[k] = e
                                  THEN deadline[e] - off ELSE deadline[e]]
  /\ UNCHANGED <<p, n, a, idx, pc, hole, elem, out, ret>>

-----------------------------------------------------------------------------
(* min_heap_shift_down_.                                                   *)

\* The child of the hole that the loop compares; it has one at least.
SmallerChild ==
  LET right == 2 * (hole + 1)
  IN  IF right = n \/ Greater(p[right], p[right - 1]) THEN right - 1 ELSE right

\* Fault: one child stops the loop.
DownMovesWithBoth == 2 * (hole + 1) < n /\ Greater(elem, p[SmallerChild])

DownMoves == 2 * (hole + 1) <= n /\ Greater(elem, p[SmallerChild])

\* An event moves from slot k to the hole, which moves to k.
MoveHole(k) ==
  /\ p' = [p EXCEPT ![hole] = p[k]]
  /\ idx' = [idx EXCEPT ![p[k]] = hole]
  /\ hole' = k
  /\ UNCHANGED <<n, a, deadline, pc, elem, out, ret>>

ShiftDown ==
  /\ pc = "down"
  /\ DownMoves
  /\ MoveHole(SmallerChild)

ShiftDownEnds ==
  /\ pc = "down"
  /\ ~DownMoves
  /\ pc' = "up"
  /\ UNCHANGED <<p, n, a, idx, deadline, hole, elem, out, ret>>

-----------------------------------------------------------------------------
(* min_heap_shift_up_.                                                     *)

UpMoves == hole # 0 /\ Greater(p[Parent(hole)], elem)

ShiftUp ==
  /\ pc = "up"
  /\ UpMoves
  /\ MoveHole(Parent(hole))

\* The operation that called ends too: min_heap_idx of the event that leaves
\* is reset last.
ShiftUpEnds ==
  /\ pc = "up"
  /\ ~UpMoves
  /\ p' = [p EXCEPT ![hole] = elem]
  /\ idx' = [e \in Event |-> IF e = out THEN -1
                             ELSE IF e = elem THEN hole ELSE idx[e]]
  /\ pc' = "idle"
  /\ elem' = NoEvent
  /\ out' = NoEvent
  /\ hole' = 0
  /\ UNCHANGED <<n, a, deadline, ret>>

-----------------------------------------------------------------------------
Next ==
  \/ Reserve
  \/ \E e \in Event : (\E t \in Time : Push(e, t)) \/ Erase(e)
  \/ Pop
  \/ \E t, u \in Time : TimeoutCorrect(t - u)
  \/ ShiftDown \/ ShiftDownEnds \/ ShiftUp \/ ShiftUpEnds

Spec == Init /\ [][Next]_vars

-----------------------------------------------------------------------------
\* The fields of the heap and of the events, and the loop's variables.
TypeOK ==
  /\ n \in Nat
  /\ a \in Nat
  /\ p \in [0 .. a - 1 -> Event \cup {NoEvent}]
  /\ idx \in [Event -> Nat \cup {-1}]
  /\ deadline \in [Event -> Time]
  /\ pc \in {"idle", "down", "up"}
  /\ hole \in Nat
  /\ elem \in Event \cup {NoEvent}
  /\ out \in Event \cup {NoEvent}
  /\ ret \in Event \cup {NoEvent}

\* The slots in use and the hole lie in the allocated array.
InBounds ==
  /\ n <= a
  /\ pc # "idle" => hole < a

\* Between two operations every event knows its slot and every slot in use
\* its event.
IndexAgrees ==
  pc = "idle" =>
    /\ \A k \in Slots : idx[p[k]] = k
    /\ \A e \in Event : idx[e] # -1 => idx[e] \in Slots /\ p[idx[e]] = e

\* Between two operations min_heap_top is an event with the earliest deadline.
TopIsEarliest ==
  pc = "idle" => \A k \in Slots : deadline[p[0]] <= deadline[p[k]]

Heap == INSTANCE TimerSet WITH
          armed <- ({e \in Event : idx[e] # -1} \cup {elem}) \ {out, NoEvent}

\* The array with its loops is a set of timers: a pop removes an earliest one.
ImplementsTimerSet == Heap!Spec

-----------------------------------------------------------------------------
(* The inductive invariant: what holds in the middle of the loops.         *)

\* The slots in use whose event is in place.
Filled == IF pc = "idle" THEN Slots ELSE Slots \ {hole}

Placed ==
  /\ \A k \in Filled : p[k] \in Event /\ idx[p[k]] = k
  /\ \A k \in Filled : p[k] \notin {elem, out}
  /\ \A e \in Event \ {elem, out} : idx[e] # -1 => idx[e] \in Filled /\ p[idx[e]] = e

Ordered ==
  \A k \in Filled : k > 0 /\ Parent(k) \in Filled =>
                    deadline[p[Parent(k)]] <= deadline[p[k]]

\* The hole is one that elem may fill: the slots below it are not earlier than
\* the one above it, nor than elem once the way down is over.  A hole after the
\* last slot in use is where the event that leaves already is.
HoleFits ==
  /\ pc = "idle" => elem = NoEvent /\ out = NoEvent
  /\ pc # "idle" =>
       /\ elem \in Event
       /\ out # elem => hole < n
       /\ out = elem => hole = n
       /\ pc = "down" => out \in Event
       /\ (pc = "down" \/ out = elem) /\ hole > 0 =>
             deadline[p[Parent(hole)]] <= deadline[elem]
       /\ \A k \in Filled : k > 0 /\ Parent(k) = hole =>
             /\ hole > 0 => deadline[p[Parent(hole)]] <= deadline[p[k]]
             /\ pc = "up" => deadline[elem] <= deadline[p[k]]

HeapInv == TypeOK /\ InBounds /\ Placed /\ Ordered /\ HoleFits
=============================================================================
