---------------------------- MODULE MinHeapProofs ----------------------------
(***************************************************************************)
(* HeapInv is inductive for any number of events and any deadlines, and it *)
(* makes the array with its two loops implement TimerSet.                  *)
(***************************************************************************)
EXTENDS MinHeap, NaturalsInduction, WellFoundedInduction, TLAPS

\* The slots of a binary tree in an array: Parent inverts both children.
LEMMA ParentFacts ==
  ASSUME NEW k \in Nat, k > 0
  PROVE  /\ Parent(k) \in Nat
         /\ Parent(k) < k
         /\ k = 2 * Parent(k) + 1 \/ k = 2 * Parent(k) + 2
  BY SMT DEF Parent

LEMMA ChildFacts ==
  ASSUME NEW h \in Nat, NEW k \in Nat, k = 2 * h + 1 \/ k = 2 * h + 2
  PROVE  Parent(k) = h
  BY SMT DEF Parent

LEMMA DeadlinesAreInts ==
  ASSUME HeapInv
  PROVE  /\ \A e \in Event : deadline[e] \in Int
         /\ \A k \in Filled : p[k] \in Event /\ deadline[p[k]] \in Int
  <1>1. \A e \in Event : deadline[e] \in Time
    BY DEF HeapInv, TypeOK
  <1>2. \A e \in Event : deadline[e] \in Int
    BY <1>1, HeapAssumption
  <1>3. \A k \in Filled : p[k] \in Event
    BY DEF HeapInv, Placed
  <1> QED
    BY <1>2, <1>3

LEMMA InitHolds == Init => HeapInv
  <1> SUFFICES ASSUME Init PROVE HeapInv
      OBVIOUS
  <1>1. TypeOK
    BY DEF Init, TypeOK
  <1>2. InBounds /\ Placed /\ Ordered /\ HoleFits
    BY HeapAssumption, SMT DEF Init, InBounds, Placed, Ordered, HoleFits, Filled, Slots
  <1> QED
    BY <1>1, <1>2 DEF HeapInv

-----------------------------------------------------------------------------
(* The operations.                                                         *)

LEMMA GrownFacts ==
  ASSUME a \in Nat, NEW size \in Nat
  PROVE  Grown(size) \in Nat /\ Grown(size) >= size /\ Grown(size) >= a
  BY HeapAssumption, SMT DEF Grown

\* realloc keeps the slots in use.
LEMMA ResizedFacts ==
  ASSUME TypeOK, InBounds, NEW size \in Nat, size >= a
  PROVE  /\ Resized(size) \in [0 .. size - 1 -> Event \cup {NoEvent}]
         /\ \A k \in Slots : Resized(size)[k] = p[k]
  BY SMT DEF Resized, TypeOK, InBounds, Slots

LEMMA ReserveKeeps == HeapInv /\ Reserve => HeapInv'
  <1> SUFFICES ASSUME HeapInv, Reserve PROVE HeapInv'
      OBVIOUS
  <1> USE DEF HeapInv
  <1>1. a' \in Nat /\ a' >= n + 1 /\ a' >= a
    BY GrownFacts DEF Reserve, TypeOK
  <1>2. p' \in [0 .. a' - 1 -> Event \cup {NoEvent}] /\ \A k \in Slots : p'[k] = p[k]
    BY <1>1, ResizedFacts DEF Reserve
  <1>3. TypeOK' /\ InBounds'
    BY <1>1, <1>2 DEF Reserve, TypeOK, InBounds
  <1>4. Filled' = Slots /\ Filled = Slots /\ elem = NoEvent /\ out = NoEvent
    BY DEF Reserve, Filled, Slots, HoleFits
  <1>5. Placed'
    BY <1>2, <1>4, SMT DEF Reserve, Placed
  <1>6. Ordered' /\ HoleFits'
    BY <1>2, <1>4, SMT DEF Reserve, Ordered, HoleFits, Parent
  <1> QED
    BY <1>3, <1>5, <1>6

LEMMA PushKeeps ==
  ASSUME NEW e \in Event, NEW t \in Time, HeapInv, Push(e, t)
  PROVE  HeapInv'
  <1> USE DEF HeapInv
  <1>1. a' \in Nat /\ a' >= n + 1 /\ a' >= a
    BY GrownFacts DEF Push, TypeOK
  <1>2. p' \in [0 .. a' - 1 -> Event \cup {NoEvent}] /\ \A k \in Slots : p'[k] = p[k]
    BY <1>1, ResizedFacts DEF Push
  <1>3. TypeOK' /\ InBounds'
    BY <1>1, <1>2 DEF Push, TypeOK, InBounds
  <1>4. Filled' = Slots /\ Filled = Slots /\ elem = NoEvent /\ out = NoEvent
    BY SMT DEF Push, Filled, Slots, HoleFits, TypeOK
  <1>5. \A k \in Slots : p[k] \in Event /\ p[k] # e /\ deadline'[p[k]] = deadline[p[k]]
    BY <1>4, SMT DEF Push, Placed, TypeOK, Slots
  <1>6. Placed'
    BY <1>2, <1>4, <1>5, HeapAssumption, SMT DEF Push, Placed
  <1>7. Ordered'
    BY <1>2, <1>4, <1>5, SMT DEF Push, Ordered, Parent
  <1>8. \A k \in Slots : k > 0 => Parent(k) # n
    BY ParentFacts, SMT DEF Slots, TypeOK
  <1>9. HoleFits'
    BY <1>2, <1>4, <1>8, HeapAssumption, SMT DEF Push, HoleFits, TypeOK, Parent
  <1> QED
    BY <1>3, <1>6, <1>7, <1>9

\* min_heap_pop and min_heap_erase take the event of slot k out and move the
\* last event towards the hole.
LEMMA RemovalKeeps ==
  ASSUME HeapInv, pc = "idle", NEW k \in Slots,
         n' = n - 1, hole' = k, elem' = p[n - 1], out' = p[k],
         ret' \in Event \cup {NoEvent},
         UNCHANGED <<p, a, idx, deadline>>,
         \/ pc' = "down" /\ (k > 0 => deadline[p[Parent(k)]] <= deadline[p[n - 1]])
         \/ pc' = "up" /\ k > 0 /\ deadline[p[Parent(k)]] > deadline[p[n - 1]]
  PROVE  HeapInv'
  <1> USE DEF HeapInv
  <1> DEFINE last == p[n - 1]
  <1>1. /\ n \in Nat /\ k \in Nat /\ k < n /\ n - 1 \in Slots /\ n - 1 \in Nat
        /\ Filled = Slots /\ Slots' = 0 .. n - 2
        /\ Filled' = Slots' \ {k} /\ Filled' \subseteq Slots
    BY SMT DEF TypeOK, Slots, Filled
  <1>2. last \in Event /\ p[k] \in Event /\ idx[last] = n - 1 /\ idx[p[k]] = k
    BY <1>1 DEF Placed
  <1>3. \A j \in Slots : p[j] \in Event /\ deadline[p[j]] \in Int
    BY <1>1, DeadlinesAreInts
  <1>4. out' = elem' <=> k = n - 1
    BY <1>2
  <1>5. TypeOK' /\ InBounds'
    BY <1>1, <1>2, SMT DEF TypeOK, InBounds
  <1>6. Placed'
    <2>1. \A j \in Filled' : p[j] \in Event /\ idx[p[j]] = j /\ j # k /\ j # n - 1
      BY <1>1, SMT DEF Placed
    <2>2. \A j \in Filled' : p[j] # last /\ p[j] # p[k]
      BY <2>1, <1>2
    <2>3. ASSUME NEW e \in Event, e # last, e # p[k], idx[e] # -1
          PROVE  idx[e] \in Filled' /\ p[idx[e]] = e
      <3>1. idx[e] \in Slots /\ p[idx[e]] = e
        BY <2>3, <1>1, HeapAssumption, SMT DEF Placed, HoleFits
      <3>2. idx[e] # n - 1 /\ idx[e] # k
        BY <2>3, <3>1
      <3> QED
        BY <1>1, <3>1, <3>2, SMT DEF Slots
    <2> QED
      BY <2>1, <2>2, <2>3 DEF Placed
  <1>7. Ordered'
    BY <1>1, <1>3, SMT DEF Ordered, Parent
  <1> DEFINE above == deadline[p[Parent(k)]]
  <1>8. k > 0 => Parent(k) \in Slots /\ above <= deadline[p[k]] /\ above \in Int
    BY <1>1, <1>3, ParentFacts, SMT DEF Ordered, Slots
  <1>9. ASSUME NEW c \in Filled', c > 0, Parent(c) = k
        PROVE  deadline[p[k]] <= deadline[p[c]] /\ deadline[p[c]] \in Int
    BY <1>1, <1>3, <1>9, SMT DEF Ordered
  <1>13. deadline[last] \in Int /\ deadline[p[k]] \in Int
    BY <1>1, <1>3
  <1>14. \/ pc' = "down" /\ (k > 0 => above <= deadline[last])
         \/ pc' = "up" /\ k > 0 /\ above > deadline[last]
    OBVIOUS
  <1> HIDE DEF above
  <1>10. k = n - 1 /\ k > 0 => above <= deadline[last] /\ pc' = "down"
    BY <1>8, <1>13, <1>14, SMT
  <1>11. ASSUME NEW c \in Filled', c > 0, Parent(c) = k
         PROVE  /\ k > 0 => above <= deadline[p[c]]
                /\ pc' = "up" => deadline[last] <= deadline[p[c]]
    <2>1. deadline[p[k]] <= deadline[p[c]] /\ deadline[p[c]] \in Int
      BY <1>9, <1>11
    <2> QED
      BY <2>1, <1>8, <1>13, <1>14, SMT
  <1>12. HoleFits'
    <2>1. elem' \in Event /\ out' \in Event /\ pc' # "idle" /\ hole' = k
      BY <1>2
    <2>2. (out' # elem' => hole' < n') /\ (out' = elem' => hole' = n')
      BY <1>4, <1>1, SMT
    <2>3. (pc' = "down" \/ out' = elem') /\ k > 0 => above <= deadline[last]
      BY <1>4, <1>10, <1>14
    <2> QED
      BY <2>1, <2>2, <2>3, <1>11 DEF HoleFits, Parent, above
  <1> QED
    BY <1>5, <1>6, <1>7, <1>12

LEMMA PopKeeps == HeapInv /\ Pop => HeapInv'
  <1> SUFFICES ASSUME HeapInv, Pop PROVE HeapInv'
      OBVIOUS
  <1>1. 0 \in Slots /\ p[0] \in Event
    BY SMT DEF HeapInv, TypeOK, Slots, Pop, Placed, Filled
  <1> QED
    BY <1>1, RemovalKeeps, SMT DEF Pop

LEMMA EraseKeeps ==
  ASSUME NEW e \in Event, HeapInv, Erase(e)
  PROVE  HeapInv'
  <1>1. idx[e] \in Slots /\ p[idx[e]] = e
    BY HeapAssumption DEF HeapInv, Erase, Placed, HoleFits, Filled
  <1>2. ret' \in Event \cup {NoEvent}
    BY DEF Erase
  <1>3. \A j \in Slots : deadline[p[j]] \in Int
    BY DeadlinesAreInts DEF Filled, Erase
  <1>4. idx[e] > 0 => Parent(idx[e]) \in Slots
    BY <1>1, ParentFacts, SMT DEF Slots, HeapInv, TypeOK
  <1>5. n - 1 \in Slots
    BY <1>1, SMT DEF Slots, HeapInv, TypeOK
  <1>6. \/ pc' = "down" /\ (idx[e] > 0 => deadline[p[Parent(idx[e])]] <= deadline[p[n - 1]])
        \/ pc' = "up" /\ idx[e] > 0 /\ deadline[p[Parent(idx[e])]] > deadline[p[n - 1]]
    BY <1>3, <1>4, <1>5, SMT DEF Erase, Greater
  <1> QED
    BY <1>1, <1>2, <1>6, RemovalKeeps DEF Erase

LEMMA CorrectKeeps ==
  ASSUME NEW off \in Int, HeapInv, TimeoutCorrect(off)
  PROVE  HeapInv'
  <1> USE DEF HeapInv
  <1>1. /\ Filled = Slots /\ Filled' = Slots /\ Slots' = Slots
        /\ \A k \in Slots : p[k] \in Event /\ deadline[p[k]] \in Int
    BY DeadlinesAreInts DEF TimeoutCorrect, Filled, Slots
  <1>2. \A k \in Slots : deadline'[p[k]] = deadline[p[k]] - off
    BY <1>1 DEF TimeoutCorrect
  <1>3. deadline' \in [Event -> Time]
    BY SMT DEF TimeoutCorrect, TypeOK
  <1>4. TypeOK' /\ InBounds' /\ Placed'
    BY <1>1, <1>3 DEF TimeoutCorrect, TypeOK, InBounds, Placed
  <1>5. Ordered'
    BY <1>1, <1>2, SMT DEF Ordered, TimeoutCorrect, Parent
  <1>6. HoleFits'
    BY DEF TimeoutCorrect, HoleFits
  <1> QED
    BY <1>4, <1>5, <1>6

-----------------------------------------------------------------------------
(* The loops.                                                              *)

\* What one iteration of either loop does to the slots.
LEMMA MoveHoleFacts ==
  ASSUME HeapInv, pc \in {"down", "up"}, hole \in Slots, NEW m \in Filled,
         MoveHole(m)
  PROVE  /\ TypeOK' /\ InBounds' /\ Placed'
         /\ Filled' = Slots \ {m} /\ Filled = Slots \ {hole} /\ m # hole
         /\ p'[hole] = p[m]
         /\ \A k \in Filled' : k # hole => k \in Filled /\ p'[k] = p[k]
  <1> USE DEF HeapInv
  <1>1. /\ n \in Nat /\ a \in Nat /\ n <= a /\ hole \in 0 .. a - 1 /\ m \in 0 .. a - 1 /\ m \in Nat
        /\ Filled' = Slots \ {m} /\ Filled = Slots \ {hole} /\ m \in Slots /\ m # hole
    BY SMT DEF TypeOK, InBounds, Slots, Filled, MoveHole
  <1>2. p[m] \in Event /\ idx[p[m]] = m /\ p[m] # elem /\ p[m] # out
    BY DEF Placed
  <1>3. p'[hole] = p[m] /\ \A k \in 0 .. a - 1 : k # hole => p'[k] = p[k]
    BY <1>1, SMT DEF MoveHole, TypeOK
  <1>4. idx'[p[m]] = hole /\ \A e \in Event : e # p[m] => idx'[e] = idx[e]
    BY <1>2, SMT DEF MoveHole, TypeOK
  <1>5. \A k \in Filled' : k # hole => k \in Filled /\ k \in 0 .. a - 1 /\ p'[k] = p[k]
    BY <1>1, <1>3, SMT DEF Slots
  <1>6. TypeOK' /\ InBounds'
    BY <1>1, <1>2, SMT DEF TypeOK, InBounds, MoveHole
  <1>7. \A k \in Filled' : p'[k] \in Event /\ idx'[p'[k]] = k /\ p'[k] \notin {elem, out}
    <2> SUFFICES ASSUME NEW k \in Filled'
                 PROVE  p'[k] \in Event /\ idx'[p'[k]] = k /\ p'[k] \notin {elem, out}
        OBVIOUS
    <2>1. CASE k = hole
      BY <2>1, <1>2, <1>3, <1>4
    <2>2. CASE k # hole
      <3>1. p[k] \in Event /\ idx[p[k]] = k /\ p[k] \notin {elem, out} /\ k # m
        BY <2>2, <1>5, <1>1 DEF Placed
      <3> QED
        BY <3>1, <2>2, <1>5, <1>4, <1>2
    <2> QED
      BY <2>1, <2>2
  <1>8. ASSUME NEW e \in Event \ {elem, out}, idx'[e] # -1
        PROVE  idx'[e] \in Filled' /\ p'[idx'[e]] = e
    <2>1. CASE e = p[m]
      BY <2>1, <1>1, <1>3, <1>4
    <2>2. CASE e # p[m]
      <3>1. idx'[e] = idx[e] /\ idx[e] \in Filled /\ p[idx[e]] = e
        BY <2>2, <1>8, <1>4 DEF Placed
      <3>2. idx[e] # m
        BY <3>1, <2>2
      <3> QED
        BY <3>1, <3>2, <1>1, <1>5
    <2> QED
      BY <2>1, <2>2
  <1>9. Placed'
    BY <1>7, <1>8 DEF Placed, MoveHole
  <1> QED
    BY <1>1, <1>3, <1>5, <1>6, <1>9

\* The child that may move up is the earlier of the children in use.
LEMMA SmallerChildFacts ==
  ASSUME HeapInv, pc = "down", 2 * (hole + 1) <= n
  PROVE  /\ SmallerChild \in Filled /\ SmallerChild > 0 /\ Parent(SmallerChild) = hole
         /\ hole \in Slots
         /\ \A c \in Filled : c > 0 /\ Parent(c) = hole =>
                             deadline[p[SmallerChild]] <= deadline[p[c]]
  <1> DEFINE right == 2 * (hole + 1)
  <1> USE DEF HeapInv
  <1>1. n \in Nat /\ hole \in Nat /\ Filled = Slots \ {hole} /\ hole \in Slots
    BY SMT DEF TypeOK, Filled, Slots
  <1>2. right - 1 \in Filled /\ (right # n => right \in Filled)
    BY <1>1, SMT DEF Slots
  <1>3. Parent(right - 1) = hole /\ Parent(right) = hole
    BY <1>1, ChildFacts, SMT
  <1>4. SmallerChild = right - 1 \/ (SmallerChild = right /\ right # n)
    BY DEF SmallerChild
  <1>5. ASSUME NEW c \in Filled, c > 0, Parent(c) = hole
        PROVE  c = right - 1 \/ (c = right /\ right # n)
    <2>1. c \in Nat /\ c < n
      BY <1>1, SMT DEF Slots
    <2>2. c = 2 * hole + 1 \/ c = 2 * hole + 2
      BY <2>1, <1>5, ParentFacts
    <2> QED
      BY <2>1, <2>2, <1>1, SMT
  <1>6. \A k \in Filled : deadline[p[k]] \in Int
    BY DeadlinesAreInts
  <1>7. /\ right # n /\ SmallerChild = right - 1 => deadline[p[right]] > deadline[p[right - 1]]
        /\ right # n /\ SmallerChild = right => ~(deadline[p[right]] > deadline[p[right - 1]])
    BY <1>1, SMT DEF SmallerChild, Greater
  <1>8. ASSUME NEW c \in Filled, c > 0, Parent(c) = hole
        PROVE  deadline[p[SmallerChild]] <= deadline[p[c]]
    <2>1. CASE c = SmallerChild
      BY <2>1, <1>6, <1>8, SMT
    <2>2. CASE c # SmallerChild
      <3>1. right # n /\ deadline[p[right]] \in Int /\ deadline[p[right - 1]] \in Int
        BY <2>2, <1>2, <1>4, <1>5, <1>6, <1>8
      <3> QED
        BY <3>1, <2>2, <1>4, <1>5, <1>7, <1>8, SMT
    <2> QED
      BY <2>1, <2>2
  <1>9. right - 1 > 0 /\ right > 0
    BY <1>1, SMT
  <1> QED
    BY <1>1, <1>2, <1>3, <1>4, <1>8, <1>9

LEMMA ShiftDownEndsKeeps == HeapInv /\ ShiftDownEnds => HeapInv'
  <1> SUFFICES ASSUME HeapInv, ShiftDownEnds PROVE HeapInv'
      OBVIOUS
  <1> USE DEF HeapInv
  <1>1. /\ Filled' = Filled /\ pc = "down"
        /\ TypeOK' /\ InBounds' /\ Placed' /\ Ordered'
    BY DEF ShiftDownEnds, TypeOK, InBounds, Placed, Ordered, Filled, Slots, Parent
  <1>2. ASSUME NEW c \in Filled, c > 0, Parent(c) = hole
        PROVE  deadline[elem] <= deadline[p[c]]
    <2>1. hole \in Nat /\ n \in Nat /\ c \in Nat /\ c < n
      BY SMT DEF TypeOK, Filled, Slots, ShiftDownEnds
    <2>2. 2 * (hole + 1) <= n
      BY <2>1, <1>2, ParentFacts, SMT
    <2>3. SmallerChild \in Filled /\ deadline[p[SmallerChild]] <= deadline[p[c]]
      BY <2>2, <1>1, <1>2, SmallerChildFacts
    <2>4. ~(deadline[elem] > deadline[p[SmallerChild]])
      BY <2>2 DEF ShiftDownEnds, DownMoves, Greater
    <2>5. elem \in Event
      BY <1>1 DEF HoleFits
    <2>6. /\ deadline[p[SmallerChild]] \in Int /\ deadline[elem] \in Int /\ deadline[p[c]] \in Int
      BY <2>3, <2>5, DeadlinesAreInts
    <2> QED
      BY <2>3, <2>4, <2>6, SMT
  <1>3. HoleFits'
    BY <1>1, <1>2 DEF HoleFits, ShiftDownEnds, Parent
  <1> QED
    BY <1>1, <1>3

LEMMA ShiftDownKeeps == HeapInv /\ ShiftDown => HeapInv'
  <1> SUFFICES ASSUME HeapInv, ShiftDown PROVE HeapInv'
      OBVIOUS
  <1> DEFINE m == SmallerChild
  <1> USE DEF HeapInv
  <1>1. /\ pc = "down" /\ pc' = "down" /\ 2 * (hole + 1) <= n /\ MoveHole(m)
        /\ deadline' = deadline /\ elem' = elem /\ out' = out /\ n' = n /\ hole' = m
    BY DEF ShiftDown, DownMoves, MoveHole
  <1>2. /\ m \in Filled /\ m > 0 /\ Parent(m) = hole /\ hole \in Slots
        /\ \A c \in Filled : c > 0 /\ Parent(c) = hole => deadline[p[m]] <= deadline[p[c]]
    BY <1>1, SmallerChildFacts
  <1> HIDE DEF m
  <1>3. /\ TypeOK' /\ InBounds' /\ Placed'
        /\ Filled' = Slots \ {m} /\ Filled = Slots \ {hole} /\ m # hole
        /\ p'[hole] = p[m]
        /\ \A k \in Filled' : k # hole => k \in Filled /\ p'[k] = p[k]
    BY <1>1, <1>2, MoveHoleFacts
  <1>4. n \in Nat /\ hole \in Nat /\ m \in Nat /\ m < n /\ hole < m
    BY <1>2, ParentFacts, SMT DEF TypeOK, Filled, Slots
  <1>5. elem \in Event /\ elem # out /\ out \in Event
    BY <1>1, <1>2, SMT DEF HoleFits, Slots
  <1>6. /\ deadline[elem] \in Int /\ \A k \in Filled : deadline[p[k]] \in Int
        /\ deadline[p[m]] < deadline[elem]
    BY <1>1, <1>2, <1>5, DeadlinesAreInts, SMT DEF ShiftDown, DownMoves, Greater, m
  <1>7. ASSUME NEW k \in Filled', k > 0, Parent(k) \in Filled'
        PROVE  deadline[p'[Parent(k)]] <= deadline[p'[k]]
    <2>1. CASE k = hole
      <3>1. Parent(k) # hole
        BY <2>1, <1>4, <1>7, ParentFacts, SMT
      <3>2. p'[Parent(k)] = p[Parent(hole)] /\ p'[k] = p[m]
        BY <2>1, <3>1, <1>3, <1>7
      <3> QED
        BY <3>2, <2>1, <1>1, <1>2, <1>7 DEF HoleFits
    <2>2. CASE k # hole /\ Parent(k) = hole
      BY <2>2, <1>2, <1>3, <1>7
    <2>3. CASE k # hole /\ Parent(k) # hole
      BY <2>3, <1>3, <1>7 DEF Ordered
    <2> QED
      BY <2>1, <2>2, <2>3
  <1>8. Ordered'
    BY <1>7, <1>1 DEF Ordered, Parent
  <1>9. ASSUME NEW c \in Filled', c > 0, Parent(c) = m
        PROVE  deadline[p'[Parent(m)]] <= deadline[p'[c]]
    <2>1. c # hole
      BY <1>3, <1>4, <1>9, ParentFacts, SMT DEF Slots
    <2>2. c \in Filled /\ p'[c] = p[c]
      BY <2>1, <1>3
    <2>3. deadline[p[m]] <= deadline[p[c]]
      BY <2>2, <1>2, <1>9 DEF Ordered
    <2> QED
      BY <2>2, <2>3, <1>2, <1>3
  <1>10. deadline[p'[Parent(m)]] <= deadline[elem]
    BY <1>2, <1>3, <1>6, SMT
  <1>11. HoleFits'
    BY <1>1, <1>4, <1>5, <1>9, <1>10 DEF HoleFits, Parent
  <1> QED
    BY <1>3, <1>8, <1>11

LEMMA ShiftUpKeeps == HeapInv /\ ShiftUp => HeapInv'
  <1> SUFFICES ASSUME HeapInv, ShiftUp PROVE HeapInv'
      OBVIOUS
  <1> DEFINE m == Parent(hole)
  <1> USE DEF HeapInv
  <1>1. /\ pc = "up" /\ pc' = "up" /\ hole # 0 /\ MoveHole(m)
        /\ deadline' = deadline /\ elem' = elem /\ out' = out /\ n' = n /\ hole' = m
        /\ deadline[p[m]] > deadline[elem]
    BY DEF ShiftUp, UpMoves, MoveHole, Greater
  <1>2. n \in Nat /\ hole \in Nat /\ hole > 0 /\ hole <= n /\ m \in Nat /\ m < hole
    BY <1>1, ParentFacts, SMT DEF TypeOK, HoleFits
  <1>3. m \in Filled
    BY <1>1, <1>2, SMT DEF Filled, Slots
  <1>4. elem \in Event /\ deadline[elem] \in Int /\ \A k \in Filled : deadline[p[k]] \in Int
    BY <1>1, DeadlinesAreInts DEF HoleFits
  <1>5. elem # out /\ hole \in Slots
    <2>1. ASSUME elem = out PROVE FALSE
      <3>1. deadline[p[m]] <= deadline[elem]
        BY <2>1, <1>1, <1>2 DEF HoleFits
      <3> QED
        BY <3>1, <1>1, <1>3, <1>4, SMT
    <2> QED
      BY <2>1, <1>1, <1>2, SMT DEF HoleFits, Slots
  <1> HIDE DEF m
  <1>6. /\ TypeOK' /\ InBounds' /\ Placed'
        /\ Filled' = Slots \ {m} /\ Filled = Slots \ {hole} /\ m # hole
        /\ p'[hole] = p[m]
        /\ \A k \in Filled' : k # hole => k \in Filled /\ p'[k] = p[k]
    BY <1>1, <1>3, <1>5, MoveHoleFacts
  <1>7. ASSUME NEW k \in Filled', k > 0, Parent(k) \in Filled'
        PROVE  deadline[p'[Parent(k)]] <= deadline[p'[k]]
    <2>1. k # hole
      BY <1>6, <1>7 DEF m
    <2>2. CASE Parent(k) = hole
      BY <2>1, <2>2, <1>1, <1>2, <1>6, <1>7 DEF HoleFits, m
    <2>3. CASE Parent(k) # hole
      BY <2>1, <2>3, <1>6, <1>7 DEF Ordered
    <2> QED
      BY <2>2, <2>3
  <1>8. Ordered'
    BY <1>7, <1>1 DEF Ordered, Parent
  <1>9. m > 0 => /\ Parent(m) \in Filled /\ p'[Parent(m)] = p[Parent(m)]
                 /\ deadline[p[Parent(m)]] <= deadline[p[m]]
    <2> SUFFICES ASSUME m > 0
                 PROVE  /\ Parent(m) \in Filled /\ p'[Parent(m)] = p[Parent(m)]
                        /\ deadline[p[Parent(m)]] <= deadline[p[m]]
        OBVIOUS
    <2>1. Parent(m) \in Nat /\ Parent(m) < m
      BY <1>2, ParentFacts
    <2>2. Parent(m) \in Filled /\ Parent(m) \in Filled' /\ Parent(m) # hole
      BY <2>1, <1>2, <1>6, SMT DEF Slots
    <2> QED
      BY <2>2, <1>3, <1>6 DEF Ordered
  <1>10. ASSUME NEW c \in Filled', c > 0, Parent(c) = m
         PROVE  /\ deadline[p[m]] <= deadline[p'[c]] /\ deadline[p'[c]] \in Int
    <2>1. CASE c = hole
      BY <2>1, <1>3, <1>4, <1>6, SMT
    <2>2. CASE c # hole
      BY <2>2, <1>3, <1>4, <1>6, <1>10 DEF Ordered
    <2> QED
      BY <2>1, <2>2
  <1>11. ASSUME NEW c \in Filled', c > 0, Parent(c) = m
         PROVE  /\ m > 0 => deadline[p'[Parent(m)]] <= deadline[p'[c]]
                /\ deadline[elem] <= deadline[p'[c]]
    <2>1. deadline[p[m]] <= deadline[p'[c]] /\ deadline[p'[c]] \in Int /\ deadline[p[m]] \in Int
      BY <1>3, <1>4, <1>10, <1>11
    <2>2. deadline[elem] <= deadline[p'[c]]
      BY <2>1, <1>1, <1>4, SMT
    <2>3. m > 0 => deadline[p'[Parent(m)]] <= deadline[p'[c]]
      BY <2>1, <1>4, <1>9, SMT
    <2> QED
      BY <2>2, <2>3
  <1>12. HoleFits'
    BY <1>1, <1>2, <1>5, <1>11, SMT DEF HoleFits, Parent
  <1> QED
    BY <1>6, <1>8, <1>12

LEMMA ShiftUpEndsKeeps == HeapInv /\ ShiftUpEnds => HeapInv'
  <1> SUFFICES ASSUME HeapInv, ShiftUpEnds PROVE HeapInv'
      OBVIOUS
  <1> USE DEF HeapInv
  <1>1. /\ n \in Nat /\ a \in Nat /\ n <= a /\ hole \in 0 .. a - 1 /\ hole \in Nat
        /\ Filled = Slots \ {hole} /\ Filled' = Slots /\ Slots' = Slots
        /\ pc = "up" /\ elem \in Event /\ elem' = NoEvent /\ out' = NoEvent
        /\ deadline' = deadline /\ NoEvent \notin Event
    BY HeapAssumption, SMT DEF TypeOK, InBounds, Filled, Slots, ShiftUpEnds, HoleFits
  <1>2. p'[hole] = elem /\ \A k \in Filled : p'[k] = p[k] /\ k \in Slots
    BY <1>1, SMT DEF ShiftUpEnds, TypeOK, Slots
  <1>3. hole \in Slots <=> elem # out
    BY <1>1, SMT DEF HoleFits, Slots
  <1>4. TypeOK' /\ InBounds'
    BY <1>1, SMT DEF TypeOK, InBounds, ShiftUpEnds
  <1>5. \A k \in Slots : p'[k] \in Event /\ idx'[p'[k]] = k
    <2> SUFFICES ASSUME NEW k \in Slots PROVE p'[k] \in Event /\ idx'[p'[k]] = k
        OBVIOUS
    <2>1. CASE k = hole
      BY <2>1, <1>1, <1>2, <1>3 DEF ShiftUpEnds
    <2>2. CASE k # hole
      <3>1. k \in Filled
        BY <2>2, <1>1
      <3>2. p[k] \in Event /\ idx[p[k]] = k /\ p[k] # elem /\ p[k] # out
        BY <3>1 DEF Placed
      <3> QED
        BY <3>1, <3>2, <1>2 DEF ShiftUpEnds
    <2> QED
      BY <2>1, <2>2
  <1>6. ASSUME NEW e \in Event, idx'[e] # -1
        PROVE  idx'[e] \in Slots /\ p'[idx'[e]] = e
    <2>1. e # out
      BY <1>6 DEF ShiftUpEnds
    <2>2. CASE e = elem
      BY <2>1, <2>2, <1>2, <1>3 DEF ShiftUpEnds
    <2>3. CASE e # elem
      <3>1. idx'[e] = idx[e]
        BY <2>1, <2>3 DEF ShiftUpEnds
      <3>2. idx[e] \in Filled /\ p[idx[e]] = e
        BY <2>1, <2>3, <3>1, <1>6 DEF Placed
      <3> QED
        BY <3>1, <3>2, <1>2
    <2> QED
      BY <2>2, <2>3
  <1>7. Placed'
    BY <1>1, <1>5, <1>6, <1>4 DEF Placed
  <1>8. hole > 0 => deadline[p[Parent(hole)]] <= deadline[elem]
    <2> SUFFICES ASSUME hole > 0 PROVE deadline[p[Parent(hole)]] <= deadline[elem]
        OBVIOUS
    <2>1. Parent(hole) \in Filled
      BY <1>1, ParentFacts, SMT DEF Slots, HoleFits
    <2>2. deadline[p[Parent(hole)]] \in Int /\ deadline[elem] \in Int
      BY <2>1, <1>1, DeadlinesAreInts
    <2> QED
      BY <2>2, <1>1, SMT DEF ShiftUpEnds, UpMoves, Greater
  <1>9. ASSUME NEW k \in Slots, k > 0, Parent(k) \in Slots
        PROVE  deadline[p'[Parent(k)]] <= deadline[p'[k]]
    <2>1. k \in Nat /\ Parent(k) # k
      BY <1>9, ParentFacts, SMT DEF Slots
    <2>2. CASE k = hole
      BY <2>1, <2>2, <1>1, <1>2, <1>8, <1>9
    <2>3. CASE Parent(k) = hole
      BY <2>1, <2>3, <1>1, <1>2, <1>9 DEF HoleFits
    <2>4. CASE k # hole /\ Parent(k) # hole
      BY <2>4, <1>1, <1>2, <1>9 DEF Ordered
    <2> QED
      BY <2>2, <2>3, <2>4
  <1>10. Ordered'
    BY <1>9, <1>1 DEF Ordered, Parent
  <1>11. HoleFits'
    BY DEF ShiftUpEnds, HoleFits
  <1> QED
    BY <1>4, <1>7, <1>10, <1>11

-----------------------------------------------------------------------------
(* The theorems.                                                           *)

LEMMA NextKeeps == HeapInv /\ [Next]_vars => HeapInv'
  <1> SUFFICES ASSUME HeapInv, [Next]_vars PROVE HeapInv'
      OBVIOUS
  <1>1. CASE Reserve
    BY <1>1, ReserveKeeps
  <1>2. ASSUME NEW e \in Event, NEW t \in Time, Push(e, t) PROVE HeapInv'
    BY <1>2, PushKeeps
  <1>3. ASSUME NEW e \in Event, Erase(e) PROVE HeapInv'
    BY <1>3, EraseKeeps
  <1>4. CASE Pop
    BY <1>4, PopKeeps
  <1>5. ASSUME NEW t \in Time, NEW u \in Time, TimeoutCorrect(t - u) PROVE HeapInv'
    <2>1. t - u \in Int
      BY HeapAssumption, SMT
    <2> QED
      BY <2>1, <1>5, CorrectKeeps
  <1>6. CASE ShiftDown
    BY <1>6, ShiftDownKeeps
  <1>7. CASE ShiftDownEnds
    BY <1>7, ShiftDownEndsKeeps
  <1>8. CASE ShiftUp
    BY <1>8, ShiftUpKeeps
  <1>9. CASE ShiftUpEnds
    BY <1>9, ShiftUpEndsKeeps
  <1>10. CASE UNCHANGED vars
    BY <1>10 DEF vars, HeapInv, TypeOK, InBounds, Placed, Ordered, HoleFits, Filled, Slots, Parent
  <1> QED
    BY <1>1, <1>2, <1>3, <1>4, <1>5, <1>6, <1>7, <1>8, <1>9, <1>10 DEF Next

\* min_heap_push, min_heap_pop and min_heap_erase keep the shape of the heap
\* in every iteration of their loops: the array with its hole is ordered and
\* min_heap_idx is the slot of every event that is in place.
THEOREM HeapKept == Spec => []HeapInv
  <1> QED
    BY InitHolds, NextKeeps, PTL DEF Spec

\* The loops read and write allocated slots only.
THEOREM StaysInBounds == Spec => []InBounds
  <1>1. HeapInv => InBounds
    BY DEF HeapInv
  <1> QED
    BY <1>1, HeapKept, PTL

\* Between two operations every event knows its slot: min_heap_erase takes out
\* the event it is given.
THEOREM IndicesAgree == Spec => []IndexAgrees
  <1>1. HeapInv => IndexAgrees
    BY HeapAssumption DEF HeapInv, IndexAgrees, Placed, Filled, HoleFits
  <1> QED
    BY <1>1, HeapKept, PTL

\* In a heap without a hole no slot is earlier than the root: the first slot
\* that was would have a parent that is.
LEMMA RootIsEarliest == HeapInv => TopIsEarliest
  <1> SUFFICES ASSUME HeapInv, pc = "idle", NEW k \in Slots,
                      ~(deadline[p[0]] <= deadline[p[k]])
               PROVE  FALSE
      BY DEF TopIsEarliest
  <1> DEFINE Wrong == {j \in Nat : j \in Slots /\ ~(deadline[p[0]] <= deadline[p[j]])}
  <1>1. /\ Filled = Slots /\ Slots \subseteq Nat /\ 0 \in Slots
        /\ \A j \in Slots : deadline[p[j]] \in Int
    BY DeadlinesAreInts, SMT DEF Filled, Slots, HeapInv, TypeOK
  <1>2. k \in Wrong
    BY <1>1
  <1>3. Wrong \subseteq Nat
    OBVIOUS
  <1> DEFINE Less == OpToRel(<, Nat)
  <1>4. IsWellFoundedOn(Less, Nat)
    BY NatLessThanWellFounded
  <1>5. PICK j \in Wrong : \A i \in Wrong : <<i, j>> \notin Less
    <2> HIDE DEF Wrong, Less
    <2> QED
      BY <1>2, <1>3, <1>4, WFMin, Zenon
  <1>6. j \in Slots /\ j \in Nat /\ ~(deadline[p[0]] <= deadline[p[j]])
    OBVIOUS
  <1>7. j > 0
    BY <1>6, <1>1, SMT
  <1>8. Parent(j) \in Nat /\ Parent(j) < j /\ Parent(j) \in Slots
    BY <1>6, <1>7, ParentFacts, SMT DEF Slots, HeapInv, TypeOK
  <1>9. deadline[p[Parent(j)]] <= deadline[p[j]]
    BY <1>1, <1>6, <1>7, <1>8 DEF HeapInv, Ordered
  <1>10. ~(deadline[p[0]] <= deadline[p[Parent(j)]])
    BY <1>1, <1>6, <1>8, <1>9, SMT
  <1>11. Parent(j) \in Wrong
    BY <1>8, <1>10
  <1>12. <<Parent(j), j>> \in Less
    BY <1>6, <1>8, Zenon DEF OpToRel
  <1> QED
    BY <1>5, <1>11, <1>12

\* timeout_next and timeout_process look at min_heap_top only: it is an event
\* with the earliest deadline.
THEOREM TopEarliest == Spec => []TopIsEarliest
  <1> QED
    BY RootIsEarliest, HeapKept, PTL

-----------------------------------------------------------------------------
(* The heap implements TimerSet: an operation is a step of TimerSet when it *)
(* begins, and the iterations of the loops are stuttering steps.            *)

Members == ({e \in Event : idx[e] # -1} \cup {elem}) \ {out, NoEvent}

\* Between two operations the members are the events in the slots in use.
LEMMA MembersAreInSlots ==
  ASSUME HeapInv, pc = "idle"
  PROVE  /\ Members = {e \in Event : idx[e] # -1}
         /\ \A k \in Slots : p[k] \in Members /\ idx[p[k]] = k
         /\ \A e \in Members : idx[e] \in Slots /\ p[idx[e]] = e
  <1>1. Members = {e \in Event : idx[e] # -1}
    BY HeapAssumption DEF Members, HeapInv, HoleFits
  <1>2. \A k \in Slots : p[k] \in Event /\ idx[p[k]] = k /\ k # -1
    BY SMT DEF HeapInv, Placed, Filled, Slots, TypeOK
  <1>3. \A e \in Members : idx[e] \in Slots /\ p[idx[e]] = e
    BY <1>1, HeapAssumption DEF HeapInv, Placed, Filled, HoleFits
  <1> QED
    BY <1>1, <1>2, <1>3

LEMMA PushIsInsert ==
  ASSUME HeapInv, NEW e \in Event, NEW t \in Time, Push(e, t)
  PROVE  Heap!Insert(e, t)
  <1>1. elem = NoEvent /\ out = NoEvent /\ e # NoEvent
    BY HeapAssumption DEF HeapInv, HoleFits, Push
  <1>2. e \notin Members /\ Members' = Members \cup {e}
    BY <1>1 DEF Members, Push
  <1> QED
    BY <1>2 DEF Heap!Insert, Push, Members

LEMMA PopIsRemoveEarliest ==
  ASSUME HeapInv, Pop, NEW top \in Event, top = p[0]
  PROVE  Heap!RemoveEarliest(top)
  <1>1. /\ \A k \in Slots : p[k] \in Members /\ idx[p[k]] = k
        /\ \A e \in Members : idx[e] \in Slots /\ p[idx[e]] = e
        /\ Members = {e \in Event : idx[e] # -1}
    BY MembersAreInSlots DEF Pop
  <1>2. 0 \in Slots /\ n - 1 \in Slots
    BY SMT DEF Slots, HeapInv, TypeOK, Pop
  <1>3. p[0] \in Members /\ p[n - 1] \in Members /\ p[0] \in Event
    BY <1>1, <1>2
  <1>4. \A k \in Slots : deadline[p[0]] <= deadline[p[k]]
    BY RootIsEarliest DEF TopIsEarliest, Pop
  <1>5. \A f \in Members : deadline[p[0]] <= deadline[f]
    BY <1>1, <1>4
  <1>6. Members' = Members \ {p[0]}
    BY <1>1, <1>3, HeapAssumption DEF Members, Pop
  <1> QED
    BY <1>3, <1>5, <1>6 DEF Heap!RemoveEarliest, Heap!Earliest, Members, Pop

LEMMA EraseIsRemove ==
  ASSUME HeapInv, NEW e \in Event, Erase(e)
  PROVE  Heap!Remove(e)
  <1>1. /\ \A k \in Slots : p[k] \in Members
        /\ Members = {f \in Event : idx[f] # -1}
        /\ e \in Members /\ idx[e] \in Slots
    BY MembersAreInSlots DEF Erase
  <1>2. n - 1 \in Slots
    BY <1>1, SMT DEF Slots, HeapInv, TypeOK
  <1>3. Members' = Members \ {e}
    BY <1>1, <1>2, HeapAssumption DEF Members, Erase
  <1> QED
    BY <1>1, <1>3 DEF Heap!Remove, Members, Erase

LEMMA CorrectIsShift ==
  ASSUME HeapInv, NEW off \in Int, TimeoutCorrect(off)
  PROVE  Heap!Shift(off)
  <1>1. /\ \A k \in Slots : p[k] \in Members /\ idx[p[k]] = k
        /\ \A e \in Members : idx[e] \in Slots /\ p[idx[e]] = e
    BY MembersAreInSlots DEF TimeoutCorrect
  <1>2. \A e \in Event : (\E k \in Slots : p[k] = e) <=> e \in Members
    BY <1>1
  <1>3. \A e \in Members : deadline[e] - off \in Time
    BY <1>1 DEF TimeoutCorrect
  <1>4. deadline' = [e \in Event |-> IF e \in Members THEN deadline[e] - off ELSE deadline[e]]
    BY <1>2 DEF TimeoutCorrect
  <1>5. Members' = Members /\ ret' = ret
    BY DEF TimeoutCorrect, Members
  <1> QED
    BY <1>3, <1>4, <1>5 DEF Heap!Shift, Members

\* The loops give events other slots and leave the members alone.
LEMMA MoveIsStutter ==
  ASSUME HeapInv, pc # "idle", NEW m \in Filled, hole \in Nat, MoveHole(m)
  PROVE  UNCHANGED Heap!vars
  <1>1. p[m] \in Event /\ idx[p[m]] = m /\ m # -1 /\ hole # -1
    BY SMT DEF HeapInv, Placed, Filled, Slots, TypeOK
  <1>2. \A e \in Event : idx'[e] # -1 <=> idx[e] # -1
    BY <1>1 DEF MoveHole, HeapInv, TypeOK
  <1>3. Members' = Members
    BY <1>2 DEF Members, MoveHole
  <1> QED
    BY <1>3 DEF Heap!vars, Members, MoveHole

LEMMA EndIsStutter ==
  ASSUME HeapInv, ShiftUpEnds
  PROVE  UNCHANGED Heap!vars
  <1>1. elem \in Event /\ elem' = NoEvent /\ out' = NoEvent /\ hole # -1
    BY SMT DEF HeapInv, HoleFits, TypeOK, ShiftUpEnds
  <1>2. \A e \in Event : idx'[e] # -1 <=> (idx[e] # -1 \/ e = elem) /\ e # out
    BY <1>1 DEF ShiftUpEnds
  <1>3. Members' = Members
    BY <1>1, <1>2, HeapAssumption DEF Members
  <1> QED
    BY <1>3 DEF Heap!vars, Members, ShiftUpEnds

LEMMA InitImplements == Init => Heap!Init
  BY HeapAssumption DEF Init, Heap!Init

LEMMA StepImplements == HeapInv /\ [Next]_vars => [Heap!Next]_(Heap!vars)
  <1> SUFFICES ASSUME HeapInv, [Next]_vars PROVE Heap!Next \/ UNCHANGED Heap!vars
      OBVIOUS
  <1>1. CASE Reserve
    BY <1>1 DEF Reserve, Heap!vars
  <1>2. ASSUME NEW e \in Event, NEW t \in Time, Push(e, t) PROVE Heap!Next
    BY <1>2, PushIsInsert DEF Heap!Next
  <1>3. ASSUME NEW e \in Event, Erase(e) PROVE Heap!Next
    BY <1>3, EraseIsRemove DEF Heap!Next
  <1>4. CASE Pop
    <2>1. p[0] \in Event
      BY <1>4, SMT DEF Pop, HeapInv, TypeOK, Placed, Filled, Slots
    <2>2. PICK top \in Event : top = p[0]
      BY <2>1
    <2>3. Heap!RemoveEarliest(top)
      BY <1>4, <2>2, PopIsRemoveEarliest
    <2> QED
      BY <2>3 DEF Heap!Next
  <1>5. ASSUME NEW t \in Time, NEW u \in Time, TimeoutCorrect(t - u) PROVE Heap!Next
    <2>1. t - u \in Int
      BY HeapAssumption, SMT
    <2> QED
      BY <2>1, <1>5, CorrectIsShift DEF Heap!Next
  <1>6. CASE ShiftDown
    <2>1. pc = "down" /\ 2 * (hole + 1) <= n /\ MoveHole(SmallerChild)
      BY <1>6 DEF ShiftDown, DownMoves
    <2>2. SmallerChild \in Filled /\ hole \in Nat
      BY <2>1, SmallerChildFacts DEF HeapInv, TypeOK
    <2> QED
      BY <2>1, <2>2, MoveIsStutter
  <1>7. CASE ShiftDownEnds
    BY <1>7 DEF ShiftDownEnds, Heap!vars
  <1>8. CASE ShiftUp
    <2>1. pc = "up" /\ hole # 0 /\ MoveHole(Parent(hole))
      BY <1>8 DEF ShiftUp, UpMoves
    <2>2. hole \in Nat /\ hole <= n /\ n \in Nat
      BY <2>1, SMT DEF HeapInv, TypeOK, HoleFits
    <2>3. Parent(hole) \in Filled
      BY <2>1, <2>2, ParentFacts, SMT DEF Filled, Slots
    <2> QED
      BY <2>1, <2>2, <2>3, MoveIsStutter
  <1>9. CASE ShiftUpEnds
    BY <1>9, EndIsStutter
  <1>10. CASE UNCHANGED vars
    BY <1>10 DEF vars, Heap!vars
  <1> QED
    BY <1>1, <1>2, <1>3, <1>4, <1>5, <1>6, <1>7, <1>8, <1>9, <1>10 DEF Next

\* The array with its loops behaves as a set of timers from which
\* min_heap_pop takes an event with the earliest deadline and min_heap_erase
\* the event it is given.
THEOREM HeapImplementsTimerSet == Spec => ImplementsTimerSet
  <1> QED
    BY InitImplements, StepImplements, HeapKept, PTL DEF Spec, ImplementsTimerSet, Heap!Spec
=============================================================================
