------------------------------- MODULE JobPool -------------------------------
(***************************************************************************)
(* What a work queue promises its caller: a job that was added is started  *)
(* at most once, by one worker, and ends at most once; jobs that wait may  *)
(* be dropped when the queue is shut down, but a job never comes back.     *)
(***************************************************************************)
EXTENDS FiniteSets

CONSTANTS Job

VARIABLES
  waiting,   \* added and not started
  running,   \* started and not ended
  ended      \* ended

vars == <<waiting, running, ended>>

Init == waiting = {} /\ running = {} /\ ended = {}

Add(j) ==
  /\ j \notin waiting \cup running \cup ended
  /\ waiting' = waiting \cup {j}
  /\ UNCHANGED <<running, ended>>

Start(j) ==
  /\ j \in waiting
  /\ waiting' = waiting \ {j}
  /\ running' = running \cup {j}
  /\ UNCHANGED ended

End(j) ==
  /\ j \in running
  /\ running' = running \ {j}
  /\ ended' = ended \cup {j}
  /\ UNCHANGED waiting

DropAll ==
  /\ waiting' = {}
  /\ UNCHANGED <<running, ended>>

Next == \/ \E j \in Job : Add(j) \/ Start(j) \/ End(j)
        \/ DropAll

Spec == Init /\ [][Next]_vars
==============================================================================
