------------------------------- MODULE Backend -------------------------------
(***************************************************************************)
(* What event.cpp expects of the function table eventop: add takes an      *)
(* event or refuses it, del always lets go of it, and dispatch reports     *)
(* only events it was given, for what they are interested in.              *)
(***************************************************************************)
EXTENDS FiniteSets

CONSTANTS Event, Interest

VARIABLES
  inserted,   \* the events that were added and not deleted
  reported    \* what the last dispatch activated, with which result

vars == <<inserted, reported>>

Init == inserted = {} /\ reported = {}

Add(e) ==
  /\ e \notin inserted
  /\ inserted' = inserted \cup {e}
  /\ reported' = {}

Del(e) ==
  /\ e \in inserted
  /\ inserted' = inserted \ {e}
  /\ reported' = {}

Results == UNION {{e} \X Interest[e] : e \in inserted}

\* A refused add and a failing dispatch report nothing.
Dispatch ==
  /\ reported' \subseteq Results
  /\ UNCHANGED inserted

Next == (\E e \in Event : Add(e) \/ Del(e)) \/ Dispatch

Spec == Init /\ [][Next]_vars
==============================================================================
