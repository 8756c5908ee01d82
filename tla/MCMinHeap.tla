------------------------------ MODULE MCMinHeap ------------------------------
(* Instances of MinHeap: the events are interchangeable.                     *)
EXTENDS MinHeap, TLC

Symmetry == Permutations(Event)
=============================================================================
