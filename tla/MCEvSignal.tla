------------------------------ MODULE MCEvSignal ------------------------------
(* Instances of EvSignal: a persistent event and another one of signal 1, and  *)
(* a persistent event of signal 2.                                             *)
EXTENDS EvSignal

CONSTANTS p1, n1, p2, Other

MCSigOf == [e \in Event |-> IF e = p2 THEN 2 ELSE 1]
================================================================================
