----------------------------- MODULE MCEventBase -----------------------------
(* Instances of EventBase: a socket, a signal, a timer, the signal pipe of *)
(* the base and one event_base_once.                                         *)
EXTENDS EventBase

CONSTANTS sock, sig, tmr, pipe, once

MCInterest ==
  [e \in Event |-> CASE e \in {sock, pipe} -> {"READ"}
                     [] e = sig -> {"SIGNAL"}
                     [] OTHER -> {}]
=============================================================================
