---------------------------- MODULE MCBufferEvent ----------------------------
(* One bufferevent on a base of its own, as on_accept builds it.           *)
EXTENDS BufferEvent

CONSTANTS pipe

MCInterest ==
  [e \in Event |-> IF e = EvWrite THEN {"WRITE"} ELSE {"READ"}]

MCMarks == {<<0, 0>>, <<2, 2>>}

MCSecs == {[d \in {"READ", "WRITE"} |-> 1]}
=============================================================================
