------------------------------ MODULE ByteQueue ------------------------------
(***************************************************************************)
(* What an evbuffer promises: bytes leave in the order they came, and only *)
(* the oldest ones leave.                                                  *)
(***************************************************************************)
EXTENDS Naturals, Sequences

CONSTANTS Byte, MaxChunk

VARIABLES
  queue,   \* the bytes in the buffer
  taken    \* the bytes the last call handed out

vars == <<queue, taken>>

Chunk == UNION {[1 .. k -> Byte] : k \in 0 .. MaxChunk}

Init == queue = <<>> /\ taken = <<>>

Put(s) == queue' = queue \o s /\ taken' = <<>>

\* The oldest k bytes leave and are handed out, or are dropped.
Take(k) ==
  /\ k <= Len(queue)
  /\ queue' = SubSeq(queue, k + 1, Len(queue))
  /\ taken' \in {SubSeq(queue, 1, k), <<>>}

Next == \/ \E s \in Chunk : Put(s)
        \/ \E k \in 0 .. Len(queue) : Take(k)

Spec == Init /\ [][Next]_vars
==============================================================================
