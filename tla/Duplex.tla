------------------------------- MODULE Duplex -------------------------------
(***************************************************************************)
(* What a bufferevent promises its application about the two buffers: the  *)
(* peer's bytes enter the input only while reading is granted and never    *)
(* beyond the high watermark in force, bytes leave the input and enter the *)
(* output only by the application, leave the output only while writing is  *)
(* granted, and nothing moves once the bufferevent is freed.               *)
(***************************************************************************)
EXTENDS Integers

VARIABLES
  input,     \* bytes received and not consumed
  output,    \* bytes produced and not sent
  granted,   \* the directions in which bytes may move
  high,      \* the high watermark of reading, 0 for none
  open       \* not freed

vars == <<input, output, granted, high, open>>

Init == input = 0 /\ output = 0 /\ granted = {"WRITE"} /\ high = 0 /\ open = TRUE

Receive ==
  /\ "READ" \in granted
  /\ input' > input
  /\ high # 0 => input' <= high
  /\ UNCHANGED <<output, granted, high>>

Consume == input' \in 0 .. input - 1 /\ UNCHANGED <<output, granted, high>>

Produce == output' > output /\ UNCHANGED <<input, granted, high>>

Send ==
  /\ "WRITE" \in granted
  /\ output' \in 0 .. output - 1
  /\ UNCHANGED <<input, granted, high>>

Configure ==
  /\ granted' \subseteq {"READ", "WRITE"}
  /\ high' \in Nat
  /\ UNCHANGED <<input, output>>

Free == open' = FALSE /\ UNCHANGED <<input, output, granted, high>>

Next ==
  \/ /\ open = TRUE /\ UNCHANGED open
     /\ Receive \/ Consume \/ Produce \/ Send \/ Configure
  \/ open = TRUE /\ Free

Spec == Init /\ [][Next]_vars
=============================================================================
