------------------------------- MODULE MCEpoll -------------------------------
(* Instances of Epoll: a reader and a writer of each of two descriptors, the *)
(* second beyond the first table, and an event that wants both directions.   *)
EXTENDS Epoll

CONSTANTS rd, wr, both, rd2, wr2

MCFdOf == [e \in Event |-> IF e \in {rd2, wr2} THEN 2 ELSE 0]

MCInterest ==
  [e \in Event |-> CASE e \in {rd, rd2} -> {"READ"}
                     [] e \in {wr, wr2} -> {"WRITE"}
                     [] OTHER -> Dir]

\* Around one millisecond, beyond MaxWait, and the last value that fits in an
\* int of 2^8 values with 10 milliseconds to the second, with the two after it.
MCTimeval ==
  {[sec |-> 0, usec |-> u] : u \in {0, 1, 10, 11}} \cup {[sec |-> 5, usec |-> 0]}
    \cup {[sec |-> 12, usec |-> u] : u \in {70, 71, 80}}
==============================================================================
