------------------------------- MODULE EvBuffer -------------------------------
(***************************************************************************)
(* include/buffer.cpp: the byte buffer of a bufferevent.  One block of     *)
(* totallen bytes holds off bytes from position misalign on; a drain moves *)
(* the position, and evbuffer_expand makes room by moving the bytes back   *)
(* to the start or by a larger block.                                      *)
(***************************************************************************)
EXTENDS Integers, Sequences

CONSTANTS
  Byte,
  NoByte,      \* a byte of the block that was never written
  MinLen,      \* the first block, 256
  MaxRead,     \* EVBUFFER_MAX_READ, 4096
  MaxChunk,    \* the most one call adds (bounds the model)
  MaxOff       \* the most the buffer holds (bounds the model)

ASSUME BufferAssumption ==
  /\ NoByte \notin Byte
  /\ MinLen \in Nat \ {0} /\ MaxRead \in Nat \ {0}
  /\ MaxChunk \in Nat /\ MaxOff \in Nat

VARIABLES
  mem,         \* orig_buffer
  totallen,    \* its length
  misalign,    \* buffer - orig_buffer
  off,         \* the bytes in the buffer
  cb,          \* a callback is set
  told,        \* the length the callback was last told, or found when set
  taken        \* the bytes the last call handed out

vars == <<mem, totallen, misalign, off, cb, told, taken>>
block == <<mem, totallen, misalign>>

Chunk == UNION {[1 .. k -> Byte] : k \in 0 .. MaxChunk}

Content == [i \in 1 .. off |-> mem[misalign + i - 1]]

\* evbuffer_new callocs.
Init ==
  /\ mem = [i \in {} |-> NoByte]
  /\ totallen = 0 /\ misalign = 0 /\ off = 0
  /\ cb = FALSE /\ told = 0
  /\ taken = <<>>

-----------------------------------------------------------------------------
(* evbuffer_expand.                                                        *)

Fits(len)  == totallen >= misalign + off + len

\* Fault: the bytes are moved back although that does not make enough room.
GrowsTooLate(len) == ~Fits(len) /\ misalign = 0

Grows(len) == ~Fits(len) /\ misalign < len

\* The block doubles, from MinLen at least, until it is long enough.
GrownLengths(need) ==
  LET start == IF totallen < MinLen THEN MinLen ELSE totallen
  IN  {l \in 0 .. start + 2 * need :
         /\ l >= need
         /\ \E k \in 0 .. need : l = start * 2^k
         /\ l # start => l < 2 * need}

Lengths(len) ==
  IF Grows(len) THEN GrownLengths(misalign + off + len) ELSE {totallen}

\* Fault: the bytes are not moved, only their position is reset.
UnmovedMem(length) ==
  [i \in 0 .. length - 1 |-> IF i < totallen THEN mem[i] ELSE NoByte]

\* The bytes at the start of a block of the given length (evbuffer_align).
MovedMem(length) ==
  [i \in 0 .. length - 1 |-> IF i < off THEN mem[misalign + i]
                             ELSE IF i < totallen THEN mem[i] ELSE NoByte]

ExpandedMis(len) == IF Fits(len) THEN misalign ELSE 0

ExpandedMem(len, length) == IF Fits(len) THEN mem ELSE MovedMem(length)

\* realloc failed: the bytes were moved back before.
ExpandFails(len) ==
  /\ Grows(len)
  /\ mem' = MovedMem(totallen)
  /\ misalign' = 0
  /\ taken' = <<>>
  /\ UNCHANGED <<totallen, off, cb, told>>

-----------------------------------------------------------------------------
\* The callback learns of a new length; it may unset itself.
Notify ==
  IF cb /\ off' # off
  THEN told' = off' /\ cb' \in BOOLEAN
  ELSE UNCHANGED <<cb, told>>

\* Makes room for len bytes and writes the chunk s after the others.
Store(s, len) ==
  \E length \in Lengths(len) :
    LET m == ExpandedMis(len)
        old == ExpandedMem(len, length)
    IN  /\ totallen' = length
        /\ misalign' = m
        /\ mem' = [i \in 0 .. length - 1 |->
                     IF i \in m + off .. m + off + Len(s) - 1
                     THEN s[i - (m + off) + 1] ELSE old[i]]
        /\ off' = off + Len(s)
        /\ taken' = <<>>
        /\ Notify

Add(s) ==
  /\ off + Len(s) <= MaxOff
  /\ Store(s, Len(s))

AddFails(s) == ExpandFails(Len(s))

\* evbuffer_drain of k bytes.
Advance(k) ==
  /\ misalign' = IF k >= off THEN 0 ELSE misalign + k
  /\ off' = IF k >= off THEN 0 ELSE off - k
  /\ UNCHANGED <<mem, totallen>>

Drain(k) ==
  /\ Advance(k)
  /\ taken' = <<>>
  /\ Notify

Taken(k) == SubSeq(Content, 1, IF k >= off THEN off ELSE k)

\* evbuffer_remove, and evbuffer_write of which k bytes were written.
Remove(k) ==
  /\ taken' = Taken(k)
  /\ Advance(k)
  /\ Notify

-----------------------------------------------------------------------------
(* evbuffer_read.                                                          *)

\* How many bytes it makes room for; avail is what FIONREAD says, 0 when it
\* says nothing, and howmuch is negative when there is no limit.
ReadSize(avail, howmuch) ==
  LET quarter == IF avail > 4 * totallen THEN 4 * totallen ELSE avail
      n == IF avail = 0 THEN MaxRead
           ELSE IF avail > MaxRead /\ avail > howmuch
           THEN IF quarter < MaxRead THEN MaxRead ELSE quarter
           ELSE avail
  IN  IF howmuch < 0 \/ howmuch > n THEN n ELSE howmuch

\* Fault: the callback is not called.
ReadQuietly(s, avail, howmuch) ==
  /\ Len(s) <= ReadSize(avail, howmuch)
  /\ off + Len(s) <= MaxOff
  /\ \E length \in Lengths(ReadSize(avail, howmuch)) :
       LET m == ExpandedMis(ReadSize(avail, howmuch))
           old == ExpandedMem(ReadSize(avail, howmuch), length)
       IN  /\ totallen' = length
           /\ misalign' = m
           /\ mem' = [i \in 0 .. length - 1 |->
                        IF i \in m + off .. m + off + Len(s) - 1
                        THEN s[i - (m + off) + 1] ELSE old[i]]
           /\ off' = off + Len(s)
  /\ taken' = <<>>
  /\ UNCHANGED <<cb, told>>

\* An empty chunk stands for the end of the stream and for an error.
Read(s, avail, howmuch) ==
  /\ Len(s) <= ReadSize(avail, howmuch)
  /\ off + Len(s) <= MaxOff
  /\ Store(s, ReadSize(avail, howmuch))

ReadFails(avail, howmuch) == ExpandFails(ReadSize(avail, howmuch))

SetCb(set) ==
  /\ cb' = set
  /\ told' = off
  /\ taken' = <<>>
  /\ UNCHANGED <<block, off>>

-----------------------------------------------------------------------------
Next ==
  \/ \E s \in Chunk :
       \/ Add(s) \/ AddFails(s)
       \/ \E avail \in 0 .. MaxChunk, howmuch \in {-1} \cup 1 .. MaxChunk :
            Read(s, avail, howmuch)
  \/ \E avail \in 0 .. MaxChunk, howmuch \in {-1} \cup 1 .. MaxChunk :
       ReadFails(avail, howmuch)
  \/ \E k \in 0 .. MaxOff : Drain(k) \/ Remove(k)
  \/ \E set \in BOOLEAN : SetCb(set)

Spec == Init /\ [][Next]_vars

-----------------------------------------------------------------------------
\* The fields of struct evbuffer and the history.
TypeOK ==
  /\ totallen \in Nat /\ misalign \in Nat /\ off \in Nat
  /\ mem \in [0 .. totallen - 1 -> Byte \cup {NoByte}]
  /\ cb \in BOOLEAN
  /\ told \in Nat

\* The bytes lie inside the block, so that no call reads or writes outside it.
InsideBlock == misalign + off <= totallen

\* A callback that stays set knows the length: the one that resumes reading
\* below the high watermark misses no change.
CallbackIsTold == cb => told = off

Queue == INSTANCE ByteQueue WITH queue <- Content

\* The block with its position is a queue of bytes.
ImplementsByteQueue == Queue!Spec
===============================================================================
