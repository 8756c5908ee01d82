---------------------------- MODULE EvBufferProofs ----------------------------
(***************************************************************************)
(* For buffers and chunks of any size: the calls of buffer.cpp stay inside *)
(* the block, and the block with its position is a queue of bytes.         *)
(***************************************************************************)
EXTENDS EvBuffer, SequenceTheorems, TLAPS

\* Every byte in the buffer is one that was put there.
AllWritten == \A i \in misalign .. misalign + off - 1 : mem[i] \in Byte

BufInv == TypeOK /\ InsideBlock /\ AllWritten /\ CallbackIsTold

LEMMA ChunkIsSeq ==
  ASSUME NEW s \in Chunk
  PROVE  /\ s \in Seq(Byte) /\ Len(s) \in Nat
         /\ \A i \in 1 .. Len(s) : s[i] \in Byte
  <1>1. PICK k \in 0 .. MaxChunk : s \in [1 .. k -> Byte]
    BY DEF Chunk
  <1>2. k \in Nat
    BY BufferAssumption, SMT
  <1>3. s \in Seq(Byte)
    BY <1>1, <1>2, SMT
  <1> QED
    BY <1>3, LenProperties, ElementOfSeq

LEMMA Offsets ==
  ASSUME NEW p \in Nat, NEW n \in Nat, NEW i \in 1 .. n
  PROVE  p + i - 1 \in p .. p + n - 1
  BY SMT

LEMMA InitHolds == Init => BufInv
  <1> SUFFICES ASSUME Init PROVE BufInv
      OBVIOUS
  <1>0. 0 .. 0 - 1 = {}
    BY SMT
  <1>1. mem \in [0 .. totallen - 1 -> Byte \cup {NoByte}]
    <2>1. [i \in {} |-> NoByte] \in [{} -> Byte \cup {NoByte}]
      OBVIOUS
    <2> QED
      BY <1>0, <2>1 DEF Init
  <1>2. TypeOK /\ InsideBlock /\ CallbackIsTold
    <2>1. totallen \in Nat /\ misalign \in Nat /\ off \in Nat /\ told \in Nat
      BY SMT DEF Init
    <2>3. cb \in BOOLEAN /\ (cb => told = off)
      BY Zenon DEF Init
    <2>2. InsideBlock
      BY SMT DEF Init, InsideBlock
    <2> QED
      BY <1>1, <2>1, <2>2, <2>3 DEF TypeOK, CallbackIsTold
  <1>3. AllWritten
    BY SMT DEF Init, AllWritten
  <1> QED
    BY <1>2, <1>3 DEF BufInv

\* evbuffer_expand makes room for len bytes after the ones there are.
LEMMA ExpandMakesRoom ==
  ASSUME BufInv, NEW len \in Nat, NEW length \in Lengths(len)
  PROVE  /\ length \in Nat /\ ExpandedMis(len) \in Nat
         /\ ExpandedMis(len) + off + len <= length
         /\ length >= totallen \/ ~Grows(len)
  <1>1. /\ totallen \in Nat /\ misalign \in Nat /\ off \in Nat
        /\ misalign + off <= totallen
    BY DEF BufInv, TypeOK, InsideBlock
  <1>2. CASE Grows(len)
    <2>1. length \in Nat /\ length >= misalign + off + len
      BY <1>1, <1>2, BufferAssumption, SMT DEF Lengths, GrownLengths
    <2>2. ExpandedMis(len) = 0 /\ totallen < misalign + off + len
      BY <1>1, <1>2, SMT DEF Grows, ExpandedMis, Fits
    <2> QED
      BY <1>1, <2>1, <2>2, SMT
  <1>3. CASE ~Grows(len)
    BY <1>1, <1>3, SMT DEF Lengths, Grows, ExpandedMis, Fits
  <1> QED
    BY <1>2, <1>3

\* evbuffer_expand keeps the bytes.
LEMMA ExpandKeepsBytes ==
  ASSUME BufInv, NEW len \in Nat, NEW length \in Lengths(len)
  PROVE  /\ ExpandedMem(len, length) \in [0 .. length - 1 -> Byte \cup {NoByte}]
         /\ \A i \in 0 .. off - 1 :
              ExpandedMem(len, length)[ExpandedMis(len) + i] = mem[misalign + i]
  <1>1. /\ totallen \in Nat /\ misalign \in Nat /\ off \in Nat
        /\ misalign + off <= totallen /\ length \in Nat
        /\ mem \in [0 .. totallen - 1 -> Byte \cup {NoByte}]
    BY ExpandMakesRoom DEF BufInv, TypeOK, InsideBlock
  <1>2. CASE Fits(len)
    <2>1. length = totallen
      BY <1>2 DEF Lengths, Grows
    <2> QED
      BY <1>1, <1>2, <2>1 DEF ExpandedMem, ExpandedMis
  <1>3. CASE ~Fits(len)
    <2>1. off <= length
      BY <1>1, <1>3, ExpandMakesRoom, SMT DEF ExpandedMis
    <2>2. ExpandedMem(len, length) = MovedMem(length) /\ ExpandedMis(len) = 0
      BY <1>3 DEF ExpandedMem, ExpandedMis
    <2>3. MovedMem(length) \in [0 .. length - 1 -> Byte \cup {NoByte}]
      BY <1>1, SMT DEF MovedMem
    <2>4. \A i \in 0 .. off - 1 : MovedMem(length)[i] = mem[misalign + i]
      BY <1>1, <2>1, SMT DEF MovedMem
    <2> QED
      BY <2>2, <2>3, <2>4, SMT
  <1> QED
    BY <1>2, <1>3

-----------------------------------------------------------------------------
(* The content as a sequence.                                              *)

LEMMA ContentIsSeq ==
  ASSUME BufInv
  PROVE  /\ Content \in Seq(Byte) /\ Len(Content) = off
         /\ \A i \in 1 .. off : Content[i] = mem[misalign + i - 1]
  <1>1. off \in Nat /\ misalign \in Nat
    BY DEF BufInv, TypeOK
  <1>2. \A i \in 1 .. off : mem[misalign + i - 1] \in Byte
    BY <1>1, SMT DEF BufInv, AllWritten
  <1>3. Content \in [1 .. off -> Byte]
    BY <1>2 DEF Content
  <1>4. Content \in Seq(Byte)
    BY <1>1, <1>3, SMT
  <1>5. Len(Content) = off
    BY <1>1, <1>3, <1>4, LenProperties, SMT
  <1> QED
    BY <1>4, <1>5 DEF Content

LEMMA NotifyKeeps ==
  ASSUME BufInv, Notify, off' \in Nat
  PROVE  cb' \in BOOLEAN /\ told' \in Nat /\ CallbackIsTold'
  BY DEF BufInv, TypeOK, Notify, CallbackIsTold

\* A chunk that is no longer than the room made for it goes after the bytes.
LEMMA StoreFacts ==
  ASSUME BufInv, NEW s \in Chunk, NEW len \in Nat, Len(s) <= len, Store(s, len)
  PROVE  BufInv' /\ Content' = Content \o s
  <1>1. PICK length \in Lengths(len) :
          LET m == ExpandedMis(len)
              old == ExpandedMem(len, length)
          IN  /\ totallen' = length
              /\ misalign' = m
              /\ mem' = [i \in 0 .. length - 1 |->
                           IF i \in m + off .. m + off + Len(s) - 1
                           THEN s[i - (m + off) + 1] ELSE old[i]]
              /\ off' = off + Len(s)
              /\ taken' = <<>>
              /\ Notify
    BY DEF Store
  <1> DEFINE m == ExpandedMis(len)
             old == ExpandedMem(len, length)
  <1>2. /\ s \in Seq(Byte) /\ Len(s) \in Nat
        /\ \A i \in 1 .. Len(s) : s[i] \in Byte
    BY ChunkIsSeq
  <1>3. /\ length \in Nat /\ m \in Nat /\ m + off + len <= length
    BY ExpandMakesRoom
  <1>4. /\ old \in [0 .. length - 1 -> Byte \cup {NoByte}]
        /\ \A i \in 0 .. off - 1 : old[m + i] = mem[misalign + i]
    BY ExpandKeepsBytes
  <1>5. /\ off \in Nat /\ misalign \in Nat
        /\ \A i \in misalign .. misalign + off - 1 : mem[i] \in Byte
    BY DEF BufInv, TypeOK, AllWritten
  <1>6. /\ totallen' = length /\ misalign' = m /\ off' = off + Len(s) /\ Notify
        /\ mem' = [i \in 0 .. length - 1 |->
                     IF i \in m + off .. m + off + Len(s) - 1
                     THEN s[i - (m + off) + 1] ELSE old[i]]
    BY <1>1
  <1> HIDE DEF m, old
  <1>7. mem' \in [0 .. totallen' - 1 -> Byte \cup {NoByte}]
    <2>1. ASSUME NEW i \in 0 .. length - 1, i \in m + off .. m + off + Len(s) - 1
          PROVE  s[i - (m + off) + 1] \in Byte
      BY <2>1, <1>2, <1>3, <1>5, SMT
    <2> QED
      BY <2>1, <1>4, <1>6
  <1>8. \A i \in 0 .. off - 1 : mem'[m + i] = mem[misalign + i] /\ mem'[m + i] \in Byte
    <2> SUFFICES ASSUME NEW i \in 0 .. off - 1
                 PROVE  mem'[m + i] = mem[misalign + i] /\ mem'[m + i] \in Byte
        OBVIOUS
    <2>1. /\ m + i \in 0 .. length - 1 /\ m + i \notin m + off .. m + off + Len(s) - 1
          /\ misalign + i \in misalign .. misalign + off - 1
      BY <1>2, <1>3, <1>5, SMT
    <2> QED
      BY <2>1, <1>4, <1>5, <1>6
  <1>9. \A i \in 1 .. Len(s) : mem'[m + off + i - 1] = s[i]
    BY <1>2, <1>3, <1>5, <1>6, SMT
  <1>10. TypeOK' /\ CallbackIsTold'
    BY <1>2, <1>3, <1>5, <1>6, <1>7, NotifyKeeps DEF TypeOK
  <1>11. InsideBlock'
    BY <1>2, <1>3, <1>5, <1>6, SMT DEF InsideBlock
  <1>12. AllWritten'
    <2> SUFFICES ASSUME NEW i \in m .. m + (off + Len(s)) - 1
                 PROVE  mem'[i] \in Byte
        BY <1>6 DEF AllWritten
    <2>1. CASE i < m + off
      <3>1. i - m \in 0 .. off - 1 /\ m + (i - m) = i
        BY <2>1, <1>3, <1>5, SMT
      <3> QED
        BY <3>1, <1>8
    <2>2. CASE i >= m + off
      <3>1. i - (m + off) + 1 \in 1 .. Len(s) /\ m + off + (i - (m + off) + 1) - 1 = i
        BY <2>2, <1>2, <1>3, <1>5, SMT
      <3> QED
        BY <3>1, <1>2, <1>9
    <2> QED
      BY <2>1, <2>2, <1>3, <1>5, SMT
  <1>13. BufInv'
    BY <1>10, <1>11, <1>12 DEF BufInv
  <1>14. /\ Content \in Seq(Byte) /\ Len(Content) = off
         /\ \A i \in 1 .. off : Content[i] = mem[misalign + i - 1]
    BY ContentIsSeq
  <1>15. /\ Content' \in Seq(Byte) /\ Len(Content') = off'
         /\ \A i \in 1 .. off' : Content'[i] = mem'[misalign' + i - 1]
    <2>1. off' \in Nat /\ misalign' \in Nat
      BY <1>13 DEF BufInv, TypeOK
    <2>2. ASSUME NEW i \in 1 .. off' PROVE mem'[misalign' + i - 1] \in Byte
      <3>1. misalign' + i - 1 \in misalign' .. misalign' + off' - 1
        BY <2>1, Offsets
      <3> QED
        BY <3>1, <1>12 DEF AllWritten
    <2>3. Content' = [i \in 1 .. off' |-> mem'[misalign' + i - 1]]
      BY DEF Content
    <2>4. Content' \in [1 .. off' -> Byte]
      BY <2>2, <2>3
    <2>5. Content' \in Seq(Byte)
      BY <2>1, <2>4, SMT
    <2>6. Len(Content') = off'
      BY <2>1, <2>4, <2>5, LenProperties, SMT
    <2> QED
      BY <2>3, <2>5, <2>6
  <1>16. Content' = Content \o s
    <2>1. Content \o s \in Seq(Byte) /\ Len(Content \o s) = off + Len(s)
      BY <1>2, <1>14, ConcatProperties
    <2>2. ASSUME NEW i \in 1 .. off + Len(s)
          PROVE  Content'[i] = (Content \o s)[i]
      <3>1. CASE i <= off
        <4>1. (Content \o s)[i] = Content[i] /\ i \in 1 .. off
          BY <3>1, <1>2, <1>5, <1>14, SMT
        <4>2. Content'[i] = mem'[m + i - 1]
          BY <1>15, <1>6
        <4>3. i - 1 \in 0 .. off - 1 /\ m + (i - 1) = m + i - 1 /\ misalign + (i - 1) = misalign + i - 1
          BY <4>1, <1>3, <1>5, SMT
        <4> QED
          BY <4>1, <4>2, <4>3, <1>8, <1>14
      <3>2. CASE i > off
        <4>1. (Content \o s)[i] = s[i - off] /\ i - off \in 1 .. Len(s)
          BY <3>2, <1>2, <1>5, <1>14, SMT
        <4>2. Content'[i] = mem'[m + i - 1]
          BY <1>15, <1>6
        <4>3. m + off + (i - off) - 1 = m + i - 1
          BY <1>2, <1>3, <1>5, SMT
        <4> QED
          BY <4>1, <4>2, <4>3, <1>9
      <3>3. i <= off \/ i > off
        BY <1>2, <1>5, SMT
      <3> QED
        BY <3>1, <3>2, <3>3
    <2> QED
      BY <2>1, <2>2, <1>6, <1>15, SeqEqual
  <1> QED
    BY <1>13, <1>16

\* What k bytes fewer leave.
Left(k) == SubSeq(Content, k + 1, off)

Cut(k) == IF k >= off THEN off ELSE k

LEMMA AdvanceFacts ==
  ASSUME BufInv, NEW k \in Nat, Advance(k), Notify
  PROVE  BufInv' /\ Content' = Left(Cut(k)) /\ Cut(k) \in 0 .. off
  <1>1. /\ off \in Nat /\ misalign \in Nat /\ totallen \in Nat
        /\ misalign + off <= totallen
        /\ \A i \in misalign .. misalign + off - 1 : mem[i] \in Byte
    BY DEF BufInv, TypeOK, InsideBlock, AllWritten
  <1>2. /\ misalign' \in Nat /\ off' \in Nat /\ misalign' + off' <= totallen
        /\ Cut(k) \in 0 .. off /\ Cut(k) \in Nat /\ off' = off - Cut(k)
    BY <1>1, SMT DEF Advance, Cut
  <1>3. mem' = mem /\ totallen' = totallen
    BY DEF Advance
  <1>4. off' # 0 => misalign' = misalign + Cut(k)
    BY <1>1, SMT DEF Advance, Cut
  <1>5. TypeOK' /\ CallbackIsTold'
    BY <1>2, <1>3, NotifyKeeps DEF BufInv, TypeOK
  <1>6. InsideBlock'
    BY <1>2, <1>3 DEF InsideBlock
  <1>7. \A i \in 1 .. off - Cut(k) :
          /\ misalign' = misalign + Cut(k)
          /\ Cut(k) + i \in 1 .. off
          /\ misalign' + i - 1 \in misalign .. misalign + off - 1
          /\ misalign' + i - 1 = misalign + (Cut(k) + i) - 1
    <2> SUFFICES ASSUME NEW i \in 1 .. off - Cut(k)
                 PROVE  /\ misalign' = misalign + Cut(k)
                        /\ Cut(k) + i \in 1 .. off
                        /\ misalign' + i - 1 \in misalign .. misalign + off - 1
                        /\ misalign' + i - 1 = misalign + (Cut(k) + i) - 1
        OBVIOUS
    <2>1. off' # 0
      BY <1>1, <1>2, SMT
    <2>2. misalign' = misalign + Cut(k)
      BY <2>1, <1>4
    <2> QED
      BY <2>2, <1>1, <1>2, SMT
  <1>8. AllWritten'
    <2>1. ASSUME NEW j \in misalign' .. misalign' + off' - 1
          PROVE  mem[j] \in Byte
      <3>1. off' # 0
        BY <1>2, <2>1, SMT
      <3>2. j \in misalign .. misalign + off - 1
        BY <1>1, <1>2, <1>4, <2>1, <3>1, SMT
      <3> QED
        BY <1>1, <3>2
    <2> QED
      BY <2>1, <1>3 DEF AllWritten
  <1>9. BufInv'
    BY <1>5, <1>6, <1>8 DEF BufInv
  <1>10. /\ Content \in Seq(Byte) /\ Len(Content) = off
         /\ \A i \in 1 .. off : Content[i] = mem[misalign + i - 1]
         /\ \A i \in 1 .. off : Content[i] \in Byte
    BY ContentIsSeq, ElementOfSeq
  <1>11. Content' = Left(Cut(k))
    <2> DEFINE c == Content'
               l == Left(Cut(k))
               o == off - Cut(k)
    <2>1. o \in Nat
      BY <1>1, <1>2, SMT
    <2>2. /\ c = [i \in 1 .. o |-> mem'[misalign' + i - 1]]
          /\ \A i \in 1 .. o : c[i] = Content[Cut(k) + i]
      BY <1>2, <1>3, <1>7, <1>10 DEF Content
    <2>3. \A i \in 1 .. o : c[i] \in Byte
      BY <2>2, <1>7, <1>10
    <2>4. /\ Cut(k) + 1 \in Int /\ off \in Int
          /\ \A i \in Cut(k) + 1 .. off : i \in 1 .. off
          /\ off - (Cut(k) + 1) + 1 = o
          /\ (IF Cut(k) + 1 <= off THEN off - (Cut(k) + 1) + 1 ELSE 0) = o
          /\ \A i \in 1 .. o : (Cut(k) + 1) + i - 1 = Cut(k) + i
      BY <1>1, <1>2, SMT
    <2>5. /\ l \in Seq(Byte) /\ Len(l) = o
          /\ \A i \in 1 .. o : l[i] = Content[Cut(k) + i]
      BY <2>4, <1>10, SubSeqProperties DEF Left
    <2> HIDE DEF c, l, o
    <2>6. c \in [1 .. o -> Byte]
      BY <2>2, <2>3
    <2>7. c \in Seq(Byte)
      BY <2>1, <2>6, SMT
    <2>8. Len(c) = o
      BY <2>1, <2>6, <2>7, LenProperties, SMT
    <2>9. c = l
      BY <2>2, <2>5, <2>7, <2>8, SeqEqual
    <2> QED
      BY <2>9 DEF c, l
  <1> QED
    BY <1>2, <1>9, <1>11

-----------------------------------------------------------------------------
(* One lemma for each call.                                                *)

LEMMA ExpandFailsFacts ==
  ASSUME BufInv, NEW len \in Nat, ExpandFails(len)
  PROVE  BufInv' /\ Content' = Content
  <1>1. /\ off \in Nat /\ misalign \in Nat /\ totallen \in Nat
        /\ misalign + off <= totallen
        /\ mem \in [0 .. totallen - 1 -> Byte \cup {NoByte}]
        /\ \A i \in misalign .. misalign + off - 1 : mem[i] \in Byte
    BY DEF BufInv, TypeOK, InsideBlock, AllWritten
  <1>2. /\ mem' = MovedMem(totallen) /\ misalign' = 0
        /\ totallen' = totallen /\ off' = off /\ cb' = cb /\ told' = told
    BY DEF ExpandFails
  <1>3. MovedMem(totallen) \in [0 .. totallen - 1 -> Byte \cup {NoByte}]
    BY <1>1, SMT DEF MovedMem
  <1>4. \A i \in 0 .. off - 1 :
          /\ MovedMem(totallen)[i] = mem[misalign + i]
          /\ misalign + i \in misalign .. misalign + off - 1
    BY <1>1, SMT DEF MovedMem
  <1>5. TypeOK'
    BY <1>2, <1>3 DEF BufInv, TypeOK
  <1>6. InsideBlock'
    BY <1>1, <1>2, SMT DEF InsideBlock
  <1>7. CallbackIsTold'
    BY <1>2 DEF BufInv, CallbackIsTold
  <1>8. AllWritten'
    <2>1. 0 + off - 1 = off - 1
      BY <1>1, SMT
    <2> QED
      BY <2>1, <1>1, <1>2, <1>4 DEF AllWritten
  <1>9. Content' = Content
    <2>1. \A i \in 1 .. off : /\ i - 1 \in 0 .. off - 1
                            /\ 0 + i - 1 = i - 1
                            /\ misalign + (i - 1) = misalign + i - 1
      BY <1>1, SMT
    <2>2. \A i \in 1 .. off : mem'[0 + i - 1] = mem[misalign + i - 1]
      BY <2>1, <1>2, <1>4
    <2> QED
      BY <2>2, <1>2 DEF Content
  <1> QED
    BY <1>5, <1>6, <1>7, <1>8, <1>9 DEF BufInv

LEMMA ReadSizeIsNat ==
  ASSUME BufInv, NEW avail \in 0 .. MaxChunk, NEW howmuch \in {-1} \cup 1 .. MaxChunk
  PROVE  ReadSize(avail, howmuch) \in Nat
  <1>1. /\ avail \in Nat /\ howmuch \in Int /\ howmuch >= -1
        /\ totallen \in Nat /\ MaxRead \in Nat
    BY BufferAssumption, SMT DEF BufInv, TypeOK
  <1> DEFINE quarter == IF avail > 4 * totallen THEN 4 * totallen ELSE avail
             n == IF avail = 0 THEN MaxRead
                  ELSE IF avail > MaxRead /\ avail > howmuch
                  THEN IF quarter < MaxRead THEN MaxRead ELSE quarter
                  ELSE avail
  <1>2. quarter \in Nat
    BY <1>1, SMT
  <1> HIDE DEF quarter
  <1>3. n \in Nat
    BY <1>1, <1>2
  <1>4. ReadSize(avail, howmuch) = IF howmuch < 0 \/ howmuch > n THEN n ELSE howmuch
    BY DEF ReadSize, quarter
  <1> HIDE DEF n
  <1> QED
    BY <1>1, <1>3, <1>4, SMT

\* A call that leaves the content alone hands out nothing.
LEMMA SameContentIsTake ==
  ASSUME BufInv, Content' = Content, taken' = <<>>
  PROVE  Queue!Next
  <1>1. off \in Nat /\ Content \in Seq(Byte) /\ Len(Content) = off
    BY ContentIsSeq DEF BufInv, TypeOK
  <1>2. /\ 0 \in 0 .. Len(Content) /\ 0 <= Len(Content) /\ 0 + 1 = 1
    BY <1>1, SMT
  <1>3. SubSeq(Content, 1, Len(Content)) = Content
    BY <1>1, SubSeqFull
  <1>4. Queue!Take(0)
    BY <1>2, <1>3 DEF Queue!Take
  <1> QED
    BY <1>2, <1>4 DEF Queue!Next

\* The bytes a drain leaves are the newest, and those handed out the oldest.
LEMMA AdvanceIsTake ==
  ASSUME BufInv, NEW k \in Nat, Advance(k), Notify, taken' \in {Taken(k), <<>>}
  PROVE  Queue!Next
  <1>1. Content' = Left(Cut(k)) /\ Cut(k) \in 0 .. off
    BY AdvanceFacts
  <1>2. off \in Nat /\ Len(Content) = off
    BY ContentIsSeq DEF BufInv, TypeOK
  <1>3. Taken(k) = SubSeq(Content, 1, Cut(k))
    BY DEF Taken, Cut
  <1>4. Cut(k) <= Len(Content)
    BY <1>1, <1>2, SMT
  <1>5. Queue!Take(Cut(k))
    BY <1>1, <1>2, <1>3, <1>4 DEF Queue!Take, Left
  <1> QED
    BY <1>1, <1>2, <1>5 DEF Queue!Next

-----------------------------------------------------------------------------
\* Every call keeps the invariant and is a step of the queue.
LEMMA NextFacts ==
  ASSUME BufInv, Next
  PROVE  BufInv' /\ Queue!Next
  <1>1. ASSUME NEW s \in Chunk, NEW len \in Nat, Len(s) <= len, Store(s, len)
        PROVE  BufInv' /\ Queue!Next
    <2>1. BufInv' /\ Content' = Content \o s
      BY <1>1, StoreFacts
    <2>2. taken' = <<>>
      BY <1>1 DEF Store
    <2>3. Queue!Put(s) /\ s \in Queue!Chunk
      BY <2>1, <2>2 DEF Queue!Put, Chunk, Queue!Chunk
    <2> QED
      BY <2>1, <2>3 DEF Queue!Next
  <1>2. ASSUME NEW len \in Nat, ExpandFails(len)
        PROVE  BufInv' /\ Queue!Next
    <2>1. BufInv' /\ Content' = Content /\ taken' = <<>>
      BY <1>2, ExpandFailsFacts DEF ExpandFails
    <2> QED
      BY <2>1, SameContentIsTake
  <1>3. ASSUME NEW s \in Chunk, Add(s)
        PROVE  BufInv' /\ Queue!Next
    <2>1. Len(s) \in Nat /\ Len(s) <= Len(s)
      BY ChunkIsSeq, SMT
    <2> QED
      BY <2>1, <1>1, <1>3 DEF Add
  <1>4. ASSUME NEW s \in Chunk, AddFails(s)
        PROVE  BufInv' /\ Queue!Next
    BY <1>2, <1>4, ChunkIsSeq DEF AddFails
  <1>5. ASSUME NEW s \in Chunk, NEW avail \in 0 .. MaxChunk,
               NEW howmuch \in {-1} \cup 1 .. MaxChunk, Read(s, avail, howmuch)
        PROVE  BufInv' /\ Queue!Next
    BY <1>1, <1>5, ReadSizeIsNat DEF Read
  <1>6. ASSUME NEW avail \in 0 .. MaxChunk,
               NEW howmuch \in {-1} \cup 1 .. MaxChunk, ReadFails(avail, howmuch)
        PROVE  BufInv' /\ Queue!Next
    BY <1>2, <1>6, ReadSizeIsNat DEF ReadFails
  <1>7. ASSUME NEW k \in 0 .. MaxOff, Drain(k) \/ Remove(k)
        PROVE  BufInv' /\ Queue!Next
    <2>1. k \in Nat
      BY BufferAssumption, SMT
    <2>2. Advance(k) /\ Notify /\ taken' \in {Taken(k), <<>>}
      BY <1>7 DEF Drain, Remove
    <2> QED
      BY <2>1, <2>2, AdvanceFacts, AdvanceIsTake
  <1>8. ASSUME NEW set \in BOOLEAN, SetCb(set)
        PROVE  BufInv' /\ Queue!Next
    <2>1. /\ mem' = mem /\ totallen' = totallen /\ misalign' = misalign /\ off' = off
          /\ cb' = set /\ told' = off /\ taken' = <<>>
      BY <1>8 DEF SetCb, block
    <2>2. TypeOK' /\ InsideBlock' /\ AllWritten' /\ CallbackIsTold'
      BY <2>1 DEF BufInv, TypeOK, InsideBlock, AllWritten, CallbackIsTold
    <2>3. Content' = Content
      BY <2>1 DEF Content
    <2> QED
      BY <2>1, <2>2, <2>3, SameContentIsTake DEF BufInv
  <1> QED
    BY <1>3, <1>4, <1>5, <1>6, <1>7, <1>8 DEF Next

LEMMA StutterFacts ==
  ASSUME BufInv, UNCHANGED vars
  PROVE  BufInv' /\ UNCHANGED Queue!vars
  BY DEF vars, BufInv, TypeOK, InsideBlock, AllWritten, CallbackIsTold, Content, Queue!vars

\* The invariant that carries the proofs: the fields have their types, the
\* bytes lie inside the block and were all written, and the callback of
\* buffer.cpp:88, 121 and 169 has heard of the length.
THEOREM InvHolds == Spec => []BufInv
  <1>1. BufInv /\ [Next]_vars => BufInv'
    BY NextFacts, StutterFacts
  <1> QED
    BY <1>1, InitHolds, PTL DEF Spec

\* No call of buffer.cpp reads or writes outside the block it allocated,
\* whatever the sizes of the block, of the chunks and of the reads.
THEOREM StaysInsideBlock == Spec => []InsideBlock
  BY InvHolds, PTL DEF BufInv

\* A callback that stays set has been told of every change of the length.
THEOREM CallbackHears == Spec => []CallbackIsTold
  BY InvHolds, PTL DEF BufInv

\* The block that slides and grows is a queue of bytes: they leave in the
\* order they came, and none is lost or changed by a move or a realloc.
THEOREM BufferImplementsByteQueue == Spec => ImplementsByteQueue
  <1>1. Init => Queue!Init
    <2> SUFFICES ASSUME Init PROVE Queue!Init
        OBVIOUS
    <2>1. BufInv
      BY InitHolds
    <2>2. Content \in Seq(Byte) /\ Len(Content) = 0
      BY <2>1, ContentIsSeq DEF Init
    <2>3. Content = <<>>
      BY <2>2, EmptySeq
    <2> QED
      BY <2>3 DEF Init, Queue!Init
  <1>2. BufInv /\ [Next]_vars => [Queue!Next]_(Queue!vars)
    BY NextFacts, StutterFacts
  <1> QED
    BY <1>1, <1>2, InvHolds, PTL DEF Spec, ImplementsByteQueue, Queue!Spec
===============================================================================
