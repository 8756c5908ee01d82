--------------------------- MODULE EventBaseProofs ---------------------------
(***************************************************************************)
(* Proofs about EventBase.  Good(b) is what every function of the module   *)
(* on base keeps: the fields are typed, the active queues and the counters *)
(* agree with the flags.  Each function has one lemma; the invariant of    *)
(* the specification follows from one step per action.                     *)
(***************************************************************************)
EXTENDS EventBase, FiniteSetTheorems, SequenceTheorems, TLAPS

Good(b) == b \in Base /\ QueuedOnce(b) /\ CountsAgree(b)

-----------------------------------------------------------------------------
(* Cardinality.                                                            *)

LEMMA PendingFinite ==
  ASSUME NEW b
  PROVE  IsFiniteSet(Pending(b)) /\ IsFiniteSet(ActiveEvents(b))
<1>1. IsFiniteSet(Queue)
  <2>1. Queue = (({} \cup {"TIMEOUT"}) \cup {"INSERTED"}) \cup {"ACTIVE"}
    BY DEF Queue
  <2> QED BY <2>1, FS_EmptySet, FS_AddElement
<1>2. IsFiniteSet(Event \ {SigPipe})
  BY EventAssumption, FS_RemoveElement
<1>3. IsFiniteSet((Event \ {SigPipe}) \X Queue)
  BY <1>1, <1>2, FS_Product
<1>4. Pending(b) \in SUBSET ((Event \ {SigPipe}) \X Queue)
  BY DEF Pending
<1>5. ActiveEvents(b) \in SUBSET Event
  BY DEF ActiveEvents
<1> QED BY <1>3, <1>4, <1>5, FS_Subset, EventAssumption

LEMMA CountsAfterInsert ==
  ASSUME NEW b, NEW c, CountsAgree(b),
         b.flags \in [Event -> SUBSET Queue],
         NEW e \in Event, NEW q \in Queue, q \notin b.flags[e],
         c.flags = [b.flags EXCEPT ![e] = @ \cup {q}],
         c.count = IF e = SigPipe THEN b.count ELSE b.count + 1,
         c.countActive = IF q = "ACTIVE" THEN b.countActive + 1 ELSE b.countActive
  PROVE  CountsAgree(c)
<1>1. Pending(c) = IF e = SigPipe THEN Pending(b)
                   ELSE Pending(b) \cup {<<e, q>>}
  BY DEF Pending
<1>2. <<e, q>> \notin Pending(b)
  BY DEF Pending
<1>3. ActiveEvents(c) = IF q = "ACTIVE" THEN ActiveEvents(b) \cup {e}
                        ELSE ActiveEvents(b)
  BY DEF ActiveEvents
<1>4. q = "ACTIVE" => e \notin ActiveEvents(b)
  BY DEF ActiveEvents
<1>5. Cardinality(Pending(b) \cup {<<e, q>>}) = Cardinality(Pending(b)) + 1
  BY <1>2, PendingFinite, FS_AddElement, Zenon
<1>6. q = "ACTIVE" =>
        Cardinality(ActiveEvents(b) \cup {e}) = Cardinality(ActiveEvents(b)) + 1
  BY <1>4, PendingFinite, FS_AddElement, Zenon
<1> QED BY <1>1, <1>3, <1>5, <1>6 DEF CountsAgree

LEMMA CountsAfterRemove ==
  ASSUME NEW b, NEW c, CountsAgree(b),
         b.flags \in [Event -> SUBSET Queue],
         NEW e \in Event, NEW q \in Queue, q \in b.flags[e],
         c.flags = [b.flags EXCEPT ![e] = @ \ {q}],
         c.count = IF e = SigPipe THEN b.count ELSE b.count - 1,
         c.countActive = IF q = "ACTIVE" THEN b.countActive - 1 ELSE b.countActive
  PROVE  CountsAgree(c)
<1>1. Pending(c) = IF e = SigPipe THEN Pending(b)
                   ELSE Pending(b) \ {<<e, q>>}
  BY DEF Pending
<1>2. e # SigPipe => <<e, q>> \in Pending(b)
  BY DEF Pending
<1>3. ActiveEvents(c) = IF q = "ACTIVE" THEN ActiveEvents(b) \ {e}
                        ELSE ActiveEvents(b)
  BY DEF ActiveEvents
<1>4. q = "ACTIVE" => e \in ActiveEvents(b)
  BY DEF ActiveEvents
<1>5. e # SigPipe =>
        Cardinality(Pending(b) \ {<<e, q>>}) = Cardinality(Pending(b)) - 1
  BY <1>2, PendingFinite, FS_RemoveElement, Zenon
<1>6. q = "ACTIVE" =>
        Cardinality(ActiveEvents(b) \ {e}) = Cardinality(ActiveEvents(b)) - 1
  BY <1>4, PendingFinite, FS_RemoveElement, Zenon
<1> QED BY <1>1, <1>3, <1>5, <1>6 DEF CountsAgree

-----------------------------------------------------------------------------
(* The active queues.                                                      *)

\* An event that is in a queue once, and at which places.
Position(s, e, k) ==
  k \in 1 .. Len(s) /\ s[k] = e /\ \A i \in 1 .. Len(s) : s[i] = e => i = k

LEMMA UnlinkProperties ==
  ASSUME NEW s \in Seq(Event), NEW e \in Event, NEW k \in 1 .. Len(s),
         Position(s, e, k)
  PROVE  /\ Unlink(s, e) \in Seq(Event)
         /\ Len(Unlink(s, e)) = Len(s) - 1
         /\ \A i \in 1 .. Len(s) - 1 :
              Unlink(s, e)[i] = IF i < k THEN s[i] ELSE s[i + 1]
<1> DEFINE n == Len(s) - 1
           u == [i \in 1 .. n |-> IF i < k THEN s[i] ELSE s[i + 1]]
<1>1. Len(s) \in Nat /\ Len(s) # 0
  BY LenProperties DEF Position
<1>2. n \in Nat
  BY <1>1
<1>3. (CHOOSE i \in 1 .. Len(s) : s[i] = e) = k
  BY DEF Position
<1>4. Unlink(s, e) = u
  BY <1>3 DEF Unlink
<1>5. \A i \in 1 .. n : i \in 1 .. Len(s) /\ i + 1 \in 1 .. Len(s)
  BY <1>1
<1>6. u \in [1 .. n -> Event]
  BY <1>5, ElementOfSeq
<1>7. u \in Seq(Event)
  BY <1>2, <1>6, SeqDef
<1>8. Len(u) = n
  BY <1>2, <1>6, <1>7, LenProperties
<1> QED BY <1>4, <1>7, <1>8

\* A queue of priority p under the flags and priorities of the events.
QueueOf(s, p, flags, pri) ==
  \A i \in 1 .. Len(s) :
    /\ "ACTIVE" \in flags[s[i]]
    /\ pri[s[i]] = p
    /\ \A j \in 1 .. Len(s) : s[j] = s[i] => j = i

Holds(s, e) == \E i \in 1 .. Len(s) : s[i] = e

LEMMA QueuedOnceFields ==
  ASSUME NEW b \in Base
  PROVE  QueuedOnce(b) <=>
           /\ \A p \in Pri : QueueOf(b.active[p], p, b.flags, b.pri)
           /\ \A e \in Event : "ACTIVE" \in b.flags[e] => Holds(b.active[b.pri[e]], e)
BY DEF QueuedOnce, QueueOf, Holds, ActiveEvents

LEMMA QueueElsewhere ==
  ASSUME NEW s \in Seq(Event), NEW p, NEW e \in Event,
         NEW flags, NEW after, NEW pri,
         \A f \in Event : f # e => after[f] = flags[f],
         QueueOf(s, p, flags, pri), pri[e] # p
  PROVE  QueueOf(s, p, after, pri)
<1> SUFFICES ASSUME NEW i \in 1 .. Len(s)
             PROVE  "ACTIVE" \in after[s[i]]
  BY DEF QueueOf
<1>1. s[i] \in Event
  BY ElementOfSeq
<1>2. s[i] # e
  BY DEF QueueOf
<1> QED BY <1>1, <1>2 DEF QueueOf

LEMMA QueueAppend ==
  ASSUME NEW s \in Seq(Event), NEW p, NEW e \in Event,
         NEW flags, NEW after, NEW pri,
         \A f \in Event : f # e => after[f] = flags[f], "ACTIVE" \in after[e],
         QueueOf(s, p, flags, pri), pri[e] = p, "ACTIVE" \notin flags[e]
  PROVE  /\ QueueOf(Append(s, e), p, after, pri)
         /\ Holds(Append(s, e), e)
         /\ \A f \in Event : Holds(s, f) => Holds(Append(s, e), f)
<1> DEFINE t == Append(s, e)
<1>1. Len(s) \in Nat
  BY LenProperties
<1>2. /\ t \in Seq(Event) /\ Len(t) = Len(s) + 1
      /\ \A i \in 1 .. Len(s) : t[i] = s[i]
      /\ t[Len(s) + 1] = e
  BY AppendProperties
<1>3. \A i \in 1 .. Len(s) : s[i] \in Event /\ s[i] # e
  BY ElementOfSeq DEF QueueOf
<1> HIDE DEF t
<1>4. \A i \in 1 .. Len(t) :
        IF i = Len(s) + 1 THEN t[i] = e
        ELSE i \in 1 .. Len(s) /\ t[i] = s[i] /\ t[i] # e /\ t[i] \in Event
  BY <1>1, <1>2, <1>3
<1>5. ASSUME NEW i \in 1 .. Len(t)
      PROVE  "ACTIVE" \in after[t[i]] /\ pri[t[i]] = p
  BY <1>4 DEF QueueOf
<1>6. ASSUME NEW i \in 1 .. Len(t), NEW j \in 1 .. Len(t), t[j] = t[i]
      PROVE  j = i
  BY <1>4, <1>6 DEF QueueOf
<1>7. Holds(t, e)
  BY <1>1, <1>2 DEF Holds
<1>8. ASSUME NEW f \in Event, Holds(s, f)
      PROVE  Holds(t, f)
  BY <1>1, <1>2, <1>8 DEF Holds
<1> QED BY <1>5, <1>6, <1>7, <1>8 DEF QueueOf, t

LEMMA QueueUnlink ==
  ASSUME NEW s \in Seq(Event), NEW p, NEW e \in Event,
         NEW flags, NEW after, NEW pri,
         \A f \in Event : f # e => after[f] = flags[f],
         QueueOf(s, p, flags, pri), Holds(s, e)
  PROVE  /\ Unlink(s, e) \in Seq(Event)
         /\ QueueOf(Unlink(s, e), p, after, pri)
         /\ \A f \in Event : f # e /\ Holds(s, f) => Holds(Unlink(s, e), f)
<1> DEFINE u == Unlink(s, e)
<1>1. Len(s) \in Nat
  BY LenProperties
<1>2. PICK k \in 1 .. Len(s) : s[k] = e
  BY DEF Holds
<1>3. Position(s, e, k)
  BY <1>2 DEF QueueOf, Position
<1>4. /\ u \in Seq(Event) /\ Len(u) = Len(s) - 1
      /\ \A i \in 1 .. Len(s) - 1 : u[i] = IF i < k THEN s[i] ELSE s[i + 1]
  BY <1>3, UnlinkProperties
<1> HIDE DEF u
<1> DEFINE at(i) == IF i < k THEN i ELSE i + 1
<1>5. \A i \in 1 .. Len(u) :
        /\ at(i) \in 1 .. Len(s) /\ at(i) # k
        /\ u[i] = s[at(i)]
  BY <1>1, <1>4
<1>6. \A i, j \in 1 .. Len(u) : at(i) = at(j) => i = j
  BY <1>1, <1>4
<1> HIDE DEF at
<1>7. \A i \in 1 .. Len(u) : u[i] # e /\ u[i] \in Event
  BY <1>3, <1>5, ElementOfSeq DEF Position
<1>8. ASSUME NEW i \in 1 .. Len(u)
      PROVE  "ACTIVE" \in after[u[i]] /\ pri[u[i]] = p
  BY <1>5, <1>7 DEF QueueOf
<1>9. ASSUME NEW i \in 1 .. Len(u), NEW j \in 1 .. Len(u), u[j] = u[i]
      PROVE  j = i
  BY <1>5, <1>6, <1>9 DEF QueueOf
<1>10. ASSUME NEW f \in Event, f # e, Holds(s, f)
       PROVE  Holds(u, f)
  <2>1. PICK j \in 1 .. Len(s) : s[j] = f
    BY <1>10 DEF Holds
  <2>2. j # k
    BY <1>2, <1>10, <2>1
  <2> DEFINE i == IF j < k THEN j ELSE j - 1
  <2>3. i \in 1 .. Len(u) /\ at(i) = j
    BY <1>1, <1>4, <2>2 DEF at
  <2> QED BY <1>5, <2>1, <2>3 DEF Holds
<1> QED BY <1>4, <1>8, <1>9, <1>10 DEF QueueOf, u

-----------------------------------------------------------------------------
(* One lemma for each function on base.                                    *)

LEMMA FieldUpdate ==
  ASSUME NEW b \in Base, NEW flags \in [Event -> SUBSET Queue],
         NEW count \in Int, NEW countActive \in Int,
         NEW active \in [Pri -> Seq(Event)]
  PROVE  [b EXCEPT !.flags = flags, !.count = count,
                   !.countActive = countActive, !.active = active] \in Base
BY DEF Base

LEMMA QueueInsertGood ==
  ASSUME NEW b, Good(b), NEW e \in Event, NEW q \in Queue, q \notin b.flags[e]
  PROVE  /\ Good(QueueInsert(b, e, q))
         /\ QueueInsert(b, e, q).flags = [b.flags EXCEPT ![e] = @ \cup {q}]
<1> DEFINE c == QueueInsert(b, e, q)
           act == [b.active EXCEPT ![b.pri[e]] = Append(@, e)]
<1>1. b \in Base /\ QueuedOnce(b) /\ CountsAgree(b)
  BY DEF Good
<1>2. /\ c.flags = [b.flags EXCEPT ![e] = @ \cup {q}]
      /\ c.count = IF e = SigPipe THEN b.count ELSE b.count + 1
      /\ c.countActive = IF q = "ACTIVE" THEN b.countActive + 1 ELSE b.countActive
      /\ c.active = IF q = "ACTIVE" THEN act ELSE b.active
      /\ c.pri = b.pri
  BY <1>1 DEF QueueInsert, Base
<1>3. b.active[b.pri[e]] \in Seq(Event) /\ b.pri[e] \in Pri
  BY <1>1 DEF Base
<1>4. c \in Base
  <2>1. Append(b.active[b.pri[e]], e) \in Seq(Event)
    BY <1>3, AppendProperties
  <2>2. /\ act \in [Pri -> Seq(Event)]
        /\ [b.flags EXCEPT ![e] = @ \cup {q}] \in [Event -> SUBSET Queue]
    BY <1>1, <2>1 DEF Base
  <2>3. c = [b EXCEPT !.flags = c.flags,
                      !.count = c.count,
                      !.countActive = c.countActive,
                      !.active = c.active]
    BY <1>1 DEF QueueInsert, Base
  <2>4. /\ c.flags \in [Event -> SUBSET Queue] /\ c.count \in Int
        /\ c.countActive \in Int /\ c.active \in [Pri -> Seq(Event)]
    BY <1>1, <1>2, <2>2 DEF Base
  <2> HIDE DEF act, c
  <2>5. [b EXCEPT !.flags = c.flags, !.count = c.count,
                  !.countActive = c.countActive, !.active = c.active] \in Base
    BY <1>1, <2>4, FieldUpdate
  <2> QED BY <2>3, <2>5, Zenon
<1>5. CountsAgree(c)
  <2> HIDE DEF c, act
  <2> QED BY <1>1, <1>2, CountsAfterInsert DEF Base
<1>6. QueuedOnce(c)
  <2> DEFINE new == b.flags[e] \cup {q}
  <2>1. new \in SUBSET Queue
    BY <1>1 DEF Base
  <2> HIDE DEF c, act
  <2>2. /\ b.flags \in [Event -> SUBSET Queue] /\ b.pri \in [Event -> Pri]
        /\ b.active \in [Pri -> Seq(Event)]
        /\ c.flags = [b.flags EXCEPT ![e] = new]
    BY <1>1, <1>2 DEF Base
  <2>3. /\ \A p \in Pri : QueueOf(b.active[p], p, b.flags, b.pri)
        /\ \A f \in Event : "ACTIVE" \in b.flags[f] => Holds(b.active[b.pri[f]], f)
    BY <1>1, QueuedOnceFields
  <2>4. CASE q # "ACTIVE"
    <3>1. \A f \in Event : "ACTIVE" \in c.flags[f] <=> "ACTIVE" \in b.flags[f]
      BY <2>2, <2>4
    <3>2. \A p \in Pri : QueueOf(c.active[p], p, c.flags, c.pri)
      BY <1>2, <2>2, <2>3, <2>4, <3>1, ElementOfSeq DEF QueueOf
    <3> QED BY <1>2, <1>4, <2>3, <2>4, <3>1, <3>2, QueuedOnceFields
  <2>5. CASE q = "ACTIVE"
    <3> DEFINE r == b.pri[e]
               s == b.active[r]
    <3>1. /\ c.active[r] = Append(s, e)
          /\ \A p \in Pri : p # r => c.active[p] = b.active[p]
      BY <1>2, <1>3, <2>2, <2>5 DEF act
    <3>2. s \in Seq(Event) /\ r \in Pri /\ QueueOf(s, r, b.flags, b.pri)
      BY <1>3, <2>3
    <3>3. /\ QueueOf(Append(s, e), r, c.flags, b.pri)
          /\ Holds(Append(s, e), e)
          /\ \A f \in Event : Holds(s, f) => Holds(Append(s, e), f)
      <4> HIDE DEF r, s, new
      <4>1. "ACTIVE" \in c.flags[e] /\ "ACTIVE" \notin b.flags[e] /\ b.pri[e] = r
        BY <2>2, <2>5 DEF new, r
      <4>2. \A f \in Event : f # e => c.flags[f] = b.flags[f]
        BY <2>2
      <4> QED BY <3>2, <4>1, <4>2, QueueAppend
    <3>4. \A p \in Pri : p # r => QueueOf(b.active[p], p, c.flags, b.pri)
      <4>1. \A f \in Event : f # e => c.flags[f] = b.flags[f]
        BY <2>2
      <4>2. \A p \in Pri : b.active[p] \in Seq(Event) /\ QueueOf(b.active[p], p, b.flags, b.pri)
        BY <2>2, <2>3
      <4> HIDE DEF new
      <4> QED BY <4>1, <4>2, QueueElsewhere
    <3>5. \A p \in Pri : QueueOf(c.active[p], p, c.flags, c.pri)
      BY <1>2, <3>1, <3>3, <3>4
    <3>6. ASSUME NEW f \in Event, "ACTIVE" \in c.flags[f]
          PROVE  Holds(c.active[c.pri[f]], f)
      <4>1. f = e \/ "ACTIVE" \in b.flags[f]
        BY <2>2, <3>6
      <4>2. b.pri[f] \in Pri /\ c.pri[f] = b.pri[f]
        BY <1>2, <2>2
      <4>3. f # e => Holds(b.active[b.pri[f]], f)
        BY <2>3, <4>1
      <4>4. CASE b.pri[f] = r
        <5>1. Holds(Append(s, e), f)
          BY <3>3, <4>3, <4>4
        <5> QED BY <3>1, <4>2, <4>4, <5>1
      <4>5. CASE b.pri[f] # r
        <5>1. f # e
          BY <4>5
        <5> QED BY <3>1, <4>2, <4>3, <4>5, <5>1
      <4> QED BY <4>4, <4>5
    <3> QED BY <1>4, <3>5, <3>6, QueuedOnceFields
  <2> QED BY <2>4, <2>5
<1> QED BY <1>2, <1>4, <1>5, <1>6 DEF Good

LEMMA QueueRemoveGood ==
  ASSUME NEW b, Good(b), NEW e \in Event, NEW q \in Queue, q \in b.flags[e]
  PROVE  /\ Good(QueueRemove(b, e, q))
         /\ QueueRemove(b, e, q).flags = [b.flags EXCEPT ![e] = @ \ {q}]
<1> DEFINE c == QueueRemove(b, e, q)
           act == [b.active EXCEPT ![b.pri[e]] = Unlink(@, e)]
           new == b.flags[e] \ {q}
           r == b.pri[e]
           s == b.active[r]
<1>1. b \in Base /\ QueuedOnce(b) /\ CountsAgree(b)
  BY DEF Good
<1>2. /\ c.flags = [b.flags EXCEPT ![e] = @ \ {q}]
      /\ c.count = IF e = SigPipe THEN b.count ELSE b.count - 1
      /\ c.countActive = IF q = "ACTIVE" THEN b.countActive - 1 ELSE b.countActive
      /\ c.active = IF q = "ACTIVE" THEN act ELSE b.active
      /\ c.pri = b.pri
  BY <1>1 DEF QueueRemove, Base
<1>3. s \in Seq(Event) /\ r \in Pri
  BY <1>1 DEF Base
<1>4. new \in SUBSET Queue
  BY <1>1 DEF Base
<1>5. /\ b.flags \in [Event -> SUBSET Queue] /\ b.pri \in [Event -> Pri]
      /\ b.active \in [Pri -> Seq(Event)]
      /\ c.flags = [b.flags EXCEPT ![e] = new]
  BY <1>1, <1>2 DEF Base
<1>6. /\ \A p \in Pri : QueueOf(b.active[p], p, b.flags, b.pri)
      /\ \A f \in Event : "ACTIVE" \in b.flags[f] => Holds(b.active[b.pri[f]], f)
  BY <1>1, QueuedOnceFields
<1>7. q = "ACTIVE" =>
        /\ Unlink(s, e) \in Seq(Event)
        /\ QueueOf(Unlink(s, e), r, c.flags, b.pri)
        /\ \A f \in Event : f # e /\ Holds(s, f) => Holds(Unlink(s, e), f)
  <2>1. q = "ACTIVE" => Holds(s, e) /\ QueueOf(s, r, b.flags, b.pri)
    BY <1>3, <1>6
  <2>2. \A f \in Event : f # e => c.flags[f] = b.flags[f]
    BY <1>5
  <2> HIDE DEF c, act, new, r, s
  <2> QED BY <1>3, <2>1, <2>2, QueueUnlink
<1>8. c \in Base
  <2>1. q = "ACTIVE" => act \in [Pri -> Seq(Event)]
    BY <1>3, <1>5, <1>7
  <2>2. c = [b EXCEPT !.flags = c.flags,
                      !.count = c.count,
                      !.countActive = c.countActive,
                      !.active = c.active]
    BY <1>1 DEF QueueRemove, Base
  <2>3. [b.flags EXCEPT ![e] = new] \in [Event -> SUBSET Queue]
    BY <1>4, <1>5
  <2>4. /\ c.flags \in [Event -> SUBSET Queue] /\ c.count \in Int
        /\ c.countActive \in Int /\ c.active \in [Pri -> Seq(Event)]
    BY <1>1, <1>2, <1>5, <2>1, <2>3 DEF Base
  <2> HIDE DEF act, c, new, r, s
  <2>5. [b EXCEPT !.flags = c.flags, !.count = c.count,
                  !.countActive = c.countActive, !.active = c.active] \in Base
    BY <1>1, <2>4, FieldUpdate
  <2> QED BY <2>2, <2>5, Zenon
<1>9. CountsAgree(c)
  <2> HIDE DEF c, act, new, r, s
  <2> QED BY <1>1, <1>2, CountsAfterRemove DEF Base
<1>10. QueuedOnce(c)
  <2> HIDE DEF c
  <2>1. CASE q # "ACTIVE"
    <3>1. \A f \in Event : "ACTIVE" \in c.flags[f] <=> "ACTIVE" \in b.flags[f]
      BY <1>5, <2>1
    <3>2. \A p \in Pri : QueueOf(c.active[p], p, c.flags, c.pri)
      <4> HIDE DEF act, new, r, s
      <4> QED BY <1>2, <1>5, <1>6, <2>1, <3>1, ElementOfSeq DEF QueueOf
    <3> QED BY <1>2, <1>6, <1>8, <2>1, <3>1, <3>2, QueuedOnceFields
  <2>2. CASE q = "ACTIVE"
    <3>1. /\ c.active[r] = Unlink(s, e)
          /\ \A p \in Pri : p # r => c.active[p] = b.active[p]
      BY <1>2, <1>3, <1>5, <2>2
    <3>2. \A p \in Pri : p # r => QueueOf(b.active[p], p, c.flags, b.pri)
      <4>1. \A f \in Event : f # e => c.flags[f] = b.flags[f]
        BY <1>5
      <4>2. \A p \in Pri : b.active[p] \in Seq(Event) /\ QueueOf(b.active[p], p, b.flags, b.pri)
        BY <1>5, <1>6
      <4> HIDE DEF new
      <4> QED BY <4>1, <4>2, QueueElsewhere
    <3>3. \A p \in Pri : QueueOf(c.active[p], p, c.flags, c.pri)
      BY <1>2, <1>7, <2>2, <3>1, <3>2
    <3>4. ASSUME NEW f \in Event, "ACTIVE" \in c.flags[f]
          PROVE  Holds(c.active[c.pri[f]], f)
      <4>1. f # e /\ "ACTIVE" \in b.flags[f]
        BY <1>5, <2>2, <3>4
      <4>2. b.pri[f] \in Pri /\ c.pri[f] = b.pri[f]
        BY <1>2, <1>5
      <4>3. Holds(b.active[b.pri[f]], f)
        BY <1>6, <4>1
      <4> QED BY <1>7, <2>2, <3>1, <4>1, <4>2, <4>3
    <3> QED BY <1>8, <3>3, <3>4, QueuedOnceFields
  <2> QED BY <2>1, <2>2
<1> QED BY <1>2, <1>8, <1>9, <1>10 DEF Good

LEMMA GoodFields ==
  ASSUME NEW b, Good(b), NEW c \in Base,
         c.flags = b.flags, c.count = b.count, c.countActive = b.countActive,
         c.active = b.active, c.pri = b.pri
  PROVE  Good(c)
BY DEF Good, QueuedOnce, CountsAgree, Pending, ActiveEvents

LEMMA PriorityGood ==
  ASSUME NEW b, Good(b), NEW e \in Event, "ACTIVE" \notin b.flags[e],
         NEW c \in Base,
         c.flags = b.flags, c.count = b.count, c.countActive = b.countActive,
         c.active = b.active, \A f \in Event : f # e => c.pri[f] = b.pri[f]
  PROVE  Good(c)
<1>1. b \in Base /\ QueuedOnce(b)
  BY DEF Good
<1>2. \A p \in Pri : QueueOf(b.active[p], p, b.flags, b.pri)
  BY <1>1, QueuedOnceFields
<1>3. \A f \in Event : "ACTIVE" \in b.flags[f] => Holds(b.active[b.pri[f]], f)
  BY <1>1, QueuedOnceFields
<1>4. ASSUME NEW p \in Pri
      PROVE  QueueOf(c.active[p], p, c.flags, c.pri)
  <2>1. b.active[p] \in Seq(Event)
    BY <1>1 DEF Base
  <2> QED BY <1>2, <2>1, ElementOfSeq DEF QueueOf
<1>5. QueuedOnce(c)
  BY <1>3, <1>4, QueuedOnceFields
<1> QED BY <1>5 DEF Good, CountsAgree, Pending, ActiveEvents

LEMMA DropGood ==
  ASSUME NEW b, Good(b), NEW e \in Event, NEW q \in Queue
  PROVE  /\ Good(Drop(b, e, q))
         /\ Drop(b, e, q).flags = [b.flags EXCEPT ![e] = @ \ {q}]
<1>1. CASE q \in b.flags[e]
  BY <1>1, QueueRemoveGood DEF Drop
<1>2. CASE q \notin b.flags[e]
  <2>1. b.flags \in [Event -> SUBSET Queue]
    BY DEF Good, Base
  <2>2. b.flags = [b.flags EXCEPT ![e] = @ \ {q}]
    BY <1>2, <2>1
  <2> QED BY <1>2, <2>2 DEF Drop
<1> QED BY <1>1, <1>2

LEMMA CancelCallsGood ==
  ASSUME NEW b, Good(b), NEW e \in Event
  PROVE  /\ Good(CancelCalls(b, e))
         /\ CancelCalls(b, e).flags = b.flags
<1> DEFINE c == [b EXCEPT !.frame = 0]
<1>1. b \in Base
  BY DEF Good
<1>2. /\ c \in Base /\ c.flags = b.flags /\ c.count = b.count
      /\ c.countActive = b.countActive /\ c.active = b.active /\ c.pri = b.pri
  BY <1>1 DEF Base
<1> HIDE DEF c
<1>3. Good(c)
  BY <1>2, GoodFields
<1> QED BY <1>2, <1>3 DEF CancelCalls, c

LEMMA DelGood ==
  ASSUME NEW b, Good(b), NEW e \in Event
  PROVE  /\ Good(Del(b, e))
         /\ Del(b, e).flags = [b.flags EXCEPT ![e] = {}]
<1> DEFINE b1 == CancelCalls(b, e)
           b2 == Drop(b1, e, "TIMEOUT")
           b3 == Drop(b2, e, "ACTIVE")
           b4 == Drop(b3, e, "INSERTED")
<1>1. Good(b1) /\ b1.flags = b.flags
  BY CancelCallsGood
<1>2. "TIMEOUT" \in Queue /\ "ACTIVE" \in Queue /\ "INSERTED" \in Queue
  BY DEF Queue
<1> HIDE DEF b1
<1>3. Good(b2) /\ b2.flags = [b1.flags EXCEPT ![e] = @ \ {"TIMEOUT"}]
  BY <1>1, <1>2, DropGood
<1> HIDE DEF b2
<1>4. Good(b3) /\ b3.flags = [b2.flags EXCEPT ![e] = @ \ {"ACTIVE"}]
  BY <1>2, <1>3, DropGood
<1> HIDE DEF b3
<1>5. Good(b4) /\ b4.flags = [b3.flags EXCEPT ![e] = @ \ {"INSERTED"}]
  BY <1>2, <1>4, DropGood
<1> HIDE DEF b4
<1>6. b.flags \in [Event -> SUBSET Queue]
  BY DEF Good, Base
<1>7. b4.flags = [b.flags EXCEPT ![e] = {}]
  BY <1>1, <1>3, <1>4, <1>5, <1>6 DEF Queue
<1> QED BY <1>5, <1>7 DEF Del, b4, b3, b2, b1

LEMMA ActiveGood ==
  ASSUME NEW b, Good(b), NEW e \in Event, NEW res \in SUBSET Result,
         NEW n \in Nat
  PROVE  /\ Good(Active(b, e, res, n))
         /\ Active(b, e, res, n).flags = [b.flags EXCEPT ![e] = @ \cup {"ACTIVE"}]
<1>1. b \in Base
  BY DEF Good
<1>2. CASE "ACTIVE" \in b.flags[e]
  <2> DEFINE c == [b EXCEPT !.res[e] = @ \cup res]
  <2>1. b.res[e] \cup res \in SUBSET Result
    BY <1>1 DEF Base
  <2>2. /\ c \in Base /\ c.flags = b.flags /\ c.count = b.count
        /\ c.countActive = b.countActive /\ c.active = b.active /\ c.pri = b.pri
    BY <1>1, <2>1 DEF Base
  <2>3. b.flags = [b.flags EXCEPT ![e] = @ \cup {"ACTIVE"}]
    BY <1>1, <1>2 DEF Base
  <2> HIDE DEF c
  <2>4. Good(c)
    BY <2>2, GoodFields
  <2> QED BY <1>2, <2>2, <2>3, <2>4 DEF Active, c
<1>3. CASE "ACTIVE" \notin b.flags[e]
  <2> DEFINE c == [b EXCEPT !.res[e] = res, !.ncalls[e] = n, !.pncalls[e] = FALSE]
  <2>1. /\ c \in Base /\ c.flags = b.flags /\ c.count = b.count
        /\ c.countActive = b.countActive /\ c.active = b.active /\ c.pri = b.pri
    BY <1>1 DEF Base
  <2> HIDE DEF c
  <2>2. Good(c)
    BY <2>1, GoodFields
  <2>3. "ACTIVE" \in Queue
    BY DEF Queue
  <2>4. /\ Good(QueueInsert(c, e, "ACTIVE"))
        /\ QueueInsert(c, e, "ACTIVE").flags = [c.flags EXCEPT ![e] = @ \cup {"ACTIVE"}]
    BY <1>3, <2>1, <2>2, <2>3, QueueInsertGood
  <2> QED BY <1>3, <2>1, <2>4 DEF Active, c
<1> QED BY <1>2, <1>3

LEMMA RegisterGood ==
  ASSUME NEW b, Good(b), NEW e \in Event, NeedsBackend(b, e)
  PROVE  Good(Register(b, e))
<1> DEFINE c == IF e \in Signals /\ "INSERTED" \notin b.flags[SigPipe]
                THEN QueueInsert(b, SigPipe, "INSERTED") ELSE b
<1>1. "INSERTED" \in Queue /\ SigPipe \in Event /\ SigPipe \notin Signals
  BY EventAssumption, InterestAssumption DEF Queue, Signals
<1>2. Good(c) /\ (e \in Signals \/ c = b)
  BY <1>1, QueueInsertGood
<1>3. e \in Signals => c.flags[e] = b.flags[e]
  <2>1. b.flags \in [Event -> SUBSET Queue]
    BY DEF Good, Base
  <2>2. "INSERTED" \notin b.flags[SigPipe] =>
          QueueInsert(b, SigPipe, "INSERTED").flags
            = [b.flags EXCEPT ![SigPipe] = @ \cup {"INSERTED"}]
    BY <1>1, QueueInsertGood
  <2> QED BY <1>1, <2>1, <2>2
<1>4. "INSERTED" \notin c.flags[e]
  BY <1>2, <1>3 DEF NeedsBackend
<1> HIDE DEF c
<1>5. Good(QueueInsert(c, e, "INSERTED"))
  BY <1>1, <1>2, <1>4, QueueInsertGood
<1> QED BY <1>5 DEF Register, c

LEMMA ArmGood ==
  ASSUME NEW b, Good(b), NEW e \in Event, NEW deadline \in Nat
  PROVE  Good(Arm(b, e, deadline))
<1> DEFINE idle == Drop(b, e, "TIMEOUT")
           stop == CancelCalls(idle, e)
           calm == IF "ACTIVE" \in b.flags[e] /\ "TIMEOUT" \in b.res[e]
                   THEN QueueRemove(stop, e, "ACTIVE") ELSE idle
           c == [calm EXCEPT !.deadline[e] = deadline]
<1>1. "TIMEOUT" \in Queue /\ "ACTIVE" \in Queue
  BY DEF Queue
<1>2. b.flags \in [Event -> SUBSET Queue]
  BY DEF Good, Base
<1>3. Good(idle) /\ idle.flags = [b.flags EXCEPT ![e] = @ \ {"TIMEOUT"}]
  BY <1>1, DropGood
<1> HIDE DEF idle
<1>4. Good(stop) /\ stop.flags = idle.flags
  BY <1>3, CancelCallsGood
<1> HIDE DEF stop
<1>5. Good(calm) /\ "TIMEOUT" \notin calm.flags[e]
  <2>1. CASE "ACTIVE" \in b.flags[e] /\ "TIMEOUT" \in b.res[e]
    <3>1. "ACTIVE" \in stop.flags[e]
      BY <1>2, <1>3, <1>4, <2>1
    <3>2. /\ Good(QueueRemove(stop, e, "ACTIVE"))
          /\ QueueRemove(stop, e, "ACTIVE").flags = [stop.flags EXCEPT ![e] = @ \ {"ACTIVE"}]
      BY <1>1, <1>4, <3>1, QueueRemoveGood
    <3> QED BY <1>2, <1>3, <1>4, <2>1, <3>2
  <2>2. CASE ~("ACTIVE" \in b.flags[e] /\ "TIMEOUT" \in b.res[e])
    BY <1>2, <1>3, <2>2
  <2> QED BY <2>1, <2>2
<1> HIDE DEF calm
<1>6. /\ c \in Base /\ c.flags = calm.flags /\ c.count = calm.count
      /\ c.countActive = calm.countActive /\ c.active = calm.active
      /\ c.pri = calm.pri
  BY <1>5 DEF Base, Good
<1> HIDE DEF c
<1>7. Good(c)
  BY <1>5, <1>6, GoodFields
<1>8. Good(QueueInsert(c, e, "TIMEOUT"))
  BY <1>1, <1>5, <1>6, <1>7, QueueInsertGood
<1> QED BY <1>8 DEF Arm, c, calm, stop, idle

LEMMA AddGood ==
  ASSUME NEW b, Good(b), NEW e \in Event,
         NEW tv \in Nat \cup {NoTimeout}, NEW now \in Nat
  PROVE  Good(Add(b, e, tv, now))
<1> DEFINE added == IF NeedsBackend(b, e) THEN Register(b, e) ELSE b
<1>1. Good(added)
  BY RegisterGood
<1> HIDE DEF added
<1>2. tv # NoTimeout => now + tv \in Nat
  BY DEF NoTimeout
<1>3. tv # NoTimeout => Good(Arm(added, e, now + tv))
  BY <1>1, <1>2, ArmGood
<1> QED BY <1>1, <1>3 DEF Add, added

-----------------------------------------------------------------------------
(* Functions used by single actions.                                       *)

LEMMA FreshOnceGood ==
  ASSUME NEW b, Good(b), NEW e \in Event, b.flags[e] = {}
  PROVE  Good(FreshOnce(b, e))
<1> DEFINE c == FreshOnce(b, e)
<1>1. b \in Base /\ QueuedOnce(b) /\ CountsAgree(b)
  BY DEF Good
<1>2. NPri \div 2 \in Pri
  BY BoundAssumption DEF Pri
<1>3. /\ c \in Base /\ c.flags = b.flags /\ c.count = b.count
      /\ c.countActive = b.countActive /\ c.active = b.active
      /\ \A f \in Event : f # e => c.pri[f] = b.pri[f]
  BY <1>1, <1>2 DEF FreshOnce, Base
<1> HIDE DEF c
<1> QED BY <1>1, <1>3, PriorityGood DEF c

LEMMA ProcessNextGood ==
  ASSUME NEW b, Good(b), NEW p \in Pri, b.active[p] # <<>>
  PROVE  /\ Head(b.active[p]) \in Event
         /\ "ACTIVE" \in b.flags[Head(b.active[p])]
<1>1. b.active[p] \in Seq(Event)
  BY DEF Good, Base
<1>2. Head(b.active[p]) = b.active[p][1] /\ 1 \in 1 .. Len(b.active[p])
  BY <1>1, EmptySeq, LenProperties
<1> QED BY <1>1, <1>2, ElementOfSeq DEF Good, QueuedOnce

LEMMA LeastOf ==
  ASSUME NEW T, T \subseteq Nat, T # {}
  PROVE  \E x \in T : \A y \in T : x <= y
<1> DEFINE less == OpToRel(<, Nat)
<1>1. \A x, y \in Nat : y < x => <<y, x>> \in less
  BY DEF OpToRel
<1>2. IsWellFoundedOn(less, Nat)
  BY NatLessThanWellFounded
<1> HIDE DEF less
<1>3. PICK x \in T : \A y \in T : ~(<<y, x>> \in less)
  BY <1>2, WFMin, Zenon
<1>4. ASSUME NEW y \in T
      PROVE  ~(y < x)
  BY <1>1, <1>3, Zenon
<1> QED BY <1>4

LEMMA PollTimeoutType ==
  ASSUME TypeOK
  PROVE  /\ PollTimeout \in Nat \cup {Forever}
         /\ PollTimeout = Forever => Armed = {}
         /\ PollTimeout # 0 => base.countActive = 0
<1> USE DEF Forever
<1>1. CASE Armed = {}
  BY <1>1 DEF PollTimeout
<1>2. CASE Armed # {}
  <2> DEFINE T == {base.deadline[e] : e \in Armed}
             top == CHOOSE e \in Armed : HeapTop(e)
  <2>1. Armed \subseteq Event /\ base.deadline \in [Event -> Nat]
    BY DEF Armed, TypeOK, Base
  <2>2. T \subseteq Nat /\ T # {}
    BY <1>2, <2>1
  <2>3. PICK x \in T : \A y \in T : x <= y
    BY <2>2, LeastOf
  <2>4. PICK e \in Armed : base.deadline[e] = x
    BY <2>3
  <2>5. HeapTop(e)
    BY <2>3, <2>4 DEF HeapTop
  <2>6. top \in Armed
    BY <2>5
  <2>7. base.deadline[top] \in Nat
    BY <2>1, <2>6
  <2> HIDE DEF top
  <2>8. GetTime \in Nat
    BY DEF GetTime, TypeOK
  <2>9. base.deadline[top] <= GetTime \/ base.deadline[top] - GetTime \in Nat
    BY <2>7, <2>8
  <2> QED BY <1>2, <2>9 DEF PollTimeout, top
<1> QED BY <1>1, <1>2

-----------------------------------------------------------------------------
(* The inductive invariant.                                                *)

IInv == TypeOK /\ QueueConsistency

LEMMA GoodBase == base \in Base /\ QueueConsistency <=> Good(base)
BY DEF QueueConsistency, Good

LEMMA GoodBasePrime == (base \in Base /\ QueueConsistency)' <=> Good(base')
BY DEF QueueConsistency, Good, QueuedOnce, CountsAgree, Pending, ActiveEvents

LEMMA InitEstablishes == Init => IInv
<1> SUFFICES ASSUME Init PROVE IInv
  OBVIOUS
<1>1. NPri \div 2 \in Pri /\ 0 \in Pri
  BY BoundAssumption DEF Pri
<1> DEFINE none == [e \in Event |-> {}]
           zero == [e \in Event |-> 0]
           idle == [e \in Event |-> FALSE]
           empty == [p \in Pri |-> <<>>]
           pri == [e \in Event |-> IF e = SigPipe THEN 0 ELSE NPri \div 2]
<1>2. /\ none \in [Event -> SUBSET Queue] /\ none \in [Event -> SUBSET Result]
      /\ zero \in [Event -> Nat] /\ idle \in [Event -> BOOLEAN]
      /\ empty \in [Pri -> Seq(Event)] /\ pri \in [Event -> Pri]
  BY <1>1, EmptySeq
<1>3. base = [flags |-> none, count |-> 0, countActive |-> 0, active |-> empty,
              pri |-> pri, res |-> none, ncalls |-> zero, pncalls |-> idle,
              deadline |-> zero, frame |-> 0]
  BY DEF Init
<1>4. base \in Base
  <2> HIDE DEF none, zero, idle, empty, pri
  <2> QED BY <1>2, <1>3 DEF Base
<1>5. TypeOK
  <2>1. /\ pc = "idle" /\ mode = {} /\ cur = NoEvent /\ activeq = 0
        /\ gotterm = FALSE /\ break = FALSE /\ clock = 1 /\ tv_cache = 0
        /\ wakeAt = 0 /\ revoked = {} /\ cut = {}
    BY DEF Init
  <2>2. pc \in {"idle", "loop", "wait", "report", "expire", "process", "calls",
                "callback"}
    BY <2>1
  <2>3. clock \in Nat \ {0} /\ tv_cache \in Nat /\ wakeAt \in Nat \cup {Forever}
    BY <2>1
  <2>4. gotterm \in BOOLEAN /\ break \in BOOLEAN
    BY <2>1
  <2>5. /\ mode \in SUBSET Mode /\ cur \in Event \cup {NoEvent}
        /\ revoked \in SUBSET Event /\ cut \in SUBSET (Event \cup {NoEvent})
    BY <2>1
  <2>6. activeq \in Pri
    BY <1>1, <2>1
  <2> QED BY <1>4, <2>2, <2>3, <2>4, <2>5, <2>6 DEF TypeOK
<1>6. QueuedOnce(base)
  BY DEF Init, QueuedOnce, ActiveEvents
<1>7. Pending(base) = {} /\ ActiveEvents(base) = {}
  BY DEF Init, Pending, ActiveEvents
<1>8. CountsAgree(base)
  BY <1>7, FS_EmptySet DEF Init, CountsAgree
<1> QED BY <1>5, <1>6, <1>8 DEF IInv, QueueConsistency

\* What an action shows of base' and of the other variables.
LEMMA FromParts ==
  ASSUME Good(base'),
         pc' \in {"idle", "loop", "wait", "report", "expire", "process", "calls",
                  "callback"},
         mode' \in SUBSET Mode, cur' \in Event \cup {NoEvent}, activeq' \in Pri,
         gotterm' \in BOOLEAN, break' \in BOOLEAN,
         clock' \in Nat \ {0}, tv_cache' \in Nat,
         wakeAt' \in Nat \cup {Forever}, revoked' \in SUBSET Event,
         cut' \in SUBSET (Event \cup {NoEvent})
  PROVE  IInv'
BY GoodBasePrime DEF IInv, TypeOK

LEMMA GivesUpType ==
  ASSUME TypeOK, GivesUp
  PROVE  cut' \in SUBSET (Event \cup {NoEvent})
BY DEF GivesUp, TypeOK

\* event_add asks the backend first: when that fails nothing has changed.
LEMMA EventAddBase ==
  ASSUME NEW e, NEW tv
  PROVE  /\ EventAdd(e, tv) => base' = Add(base, e, tv, GetTime)
         /\ EventAddFails(e, tv) => base' = base
BY DEF EventAdd, EventAddFails, TryAdd

LEMMA AppPreserves == IInv /\ App => IInv'
<1> SUFFICES ASSUME IInv, App PROVE IInv'
  OBVIOUS
<1> USE DEF loopVars
<1>1. Good(base) /\ TypeOK
  BY GoodBase DEF IInv, TypeOK
<1>2. GetTime \in Nat
  BY <1>1 DEF GetTime, TypeOK
<1>3. User \subseteq Event /\ Timeouts \subseteq Nat /\ Manual \subseteq Event
      /\ Once \subseteq Event
  BY EventAssumption, BoundAssumption DEF User
<1>4. ASSUME NEW e \in Event, NEW tv \in Nat \cup {NoTimeout}, EventAdd(e, tv)
      PROVE  IInv'
  <2>1. Good(base')
    BY <1>1, <1>2, <1>4, AddGood, EventAddBase
  <2> QED BY <1>1, <1>4, <2>1, FromParts, GivesUpType DEF EventAdd, TypeOK
<1>5. ASSUME NEW e \in User, NEW tv \in Timeouts, EventAddFails(e, tv)
      PROVE  IInv'
  BY <1>1, <1>5, FromParts, EventAddBase DEF EventAddFails, TypeOK
<1>6. ASSUME NEW e \in User, EventDel(e)
      PROVE  IInv'
  <2>1. Good(base')
    BY <1>1, <1>3, <1>6, DelGood DEF EventDel
  <2> QED BY <1>1, <1>3, <1>6, <2>1, FromParts, GivesUpType DEF EventDel, TypeOK
<1>7. ASSUME NEW e \in User, NEW p \in Pri, EventPrioritySet(e, p)
      PROVE  IInv'
  <2> DEFINE b == base
             c == base'
  <2>1. /\ c \in Base /\ c.flags = b.flags /\ c.count = b.count
        /\ c.countActive = b.countActive /\ c.active = b.active
        /\ \A f \in Event : f # e => c.pri[f] = b.pri[f]
    BY <1>1, <1>3, <1>7 DEF EventPrioritySet, TypeOK, Base
  <2>2. e \in Event /\ "ACTIVE" \notin b.flags[e]
    BY <1>3, <1>7 DEF EventPrioritySet
  <2> HIDE DEF b, c
  <2>3. Good(b)
    BY <1>1 DEF b
  <2>4. Good(c)
    BY <2>1, <2>2, <2>3, PriorityGood
  <2> QED BY <1>1, <1>7, <2>4, FromParts DEF EventPrioritySet, TypeOK, c
<1>8. ASSUME NEW e \in Manual, NEW res \in ByHand, NEW n \in 1 .. MaxCalls,
             EventActive(e, res, n)
      PROVE  IInv'
  <2>1. {res} \in SUBSET Result /\ n \in Nat /\ e \in Event
    BY <1>3, BoundAssumption
  <2>2. Good(base')
    BY <1>1, <1>8, <2>1, ActiveGood DEF EventActive
  <2> QED BY <1>1, <1>8, <2>2, FromParts DEF EventActive, TypeOK
<1>9. ASSUME NEW e \in Once, NEW tv \in Timeouts, LoopExit(e, tv)
      PROVE  IInv'
  <2> DEFINE c == FreshOnce(base, e)
  <2>1. e \in Event /\ tv \in Nat \cup {NoTimeout} /\ base.flags[e] = {}
    BY <1>3, <1>9 DEF LoopExit
  <2>2. Good(c)
    BY <1>1, <2>1, FreshOnceGood
  <2> HIDE DEF c
  <2>3. Good(Add(c, e, tv, GetTime))
    BY <1>2, <2>1, <2>2, AddGood
  <2>4. Good(base')
    BY <1>9, <2>3 DEF LoopExit, c
  <2> QED BY <1>1, <1>9, <2>4, FromParts, GivesUpType DEF LoopExit, TypeOK
<1>10. ASSUME LoopBreak
       PROVE  IInv'
  BY <1>1, <1>10, FromParts DEF LoopBreak, TypeOK
<1>11. Timeouts \subseteq Nat \cup {NoTimeout} /\ NoTimeout \in Nat \cup {NoTimeout}
  BY <1>3
<1> QED BY <1>3, <1>4, <1>5, <1>6, <1>7, <1>8, <1>9, <1>10, <1>11 DEF App

LEMMA LoopPreserves == IInv /\ Loop => IInv'
<1> SUFFICES ASSUME IInv, Loop PROVE IInv'
  OBVIOUS
<1> USE DEF loopVars
<1>1. Good(base) /\ TypeOK
  BY GoodBase DEF IInv, TypeOK
<1>2. 0 \in Pri
  BY BoundAssumption DEF Pri
<1>3. ASSUME NEW flags \in SUBSET Mode, LoopEnter(flags)
      PROVE  IInv'
  BY <1>1, <1>3, FromParts DEF LoopEnter, TypeOK
<1>4. ASSUME LoopStop PROVE IInv'
  BY <1>1, <1>4, FromParts DEF LoopStop, TypeOK
<1>5. ASSUME LoopNoEvents PROVE IInv'
  BY <1>1, <1>5, FromParts DEF LoopNoEvents, TypeOK
<1>6. ASSUME LoopPoll PROVE IInv'
  <2>1. wakeAt' \in Nat \cup {Forever}
    <3>1. PollTimeout \in Nat \cup {Forever} /\ clock \in Nat
      BY <1>1, PollTimeoutType DEF TypeOK
    <3>2. PollTimeout # Forever => clock + PollTimeout \in Nat
      BY <3>1
    <3> QED BY <1>6, <3>2 DEF LoopPoll
  <2> QED BY <1>1, <1>6, <2>1, FromParts DEF LoopPoll, TypeOK
<1>7. ASSUME LoopPollFails PROVE IInv'
  BY <1>1, <1>7, FromParts DEF LoopPollFails, TypeOK
<1>8. ASSUME Wake PROVE IInv'
  BY <1>1, <1>8, FromParts DEF Wake, TypeOK
<1>9. ASSUME NEW e \in Event, NEW res \in Result, NEW n \in Nat, Report(e, res, n)
      PROVE  IInv'
  <2> DEFINE c == IF e \in Signals \ Persist THEN Del(base, e) ELSE base
  <2>1. Good(c) /\ {res} \in SUBSET Result
    BY <1>1, DelGood
  <2> HIDE DEF c
  <2>2. Good(Active(c, e, {res}, n))
    BY <2>1, ActiveGood
  <2>3. Good(base')
    BY <1>9, <2>2 DEF Report, c
  <2> QED BY <1>1, <1>9, <2>3, FromParts DEF Report, TypeOK
<1>10. ASSUME ReportsDone PROVE IInv'
  BY <1>1, <1>10, FromParts DEF ReportsDone, TypeOK
<1>11. ASSUME NEW e \in Event, Expire(e) PROVE IInv'
  <2>1. Good(Del(base, e)) /\ {"TIMEOUT"} \in SUBSET Result /\ 1 \in Nat
    BY <1>1, DelGood DEF Result
  <2>2. Good(base')
    BY <1>11, <2>1, ActiveGood DEF Expire
  <2> QED BY <1>1, <1>11, <2>2, FromParts DEF Expire, TypeOK
<1>12. ASSUME ExpireDone PROVE IInv'
  <2> USE DEF ExpireDone, TurnEnds, Leave
  <2>1. CASE base.countActive # 0
    BY <1>1, <1>12, <2>1, FromParts DEF TypeOK
  <2>2. CASE base.countActive = 0
    BY <1>1, <1>2, <1>12, <2>2, FromParts DEF TypeOK
  <2> QED BY <2>1, <2>2
<1>13. ASSUME ProcessNext PROVE IInv'
  <2> DEFINE e == Head(base.active[activeq])
             b == IF e \in Persist THEN QueueRemove(base, e, "ACTIVE") ELSE Del(base, e)
             c == [b EXCEPT !.frame = b.ncalls[e], !.pncalls[e] = TRUE]
  <2>1. e \in Event /\ "ACTIVE" \in base.flags[e]
    BY <1>1, <1>13, ProcessNextGood DEF ProcessNext, TypeOK
  <2>2. base' = c /\ cur' = e
    BY <1>13 DEF ProcessNext
  <2> HIDE DEF e
  <2>3. Good(b)
    BY <1>1, <2>1, DelGood, QueueRemoveGood DEF Queue
  <2> HIDE DEF b
  <2>4. /\ c \in Base /\ c.flags = b.flags /\ c.count = b.count
        /\ c.countActive = b.countActive /\ c.active = b.active /\ c.pri = b.pri
    BY <2>1, <2>3 DEF Good, Base
  <2> HIDE DEF c
  <2>5. Good(c)
    BY <2>3, <2>4, GoodFields
  <2> QED BY <1>1, <1>13, <2>1, <2>2, <2>5, FromParts DEF ProcessNext, TypeOK
<1>14. ASSUME Call PROVE IInv'
  <2> DEFINE b == base
             c == base'
  <2>1. base.frame - 1 \in Nat
    BY <1>1, <1>14 DEF Call, TypeOK, Base
  <2>2. /\ c \in Base /\ c.flags = b.flags /\ c.count = b.count
        /\ c.countActive = b.countActive /\ c.active = b.active /\ c.pri = b.pri
    BY <1>1, <1>14, <2>1 DEF Call, TypeOK, Base
  <2>3. Good(base')
    <3> HIDE DEF b, c
    <3>1. Good(b)
      BY <1>1 DEF b
    <3> QED BY <2>2, <3>1, GoodFields DEF c
  <2> QED BY <1>1, <1>14, <2>3, FromParts DEF Call, TypeOK
<1>15. ASSUME CallsDone PROVE IInv'
  BY <1>1, <1>15, FromParts DEF CallsDone, TypeOK
<1>16. ASSUME CallbackReturns PROVE IInv'
  <2> DEFINE b == base
             c == base'
  <2>1. /\ c \in Base /\ c.flags = b.flags /\ c.count = b.count
        /\ c.countActive = b.countActive /\ c.active = b.active /\ c.pri = b.pri
    <3>1. c = b \/ c = [b EXCEPT !.frame = 0]
      BY <1>16 DEF CallbackReturns
    <3>2. b \in Base
      BY <1>1 DEF TypeOK
    <3> HIDE DEF b, c
    <3>3. CASE c = b
      BY <3>2, <3>3
    <3>4. CASE c = [b EXCEPT !.frame = 0]
      BY <3>2, <3>4 DEF Base
    <3> QED BY <3>1, <3>3, <3>4
  <2>2. Good(base')
    <3> HIDE DEF b, c
    <3>1. Good(b)
      BY <1>1 DEF b
    <3> QED BY <2>1, <3>1, GoodFields DEF c
  <2>3. gotterm' \in BOOLEAN
    BY <1>1, <1>16 DEF CallbackReturns, TypeOK
  <2>4. CASE break
    BY <1>1, <1>2, <1>16, <2>2, <2>3, <2>4, FromParts, GivesUpType
      DEF CallbackReturns, TurnEnds, Leave, TypeOK
  <2>5. CASE ~break
    BY <1>1, <1>16, <2>2, <2>3, <2>5, FromParts, GivesUpType DEF CallbackReturns, TypeOK
  <2> QED BY <2>4, <2>5
<1>17. ASSUME ProcessDone PROVE IInv'
  BY <1>1, <1>2, <1>17, FromParts DEF ProcessDone, TurnEnds, Leave, TypeOK
<1>18. \A e \in Event : Interest[e] \subseteq Result /\ e \in Event
  BY InterestAssumption DEF Result
<1>19. "SIGNAL" \in Result /\ 1 \in Nat /\ 1 .. MaxCalls \subseteq Nat
  BY BoundAssumption DEF Result
<1>20. ASSUME Dispatch PROVE IInv'
  <2>1. CASE \E e \in Event \ Signals : \E res \in Interest[e] : Report(e, res, 1)
    BY <1>9, <1>18, <1>19, <2>1
  <2>2. CASE \E e \in Signals : \E n \in 1 .. MaxCalls : Report(e, "SIGNAL", n)
    BY <1>9, <1>19, <2>2 DEF Signals
  <2> QED
    BY <1>7, <1>8, <1>10, <1>20, <2>1, <2>2 DEF Dispatch, WaitTimesOut
<1> QED BY <1>3, <1>4, <1>5, <1>6, <1>11, <1>12, <1>13, <1>14, <1>15, <1>16,
           <1>17, <1>20 DEF Loop

LEMMA NextPreserves == IInv /\ [Next]_vars => IInv'
<1> SUFFICES ASSUME IInv, [Next]_vars PROVE IInv'
  OBVIOUS
<1>1. Good(base) /\ TypeOK
  BY GoodBase DEF IInv, TypeOK
<1>2. ASSUME Tick PROVE IInv'
  BY <1>1, <1>2, FromParts DEF Tick, loopVars, TypeOK
<1>3. ASSUME UNCHANGED vars PROVE IInv'
  BY <1>1, <1>3, FromParts DEF vars, TypeOK
<1> QED BY <1>2, <1>3, AppPreserves, LoopPreserves DEF Next

-----------------------------------------------------------------------------
(* The theorems.                                                           *)

\* The types, and the agreement of the counters and the active queues with
\* the flags, hold whatever the callbacks do.
THEOREM Invariant == Spec => []IInv
<1>1. Init => IInv
  BY InitEstablishes
<1>2. IInv /\ [Next]_vars => IInv'
  BY NextPreserves
<1> QED BY <1>1, <1>2, PTL DEF Spec

\* Every variable keeps its type.
THEOREM TypeCorrect == Spec => []TypeOK
<1>1. IInv => TypeOK
  BY DEF IInv
<1> QED BY <1>1, Invariant, PTL

\* event_count, event_count_active and the active queues describe the same
\* set of events as ev_flags, after any sequence of calls and callbacks.
THEOREM QueuesConsistent == Spec => []QueueConsistency
<1>1. IInv => QueueConsistency
  BY DEF IInv
<1> QED BY <1>1, Invariant, PTL

\* assert(activeq != NULL) of event_process_active.
ActiveQueueFound ==
  base.countActive # 0 => \E p \in Pri : base.active[p] # <<>>

\* The assertion of event_process_active cannot fail: when
\* event_count_active is not zero some queue has an event.
THEOREM AssertionHolds == Spec => []ActiveQueueFound
<1>1. IInv => ActiveQueueFound
  <2> SUFFICES ASSUME IInv, base.countActive # 0
               PROVE  \E p \in Pri : base.active[p] # <<>>
    BY DEF ActiveQueueFound
  <2>1. base \in Base /\ QueuedOnce(base) /\ CountsAgree(base)
    BY DEF IInv, TypeOK, QueueConsistency
  <2>2. ActiveEvents(base) # {}
    BY <2>1, FS_EmptySet DEF CountsAgree
  <2>3. PICK e \in ActiveEvents(base) :
          \E i \in 1 .. Len(base.active[base.pri[e]]) : base.active[base.pri[e]][i] = e
    BY <2>1, <2>2 DEF QueuedOnce
  <2>4. base.pri[e] \in Pri
    BY <2>1 DEF Base, ActiveEvents
  <2>5. base.active[base.pri[e]] # <<>>
    BY <2>3, EmptySeq
  <2> QED BY <2>4, <2>5
<1> QED BY <1>1, Invariant, PTL

\* A step of the loop, of the application or of the clock keeps StopIsPrompt.
LEMMA StopStep == StopIsPrompt /\ [Next]_vars => StopIsPrompt'
<1> SUFFICES ASSUME StopIsPrompt, [Next]_vars PROVE StopIsPrompt'
  OBVIOUS
<1> USE DEF StopIsPrompt, loopVars
<1>1. ASSUME App PROVE StopIsPrompt'
  <2>1. /\ pc' = pc /\ mode' = mode /\ gotterm' = gotterm
        /\ break' = break \/ AppRuns
    BY <1>1 DEF App, EventAdd, EventAddFails, EventDel, EventPrioritySet,
                EventActive, LoopExit, LoopBreak
  <2>2. AppRuns => pc \in {"idle", "callback"}
    BY DEF AppRuns
  <2> QED BY <2>1, <2>2
<1>2. ASSUME NEW flags \in SUBSET Mode, LoopEnter(flags) PROVE StopIsPrompt'
  BY <1>2 DEF LoopEnter
<1>3. ASSUME LoopStop PROVE StopIsPrompt'
  BY <1>3 DEF LoopStop
<1>4. ASSUME LoopNoEvents PROVE StopIsPrompt'
  BY <1>4 DEF LoopNoEvents
<1>5. ASSUME LoopPoll PROVE StopIsPrompt'
  BY <1>5 DEF LoopPoll
<1>6. ASSUME Dispatch PROVE StopIsPrompt'
  <2>1. pc \in {"wait", "report"} /\ gotterm' = gotterm /\ break' = break
    BY <1>6 DEF Dispatch, Wake, WaitTimesOut, Report, ReportsDone, LoopPollFails
  <2> QED BY <2>1
<1>7. ASSUME NEW e \in Event, Expire(e) PROVE StopIsPrompt'
  BY <1>7 DEF Expire
<1>8. ASSUME ExpireDone PROVE StopIsPrompt'
  BY <1>8 DEF ExpireDone, TurnEnds, Leave
<1>9. ASSUME ProcessNext PROVE StopIsPrompt'
  BY <1>9 DEF ProcessNext
<1>10. ASSUME Call PROVE StopIsPrompt'
  BY <1>10 DEF Call
<1>11. ASSUME CallsDone PROVE StopIsPrompt'
  BY <1>11 DEF CallsDone
<1>12. ASSUME CallbackReturns PROVE StopIsPrompt'
  <2>1. break' = break /\ mode' = mode
    BY <1>12 DEF CallbackReturns
  <2>2. CASE break
    <3>1. pc' = "loop" \/ (pc' = "idle" /\ "ONCE" \in mode)
      BY <1>12, <2>2 DEF CallbackReturns, TurnEnds, Leave
    <3> QED BY <2>1, <3>1
  <2>3. CASE ~break
    <3>1. pc' = "calls"
      BY <1>12, <2>3 DEF CallbackReturns
    <3> QED BY <2>1, <2>3, <3>1
  <2> QED BY <2>2, <2>3
<1>13. ASSUME ProcessDone PROVE StopIsPrompt'
  BY <1>13 DEF ProcessDone, TurnEnds, Leave
<1>14. ASSUME Tick \/ UNCHANGED vars PROVE StopIsPrompt'
  BY <1>14 DEF Tick, vars
<1> QED BY <1>1, <1>2, <1>3, <1>4, <1>5, <1>6, <1>7, <1>8, <1>9, <1>10, <1>11,
           <1>12, <1>13, <1>14 DEF Next, Loop

\* A stop request takes effect before the loop blocks or collects reports
\* again: no turn of event_base_loop starts while event_gotterm or event_break
\* is set, and event_loopbreak stops event_process_active after the callback.
THEOREM StopsPromptly == Spec => []StopIsPrompt
<1>1. Init => StopIsPrompt
  BY DEF Init, StopIsPrompt
<1> QED BY <1>1, StopStep, PTL DEF Spec

-----------------------------------------------------------------------------
(* What the functions leave of the fields that say which calls are owed    *)
(* and for what.                                                           *)

\* The fields that the queue operations do not touch.
Rest(b, c) ==
  c.ncalls = b.ncalls /\ c.pncalls = b.pncalls /\ c.res = b.res
    /\ c.deadline = b.deadline

LEMMA QueueFields ==
  ASSUME NEW b \in Base, NEW e \in Event, NEW q \in Queue
  PROVE  /\ Rest(b, QueueInsert(b, e, q)) /\ QueueInsert(b, e, q).frame = b.frame
         /\ Rest(b, QueueRemove(b, e, q)) /\ QueueRemove(b, e, q).frame = b.frame
         /\ Rest(b, Drop(b, e, q)) /\ Drop(b, e, q).frame = b.frame
BY DEF Rest, QueueInsert, QueueRemove, Drop, Base

Cancelled(b, e) == IF b.ncalls[e] # 0 /\ b.pncalls[e] THEN 0 ELSE b.frame

LEMMA CancelFields ==
  ASSUME NEW b \in Base, NEW e \in Event
  PROVE  Rest(b, CancelCalls(b, e)) /\ CancelCalls(b, e).frame = Cancelled(b, e)
BY DEF Rest, CancelCalls, Cancelled, Base

LEMMA DelFields ==
  ASSUME NEW b, Good(b), NEW e \in Event
  PROVE  Rest(b, Del(b, e)) /\ Del(b, e).frame = Cancelled(b, e)
<1> DEFINE b1 == CancelCalls(b, e)
           b2 == Drop(b1, e, "TIMEOUT")
           b3 == Drop(b2, e, "ACTIVE")
           b4 == Drop(b3, e, "INSERTED")
<1>1. "TIMEOUT" \in Queue /\ "ACTIVE" \in Queue /\ "INSERTED" \in Queue
  BY DEF Queue
<1>2. Good(b1) /\ Rest(b, b1) /\ b1.frame = Cancelled(b, e)
  BY CancelCallsGood, CancelFields DEF Good
<1> HIDE DEF b1
<1>3. Good(b2) /\ Rest(b1, b2) /\ b2.frame = b1.frame
  BY <1>1, <1>2, DropGood, QueueFields DEF Good
<1> HIDE DEF b2
<1>4. Good(b3) /\ Rest(b2, b3) /\ b3.frame = b2.frame
  BY <1>1, <1>3, DropGood, QueueFields DEF Good
<1> HIDE DEF b3
<1>5. Rest(b3, b4) /\ b4.frame = b3.frame
  BY <1>1, <1>4, QueueFields DEF Good
<1> HIDE DEF b4
<1>6. Rest(b, b4) /\ b4.frame = Cancelled(b, e)
  BY <1>2, <1>3, <1>4, <1>5 DEF Rest
<1> QED BY <1>6 DEF Del, b4, b3, b2, b1

\* What event_active writes: a report joins those of an active event.
Activates(b, c, e, res, n) ==
  /\ c.frame = b.frame /\ c.deadline = b.deadline
  /\ "ACTIVE" \in b.flags[e] =>
       /\ c.res = [b.res EXCEPT ![e] = @ \cup res] /\ c.flags = b.flags
       /\ c.ncalls = b.ncalls /\ c.pncalls = b.pncalls
  /\ "ACTIVE" \notin b.flags[e] =>
       /\ c.res = [b.res EXCEPT ![e] = res]
       /\ c.flags = [b.flags EXCEPT ![e] = @ \cup {"ACTIVE"}]
       /\ c.ncalls = [b.ncalls EXCEPT ![e] = n]
       /\ c.pncalls = [b.pncalls EXCEPT ![e] = FALSE]

LEMMA ActiveFields ==
  ASSUME NEW b, Good(b), NEW e \in Event, NEW res \in SUBSET Result, NEW n \in Nat
  PROVE  Activates(b, Active(b, e, res, n), e, res, n)
<1> DEFINE c == Active(b, e, res, n)
<1>1. b \in Base
  BY DEF Good
<1>2. CASE "ACTIVE" \in b.flags[e]
  BY <1>1, <1>2 DEF Active, Base, Activates
<1>3. CASE "ACTIVE" \notin b.flags[e]
  <2> DEFINE d == [b EXCEPT !.res[e] = res, !.ncalls[e] = n, !.pncalls[e] = FALSE]
  <2>1. /\ d \in Base /\ d.frame = b.frame /\ d.deadline = b.deadline
        /\ d.flags = b.flags
        /\ d.res = [b.res EXCEPT ![e] = res]
        /\ d.ncalls = [b.ncalls EXCEPT ![e] = n]
        /\ d.pncalls = [b.pncalls EXCEPT ![e] = FALSE]
    BY <1>1 DEF Base
  <2>2. c = QueueInsert(d, e, "ACTIVE")
    BY <1>3 DEF Active
  <2> HIDE DEF d
  <2> HIDE DEF c
  <2>3. Rest(d, c) /\ c.frame = d.frame
    BY <2>1, <2>2, QueueFields DEF Queue
  <2>4. c.flags = [d.flags EXCEPT ![e] = @ \cup {"ACTIVE"}]
    BY <1>3, <2>1, <2>2 DEF QueueInsert, Base
  <2>5. Activates(b, c, e, res, n)
    BY <1>3, <2>1, <2>3, <2>4 DEF Rest, Activates
  <2> QED BY <2>5 DEF c
<1> QED BY <1>2, <1>3

\* event_add inserts the event, and ev_signal with the first signal event.
LEMMA RegisterFields ==
  ASSUME NEW b, Good(b), NEW e \in Event, NeedsBackend(b, e)
  PROVE  LET c == Register(b, e)
         IN  /\ Rest(b, c) /\ c.frame = b.frame
             /\ \A f \in Event : /\ "ACTIVE" \in c.flags[f] <=> "ACTIVE" \in b.flags[f]
                                 /\ "TIMEOUT" \in c.flags[f] <=> "TIMEOUT" \in b.flags[f]
                                 /\ f \notin {e, SigPipe} => c.flags[f] = b.flags[f]
                                 /\ "INSERTED" \in b.flags[f] => "INSERTED" \in c.flags[f]
             /\ "INSERTED" \in c.flags[e]
<1> DEFINE c == IF e \in Signals /\ "INSERTED" \notin b.flags[SigPipe]
                THEN QueueInsert(b, SigPipe, "INSERTED") ELSE b
<1>1. "INSERTED" \in Queue /\ SigPipe \in Event /\ SigPipe \notin Signals
  BY EventAssumption, InterestAssumption DEF Queue, Signals
<1>2. b.flags \in [Event -> SUBSET Queue] /\ b \in Base
  BY DEF Good, Base
<1>3. "INSERTED" \notin b.flags[SigPipe] =>
        /\ Good(QueueInsert(b, SigPipe, "INSERTED"))
        /\ QueueInsert(b, SigPipe, "INSERTED").flags
             = [b.flags EXCEPT ![SigPipe] = @ \cup {"INSERTED"}]
  BY <1>1, QueueInsertGood
<1>4. Rest(b, c) /\ c.frame = b.frame
  BY <1>1, <1>2, QueueFields DEF Rest
<1>5. Good(c) /\ (c.flags = b.flags \/ c.flags = [b.flags EXCEPT ![SigPipe] = @ \cup {"INSERTED"}])
      /\ (c = b \/ e \in Signals)
  BY <1>3
<1>6. "INSERTED" \notin c.flags[e]
  BY <1>1, <1>2, <1>5 DEF NeedsBackend
<1> HIDE DEF c
<1> DEFINE d == QueueInsert(c, e, "INSERTED")
<1>7. Rest(c, d) /\ d.frame = c.frame /\ d.flags = [c.flags EXCEPT ![e] = @ \cup {"INSERTED"}]
  BY <1>1, <1>5, <1>6, QueueFields, QueueInsertGood DEF Good
<1>8. Register(b, e) = d
  BY DEF Register, c
<1> HIDE DEF d
<1>9. c.flags \in [Event -> SUBSET Queue]
  BY <1>5 DEF Good, Base
<1> QED BY <1>2, <1>4, <1>5, <1>7, <1>8, <1>9 DEF Rest

\* What event_add with a timeout changes: it takes an event that is active for
\* its old one off the active queue.
ArmedAt(b, c, e, deadline) ==
  /\ c.ncalls = b.ncalls /\ c.pncalls = b.pncalls /\ c.res = b.res
  /\ c.frame \in {b.frame, 0}
  /\ c.deadline = [b.deadline EXCEPT ![e] = deadline]
  /\ \A f \in Event : f # e => c.flags[f] = b.flags[f]
  /\ c.flags[e] = (IF "ACTIVE" \in b.flags[e] /\ "TIMEOUT" \in b.res[e]
                  THEN b.flags[e] \ {"ACTIVE"} ELSE b.flags[e]) \cup {"TIMEOUT"}
  /\ "ACTIVE" \in c.flags[e] => "TIMEOUT" \notin c.res[e]

LEMMA ArmFields ==
  ASSUME NEW b, Good(b), NEW e \in Event, NEW deadline \in Nat
  PROVE  ArmedAt(b, Arm(b, e, deadline), e, deadline)
<1> DEFINE idle == Drop(b, e, "TIMEOUT")
           stop == CancelCalls(idle, e)
           late == "ACTIVE" \in b.flags[e] /\ "TIMEOUT" \in b.res[e]
           calm == IF late THEN QueueRemove(stop, e, "ACTIVE") ELSE idle
           c == [calm EXCEPT !.deadline[e] = deadline]
           d == QueueInsert(c, e, "TIMEOUT")
<1>1. "TIMEOUT" \in Queue /\ "ACTIVE" \in Queue
  BY DEF Queue
<1>2. b.flags \in [Event -> SUBSET Queue] /\ b \in Base
  BY DEF Good, Base
<1>3. /\ Good(idle) /\ idle.flags = [b.flags EXCEPT ![e] = @ \ {"TIMEOUT"}]
      /\ Rest(b, idle) /\ idle.frame = b.frame
  BY <1>1, <1>2, DropGood, QueueFields
<1> HIDE DEF idle
<1>4. Good(stop) /\ stop.flags = idle.flags /\ Rest(idle, stop) /\ stop.frame \in {idle.frame, 0}
  BY <1>3, CancelCallsGood, CancelFields DEF Good, Cancelled
<1> HIDE DEF stop
<1>5. /\ Good(calm) /\ Rest(b, calm) /\ calm.frame \in {b.frame, 0}
      /\ "TIMEOUT" \notin calm.flags[e]
      /\ \A f \in Event : f # e => calm.flags[f] = b.flags[f]
      /\ calm.flags[e] = (IF late THEN b.flags[e] \ {"ACTIVE"} ELSE b.flags[e]) \ {"TIMEOUT"}
      /\ "ACTIVE" \in calm.flags[e] => "TIMEOUT" \notin b.res[e]
  <2>1. CASE late
    <3>1. "ACTIVE" \in stop.flags[e]
      BY <1>2, <1>3, <1>4, <2>1
    <3>2. /\ Good(QueueRemove(stop, e, "ACTIVE"))
          /\ QueueRemove(stop, e, "ACTIVE").flags = [stop.flags EXCEPT ![e] = @ \ {"ACTIVE"}]
          /\ Rest(stop, QueueRemove(stop, e, "ACTIVE"))
          /\ QueueRemove(stop, e, "ACTIVE").frame = stop.frame
      BY <1>1, <1>4, <3>1, QueueRemoveGood, QueueFields DEF Good
    <3>3. stop.flags \in [Event -> SUBSET Queue]
      BY <1>4 DEF Good, Base
    <3> QED BY <1>2, <1>3, <1>4, <2>1, <3>2, <3>3 DEF Rest
  <2>2. CASE ~late
    BY <1>2, <1>3, <2>2
  <2> QED BY <2>1, <2>2
<1> HIDE DEF calm
<1>6. /\ c \in Base /\ c.flags = calm.flags /\ c.frame = calm.frame
      /\ c.ncalls = calm.ncalls /\ c.pncalls = calm.pncalls /\ c.res = calm.res
      /\ c.deadline = [calm.deadline EXCEPT ![e] = deadline]
      /\ c.count = calm.count
      /\ c.countActive = calm.countActive /\ c.active = calm.active
      /\ c.pri = calm.pri
  BY <1>5 DEF Base, Good
<1> HIDE DEF c
<1>7. Good(c)
  BY <1>5, <1>6, GoodFields
<1>8. d.flags = [c.flags EXCEPT ![e] = @ \cup {"TIMEOUT"}] /\ Rest(c, d) /\ d.frame = c.frame
  BY <1>1, <1>5, <1>6, <1>7, QueueInsertGood, QueueFields
<1> HIDE DEF d
<1>9. calm.flags \in [Event -> SUBSET Queue]
  BY <1>5 DEF Good, Base
<1>10. Arm(b, e, deadline) = d
  BY DEF Arm, d, c, calm, stop, idle
<1>11. ArmedAt(b, d, e, deadline)
  BY <1>5, <1>6, <1>8, <1>9 DEF Rest, ArmedAt
<1> QED BY <1>10, <1>11

LEMMA AddFields ==
  ASSUME NEW b, Good(b), NEW e \in Event, NEW tv \in Nat \cup {NoTimeout}, NEW now \in Nat
  PROVE  LET c == Add(b, e, tv, now)
         IN  /\ c.ncalls = b.ncalls /\ c.pncalls = b.pncalls /\ c.res = b.res
             /\ c.frame \in {b.frame, 0}
             /\ \A f \in Event : f \notin {e, SigPipe} => c.flags[f] = b.flags[f]
             /\ \A f \in Event : "ACTIVE" \in c.flags[f] /\ "TIMEOUT" \in c.res[f] =>
                  /\ "ACTIVE" \in b.flags[f]
                  /\ "TIMEOUT" \in c.flags[f] => "TIMEOUT" \in b.flags[f]
                  /\ c.deadline[f] = b.deadline[f]
<1> DEFINE added == IF NeedsBackend(b, e) THEN Register(b, e) ELSE b
<1>1. /\ Good(added) /\ Rest(b, added) /\ added.frame = b.frame
      /\ \A f \in Event : /\ "ACTIVE" \in added.flags[f] <=> "ACTIVE" \in b.flags[f]
                          /\ "TIMEOUT" \in added.flags[f] <=> "TIMEOUT" \in b.flags[f]
                          /\ f \notin {e, SigPipe} => added.flags[f] = b.flags[f]
  <2>1. CASE NeedsBackend(b, e)
    BY <2>1, RegisterGood, RegisterFields
  <2>2. CASE ~NeedsBackend(b, e)
    BY <2>2 DEF Rest
  <2> QED BY <2>1, <2>2
<1> HIDE DEF added
<1>2. CASE tv = NoTimeout
  <2>1. Add(b, e, tv, now) = added
    BY <1>2 DEF Add, added
  <2> QED BY <1>1, <2>1 DEF Rest
<1>3. CASE tv # NoTimeout
  <2> DEFINE c == Arm(added, e, now + tv)
  <2>1. now + tv \in Nat
    BY <1>3
  <2>2. /\ c.ncalls = added.ncalls /\ c.pncalls = added.pncalls /\ c.res = added.res
        /\ c.frame \in {added.frame, 0}
        /\ c.deadline = [added.deadline EXCEPT ![e] = now + tv]
        /\ \A f \in Event : f # e => c.flags[f] = added.flags[f]
        /\ "ACTIVE" \in c.flags[e] => "TIMEOUT" \notin c.res[e]
    <3>1. ArmedAt(added, c, e, now + tv)
      BY <1>1, <2>1, ArmFields
    <3> QED BY <3>1 DEF ArmedAt
  <2>3. Add(b, e, tv, now) = c
    BY <1>3 DEF Add, added
  <2>4. added.deadline \in [Event -> Nat]
    BY <1>1 DEF Good, Base
  <2> HIDE DEF c
  <2> QED BY <1>1, <2>2, <2>3, <2>4 DEF Rest
<1> QED BY <1>2, <1>3

-----------------------------------------------------------------------------
(* The calls that event_process_active owes.                               *)

\* A later event_del of e would write through its ev_pncalls.
Owes(b, e) == b.pncalls[e] /\ b.ncalls[e] # 0

Calling == pc \in {"calls", "callback"}

\* The local ncalls of event_process_active is ev_ncalls of the event that it
\* is calling, as long as that points at it and its calls were not given up.
CallInv ==
  /\ NoStrayCancel
  /\ Calling => cur \in Event
  /\ Calling /\ Owes(base, cur) /\ cur \notin cut => base.ncalls[cur] = base.frame
  /\ ~Calling => base.frame = 0

\* What the calls of the API and the reports do: no event comes to owe calls.
Calm(b, c) ==
  \A e \in Event : Owes(c, e) => Owes(b, e) /\ c.ncalls[e] = b.ncalls[e]

LEMMA AddCalm ==
  ASSUME NEW b, Good(b), NEW e \in Event, NEW tv \in Nat \cup {NoTimeout}, NEW now \in Nat
  PROVE  Calm(b, Add(b, e, tv, now)) /\ Add(b, e, tv, now).frame \in {b.frame, 0}
BY AddFields DEF Calm, Owes

LEMMA DelCalm ==
  ASSUME NEW b, Good(b), NEW e \in Event
  PROVE  Calm(b, Del(b, e)) /\ Del(b, e).frame \in {b.frame, 0}
BY DelFields DEF Calm, Owes, Rest, Cancelled

LEMMA ActiveCalm ==
  ASSUME NEW b, Good(b), NEW e \in Event, NEW res \in SUBSET Result, NEW n \in Nat
  PROVE  Calm(b, Active(b, e, res, n)) /\ Active(b, e, res, n).frame = b.frame
<1> DEFINE c == Active(b, e, res, n)
<1>1. b.ncalls \in [Event -> Nat] /\ b.pncalls \in [Event -> BOOLEAN]
  BY DEF Good, Base
<1>2. Activates(b, c, e, res, n)
  BY ActiveFields
<1> SUFFICES Calm(b, c) /\ c.frame = b.frame
  OBVIOUS
<1> HIDE DEF c
<1>3. CASE "ACTIVE" \in b.flags[e]
  BY <1>2, <1>3 DEF Activates, Calm, Owes
<1>4. CASE "ACTIVE" \notin b.flags[e]
  <2>1. \A f \in Event : /\ c.ncalls[f] = IF f = e THEN n ELSE b.ncalls[f]
                         /\ c.pncalls[f] = IF f = e THEN FALSE ELSE b.pncalls[f]
    BY <1>1, <1>2, <1>4 DEF Activates
  <2> QED BY <1>2, <1>4, <2>1 DEF Activates, Calm, Owes
<1> QED BY <1>3, <1>4

LEMMA FreshOnceFields ==
  ASSUME NEW b, Good(b), NEW e \in Event
  PROVE  LET c == FreshOnce(b, e)
         IN  /\ c.frame = b.frame /\ c.deadline = b.deadline /\ c.flags = b.flags
             /\ c.ncalls = [b.ncalls EXCEPT ![e] = 0]
             /\ c.pncalls = [b.pncalls EXCEPT ![e] = FALSE]
             /\ c.res = [b.res EXCEPT ![e] = {}]
BY DEF FreshOnce, Good, Base

LEMMA FreshOnceCalm ==
  ASSUME NEW b, Good(b), NEW e \in Event
  PROVE  Calm(b, FreshOnce(b, e)) /\ FreshOnce(b, e).frame = b.frame
<1> DEFINE c == FreshOnce(b, e)
<1>1. b.ncalls \in [Event -> Nat] /\ b.pncalls \in [Event -> BOOLEAN]
  BY DEF Good, Base
<1>2. /\ c.frame = b.frame /\ c.ncalls = [b.ncalls EXCEPT ![e] = 0]
      /\ c.pncalls = [b.pncalls EXCEPT ![e] = FALSE]
  BY FreshOnceFields
<1> HIDE DEF c
<1> QED BY <1>1, <1>2 DEF Calm, Owes, c

\* The actions that are one of those calls, or leave base alone.
LEMMA QuietStep ==
  ASSUME IInv, App \/ (\E e \in Event : Expire(e)) \/ Dispatch
  PROVE  /\ pc # "calls" /\ pc' # "calls" /\ Calm(base, base')
         /\ base'.frame \in {base.frame, 0}
         /\ (pc' = pc /\ cur' = cur) \/ (pc # "callback" /\ pc' # "callback")
         /\ GivesUp \/ (cut' = cut /\ (pc # "callback" \/ base'.frame = base.frame))
<1> USE DEF loopVars
<1>1. Good(base) /\ TypeOK /\ GetTime \in Nat
  BY GoodBase DEF IInv, TypeOK, GetTime
<1>2. User \subseteq Event /\ Timeouts \subseteq Nat /\ Manual \subseteq Event
      /\ Once \subseteq Event
  BY EventAssumption, BoundAssumption DEF User
<1> DEFINE Result1 == Calm(base, base') /\ base'.frame \in {base.frame, 0}
<1>3. ASSUME NEW e \in Event, NEW tv \in Nat \cup {NoTimeout}, EventAdd(e, tv)
      PROVE  Result1
  BY <1>1, <1>3, AddCalm, EventAddBase
<1>4. ASSUME NEW e \in Event, EventDel(e)
      PROVE  Result1
  BY <1>1, <1>4, DelCalm DEF EventDel
<1>5. ASSUME NEW e \in Manual, NEW res \in ByHand, NEW n \in 1 .. MaxCalls,
             EventActive(e, res, n)
      PROVE  Result1 /\ base'.frame = base.frame
  <2>1. {res} \in SUBSET Result /\ n \in Nat
    BY BoundAssumption
  <2> QED BY <1>1, <1>2, <1>5, <2>1, ActiveCalm DEF EventActive
<1>6. ASSUME NEW e \in Once, NEW tv \in Timeouts, LoopExit(e, tv)
      PROVE  Result1
  <2> DEFINE c == FreshOnce(base, e)
  <2>1. e \in Event /\ tv \in Nat \cup {NoTimeout} /\ base.flags[e] = {}
    BY <1>2, <1>6 DEF LoopExit
  <2>2. Good(c) /\ Calm(base, c) /\ c.frame = base.frame
    BY <1>1, <2>1, FreshOnceGood, FreshOnceCalm
  <2> HIDE DEF c
  <2>3. Calm(c, Add(c, e, tv, GetTime)) /\ Add(c, e, tv, GetTime).frame \in {c.frame, 0}
    BY <1>1, <2>1, <2>2, AddCalm
  <2>4. base' = Add(c, e, tv, GetTime)
    BY <1>6 DEF LoopExit, c
  <2> QED BY <2>2, <2>3, <2>4 DEF Calm
<1>7. ASSUME NEW e \in User, NEW p \in Pri, EventPrioritySet(e, p)
      PROVE  Result1
  BY <1>1, <1>7 DEF EventPrioritySet, TypeOK, Base, Calm, Owes
<1>8. ASSUME NEW e \in Event, NEW res \in Result, NEW n \in Nat, Report(e, res, n)
      PROVE  Result1
  <2> DEFINE c == IF e \in Signals \ Persist THEN Del(base, e) ELSE base
  <2>1. Good(c) /\ Calm(base, c) /\ c.frame \in {base.frame, 0}
    <3>1. Calm(base, base) /\ Good(Del(base, e)) /\ Calm(base, Del(base, e))
          /\ Del(base, e).frame \in {base.frame, 0}
      BY <1>1, DelGood, DelCalm DEF Calm
    <3> QED BY <1>1, <3>1
  <2>2. base' = Active(c, e, {res}, n)
    BY <1>8 DEF Report
  <2> HIDE DEF c
  <2>3. /\ Calm(c, Active(c, e, {res}, n))
        /\ Active(c, e, {res}, n).frame = c.frame
    <3>1. {res} \in SUBSET Result
      OBVIOUS
    <3> QED BY <2>1, <3>1, ActiveCalm
  <2> QED BY <2>1, <2>2, <2>3 DEF Calm
<1>9. ASSUME NEW e \in Event, Expire(e)
      PROVE  Result1
  <2> DEFINE c == Del(base, e)
  <2>1. Good(c) /\ Calm(base, c) /\ c.frame \in {base.frame, 0}
    BY <1>1, DelGood, DelCalm
  <2>2. base' = Active(c, e, {"TIMEOUT"}, 1)
    BY <1>9 DEF Expire
  <2> HIDE DEF c
  <2> QED BY <2>1, <2>2, ActiveCalm DEF Calm, Result
<1>10. ASSUME base' = base PROVE Result1
  BY <1>10 DEF Calm
<1>11. Timeouts \subseteq Nat \cup {NoTimeout} /\ NoTimeout \in Nat \cup {NoTimeout}
  BY <1>2
<1>12. ASSUME App PROVE Result1
  BY <1>2, <1>3, <1>4, <1>5, <1>6, <1>7, <1>10, <1>11, <1>12, EventAddBase
  DEF App, LoopBreak
<1>13. ASSUME Dispatch PROVE Result1
  <2>1. CASE \E e \in Event \ Signals : \E res \in Interest[e] : Report(e, res, 1)
    BY <1>8, <2>1, InterestAssumption DEF Result
  <2>2. CASE \E e \in Signals : \E n \in 1 .. MaxCalls : Report(e, "SIGNAL", n)
    BY <1>8, <2>2, BoundAssumption DEF Signals, Result
  <2> QED BY <1>10, <1>13, <2>1, <2>2 DEF Dispatch, Wake, WaitTimesOut, ReportsDone, LoopPollFails
<1>14. /\ pc # "calls" /\ pc' # "calls"
       /\ (pc' = pc /\ cur' = cur) \/ (pc # "callback" /\ pc' # "callback")
  <2>1. CASE App
    BY <2>1 DEF App, AppRuns, EventAdd, EventAddFails, EventDel, EventPrioritySet,
                EventActive, LoopExit, LoopBreak
  <2>2. CASE Dispatch \/ \E e \in Event : Expire(e)
    BY <2>2 DEF Dispatch, Wake, WaitTimesOut, Report, ReportsDone, LoopPollFails, Expire
  <2> QED BY <2>1, <2>2
<1>15. GivesUp \/ (cut' = cut /\ (pc # "callback" \/ base'.frame = base.frame))
  <2>1. CASE App
    <3>1. CASE \E e \in Manual, res \in ByHand, n \in 1 .. MaxCalls : EventActive(e, res, n)
      BY <1>5, <3>1 DEF EventActive
    <3>2. ASSUME NEW e \in User, NEW tv \in Timeouts, EventAddFails(e, tv)
          PROVE  cut' = cut /\ base'.frame = base.frame
      BY <3>2, EventAddBase DEF EventAddFails
    <3>3. ASSUME NEW e \in User, NEW p \in Pri, EventPrioritySet(e, p)
          PROVE  cut' = cut /\ base'.frame = base.frame
      BY <1>1, <3>3 DEF EventPrioritySet, TypeOK, Base
    <3>4. \A e, tv : EventAdd(e, tv) \/ EventDel(e) \/ LoopExit(e, tv) => GivesUp
      BY DEF EventAdd, EventDel, LoopExit
    <3>5. LoopBreak => cut' = cut /\ base' = base
      BY DEF LoopBreak
    <3> QED BY <2>1, <3>1, <3>2, <3>3, <3>4, <3>5 DEF App
  <2>2. CASE Dispatch \/ \E e \in Event : Expire(e)
    BY <2>2 DEF Dispatch, Wake, WaitTimesOut, Report, ReportsDone, LoopPollFails, Expire
  <2> QED BY <2>1, <2>2
<1> QED BY <1>9, <1>12, <1>13, <1>14, <1>15

\* The actions that leave base alone; App and Expire are quiet, as Dispatch is.
LEMMA StillStep ==
  ASSUME IInv, NEW flags \in SUBSET Mode,
         \/ LoopEnter(flags) \/ LoopStop \/ LoopNoEvents \/ LoopPoll
         \/ ExpireDone \/ ProcessDone \/ Tick \/ UNCHANGED vars
  PROVE  /\ base' = base /\ revoked' = revoked /\ cut' = cut
         /\ \/ pc' = pc /\ cur' = cur
            \/ pc \notin {"calls", "callback"} /\ pc' \notin {"calls", "callback"}
BY DEF LoopEnter, LoopStop, LoopNoEvents, LoopPoll, ExpireDone, ProcessDone, TurnEnds,
       Leave, Tick, loopVars, vars

\* event_process_active takes an event, and the local ncalls its ev_ncalls.
LEMMA TakesEvent ==
  ASSUME IInv, ProcessNext
  PROVE  /\ cur' \in Event /\ "ACTIVE" \in base.flags[cur']
         /\ base'.ncalls = base.ncalls
         /\ base'.pncalls = [base.pncalls EXCEPT ![cur'] = TRUE]
         /\ base'.frame = base.ncalls[cur']
         /\ \E x \in SUBSET Queue : base'.flags = [base.flags EXCEPT ![cur'] = x]
         /\ "ACTIVE" \notin base'.flags[cur']
         /\ base'.res = base.res /\ base'.deadline = base.deadline
<1> DEFINE e == Head(base.active[activeq])
           b == IF e \in Persist THEN QueueRemove(base, e, "ACTIVE") ELSE Del(base, e)
           c == [b EXCEPT !.frame = b.ncalls[e], !.pncalls[e] = TRUE]
<1>1. Good(base) /\ TypeOK
  BY GoodBase DEF IInv, TypeOK
<1>2. e \in Event /\ "ACTIVE" \in base.flags[e] /\ base' = c /\ cur' = e
  BY <1>1, ProcessNextGood DEF ProcessNext, TypeOK
<1> HIDE DEF e
<1>3. /\ Good(b) /\ Rest(base, b)
      /\ \E x \in SUBSET Queue : base.flags \in [Event -> SUBSET Queue]
           /\ b.flags = [base.flags EXCEPT ![e] = x] /\ "ACTIVE" \notin x
  <2>1. base.flags \in [Event -> SUBSET Queue] /\ base \in Base
    BY <1>1 DEF Good, Base
  <2>2. CASE e \in Persist
    <3>1. /\ Good(b) /\ Rest(base, b)
          /\ b.flags = [base.flags EXCEPT ![e] = @ \ {"ACTIVE"}]
      BY <1>1, <1>2, <2>1, <2>2, QueueRemoveGood, QueueFields DEF Queue
    <3>2. b.flags = [base.flags EXCEPT ![e] = base.flags[e] \ {"ACTIVE"}]
          /\ base.flags[e] \ {"ACTIVE"} \in SUBSET Queue
      BY <1>2, <2>1, <3>1
    <3> HIDE DEF b
    <3> QED BY <2>1, <3>1, <3>2
  <2>3. CASE e \notin Persist
    <3>1. Good(b) /\ Rest(base, b) /\ b.flags = [base.flags EXCEPT ![e] = {}]
      BY <1>1, <1>2, <2>3, DelGood, DelFields
    <3> HIDE DEF b
    <3> QED BY <2>1, <3>1
  <2> QED BY <2>2, <2>3
<1> HIDE DEF b
<1>4. b \in Base
  BY <1>3 DEF Good
<1>5. /\ c.flags = b.flags /\ c.frame = b.ncalls[e] /\ c.ncalls = b.ncalls
      /\ c.pncalls = [b.pncalls EXCEPT ![e] = TRUE]
      /\ c.res = b.res /\ c.deadline = b.deadline
  BY <1>2, <1>4 DEF Base
<1> HIDE DEF c
<1> QED BY <1>2, <1>3, <1>5 DEF Rest

LEMMA CallsPreserved == IInv /\ CallInv /\ [Next]_vars => CallInv'
<1> SUFFICES ASSUME IInv, CallInv, [Next]_vars PROVE CallInv'
  OBVIOUS
<1>1. Good(base) /\ TypeOK
  BY GoodBase DEF IInv, TypeOK
<1>2. /\ base.ncalls \in [Event -> Nat] /\ base.pncalls \in [Event -> BOOLEAN]
      /\ base.frame \in Nat
  BY <1>1 DEF TypeOK, Base
<1> USE DEF CallInv, NoStrayCancel, Owes, Calling
<1>3. ASSUME App \/ (\E e \in Event : Expire(e)) \/ Dispatch
      PROVE  CallInv'
  <2>1. /\ pc # "calls" /\ pc' # "calls" /\ Calm(base, base')
        /\ base'.frame \in {base.frame, 0}
        /\ (pc' = pc /\ cur' = cur) \/ (pc # "callback" /\ pc' # "callback")
        /\ GivesUp \/ (cut' = cut /\ (pc # "callback" \/ base'.frame = base.frame))
    BY <1>3, QuietStep
  <2> QED BY <2>1 DEF Calm, GivesUp
<1>4. ASSUME NEW flags \in SUBSET Mode,
             \/ LoopEnter(flags) \/ LoopStop \/ LoopNoEvents \/ LoopPoll
             \/ ExpireDone \/ ProcessDone \/ Tick \/ UNCHANGED vars
      PROVE  CallInv'
  <2>1. /\ base' = base /\ cut' = cut
        /\ \/ pc' = pc /\ cur' = cur
           \/ pc \notin {"calls", "callback"} /\ pc' \notin {"calls", "callback"}
    BY <1>4, StillStep
  <2> QED BY <2>1
<1>5. ASSUME ProcessNext PROVE CallInv'
  <2>1. pc = "process" /\ pc' = "calls" /\ cut' = cut \ {cur'}
    BY <1>5 DEF ProcessNext
  <2>2. /\ cur' \in Event /\ base'.ncalls = base.ncalls
        /\ base'.pncalls = [base.pncalls EXCEPT ![cur'] = TRUE]
        /\ base'.frame = base.ncalls[cur']
    BY <1>5, TakesEvent
  <2> QED BY <1>2, <2>1, <2>2
<1>6. ASSUME Call PROVE CallInv'
  <2>1. /\ pc = "calls" /\ pc' = "callback" /\ cur' = cur /\ base.frame # 0
        /\ cur \in Event /\ cut' = cut
    BY <1>6 DEF Call
  <2>2. /\ base'.frame = base.frame - 1 /\ base'.pncalls = base.pncalls
        /\ base'.ncalls = [base.ncalls EXCEPT ![cur] = base.frame - 1]
    BY <1>1, <1>6 DEF Call, TypeOK, Base
  <2> QED BY <1>2, <2>1, <2>2
<1>7. ASSUME CallsDone PROVE CallInv'
  BY <1>7 DEF CallsDone
<1>8. ASSUME CallbackReturns PROVE CallInv'
  <2>1. CASE break
    <3>1. /\ pc = "callback" /\ pc' \in {"idle", "loop"}
          /\ base' = [base EXCEPT !.frame = 0] /\ GivesUp
      BY <1>8, <2>1 DEF CallbackReturns, TurnEnds, Leave
    <3>2. base'.ncalls = base.ncalls /\ base'.pncalls = base.pncalls /\ base'.frame = 0
      BY <1>1, <3>1 DEF TypeOK, Base
    <3> QED BY <3>1, <3>2 DEF GivesUp
  <2>2. CASE ~break
    BY <1>8, <2>2 DEF CallbackReturns, GivesUp
  <2> QED BY <2>1, <2>2
<1> QED BY <1>3, <1>4, <1>5, <1>6, <1>7, <1>8 DEF Next, Loop

\* Whatever is called in the callbacks, ev_pncalls of an event that owes calls
\* points at the ncalls of the event_process_active that is calling it: its
\* event_del cancels its own calls.  The exception is named in NoStrayCancel:
\* the events whose calls were given up by event_loopbreak or event_del, and a
\* non-signal event is one of them only when it was passed to event_active for
\* several calls.
THEOREM NoStrayPointer == Spec => []NoStrayCancel
<1>1. Init => CallInv
  BY DEF Init, CallInv, NoStrayCancel, Owes, Calling
<1>2. IInv /\ CallInv /\ [Next]_vars => CallInv'
  BY CallsPreserved
<1>3. CallInv => NoStrayCancel
  BY DEF CallInv
<1> QED BY <1>1, <1>2, <1>3, Invariant, PTL DEF Spec

-----------------------------------------------------------------------------
(* Deleted events are not called.                                          *)

\* A deleted event is on no queue, and a call that is still owed is owed to an
\* event through which event_del can cancel it, unless the event was activated
\* in its own callback.
WatchInv ==
  /\ revoked \subseteq User
  /\ \A e \in revoked : base.flags[e] = {}
  /\ pc \in {"calls", "callback"} /\ base.frame # 0 /\ base.pncalls[cur] =>
       /\ base.ncalls[cur] = base.frame
       /\ cur \notin revoked

\* The application calls in a callback.
LEMMA AppWatched ==
  ASSUME IInv, CallInv, WatchInv, App
  PROVE  WatchInv'
<1> USE DEF loopVars
<1>1. Good(base) /\ TypeOK /\ GetTime \in Nat
  BY GoodBase DEF IInv, TypeOK, GetTime
<1>2. /\ User \subseteq Event /\ Timeouts \subseteq Nat /\ Manual \subseteq User
      /\ Once \subseteq Event /\ SigPipe \notin User /\ Once \cap User = {}
      /\ Timeouts \subseteq Nat \cup {NoTimeout} /\ NoTimeout \in Nat \cup {NoTimeout}
  BY EventAssumption, BoundAssumption DEF User
<1>3. /\ base.ncalls \in [Event -> Nat] /\ base.pncalls \in [Event -> BOOLEAN]
      /\ base.frame \in Nat /\ base.flags \in [Event -> SUBSET Queue]
  BY <1>1 DEF TypeOK, Base
<1>4. /\ pc' = pc /\ cur' = cur /\ pc # "calls"
      /\ pc = "callback" => cur \in User
  BY DEF App, AppRuns, EventAdd, EventAddFails, EventDel, EventPrioritySet,
         EventActive, LoopExit, LoopBreak
<1>5. ASSUME NEW e \in User, NEW tv \in Nat \cup {NoTimeout}, EventAdd(e, tv)
      PROVE  WatchInv'
  <2> DEFINE c == Add(base, e, tv, GetTime)
  <2>1. /\ c.ncalls = base.ncalls /\ c.pncalls = base.pncalls
        /\ c.frame \in {base.frame, 0}
        /\ \A f \in Event : f \notin {e, SigPipe} => c.flags[f] = base.flags[f]
    BY <1>1, <1>2, AddFields
  <2>2. base' = c /\ revoked' = revoked \ {e}
    BY <1>5, EventAddBase DEF EventAdd
  <2> HIDE DEF c
  <2> QED BY <1>2, <1>4, <2>1, <2>2 DEF WatchInv
<1>6. ASSUME NEW e \in User, EventDel(e)
      PROVE  WatchInv'
  <2> DEFINE c == Del(base, e)
  <2>1. /\ c.ncalls = base.ncalls /\ c.pncalls = base.pncalls
        /\ c.frame = Cancelled(base, e)
        /\ c.flags = [base.flags EXCEPT ![e] = {}]
    BY <1>1, <1>2, DelFields, DelGood DEF Rest
  <2>2. base' = c /\ revoked' = revoked \cup {e}
    BY <1>6 DEF EventDel
  <2> HIDE DEF c
  <2> QED BY <1>2, <1>3, <1>4, <2>1, <2>2 DEF WatchInv, Cancelled
<1>7. ASSUME NEW e \in Manual, NEW res \in ByHand, NEW n \in 1 .. MaxCalls,
             EventActive(e, res, n)
      PROVE  WatchInv'
  <2> DEFINE c == Active(base, e, {res}, n)
  <2>1. {res} \in SUBSET Result /\ n \in Nat
    BY BoundAssumption
  <2>2. Activates(base, c, e, {res}, n)
    BY <1>1, <1>2, <2>1, ActiveFields
  <2>3. base' = c /\ revoked' = revoked \ {e}
    BY <1>7 DEF EventActive
  <2> HIDE DEF c
  <2>4. /\ c.frame = base.frame
        /\ \A f \in Event : f # e => /\ c.ncalls[f] = base.ncalls[f]
                                     /\ c.pncalls[f] = base.pncalls[f]
                                     /\ c.flags[f] = base.flags[f]
        /\ c.pncalls[e] => c.ncalls[e] = base.ncalls[e] /\ base.pncalls[e]
    BY <1>2, <1>3, <2>2 DEF Activates
  <2> QED BY <1>2, <1>4, <2>3, <2>4 DEF WatchInv
<1>8. ASSUME NEW e \in Once, NEW tv \in Timeouts, LoopExit(e, tv)
      PROVE  WatchInv'
  <2> DEFINE c == FreshOnce(base, e)
             d == Add(c, e, tv, GetTime)
  <2>1. base.flags[e] = {} /\ base' = d /\ revoked' = revoked
    BY <1>8 DEF LoopExit
  <2>2. /\ Good(c) /\ c.frame = base.frame /\ c.flags = base.flags
        /\ c.ncalls = [base.ncalls EXCEPT ![e] = 0]
        /\ c.pncalls = [base.pncalls EXCEPT ![e] = FALSE]
    BY <1>1, <1>2, <2>1, FreshOnceGood, FreshOnceFields
  <2> HIDE DEF c
  <2>3. /\ d.ncalls = c.ncalls /\ d.pncalls = c.pncalls /\ d.frame \in {c.frame, 0}
        /\ \A f \in Event : f \notin {e, SigPipe} => d.flags[f] = c.flags[f]
    BY <1>1, <1>2, <2>2, AddFields
  <2> HIDE DEF d
  <2>4. \A f \in User : /\ d.ncalls[f] = base.ncalls[f] /\ d.pncalls[f] = base.pncalls[f]
                        /\ d.flags[f] = base.flags[f]
    BY <1>2, <1>3, <2>2, <2>3
  <2> QED BY <1>2, <1>4, <2>1, <2>2, <2>3, <2>4 DEF WatchInv
<1>9. ASSUME NEW e \in User, NEW p \in Pri, EventPrioritySet(e, p)
      PROVE  WatchInv'
  <2>1. /\ base'.ncalls = base.ncalls /\ base'.pncalls = base.pncalls
        /\ base'.frame = base.frame /\ base'.flags = base.flags /\ revoked' = revoked
    BY <1>1, <1>9 DEF EventPrioritySet, TypeOK, Base
  <2> QED BY <1>4, <2>1 DEF WatchInv
<1>10. ASSUME base' = base, revoked' = revoked PROVE WatchInv'
  BY <1>4, <1>10 DEF WatchInv
<1> QED BY <1>2, <1>5, <1>6, <1>7, <1>8, <1>9, <1>10, EventAddBase
        DEF App, EventAddFails, LoopBreak

LEMMA WatchPreserved == IInv /\ CallInv /\ WatchInv /\ [Next]_vars => WatchInv'
<1> SUFFICES ASSUME IInv, CallInv, WatchInv, [Next]_vars PROVE WatchInv'
  OBVIOUS
<1>1. Good(base) /\ TypeOK
  BY GoodBase DEF IInv, TypeOK
<1>2. /\ base.ncalls \in [Event -> Nat] /\ base.pncalls \in [Event -> BOOLEAN]
      /\ base.frame \in Nat /\ base.flags \in [Event -> SUBSET Queue]
      /\ User \subseteq Event
  BY <1>1 DEF TypeOK, Base, User
<1>3. ASSUME NEW e \in Event, base.flags[e] # {}, NEW x,
             base'.flags = [base.flags EXCEPT ![e] = x],
             revoked' = revoked, pc' \notin {"calls", "callback"}
      PROVE  WatchInv'
  BY <1>2, <1>3 DEF WatchInv
<1>4. ASSUME NEW e \in Event, NEW res \in Result, NEW n \in Nat, Report(e, res, n)
      PROVE  WatchInv'
  <2> DEFINE c == IF e \in Signals \ Persist THEN Del(base, e) ELSE base
             d == Active(c, e, {res}, n)
  <2>1. Good(c) /\ (c.flags = base.flags \/ c.flags = [base.flags EXCEPT ![e] = {}])
    BY <1>1, DelGood
  <2>2. /\ base' = d /\ revoked' = revoked /\ pc' = "report"
        /\ "INSERTED" \in base.flags[e]
    BY <1>4 DEF Report, loopVars
  <2> HIDE DEF c
  <2>3. d.flags = [c.flags EXCEPT ![e] = @ \cup {"ACTIVE"}]
    BY <2>1, ActiveGood
  <2> HIDE DEF d
  <2>4. \E x : base'.flags = [base.flags EXCEPT ![e] = x]
    BY <1>2, <2>1, <2>2, <2>3
  <2> QED BY <1>3, <2>2, <2>4
<1>5. ASSUME NEW e \in Event, Expire(e) PROVE WatchInv'
  <2> DEFINE c == Del(base, e)
             d == Active(c, e, {"TIMEOUT"}, 1)
  <2>1. Good(c) /\ c.flags = [base.flags EXCEPT ![e] = {}]
    BY <1>1, DelGood
  <2>2. /\ base' = d /\ revoked' = revoked /\ pc' = "expire"
        /\ "TIMEOUT" \in base.flags[e]
    BY <1>5 DEF Expire, Expired, HeapTop, Armed, loopVars
  <2> HIDE DEF c
  <2>3. d.flags = [c.flags EXCEPT ![e] = @ \cup {"ACTIVE"}]
    BY <2>1, ActiveGood DEF Result
  <2> HIDE DEF d
  <2>4. \E x : base'.flags = [base.flags EXCEPT ![e] = x]
    BY <1>2, <2>1, <2>2, <2>3
  <2> QED BY <1>3, <2>2, <2>4
<1>6. ASSUME Dispatch PROVE WatchInv'
  <2>1. CASE \E e \in Event \ Signals : \E res \in Interest[e] : Report(e, res, 1)
    BY <1>4, <2>1, InterestAssumption DEF Result
  <2>2. CASE \E e \in Signals : \E n \in 1 .. MaxCalls : Report(e, "SIGNAL", n)
    BY <1>4, <2>2, BoundAssumption DEF Signals, Result
  <2>3. CASE Wake \/ WaitTimesOut \/ ReportsDone \/ LoopPollFails
    BY <2>3 DEF Wake, WaitTimesOut, ReportsDone, LoopPollFails, WatchInv
  <2> QED BY <1>6, <2>1, <2>2, <2>3 DEF Dispatch
<1>7. ASSUME NEW flags \in SUBSET Mode,
             \/ LoopEnter(flags) \/ LoopStop \/ LoopNoEvents \/ LoopPoll
             \/ ExpireDone \/ ProcessDone \/ Tick \/ UNCHANGED vars
      PROVE  WatchInv'
  <2>1. /\ base' = base /\ revoked' = revoked
        /\ \/ pc' = pc /\ cur' = cur
           \/ pc \notin {"calls", "callback"} /\ pc' \notin {"calls", "callback"}
    BY <1>7, StillStep
  <2> QED BY <2>1 DEF WatchInv
<1>8. ASSUME ProcessNext PROVE WatchInv'
  <2>1. pc' = "calls" /\ revoked' = revoked
    BY <1>8 DEF ProcessNext
  <2>2. /\ cur' \in Event /\ "ACTIVE" \in base.flags[cur']
        /\ base'.ncalls = base.ncalls
        /\ base'.pncalls = [base.pncalls EXCEPT ![cur'] = TRUE]
        /\ base'.frame = base.ncalls[cur']
        /\ \E x \in SUBSET Queue : base'.flags = [base.flags EXCEPT ![cur'] = x]
    BY <1>8, TakesEvent
  <2> QED BY <1>2, <2>1, <2>2 DEF WatchInv
<1>9. ASSUME Call PROVE WatchInv'
  <2>1. pc = "calls" /\ base.frame # 0 /\ cur' = cur /\ cur \in Event /\ revoked' = revoked
    BY <1>9 DEF Call, CallInv
  <2>2. /\ base'.frame = base.frame - 1 /\ base'.pncalls = base.pncalls
        /\ base'.ncalls = [base.ncalls EXCEPT ![cur] = base.frame - 1]
        /\ base'.flags = base.flags
    BY <1>1, <1>9 DEF Call, TypeOK, Base
  <2> QED BY <1>2, <2>1, <2>2 DEF WatchInv
<1>10. ASSUME CallsDone PROVE WatchInv'
  BY <1>10 DEF CallsDone, WatchInv
<1>11. ASSUME CallbackReturns PROVE WatchInv'
  <2>1. CASE break
    <3>1. base' = [base EXCEPT !.frame = 0] /\ revoked' = revoked
      BY <1>11, <2>1 DEF CallbackReturns
    <3>2. base'.flags = base.flags /\ base'.frame = 0
      BY <1>1, <3>1 DEF TypeOK, Base
    <3> QED BY <3>1, <3>2 DEF WatchInv
  <2>2. CASE ~break
    <3>1. pc = "callback" /\ base' = base /\ cur' = cur /\ revoked' = revoked
      BY <1>11, <2>2 DEF CallbackReturns
    <3> QED BY <3>1 DEF WatchInv
  <2> QED BY <2>1, <2>2
<1>12. ASSUME App PROVE WatchInv'
  BY <1>12, AppWatched
<1> QED BY <1>5, <1>6, <1>7, <1>8, <1>9, <1>10, <1>11, <1>12 DEF Next, Loop

\* No callback runs for an event after event_del of it, not even the calls that
\* event_process_active still owes when its own callback deletes it, unless
\* that callback activated the event by hand before, which clears ev_pncalls.
THEOREM NoCallAfterDeletion == Spec => NoCallAfterDel
<1>1. Init => CallInv /\ WatchInv
  BY DEF Init, CallInv, NoStrayCancel, Owes, Calling, WatchInv
<1>2. IInv /\ CallInv /\ WatchInv /\ [Next]_vars => CallInv' /\ WatchInv'
  BY CallsPreserved, WatchPreserved
<1>3. IInv /\ WatchInv /\ [Next]_vars =>
        [pc = "calls" /\ pc' = "callback" /\ base.pncalls[cur] => cur \notin revoked]_vars
  <2> SUFFICES ASSUME WatchInv, Next, pc = "calls", pc' = "callback", base.pncalls[cur]
               PROVE  cur \notin revoked
    OBVIOUS
  <2>1. base.frame # 0
    <3>1. ~(App \/ Dispatch \/ \E e \in Event : Expire(e))
      BY DEF App, AppRuns, EventAdd, EventAddFails, EventDel, EventPrioritySet,
             EventActive, LoopExit, LoopBreak, Dispatch, Wake, WaitTimesOut, Report,
             ReportsDone, LoopPollFails, Expire
    <3>2. Call
      BY <3>1 DEF Next, Loop, LoopEnter, LoopStop, LoopNoEvents, LoopPoll, ExpireDone,
                  ProcessNext, CallsDone, CallbackReturns, ProcessDone, Tick, loopVars
    <3> QED BY <3>2 DEF Call
  <2> QED BY <2>1 DEF WatchInv
<1> QED BY <1>1, <1>2, <1>3, Invariant, PTL DEF Spec, NoCallAfterDel

-----------------------------------------------------------------------------
(* Armed events and the backend.                                           *)

\* The step that ArmedIsHeard allows.
Hears(b, c) ==
  \A e \in Event : Interest[e] # {} /\ Deaf(c, e) => Deaf(b, e) \/ "ACTIVE" \in b.flags[e]

LEMMA AddHears ==
  ASSUME NEW b, Good(b), NEW e \in Event, NEW tv \in Nat \cup {NoTimeout}, NEW now \in Nat
  PROVE  Hears(b, Add(b, e, tv, now))
<1> DEFINE added == IF NeedsBackend(b, e) THEN Register(b, e) ELSE b
<1>1. /\ Good(added)
      /\ \A f \in Event : /\ "TIMEOUT" \in added.flags[f] <=> "TIMEOUT" \in b.flags[f]
                          /\ "INSERTED" \in b.flags[f] => "INSERTED" \in added.flags[f]
      /\ NeedsBackend(b, e) => "INSERTED" \in added.flags[e]
  <2>1. CASE NeedsBackend(b, e)
    BY <2>1, RegisterGood, RegisterFields
  <2>2. CASE ~NeedsBackend(b, e)
    BY <2>2
  <2> QED BY <2>1, <2>2
<1> HIDE DEF added
<1>2. Hears(b, added)
  BY <1>1 DEF Hears, Deaf
<1>3. CASE tv = NoTimeout
  <2>1. Add(b, e, tv, now) = added
    BY <1>3 DEF Add, added
  <2> QED BY <1>2, <2>1
<1>4. CASE tv # NoTimeout
  <2> DEFINE c == Arm(added, e, now + tv)
  <2>1. now + tv \in Nat
    BY <1>4
  <2>2. /\ \A f \in Event : f # e => c.flags[f] = added.flags[f]
        /\ "INSERTED" \in added.flags[e] => "INSERTED" \in c.flags[e]
    <3>1. ArmedAt(added, c, e, now + tv)
      BY <1>1, <2>1, ArmFields
    <3> QED BY <3>1 DEF ArmedAt
  <2>3. Add(b, e, tv, now) = c
    BY <1>4 DEF Add, added
  <2> HIDE DEF c
  <2>4. Interest[e] # {} => "INSERTED" \in added.flags[e] \/ "ACTIVE" \in b.flags[e]
    BY <1>1 DEF NeedsBackend
  <2>5. Hears(b, c)
    BY <1>2, <2>2, <2>4 DEF Hears, Deaf
  <2> QED BY <2>3, <2>5
<1> QED BY <1>3, <1>4

LEMMA HearsActive ==
  ASSUME NEW b, Good(b), NEW c, Good(c), NEW e \in Event, NEW res \in SUBSET Result,
         NEW n \in Nat, c = b \/ c.flags = [b.flags EXCEPT ![e] = {}]
  PROVE  Hears(b, c) /\ Hears(b, Active(c, e, res, n))
<1> DEFINE d == Active(c, e, res, n)
<1>1. /\ b.flags \in [Event -> SUBSET Queue] /\ c.flags \in [Event -> SUBSET Queue]
  BY DEF Good, Base
<1>2. d.flags = [c.flags EXCEPT ![e] = @ \cup {"ACTIVE"}]
  BY ActiveGood
<1> HIDE DEF d
<1>3. Hears(b, c)
  BY <1>1 DEF Hears, Deaf
<1>4. Hears(b, d)
  BY <1>1, <1>2 DEF Hears, Deaf
<1> QED BY <1>3, <1>4 DEF d

LEMMA StepHears == ASSUME IInv, Next PROVE Hears(base, base')
<1>1. Good(base) /\ TypeOK /\ GetTime \in Nat
  BY GoodBase DEF IInv, TypeOK, GetTime
<1>2. /\ User \subseteq Event /\ Timeouts \subseteq Nat /\ Manual \subseteq Event
      /\ Once \subseteq Event
      /\ Timeouts \subseteq Nat \cup {NoTimeout} /\ NoTimeout \in Nat \cup {NoTimeout}
  BY EventAssumption, BoundAssumption DEF User
<1>3. ASSUME base'.flags = base.flags PROVE Hears(base, base')
  BY <1>3 DEF Hears, Deaf
<1>4. ASSUME NEW e \in Event, NEW res \in Result, NEW n \in Nat, Report(e, res, n)
      PROVE  Hears(base, base')
  <2> DEFINE c == IF e \in Signals \ Persist THEN Del(base, e) ELSE base
  <2>1. Good(c) /\ (c = base \/ c.flags = [base.flags EXCEPT ![e] = {}])
    BY <1>1, DelGood
  <2>2. base' = Active(c, e, {res}, n) /\ {res} \in SUBSET Result
    BY <1>4 DEF Report
  <2> HIDE DEF c
  <2> QED BY <1>1, <2>1, <2>2, HearsActive
<1>5. ASSUME NEW e \in Event, Expire(e) PROVE Hears(base, base')
  <2> DEFINE c == Del(base, e)
  <2>1. Good(c) /\ c.flags = [base.flags EXCEPT ![e] = {}]
    BY <1>1, DelGood
  <2>2. base' = Active(c, e, {"TIMEOUT"}, 1) /\ {"TIMEOUT"} \in SUBSET Result /\ 1 \in Nat
    BY <1>5 DEF Expire, Result
  <2> HIDE DEF c
  <2> QED BY <1>1, <2>1, <2>2, HearsActive
<1>6. CASE App
  <2>1. ASSUME NEW e \in User, NEW tv \in Nat \cup {NoTimeout}, EventAdd(e, tv)
        PROVE  Hears(base, base')
    BY <1>1, <1>2, <2>1, AddHears, EventAddBase
  <2>2. ASSUME NEW e \in User, EventDel(e) PROVE Hears(base, base')
    <3>1. Good(Del(base, e)) /\ Del(base, e).flags = [base.flags EXCEPT ![e] = {}]
      BY <1>1, <1>2, DelGood
    <3>2. base' = Del(base, e) /\ {} \in SUBSET Result /\ 0 \in Nat /\ e \in Event
      BY <1>2, <2>2 DEF EventDel
    <3> QED BY <1>1, <3>1, <3>2, HearsActive
  <2>3. ASSUME NEW e \in Manual, NEW res \in ByHand, NEW n \in 1 .. MaxCalls,
               EventActive(e, res, n)
        PROVE  Hears(base, base')
    <3>1. {res} \in SUBSET Result /\ n \in Nat /\ e \in Event
      BY <1>2, BoundAssumption
    <3>2. base' = Active(base, e, {res}, n)
      BY <2>3 DEF EventActive
    <3> QED BY <1>1, <3>1, <3>2, HearsActive
  <2>4. ASSUME NEW e \in Once, NEW tv \in Timeouts, LoopExit(e, tv)
        PROVE  Hears(base, base')
    <3> DEFINE c == FreshOnce(base, e)
    <3>1. e \in Event /\ base.flags[e] = {} /\ base' = Add(c, e, tv, GetTime)
      BY <1>2, <2>4 DEF LoopExit
    <3>2. Good(c) /\ c.flags = base.flags
      BY <1>1, <3>1, FreshOnceGood, FreshOnceFields
    <3> HIDE DEF c
    <3>3. Hears(c, base')
      BY <1>1, <1>2, <3>1, <3>2, AddHears
    <3> QED BY <3>2, <3>3 DEF Hears, Deaf
  <2>5. ASSUME NEW e \in User, NEW p \in Pri, EventPrioritySet(e, p)
        PROVE  Hears(base, base')
    BY <1>1, <1>3, <2>5 DEF EventPrioritySet, TypeOK, Base
  <2>6. ASSUME NEW e \in User, NEW tv \in Timeouts, EventAddFails(e, tv)
        PROVE  Hears(base, base')
    BY <1>3, <2>6, EventAddBase
  <2>7. LoopBreak => Hears(base, base')
    BY <1>3 DEF LoopBreak
  <2> QED BY <1>2, <1>6, <2>1, <2>2, <2>3, <2>4, <2>5, <2>6, <2>7 DEF App
<1>7. CASE Dispatch
  <2>1. CASE \E e \in Event \ Signals : \E res \in Interest[e] : Report(e, res, 1)
    BY <1>4, <2>1, InterestAssumption DEF Result
  <2>2. CASE \E e \in Signals : \E n \in 1 .. MaxCalls : Report(e, "SIGNAL", n)
    BY <1>4, <2>2, BoundAssumption DEF Signals, Result
  <2> QED BY <1>3, <1>7, <2>1, <2>2
          DEF Dispatch, Wake, WaitTimesOut, ReportsDone, LoopPollFails
<1>8. CASE ProcessNext
  <2>1. /\ cur' \in Event /\ "ACTIVE" \in base.flags[cur']
        /\ \E x \in SUBSET Queue : base'.flags = [base.flags EXCEPT ![cur'] = x]
    BY <1>8, TakesEvent
  <2>2. base.flags \in [Event -> SUBSET Queue]
    BY <1>1 DEF TypeOK, Base
  <2> QED BY <2>1, <2>2 DEF Hears, Deaf
<1>9. CASE Call \/ CallsDone \/ CallbackReturns
  BY <1>1, <1>3, <1>9 DEF Call, CallsDone, CallbackReturns, TypeOK, Base
<1>10. ASSUME NEW flags \in SUBSET Mode,
              \/ LoopEnter(flags) \/ LoopStop \/ LoopNoEvents \/ LoopPoll
              \/ ExpireDone \/ ProcessDone \/ Tick \/ UNCHANGED vars
       PROVE  Hears(base, base')
  BY <1>3, <1>10, StillStep
<1> QED BY <1>5, <1>6, <1>7, <1>8, <1>9, <1>10 DEF Next, Loop

\* event_add arms the timeout of an event only once the backend listens to it,
\* and no other call separates the two.
THEOREM ArmedAreHeard == Spec => ArmedIsHeard
<1>1. IInv /\ [Next]_vars =>
        [\A e \in Event : Interest[e] # {} /\ Deaf(base', e) =>
           Deaf(base, e) \/ "ACTIVE" \in base.flags[e]]_vars
  BY StepHears DEF Hears
<1> QED BY <1>1, Invariant, PTL DEF Spec, ArmedIsHeard

-----------------------------------------------------------------------------
(* The timeouts.                                                           *)

TimeInv == tv_cache <= clock /\ ExpiryIsCurrent

\* The fields that ExpiryIsCurrent speaks of, of one event.
Current(b, e, now) ==
  "ACTIVE" \in b.flags[e] /\ "TIMEOUT" \in b.res[e]
    => "TIMEOUT" \notin b.flags[e] /\ b.deadline[e] <= now

LEMMA TimersPreserved == IInv /\ TimeInv /\ [Next]_vars => TimeInv'
<1> SUFFICES ASSUME IInv, TimeInv, [Next]_vars PROVE TimeInv'
  OBVIOUS
<1> USE DEF loopVars
<1>1. Good(base) /\ TypeOK /\ GetTime \in Nat /\ GetTime <= clock /\ clock \in Nat
  BY GoodBase DEF IInv, TypeOK, GetTime, TimeInv
<1>2. /\ User \subseteq Event /\ Timeouts \subseteq Nat /\ Manual \subseteq User
      /\ Once \subseteq Event /\ SigPipe \notin User /\ Once \cap User = {}
      /\ Timeouts \subseteq Nat \cup {NoTimeout} /\ NoTimeout \in Nat \cup {NoTimeout}
  BY EventAssumption, BoundAssumption DEF User
<1>3. /\ base.flags \in [Event -> SUBSET Queue] /\ base.res \in [Event -> SUBSET Result]
      /\ base.deadline \in [Event -> Nat]
  BY <1>1 DEF TypeOK, Base
<1>4. \A e \in User : Current(base, e, clock)
  BY DEF TimeInv, ExpiryIsCurrent, Current
<1>5. clock' \in Nat /\ clock' >= clock /\ tv_cache' <= clock'
  <2>1. clock' = clock \/ clock' = clock + 1
    BY DEF Next, App, EventAdd, EventAddFails, EventDel, EventPrioritySet,
           EventActive, LoopExit, LoopBreak, Loop, LoopEnter, LoopStop, LoopNoEvents,
           LoopPoll, Dispatch, Wake, WaitTimesOut, Report, ReportsDone, LoopPollFails,
           Expire, ExpireDone, ProcessNext, Call, CallsDone, CallbackReturns,
           ProcessDone, Tick, vars
  <2>2. tv_cache' \in {tv_cache, 0, clock}
    BY DEF Next, App, EventAdd, EventAddFails, EventDel, EventPrioritySet,
           EventActive, LoopExit, LoopBreak, Loop, LoopEnter, LoopStop, LoopNoEvents,
           LoopPoll, Dispatch, Wake, WaitTimesOut, Report, ReportsDone, LoopPollFails,
           Expire, ExpireDone, ProcessNext, Call, CallsDone, CallbackReturns,
           ProcessDone, TurnEnds, Leave, Tick, vars
  <2> QED BY <1>1, <2>1, <2>2 DEF TimeInv, TypeOK
<1>6. SUFFICES \A e \in User : Current(base', e, clock)
  <2>1. base'.deadline \in [Event -> Nat]
    BY NextPreserves DEF IInv, TypeOK, Base
  <2>2. \A e \in User :
          base'.deadline[e] <= clock => base'.deadline[e] <= clock'
    BY <1>1, <1>2, <1>5, <2>1
  <2> QED BY <1>5, <2>2 DEF TimeInv, ExpiryIsCurrent, Current
<1>7. ASSUME NEW e \in Event, NEW tv \in Nat \cup {NoTimeout}, NEW b, Good(b),
             base' = Add(b, e, tv, GetTime),
             \A f \in User : Current(b, f, clock)
      PROVE  \A f \in User : Current(base', f, clock)
  <2> DEFINE c == Add(b, e, tv, GetTime)
  <2>1. \A f \in Event : "ACTIVE" \in c.flags[f] /\ "TIMEOUT" \in c.res[f] =>
          /\ "ACTIVE" \in b.flags[f]
          /\ "TIMEOUT" \in c.flags[f] => "TIMEOUT" \in b.flags[f]
          /\ c.deadline[f] = b.deadline[f]
    BY <1>1, <1>7, AddFields
  <2>2. c.res = b.res
    BY <1>1, <1>7, AddFields
  <2>3. base' = c
    BY <1>7
  <2> HIDE DEF c
  <2> QED BY <1>2, <1>7, <2>1, <2>2, <2>3 DEF Current
<1>8. ASSUME NEW e \in Event, EventDel(e)
      PROVE  \A f \in User : Current(base', f, clock)
  <2> DEFINE c == Del(base, e)
  <2>1. /\ c.flags = [base.flags EXCEPT ![e] = {}]
        /\ c.res = base.res /\ c.deadline = base.deadline
    BY <1>1, DelFields, DelGood DEF Rest
  <2>2. base' = c
    BY <1>8 DEF EventDel
  <2> HIDE DEF c
  <2> QED BY <1>2, <1>3, <1>4, <2>1, <2>2 DEF Current
<1>9. ASSUME NEW e \in Event, NEW res \in SUBSET Result, NEW n \in Nat, NEW b, Good(b),
             base' = Active(b, e, res, n),
             b.deadline = base.deadline,
             \A f \in User : Current(b, f, clock),
             "TIMEOUT" \in res => b.flags[e] = {} /\ base.deadline[e] <= clock
      PROVE  \A f \in User : Current(base', f, clock)
  <2> DEFINE c == Active(b, e, res, n)
  <2>1. Activates(b, c, e, res, n)
    BY <1>9, ActiveFields
  <2>2. base' = c
    BY <1>9
  <2> HIDE DEF c
  <2>3. /\ b.flags \in [Event -> SUBSET Queue] /\ b.res \in [Event -> SUBSET Result]
    BY <1>9 DEF Good, Base
  <2> SUFFICES ASSUME NEW f \in User PROVE Current(c, f, clock)
    BY <2>2
  <2>4. CASE f # e
    BY <1>2, <1>9, <2>1, <2>3, <2>4 DEF Activates, Current
  <2>5. CASE f = e /\ "ACTIVE" \in b.flags[e]
    BY <1>2, <1>9, <2>1, <2>3, <2>5 DEF Activates, Current
  <2>6. CASE f = e /\ "ACTIVE" \notin b.flags[e]
    <3>1. c.flags[e] = b.flags[e] \cup {"ACTIVE"} /\ c.res[e] = res /\ c.deadline = b.deadline
      BY <2>1, <2>3, <2>6 DEF Activates
    <3> QED BY <1>9, <2>6, <3>1 DEF Current
  <2> QED BY <2>4, <2>5, <2>6
<1>10. ASSUME NEW e \in Event, NEW res \in Result, NEW n \in Nat, res # "TIMEOUT",
              Report(e, res, n)
       PROVE  \A f \in User : Current(base', f, clock)
  <2> DEFINE c == IF e \in Signals \ Persist THEN Del(base, e) ELSE base
  <2>1. /\ Good(c) /\ c.deadline = base.deadline /\ c.res = base.res
        /\ c.flags = base.flags \/ c.flags = [base.flags EXCEPT ![e] = {}]
    BY <1>1, DelGood, DelFields DEF Rest
  <2>2. base' = Active(c, e, {res}, n)
    BY <1>10 DEF Report
  <2> HIDE DEF c
  <2>3. \A f \in User : Current(c, f, clock)
    BY <1>2, <1>3, <1>4, <2>1 DEF Current
  <2>4. {res} \in SUBSET Result /\ "TIMEOUT" \notin {res}
    BY <1>10
  <2> QED BY <1>9, <2>1, <2>2, <2>3, <2>4
<1>11. ASSUME NEW e \in Event, Expire(e)
       PROVE  \A f \in User : Current(base', f, clock)
  <2> DEFINE c == Del(base, e)
  <2>1. /\ Good(c) /\ c.deadline = base.deadline /\ c.res = base.res
        /\ c.flags = [base.flags EXCEPT ![e] = {}]
    BY <1>1, DelGood, DelFields DEF Rest
  <2>2. base' = Active(c, e, {"TIMEOUT"}, 1) /\ base.deadline[e] <= GetTime
    BY <1>11 DEF Expire, Expired
  <2> HIDE DEF c
  <2>3. \A f \in User : Current(c, f, clock)
    BY <1>2, <1>3, <1>4, <2>1 DEF Current
  <2>4. c.flags[e] = {} /\ base.deadline[e] <= clock
    BY <1>1, <1>3, <2>1, <2>2
  <2>5. {"TIMEOUT"} \in SUBSET Result /\ 1 \in Nat
    BY DEF Result
  <2> QED BY <1>9, <2>1, <2>2, <2>3, <2>4, <2>5
<1>12. ASSUME NEW e \in Manual, NEW res \in ByHand, NEW n \in 1 .. MaxCalls,
              EventActive(e, res, n)
       PROVE  \A f \in User : Current(base', f, clock)
  <2>1. /\ base' = Active(base, e, {res}, n) /\ n \in Nat
        /\ {res} \in SUBSET Result /\ "TIMEOUT" \notin {res}
    BY <1>12, BoundAssumption DEF EventActive
  <2> QED BY <1>1, <1>2, <1>4, <1>9, <2>1
<1>13. ASSUME NEW e \in Once, NEW tv \in Timeouts, LoopExit(e, tv)
       PROVE  \A f \in User : Current(base', f, clock)
  <2> DEFINE c == FreshOnce(base, e)
  <2>1. base.flags[e] = {} /\ base' = Add(c, e, tv, GetTime)
    BY <1>13 DEF LoopExit
  <2>2. /\ Good(c) /\ c.flags = base.flags /\ c.deadline = base.deadline
        /\ c.res = [base.res EXCEPT ![e] = {}]
    BY <1>1, <1>2, <2>1, FreshOnceGood, FreshOnceFields
  <2> HIDE DEF c
  <2>3. \A f \in User : Current(c, f, clock)
    BY <1>2, <1>3, <1>4, <2>2 DEF Current
  <2> QED BY <1>2, <1>7, <2>1, <2>2, <2>3
<1>14. ASSUME NEW e \in User, NEW p \in Pri, EventPrioritySet(e, p)
       PROVE  \A f \in User : Current(base', f, clock)
  <2>1. base'.flags = base.flags /\ base'.res = base.res /\ base'.deadline = base.deadline
    BY <1>1, <1>14 DEF EventPrioritySet, TypeOK, Base
  <2> QED BY <1>4, <2>1 DEF Current
<1>15. ASSUME base' = base
       PROVE  \A f \in User : Current(base', f, clock)
  BY <1>4, <1>15
<1>16. ASSUME App
       PROVE  \A f \in User : Current(base', f, clock)
  <2>1. ASSUME NEW e \in User, NEW tv \in Nat \cup {NoTimeout}, EventAdd(e, tv)
        PROVE  \A f \in User : Current(base', f, clock)
    BY <1>1, <1>2, <1>4, <1>7, <2>1, EventAddBase
  <2> QED BY <1>2, <1>8, <1>12, <1>13, <1>14, <1>15, <1>16, <2>1, EventAddBase
          DEF App, LoopBreak
<1>17. ASSUME Dispatch
       PROVE  \A f \in User : Current(base', f, clock)
  <2>1. CASE \E e \in Event \ Signals : \E res \in Interest[e] : Report(e, res, 1)
    BY <1>10, <2>1, InterestAssumption DEF Result
  <2>2. CASE \E e \in Signals : \E n \in 1 .. MaxCalls : Report(e, "SIGNAL", n)
    BY <1>10, <2>2, BoundAssumption DEF Signals, Result
  <2> QED BY <1>15, <1>17, <2>1, <2>2 DEF Dispatch, Wake, WaitTimesOut, ReportsDone, LoopPollFails
<1>18. ASSUME ProcessNext
       PROVE  \A f \in User : Current(base', f, clock)
  <2>1. /\ cur' \in Event
        /\ \E x \in SUBSET Queue : base'.flags = [base.flags EXCEPT ![cur'] = x]
        /\ "ACTIVE" \notin base'.flags[cur']
        /\ base'.res = base.res /\ base'.deadline = base.deadline
    BY <1>18, TakesEvent
  <2> QED BY <1>2, <1>3, <1>4, <2>1 DEF Current
<1>19. ASSUME Call \/ CallsDone \/ CallbackReturns
       PROVE  \A f \in User : Current(base', f, clock)
  <2>1. base'.flags = base.flags /\ base'.res = base.res /\ base'.deadline = base.deadline
    BY <1>1, <1>19 DEF Call, CallsDone, CallbackReturns, TypeOK, Base
  <2> QED BY <1>4, <2>1 DEF Current
<1>20. ASSUME NEW flags \in SUBSET Mode,
              \/ LoopEnter(flags) \/ LoopStop \/ LoopNoEvents \/ LoopPoll
              \/ ExpireDone \/ ProcessDone \/ Tick \/ UNCHANGED vars
       PROVE  \A f \in User : Current(base', f, clock)
  BY <1>15, <1>20, StillStep
<1> QED BY <1>11, <1>16, <1>17, <1>18, <1>19, <1>20 DEF Next, Loop

\* An event on the active queue because its timeout passed has a deadline that
\* is over and is not armed: no event_add leaves it active for the old one.
THEOREM ExpiriesAreCurrent == Spec => []ExpiryIsCurrent
<1>1. Init => TimeInv
  BY DEF Init, TimeInv, ExpiryIsCurrent, User
<1>2. IInv /\ TimeInv /\ [Next]_vars => TimeInv'
  BY TimersPreserved
<1>3. TimeInv => ExpiryIsCurrent
  BY DEF TimeInv
<1> QED BY <1>1, <1>2, <1>3, Invariant, PTL DEF Spec

\* A step of the loop, of the application or of the clock keeps SleepsOnlyWhenQuiet.
LEMMA SleepStep ==
  IInv /\ SleepsOnlyWhenQuiet /\ [Next]_vars => SleepsOnlyWhenQuiet'
<1> SUFFICES ASSUME IInv, SleepsOnlyWhenQuiet, [Next]_vars, pc' = "wait"
             PROVE  SleepsOnlyWhenQuiet'
  BY DEF SleepsOnlyWhenQuiet
<1> USE DEF loopVars
<1>1. \/ LoopPoll
      \/ pc = "wait" /\ base' = base /\ wakeAt' = wakeAt /\ clock' \in {clock, clock + 1}
  BY DEF Next, App, AppRuns, EventAdd, EventAddFails, EventDel, EventPrioritySet,
         EventActive, LoopExit, LoopBreak, Loop, LoopEnter, LoopStop, LoopNoEvents,
         Dispatch, Wake, WaitTimesOut, Report, ReportsDone, LoopPollFails,
         Expire, ExpireDone, ProcessNext, Call, CallsDone, CallbackReturns,
         ProcessDone, TurnEnds, Leave, Tick, vars
<1>2. TypeOK /\ CountsAgree(base) /\ clock \in Nat /\ wakeAt \in Nat \cup {Forever}
  BY DEF IInv, QueueConsistency, TypeOK
<1>3. CASE LoopPoll
  <2>1. /\ PollTimeout \in Nat \cup {Forever}
        /\ PollTimeout = Forever => Armed = {}
        /\ PollTimeout # 0 => base.countActive = 0
    BY <1>2, PollTimeoutType
  <2>2. base.countActive = 0 => ActiveEvents(base) = {}
    <3>1. ActiveEvents(base) \subseteq Event
      BY DEF ActiveEvents
    <3>2. IsFiniteSet(ActiveEvents(base))
      BY <3>1, EventAssumption, FS_Subset
    <3> QED BY <1>2, <3>2, FS_EmptySet DEF CountsAgree
  <2>3. /\ base' = base /\ clock' = clock
        /\ wakeAt' = IF PollTimeout = Forever THEN Forever ELSE clock + PollTimeout
    BY <1>3 DEF LoopPoll
  <2>4. Armed' = Armed
    BY <2>3 DEF Armed
  <2>5. wakeAt' > clock \/ wakeAt' = Forever => PollTimeout # 0
    BY <1>2, <2>1, <2>3 DEF Forever
  <2>6. wakeAt' = Forever => PollTimeout = Forever
    BY <1>2, <2>1, <2>3 DEF Forever
  <2> QED BY <2>1, <2>2, <2>3, <2>4, <2>5, <2>6 DEF SleepsOnlyWhenQuiet
<1>4. CASE pc = "wait" /\ base' = base /\ wakeAt' = wakeAt /\ clock' \in {clock, clock + 1}
  <2>1. Armed' = Armed
    BY <1>4 DEF Armed
  <2>2. wakeAt > clock' => wakeAt > clock
    BY <1>2, <1>4 DEF Forever
  <2> QED BY <1>4, <2>1, <2>2 DEF SleepsOnlyWhenQuiet
<1> QED BY <1>1, <1>3, <1>4

\* The loop does not block while an event waits for its callback, and blocks
\* without a timeout only when the timer heap is empty.
THEOREM SleepsWhenQuiet == Spec => []SleepsOnlyWhenQuiet
<1>1. Init => SleepsOnlyWhenQuiet
  BY DEF Init, SleepsOnlyWhenQuiet
<1> QED BY <1>1, SleepStep, Invariant, PTL DEF Spec

=============================================================================
