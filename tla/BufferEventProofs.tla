-------------------------- MODULE BufferEventProofs --------------------------
(***************************************************************************)
(* Proofs about BufferEvent for any marks, timeouts, priorities and buffer *)
(* sizes: reading and output go on, and a bufferevent is a duplex channel. *)
(* What event_add and event_del leave of the two events is Touches; every  *)
(* call on the bufferevent and every half of a library callback is a       *)
(* composition of them.  The steps of the loop are treated one by one.     *)
(***************************************************************************)
EXTENDS BufferEvent, EventBaseProofs

-----------------------------------------------------------------------------
(* The inductive invariant.                                                *)

BevTypes ==
  /\ bev \in [enabled : SUBSET Dir, input : Nat, output : Nat, low : Nat, high : Nat,
              lowOut : Nat, pressure : BOOLEAN, secs : [Dir -> Nat], freed : BOOLEAN]
  /\ at \in {"lib", "user", "loop"}
  /\ at # "loop" => pc = "callback"
  /\ half \subseteq Dir /\ lost \subseteq Dir

\* Only the two events are ever queued, each is called once per report, and one
\* that is active for its timeout is active for nothing else and not inserted.
OneReason(b) ==
  /\ \A e \in Event \ User : b.flags[e] = {}
  /\ \A e \in User : "ACTIVE" \in b.flags[e] =>
       /\ b.ncalls[e] = 1
       /\ "TIMEOUT" \in b.res[e] => b.res[e] = {"TIMEOUT"} /\ "INSERTED" \notin b.flags[e]

\* The event being called is one of the two, it is not active again before its
\* one call is made, and that call is used up when its callback runs.
OneCall ==
  /\ pc \in {"calls", "callback"} => cur \in User
  /\ pc = "calls" => base.frame \in {0, 1} /\ ("ACTIVE" \notin base.flags[cur] \/ base.frame = 0)
  /\ pc = "callback" => base.frame = 0

\* The call of d is owed, or the library's half of it runs.
Called(d) == cur = EventOf[d] /\ ((pc = "calls" /\ base.frame # 0) \/ at = "lib")

Waits == bev.pressure /\ ~BelowMark(bev)

\* The events of a direction are only used while the direction is granted, and
\* never after bufferevent_free; and an enabled direction with work to do is on
\* its way, or waits for the input to be drained.
DirOK(d) ==
  /\ base.flags[EventOf[d]] # {} \/ Called(d) => d \in bev.enabled \cup half /\ ~bev.freed
  /\ d \in bev.enabled /\ ~bev.freed /\ d \notin lost /\ (d = "WRITE" => bev.output # 0) =>
       Heard(base, d) \/ Called(d) \/ (d = "READ" /\ Waits)

BufInv ==
  IInv /\ BevTypes /\ OneReason(base) /\ OneCall /\ \A d \in Dir : DirOK(d)

-----------------------------------------------------------------------------
(* The two events.                                                         *)

LEMMA TheEvents ==
  /\ EvRead \in Event /\ EvWrite \in Event /\ User \subseteq Event
  /\ User = {EvRead, EvWrite} /\ EvRead # EvWrite
  /\ SigPipe \in Event \ User /\ Signals = {}
  /\ EventOf["READ"] = EvRead /\ EventOf["WRITE"] = EvWrite
  /\ \A d \in Dir : EventOf[d] \in User /\ Interest[EventOf[d]] = {d}
  /\ Dir = {"READ", "WRITE"}
<1>1. User = {EvRead, EvWrite} /\ EvRead # EvWrite /\ SigPipe \in Event
      /\ User \subseteq Event /\ SigPipe \notin User /\ User = Event \ (Once \cup {SigPipe})
  BY BufferEventAssumption, EventAssumption DEF User
<1>2. /\ EventOf["READ"] = EvRead /\ EventOf["WRITE"] = EvWrite /\ Dir = {"READ", "WRITE"}
      /\ Interest[EvRead] = {"READ"} /\ Interest[EvWrite] = {"WRITE"}
  BY BufferEventAssumption DEF EventOf, Dir
<1>3. \A e \in Event : "SIGNAL" \notin Interest[e]
  BY <1>1, <1>2, InterestAssumption
<1> QED BY <1>1, <1>2, <1>3 DEF Signals

\* An event that is active for its timeout was so before, for the same deadline.
Expiries(b, c) ==
  \A e \in User : "ACTIVE" \in c.flags[e] /\ "TIMEOUT" \in c.res[e] =>
    /\ "ACTIVE" \in b.flags[e] /\ "TIMEOUT" \in b.res[e]
    /\ c.deadline[e] = b.deadline[e]
    /\ "TIMEOUT" \in c.flags[e] => "TIMEOUT" \in b.flags[e]

\* What event_add and event_del of the events of the directions D may change:
\* nothing becomes active, and nothing active becomes inserted.
Touches(b, c, D) ==
  /\ Good(c)
  /\ c.frame \in {b.frame, 0}
  /\ \A e \in Event : (\A d \in D : e # EventOf[d]) => c.flags[e] = b.flags[e]
  /\ \A e \in User : "ACTIVE" \in c.flags[e] =>
       /\ "ACTIVE" \in b.flags[e]
       /\ c.res[e] = b.res[e] /\ c.ncalls[e] = b.ncalls[e]
       /\ "INSERTED" \in c.flags[e] => "INSERTED" \in b.flags[e]
  /\ Expiries(b, c)

LEMMA TouchesNothing ==
  ASSUME NEW b, Good(b), NEW D
  PROVE  Touches(b, b, D)
BY DEF Touches, Expiries

LEMMA TouchesTwice ==
  ASSUME NEW a, NEW b, NEW c, NEW D, NEW D1 \in SUBSET D, NEW D2 \in SUBSET D,
         Touches(a, b, D1), Touches(b, c, D2)
  PROVE  Touches(a, c, D)
BY DEF Touches, Expiries

LEMMA TouchesReason ==
  ASSUME NEW b, NEW c, NEW D \in SUBSET Dir, Touches(b, c, D), OneReason(b)
  PROVE  OneReason(c)
BY TheEvents DEF Touches, OneReason

LEMMA DelTouches ==
  ASSUME NEW b, Good(b), NEW d \in Dir
  PROVE  Touches(b, Del(b, EventOf[d]), {d}) /\ Del(b, EventOf[d]).flags[EventOf[d]] = {}
<1> DEFINE e == EventOf[d]
           c == Del(b, e)
<1>1. e \in Event /\ User \subseteq Event
  BY TheEvents
<1>2. /\ Good(c) /\ c.flags = [b.flags EXCEPT ![e] = {}] /\ Rest(b, c)
      /\ c.frame = Cancelled(b, e)
  BY <1>1, DelGood, DelFields
<1>3. b.flags \in [Event -> SUBSET Queue]
  BY DEF Good, Base
<1> HIDE DEF c
<1>4. c.flags[e] = {} /\ \A f \in Event : f # e => c.flags[f] = b.flags[f]
  BY <1>1, <1>2, <1>3
<1>5. Touches(b, c, {d}) /\ c.flags[e] = {}
  BY <1>1, <1>2, <1>4 DEF Touches, Rest, Cancelled, Expiries
<1> QED BY <1>5 DEF c

\* event_add of an event that is inserted, or active for a report, does not
\* take it off both queues.
LEMMA AddTouches ==
  ASSUME NEW b, Good(b), NEW d \in Dir, NEW tv \in Nat \cup {NoTimeout}, NEW now \in Nat
  PROVE  /\ Touches(b, Add(b, EventOf[d], tv, now), {d})
         /\ \/ "INSERTED" \in b.flags[EventOf[d]]
            \/ "ACTIVE" \in b.flags[EventOf[d]] /\ "TIMEOUT" \notin b.res[EventOf[d]]
            => Heard(Add(b, EventOf[d], tv, now), d)
<1> DEFINE e == EventOf[d]
           added == IF NeedsBackend(b, e) THEN QueueInsert(b, e, "INSERTED") ELSE b
           c == Add(b, e, tv, now)
<1>1. e \in Event /\ User \subseteq Event /\ e \notin Signals
  BY TheEvents
<1>2. b \in Base /\ b.flags \in [Event -> SUBSET Queue]
  BY DEF Good, Base
<1>3. c = IF tv = NoTimeout THEN added ELSE Arm(added, e, now + tv)
  BY <1>1 DEF Add, Register
<1>4. /\ Good(added) /\ Rest(b, added) /\ added.frame = b.frame
      /\ \A f \in Event : f # e => added.flags[f] = b.flags[f]
      /\ "ACTIVE" \in added.flags[e] <=> "ACTIVE" \in b.flags[e]
      /\ "INSERTED" \in b.flags[e] => "INSERTED" \in added.flags[e]
      /\ "ACTIVE" \in b.flags[e] /\ "INSERTED" \in added.flags[e] => "INSERTED" \in b.flags[e]
  <2>1. CASE NeedsBackend(b, e)
    <3>1. "INSERTED" \notin b.flags[e] /\ "ACTIVE" \notin b.flags[e] /\ "INSERTED" \in Queue
      BY <2>1 DEF NeedsBackend, Queue
    <3>2. /\ Good(added) /\ added.flags = [b.flags EXCEPT ![e] = @ \cup {"INSERTED"}]
          /\ Rest(b, added) /\ added.frame = b.frame
      BY <1>1, <1>2, <2>1, <3>1, QueueInsertGood, QueueFields
    <3> HIDE DEF added
    <3> QED BY <1>1, <1>2, <3>1, <3>2
  <2>2. CASE ~NeedsBackend(b, e)
    BY <2>2 DEF Rest
  <2> QED BY <2>1, <2>2
<1>7. Expiries(b, c)
  BY <1>1, AddFields DEF Expiries
<1> HIDE DEF added
<1>5. CASE tv = NoTimeout
  <2>1. c = added
    BY <1>3, <1>5
  <2> HIDE DEF c
  <2>2. Touches(b, c, {d})
    BY <1>1, <1>4, <1>7, <2>1 DEF Touches, Rest
  <2>3. "INSERTED" \in b.flags[e] \/ ("ACTIVE" \in b.flags[e] /\ "TIMEOUT" \notin b.res[e])
          => Heard(c, d)
    BY <1>4, <2>1 DEF Heard
  <2> QED BY <2>2, <2>3 DEF c
<1>6. CASE tv # NoTimeout
  <2> DEFINE t == now + tv
             a == Arm(added, e, t)
  <2>1. t \in Nat
    BY <1>6
  <2>4. c = a
    BY <1>3, <1>6
  <2> HIDE DEF t, e, c
  <2>2. Good(a)
    BY <1>4, <1>1, <2>1, ArmGood
  <2>3. /\ a.ncalls = added.ncalls /\ a.res = added.res /\ a.frame \in {added.frame, 0}
        /\ \A f \in Event : f # e => a.flags[f] = added.flags[f]
        /\ a.flags[e] = (IF "ACTIVE" \in added.flags[e] /\ "TIMEOUT" \in added.res[e]
                         THEN added.flags[e] \ {"ACTIVE"} ELSE added.flags[e])
                          \cup {"TIMEOUT"}
    <3>1. ArmedAt(added, a, e, t)
      BY <1>4, <1>1, <2>1, ArmFields
    <3> QED BY <3>1 DEF ArmedAt
  <2> HIDE DEF a
  <2>5. Touches(b, a, {d})
    <3>1. a.frame \in {b.frame, 0} /\ a.res = b.res /\ a.ncalls = b.ncalls
      BY <1>4, <2>3 DEF Rest
    <3>2. \A f \in Event : f # e => a.flags[f] = b.flags[f]
      BY <1>4, <2>3
    <3>3. "ACTIVE" \in a.flags[e] =>
            /\ "ACTIVE" \in b.flags[e]
            /\ "INSERTED" \in a.flags[e] => "INSERTED" \in b.flags[e]
      BY <1>4, <2>3
    <3>4. Expiries(b, a)
      BY <1>7, <2>4
    <3> QED BY <1>1, <2>2, <3>1, <3>2, <3>3, <3>4 DEF Touches, e
  <2>6. "INSERTED" \in b.flags[e] \/ ("ACTIVE" \in b.flags[e] /\ "TIMEOUT" \notin b.res[e])
          => a.flags[e] \cap {"INSERTED", "ACTIVE"} # {}
    <3>1. added.res[e] = b.res[e]
      BY <1>4 DEF Rest
    <3> QED BY <1>4, <2>3, <3>1
  <2> QED BY <2>4, <2>5, <2>6 DEF Heard, c, e
<1> QED BY <1>5, <1>6

LEMMA ArmsTouch ==
  ASSUME IInv, NEW b, Good(b), NEW d \in Dir, NEW s \in Nat, NEW c \in Arms(b, d, s)
  PROVE  Touches(b, c, {d})
<1>1. GetTime \in Nat
  BY DEF IInv, TypeOK, GetTime
<1>2. (IF s = 0 THEN NoTimeout ELSE s) \in Nat \cup {NoTimeout}
  OBVIOUS
<1>3. Touches(b, Armed1(b, d, s), {d})
  BY <1>1, <1>2, AddTouches DEF Armed1, Arming, TryAdd
<1>4. c \in {b, Armed1(b, d, s)}
  BY DEF Arms, Armed1, Arming, TryAdd
<1> QED BY <1>3, <1>4, TouchesNothing

\* Resuming reading arms the read event or leaves the base alone.
LEMMA PressureTouches ==
  ASSUME IInv, NEW b, Good(b), NEW v, v.secs \in [Dir -> Nat]
  PROVE  /\ \A c \in PressureArms(v, b) : Touches(b, c, {"READ"})
         /\ \A c \in MovedArms(v, b) : Touches(b, c, {"READ"})
<1>1. "READ" \in Dir /\ v.secs["READ"] \in Nat
  BY TheEvents
<1>2. \A c \in PressureArms(v, b) : Touches(b, c, {"READ"})
  BY <1>1, ArmsTouch, TouchesNothing DEF PressureArms
<1> QED BY <1>2, TouchesNothing DEF MovedArms

\* bufferevent_enable and bufferevent_settimeout arm the events of D in turn.
ArmBoth(b, D, s) ==
  LET r == IF "READ" \in D THEN Armed1(b, "READ", s["READ"]) ELSE b
  IN  IF "WRITE" \in D THEN Armed1(r, "WRITE", s["WRITE"]) ELSE r

LEMMA ArmedOne ==
  ASSUME IInv, NEW b, Good(b), OneReason(b), NEW d \in Dir, NEW s \in Nat
  PROVE  /\ Touches(b, Armed1(b, d, s), {d})
         /\ IsPending(b, d) => Heard(Armed1(b, d, s), d)
<1>1. GetTime \in Nat
  BY DEF IInv, TypeOK, GetTime
<1>2. (IF s = 0 THEN NoTimeout ELSE s) \in Nat \cup {NoTimeout}
  OBVIOUS
<1>3. EventOf[d] \in User /\ d # "TIMEOUT"
  BY TheEvents
<1>4. IsPending(b, d) => \/ "INSERTED" \in b.flags[EventOf[d]]
                         \/ /\ "ACTIVE" \in b.flags[EventOf[d]]
                            /\ "TIMEOUT" \notin b.res[EventOf[d]]
  BY <1>3 DEF IsPending, OneReason
<1> QED BY <1>1, <1>2, <1>4, AddTouches DEF Armed1, Arming, TryAdd

LEMMA ArmsBoth ==
  ASSUME IInv, NEW b, Good(b), OneReason(b), NEW D \in SUBSET Dir, NEW s \in [Dir -> Nat]
  PROVE  /\ Touches(b, ArmBoth(b, D, s), D)
         /\ \A d \in D : IsPending(b, d) => Heard(ArmBoth(b, D, s), d)
<1> DEFINE r == IF "READ" \in D THEN Armed1(b, "READ", s["READ"]) ELSE b
           c == IF "WRITE" \in D THEN Armed1(r, "WRITE", s["WRITE"]) ELSE r
           D1 == D \cap {"READ"}
           D2 == D \cap {"WRITE"}
<1>1. "READ" \in Dir /\ "WRITE" \in Dir /\ s["READ"] \in Nat /\ s["WRITE"] \in Nat
  BY TheEvents
<1>2. Touches(b, r, D1) /\ ("READ" \in D /\ IsPending(b, "READ") => Heard(r, "READ"))
  <2>1. CASE "READ" \in D
    <3>1. D1 = {"READ"}
      BY <2>1
    <3> QED BY <1>1, <2>1, <3>1, ArmedOne
  <2>2. CASE "READ" \notin D
    BY <2>2, TouchesNothing
  <2> QED BY <2>1, <2>2
<1>3. Good(r) /\ OneReason(r)
  <2>1. D1 \in SUBSET Dir
    BY TheEvents
  <2> QED BY <1>2, <2>1, TouchesReason DEF Touches
<1> HIDE DEF r
<1>4. Touches(r, c, D2) /\ ("WRITE" \in D /\ IsPending(r, "WRITE") => Heard(c, "WRITE"))
  <2>1. CASE "WRITE" \in D
    <3>1. D2 = {"WRITE"}
      BY <2>1
    <3> QED BY <1>1, <1>3, <2>1, <3>1, ArmedOne
  <2>2. CASE "WRITE" \notin D
    BY <1>3, <2>2, TouchesNothing
  <2> QED BY <2>1, <2>2
<1>5. ArmBoth(b, D, s) = c
  BY DEF ArmBoth, r, c
<1> HIDE DEF c
<1>6. Touches(b, c, D)
  BY <1>2, <1>4, TouchesTwice
<1>7. "READ" \in D /\ IsPending(b, "READ") => Heard(c, "READ")
  <2>1. EvRead \in Event /\ \A d \in D2 : EvRead # EventOf[d]
    BY TheEvents
  <2> QED BY <1>2, <1>4, <2>1, TheEvents DEF Touches, Heard
<1>8. "WRITE" \in D /\ IsPending(b, "WRITE") => Heard(c, "WRITE")
  <2>1. EvWrite \in Event /\ EvWrite \in User /\ \A d \in D1 : EvWrite # EventOf[d]
    BY TheEvents
  <2>2. r.flags[EvWrite] = b.flags[EvWrite]
        /\ ("ACTIVE" \in r.flags[EvWrite] => r.res[EvWrite] = b.res[EvWrite])
    BY <1>2, <2>1 DEF Touches
  <2> QED BY <1>4, <2>2, TheEvents DEF IsPending
<1>9. \A d \in D : d \in {"READ", "WRITE"}
  BY TheEvents
<1> HIDE DEF D1, D2
<1> QED BY <1>5, <1>6, <1>7, <1>8, <1>9

LEMMA DelsTouch ==
  ASSUME NEW b, Good(b), NEW D \in SUBSET Dir
  PROVE  /\ Touches(b, OnEvents(DelDir, b, D), D)
         /\ \A d \in D : OnEvents(DelDir, b, D).flags[EventOf[d]] = {}
<1> DEFINE r == IF "READ" \in D THEN Del(b, EventOf["READ"]) ELSE b
           c == IF "WRITE" \in D THEN Del(r, EventOf["WRITE"]) ELSE r
           D1 == D \cap {"READ"}
           D2 == D \cap {"WRITE"}
<1>1. "READ" \in Dir /\ "WRITE" \in Dir
  BY TheEvents
<1>2. Touches(b, r, D1) /\ ("READ" \in D => r.flags[EventOf["READ"]] = {})
  <2>1. CASE "READ" \in D
    <3>1. D1 = {"READ"}
      BY <2>1
    <3> QED BY <1>1, <2>1, <3>1, DelTouches
  <2>2. CASE "READ" \notin D
    BY <2>2, TouchesNothing
  <2> QED BY <2>1, <2>2
<1>3. Good(r)
  BY <1>2 DEF Touches
<1> HIDE DEF r
<1>4. Touches(r, c, D2) /\ ("WRITE" \in D => c.flags[EventOf["WRITE"]] = {})
  <2>1. CASE "WRITE" \in D
    <3>1. D2 = {"WRITE"}
      BY <2>1
    <3> QED BY <1>1, <1>3, <2>1, <3>1, DelTouches
  <2>2. CASE "WRITE" \notin D
    BY <1>3, <2>2, TouchesNothing
  <2> QED BY <2>1, <2>2
<1>5. OnEvents(DelDir, b, D) = c
  BY DEF OnEvents, DelDir, r, c
<1> HIDE DEF c
<1>6. Touches(b, c, D)
  BY <1>2, <1>4, TouchesTwice
<1>7. "READ" \in D => c.flags[EventOf["READ"]] = {}
  <2>1. EvRead \in Event /\ \A d \in D2 : EvRead # EventOf[d]
    BY TheEvents
  <2> QED BY <1>2, <1>4, <2>1, TheEvents DEF Touches
<1>8. \A d \in D : d \in {"READ", "WRITE"}
  BY TheEvents
<1> HIDE DEF D1, D2
<1> QED BY <1>4, <1>5, <1>6, <1>7, <1>8

\* event_set on an event that is on no queue.
LEMMA ResetOne ==
  ASSUME NEW b, Good(b), NEW d \in Dir, b.flags[EventOf[d]] = {}
  PROVE  /\ Good(Reset(b, d)) /\ Reset(b, d).flags = b.flags
         /\ Reset(b, d).frame = b.frame
<1> DEFINE e == EventOf[d]
           c == Reset(b, d)
<1>1. e \in Event
  BY TheEvents
<1>2. NPri \div 2 \in Pri
  BY BoundAssumption DEF Pri
<1>3. /\ c \in Base /\ c.flags = b.flags /\ c.count = b.count /\ c.frame = b.frame
      /\ c.countActive = b.countActive /\ c.active = b.active
      /\ \A f \in Event : f # e => c.pri[f] = b.pri[f]
  BY <1>1, <1>2 DEF Reset, Good, Base, Result
<1> HIDE DEF c
<1>4. Good(c)
  BY <1>1, <1>3, PriorityGood
<1> QED BY <1>3, <1>4 DEF c

LEMMA ResetBoth ==
  ASSUME NEW b, Good(b), \A d \in Dir : b.flags[EventOf[d]] = {}
  PROVE  /\ Good(OnEvents(Reset, b, Dir)) /\ OnEvents(Reset, b, Dir).flags = b.flags
         /\ OnEvents(Reset, b, Dir).frame = b.frame
<1> DEFINE r == Reset(b, "READ")
           c == Reset(r, "WRITE")
<1>1. "READ" \in Dir /\ "WRITE" \in Dir
  BY TheEvents
<1>2. Good(r) /\ r.flags = b.flags /\ r.frame = b.frame
  BY <1>1, ResetOne
<1> HIDE DEF r
<1>3. Good(c) /\ c.flags = r.flags /\ c.frame = r.frame
  BY <1>1, <1>2, ResetOne
<1>4. OnEvents(Reset, b, Dir) = c
  BY <1>1 DEF OnEvents, r, c
<1> QED BY <1>2, <1>3, <1>4

-----------------------------------------------------------------------------
(* The library's callbacks and the calls of the application.               *)

\* Neither moves the loop: what is left of the base is enough.
LEMMA CallStep ==
  ASSUME IInv, OneCall, UNCHANGED loopOnly, pc # "calls",
         Good(base'), OneReason(base'), base'.frame \in {base.frame, 0}
  PROVE  IInv' /\ OneReason(base)' /\ OneCall'
<1>1. IInv'
  <2>1. /\ pc' = pc /\ mode' = mode /\ cur' = cur /\ activeq' = activeq
        /\ gotterm' = gotterm /\ break' = break /\ clock' = clock
        /\ tv_cache' = tv_cache /\ wakeAt' = wakeAt /\ revoked' = revoked /\ cut' = cut
    BY DEF loopOnly
  <2> QED BY <2>1, FromParts DEF IInv, TypeOK
<1>2. OneReason(base)'
  BY DEF OneReason
<1>3. OneCall'
  BY DEF OneCall, loopOnly
<1> QED BY <1>1, <1>2, <1>3

LEMMA TouchStep ==
  ASSUME IInv, OneCall, OneReason(base), UNCHANGED loopOnly, pc # "calls",
         NEW D \in SUBSET Dir, Touches(base, base', D)
  PROVE  IInv' /\ OneReason(base)' /\ OneCall'
BY CallStep, TouchesReason DEF Touches

\* Nothing that concerns the direction d changes.
LEMMA Aside ==
  ASSUME NEW d \in Dir, DirOK(d), Called(d)' <=> Called(d),
         base'.flags[EventOf[d]] = base.flags[EventOf[d]],
         bev'.freed = bev.freed,
         d \in bev.enabled \cup half => d \in bev'.enabled \cup half',
         d \in bev'.enabled => d \in bev.enabled,
         d \in lost => d \in lost',
         d = "WRITE" /\ bev'.output # 0 => bev.output # 0,
         d = "READ" /\ d \in bev.enabled /\ Waits => Waits'
  PROVE  DirOK(d)'
BY DEF DirOK, Heard

\* The direction d after a step that leaves no call of it to be made.
LEMMA Settled ==
  ASSUME NEW d \in Dir, ~Called(d)',
         base'.flags[EventOf[d]] # {} => d \in bev'.enabled \cup half' /\ ~bev'.freed,
         \/ d \notin bev'.enabled \/ bev'.freed \/ d \in lost'
         \/ d = "WRITE" /\ bev'.output = 0
         \/ Heard(base', d)
         \/ d = "READ" /\ Waits'
  PROVE  DirOK(d)'
BY DEF DirOK, Heard

\* A library callback runs for one direction, which is granted.
LEMMA LibraryRuns ==
  ASSUME BufInv, NEW d \in Dir, LibRuns(d), UNCHANGED loopOnly, at' # "lib"
  PROVE  /\ d \in bev.enabled \cup half /\ ~bev.freed /\ pc # "calls"
         /\ \A x \in Dir : ~Called(x)'
         /\ \A x \in Dir : x # d => ~Called(x) /\ EventOf[x] # EventOf[d]
<1>1. Called(d) /\ pc # "calls"
  BY DEF LibRuns, Called
<1>2. \A x \in Dir : ~Called(x)'
  BY DEF LibRuns, Called, loopOnly
<1>3. \A x \in Dir : x # d => EventOf[x] # EventOf[d]
  BY TheEvents
<1>4. \A x \in Dir : x # d => ~Called(x)
  BY <1>3 DEF LibRuns, Called
<1> QED BY <1>1, <1>2, <1>3, <1>4 DEF BufInv, DirOK

\* The application calls when no callback of the library is owed or runs.
LEMMA ApplicationRuns ==
  ASSUME BufInv, MayCall, UNCHANGED loopOnly, at' = at
  PROVE  /\ pc # "calls" /\ ~bev.freed
         /\ \A d \in Dir : ~Called(d) /\ ~Called(d)'
BY DEF BufInv, BevTypes, MayCall, Called, loopOnly

LEMMA Parts ==
  ASSUME IInv' /\ OneReason(base)' /\ OneCall', BevTypes', \A d \in Dir : DirOK(d)'
  PROVE  BufInv'
BY DEF BufInv

LEMMA LostTypes ==
  ASSUME NEW b, NEW D \in SUBSET Dir, lost \subseteq Dir
  PROVE  LostAfter(b, D) \subseteq Dir
BY DEF LostAfter

LEMMA ReportErrorStep ==
  ASSUME BufInv, NEW d \in Dir, LibRuns(d), ReportError(d)
  PROVE  BufInv' /\ Expiries(base, base')
<1> USE DEF ReportError
<1>1. /\ d \in bev.enabled \cup half /\ ~bev.freed /\ pc # "calls"
      /\ \A x \in Dir : ~Called(x)'
      /\ \A x \in Dir : x # d => ~Called(x) /\ EventOf[x] # EventOf[d]
  BY LibraryRuns
<1>2. Touches(base, base', {d})
  BY TouchesNothing, GoodBase DEF BufInv, IInv, TypeOK
<1>3. IInv' /\ OneReason(base)' /\ OneCall'
  BY <1>1, <1>2, TouchStep DEF BufInv
<1>4. BevTypes'
  BY DEF BufInv, BevTypes, LibRuns, loopOnly
<1>5. DirOK(d)'
  BY <1>1, Settled
<1>6. ASSUME NEW x \in Dir, x # d PROVE DirOK(x)'
  BY <1>1, <1>6, Aside DEF BufInv, Waits
<1> QED BY <1>2, <1>3, <1>4, <1>5, <1>6, Parts DEF Touches

\* The library arms the event it was called for, whatever else it notes in bev.
LEMMA ArmStep ==
  ASSUME BufInv, NEW d \in Dir, LibRuns(d), UNCHANGED <<loopOnly, half>>, at' # "lib",
         BevTypes', Touches(base, base', {d}), lost' = LostAfter(base', {d}),
         bev'.freed = bev.freed, bev'.enabled = bev.enabled,
         d = "READ" => bev'.output = bev.output,
         d = "WRITE" => bev'.input = bev.input /\ bev'.high = bev.high
                        /\ bev'.pressure = bev.pressure
  PROVE  BufInv' /\ Expiries(base, base')
<1>1. /\ d \in bev.enabled \cup half /\ ~bev.freed /\ pc # "calls"
      /\ \A x \in Dir : ~Called(x)'
      /\ \A x \in Dir : x # d => ~Called(x) /\ EventOf[x] # EventOf[d]
  BY LibraryRuns
<1>2. IInv' /\ OneReason(base)' /\ OneCall'
  BY <1>1, TouchStep DEF BufInv
<1>3. DirOK(d)'
  BY <1>1, Settled DEF LostAfter
<1>4. ASSUME NEW x \in Dir, x # d PROVE DirOK(x)'
  <2>1. base'.flags[EventOf[x]] = base.flags[EventOf[x]]
    BY <1>1, <1>4, TheEvents DEF Touches
  <2>2. x \in lost => x \in lost'
    BY <1>4 DEF LostAfter
  <2>3. x = "WRITE" => bev'.output = bev.output
    BY <1>4, TheEvents
  <2>4. x = "READ" /\ Waits => Waits'
    BY <1>4, TheEvents DEF Waits, BelowMark
  <2> QED BY <1>1, <1>4, <2>1, <2>2, <2>3, <2>4, Aside DEF BufInv
<1> QED BY <1>2, <1>3, <1>4, Parts DEF Touches

\* At the high watermark the library takes the read event away: reading waits.
LEMMA WaitStep ==
  ASSUME BufInv, LibRuns("READ"), UNCHANGED <<loopOnly, half>>, at' # "lib",
         BevTypes', Touches(base, base', {"READ"}), base'.flags[EvRead] = {},
         "WRITE" \in lost => "WRITE" \in lost',
         bev'.freed = bev.freed, bev'.enabled = bev.enabled,
         bev'.output = bev.output, Waits'
  PROVE  BufInv' /\ Expiries(base, base')
<1>1. "READ" \in Dir /\ EventOf["READ"] = EvRead /\ \A x \in Dir : x \in {"READ", "WRITE"}
  BY TheEvents
<1>2. /\ "READ" \in bev.enabled \cup half /\ ~bev.freed /\ pc # "calls"
      /\ \A x \in Dir : ~Called(x)'
      /\ \A x \in Dir : x # "READ" => ~Called(x) /\ EventOf[x] # EvRead
  BY <1>1, LibraryRuns
<1>3. IInv' /\ OneReason(base)' /\ OneCall'
  BY <1>1, <1>2, TouchStep DEF BufInv
<1>4. DirOK("READ")'
  BY <1>1, <1>2, Settled
<1>5. ASSUME NEW x \in Dir, x # "READ" PROVE DirOK(x)'
  <2>1. base'.flags[EventOf[x]] = base.flags[EventOf[x]]
    BY <1>1, <1>2, <1>5, TheEvents DEF Touches
  <2> QED BY <1>1, <1>2, <1>5, <2>1, Aside DEF BufInv
<1> QED BY <1>3, <1>4, <1>5, Parts DEF Touches

LEMMA LibraryPreserves == BufInv /\ Library => BufInv' /\ Expiries(base, base')
<1> SUFFICES ASSUME BufInv, Library PROVE BufInv' /\ Expiries(base, base')
  OBVIOUS
<1>1. /\ "READ" \in Dir /\ "WRITE" \in Dir /\ Good(base)
      /\ EventOf["READ"] = EvRead /\ EventOf["WRITE"] = EvWrite
  BY TheEvents, GoodBase DEF BufInv, IInv, TypeOK
<1>2. /\ bev \in [enabled : SUBSET Dir, input : Nat, output : Nat, low : Nat, high : Nat,
                  lowOut : Nat, pressure : BOOLEAN, secs : [Dir -> Nat], freed : BOOLEAN]
      /\ half \subseteq Dir /\ lost \subseteq Dir
      /\ bev.secs["READ"] \in Nat /\ bev.secs["WRITE"] \in Nat
  BY <1>1 DEF BufInv, BevTypes
<1>3. ASSUME NEW d \in Dir, Timeout(d) PROVE BufInv' /\ Expiries(base, base')
  BY <1>3, ReportErrorStep DEF Timeout, TimedOut
<1>4. CASE ReadFails
  BY <1>1, <1>4, ReportErrorStep DEF ReadFails, Reported
<1>5. CASE WriteFails
  BY <1>1, <1>5, ReportErrorStep DEF WriteFails, Reported
<1>6. CASE ReadBlocks
  <2>1. Touches(base, base', {"READ"})
    BY <1>1, <1>2, <1>6, ArmsTouch DEF ReadBlocks, BufInv
  <2>2. BevTypes'
    <3>1. lost' \subseteq Dir
      BY <1>1, <1>2, <1>6, LostTypes DEF ReadBlocks
    <3> QED BY <1>2, <1>6, <3>1 DEF ReadBlocks, BevTypes, BufInv
  <2> QED BY <1>1, <1>6, <2>1, <2>2, ArmStep DEF ReadBlocks, Reported
<1>7. CASE WriteBlocks
  <2>1. Touches(base, base', {"WRITE"})
    BY <1>1, <1>2, <1>7, ArmsTouch DEF WriteBlocks, BufInv
  <2>2. BevTypes'
    <3>1. lost' \subseteq Dir
      BY <1>1, <1>2, <1>7, LostTypes DEF WriteBlocks
    <3> QED BY <1>2, <1>7, <3>1 DEF WriteBlocks, BevTypes, BufInv
  <2> QED BY <1>1, <1>7, <2>1, <2>2, ArmStep DEF WriteBlocks, Reported
<1>8. CASE ReadSuspends
  <2>1. Touches(base, base', {"READ"}) /\ base'.flags[EvRead] = {}
    BY <1>1, <1>8, DelTouches DEF ReadSuspends
  <2>2. BevTypes' /\ bev'.output = bev.output /\ bev'.enabled = bev.enabled
        /\ bev'.freed = bev.freed /\ at' # "lib"
    BY <1>2, <1>8 DEF ReadSuspends, BevTypes, BufInv
  <2>3. Waits'
    BY <1>2, <1>8 DEF ReadSuspends, Waits, BelowMark
  <2> QED BY <1>8, <2>1, <2>2, <2>3, WaitStep DEF ReadSuspends, Reported
<1>9. CASE WriteSends
  <2>1. PICK left \in IF bev.output = 0 THEN {0} ELSE 0 .. bev.output - 1 :
          /\ bev' = [bev EXCEPT !.output = left]
          /\ IF left # 0
             THEN /\ base' \in Arms(base, "WRITE", bev.secs["WRITE"])
                  /\ lost' = LostAfter(base', {"WRITE"})
             ELSE UNCHANGED <<base, lost>>
          /\ at' = IF left <= bev.lowOut THEN "user" ELSE "loop"
    BY <1>9 DEF WriteSends
  <2>2. left \in Nat /\ LibRuns("WRITE") /\ at' # "lib" /\ UNCHANGED <<loopOnly, half>>
    BY <1>2, <1>9, <2>1 DEF WriteSends, Reported
  <2>3. /\ bev'.output = left /\ bev'.enabled = bev.enabled /\ bev'.freed = bev.freed
        /\ bev'.input = bev.input /\ bev'.high = bev.high /\ bev'.pressure = bev.pressure
    BY <1>2, <2>1
  <2>4. BevTypes'
    <3>1. lost' \subseteq Dir
      BY <1>1, <1>2, <2>1, LostTypes
    <3> QED BY <1>2, <2>1, <2>2, <3>1 DEF BevTypes, BufInv, loopOnly, LibRuns
  <2>5. CASE left # 0
    <3>1. Touches(base, base', {"WRITE"}) /\ lost' = LostAfter(base', {"WRITE"})
      BY <1>1, <1>2, <2>1, <2>5, ArmsTouch DEF BufInv
    <3> QED BY <1>1, <2>2, <2>3, <2>4, <3>1, ArmStep
  <2>6. CASE left = 0
    <3>1. base' = base /\ lost' = lost
      BY <2>1, <2>6
    <3>2. /\ "WRITE" \in bev.enabled \cup half /\ ~bev.freed /\ pc # "calls"
          /\ \A x \in Dir : ~Called(x)'
          /\ \A x \in Dir : x # "WRITE" => ~Called(x) /\ EventOf[x] # EvWrite
      BY <1>1, <2>2, LibraryRuns
    <3>3. IInv' /\ OneReason(base)' /\ OneCall'
      <4>1. Touches(base, base', {"WRITE"}) /\ {"WRITE"} \in SUBSET Dir
        BY <1>1, <3>1, TouchesNothing
      <4> QED BY <2>2, <3>2, <4>1, TouchStep DEF BufInv
    <3>4. DirOK("WRITE")'
      BY <1>1, <2>2, <2>3, <2>6, <3>2, Settled
    <3>5. ASSUME NEW x \in Dir, x # "WRITE" PROVE DirOK(x)'
      BY <2>2, <2>3, <3>1, <3>2, <3>5, Aside DEF BufInv, Waits, BelowMark
    <3>6. Expiries(base, base')
      BY <3>1 DEF Expiries
    <3> QED BY <2>4, <3>3, <3>4, <3>5, <3>6, Parts
  <2> QED BY <2>2, <2>5, <2>6
<1>10. CASE ReadGets
  <2>1. PICK len \in bev.input + 1 .. ReadLimit :
       LET grown == [bev EXCEPT !.input = len]
           quiet == bev.low # 0 /\ len < bev.low
           full  == ~BelowMark(grown) /\ ~quiet
       IN  /\ \E b \in MovedArms(grown, base) :
                \E c \in Arms(b, "READ", bev.secs["READ"]) :
                  /\ base' = IF full THEN Del(c, EvRead) ELSE c
                  /\ lost' = IF full THEN lost \ {"READ"}
                             ELSE LostAfter(c, {"READ"})
           /\ bev' = IF full THEN [grown EXCEPT !.pressure = TRUE] ELSE Moved(grown)
           /\ at' = IF quiet THEN "loop" ELSE "user"
    BY <1>10 DEF ReadGets
  <2> DEFINE grown == [bev EXCEPT !.input = len]
             quiet == bev.low # 0 /\ len < bev.low
             full  == ~BelowMark(grown) /\ ~quiet
  <2>2. PICK b \in MovedArms(grown, base) :
          \E c \in Arms(b, "READ", bev.secs["READ"]) :
            /\ base' = IF full THEN Del(c, EvRead) ELSE c
            /\ lost' = IF full THEN lost \ {"READ"} ELSE LostAfter(c, {"READ"})
    BY <2>1
  <2>3. PICK c \in Arms(b, "READ", bev.secs["READ"]) :
            /\ base' = IF full THEN Del(c, EvRead) ELSE c
            /\ lost' = IF full THEN lost \ {"READ"} ELSE LostAfter(c, {"READ"})
    BY <2>2
  <2>4. /\ bev' = IF full THEN [grown EXCEPT !.pressure = TRUE] ELSE Moved(grown)
        /\ at' \in {"loop", "user"}
    BY <2>1
  <2>5. LibRuns("READ") /\ at' # "lib" /\ UNCHANGED <<loopOnly, half>> /\ len \in Nat
    BY <1>2, <1>10, <2>4 DEF ReadGets, Reported
  <2>6. Touches(base, b, {"READ"}) /\ Touches(b, c, {"READ"})
    <3>1. grown.secs \in [Dir -> Nat]
      BY <1>2
    <3>2. Touches(base, b, {"READ"})
      BY <1>1, <2>2, <3>1, PressureTouches DEF BufInv
    <3>3. Good(b)
      BY <3>2 DEF Touches
    <3> QED BY <1>1, <1>2, <2>3, <3>2, <3>3, ArmsTouch DEF BufInv
  <2>7. Touches(base, c, {"READ"}) /\ Good(c)
    <3>1. Touches(base, c, {"READ"})
      BY <2>6, TouchesTwice
    <3> QED BY <3>1 DEF Touches
  <2>8. /\ bev' \in [enabled : SUBSET Dir, input : Nat, output : Nat, low : Nat, high : Nat,
                    lowOut : Nat, pressure : BOOLEAN, secs : [Dir -> Nat], freed : BOOLEAN]
        /\ bev'.freed = bev.freed /\ bev'.enabled = bev.enabled /\ bev'.output = bev.output
    BY <1>2, <2>4, <2>5 DEF Moved, Pressure
  <2>9. BevTypes'
    <3>1. lost' \subseteq Dir
      BY <1>1, <1>2, <2>3, LostTypes
    <3> QED BY <1>2, <2>4, <2>5, <2>8, <3>1 DEF BevTypes, BufInv, loopOnly, LibRuns
  <2>10. CASE full
    <3>1. base' = Del(c, EvRead) /\ lost' = lost \ {"READ"}
      BY <2>3, <2>10
    <3>2. Touches(base, base', {"READ"}) /\ base'.flags[EvRead] = {}
      BY <1>1, <2>7, <3>1, DelTouches, TouchesTwice
    <3>3. Waits'
      BY <1>2, <2>4, <2>10 DEF Waits, BelowMark
    <3> QED BY <2>5, <2>8, <2>9, <3>1, <3>2, <3>3, WaitStep
  <2>11. CASE ~full
    <3>1. base' = c /\ lost' = LostAfter(base', {"READ"})
      BY <2>3, <2>11
    <3> QED BY <1>1, <2>5, <2>7, <2>8, <2>9, <3>1, ArmStep
  <2> QED BY <2>10, <2>11
<1> QED BY <1>3, <1>4, <1>5, <1>6, <1>7, <1>8, <1>9, <1>10 DEF Library

\* After the step the events of d are only queued while d is granted, and d is
\* on its way if it has to be.
Settles(d) ==
  /\ base'.flags[EventOf[d]] # {} => d \in bev'.enabled \cup half' /\ ~bev'.freed
  /\ \/ d \notin bev'.enabled \/ bev'.freed \/ d \in lost'
     \/ d = "WRITE" /\ bev'.output = 0
     \/ Heard(base', d)
     \/ d = "READ" /\ Waits'

\* The step does not ask more for d than was asked before.
Spares(d) ==
  /\ bev'.freed = bev.freed
  /\ d \in bev.enabled \cup half => d \in bev'.enabled \cup half'
  /\ d \in bev'.enabled => d \in bev.enabled
  /\ d \in lost => d \in lost'
  /\ d = "WRITE" /\ bev'.output # 0 => bev.output # 0
  /\ d = "READ" /\ d \in bev.enabled /\ Waits => Waits'

\* A call of the application whose events are those of D.
LEMMA CallOn ==
  ASSUME BufInv, MayCall, UNCHANGED <<loopOnly, at>>, BevTypes',
         NEW D \in SUBSET Dir, Good(base'), OneReason(base'),
         base'.frame \in {base.frame, 0}, Expiries(base, base'),
         \A d \in Dir \ D : base'.flags[EventOf[d]] = base.flags[EventOf[d]] /\ Spares(d),
         \A d \in D : Settles(d)
  PROVE  BufInv' /\ Expiries(base, base')
<1>1. pc # "calls" /\ \A d \in Dir : ~Called(d) /\ ~Called(d)'
  BY ApplicationRuns
<1>2. IInv' /\ OneReason(base)' /\ OneCall'
  BY <1>1, CallStep DEF BufInv
<1>3. ASSUME NEW d \in D PROVE DirOK(d)'
  BY <1>1, Settled DEF Settles
<1>4. ASSUME NEW d \in Dir \ D PROVE DirOK(d)'
  BY <1>1, Aside DEF BufInv, Spares
<1> QED BY <1>2, <1>3, <1>4, Parts

LEMMA TouchOn ==
  ASSUME BufInv, MayCall, UNCHANGED <<loopOnly, at>>, BevTypes',
         NEW D \in SUBSET Dir, Touches(base, base', D),
         \A d \in Dir \ D : Spares(d), \A d \in D : Settles(d)
  PROVE  BufInv' /\ Expiries(base, base')
<1>1. OneReason(base')
  BY TouchesReason DEF BufInv
<1>2. \A d \in Dir \ D : base'.flags[EventOf[d]] = base.flags[EventOf[d]]
  BY TheEvents DEF Touches
<1> QED BY <1>1, <1>2, CallOn DEF Touches

LEMMA BevType ==
  ASSUME BufInv
  PROVE  /\ bev \in [enabled : SUBSET Dir, input : Nat, output : Nat, low : Nat, high : Nat,
                     lowOut : Nat, pressure : BOOLEAN, secs : [Dir -> Nat], freed : BOOLEAN]
         /\ half \subseteq Dir /\ lost \subseteq Dir
         /\ at \in {"lib", "user", "loop"} /\ (at # "loop" => pc = "callback")
         /\ Good(base) /\ OneReason(base) /\ IInv
         /\ "READ" \in Dir /\ "WRITE" \in Dir
BY TheEvents, GoodBase DEF BufInv, BevTypes, IInv, TypeOK

LEMMA EnableStep ==
  ASSUME BufInv, NEW D \in SUBSET Dir, Enable(D)
  PROVE  BufInv' /\ Expiries(base, base')
<1>1. MayCall /\ UNCHANGED <<loopOnly, at, half>> /\ lost' = LostAfter(base', D)
      /\ bev' = [bev EXCEPT !.enabled = @ \cup D] /\ base' = OnEvents(ArmDir, base, D)
  BY DEF Enable
<1>2. Touches(base, base', D)
  <2>1. base' = ArmBoth(base, D, bev.secs)
    BY <1>1 DEF OnEvents, ArmDir, ArmBoth
  <2> QED BY <2>1, BevType, ArmsBoth
<1>3. /\ bev'.enabled = bev.enabled \cup D /\ bev'.freed = bev.freed
      /\ bev'.output = bev.output /\ bev'.input = bev.input /\ bev'.high = bev.high
      /\ bev'.pressure = bev.pressure /\ ~bev.freed
  BY <1>1, BevType DEF MayCall
<1>4. BevTypes'
  <2>1. lost' \subseteq Dir
    BY <1>1, BevType, LostTypes
  <2> QED BY <1>1, <2>1, BevType DEF BevTypes, loopOnly
<1>5. \A d \in D : Settles(d)
  BY <1>1, <1>3 DEF Settles, LostAfter
<1>6. \A d \in Dir \ D : Spares(d)
  BY <1>1, <1>3 DEF Spares, LostAfter, Waits, BelowMark
<1> QED BY <1>1, <1>2, <1>4, <1>5, <1>6, TouchOn

\* The read event may be armed before the backend refuses the write event.
LEMMA EnableFailsStep ==
  ASSUME BufInv, EnableFails
  PROVE  BufInv' /\ Expiries(base, base')
<1>1. MayCall /\ UNCHANGED <<loopOnly, bev, at>> /\ ~bev.freed
  BY DEF EnableFails, MayCall
<1>2. CASE base' = base /\ half' = half /\ lost' = lost
  <2>1. Touches(base, base', {}) /\ {} \in SUBSET Dir
    BY <1>2, BevType, TouchesNothing
  <2>2. BevTypes'
    BY <1>1, <1>2 DEF BufInv, BevTypes, loopOnly
  <2>3. \A d \in Dir \ {} : Spares(d)
    BY <1>1, <1>2 DEF Spares, Waits
  <2> QED BY <1>1, <2>1, <2>2, <2>3, TouchOn
<1>3. CASE /\ base' = ArmDir(base, "READ") /\ half' = half \cup {"READ"}
           /\ lost' = LostAfter(base', {"READ"})
  <2>1. Touches(base, base', {"READ"}) /\ {"READ"} \in SUBSET Dir
    BY <1>3, BevType, ArmedOne DEF ArmDir
  <2>2. BevTypes'
    <3>1. lost' \subseteq Dir
      BY <1>3, BevType, LostTypes
    <3> QED BY <1>1, <1>3, <3>1, BevType DEF BufInv, BevTypes, loopOnly
  <2>3. \A d \in {"READ"} : Settles(d)
    BY <1>1, <1>3 DEF Settles, LostAfter
  <2>4. \A d \in Dir \ {"READ"} : Spares(d)
    BY <1>1, <1>3 DEF Spares, LostAfter, Waits
  <2> QED BY <1>1, <2>1, <2>2, <2>3, <2>4, TouchOn
<1> QED BY <1>2, <1>3 DEF EnableFails

LEMMA DisableStep ==
  ASSUME BufInv, NEW D \in SUBSET Dir, Disable(D) \/ DisableFails(D)
  PROVE  BufInv' /\ Expiries(base, base')
<1>1. /\ MayCall /\ UNCHANGED <<loopOnly, at>> /\ base' = OnEvents(DelDir, base, D)
      /\ ~bev.freed
  BY DEF Disable, DisableFails, MayCall
<1>2. Touches(base, base', D) /\ \A d \in D : base'.flags[EventOf[d]] = {}
  BY <1>1, BevType, DelsTouch
<1>3. CASE Disable(D)
  <2>1. /\ bev'.enabled = bev.enabled \ D /\ bev'.freed = bev.freed
        /\ bev'.output = bev.output /\ bev'.input = bev.input /\ bev'.high = bev.high
        /\ bev'.pressure = bev.pressure /\ half' = half \ D /\ lost' = lost \ D
    BY <1>3, BevType DEF Disable
  <2>2. BevTypes'
    BY <1>1, <1>3, <2>1, BevType DEF Disable, BevTypes, loopOnly
  <2>3. \A d \in D : Settles(d)
    BY <1>2, <2>1 DEF Settles
  <2>4. \A d \in Dir \ D : Spares(d)
    BY <2>1 DEF Spares, Waits, BelowMark
  <2> QED BY <1>1, <1>2, <2>2, <2>3, <2>4, TouchOn
<1>4. CASE DisableFails(D)
  <2>1. bev' = bev /\ half' = half /\ lost' = lost \cup D
    BY <1>4 DEF DisableFails
  <2>2. BevTypes'
    BY <1>1, <2>1, BevType DEF BevTypes, loopOnly
  <2>3. \A d \in D : Settles(d)
    BY <1>2, <2>1 DEF Settles
  <2>4. \A d \in Dir \ D : Spares(d)
    BY <2>1 DEF Spares, Waits, BelowMark
  <2> QED BY <1>1, <1>2, <2>2, <2>3, <2>4, TouchOn
<1> QED BY <1>3, <1>4

\* Only an event that is pending is armed again, so its direction stays heard.
LEMMA SetTimeoutStep ==
  ASSUME BufInv, NEW s \in Secs, SetTimeout(s)
  PROVE  BufInv' /\ Expiries(base, base')
<1> DEFINE D == {d \in Dir : IsPending(base, d)}
<1>1. MayCall /\ UNCHANGED <<loopOnly, at, half, lost>> /\ s \in [Dir -> Nat]
      /\ bev' = [bev EXCEPT !.secs = s] /\ ~bev.freed /\ D \in SUBSET Dir
  BY BufferEventAssumption DEF SetTimeout, MayCall
<1>2. base' = ArmBoth(base, D, s)
  BY DEF SetTimeout, OnEvents, ArmBoth
<1>3. Touches(base, base', D) /\ \A d \in D : IsPending(base, d) => Heard(base', d)
  BY <1>1, <1>2, BevType, ArmsBoth
<1>4. /\ bev'.enabled = bev.enabled /\ bev'.freed = bev.freed
      /\ bev'.output = bev.output /\ bev'.input = bev.input /\ bev'.high = bev.high
      /\ bev'.pressure = bev.pressure
  BY <1>1, BevType
<1>5. BevTypes'
  BY <1>1, BevType DEF BevTypes, loopOnly
<1>6. \A d \in D : Settles(d)
  <2> SUFFICES ASSUME NEW d \in D PROVE Settles(d)
    OBVIOUS
  <2>1. IsPending(base, d) /\ d \in Dir
    OBVIOUS
  <2>2. base.flags[EventOf[d]] # {}
    BY <2>1 DEF IsPending
  <2>3. d \in bev.enabled \cup half
    BY <2>1, <2>2 DEF BufInv, DirOK
  <2> QED BY <1>1, <1>3, <1>4, <2>1, <2>3 DEF Settles
<1>7. \A d \in Dir \ D : Spares(d)
  BY <1>1, <1>4 DEF Spares, Waits, BelowMark
<1> HIDE DEF D
<1> QED BY <1>1, <1>3, <1>5, <1>6, <1>7, TouchOn

\* Whatever changes what the high watermark says calls the pressure callback.
LEMMA PressureStep ==
  ASSUME BufInv, MayCall, UNCHANGED <<loopOnly, at, half>>,
         NEW v \in [enabled : SUBSET Dir, input : Nat, output : Nat, low : Nat, high : Nat,
                    lowOut : Nat, pressure : BOOLEAN, secs : [Dir -> Nat], freed : BOOLEAN],
         v.enabled = bev.enabled, v.freed = bev.freed, v.output = bev.output,
         v.pressure = bev.pressure, bev' = Pressure(v), base' \in PressureArms(v, base),
         lost' = IF Resumes(v) THEN LostAfter(base', {"READ"}) ELSE lost
  PROVE  BufInv' /\ Expiries(base, base')
<1>1. Touches(base, base', {"READ"}) /\ {"READ"} \in SUBSET Dir
  BY BevType, PressureTouches
<1>2. /\ bev'.enabled = bev.enabled /\ bev'.freed = bev.freed /\ bev'.output = bev.output
      /\ bev'.input = v.input /\ bev'.high = v.high /\ ~bev.freed
      /\ bev'.pressure = (bev.pressure /\ ~BelowMark(v))
  BY DEF Pressure, MayCall
<1>3. BevTypes'
  <2>1. lost' \subseteq Dir
    BY BevType, LostTypes
  <2>2. bev' \in [enabled : SUBSET Dir, input : Nat, output : Nat, low : Nat, high : Nat,
                  lowOut : Nat, pressure : BOOLEAN, secs : [Dir -> Nat], freed : BOOLEAN]
    BY DEF Pressure, BelowMark
  <2> QED BY <2>1, <2>2, BevType DEF BevTypes, loopOnly
<1>4. \A d \in Dir \ {"READ"} : Spares(d)
  BY <1>2 DEF Spares, LostAfter
<1>5. CASE Resumes(v)
  <2>1. Settles("READ")
    BY <1>2, <1>5 DEF Settles, LostAfter, Resumes
  <2> QED BY <1>1, <1>3, <1>4, <2>1, TouchOn
<1>6. CASE ~Resumes(v)
  <2>1. base' = base /\ lost' = lost
    BY <1>6 DEF PressureArms
  <2>2. Touches(base, base', {}) /\ {} \in SUBSET Dir
    BY <2>1, BevType, TouchesNothing
  <2>3. Spares("READ")
    BY <1>2, <1>6, <2>1 DEF Spares, Resumes, Waits, BelowMark
  <2> QED BY <1>3, <1>4, <2>2, <2>3, TouchOn
<1> QED BY <1>5, <1>6

LEMMA SetWatermarkStep ==
  ASSUME BufInv, NEW v \in Marked, SetWatermark(v)
  PROVE  BufInv' /\ Expiries(base, base')
<1>1. /\ v \in [enabled : SUBSET Dir, input : Nat, output : Nat, low : Nat, high : Nat,
                lowOut : Nat, pressure : BOOLEAN, secs : [Dir -> Nat], freed : BOOLEAN]
      /\ v.enabled = bev.enabled /\ v.freed = bev.freed /\ v.output = bev.output
      /\ v.pressure = bev.pressure
  <2>1. CASE \E m \in Marks : v = [bev EXCEPT !.low = m[1], !.high = m[2]]
    BY <2>1, BevType, BufferEventAssumption
  <2>2. CASE \E low \in LowMarks : v = [bev EXCEPT !.lowOut = low]
    BY <2>2, BevType, BufferEventAssumption
  <2> QED BY <2>1, <2>2 DEF Marked
<1> QED BY <1>1, PressureStep DEF SetWatermark

LEMMA ReadStep ==
  ASSUME BufInv, Read
  PROVE  BufInv' /\ Expiries(base, base')
<1>1. MayCall /\ UNCHANGED <<loopOnly, at, half>> /\ ~bev.freed
  BY DEF Read, MayCall
<1>2. PICK len \in 0 .. bev.input - 1 :
        LET v == [bev EXCEPT !.input = len]
        IN  /\ bev' = Moved(v)
            /\ base' \in MovedArms(v, base)
            /\ lost' = IF v.pressure /\ Resumes(v) THEN LostAfter(base', {"READ"})
                       ELSE lost
  BY DEF Read
<1> DEFINE v == [bev EXCEPT !.input = len]
<1>3. len \in Nat
  BY BevType
<1>4. /\ v \in [enabled : SUBSET Dir, input : Nat, output : Nat, low : Nat, high : Nat,
                lowOut : Nat, pressure : BOOLEAN, secs : [Dir -> Nat], freed : BOOLEAN]
      /\ v.enabled = bev.enabled /\ v.freed = bev.freed /\ v.output = bev.output
      /\ v.pressure = bev.pressure
  BY <1>3, BevType
<1>5. /\ bev' = Moved(v) /\ base' \in MovedArms(v, base)
      /\ lost' = IF v.pressure /\ Resumes(v) THEN LostAfter(base', {"READ"}) ELSE lost
  BY <1>2
<1> HIDE DEF v
<1>6. CASE v.pressure
  BY <1>1, <1>4, <1>5, <1>6, PressureStep DEF Moved, MovedArms
<1>7. CASE ~v.pressure
  <2>1. bev' = v /\ base' = base /\ lost' = lost
    BY <1>5, <1>7 DEF Moved, MovedArms
  <2>2. Touches(base, base', {}) /\ {} \in SUBSET Dir
    BY <2>1, BevType, TouchesNothing
  <2>3. BevTypes'
    BY <1>1, <1>4, <2>1, BevType DEF BevTypes, loopOnly
  <2>4. \A d \in Dir : Spares(d)
    BY <1>1, <1>4, <1>7, <2>1 DEF Spares, Waits
  <2> QED BY <1>1, <2>2, <2>3, <2>4, TouchOn
<1> QED BY <1>6, <1>7

LEMMA WriteStep ==
  ASSUME BufInv, Write
  PROVE  BufInv' /\ Expiries(base, base')
<1>1. MayCall /\ UNCHANGED <<loopOnly, at, half>> /\ ~bev.freed
  BY DEF Write, MayCall
<1>2. PICK len \in bev.output + 1 .. MaxOutput : bev' = [bev EXCEPT !.output = len]
  BY DEF Write
<1>3. len \in Nat
  BY BevType
<1>4. /\ bev' \in [enabled : SUBSET Dir, input : Nat, output : Nat, low : Nat, high : Nat,
                   lowOut : Nat, pressure : BOOLEAN, secs : [Dir -> Nat], freed : BOOLEAN]
      /\ bev'.enabled = bev.enabled /\ bev'.freed = bev.freed /\ bev'.input = bev.input
      /\ bev'.high = bev.high /\ bev'.pressure = bev.pressure
  BY <1>2, <1>3, BevType
<1>5. CASE "WRITE" \in bev.enabled
  <2>1. base' \in Arms(base, "WRITE", bev.secs["WRITE"]) /\ lost' = LostAfter(base', {"WRITE"})
    BY <1>5 DEF Write
  <2>2. Touches(base, base', {"WRITE"}) /\ {"WRITE"} \in SUBSET Dir
    BY <2>1, BevType, ArmsTouch
  <2>3. BevTypes'
    <3>1. lost' \subseteq Dir
      BY <2>1, BevType, LostTypes
    <3> QED BY <1>1, <1>4, <3>1, BevType DEF BevTypes, loopOnly
  <2>4. Settles("WRITE")
    BY <1>1, <1>4, <1>5, <2>1 DEF Settles, LostAfter
  <2>5. \A d \in Dir \ {"WRITE"} : Spares(d)
    BY <1>1, <1>4, <2>1 DEF Spares, LostAfter, Waits, BelowMark
  <2> QED BY <1>1, <2>2, <2>3, <2>4, <2>5, TouchOn
<1>6. CASE "WRITE" \notin bev.enabled
  <2>1. base' = base /\ lost' = lost
    BY <1>6 DEF Write
  <2>2. Touches(base, base', {"WRITE"}) /\ {"WRITE"} \in SUBSET Dir
    BY <2>1, BevType, TouchesNothing
  <2>3. BevTypes'
    BY <1>1, <1>4, <2>1, BevType DEF BevTypes, loopOnly
  <2>4. Settles("WRITE")
    <3>1. base'.flags[EventOf["WRITE"]] # {} => "WRITE" \in bev.enabled \cup half
      BY <2>1, BevType DEF BufInv, DirOK
    <3> QED BY <1>1, <1>4, <1>6, <3>1 DEF Settles
  <2>5. \A d \in Dir \ {"WRITE"} : Spares(d)
    BY <1>1, <1>4, <2>1 DEF Spares, Waits, BelowMark
  <2> QED BY <1>1, <2>2, <2>3, <2>4, <2>5, TouchOn
<1> QED BY <1>5, <1>6

LEMMA SetFdStep ==
  ASSUME BufInv, SetFd
  PROVE  BufInv' /\ Expiries(base, base')
<1> DEFINE c == OnEvents(DelDir, base, Dir)
<1>1. /\ MayCall /\ UNCHANGED <<loopOnly, bev, at, half>> /\ lost' = Dir
      /\ base' = OnEvents(Reset, c, Dir) /\ Dir \in SUBSET Dir
  BY DEF SetFd
<1>2. Touches(base, c, Dir) /\ \A d \in Dir : c.flags[EventOf[d]] = {}
  BY BevType, DelsTouch
<1>3. OneReason(c)
  BY <1>1, <1>2, BevType, TouchesReason
<1> HIDE DEF c
<1>4. Good(base') /\ base'.flags = c.flags /\ base'.frame = c.frame
  BY <1>1, <1>2, ResetBoth DEF Touches
<1>5. OneReason(base')
  BY <1>2, <1>3, <1>4, TheEvents DEF OneReason
<1>6. BevTypes'
  BY <1>1, BevType DEF BevTypes, loopOnly
<1>7. \A d \in Dir : Settles(d)
  BY <1>1, <1>2, <1>4 DEF Settles
<1>8. base'.frame \in {base.frame, 0}
  BY <1>2, <1>4 DEF Touches
<1>9. Expiries(base, base')
  BY <1>2, <1>4, TheEvents DEF Expiries
<1> QED BY <1>1, <1>4, <1>5, <1>6, <1>7, <1>8, <1>9, CallOn

LEMMA PrioritySetStep ==
  ASSUME BufInv, NEW p \in Pri, PrioritySet(p)
  PROVE  BufInv' /\ Expiries(base, base')
<1> DEFINE q == IF "ACTIVE" \in base.flags[EvWrite] THEN base.pri[EvWrite] ELSE p
           r == [base EXCEPT !.pri[EvRead] = p]
           c == [r EXCEPT !.pri[EvWrite] = q]
<1>1. MayCall /\ UNCHANGED <<loopOnly, bevVars>> /\ "ACTIVE" \notin base.flags[EvRead]
  BY DEF PrioritySet
<1>2. EvRead \in Event /\ EvWrite \in Event /\ EvRead # EvWrite /\ base \in Base
  BY TheEvents, BevType DEF Good
<1>3. q \in Pri
  BY <1>2 DEF Base
<1>4. base' = c
  BY <1>2 DEF PrioritySet, Base
<1> HIDE DEF q
<1>5. /\ r \in Base /\ r.flags = base.flags /\ r.count = base.count /\ r.frame = base.frame
      /\ r.countActive = base.countActive /\ r.active = base.active
      /\ r.deadline = base.deadline /\ r.res = base.res /\ r.ncalls = base.ncalls
      /\ r.pri[EvWrite] = base.pri[EvWrite]
      /\ \A f \in Event : f # EvRead => r.pri[f] = base.pri[f]
  BY <1>2 DEF Base
<1>6. Good(r)
  BY <1>1, <1>2, <1>5, BevType, PriorityGood
<1> HIDE DEF r
<1>7. /\ c \in Base /\ c.flags = r.flags /\ c.count = r.count /\ c.frame = r.frame
      /\ c.countActive = r.countActive /\ c.active = r.active
      /\ c.deadline = r.deadline /\ c.res = r.res /\ c.ncalls = r.ncalls
      /\ c.pri = [r.pri EXCEPT ![EvWrite] = q]
  BY <1>2, <1>3, <1>5 DEF Base
<1> HIDE DEF c
<1>8. Good(c)
  <2>1. r.pri \in [Event -> Pri]
    BY <1>5 DEF Base
  <2>2. CASE "ACTIVE" \notin base.flags[EvWrite]
    BY <1>2, <1>5, <1>6, <1>7, <2>1, <2>2, PriorityGood
  <2>3. CASE "ACTIVE" \in base.flags[EvWrite]
    <3>1. c.pri = r.pri
      BY <1>2, <1>5, <1>7, <2>1, <2>3 DEF q
    <3> QED BY <1>6, <1>7, <3>1, GoodFields
  <2> QED BY <2>2, <2>3
<1>9. OneReason(c)
  BY <1>5, <1>7, BevType DEF OneReason
<1>10. BevTypes'
  BY <1>1, BevType DEF BevTypes, loopOnly, bevVars
<1>11. \A d \in Dir : base'.flags[EventOf[d]] = base.flags[EventOf[d]] /\ Spares(d)
  BY <1>1, <1>4, <1>5, <1>7 DEF Spares, bevVars, Waits
<1>12. base'.frame \in {base.frame, 0} /\ {} \in SUBSET Dir
  BY <1>4, <1>5, <1>7
<1>13. Expiries(base, c)
  BY <1>5, <1>7 DEF Expiries
<1> QED BY <1>1, <1>4, <1>8, <1>9, <1>10, <1>11, <1>12, <1>13, CallOn DEF bevVars

LEMMA FreeStep ==
  ASSUME BufInv, Free
  PROVE  BufInv' /\ Expiries(base, base')
<1>1. /\ MayCall /\ UNCHANGED <<loopOnly, at, half, lost>> /\ Dir \in SUBSET Dir
      /\ base' = OnEvents(DelDir, base, Dir) /\ bev' = [bev EXCEPT !.freed = TRUE]
  BY DEF Free
<1>2. Touches(base, base', Dir) /\ \A d \in Dir : base'.flags[EventOf[d]] = {}
  BY <1>1, BevType, DelsTouch
<1>3. BevTypes' /\ bev'.freed
  BY <1>1, BevType DEF BevTypes, loopOnly
<1>4. \A d \in Dir : Settles(d)
  BY <1>2, <1>3 DEF Settles
<1> QED BY <1>1, <1>2, <1>3, <1>4, TouchOn

LEMMA LoopBreakStep ==
  ASSUME BufInv, pc = "idle" \/ at = "user", LoopBreak, UNCHANGED bevVars
  PROVE  BufInv' /\ Expiries(base, base')
<1>1. IInv'
  BY AppPreserves DEF BufInv, App
<1>2. base' = base /\ pc' = pc /\ cur' = cur /\ UNCHANGED <<bev, at, half, lost>>
  BY DEF LoopBreak, loopVars, bevVars
<1>3. OneReason(base)' /\ OneCall' /\ BevTypes'
  BY <1>2 DEF BufInv, OneReason, OneCall, BevTypes
<1>4. \A d \in Dir : DirOK(d)'
  BY <1>2 DEF BufInv, DirOK, Called, Heard, Waits
<1> QED BY <1>1, <1>2, <1>3, <1>4, Parts DEF Expiries

LEMMA ApplicationPreserves == BufInv /\ Application => BufInv' /\ Expiries(base, base')
BY EnableStep, EnableFailsStep, DisableStep, SetTimeoutStep, SetWatermarkStep, ReadStep,
   WriteStep, SetFdStep, PrioritySetStep, FreeStep, LoopBreakStep DEF Application

-----------------------------------------------------------------------------
(* The loop.                                                               *)

\* Only the two events are ever on a queue, and neither counts calls.
LEMMA QueuedAreUser ==
  ASSUME NEW b, OneReason(b), NEW e \in Event, b.flags[e] # {}
  PROVE  e \in User /\ e \notin Signals /\ e \notin Persist
BY TheEvents, BufferEventAssumption, EventAssumption DEF OneReason, User

\* A step of the loop that leaves the base alone, or of the clock.
LEMMA StillPreserves ==
  ASSUME BufInv, IInv', BevTypes', base' = base, UNCHANGED <<bev, half, lost>>,
         pc \notin {"calls", "callback"} /\ pc' \notin {"calls", "callback"}
         /\ at # "lib" /\ at' # "lib"
  PROVE  BufInv'
<1>1. OneReason(base)' /\ OneCall'
  BY DEF BufInv, OneReason, OneCall
<1>2. \A d \in Dir : ~Called(d) /\ ~Called(d)'
  BY DEF Called
<1>3. ASSUME NEW d \in Dir PROVE DirOK(d)'
  BY <1>2, Aside DEF BufInv, Waits, BelowMark
<1> QED BY <1>1, <1>3, Parts

\* An event becomes active for what was reported, or for its timeout.
LEMMA ActivatePreserves ==
  ASSUME BufInv, IInv', BevTypes', UNCHANGED <<bev, half, lost>>,
         pc \notin {"calls", "callback"} /\ pc' = pc /\ at # "lib" /\ at' # "lib",
         NEW e \in Event, base.flags[e] # {},
         \A f \in Event : f # e => base'.flags[f] = base.flags[f],
         \A f \in Event : f # e => base'.ncalls[f] = base.ncalls[f]
                                   /\ base'.res[f] = base.res[f],
         "ACTIVE" \in base'.flags[e], base'.ncalls[e] = 1,
         "TIMEOUT" \in base'.res[e] =>
           base'.res[e] = {"TIMEOUT"} /\ "INSERTED" \notin base'.flags[e]
  PROVE  BufInv'
<1>1. e \in User
  BY QueuedAreUser DEF BufInv
<1>2. OneReason(base)'
  <2>1. \A f \in Event \ User : base'.flags[f] = {}
    BY <1>1 DEF BufInv, OneReason
  <2>2. \A f \in User : "ACTIVE" \in base'.flags[f] =>
          /\ base'.ncalls[f] = 1
          /\ "TIMEOUT" \in base'.res[f] =>
               base'.res[f] = {"TIMEOUT"} /\ "INSERTED" \notin base'.flags[f]
    BY <1>1, TheEvents DEF BufInv, OneReason
  <2> QED BY <2>1, <2>2 DEF OneReason
<1>3. OneCall'
  BY DEF OneCall
<1>4. \A d \in Dir : ~Called(d) /\ ~Called(d)'
  BY DEF Called
<1>5. ASSUME NEW d \in Dir PROVE DirOK(d)'
  <2>1. CASE EventOf[d] = e
    <3>1. d \in bev.enabled \cup half /\ ~bev.freed
      BY <2>1 DEF BufInv, DirOK
    <3>2. Heard(base', d)
      BY <2>1 DEF Heard
    <3> QED BY <1>4, <3>1, <3>2, Settled
  <2>2. CASE EventOf[d] # e
    <3>1. base'.flags[EventOf[d]] = base.flags[EventOf[d]]
      BY <2>2, TheEvents
    <3> QED BY <1>4, <3>1, Aside DEF BufInv, Waits, BelowMark
  <2> QED BY <2>1, <2>2
<1> QED BY <1>2, <1>3, <1>5, Parts

LEMMA ReportPreserves ==
  ASSUME BufInv, IInv', BevTypes', UNCHANGED <<bev, half, lost>>, at # "lib", at' # "lib",
         NEW e \in Event, NEW res \in Interest[e], NEW n \in Nat, Report(e, res, n),
         e \notin Signals => n = 1
  PROVE  BufInv'
<1> DEFINE c == Active(base, e, {res}, n)
<1>1. Good(base) /\ "INSERTED" \in base.flags[e] /\ pc = "report" /\ pc' = pc
  BY BevType DEF Report, loopVars
<1>2. e \notin Signals /\ e \in User /\ n = 1
  BY <1>1, QueuedAreUser DEF BufInv
<1>3. base' = c
  BY <1>2 DEF Report
<1>4. res \in {"READ", "WRITE"}
  BY <1>2, TheEvents, BufferEventAssumption
<1>5. {res} \in SUBSET Result
  BY <1>4 DEF Result
<1>6. c.flags = [base.flags EXCEPT ![e] = @ \cup {"ACTIVE"}] /\ Activates(base, c, e, {res}, 1)
  BY <1>1, <1>2, <1>5, ActiveGood, ActiveFields
<1>7. /\ base.flags \in [Event -> SUBSET Queue] /\ base.res \in [Event -> SUBSET Result]
      /\ base.ncalls \in [Event -> Nat]
  BY <1>1 DEF Good, Base
<1> HIDE DEF c
<1>8. c.flags[e] = base.flags[e] \cup {"ACTIVE"}
      /\ \A f \in Event : f # e => c.flags[f] = base.flags[f]
  BY <1>6, <1>7
<1>9. CASE "ACTIVE" \in base.flags[e]
  <2>1. /\ c.ncalls = base.ncalls /\ base.ncalls[e] = 1
        /\ "TIMEOUT" \notin base.res[e]
        /\ c.res = [base.res EXCEPT ![e] = @ \cup {res}]
    BY <1>1, <1>2, <1>6, <1>9 DEF Activates, BufInv, OneReason
  <2>2. "TIMEOUT" \notin c.res[e] /\ \A f \in Event : f # e => c.res[f] = base.res[f]
    BY <1>4, <1>7, <2>1
  <2> QED BY <1>1, <1>3, <1>8, <2>1, <2>2, ActivatePreserves
<1>10. CASE "ACTIVE" \notin base.flags[e]
  <2>1. /\ c.ncalls = [base.ncalls EXCEPT ![e] = 1]
        /\ c.res = [base.res EXCEPT ![e] = {res}]
    BY <1>6, <1>10 DEF Activates
  <2>2. /\ c.res[e] = {res} /\ c.ncalls[e] = 1
        /\ \A f \in Event : f # e => c.res[f] = base.res[f] /\ c.ncalls[f] = base.ncalls[f]
    BY <1>7, <2>1
  <2> QED BY <1>1, <1>3, <1>4, <1>8, <2>2, ActivatePreserves
<1> QED BY <1>9, <1>10

LEMMA ExpirePreserves ==
  ASSUME BufInv, IInv', BevTypes', UNCHANGED <<bev, half, lost>>, at # "lib", at' # "lib",
         NEW e \in Event, Expire(e)
  PROVE  BufInv'
<1> DEFINE b == Del(base, e)
           c == Active(b, e, {"TIMEOUT"}, 1)
<1>1. Good(base) /\ base.flags[e] # {} /\ pc = "expire" /\ pc' = pc /\ base' = c
  BY BevType DEF Expire, Expired, HeapTop, Armed, loopVars
<1>2. Good(b) /\ b.flags = [base.flags EXCEPT ![e] = {}] /\ Rest(base, b)
  BY <1>1, DelGood, DelFields
<1>3. {"TIMEOUT"} \in SUBSET Result
  BY DEF Result
<1> HIDE DEF b
<1>4. c.flags = [b.flags EXCEPT ![e] = @ \cup {"ACTIVE"}] /\ Activates(b, c, e, {"TIMEOUT"}, 1)
  BY <1>2, <1>3, ActiveGood, ActiveFields
<1>5. /\ base.flags \in [Event -> SUBSET Queue] /\ base.res \in [Event -> SUBSET Result]
      /\ base.ncalls \in [Event -> Nat]
  BY <1>1 DEF Good, Base
<1> HIDE DEF c
<1>6. c.flags[e] = {"ACTIVE"} /\ \A f \in Event : f # e => c.flags[f] = base.flags[f]
  BY <1>2, <1>4, <1>5
<1>7. /\ c.ncalls = [base.ncalls EXCEPT ![e] = 1]
      /\ c.res = [base.res EXCEPT ![e] = {"TIMEOUT"}]
  BY <1>2, <1>4, <1>5 DEF Activates, Rest
<1>8. /\ c.res[e] = {"TIMEOUT"} /\ c.ncalls[e] = 1
      /\ \A f \in Event : f # e => c.res[f] = base.res[f] /\ c.ncalls[f] = base.ncalls[f]
  BY <1>5, <1>7
<1> QED BY <1>1, <1>6, <1>8, ActivatePreserves

\* The event taken off the active queue is owed its call, with the same grant.
LEMMA TakePreserves ==
  ASSUME BufInv, IInv', BevTypes', UNCHANGED <<bev, half, lost>>, at # "lib", at' # "lib",
         ProcessNext
  PROVE  BufInv'
<1>1. /\ cur' \in Event /\ "ACTIVE" \in base.flags[cur'] /\ pc = "process" /\ pc' = "calls"
      /\ base'.ncalls = base.ncalls /\ base'.frame = base.ncalls[cur']
      /\ \E x \in SUBSET Queue : base'.flags = [base.flags EXCEPT ![cur'] = x]
      /\ "ACTIVE" \notin base'.flags[cur'] /\ base'.res = base.res
  BY TakesEvent DEF BufInv, ProcessNext
<1>2. cur' \in User /\ base'.frame = 1
  BY <1>1, QueuedAreUser DEF BufInv, OneReason
<1>3. base.flags \in [Event -> SUBSET Queue]
  BY BevType DEF Good, Base
<1>4. \A f \in Event : f # cur' => base'.flags[f] = base.flags[f]
  BY <1>1, <1>3
<1>5. OneReason(base)'
  <2>1. \A f \in Event \ User : base'.flags[f] = {}
    BY <1>2, <1>4 DEF BufInv, OneReason
  <2>2. \A f \in User : "ACTIVE" \in base'.flags[f] =>
          /\ base'.ncalls[f] = 1
          /\ "TIMEOUT" \in base'.res[f] =>
               base'.res[f] = {"TIMEOUT"} /\ "INSERTED" \notin base'.flags[f]
    BY <1>1, <1>2, <1>4, TheEvents DEF BufInv, OneReason
  <2> QED BY <2>1, <2>2 DEF OneReason
<1>6. OneCall'
  BY <1>1, <1>2 DEF OneCall
<1>7. ASSUME NEW d \in Dir PROVE DirOK(d)'
  <2>1. CASE EventOf[d] = cur'
    <3>1. d \in bev.enabled \cup half /\ ~bev.freed
      BY <1>1, <2>1 DEF BufInv, DirOK
    <3>2. Called(d)'
      BY <1>1, <1>2, <2>1 DEF Called
    <3> QED BY <3>1, <3>2 DEF DirOK
  <2>2. CASE EventOf[d] # cur'
    <3>1. base'.flags[EventOf[d]] = base.flags[EventOf[d]]
      BY <1>4, <2>2, TheEvents
    <3>2. ~Called(d) /\ ~Called(d)'
      BY <1>1, <2>2 DEF Called
    <3> QED BY <3>1, <3>2, Aside DEF BufInv, Waits, BelowMark
  <2> QED BY <2>1, <2>2
<1> QED BY <1>5, <1>6, <1>7, Parts

\* The call that is owed becomes the library's half of the callback.
LEMMA CallPreserves ==
  ASSUME BufInv, IInv', BevTypes', UNCHANGED <<bev, half, lost>>, at # "lib", at' = "lib",
         Call
  PROVE  BufInv'
<1>1. /\ pc = "calls" /\ pc' = "callback" /\ base.frame # 0 /\ cur' = cur
      /\ base' = [base EXCEPT !.frame = @ - 1, !.ncalls[cur] = base.frame - 1]
  BY DEF Call
<1>2. cur \in User /\ base.frame = 1 /\ "ACTIVE" \notin base.flags[cur]
  BY <1>1 DEF BufInv, OneCall
<1>3. base \in Base
  BY BevType DEF Good
<1>4. /\ base'.frame = 0 /\ base'.flags = base.flags /\ base'.res = base.res
      /\ \A f \in Event : f # cur => base'.ncalls[f] = base.ncalls[f]
  BY <1>1, <1>2, <1>3 DEF Base
<1>5. OneReason(base)'
  BY <1>2, <1>4, TheEvents DEF BufInv, OneReason
<1>6. OneCall'
  BY <1>1, <1>2, <1>4 DEF OneCall
<1>7. \A d \in Dir : Called(d)' <=> Called(d)
  BY <1>1 DEF Called
<1>8. ASSUME NEW d \in Dir PROVE DirOK(d)'
  BY <1>4, <1>7, Aside DEF BufInv, Waits, BelowMark
<1> QED BY <1>5, <1>6, <1>8, Parts

\* No call is owed before or after the others.
LEMMA RestPreserves ==
  ASSUME BufInv, IInv', BevTypes', UNCHANGED <<bev, half, lost>>, at # "lib", at' # "lib",
         CallsDone \/ CallbackReturns
  PROVE  BufInv'
<1>1. base \in Base
  BY BevType DEF Good
<1>2. base'.flags = base.flags /\ base'.res = base.res /\ base'.ncalls = base.ncalls
  BY <1>1 DEF CallsDone, CallbackReturns, Base
<1>3. base.frame = 0 /\ base'.frame = 0
  BY <1>1 DEF BufInv, OneCall, CallsDone, CallbackReturns, Base
<1>4. OneReason(base)'
  BY <1>2 DEF BufInv, OneReason
<1>5. OneCall'
  BY <1>3 DEF BufInv, OneCall, CallsDone, CallbackReturns, TurnEnds, Leave
<1>6. \A d \in Dir : ~Called(d) /\ ~Called(d)'
  BY <1>3 DEF Called
<1>7. ASSUME NEW d \in Dir PROVE DirOK(d)'
  BY <1>2, <1>6, Aside DEF BufInv, Waits, BelowMark
<1> QED BY <1>4, <1>5, <1>7, Parts

LEMMA LoopStepPreserves == BufInv /\ LoopStep => BufInv'
<1> SUFFICES ASSUME BufInv, LoopStep PROVE BufInv'
  OBVIOUS
<1>1. /\ at # "lib" /\ Loop /\ UNCHANGED <<bev, half, lost>>
      /\ at' = IF pc' = "callback" THEN "lib" ELSE "loop"
  BY DEF LoopStep
<1>2. IInv'
  BY <1>1, LoopPreserves DEF BufInv
<1>3. BevTypes'
  BY <1>1 DEF BufInv, BevTypes
<1>4. CASE \/ \E flags \in SUBSET Mode : LoopEnter(flags)
           \/ LoopStop \/ LoopNoEvents \/ LoopPoll \/ ExpireDone \/ ProcessDone
           \/ Wake \/ WaitTimesOut \/ ReportsDone \/ LoopPollFails
  <2>1. /\ base' = base
        /\ pc \notin {"calls", "callback"} /\ pc' \notin {"calls", "callback"}
    BY <1>4 DEF LoopEnter, LoopStop, LoopNoEvents, LoopPoll, ExpireDone, ProcessDone,
         Wake, WaitTimesOut, ReportsDone, LoopPollFails, TurnEnds, Leave
  <2> QED BY <1>1, <1>2, <1>3, <2>1, StillPreserves
<1>5. ASSUME NEW e \in Event \ Signals, NEW res \in Interest[e], Report(e, res, 1)
      PROVE  BufInv'
  <2>1. at' # "lib"
    BY <1>1, <1>5 DEF Report, loopVars
  <2> QED BY <1>1, <1>2, <1>3, <1>5, <2>1, ReportPreserves
<1>6. ASSUME NEW e \in Event, Expire(e) PROVE BufInv'
  <2>1. at' # "lib"
    BY <1>1, <1>6 DEF Expire, loopVars
  <2> QED BY <1>1, <1>2, <1>3, <1>6, <2>1, ExpirePreserves
<1>7. CASE ProcessNext
  BY <1>1, <1>2, <1>3, <1>7, TakePreserves DEF ProcessNext
<1>8. CASE Call
  BY <1>1, <1>2, <1>3, <1>8, CallPreserves DEF Call
<1>9. CASE CallsDone \/ CallbackReturns
  <2>1. at' # "lib"
    BY <1>1, <1>9 DEF CallsDone, CallbackReturns, TurnEnds, Leave
  <2> QED BY <1>1, <1>2, <1>3, <1>9, <2>1, RestPreserves
<1>10. Signals = {}
  BY TheEvents
<1>11. Dispatch => \/ Wake \/ WaitTimesOut \/ ReportsDone \/ LoopPollFails
                   \/ \E e \in Event \ Signals : \E res \in Interest[e] : Report(e, res, 1)
  BY <1>10 DEF Dispatch
<1> QED BY <1>1, <1>4, <1>5, <1>6, <1>7, <1>8, <1>9, <1>11 DEF Loop

-----------------------------------------------------------------------------
(* The theorems about every behaviour.                                     *)

LEMMA BufInitEstablishes == BufInit => BufInv
<1> SUFFICES ASSUME BufInit PROVE BufInv
  OBVIOUS
<1>1. IInv
  BY InitEstablishes DEF BufInit
<1>2. /\ base.flags = [e \in Event |-> {}] /\ pc = "idle" /\ at = "loop"
      /\ half = {} /\ lost = {}
      /\ bev = [enabled |-> {"WRITE"}, input |-> 0, output |-> 0,
                low |-> 0, high |-> 0, lowOut |-> 0, pressure |-> FALSE,
                secs |-> [d \in Dir |-> 0], freed |-> FALSE]
  BY DEF BufInit, Init
<1>3. BevTypes
  BY <1>2, TheEvents DEF BevTypes
<1>4. OneReason(base) /\ OneCall
  BY <1>2, TheEvents DEF OneReason, OneCall
<1>5. ASSUME NEW d \in Dir PROVE DirOK(d)
  BY <1>2, TheEvents DEF DirOK, Called
<1> QED BY <1>1, <1>3, <1>4, <1>5 DEF BufInv

LEMMA BufNextPreserves == BufInv /\ [BufNext]_allVars => BufInv'
<1> SUFFICES ASSUME BufInv, [BufNext]_allVars PROVE BufInv'
  OBVIOUS
<1>1. ASSUME base' = base, pc' = pc, cur' = cur, UNCHANGED bevVars, IInv' PROVE BufInv'
  <2>1. OneReason(base)' /\ OneCall' /\ BevTypes'
    BY <1>1 DEF BufInv, OneReason, OneCall, BevTypes, bevVars
  <2>2. \A d \in Dir : DirOK(d)'
    BY <1>1 DEF BufInv, DirOK, Called, Heard, Waits, BelowMark, bevVars
  <2> QED BY <1>1, <2>1, <2>2, Parts
<1>2. CASE Tick /\ UNCHANGED bevVars
  <2>1. IInv'
    BY <1>2, NextPreserves DEF BufInv, Next
  <2> QED BY <1>1, <1>2, <2>1 DEF Tick, loopVars
<1>3. CASE UNCHANGED allVars
  <2>1. IInv'
    BY <1>3, NextPreserves DEF BufInv, allVars
  <2> QED BY <1>1, <1>3, <2>1 DEF allVars, vars
<1> QED BY <1>2, <1>3, LibraryPreserves, ApplicationPreserves, LoopStepPreserves DEF BufNext

\* The bufferevent in every reachable state: its events are queued only while
\* their direction is granted, each for one reason and one call, and an enabled
\* direction with work to do is on its way.
THEOREM BufferEventInvariant == BufSpec => []BufInv
<1>1. BufInit => BufInv
  BY BufInitEstablishes
<1>2. BufInv /\ [BufNext]_allVars => BufInv'
  BY BufNextPreserves
<1> QED BY <1>1, <1>2, PTL DEF BufSpec

\* The loop under a bufferevent keeps its types, and so does the bufferevent.
THEOREM BufferEventTypes == BufSpec => [](TypeOK /\ BevTypes)
<1>1. BufInv => TypeOK /\ BevTypes
  BY DEF BufInv, IInv
<1> QED BY <1>1, BufferEventInvariant, PTL

\* The queues of the base stay consistent under every call on a bufferevent.
THEOREM BufferEventQueues == BufSpec => []QueueConsistency
<1>1. BufInv => QueueConsistency
  BY DEF BufInv, IInv
<1> QED BY <1>1, BufferEventInvariant, PTL

\* What a step does to the loop under a bufferevent: the library and the
\* application leave it where it stands, outside the loop or in a callback, and
\* every other step is one of EventBase.
LEMMA LoopUnder ==
  ASSUME BufInv, [BufNext]_allVars
  PROVE  \/ [Next]_vars
         \/ pc \in {"idle", "callback"} /\ UNCHANGED loopOnly
<1>1. at = "user" => pc = "callback"
  BY DEF BufInv, BevTypes
<1>2. CASE Library
  BY <1>2 DEF Library, Timeout, TimedOut, Reported, LibRuns, ReportError, ReadSuspends,
              ReadFails, ReadBlocks, ReadGets, WriteFails, WriteBlocks, WriteSends
<1>3. CASE Application
  <2>1. \/ LoopBreak
        \/ MayCall /\ UNCHANGED loopOnly
    BY <1>3 DEF Application, Enable, EnableFails, Disable, DisableFails, SetTimeout,
                SetWatermark, Write, Read, SetFd, Free, PrioritySet
  <2>2. LoopBreak => Next
    BY DEF Next, App
  <2> QED BY <1>1, <2>1, <2>2 DEF MayCall
<1>4. CASE LoopStep \/ Tick \/ UNCHANGED allVars
  BY <1>4 DEF LoopStep, Next, allVars
<1> QED BY <1>2, <1>3, <1>4 DEF BufNext

\* event.cpp under evbuffer.cpp: whatever is called on the bufferevent, the loop
\* honours a request to stop at once and sleeps only when nothing is active.
THEOREM LoopUnderBufferEvent == BufSpec => [](StopIsPrompt /\ SleepsOnlyWhenQuiet)
<1>1. BufInit => StopIsPrompt /\ SleepsOnlyWhenQuiet
  BY DEF BufInit, Init, StopIsPrompt, SleepsOnlyWhenQuiet
<1>2. BufInv /\ StopIsPrompt /\ SleepsOnlyWhenQuiet /\ [BufNext]_allVars
        => StopIsPrompt' /\ SleepsOnlyWhenQuiet'
  <2> SUFFICES ASSUME BufInv, StopIsPrompt, SleepsOnlyWhenQuiet, [BufNext]_allVars
               PROVE  StopIsPrompt' /\ SleepsOnlyWhenQuiet'
    OBVIOUS
  <2>1. CASE [Next]_vars
    BY <2>1, StopStep, SleepStep DEF BufInv
  <2>2. CASE pc \in {"idle", "callback"} /\ UNCHANGED loopOnly
    <3>1. /\ pc' = pc /\ mode' = mode /\ gotterm' = gotterm /\ break' = break
          /\ pc # "wait"
      BY <2>2 DEF loopOnly
    <3>2. SleepsOnlyWhenQuiet'
      BY <3>1 DEF SleepsOnlyWhenQuiet
    <3>3. StopIsPrompt'
      BY <3>1 DEF StopIsPrompt
    <3> QED BY <3>2, <3>3
  <2> QED BY <2>1, <2>2, LoopUnder
<1> QED BY <1>1, <1>2, BufferEventInvariant, PTL DEF BufSpec

\* No event of a bufferevent that was freed is on a queue of the base, no call of
\* its callbacks is owed, and the library's half of none runs.
FreedIsLeftAlone ==
  bev.freed => \A d \in Dir : base.flags[EventOf[d]] = {} /\ ~Called(d)

\* evbuffer.cpp:221: bufferevent_free, called from the callbacks of the bufferevent or
\* outside the loop, frees memory that nothing of the loop refers to any more.
THEOREM FreedBufferEventIsLeft == BufSpec => []FreedIsLeftAlone
<1>1. BufInv => FreedIsLeftAlone
  BY DEF BufInv, DirOK, FreedIsLeftAlone
<1> QED BY <1>1, BufferEventInvariant, PTL

\* Reading that is enabled goes on: the peer is listened to unless the input has
\* to be drained first, which resumes it.
THEOREM ReadingGoes == BufSpec => []ReadingGoesOn
<1>1. BufInv => ReadingGoesOn
  <2>1. "READ" \in Dir /\ EventOf["READ"] = EvRead
    BY TheEvents
  <2> QED BY <2>1 DEF BufInv, DirOK, Called, Waits, ReadingGoesOn, OnItsWay
<1> QED BY <1>1, BufferEventInvariant, PTL

\* Output that is left is waited for while writing is enabled.
THEOREM OutputGoes == BufSpec => []OutputGoesOut
<1>1. BufInv => OutputGoesOut
  <2>1. "WRITE" \in Dir /\ EventOf["WRITE"] = EvWrite
    BY TheEvents
  <2> QED BY <2>1 DEF BufInv, DirOK, Called, OutputGoesOut, OnItsWay
<1> QED BY <1>1, BufferEventInvariant, PTL

-----------------------------------------------------------------------------
(* Timeouts.                                                               *)

\* With ExpiryIsCurrent: the call that is owed for a timeout is owed for one
\* that has passed.
DueInv ==
  /\ TimeInv
  /\ \A d \in Dir : Called(d) /\ "TIMEOUT" \in base.res[EventOf[d]]
                     => base.deadline[EventOf[d]] <= clock

\* bufferevent_readcb and bufferevent_writecb report a timeout only when the
\* deadline that was armed last has passed.
TimeoutsAreDue == \A d \in Dir : TimedOut(d) => base.deadline[EventOf[d]] <= clock

LEMMA DuePreserved == BufInv /\ DueInv /\ [BufNext]_allVars => DueInv'
<1> SUFFICES ASSUME BufInv, DueInv, [BufNext]_allVars PROVE DueInv'
  OBVIOUS
<1>1. IInv /\ TimeInv /\ \A d \in Dir : EventOf[d] \in User
  BY TheEvents DEF BufInv, DueInv
<1>3. ASSUME Expiries(base, base'), UNCHANGED loopOnly, \A d \in Dir : ~Called(d)'
      PROVE  DueInv'
  <2>1. ExpiryIsCurrent'
    BY <1>1, <1>3 DEF Expiries, ExpiryIsCurrent, TimeInv, loopOnly
  <2> QED BY <1>1, <1>3, <2>1 DEF DueInv, TimeInv, loopOnly
<1>4. CASE Library
  <2>1. Expiries(base, base')
    BY <1>4, LibraryPreserves
  <2>2. UNCHANGED loopOnly /\ at' # "lib" /\ pc # "calls"
    BY <1>4 DEF Library, Timeout, TimedOut, ReadFails, WriteFails, ReportError, ReadSuspends,
         ReadBlocks, ReadGets, WriteBlocks, WriteSends, Reported, LibRuns
  <2> QED BY <1>3, <2>1, <2>2 DEF Called, loopOnly
<1>5. CASE Application
  <2>1. Expiries(base, base')
    BY <1>5, ApplicationPreserves
  <2>2. CASE LoopBreak /\ UNCHANGED bevVars
    <3>1. TimeInv' /\ base' = base /\ pc' = pc /\ cur' = cur /\ at' = at /\ clock' = clock
      BY <1>1, <2>2, TimersPreserved DEF Next, App, LoopBreak, loopVars, bevVars
    <3> QED BY <3>1 DEF DueInv, Called
  <2>3. CASE ~(LoopBreak /\ UNCHANGED bevVars)
    <3>1. MayCall /\ UNCHANGED loopOnly /\ at' = at
      BY <1>5, <2>3 DEF Application, Enable, EnableFails, Disable, DisableFails, SetTimeout,
           SetWatermark, Write, Read, SetFd, PrioritySet, Free, bevVars
    <3> QED BY <1>3, <2>1, <3>1, ApplicationRuns
  <2> QED BY <2>2, <2>3
<1>6. CASE LoopStep \/ (Tick /\ UNCHANGED bevVars) \/ UNCHANGED allVars
  <2>1. [Next]_vars
    BY <1>6 DEF LoopStep, Next, allVars
  <2>2. TimeInv' /\ IInv'
    BY <1>1, <2>1, TimersPreserved, NextPreserves
  <2>3. SUFFICES ASSUME NEW d \in Dir, Called(d)', "TIMEOUT" \in base'.res[EventOf[d]]
                 PROVE  base'.deadline[EventOf[d]] <= clock'
    BY <2>2 DEF DueInv
  <2>4. CASE ProcessNext
    <3>1. /\ cur' \in Event /\ "ACTIVE" \in base.flags[cur']
          /\ base'.res = base.res /\ base'.deadline = base.deadline
      BY <1>1, <2>4, TakesEvent
    <3>2. cur' = EventOf[d] /\ clock' = clock
      BY <2>3, <2>4 DEF Called, ProcessNext
    <3> QED BY <1>1, <2>3, <3>1, <3>2 DEF TimeInv, ExpiryIsCurrent
  <2>5. CASE Called(d) /\ base'.res = base.res /\ base'.deadline = base.deadline
             /\ clock' \in {clock, clock + 1}
    <3>1. base.deadline[EventOf[d]] <= clock
      BY <2>3, <2>5 DEF DueInv
    <3>2. base.deadline[EventOf[d]] \in Nat /\ clock \in Nat
      BY <1>1, TheEvents DEF IInv, TypeOK, Base
    <3> QED BY <2>5, <3>1, <3>2
  <2>6. CASE Call /\ LoopStep
    <3>1. Called(d) /\ clock' = clock
      BY <2>3, <2>6 DEF Called, Call
    <3>2. base'.res = base.res /\ base'.deadline = base.deadline
      BY <1>1, <2>6 DEF Call, IInv, TypeOK, Base
    <3> QED BY <2>5, <3>1, <3>2
  <2>7. CASE (Tick /\ UNCHANGED bevVars) \/ UNCHANGED allVars
    BY <2>3, <2>5, <2>7 DEF Tick, Called, loopVars, bevVars, allVars, vars
  <2>8. CASE LoopStep /\ ~Call /\ ~ProcessNext
    <3>1. at' = IF pc' = "callback" THEN "lib" ELSE "loop"
      BY <2>8 DEF LoopStep
    <3>2. CASE CallbackReturns
      <4>1. \/ base.frame = 0 /\ base' = base /\ pc' # "callback"
            \/ pc' \in {"idle", "loop"}
        BY <3>2 DEF CallbackReturns, TurnEnds, Leave, BufInv, OneCall
      <4> QED BY <2>3, <3>1, <4>1 DEF Called
    <3>3. CASE ~CallbackReturns
      <4>1. pc' \notin {"calls", "callback"}
        BY <2>8, <3>3 DEF LoopStep, Loop, LoopEnter, LoopStop, LoopNoEvents, LoopPoll,
             Dispatch, Wake, WaitTimesOut, Report, ReportsDone, LoopPollFails, Expire,
             ExpireDone, CallsDone, ProcessDone, TurnEnds, Leave, loopVars
      <4> QED BY <2>3, <3>1, <4>1 DEF Called
    <3> QED BY <3>2, <3>3
  <2> QED BY <1>6, <2>4, <2>6, <2>7, <2>8
<1> QED BY <1>4, <1>5, <1>6 DEF BufNext

\* evbuffer.cpp: a timeout that bufferevent_add or bufferevent_settimeout armed is
\* reported when it has passed and not before, and one that was armed again in
\* the meantime is not reported for its old deadline.
THEOREM TimeoutsComeLate == BufSpec => [](TimeoutsAreDue /\ ExpiryIsCurrent)
<1>1. BufInit => DueInv
  <2>1. BufInit => BufInv /\ base.flags = [e \in Event |-> {}] /\ clock = 1
                    /\ tv_cache = 0 /\ at = "loop" /\ pc = "idle"
    BY BufInitEstablishes DEF BufInit, Init
  <2> QED BY <2>1, TheEvents DEF DueInv, TimeInv, ExpiryIsCurrent, Called
<1>2. BufInv /\ DueInv /\ [BufNext]_allVars => DueInv'
  BY DuePreserved
<1>3. BufInv /\ DueInv => TimeoutsAreDue /\ ExpiryIsCurrent
  BY DEF DueInv, TimeInv, TimeoutsAreDue, TimedOut, LibRuns, Called
<1> QED BY <1>1, <1>2, <1>3, BufferEventInvariant, PTL DEF BufSpec

-----------------------------------------------------------------------------
(* The refinement of Duplex, step by step.                                 *)

Still ==
  /\ bev'.input = bev.input /\ bev'.output = bev.output /\ bev'.high = bev.high
  /\ bev'.enabled \cup half' = bev.enabled \cup half
  /\ bev'.freed = bev.freed

LEMMA StillStutters == Still => UNCHANGED Channel!vars
BY DEF Still, Channel!vars

LEMMA UnchangedIsStill == UNCHANGED <<bev, half>> => Still
BY DEF Still

\* The grants and the high watermark are the application's to change.
LEMMA Configures ==
  ASSUME BufInv, BevTypes', ~bev.freed, ~bev'.freed,
         bev'.input = bev.input, bev'.output = bev.output
  PROVE  Channel!Next
<1>1. (bev.enabled \cup half)' \subseteq {"READ", "WRITE"} /\ bev'.high \in Nat
  BY TheEvents DEF BevTypes
<1>2. Channel!Configure
  BY <1>1 DEF Channel!Configure
<1> QED BY <1>2 DEF Channel!Next

\* A library callback moves bytes in its own direction only, which is granted,
\* and fills the input no further than the high watermark.
LEMMA LibraryRefines ==
  ASSUME BufInv, Library
  PROVE  Channel!Next \/ Still
<1>1. /\ bev \in [enabled : SUBSET Dir, input : Nat, output : Nat, low : Nat, high : Nat,
                  lowOut : Nat, pressure : BOOLEAN, secs : [Dir -> Nat], freed : BOOLEAN]
      /\ "READ" \in Dir /\ "WRITE" \in Dir
  BY BevType
<1>2. ASSUME NEW d \in Dir, Reported(d)
      PROVE  d \in bev.enabled \cup half /\ ~bev.freed
  BY <1>2 DEF Reported, LibRuns, BufInv, DirOK, Called
<1>3. CASE (\E d \in Dir : Timeout(d)) \/ ReadFails \/ WriteFails \/ ReadBlocks \/ WriteBlocks
  BY <1>3, UnchangedIsStill
     DEF Timeout, ReadFails, WriteFails, ReportError, ReadBlocks, WriteBlocks
<1>4. CASE ReadSuspends
  BY <1>1, <1>4 DEF ReadSuspends, Still
<1>5. CASE ReadGets
  <2>1. PICK len \in bev.input + 1 .. ReadLimit :
          bev' = IF ~BelowMark([bev EXCEPT !.input = len]) /\ ~(bev.low # 0 /\ len < bev.low)
                 THEN [[bev EXCEPT !.input = len] EXCEPT !.pressure = TRUE]
                 ELSE Moved([bev EXCEPT !.input = len])
    BY <1>5 DEF ReadGets
  <2>2. len \in Nat /\ len > bev.input /\ len <= ReadLimit
    BY <1>1, BufferEventAssumption DEF ReadLimit
  <2>3. /\ bev'.input = len /\ bev'.output = bev.output /\ bev'.high = bev.high
        /\ bev'.enabled = bev.enabled /\ bev'.freed = bev.freed
    BY <1>1, <2>1 DEF Moved, Pressure
  <2>4. bev.high # 0 => len <= bev.high
    BY <2>2 DEF ReadLimit
  <2>5. half' = half /\ "READ" \in bev.enabled \cup half /\ ~bev.freed
    BY <1>1, <1>2, <1>5 DEF ReadGets
  <2>6. Channel!Receive
    BY <2>2, <2>3, <2>4, <2>5 DEF Channel!Receive
  <2> QED BY <2>3, <2>5, <2>6 DEF Channel!Next
<1>6. CASE WriteSends
  <2>1. PICK left \in IF bev.output = 0 THEN {0} ELSE 0 .. bev.output - 1 :
          bev' = [bev EXCEPT !.output = left]
    BY <1>6 DEF WriteSends
  <2>2. /\ bev'.output = left /\ bev'.input = bev.input /\ bev'.high = bev.high
        /\ bev'.enabled = bev.enabled /\ bev'.freed = bev.freed
    BY <1>1, <2>1
  <2>3. half' = half /\ "WRITE" \in bev.enabled \cup half /\ ~bev.freed
    BY <1>1, <1>2, <1>6 DEF WriteSends
  <2>4. CASE bev.output = 0
    BY <2>1, <2>2, <2>3, <2>4 DEF Still
  <2>5. CASE bev.output # 0
    <3>1. Channel!Send
      BY <2>1, <2>2, <2>3, <2>5 DEF Channel!Send
    <3> QED BY <2>2, <2>3, <3>1 DEF Channel!Next
  <2> QED BY <2>4, <2>5
<1> QED BY <1>3, <1>4, <1>5, <1>6 DEF Library

LEMMA ApplicationRefines ==
  ASSUME BufInv, BufInv', Application
  PROVE  Channel!Next \/ Still
<1>1. /\ bev \in [enabled : SUBSET Dir, input : Nat, output : Nat, low : Nat, high : Nat,
                  lowOut : Nat, pressure : BOOLEAN, secs : [Dir -> Nat], freed : BOOLEAN]
      /\ BevTypes'
  BY BevType DEF BufInv
<1>2. ASSUME NEW D, Enable(D) \/ Disable(D) PROVE Channel!Next \/ Still
  <2>1. /\ bev'.input = bev.input /\ bev'.output = bev.output
        /\ bev'.freed = bev.freed /\ ~bev.freed
    BY <1>1, <1>2 DEF Enable, Disable, MayCall
  <2> QED BY <1>1, <2>1, Configures
<1>3. ASSUME NEW D, DisableFails(D) PROVE Channel!Next \/ Still
  BY <1>3, UnchangedIsStill DEF DisableFails
<1>4. CASE EnableFails
  <2>1. bev' = bev /\ ~bev.freed
    BY <1>4 DEF EnableFails, MayCall
  <2> QED BY <1>1, <2>1, Configures
<1>5. ASSUME NEW s \in Secs, SetTimeout(s) PROVE Channel!Next \/ Still
  BY <1>1, <1>5 DEF SetTimeout, Still
<1>6. ASSUME NEW v \in Marked, SetWatermark(v) PROVE Channel!Next \/ Still
  <2>1. /\ v.input = bev.input /\ v.output = bev.output /\ v.freed = bev.freed
    BY <1>1, <1>6 DEF Marked
  <2>2. /\ bev'.input = v.input /\ bev'.output = v.output /\ bev'.freed = v.freed
    <3>1. DOMAIN v = DOMAIN bev /\ v = [x \in DOMAIN v |-> v[x]]
      BY <1>1 DEF Marked
    <3>2. bev' = [v EXCEPT !.pressure = @ /\ ~BelowMark(v)]
      BY <1>6 DEF SetWatermark, Pressure
    <3> QED BY <1>1, <3>1, <3>2
  <2>3. ~bev.freed
    BY <1>6 DEF SetWatermark, MayCall
  <2> QED BY <1>1, <2>1, <2>2, <2>3, Configures
<1>7. CASE Write
  <2>1. PICK len \in bev.output + 1 .. MaxOutput : bev' = [bev EXCEPT !.output = len]
    BY <1>7 DEF Write
  <2>2. /\ bev'.output > bev.output /\ bev'.input = bev.input /\ bev'.high = bev.high
        /\ bev'.enabled = bev.enabled /\ bev'.freed = bev.freed
    BY <1>1, <2>1, BufferEventAssumption
  <2>3. half' = half /\ ~bev.freed
    BY <1>7 DEF Write, MayCall
  <2>4. Channel!Produce
    BY <2>2, <2>3 DEF Channel!Produce
  <2> QED BY <2>2, <2>3, <2>4 DEF Channel!Next
<1>8. CASE Read
  <2>1. PICK len \in 0 .. bev.input - 1 : bev' = Moved([bev EXCEPT !.input = len])
    BY <1>8 DEF Read
  <2>2. /\ bev'.input = len /\ bev'.output = bev.output /\ bev'.high = bev.high
        /\ bev'.enabled = bev.enabled /\ bev'.freed = bev.freed
    BY <1>1, <2>1 DEF Moved, Pressure
  <2>3. half' = half /\ ~bev.freed
    BY <1>8 DEF Read, MayCall
  <2>4. Channel!Consume
    BY <2>1, <2>2, <2>3 DEF Channel!Consume
  <2> QED BY <2>2, <2>3, <2>4 DEF Channel!Next
<1>9. CASE SetFd \/ (\E p \in Pri : PrioritySet(p))
  BY <1>9, UnchangedIsStill DEF SetFd, PrioritySet, bevVars
<1>10. CASE Free
  <2>1. /\ bev'.freed = TRUE /\ bev'.input = bev.input /\ bev'.output = bev.output
        /\ bev'.high = bev.high /\ bev'.enabled = bev.enabled /\ half' = half /\ ~bev.freed
    BY <1>1, <1>10 DEF Free, MayCall
  <2>2. Channel!Free
    BY <2>1 DEF Channel!Free
  <2> QED BY <2>1, <2>2 DEF Channel!Next
<1>11. CASE UNCHANGED bevVars
  BY <1>11, UnchangedIsStill DEF bevVars
<1> QED BY <1>2, <1>3, <1>4, <1>5, <1>6, <1>7, <1>8, <1>9, <1>10, <1>11 DEF Application

\* A bufferevent implements the duplex channel: the grants are the directions
\* that are enabled, or that a failing bufferevent_enable has armed.
THEOREM BufferEventIsDuplex == BufSpec => ImplementsDuplex
<1>1. BufInit => Channel!Init
  BY DEF BufInit, Channel!Init
<1>2. BufInv /\ BufInv' /\ [BufNext]_allVars => [Channel!Next]_(Channel!vars)
  <2> SUFFICES ASSUME BufInv, BufInv', [BufNext]_allVars PROVE Channel!Next \/ Still
    BY StillStutters
  <2>1. CASE LoopStep
    BY <2>1, UnchangedIsStill DEF LoopStep
  <2>2. CASE (Tick /\ UNCHANGED bevVars) \/ UNCHANGED allVars
    BY <2>2, UnchangedIsStill DEF bevVars, allVars
  <2> QED BY <2>1, <2>2, LibraryRefines, ApplicationRefines DEF BufNext
<1>3. BufSpec => Channel!Spec
  BY <1>1, <1>2, BufferEventInvariant, PTL DEF BufSpec, Channel!Spec
<1> QED BY <1>3 DEF ImplementsDuplex
=============================================================================
