----------------------------- MODULE BufferEvent -----------------------------
(***************************************************************************)
(* include/evbuffer.cpp: one bufferevent on the event loop of EventBase.   *)
(*                                                                         *)
(* The application of EventBase is replaced by the library's two callbacks *)
(* and by the calls an application makes on the bufferevent, outside the   *)
(* loop or inside the callbacks the library hands on.  A library callback  *)
(* has two halves: its own code, one step since one thread runs it, and    *)
(* the application's callback it may end with (at = "user").               *)
(***************************************************************************)
EXTENDS EventBase

CONSTANTS
  EvRead, EvWrite,   \* bufev->ev_read and bufev->ev_write
  Marks,             \* the pairs <<low, high>> set for reading
  LowMarks,          \* the low watermarks set for writing
  Secs,              \* the pairs of timeouts of bufferevent_settimeout
  MaxInput,          \* the buffers hold no more (bounds the model)
  MaxOutput

Dir == {"READ", "WRITE"}
EventOf == [d \in Dir |-> IF d = "READ" THEN EvRead ELSE EvWrite]

ASSUME BufferEventAssumption ==
  /\ User = {EvRead, EvWrite} /\ EvRead # EvWrite
  /\ Interest[EvRead] = {"READ"} /\ Interest[EvWrite] = {"WRITE"}
  /\ Persist = {SigPipe} /\ Manual = {}
  /\ Marks \subseteq Nat \X Nat /\ LowMarks \subseteq Nat
  /\ Secs \subseteq [Dir -> Nat]
  /\ MaxInput \in Nat /\ MaxOutput \in Nat

VARIABLES
  bev,    \* the fields of struct bufferevent and the lengths of its buffers
  at,     \* "lib" or "user" inside a callback, "loop" otherwise
  half,   \* history: directions bufferevent_enable armed before it failed
  lost    \* history: events the library has let go without being told to

bevVars == <<bev, at, half, lost>>
allVars == <<vars, bevVars>>
\* No event here is called more than once in a row: no calls are given up.
loopOnly == <<pc, mode, cur, activeq, gotterm, break, clock, tv_cache, wakeAt,
              revoked, cut>>

BufInit ==
  /\ Init
  /\ bev = [enabled |-> {"WRITE"}, input |-> 0, output |-> 0,
            low |-> 0, high |-> 0, lowOut |-> 0, pressure |-> FALSE,
            secs |-> [d \in Dir |-> 0], freed |-> FALSE]
  /\ at = "loop"
  /\ half = {}
  /\ lost = {}

-----------------------------------------------------------------------------
(* bufferevent_add: a timeout of 0 seconds is none.  Most callers ignore    *)
(* that evsel->add failed, so both outcomes lead on.                       *)

Arming(b, d, s, ok) ==
  TryAdd(b, EventOf[d], IF s = 0 THEN NoTimeout ELSE s, GetTime, ok)

Armed1(b, d, s) == Arming(b, d, s, TRUE)

Arms(b, d, s) == {Arming(b, d, s, ok) : ok \in BOOLEAN}

Heard(b, d) == b.flags[EventOf[d]] \cap {"INSERTED", "ACTIVE"} # {}

\* lost after the directions in D were to be armed.
LostAfter(b, D) == (lost \ D) \cup {d \in D : ~Heard(b, d)}

BelowMark(v) == v.high = 0 \/ v.input < v.high

\* bufferevent_read_pressure_cb on the bufferevent and on the base.
Pressure(v) == [v EXCEPT !.pressure = @ /\ ~BelowMark(v)]
Resumes(v) == BelowMark(v) /\ "READ" \in v.enabled
PressureArms(v, b) == IF Resumes(v) THEN Arms(b, "READ", v.secs["READ"]) ELSE {b}

\* A change of the input's length calls input->cb, which is set or NULL.
Moved(v) == IF v.pressure THEN Pressure(v) ELSE v
MovedArms(v, b) == IF v.pressure THEN PressureArms(v, b) ELSE {b}

-----------------------------------------------------------------------------
(* bufferevent_readcb and bufferevent_writecb.                             *)

LibRuns(d) == pc = "callback" /\ cur = EventOf[d] /\ at = "lib"
TimedOut(d) == LibRuns(d) /\ base.res[EventOf[d]] = {"TIMEOUT"}
Reported(d) == LibRuns(d) /\ base.res[EventOf[d]] # {"TIMEOUT"}

\* errorcb: the event is not armed again.
ReportError(d) ==
  /\ at' = "user"
  /\ lost' = lost \cup {d}
  /\ UNCHANGED <<base, loopOnly, bev, half>>

Timeout(d) == TimedOut(d) /\ ReportError(d)

ReadSuspends ==
  /\ Reported("READ") /\ ~BelowMark(bev)
  /\ base' = Del(base, EvRead)
  /\ bev' = [bev EXCEPT !.pressure = TRUE]
  /\ at' = "loop"
  /\ UNCHANGED <<loopOnly, half, lost>>

\* The peer closed, read or realloc failed, or it would have blocked and the
\* errno of Error() is not that of read().
ReadFails == Reported("READ") /\ BelowMark(bev) /\ ReportError("READ")

ReadBlocks ==
  /\ Reported("READ") /\ BelowMark(bev)
  /\ base' \in Arms(base, "READ", bev.secs["READ"])
  /\ lost' = LostAfter(base', {"READ"})
  /\ at' = "loop"
  /\ UNCHANGED <<loopOnly, bev, half>>

\* howmuch of evbuffer_read.
ReadLimit == IF bev.high = 0 THEN MaxInput ELSE bev.high

ReadGets ==
  /\ Reported("READ") /\ BelowMark(bev)
  /\ \E len \in bev.input + 1 .. ReadLimit :
       LET grown == [bev EXCEPT !.input = len]
           quiet == bev.low # 0 /\ len < bev.low
           full  == ~BelowMark(grown) /\ ~quiet
       IN  /\ \E b \in MovedArms(grown, base) :
                \E c \in Arms(b, "READ", bev.secs["READ"]) :
                  /\ base' = IF full THEN Del(c, EvRead) ELSE c
                  /\ lost' = IF full THEN lost \ {"READ"}
                             ELSE LostAfter(c, {"READ"})
           /\ bev' = IF full THEN [grown EXCEPT !.pressure = TRUE] ELSE Moved(grown)
           /\ at' = IF quiet THEN "loop" ELSE "user"
  /\ UNCHANGED <<loopOnly, half>>

WriteFails == Reported("WRITE") /\ bev.output # 0 /\ ReportError("WRITE")

\* Fault: output that the socket did not take is not waited for.
WriteBlocksForgotten ==
  /\ Reported("WRITE") /\ bev.output # 0
  /\ at' = "loop"
  /\ UNCHANGED <<base, loopOnly, bev, half, lost>>

WriteBlocks ==
  /\ Reported("WRITE") /\ bev.output # 0
  /\ base' \in Arms(base, "WRITE", bev.secs["WRITE"])
  /\ lost' = LostAfter(base', {"WRITE"})
  /\ at' = "loop"
  /\ UNCHANGED <<loopOnly, bev, half>>

\* What is left after the write; nothing is written when there was nothing.
WriteSends ==
  /\ Reported("WRITE")
  /\ \E left \in IF bev.output = 0 THEN {0} ELSE 0 .. bev.output - 1 :
       /\ bev' = [bev EXCEPT !.output = left]
       /\ IF left # 0
          THEN /\ base' \in Arms(base, "WRITE", bev.secs["WRITE"])
               /\ lost' = LostAfter(base', {"WRITE"})
          ELSE UNCHANGED <<base, lost>>
       /\ at' = IF left <= bev.lowOut THEN "user" ELSE "loop"
  /\ UNCHANGED <<loopOnly, half>>

Library ==
  \/ \E d \in Dir : Timeout(d)
  \/ ReadSuspends \/ ReadFails \/ ReadBlocks \/ ReadGets
  \/ WriteFails \/ WriteBlocks \/ WriteSends

-----------------------------------------------------------------------------
(* The calls of the application.                                           *)

MayCall == ~bev.freed /\ (pc = "idle" \/ at = "user")

OnEvents(Op(_, _), b, D) ==
  LET r == IF "READ" \in D THEN Op(b, "READ") ELSE b
  IN  IF "WRITE" \in D THEN Op(r, "WRITE") ELSE r

DelDir(b, d) == Del(b, EventOf[d])
ArmDir(b, d) == Armed1(b, d, bev.secs[d])

Enable(D) ==
  /\ MayCall
  /\ base' = OnEvents(ArmDir, base, D)
  /\ bev' = [bev EXCEPT !.enabled = @ \cup D]
  /\ lost' = LostAfter(base', D)
  /\ UNCHANGED <<loopOnly, at, half>>

\* bufferevent_add failed for ev_write after ev_read was armed, or for the
\* first of the two.
EnableFails ==
  /\ MayCall
  /\ \/ NeedsBackend(base, EvWrite) /\ base' = ArmDir(base, "READ")
        /\ half' = half \cup {"READ"} /\ lost' = LostAfter(base', {"READ"})
     \/ \E d \in Dir : NeedsBackend(base, EventOf[d]) /\ UNCHANGED <<base, half, lost>>
  /\ UNCHANGED <<loopOnly, bev, at>>

\* Fault: the events stay armed.
DisableKeepsEvents(D) ==
  /\ MayCall
  /\ bev' = [bev EXCEPT !.enabled = @ \ D]
  /\ half' = half \ D
  /\ lost' = lost \ D
  /\ UNCHANGED <<base, loopOnly, at>>

Disable(D) ==
  /\ MayCall
  /\ base' = OnEvents(DelDir, base, D)
  /\ bev' = [bev EXCEPT !.enabled = @ \ D]
  /\ half' = half \ D
  /\ lost' = lost \ D
  /\ UNCHANGED <<loopOnly, at>>

\* event_del returned -1 for the last event of D (or D is where it stopped):
\* the event is off every queue all the same, and enabled keeps its value.
DisableFails(D) ==
  /\ MayCall
  /\ "INSERTED" \in base.flags[IF "WRITE" \in D THEN EvWrite ELSE EvRead]
  /\ base' = OnEvents(DelDir, base, D)
  /\ lost' = lost \cup D
  /\ UNCHANGED <<loopOnly, bev, at, half>>

\* event_pending(ev, d, NULL)
IsPending(b, d) ==
  LET e == EventOf[d]
  IN  "INSERTED" \in b.flags[e] \/ ("ACTIVE" \in b.flags[e] /\ d \in b.res[e])

SetTimeout(s) ==
  /\ MayCall
  /\ LET D == {d \in Dir : IsPending(base, d)}
         arm(b, d) == Armed1(b, d, s[d])
     IN  base' = OnEvents(arm, base, D)
  /\ bev' = [bev EXCEPT !.secs = s]
  /\ UNCHANGED <<loopOnly, at, half, lost>>

\* Fault: a mark that makes room does not resume reading.
SetWatermarkOnly(v) ==
  /\ MayCall
  /\ bev' = v
  /\ UNCHANGED <<base, loopOnly, at, half, lost>>

\* bufferevent_setwatermark: v has the new marks.
SetWatermark(v) ==
  /\ MayCall
  /\ bev' = Pressure(v)
  /\ base' \in PressureArms(v, base)
  /\ lost' = IF Resumes(v) THEN LostAfter(base', {"READ"}) ELSE lost
  /\ UNCHANGED <<loopOnly, at, half>>

\* bufferevent_write and bufferevent_write_buffer; a failing evbuffer_add
\* changes nothing.
Write ==
  /\ MayCall
  /\ \E len \in bev.output + 1 .. MaxOutput : bev' = [bev EXCEPT !.output = len]
  /\ IF "WRITE" \in bev.enabled
     THEN /\ base' \in Arms(base, "WRITE", bev.secs["WRITE"])
          /\ lost' = LostAfter(base', {"WRITE"})
     ELSE UNCHANGED <<base, lost>>
  /\ UNCHANGED <<loopOnly, at, half>>

\* bufferevent_read, or evbuffer_remove and evbuffer_drain on the input.
Read ==
  /\ MayCall
  /\ \E len \in 0 .. bev.input - 1 :
       LET v == [bev EXCEPT !.input = len]
       IN  /\ bev' = Moved(v)
           /\ base' \in MovedArms(v, base)
           /\ lost' = IF v.pressure /\ Resumes(v) THEN LostAfter(base', {"READ"})
                      ELSE lost
  /\ UNCHANGED <<loopOnly, at, half>>

\* event_set on an event that is on no queue.
Reset(b, d) ==
  [b EXCEPT !.res[EventOf[d]] = {}, !.ncalls[EventOf[d]] = 0,
            !.pncalls[EventOf[d]] = FALSE, !.pri[EventOf[d]] = NPri \div 2]

\* Neither event is armed again for the new descriptor.
SetFd ==
  /\ MayCall
  /\ base' = OnEvents(Reset, OnEvents(DelDir, base, Dir), Dir)
  /\ lost' = Dir
  /\ UNCHANGED <<loopOnly, bev, at, half>>

\* event_priority_set refuses an active event: of two, the second may be.
PrioritySet(p) ==
  /\ MayCall
  /\ "ACTIVE" \notin base.flags[EvRead]
  /\ base' = [base EXCEPT !.pri[EvRead] = p,
                          !.pri[EvWrite] = IF "ACTIVE" \in base.flags[EvWrite]
                                           THEN @ ELSE p]
  /\ UNCHANGED <<loopOnly, bevVars>>

Free ==
  /\ MayCall
  /\ base' = OnEvents(DelDir, base, Dir)
  /\ bev' = [bev EXCEPT !.freed = TRUE]
  /\ UNCHANGED <<loopOnly, at, half, lost>>

Marked ==
  {[bev EXCEPT !.low = m[1], !.high = m[2]] : m \in Marks}
    \cup {[bev EXCEPT !.lowOut = low] : low \in LowMarks}

Application ==
  \/ \E D \in SUBSET Dir \ {{}} : Enable(D) \/ Disable(D) \/ DisableFails(D)
  \/ EnableFails
  \/ \E s \in Secs : SetTimeout(s)
  \/ \E v \in Marked : SetWatermark(v)
  \/ Write \/ Read \/ SetFd \/ Free
  \/ \E p \in Pri : PrioritySet(p)
  \/ (pc = "idle" \/ at = "user") /\ LoopBreak /\ UNCHANGED bevVars

-----------------------------------------------------------------------------
\* A step of event_base_dispatch, which runs the loop without flags.
LoopStep ==
  /\ at # "lib"
  /\ Loop
  /\ mode' = {}
  /\ at' = IF pc' = "callback" THEN "lib" ELSE "loop"
  /\ UNCHANGED <<bev, half, lost>>

BufNext == Library \/ Application \/ LoopStep \/ (Tick /\ UNCHANGED bevVars)

BufSpec == BufInit /\ [][BufNext]_allVars

-----------------------------------------------------------------------------
\* d is on its way to a call of its callback, or inside it.
OnItsWay(d) ==
  \/ Heard(base, d)
  \/ cur = EventOf[d] /\ (pc = "calls" \/ at = "lib")

\* While reading is enabled the peer is listened to, unless reading waits for
\* the application to drain the input below the high mark, and then the
\* callback that resumes it is in place; the only other ways to stop are an
\* error that was reported, a backend that refused the event, bufferevent_setfd
\* and event_add on an event that is active for its timeout (lost).
ReadingGoesOn ==
  "READ" \in bev.enabled /\ ~bev.freed /\ "READ" \notin lost =>
     OnItsWay("READ") \/ (bev.pressure /\ ~BelowMark(bev))

\* While writing is enabled, output that is left is waited for, with the same
\* exceptions.
OutputGoesOut ==
  "WRITE" \in bev.enabled /\ ~bev.freed /\ bev.output # 0 /\ "WRITE" \notin lost
    => OnItsWay("WRITE")

\* The bufferevent is the duplex channel its application may rely on.
Channel == INSTANCE Duplex WITH
  input <- bev.input, output <- bev.output, granted <- bev.enabled \cup half,
  high <- bev.high, open <- ~bev.freed

ImplementsDuplex == Channel!Spec
=============================================================================
