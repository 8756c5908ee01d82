------------------------------ MODULE EventBase ------------------------------
(***************************************************************************)
(* The event loop of include/event.cpp: one struct event_base, the struct  *)
(* events of an application, the calls the application makes on them and   *)
(* event_base_loop, run by one thread.                                     *)
(*                                                                         *)
(* The backend (epoll.cpp, signal.cpp) is seen through its function table  *)
(* eventop: add succeeds or fails, dispatch blocks and then activates some *)
(* of the events that were added.  Callbacks are the application: between  *)
(* "the loop calls the callback" and "the callback returns" any call of    *)
(* the API on any event may happen, which is where the code is delicate.   *)
(***************************************************************************)
EXTENDS Integers, Sequences, FiniteSets

CONSTANTS
  Event,       \* every struct event that lives in the base
  SigPipe,     \* base->sig->ev_signal, the one EVLIST_INTERNAL event
  Once,        \* events allocated by event_base_once for event_loopexit
  Interest,    \* ev_events without EV_PERSIST, a function on Event
  Persist,     \* events with EV_PERSIST
  Manual,      \* events the application itself passes to event_active,
  ByHand,      \* the res it gives, never EV_TIMEOUT
  NoEvent,     \* the null struct event*
  NPri,        \* nactivequeues
  Timeouts,    \* the timevals given to event_add, in clock ticks
  MaxCalls,    \* largest ncalls given to event_active (bounds the model)
  MaxClock     \* the clock stops here (bounds the model)

Pri    == 0 .. NPri - 1
Queue  == {"TIMEOUT", "INSERTED", "ACTIVE"}
Result == {"TIMEOUT", "READ", "WRITE", "SIGNAL"}
Mode   == {"ONCE", "NONBLOCK"}

NoTimeout == -1     \* a NULL struct timeval*
Forever   == -1     \* epoll_wait without a timeout

ASSUME EventAssumption ==
  /\ IsFiniteSet(Event)
  /\ SigPipe \in Event /\ SigPipe \in Persist /\ SigPipe \notin Once
  /\ Once \subseteq Event /\ Persist \subseteq Event /\ Manual \subseteq Event
  /\ Once \cap Persist = {} /\ Manual \cap (Once \cup {SigPipe}) = {}
  /\ NoEvent \notin Event

ASSUME InterestAssumption ==
  /\ Interest \in [Event -> SUBSET {"READ", "WRITE", "SIGNAL"}]
  /\ Interest[SigPipe] = {"READ"}
  /\ \A e \in Once : Interest[e] = {}
  /\ \A e \in Event : "SIGNAL" \in Interest[e] => Interest[e] = {"SIGNAL"}

ASSUME BoundAssumption ==
  /\ NPri \in Nat \ {0}
  /\ ByHand \subseteq Result \ {"TIMEOUT"}
  /\ Timeouts \subseteq Nat
  /\ MaxCalls \in Nat \ {0}
  /\ MaxClock \in Nat \ {0}

User    == Event \ (Once \cup {SigPipe})
Signals == {e \in Event : "SIGNAL" \in Interest[e]}

VARIABLES
  base,      \* the queues, the counters and the fields of the events
  pc,        \* where the thread is in event_base_loop; "idle" is outside
  mode,      \* the flags of the last event_base_loop call
  cur,       \* ev, the event event_process_active is calling
  activeq,   \* the priority whose queue event_process_active drains
  gotterm,   \* event_gotterm
  break,     \* event_break
  clock,     \* CLOCK_MONOTONIC
  tv_cache,  \* 0 when it is unset
  wakeAt,    \* when epoll_wait gives up
  revoked,   \* history: events deleted and not added or activated since
  cut        \* history: events some of whose calls were given up

vars == <<base, pc, mode, cur, activeq, gotterm, break, clock, tv_cache,
          wakeAt, revoked, cut>>

-----------------------------------------------------------------------------
(* The queues.  base.flags is ev_flags: membership of eventqueue and of    *)
(* timeheap is the flag itself.  base.active holds the active queues.      *)

\* TAILQ removal of an event that is in the queue.
Unlink(q, e) ==
  LET k == CHOOSE i \in 1 .. Len(q) : q[i] = e
  IN  [i \in 1 .. Len(q) - 1 |-> IF i < k THEN q[i] ELSE q[i + 1]]

QueueInsert(b, e, q) ==
  IF q = "ACTIVE" /\ q \in b.flags[e]
  THEN b
  ELSE [b EXCEPT
         !.flags[e] = @ \cup {q},
         !.count = IF e = SigPipe THEN @ ELSE @ + 1,
         !.countActive = IF q = "ACTIVE" THEN @ + 1 ELSE @,
         !.active[b.pri[e]] = IF q = "ACTIVE" THEN Append(@, e) ELSE @]

QueueRemove(b, e, q) ==
  [b EXCEPT
     !.flags[e] = @ \ {q},
     !.count = IF e = SigPipe THEN @ ELSE @ - 1,
     !.countActive = IF q = "ACTIVE" THEN @ - 1 ELSE @,
     !.active[b.pri[e]] = IF q = "ACTIVE" THEN Unlink(@, e) ELSE @]

Drop(b, e, q) == IF q \in b.flags[e] THEN QueueRemove(b, e, q) ELSE b

\* *ev->ev_pncalls = 0: stops the loop of event_process_active that is
\* calling ev.  The target is the one local ncalls of that function.
CancelCalls(b, e) ==
  IF b.ncalls[e] # 0 /\ b.pncalls[e] THEN [b EXCEPT !.frame = 0] ELSE b

-----------------------------------------------------------------------------
(* The calls of the API as functions on base.                              *)

\* Fault: the calls that event_process_active still owes are not cancelled.
DelKeepsCalls(b, e) ==
  Drop(Drop(Drop(b, e, "TIMEOUT"), e, "ACTIVE"), e, "INSERTED")

Del(b, e) ==
  Drop(Drop(Drop(CancelCalls(b, e), e, "TIMEOUT"), e, "ACTIVE"),
       e, "INSERTED")

Active(b, e, res, n) ==
  IF "ACTIVE" \in b.flags[e]
  THEN [b EXCEPT !.res[e] = @ \cup res]
  ELSE QueueInsert([b EXCEPT !.res[e] = res,
                             !.ncalls[e] = n,
                             !.pncalls[e] = FALSE], e, "ACTIVE")

NeedsBackend(b, e) ==
  Interest[e] # {} /\ b.flags[e] \cap {"INSERTED", "ACTIVE"} = {}

\* evsel->add succeeded.  The first signal event also adds ev_signal.
Register(b, e) ==
  QueueInsert(IF e \in Signals /\ "INSERTED" \notin b.flags[SigPipe]
              THEN QueueInsert(b, SigPipe, "INSERTED")
              ELSE b, e, "INSERTED")

\* Fault: an event that is active for its timeout stays active.
ArmKeepsActive(b, e, deadline) ==
  QueueInsert([Drop(b, e, "TIMEOUT") EXCEPT !.deadline[e] = deadline],
              e, "TIMEOUT")

Arm(b, e, deadline) ==
  LET idle == Drop(b, e, "TIMEOUT")
      calm == IF "ACTIVE" \in b.flags[e] /\ "TIMEOUT" \in b.res[e]
              THEN QueueRemove(CancelCalls(idle, e), e, "ACTIVE")
              ELSE idle
  IN  QueueInsert([calm EXCEPT !.deadline[e] = deadline], e, "TIMEOUT")

Add(b, e, tv, now) ==
  LET added == IF NeedsBackend(b, e) THEN Register(b, e) ELSE b
  IN  IF tv = NoTimeout THEN added ELSE Arm(added, e, now + tv)

\* Fault: the timeout is armed although the backend refused the event.
TryAddLate(b, e, tv, now, ok) ==
  IF ~NeedsBackend(b, e) \/ ok THEN Add(b, e, tv, now)
  ELSE IF tv = NoTimeout THEN b ELSE Arm(b, e, now + tv)

\* event_add when evsel->add, if it is called, returns ok.
TryAdd(b, e, tv, now, ok) ==
  IF NeedsBackend(b, e) /\ ~ok THEN b ELSE Add(b, e, tv, now)

-----------------------------------------------------------------------------
(* event_base_new, event_base_priority_init and event_set on every event.  *)
Init ==
  /\ base = [flags |-> [e \in Event |-> {}],
             count |-> 0,
             countActive |-> 0,
             active |-> [p \in Pri |-> <<>>],
             pri |-> [e \in Event |-> IF e = SigPipe THEN 0 ELSE NPri \div 2],
             res |-> [e \in Event |-> {}],
             ncalls |-> [e \in Event |-> 0],
             pncalls |-> [e \in Event |-> FALSE],
             deadline |-> [e \in Event |-> 0],
             frame |-> 0]
  /\ pc = "idle"
  /\ mode = {}
  /\ cur = NoEvent
  /\ activeq = 0
  /\ gotterm = FALSE
  /\ break = FALSE
  /\ clock = 1
  /\ tv_cache = 0
  /\ wakeAt = 0
  /\ revoked = {}
  /\ cut = {}

GetTime == IF tv_cache # 0 THEN tv_cache ELSE clock

\* The application runs outside the loop and in the callbacks of its events.
AppRuns == pc = "idle" \/ (pc = "callback" /\ cur \in User)

loopVars == <<pc, mode, cur, activeq, wakeAt>>

\* The event being called loses the calls it is still owed when the local
\* ncalls is zeroed, or ends with its frame.
GivesUp == cut' = IF base.frame # 0 /\ base'.frame = 0 THEN cut \cup {cur} ELSE cut

-----------------------------------------------------------------------------
(* The application.                                                        *)

EventAdd(e, tv) ==
  /\ AppRuns
  /\ base' = TryAdd(base, e, tv, GetTime, TRUE)
  /\ revoked' = revoked \ {e}
  /\ GivesUp
  /\ UNCHANGED <<loopVars, gotterm, break, clock, tv_cache>>

EventAddFails(e, tv) ==
  /\ AppRuns
  /\ NeedsBackend(base, e)
  /\ base' = TryAdd(base, e, tv, GetTime, FALSE)
  /\ UNCHANGED <<loopVars, gotterm, break, clock, tv_cache, revoked, cut>>

EventDel(e) ==
  /\ AppRuns
  /\ base' = Del(base, e)
  /\ revoked' = revoked \cup {e}
  /\ GivesUp
  /\ UNCHANGED <<loopVars, gotterm, break, clock, tv_cache>>

EventActive(e, res, n) ==
  /\ AppRuns
  /\ base' = Active(base, e, {res}, n)
  /\ revoked' = revoked \ {e}
  /\ UNCHANGED <<loopVars, gotterm, break, clock, tv_cache, cut>>

\* Fault: an active event changes its queue number.
EventPrioritySetAlways(e, p) ==
  /\ AppRuns
  /\ base' = [base EXCEPT !.pri[e] = p]
  /\ UNCHANGED <<loopVars, gotterm, break, clock, tv_cache, revoked, cut>>

EventPrioritySet(e, p) ==
  /\ AppRuns
  /\ "ACTIVE" \notin base.flags[e]
  /\ base' = [base EXCEPT !.pri[e] = p]
  /\ UNCHANGED <<loopVars, gotterm, break, clock, tv_cache, revoked, cut>>

\* event_base_loopexit: event_base_once callocs and sets an event and adds it
\* as a timer.  An event of Once that is on no queue stands for free memory.
FreshOnce(b, e) ==
  [b EXCEPT !.res[e] = {}, !.ncalls[e] = 0, !.pncalls[e] = FALSE,
            !.pri[e] = NPri \div 2]

LoopExit(e, tv) ==
  /\ AppRuns
  /\ base.flags[e] = {}
  /\ base' = Add(FreshOnce(base, e), e, tv, GetTime)
  /\ GivesUp
  /\ UNCHANGED <<loopVars, gotterm, break, clock, tv_cache, revoked>>

\* Called outside the loop, it stops the next one before its first turn.
LoopBreak ==
  /\ AppRuns
  /\ break' = TRUE
  /\ UNCHANGED <<base, loopVars, gotterm, clock, tv_cache, revoked, cut>>

App ==
  \/ \E e \in User :
       \/ \E tv \in Timeouts : EventAdd(e, tv) \/ EventAddFails(e, tv)
       \/ Interest[e] # {} /\ EventAdd(e, NoTimeout)
       \/ EventDel(e)
       \/ \E p \in Pri : EventPrioritySet(e, p)
  \/ \E e \in Manual, res \in ByHand, n \in 1 .. MaxCalls :
       EventActive(e, res, n)
  \/ \E e \in Once, tv \in Timeouts : LoopExit(e, tv)
  \/ LoopBreak

-----------------------------------------------------------------------------
(* event_base_loop.                                                        *)

Leave(p) ==
  /\ pc' = p
  /\ cur' = NoEvent
  /\ activeq' = 0

LoopEnter(flags) ==
  /\ pc = "idle"
  /\ pc' = "loop"
  /\ mode' = flags
  /\ tv_cache' = 0
  /\ UNCHANGED <<base, cur, activeq, gotterm, break, clock, wakeAt, revoked, cut>>

\* event_gotterm is tested first and is the only flag this exit clears.
LoopStop ==
  /\ pc = "loop"
  /\ gotterm \/ break
  /\ gotterm' = FALSE
  /\ break' = (gotterm /\ break)
  /\ pc' = "idle"
  /\ tv_cache' = 0
  /\ UNCHANGED <<base, mode, cur, activeq, clock, wakeAt, revoked, cut>>

\* Returns 1.  tv_cache keeps the time of the last dispatch.
LoopNoEvents ==
  /\ pc = "loop" /\ ~gotterm /\ ~break
  /\ ~(base.count > 0)
  /\ pc' = "idle"
  /\ UNCHANGED <<base, mode, cur, activeq, gotterm, break, clock, tv_cache,
                 wakeAt, revoked, cut>>

Armed    == {e \in Event : "TIMEOUT" \in base.flags[e]}
HeapTop(e) == e \in Armed /\ \A f \in Armed : base.deadline[e] <= base.deadline[f]

\* Fault: events left active by event_loopbreak do not keep the loop awake.
PollTimeoutIgnoresActive ==
  IF "NONBLOCK" \in mode THEN 0
  ELSE IF Armed = {} THEN Forever
  ELSE LET top == CHOOSE e \in Armed : HeapTop(e)
       IN  IF base.deadline[top] <= GetTime THEN 0
           ELSE base.deadline[top] - GetTime

\* Fault: the timer heap is not consulted.
PollTimeoutIgnoresTimers ==
  IF base.countActive # 0 \/ "NONBLOCK" \in mode THEN 0 ELSE Forever

\* How long timeout_next lets epoll_wait block, measured from GetTime.
PollTimeout ==
  IF base.countActive # 0 \/ "NONBLOCK" \in mode THEN 0
  ELSE IF Armed = {} THEN Forever
  ELSE LET top == CHOOSE e \in Armed : HeapTop(e)
       IN  IF base.deadline[top] <= GetTime THEN 0
           ELSE base.deadline[top] - GetTime

LoopPoll ==
  /\ pc = "loop" /\ ~gotterm /\ ~break
  /\ base.count > 0
  /\ wakeAt' = IF PollTimeout = Forever THEN Forever ELSE clock + PollTimeout
  /\ tv_cache' = 0
  /\ pc' = "wait"
  /\ UNCHANGED <<base, mode, cur, activeq, gotterm, break, clock, revoked, cut>>

\* dispatch returned -1.
LoopPollFails ==
  /\ pc = "wait"
  /\ pc' = "idle"
  /\ wakeAt' = 0
  /\ UNCHANGED <<base, mode, cur, activeq, gotterm, break, clock, tv_cache, revoked, cut>>

-----------------------------------------------------------------------------
(* evsel->dispatch: epoll_wait returns with reports, on EINTR or because   *)
(* its timeout has passed; then the backend activates what was reported.   *)

Wake ==
  /\ pc = "wait"
  /\ pc' = "report"
  /\ wakeAt' = 0
  /\ UNCHANGED <<base, mode, cur, activeq, gotterm, break, clock, tv_cache, revoked, cut>>

\* At the end of modelled time every wait with a timeout comes to its end.
WaitTimesOut ==
  /\ wakeAt # Forever /\ (wakeAt <= clock \/ clock >= MaxClock)
  /\ Wake

Report(e, res, n) ==
  /\ pc = "report"
  /\ "INSERTED" \in base.flags[e]
  /\ base' = Active(IF e \in Signals \ Persist THEN Del(base, e) ELSE base,
                    e, {res}, n)
  /\ UNCHANGED <<loopVars, gotterm, break, clock, tv_cache, revoked, cut>>

ReportsDone ==
  /\ pc = "report"
  /\ pc' = "expire"
  /\ tv_cache' = clock
  /\ UNCHANGED <<base, mode, cur, activeq, gotterm, break, clock, wakeAt, revoked, cut>>

-----------------------------------------------------------------------------
(* timeout_process, one event per step.                                    *)

Expired(e) == HeapTop(e) /\ base.deadline[e] <= GetTime

Expire(e) ==
  /\ pc = "expire"
  /\ Expired(e)
  /\ base' = Active(Del(base, e), e, {"TIMEOUT"}, 1)
  /\ UNCHANGED <<loopVars, gotterm, break, clock, tv_cache, revoked, cut>>

\* The end of one turn of the loop: done is set, or the loop goes on.
TurnEnds(done) ==
  /\ Leave(IF done THEN "idle" ELSE "loop")
  /\ tv_cache' = IF done THEN 0 ELSE tv_cache

LowestQueue(p) ==
  /\ base.active[p] # <<>>
  /\ \A r \in Pri : r < p => base.active[r] = <<>>

ExpireDone ==
  /\ pc = "expire"
  /\ \A e \in Event : ~Expired(e)
  /\ IF base.countActive # 0
     THEN /\ \E p \in Pri : LowestQueue(p) /\ activeq' = p
          /\ pc' = "process"
          /\ UNCHANGED <<cur, tv_cache>>
     ELSE TurnEnds("NONBLOCK" \in mode)
  /\ UNCHANGED <<base, mode, gotterm, break, clock, wakeAt, revoked, cut>>

-----------------------------------------------------------------------------
(* event_process_active.                                                   *)

ProcessNext ==
  /\ pc = "process"
  /\ base.active[activeq] # <<>>
  /\ LET e == Head(base.active[activeq])
         b == IF e \in Persist THEN QueueRemove(base, e, "ACTIVE")
              ELSE Del(base, e)
     IN  /\ base' = [b EXCEPT !.frame = b.ncalls[e], !.pncalls[e] = TRUE]
         /\ cur' = e
         /\ cut' = cut \ {e}
  /\ pc' = "calls"
  /\ UNCHANGED <<mode, activeq, gotterm, break, clock, tv_cache, wakeAt, revoked>>

\* Fault: ev_ncalls is not counted down with the local ncalls.
CallKeepsNcalls ==
  /\ pc = "calls"
  /\ base.frame # 0
  /\ base' = [base EXCEPT !.frame = @ - 1]
  /\ pc' = "callback"
  /\ UNCHANGED <<mode, cur, activeq, gotterm, break, clock, tv_cache, wakeAt, revoked, cut>>

Call ==
  /\ pc = "calls"
  /\ base.frame # 0
  /\ base' = [base EXCEPT !.frame = @ - 1, !.ncalls[cur] = base.frame - 1]
  /\ pc' = "callback"
  /\ UNCHANGED <<mode, cur, activeq, gotterm, break, clock, tv_cache, wakeAt, revoked, cut>>

CallsDone ==
  /\ pc = "calls"
  /\ base.frame = 0
  /\ pc' = "process"
  /\ cur' = NoEvent
  /\ UNCHANGED <<base, mode, activeq, gotterm, break, clock, tv_cache, wakeAt, revoked, cut>>

\* Fault: event_break is noticed only at the top of the loop.
CallbackReturnsLate ==
  /\ pc = "callback"
  /\ gotterm' = (gotterm \/ cur \in Once)
  /\ pc' = "calls"
  /\ UNCHANGED <<base, cur, activeq, tv_cache, mode, break, clock, wakeAt, revoked, cut>>

\* The callback returns; that of an event of Once is event_loopexit_cb.  The
\* local ncalls ends with the frame of event_process_active on a break.
CallbackReturns ==
  /\ pc = "callback"
  /\ gotterm' = (gotterm \/ cur \in Once)
  /\ IF break
     THEN /\ TurnEnds(base.countActive = 0 /\ "ONCE" \in mode)
          /\ base' = [base EXCEPT !.frame = 0]
     ELSE /\ pc' = "calls"
          /\ UNCHANGED <<base, cur, activeq, tv_cache>>
  /\ GivesUp
  /\ UNCHANGED <<mode, break, clock, wakeAt, revoked>>

ProcessDone ==
  /\ pc = "process"
  /\ base.active[activeq] = <<>>
  /\ TurnEnds(base.countActive = 0 /\ "ONCE" \in mode)
  /\ UNCHANGED <<base, mode, gotterm, break, clock, wakeAt, revoked, cut>>

Tick ==
  /\ clock < MaxClock
  /\ clock' = clock + 1
  /\ UNCHANGED <<base, loopVars, gotterm, break, tv_cache, revoked, cut>>

-----------------------------------------------------------------------------
Dispatch ==
  \/ Wake
  \/ WaitTimesOut
  \/ \E e \in Event \ Signals : \E res \in Interest[e] : Report(e, res, 1)
  \/ \E e \in Signals : \E n \in 1 .. MaxCalls : Report(e, "SIGNAL", n)
  \/ ReportsDone
  \/ LoopPollFails

Loop ==
  \/ \E flags \in SUBSET Mode : LoopEnter(flags)
  \/ LoopStop \/ LoopNoEvents \/ LoopPoll
  \/ Dispatch
  \/ \E e \in Event : Expire(e)
  \/ ExpireDone
  \/ ProcessNext \/ Call \/ CallsDone \/ CallbackReturns \/ ProcessDone

Next == App \/ Loop \/ Tick

Spec == Init /\ [][Next]_vars

Fairness ==
  /\ WF_vars(LoopEnter({}))
  /\ WF_vars(LoopStop \/ LoopPoll)
  /\ SF_vars(WaitTimesOut)
  /\ WF_vars(ReportsDone)
  /\ WF_vars(ExpireDone \/ \E e \in Event : Expire(e))
  /\ WF_vars(ProcessNext \/ Call \/ CallsDone \/ CallbackReturns \/ ProcessDone)
  /\ WF_vars(Tick)

FairSpec == Spec /\ Fairness

-----------------------------------------------------------------------------
Base == [flags : [Event -> SUBSET Queue],
         count : Int,
         countActive : Int,
         active : [Pri -> Seq(Event)],
         pri : [Event -> Pri],
         res : [Event -> SUBSET Result],
         ncalls : [Event -> Nat],
         pncalls : [Event -> BOOLEAN],
         deadline : [Event -> Nat],
         frame : Nat]

\* The state of the base, the thread and the flags of event_base_loop.
TypeOK ==
  /\ base \in Base
  /\ pc \in {"idle", "loop", "wait", "report", "expire", "process", "calls",
             "callback"}
  /\ mode \in SUBSET Mode
  /\ cur \in Event \cup {NoEvent}
  /\ activeq \in Pri
  /\ gotterm \in BOOLEAN /\ break \in BOOLEAN
  /\ clock \in Nat \ {0} /\ tv_cache \in Nat
  /\ wakeAt \in Nat \cup {Forever}
  /\ revoked \in SUBSET Event /\ cut \in SUBSET (Event \cup {NoEvent})

Pending(b) == {m \in (Event \ {SigPipe}) \X Queue : m[2] \in b.flags[m[1]]}
ActiveEvents(b) == {e \in Event : "ACTIVE" \in b.flags[e]}

QueuedOnce(b) ==
  /\ \A p \in Pri : \A i \in 1 .. Len(b.active[p]) :
       /\ "ACTIVE" \in b.flags[b.active[p][i]]
       /\ b.pri[b.active[p][i]] = p
       /\ \A j \in 1 .. Len(b.active[p]) : b.active[p][j] = b.active[p][i] => j = i
  /\ \A e \in ActiveEvents(b) :
       \E i \in 1 .. Len(b.active[b.pri[e]]) : b.active[b.pri[e]][i] = e

CountsAgree(b) ==
  /\ b.count = Cardinality(Pending(b))
  /\ b.countActive = Cardinality(ActiveEvents(b))

\* The counters and the active queues agree with ev_flags: event_count counts
\* the memberships of the non-internal events, event_count_active the active
\* events, and an active event is in the queue of its priority exactly once.
QueueConsistency == QueuedOnce(base) /\ CountsAgree(base)

\* An event that is active because its timeout passed, and perhaps for data or
\* by hand as well, has really expired and is not armed again: event_add takes
\* it off the active queue.
ExpiryIsCurrent ==
  \A e \in User :
    "ACTIVE" \in base.flags[e] /\ "TIMEOUT" \in base.res[e]
      => "TIMEOUT" \notin base.flags[e] /\ base.deadline[e] <= clock

\* The loop blocks only when no event is active, and blocks without a timeout
\* only when no timeout is armed.
SleepsOnlyWhenQuiet ==
  pc = "wait" =>
    /\ wakeAt > clock \/ wakeAt = Forever => ActiveEvents(base) = {}
    /\ wakeAt = Forever => Armed = {}

\* ev_pncalls of an event that owes calls points at the local ncalls of the
\* event_process_active that is calling it, so that its event_del cancels calls
\* of its own only.  The exception are events whose calls were given up while
\* some were left, by event_loopbreak or by an event_del in the callback: their
\* ev_ncalls and ev_pncalls stay set, and a later event_del writes through them.
NoStrayCancel ==
  \A e \in Event :
    base.pncalls[e] /\ base.ncalls[e] # 0 =>
      e \in cut \/ (pc \in {"calls", "callback"} /\ cur = e)

\* A request to stop takes effect before the loop blocks or collects reports
\* again, event_loopbreak even before another event is called; and only a loop
\* run with EVLOOP_ONCE returns with the request of event_loopexit unused.
StopIsPrompt ==
  /\ gotterm \/ break => pc \notin {"wait", "report", "expire"}
  /\ break => pc \notin {"process", "calls"}
  /\ gotterm /\ pc = "idle" => "ONCE" \in mode

\* After event_del no callback runs until the event is added or activated,
\* unless the event, in its own callback, was passed to event_active first:
\* that clears ev_pncalls, and event_del no longer finds the calls it owes.
NoCallAfterDel ==
  [][pc = "calls" /\ pc' = "callback" /\ base.pncalls[cur] => cur \notin revoked]_vars

\* Armed for a timeout, but not known to the backend.
Deaf(b, e) == "TIMEOUT" \in b.flags[e] /\ "INSERTED" \notin b.flags[e]

\* No call leaves an event for I/O or a signal with its timeout armed and the
\* backend not listening, least of all an event_add whose evsel->add failed;
\* only event_add on an event that is active does not ask the backend.
ArmedIsHeard ==
  [][\A e \in Event : Interest[e] # {} /\ Deaf(base', e) =>
       Deaf(base, e) \/ "ACTIVE" \in base.flags[e]]_vars

\* An event of a lower queue number is active.
Outranked(e) == \E p \in Pri : p < base.pri[e] /\ base.active[p] # <<>>

\* Unless callbacks break the loop for ever, an active event is taken off its
\* queue, to be called or by the application, or it starves: time and again
\* events of a lower queue number are active, and event_process_active drains
\* only the first queue that is not empty.
ActiveIsServed ==
  <>[]~break =>
    \A e \in Event \ {SigPipe} :
      \/ []<>Outranked(e)
      \/ ("ACTIVE" \in base.flags[e]) ~> ("ACTIVE" \notin base.flags[e])

\* An armed event whose time has come does not stay so: the loop reaches
\* timeout_process however often it is stopped and started, unless the
\* application for ever breaks it before it runs.
TimerFires ==
  <>[][pc = "idle" => break' = break]_vars =>
    \A e \in Event :
      ("TIMEOUT" \in base.flags[e] /\ base.deadline[e] <= clock)
        ~> ~("TIMEOUT" \in base.flags[e] /\ base.deadline[e] <= clock)
=============================================================================
