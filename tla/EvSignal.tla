------------------------------- MODULE EvSignal -------------------------------
(***************************************************************************)
(* include/signal.cpp: signals as events.  The handler counts a signal,    *)
(* raises a flag and sends a byte through a socket pair whose other end is *)
(* an internal event of the base; epoll_dispatch then runs evsignal_process*)
(* on the counters.  The handler interrupts the loop between any two       *)
(* statements, or runs beside it on another thread.  The makefile does not *)
(* optimise: ++ and -= on a counter are a load and a store.                *)
(***************************************************************************)
EXTENDS Integers, FiniteSets

CONSTANTS
  Event,      \* the events with EV_SIGNAL
  NSig,       \* the signals are 1 .. NSig, in the order they are scanned
  SigOf,      \* ev_fd
  Persist,    \* the events with EV_PERSIST
  Thread,     \* the threads that do not block the signals
  Loop,       \* the thread that runs the event loop
  PipeCap,    \* the bytes the socket pair holds
  MaxCount,   \* no signal is raised more often unprocessed (bounds the model)
  Overlap,    \* handlers of different signals may run on different threads at
              \* once (FALSE bounds the model)
  Polls       \* the loop may ask epoll_wait while something is active, which is
              \* then given no time (FALSE bounds the model)

Sig == 1 .. NSig

ASSUME SignalAssumption ==
  /\ NSig \in Nat \ {0}
  /\ SigOf \in [Event -> Sig]
  /\ Persist \subseteq Event
  /\ PipeCap \in Nat /\ PipeCap >= 2
  /\ MaxCount \in Nat \ {0}
  /\ Overlap \in BOOLEAN /\ Polls \in BOOLEAN

VARIABLES
  count,      \* evsigcaught
  caught,     \* evsignal_caught
  pipe,       \* the bytes in the socket pair
  disp,       \* the disposition of each signal
  sh_old,     \* the disposition saved for each signal
  added,      \* ev_signal_added
  listed,     \* the events on the lists evsigevents
  active,     \* the signal events that are active
  pipeActive, \* ev_signal is active
  pc,         \* where the loop's thread is
  i,          \* the signal evsignal_process looks at
  ncalls,     \* its count as first read
  tmp,        \* its count as -= has loaded it
  ready,      \* epoll_wait has reported the socket pair
  eintr,      \* a handler has interrupted epoll_wait
  hpc,        \* where the handler is on each thread
  hsig,       \* the signal it handles
  hval,       \* the count that ++ has loaded
  owed,       \* history: events whose signal came and that were not called since
  left        \* history: signals whose handler was left installed without events

counters    == <<count, caught, pipe>>
eventVars   == <<disp, sh_old, added, listed, left>>
activeVars  == <<active, pipeActive, owed>>
loopVars    == <<pc, i, ncalls, tmp, ready, eintr>>
handlerVars == <<hpc, hsig, hval>>

vars == <<counters, eventVars, activeVars, loopVars, handlerVars>>

App      == "app"        \* the disposition the program had
Handler  == "evsignal"   \* evsignal_handler
Unsaved  == "unsaved"

ListOf(s) == {e \in listed : SigOf[e] = s}

Init ==
  /\ count = [s \in Sig |-> 0]
  /\ caught = FALSE
  /\ pipe = 0
  /\ disp = [s \in Sig |-> App]
  /\ sh_old = [s \in Sig |-> Unsaved]
  /\ added = FALSE
  /\ listed = {} /\ active = {} /\ pipeActive = FALSE
  /\ pc = "app"
  /\ i = 1 /\ ncalls = 0 /\ tmp = 0
  /\ ready = FALSE /\ eintr = FALSE
  /\ hpc = [t \in Thread |-> "off"]
  /\ hsig = [t \in Thread |-> 1]
  /\ hval = [t \in Thread |-> 0]
  /\ owed = {}
  /\ left = {}

\* A local variable that is no longer read is 0 (or 1), so that states do not
\* differ by it.  A handler on the loop's own thread suspends the loop.
LoopRuns == Loop \in Thread => hpc[Loop] = "off"

-----------------------------------------------------------------------------
(* evsignal_handler.                                                       *)

\* The signal reaches a thread that handles none.  Handlers of one signal do not
\* overlap, nor is one nested in another on a thread (this bounds the model, as
\* Overlap does).
Raise(t, s) ==
  /\ hpc[t] = "off"
  /\ \A u \in Thread : hpc[u] # "off" => Overlap /\ hsig[u] # s
  /\ disp[s] = Handler /\ count[s] < MaxCount
  /\ hpc' = [hpc EXCEPT ![t] = "load"]
  /\ hsig' = [hsig EXCEPT ![t] = s]
  /\ owed' = owed \cup ListOf(s)
  /\ eintr' = (eintr \/ (t = Loop /\ pc = "wait"))
  /\ UNCHANGED <<counters, eventVars, active, pipeActive, pc, i, ncalls, tmp, ready, hval>>

HandlerGoes(t, from, to) ==
  /\ hpc[t] = from /\ hpc' = [hpc EXCEPT ![t] = to]
  /\ UNCHANGED <<sh_old, added, listed, activeVars, loopVars>>

CountLoad(t) ==
  /\ HandlerGoes(t, "load", "store")
  /\ hval' = [hval EXCEPT ![t] = count[hsig[t]]]
  /\ UNCHANGED <<counters, disp, left, hsig>>

\* Fault: a signal is not counted while another one is unprocessed.
CountedOnce(t) == IF caught THEN count ELSE [count EXCEPT ![hsig[t]] = hval[t] + 1]

Counted(t) == [count EXCEPT ![hsig[t]] = hval[t] + 1]

CountStore(t) ==
  /\ HandlerGoes(t, "store", "flag")
  /\ count' = Counted(t)
  /\ hval' = [hval EXCEPT ![t] = 0]
  /\ UNCHANGED <<caught, pipe, disp, left, hsig>>

RaiseFlag(t) ==
  /\ HandlerGoes(t, "flag", "install")
  /\ caught' = TRUE
  /\ UNCHANGED <<count, pipe, disp, left, hval, hsig>>

\* signal() installs the handler again, also when the loop's thread has deleted
\* the last event of the signal meanwhile.
Reinstall(t) ==
  /\ HandlerGoes(t, "install", "send")
  /\ disp' = [disp EXCEPT ![hsig[t]] = Handler]
  /\ left' = IF ListOf(hsig[t]) = {} THEN left \cup {hsig[t]} ELSE left
  /\ UNCHANGED <<counters, hval, hsig>>

\* The socket does not block: the byte is lost when it is full.
Sent == IF pipe < PipeCap THEN pipe + 1 ELSE pipe

Send(t) ==
  /\ HandlerGoes(t, "send", "off")
  /\ pipe' = Sent
  /\ hsig' = [hsig EXCEPT ![t] = 1]
  /\ UNCHANGED <<count, caught, disp, left, hval>>

-----------------------------------------------------------------------------
(* event_add and event_del of signal events, by the application.           *)

AppRuns == pc = "app" /\ LoopRuns

\* _evsignal_set_handler for the first event of the signal.
Installs(s) ==
  IF ListOf(s) = {}
  THEN disp' = [disp EXCEPT ![s] = Handler] /\ sh_old' = [sh_old EXCEPT ![s] = disp[s]]
  ELSE UNCHANGED <<disp, sh_old>>

EventAdd(e) ==
  /\ AppRuns
  /\ e \notin listed \cup active
  /\ Installs(SigOf[e])
  /\ added' = TRUE
  /\ listed' = listed \cup {e}
  /\ UNCHANGED <<counters, left, activeVars, loopVars, handlerVars>>

\* event_add(ev_signal) fails: the handler stays installed and no event is on
\* the list.
EventAddFailsHalf(e) ==
  /\ AppRuns
  /\ e \notin listed \cup active
  /\ ListOf(SigOf[e]) = {} /\ ~added
  /\ Installs(SigOf[e])
  /\ left' = left \cup {SigOf[e]}
  /\ UNCHANGED <<counters, added, listed, activeVars, loopVars, handlerVars>>

\* realloc, malloc or sigaction fails.
EventAddFails(e) ==
  /\ AppRuns
  /\ e \notin listed \cup active
  /\ ListOf(SigOf[e]) = {}
  /\ UNCHANGED vars

\* Fault: the handler is restored although other events are on the list.
EndingAny(gone) == {s \in Sig : ListOf(s) \cap gone # {}}

\* The signals whose last events are among gone.
Ending(gone) == {s \in Sig : ListOf(s) # {} /\ ListOf(s) \subseteq gone}

\* evsignal_del of some events: the last of its signal restores the handler.
Unlist(gone) ==
  /\ listed' = listed \ gone
  /\ disp' = [s \in Sig |-> IF s \in Ending(gone) THEN sh_old[s] ELSE disp[s]]
  /\ sh_old' = [s \in Sig |-> IF s \in Ending(gone) THEN Unsaved ELSE sh_old[s]]

EventDel(e) ==
  /\ AppRuns
  /\ e \in listed \cup active
  /\ Unlist({e} \cap listed)
  /\ active' = active \ {e}
  /\ owed' = owed \ {e}
  /\ UNCHANGED <<counters, added, left, pipeActive, loopVars, handlerVars>>

-----------------------------------------------------------------------------
(* The loop: callbacks, epoll_wait, evsignal_process.                      *)

Call(e) ==
  /\ AppRuns
  /\ e \in active
  /\ active' = active \ {e}
  /\ owed' = owed \ {e}
  /\ UNCHANGED <<counters, eventVars, pipeActive, loopVars, handlerVars>>

\* evsignal_cb reads one byte.
CallPipe ==
  /\ AppRuns
  /\ pipeActive /\ pipeActive' = FALSE
  /\ pipe' = pipe - 1
  /\ UNCHANGED <<count, caught, eventVars, active, owed, loopVars, handlerVars>>

LoopGoes(from, to) ==
  /\ pc = from /\ LoopRuns /\ pc' = to
  /\ UNCHANGED handlerVars

\* Something is still active after a callback that broke the loop, or in the
\* queue of another priority.
Wait ==
  /\ LoopGoes("app", "wait")
  /\ Polls \/ (active = {} /\ ~pipeActive)
  /\ UNCHANGED <<counters, eventVars, activeVars, i, ncalls, tmp, ready, eintr>>

\* epoll_wait returns -1 with EINTR.
WakeInterrupted ==
  /\ LoopGoes("wait", "process")
  /\ eintr /\ eintr' = FALSE
  /\ UNCHANGED <<counters, eventVars, activeVars, i, ncalls, tmp, ready>>

\* Fault: the last report of the array is read although epoll_wait has none.
ReadableStale == added

\* Fault: one byte alone does not wake the loop.
ReadableOnce == added /\ pipe > 1

\* Whether epoll_wait reports the socket pair.
Readable == added /\ pipe > 0

\* Fault: only an interrupted epoll_wait leads to evsignal_process.
AfterWaitReports == "report"

AfterWait == IF caught THEN "process" ELSE "report"

\* It returns for the socket pair, another descriptor or its timeout.
Wake ==
  /\ LoopGoes("wait", AfterWait)
  /\ ready' = Readable
  /\ eintr' = FALSE
  /\ UNCHANGED <<counters, eventVars, activeVars, i, ncalls, tmp>>

ProcessBegins ==
  /\ LoopGoes("process", "scan")
  /\ caught' = FALSE
  /\ i' = 1
  /\ UNCHANGED <<count, pipe, eventVars, activeVars, ncalls, tmp, ready, eintr>>

IsLast == i = NSig

\* Where the scan goes after signal i.
Onward == i' = IF IsLast THEN 1 ELSE i + 1
AfterSignal == IF IsLast THEN "report" ELSE "scan"

ScanEmpty ==
  /\ LoopGoes("scan", AfterSignal)
  /\ count[i] = 0
  /\ Onward
  /\ UNCHANGED <<counters, eventVars, activeVars, ncalls, tmp, ready, eintr>>

Scan ==
  /\ LoopGoes("scan", "load")
  /\ count[i] # 0
  /\ ncalls' = count[i]
  /\ UNCHANGED <<counters, eventVars, activeVars, i, tmp, ready, eintr>>

SubtractLoad ==
  /\ LoopGoes("load", "store")
  /\ tmp' = count[i]
  /\ UNCHANGED <<counters, eventVars, activeVars, i, ncalls, ready, eintr>>

SubtractStore ==
  /\ LoopGoes("store", "activate")
  /\ count' = [count EXCEPT ![i] = tmp - ncalls]
  /\ tmp' = 0 /\ ncalls' = 0
  /\ UNCHANGED <<caught, pipe, eventVars, activeVars, i, ready, eintr>>

\* Every event of the list becomes active; the others than EV_PERSIST leave it.
Activate ==
  /\ LoopGoes("activate", AfterSignal)
  /\ active' = active \cup ListOf(i)
  /\ Unlist(ListOf(i) \ Persist)
  /\ Onward
  /\ UNCHANGED <<counters, added, left, pipeActive, owed, ncalls, tmp, ready, eintr>>

\* epoll_dispatch goes through its reports, of which EINTR has none.
Report ==
  /\ LoopGoes("report", "app")
  /\ pipeActive' = (pipeActive \/ ready)
  /\ ready' = FALSE
  /\ UNCHANGED <<counters, eventVars, active, owed, i, ncalls, tmp, eintr>>

-----------------------------------------------------------------------------
HandlerStep(t) == CountLoad(t) \/ CountStore(t) \/ RaiseFlag(t) \/ Reinstall(t) \/ Send(t)

Process == ProcessBegins \/ ScanEmpty \/ Scan \/ SubtractLoad \/ SubtractStore
           \/ Activate \/ Report

Next ==
  \/ \E t \in Thread : (\E s \in Sig : Raise(t, s)) \/ HandlerStep(t)
  \/ \E e \in Event : EventAdd(e) \/ EventAddFailsHalf(e) \/ EventAddFails(e) \/ EventDel(e)
  \/ \E e \in Event : Call(e)
  \/ CallPipe \/ Wait
  \/ WakeInterrupted \/ Wake
  \/ Process

Spec == Init /\ [][Next]_vars

\* Threads are scheduled, the loop is run again after it has called back, and
\* the kernel ends an epoll_wait that was interrupted or has something to say.
\* (Without Polls the loop waits when it has called what is active.)
Fairness ==
  /\ \A t \in Thread : WF_vars(HandlerStep(t))
  /\ WF_vars((\E e \in Event : Call(e)) \/ CallPipe \/ Wait)
  /\ WF_vars(WakeInterrupted \/ (Readable /\ Wake))
  /\ WF_vars(Process)

FairSpec == Spec /\ Fairness

-----------------------------------------------------------------------------
\* The fields of evsignal_info, the threads and the history.
TypeOK ==
  /\ count \in [Sig -> Nat] /\ caught \in BOOLEAN
  /\ pipe \in 0 .. PipeCap
  /\ disp \in [Sig -> {App, Handler}]
  /\ sh_old \in [Sig -> {App, Handler, Unsaved}]
  /\ added \in BOOLEAN
  /\ listed \in SUBSET Event /\ active \in SUBSET Event /\ pipeActive \in BOOLEAN
  /\ pc \in {"app", "wait", "process", "scan", "load", "store", "activate", "report"}
  /\ i \in Sig /\ ncalls \in Nat /\ tmp \in Nat
  /\ ready \in BOOLEAN /\ eintr \in BOOLEAN
  /\ hpc \in [Thread -> {"off", "load", "store", "flag", "install", "send"}]
  /\ hsig \in [Thread -> Sig] /\ hval \in [Thread -> Nat]
  /\ owed \in SUBSET Event /\ left \in SUBSET Sig

Counting(t, s) == hpc[t] \in {"load", "store"} /\ hsig[t] = s
BeingActivated(s) == pc \in {"load", "store", "activate"} /\ i = s

\* No signal is lost on its way to an event: the event is active, or it is on
\* the list and the signal is in its counter, about to be counted, or about to
\* be turned into a call, although -= may undo a ++ of the handler.
OwedIsOnItsWay ==
  \A e \in owed :
    \/ e \in active
    \/ /\ e \in listed
       /\ \/ count[SigOf[e]] > 0
          \/ \E t \in Thread : Counting(t, SigOf[e])
          \/ BeingActivated(SigOf[e])

\* The loop does not sleep on a signal: when it is in epoll_wait and no handler
\* is half-way, a counted signal has its flag up, and a byte is in the socket
\* pair, of which epoll_wait is told while any event waits for a signal.
NoSleepOnSignal ==
  pc = "wait" /\ (\A t \in Thread : hpc[t] = "off") /\ (\E s \in Sig : count[s] > 0)
    => caught /\ pipe > 0 /\ (added \/ listed = {})

\* evsignal_cb finds a byte to read: recv on the blocking end never blocks the
\* loop.
PipeHasByte == pipeActive \/ ready => pipe > 0

\* evsignal_handler handles a signal while it has events, with what it replaced
\* kept; a signal without events has the disposition the program gave it,
\* unless an evsignal_add failed half-way or a handler came late.
DispositionsKept ==
  \A s \in Sig :
    IF ListOf(s) # {} THEN disp[s] = Handler /\ sh_old[s] # Unsaved
    ELSE s \in left \/ disp[s] = App

\* An event on the list is called after its signal has come, or is deleted.  (Of
\* a loop without Polls: the others are EventBase's matter, see ActiveIsServed.)
SignalIsAnswered == \A e \in Event : (e \in owed) ~> (e \notin owed)
================================================================================
