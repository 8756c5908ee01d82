# A verification development of ilibevent

ilibevent is a small C++ port of libevent 1.4 for Linux (`src/include`) with an
echo server on top of it (`src/src/mainsvrd.cpp`). This directory holds TLA+
models of its parts, TLC configurations that check them on small instances, and
proofs of the most important properties for every value of the constants.

Paths below are relative to the repository; `event.cpp` alone means
`include/event.cpp`, and so on.

## 1. The system

| component | state | operations | used by |
|---|---|---|---|
| event loop and event API (`event.cpp`) | the eventqueue, the active queues, the timer heap, `event_count`, `event_count_active`, `event_gotterm`, `event_break`, `tv_cache`, and in every event `ev_flags`, `ev_res`, `ev_ncalls`, `ev_pncalls`, `ev_timeout`, `ev_pri` | `event_add`, `event_del`, `event_active`, `event_priority_set`, `event_base_loop`, `event_base_loopexit`, `event_base_loopbreak`, `timeout_next`, `timeout_process`, `event_process_active` | everything |
| timer heap (`minheap.cpp`) | an array, its size and capacity, `min_heap_idx` in each event | push, pop, erase, reserve, two shift loops | event loop |
| byte buffer (`buffer.cpp`) | a block, its length, `misalign`, `off`, a callback | add, remove, drain, expand, read, write, setcb | bufferevent |
| epoll backend (`epoll.cpp`) | the table of readers and writers by descriptor, the array of reports; outside it the kernel's epoll set | `epoll_add`, `epoll_del`, `epoll_recalc`, `epoll_dispatch` | event loop, through `struct eventop` |
| signal backend (`signal.cpp`) | a counter and a list of events for each signal, a flag, saved dispositions, a socket pair and its internal event | the asynchronous handler, `evsignal_add`, `evsignal_del`, `evsignal_process`, `evsignal_cb` | epoll backend |
| work queue (`workqueue.cpp`) | the job list and the worker list, one mutex, one condition variable, `terminate` in each worker | init, add_job, `worker_function`, shutdown | echo server |
| bufferevent (`evbuffer.cpp`) | two events, two buffers, `enabled`, watermarks, the input's callback, timeouts | enable, disable, settimeout, setwatermark, setfd, read, write, free; the read, write and pressure callbacks | echo server |
| echo server (`mainsvrd.cpp`) | the accept base, the clients with one base each, the work queue, the process's descriptor numbers | accept, one job per client, close, shutdown from a signal handler | |
| log (`log.cpp`) | a file and its rotated predecessors | `VWriteLog`, `ShiftFiles` | all threads |
| scripts (`bin/`) | the process, the cron entry | start, stop, reload | operator |

How they interact. The loop asks the timer heap how long it may sleep and asks
the backend's `dispatch` to sleep; `epoll_dispatch` and `evsignal_process`
activate events; the loop calls their callbacks, and a callback may make any
call of the API on any event, its own included. A signal handler interrupts any
of this, writes counters, and wakes `epoll_wait` by EINTR or through the socket
pair. A bufferevent sits between two events and two buffers, and its input
buffer tells it of every change of length while reading is suspended. The
server accepts on one base in the main thread and runs one base per client in a
worker thread; the work queue, the log, the signal machinery and the numbers of
the descriptors are shared between threads.

What is hard about it:

* re-entrancy: deletion, re-addition and activation of events inside callbacks,
  with counters and queues changed by separate statements on every path;
* asynchronous signals between any two statements of the loop, the work queue
  or another thread's handler;
* agreement of three views of one registration: `ev_flags`, the epoll table and
  the kernel's epoll set, while `epoll_ctl` and `realloc` may fail and
  descriptors may be closed under their events;
* directions of a bufferevent that must be armed again on every path of a
  callback, or nothing will ever call it again;
* lost wakeups, and locks that are left or taken at the wrong place;
* descriptor numbers that are closed, given out again and still held by an event;
* log files that several threads rename at once with nothing locked;
* numeric edges: growth by doubling, rounding and overflow of timeouts.

`PROJECT.json` lists every hazard with its line and the properties that cover it.

The correctness of each component, in words:

* event loop: the counters agree with the flags and queues; a deleted event is
  not called, and deleting one cancels no call of another; a timeout that was
  replaced is not reported; an event whose registration failed is not armed
  either; the loop sleeps only when nothing is active, and without a limit only
  when no timer is armed; a request to stop is honoured at once; active events
  are called, unless others of a lower queue number always come first, and due
  timers are reported in the end;
* timer heap: a set of events with deadlines whose minimum is at the top;
* byte buffer: a queue of bytes, inside its block, that reports each change;
* epoll backend: what is added is heard, what is deleted leaves no pointer, and a
  deadline bounds the sleep from both sides;
* signal backend: no signal is lost or slept on, dispositions are put back;
* work queue: each job runs once, no wakeup is lost, the shutdown tells the
  workers on its list and returns;
* bufferevent: a channel whose enabled directions are never forgotten;
* echo server: a socket is closed by its own client only, and somebody is there to
  close it until a shutdown; a client whose socket is closed ends; the listener
  stops;
* log: the names stay in the order of age, a full log is shifted, the newest one
  survives.

## 2. The modules

| module | models | state | extends / refines |
|---|---|---|---|
| `EventBase` | `event.cpp` | the record `base` (flags, counters, queues, fields of the events) and the thread's position `pc` in `event_base_loop` | |
| `MinHeap` | `minheap.cpp` | array, capacity, `idx`, the element and the hole of a running shift loop | refines `TimerSet` |
| `EvBuffer` | `buffer.cpp` | block, length, `misalign`, `off`, callback | refines `ByteQueue` |
| `Epoll` | `epoll.cpp` | `fds`, `nfds`, `nevents`, the kernel's set, the open descriptors | refines `Backend` |
| `EvSignal` | `signal.cpp` and the part of `epoll_dispatch` that calls it | counters, flag, pipe, dispositions, position of the loop and of each thread's handler | |
| `WorkQueue` | `workqueue.cpp` with the threads of `mainsvrd.cpp` that call it | mutex, lists, sleepers, position of each worker, of the main thread and of the handler | refines `JobPool` |
| `BufferEvent` | `evbuffer.cpp` on a running event loop | `bev` (marks, lengths, `enabled`, timeouts), `at` (library or application code), and all of `EventBase` | extends `EventBase`, refines `Duplex` |
| `EchoServer` | `mainsvrd.cpp` | a record per client (descriptor, states of its two events, its epoll entry, its active queue), who owns each descriptor number, position of the listener | |
| `LogRotate` | `log.cpp` | the file behind each name, sizes, position of each thread | |
| `TimerSet`, `ByteQueue`, `Backend`, `JobPool`, `Duplex` | the abstract promises: a set with deadlines, a queue of bytes, a function table `eventop`, a pool that runs each job once, a channel with two directions | | |
| `MC*` | instances for TLC: which events there are, symmetry | | |
| `*Proofs` | theorems and their proofs, one module for each module above with state; `EchoServer` and `LogRotate` share `ServerProofs` | | |

`EchoServer` and `LogRotate` are the two halves of the server's process and
share neither constants nor variables, so one proof module extends both; that is
why the operators of `LogRotate` are called `LogInit`, `LogNext`, `LogSpec`.

Operators named as faults ("Fault: ...") stand beside the definition they
mutate. They are part of no specification; they show that each property notices
the bug it is about.

How the pieces are composed. `BufferEvent` runs on the very `EventBase` that is
checked and proved alone: it replaces only the application, by the library's
callbacks, and its proofs rest on the lemmas about `event_add`, `event_del` and
the loop that `EventBaseProofs` proved. `EventBase` sees the backend as `Backend`
describes it, and `Epoll` is proved to implement `Backend`. `EchoServer` uses a
client's bufferevent through the states of its two events, its loop through "one
turn reports some events and lets some time out", and the job queue through what
`JobPool` promises: its clients, as jobs, are proved to behave as `JobPool`
allows, and `WorkQueue` is proved to implement `JobPool`. Running the three
detailed modules together is far beyond TLC.

### EventBase

One thread. `pc` walks through `event_base_loop`: `loop` (top of the while),
`wait` (inside `epoll_wait`), `report` (the backend activates events), `expire`
(`timeout_process`), `process`, `calls`, `callback` (`event_process_active`).
The application's calls are actions of their own, enabled outside the loop
(`idle`) and inside a callback of one of its events. `Add`, `Del`, `Active`,
`Arm` are the API calls as functions on `base`, each with all its early returns
and its calls to `event_queue_insert` and `event_queue_remove`. Membership of
the eventqueue and of the timer heap is the flag of the event (the heap's own
order is `MinHeap`); the active queues are sequences because their order is the
order of calls. `base.frame` is the local variable `ncalls` of
`event_process_active`; `pncalls[e]` says that `ev_pncalls` points at it. When
that function returns early the local is gone and the field still points there:
`frame` is then 0, and `cut` (set by `GivesUp`) remembers the events some of whose
calls were given up, by a break or by their own deletion. A write through such a
field is a write to whatever now is the frame of `event_process_active`.

`event_active` is called by the application for the events of `Manual` with a
result of `ByHand` and any number of calls up to `MaxCalls`.
`event_base_loopbreak` is a call of the application anywhere, in a callback or
outside the loop. `event_add` is one function of the answer of `evsel->add`
(`TryAdd`): when the backend refuses, the code has taken the event off no queue and
armed nothing, and the fault `TryAddLate` shows what the other order would do.

The backend is what `eventop` shows: `add` succeeds or fails, `dispatch` blocks,
returns for a report, on EINTR or by its timeout, and activates some inserted
events. `event_base_once` is modelled as `event_base_loopexit` uses it, with an
event of `Once` per allocation. Between "the timer heap" of `event.cpp` and
`MinHeap` lies `TimerSet`: an earliest deadline (`HeapTop`) is all that
`timeout_next` and `timeout_process` use.

### MinHeap

An operation (push, pop, erase, and `timeout_correct`'s shift of every
deadline) begins in one step, and each iteration of `min_heap_shift_up` and
`min_heap_shift_down` is a step. The abstract operation happens at the beginning
and the iterations stutter. That nobody reads the heap between the iterations
is part of the model, since one thread runs the base.

### EvBuffer

One action per function. `evbuffer_read` takes what `FIONREAD` said and the
caller's limit, computes the room it asks for (`ReadSize`), expands, and appends
what the descriptor gave, possibly nothing. `realloc` may fail whenever the code
calls it: the bytes have then already been moved back. A byte that was never
written is `NoByte`, so reading outside the content would be seen.

### Epoll

`Open` and `Close` are the application's; `Close` removes the descriptor from the
kernel's set, as the kernel does. `epoll_ctl` fails exactly when the operation
the code picked does not fit the kernel's set or the descriptor is closed, and
in addition whenever the kernel has no room for a new one. `inserted` is the
flag `EVLIST_INSERTED` of `event.cpp`, which event_del clears whatever
`epoll_del` returns. `displaced` remembers the pairs of an event and a direction
whose entry of the table another event has taken over or cleared: the table has
one reader and one writer for each descriptor. The timeout is computed with an
`int` of `2 * IntHalf` values and `MsPerSec`, `UsecPerMs` units, so that rounding, the maximum wait and
the overflow can be reached with small numbers.

### EvSignal

The steps are the memory operations of the handler and of `evsignal_process`:
the makefile does not optimise, so `++` and `-=` on a counter are a load and a
store. A handler on the loop's own thread suspends the loop (`LoopRuns`); a
handler on another thread runs beside it. A handler counts (`CountLoad`,
`CountStore`), raises the flag, installs itself again (`Reinstall`) and sends its
byte. `owed` is a history variable: the events that were on the list when their
signal came and have not been called or deleted since. With the constant
`Overlap`, handlers of different signals run on different threads at the same
time; two of the same signal never do: see 5. With `Polls` the loop may call
`epoll_dispatch` again while it still has active events to call, as
`event_base_loop` does with a timeout of 0. `left` remembers the signals whose
handler was installed without an event: by an `evsignal_add` that failed
half-way, or by the `signal()` call of a handler that came late on another thread.

### WorkQueue

Lock, wait, signal, broadcast are the steps; between two of them a thread holds
the mutex or touches only its own data. `host` is the thread on which the signal
handler runs `workqueue_shutdown`: that thread stands still until the handler
returns. `missed` remembers the workers that were not on the list when the
shutdown began its walk, because `workqueue_init` was still building it.

### BufferEvent

The loop's steps are those of `EventBase` (`LoopStep`). A library callback is one
step, because one thread runs it, and may end in the application's callback:
`at` is `lib` until that step and `user` inside the application's callback, where
every call on the bufferevent is allowed, as it is outside the loop. The three
callbacks of the application are set. Only the lengths of the two buffers matter
here; what the bytes do is `EvBuffer`.

Most callers ignore that `bufferevent_add` may fail, so each has both outcomes
(`Arms`). Two history variables say what the code gives up silently: `lost`, the
directions it has let go without being told to (an error was reported, the
backend refused the event, `bufferevent_setfd` deletes both events and adds
none, or `event_add` met an event that was active for its timeout); and `half`,
directions that `bufferevent_enable` armed before it failed, in which bytes move
although `enabled` says they do not.

### EchoServer

A client is a record: the stage of its job, `client->fd`, the number its events
were set with, the state of each event (off, on, active, active for its timeout,
armed by its timer only), the socket its epoll set really holds, and the order of
its active queue. One callback of a worker is one step. `owner` is the kernel's
table of descriptors: `accept` takes any free number, so a number that
`closeClient` has closed may belong to another client while an event still holds
it. `epoll_ctl` fails when the number is closed or the set holds another
socket than MOD needs. `Unserved` are the clients whose jobs the shutdown took
off the list, and those whose jobs were queued after it. The listener is followed
through its loop (`top`, `polling`, `blocked`, `accepting`), because the signal
that asks it to stop may come at any of these points and on any thread.

### LogRotate

A file is the number of its creation, a name an index, and every call on the file
system is a step: `fopen`, the write by `fclose`, `stat`, `access`, `remove`,
`rename`. Several threads are in `VWriteLog` and `ShiftFiles` at once, holding
files that are renamed under them. `killed` collects the files that were removed
or renamed over.

## 3. Runs

All bounds are constants of the configurations.

| run | question and properties | bounds | result |
|---|---|---|---|
| `event_base_signals` | do counters, queues and multi-call callbacks survive every call of the API inside callbacks, changes of priority, `event_active` and `event_base_loopbreak`? `QueueConsistency`, `NoStrayCancel`, `NoCallAfterDel` | a socket, a persistent signal event that is also activated by hand, and the internal event; 2 priorities; up to 2 calls per report or activation; deadlines equal to the time | holds |
| `event_base_timers` | is a replaced timeout never reported, and does the loop sleep only when it may, and does an `event_add` that fails arm nothing, with a socket that is also activated by hand? `ExpiryIsCurrent`, `SleepsOnlyWhenQuiet`, `ArmedIsHeard` | a socket, a timer and the internal event; timeouts 0 and 1; clock to 3 | holds |
| `event_base_live` | is a request to stop obeyed at once, and are active events called and timers reported? `StopIsPrompt`, `ActiveIsServed`, `TimerFires` | a non-persistent signal event, the internal event and a once event; 2 priorities; up to 2 calls; one timeout; clock to 2; fair | holds |
| `min_heap` | is the heap a set of deadlines with its minimum on top? `TopIsEarliest`, `ImplementsTimerSet` | 6 events, 2 deadlines, first capacity 2 so that it grows twice; symmetry of the events | holds |
| `ev_buffer` | is the block a queue of bytes? `InsideBlock`, `CallbackIsTold`, `ImplementsByteQueue` | chunks up to 2 of 2 byte values, at most 3 bytes held, first block 2 | holds |
| `epoll_table` | do the flags, the table and the kernel agree, and does the wait end when it should? `NoDangling`, `KernelAgrees`, `InsertedIsHeard`, `WaitReachesDeadline`, `OperationFits`, `ImplementsBackend` | 5 events on 2 descriptors, one beyond the first table; reports 1, then 2; 8 timevals around a millisecond, beyond the maximum wait and at the limit of an 8-bit int | holds |
| `ev_signal` | is a signal lost, slept on or left unanswered when the handler interrupts the loop or runs on another thread? are dispositions put back? `OwedIsOnItsWay`, `NoSleepOnSignal`, `PipeHasByte`, `DispositionsKept`, `SignalIsAnswered` | 3 events, 2 signals, 2 threads, a pipe of 2 bytes, counts up to 2; neither `Overlap` nor `Polls`; fair | holds |
| `work_queue` | does each job run once, is no wakeup lost, does a waiting job start, does shutdown return? `EnoughAwake`, `EveryWorkerIsTold`, `ImplementsJobPool`, `JobsStart`, `ShutdownReturns` | 3 workers, 2 jobs, the handler on any thread at any moment, a `pthread_create` that fails; fair scheduling | holds |
| `work_queue_stop` | do the workers end? `WorkersStop` | 2 workers, 1 job; fair, jobs return | violated, see 6 |
| `buffer_event` | is an enabled direction ever forgotten, and is the bufferevent a channel? `ReadingGoesOn`, `OutputGoesOut`, `ImplementsDuplex` | one bufferevent and the internal event on one queue, the loop run without flags; marks 0 and 2, low mark of writing 0 or 1, timeout 0 or 1, at most 2 bytes in each buffer, clock to 2 | holds |
| `echo_server` | who closes and who touches a socket, does the listener stop, does a closed client end? `OwnsDescriptor`, `BytesStayHome`, `StopsSoon`, `ClosedClientEnds` | 2 clients, 2 descriptor numbers, 2 workers, 1 byte of output, one signal on any thread; fair | holds |
| `log_rotate` | what survives unlocked shifting? `NewestFirst`, `FullIsShifted`, `KeepsNewest` | 3 threads, 4 names, a log full after 1 message, 3 files in all | holds |

Why the bounds are enough to be interesting. An event can be in three queues; a
defect of the queues needs at most an event being called, the event it deletes
or adds, and the internal event whose counting differs; the instances have
these. Between them they have persistent and non-persistent events of a
socket, a signal and a timer. The heap of six has three levels, a last parent
with one child and one with two. A buffer of three bytes with blocks of 2, 4 and
8 slides, grows, and slides before it grows. In the epoll instance two events
share a descriptor, one competes with both, and one descriptor lies beyond the
first table. The signal instance has two events on one signal, of which one is
not persistent, and a pipe that overflows; its safety does not depend on the
bounds `Overlap` and `Polls`, for it is proved for either value of both. With two
priorities in the live run an event of the first queue may starve one of the
second. With three workers and two jobs two
workers can be woken while a third takes a job before them; that all workers are
busy while a job waits, the exception of `JobsStart`, needs one job more than
there are workers and does not occur in the instance, which shows the promise
without it. Each job is added once, so an old job that newer ones overtake for
ever (the list is last in, first out) cannot be seen. A bufferevent with a
high mark of 2 reaches the mark by one read and by two, and is drained below it
and to it. Two clients are enough for one to get the number of another that still
has an event on it, and two numbers for both to be open at once. Three threads
and four names are the closest `KeepsNewest` allows, as in `mainsvrd.cpp` (ten
names, nine threads), and three files let a shift meet the file that another
shift has just made.

`Tick`, the counts, the pipe and the files are bounded in guards (`MaxClock`,
`MaxCount`, `MaxOff`, `MaxInput`, `MaxOutput`, `MaxOut`, `MaxFiles`); where the
bound would forge a stop, as a sleep that would outlast the last tick, the model
lets it end (`WaitTimesOut`).

Activation by hand is not in the live run: an event that activates itself again
in each of its callbacks keeps `event_process_active` in its loop, and no timer
fires. That is the caller's doing, and it is what the model shows when
`Manual` is not empty. A break is: `ActiveIsServed` holds only if callbacks
stop breaking the loop, and `TimerFires` only if the application does not for ever
break the loop it is about to enter.

Three modules are checked without deadlock, since the system really stops there:
`WorkQueue` (the main thread may have failed in `workqueue_init`, all workers may
have ended), `EchoServer` (the process ends) and `LogRotate` (its bound on the
files). Everywhere else TLC checks it.

### Fairness

* `EventBase.FairSpec`: the program goes on with a loop it has entered and, when
  it has left it, enters it again (weak fairness of the loop's steps: one thread
  that is scheduled); the clock ticks; and `epoll_wait` returns when its timeout
  has passed. Strong fairness of that return excludes only a backend that fails
  for ever. Reports and the application's calls are not fair: nothing
  needs to happen outside the program.
* `EvSignal.FairSpec`, for a loop without `Polls` (what a loop that polls calls,
  and when, is `ActiveIsServed` of `EventBase`): threads are scheduled; the
  application's callbacks return; an `epoll_wait` that was interrupted, or has the socket pair to
  report, returns. A timeout or another descriptor is never relied upon.
* `WorkQueue.SchedSpec`: threads are scheduled and a mutex that is released again
  and again is granted (strong fairness of `Lock` and `ShutdownLock`, as futexes
  practically give). A job need not return: `JobsStart` holds without it, because
  it promises a start only while a worker is free. `FairSpec`, under which
  `WorkersStop` fails, adds that jobs return. Spurious wakeups are allowed and
  not relied upon.
* `EchoServer.FairSpec`: a worker runs its callbacks; armed timers end by a turn
  that has no report; a loop without events returns; and a socket that is
  reported writable again and again takes a byte in the end (strong fairness of
  `WriteSends`: otherwise a peer that never reads keeps a half-closed client,
  which is TCP's matter). The network, the listener and the signal are not fair.

## 4. Proofs

All theorems hold for every value of the constants that the ASSUMEs of the module
allow (`EventAssumption`, `InterestAssumption`, `BoundAssumption`,
`HeapAssumption`, `BufferAssumption`, `EpollAssumption`, `EchoAssumption`,
`LogAssumption`, ...); those say which sets are finite, that numbers are natural
and what `event_set` refuses. TLC checks them in the runs.

* `EventBaseProofs`. `IInv` is `TypeOK` and `QueueConsistency`. It is inductive:
  the two queue operations, under the condition at their call sites (removed
  only if present, inserted only if absent), keep the counters equal to the
  number of memberships, and every API call and every step of the loop is a
  composition of them. `TypeCorrect`, `QueuesConsistent`, and `AssertionHolds`
  (the `assert(activeq != NULL)` of `event.cpp:315`) follow; the last has no run of
  its own, because `QueueConsistency` implies it. `StopsPromptly` is inductive by
  itself. Three more invariants stand on `IInv`. `CallInv`: an event both owes
  calls and points at the local `ncalls` only while it is the one being called, or
  because its calls were given up (`cut`); hence `NoStrayPointer`, for every event.
  `WatchInv`: a deleted event is on no queue, and while calls are owed and
  `ev_pncalls` of the event being called has not been cleared, `ev_ncalls` is their
  number, so `event_del` can cancel them; hence `NoCallAfterDeletion`, which is
  restricted as the property is, to events not activated by hand in their own
  callback, and assumes nothing of `Manual`.
`TimeInv`: `tv_cache` is not
  ahead of the clock; hence `ExpiriesAreCurrent`, since `timeout_process` compares
  with the cached time, and since no other activation of an armed event leaves
  `EV_TIMEOUT` behind. `ArmedAreHeard` is a property of single steps: `event_add`
  inserts before it arms, and arms only what the backend took. `SleepsWhenQuiet` follows from what `timeout_next` returns
  (`PollTimeoutType`: a minimum of the deadlines exists) and from the counter.
  The steps of `StopsPromptly` and `SleepsWhenQuiet` are lemmas (`StopStep`,
  `SleepStep`), which `BufferEventProofs` uses again.
* `MinHeapProofs`. `HeapInv` says, while an element is on its way, where the hole
  is, that the order holds around it and that the indices agree with the slots
  but for the hole. From it: `StaysInBounds`, `IndicesAgree`, `TopEarliest`
  (each element is no earlier than the root; shown along parents by the least
  position that violates it), and `HeapImplementsTimerSet`.
* `EvBufferProofs`. `BufInv` adds to the checked invariants that every byte of the
  content has been written (`AllWritten`), which the refinement needs:
  `StaysInsideBlock`, `CallbackHears`, `BufferImplementsByteQueue`.
* `EpollProofs`. `EpollInv` is `TypeOK`, `NoDangling`, `InTable` and
  `KernelAgrees` together; none of the last three is inductive alone, since
  `epoll_add` decides between ADD and MOD on the table. With the invariant that an
  inserted event's entry is its own or is in `displaced`, on it rest
  `InsertedAreHeard` and `EpollImplementsBackend`. `OperationsFit` needs that an
  entry of the table whose descriptor is not in the epoll set is a leftover of a
  close (`StaleInv`): then `epoll_add` picks ADD or MOD rightly for any other one.
  `WaitsToDeadline` holds for every width of the int and every ratio of the units
  that `EpollAssumption` admits; it is about division at several scales, and the
  solver is led through it by lemmas on quotients and remainders (`DivBounds`,
  `ModSmall`, `Distributes`, `ProductLess`), up to `IntKeeps` (a value below the
  limit survives the conversion to int) and `Milliseconds` (rounding up).
* `EvSignalProofs`, for either value of `Overlap` and of `Polls`. `Counters`: a signal
  has one handler at a time, what `++` has loaded is still
  current but for a `-=`, and `-=` never goes below zero. `CountIsSeen`: a signal
  that is counted has the flag up, or about to be raised by the handler, or the
  scan still ahead of it; with it `NoSignalLost`. `ByteIsSent`: while the flag is
  up there is a byte in the pipe, or one is about to be sent, and one more when
  `evsignal_cb` is due to read; `Listening`: an event on a list has the internal
  event in the base; with them `NoSleep` and `ByteIsThere`.
  `DispositionsAreKept` needs that the saved disposition of a signal nothing is
  left of is the program's (`OldIsApp`).
* `WorkQueueProofs`. `Owners` says who has the mutex from where each thread
  stands, `Locals` and `WereAdded` where each job is, `Walk` how far the shutdown
  has come along the list (whoever was on it at the start of the walk is told or
  still ahead), `Awake` that for every waiting job a worker is awake or
  all are busy; together they are inductive and give `JobInOnePlace` (which no run checks
  by itself: the refinement says as much), `EnoughAwake`, `EveryWorkerIsTold` and
  the refinement of `JobPool`.
* `BufferEventProofs`. `BufInv` is `IInv` of the loop, the types, and three parts.
  `OneReason`: each of the two events is called once per report, and one that is
  active for its timeout is active for nothing else and not inserted.
  `OneCall`: the event being called is one of the two, and its one call is used
  up when its callback runs. `DirOK`: a direction whose event is queued or being
  called is granted; an enabled one that `lost` does not name is on its way, or
  suspended with the pressure callback in place, or has nothing to send; a freed
  bufferevent has nothing left in the loop. `ReadingGoesOn` alone is not
  inductive: it counts an event as on its way from `calls` until its callback ends,
  and only `OneCall` says that the call is still owed. All calls
  and callbacks are compositions of `event_add` and `event_del` on two events, so
  the proof follows what any such composition leaves of the base (`Touches`)
  rather than each call. Hence `ReadingGoes`, `OutputGoes`, `FreedBufferEventIsLeft`
  and, step by step, `BufferEventIsDuplex`. `Expiries` says that a composition
  never leaves an event active for a timeout it has armed again; with `DueInv` that
  gives `TimeoutsComeLate`. `LoopUnder` says that a step is one of
  `EventBase` or leaves the loop where it stands, outside or in a callback; so
  what was proved of the loop alone carries over (`BufferEventQueues`,
  `LoopUnderBufferEvent`).
* `ServerProofs`, the clients and the listener. `Sane` describes one record: the
  number of an open client is its own, an active read event is at the head of the
  queue and its client open, and a closed client that can still be called for a
  report was closed with `ev_write` active. With `NumbersAgree` (each open number and
  its owner name each other) it gives `BytesAreHome`, and with what `Course` says of
  the stages (a freed client is closed, only the request to stop drops one)
  `DescriptorsAreOwned`;
  `Stopping` counts the turns the listener has left after the request, for
  `ListenerStops`. `Course` lists what any step of any thread does to the stages
  of the clients; from it `ClientsAreJobs` (the clients implement `JobPool`),
  `GoneClientsStay` and `FreedClientsLeakNothing`.
* `ServerProofs`, the log. A shift that finds nothing under a name gives up only when
  another thread is further on (`Carries`), and every name the newest file has
  been shifted by uses up one thread (`Drift`), so it cannot fall off the end while
  there are more names than threads.

`PROJECT.json` lists the theorems with the property each one states.

Every safety invariant, action property and refinement of the passing runs is
stated by a theorem. Only model-checked is liveness (`ActiveIsServed`,
`TimerFires`, `JobsStart`, `ShutdownReturns`, `SignalIsAnswered`,
`ClosedClientEnds`), which is out of the prover's reach, as is the violation
`WorkersStop`.

## 5. What is not modelled

* `event_base_free`, `event_reinit` and changes of the number of priorities while
  events exist: no program of the repository calls them in that state.
* `epoll_init`, `epoll_dealloc`, `evsignal_init` failing half-way,
  `evsignal_dealloc`, and several bases sharing the global `evsignal_base`.
* In `EvSignal` two handlers of the same signal at the same time on two threads
  (`signal()` blocks a signal only on the thread that handles it): an increment is
  then lost and the counter can become negative. Which promise survives is open.
  Nor is a handler interrupted by that of another signal on its own thread, which
  `signal()` allows: it would be done before the first goes on. TLC's liveness is
  checked without `Overlap` and `Polls`.
* In `WorkQueue` and `EchoServer` more than one request to stop: `sa_mask` is empty
  (`mainsvrd.cpp:218-224`), so a SIGINT may interrupt the handler of a SIGTERM, and
  a second signal may follow the first. A second `workqueue_shutdown` on the same
  thread would lock a mutex the first one holds and hang; in another order it walks
  a list the first one has emptied.
* In `MinHeap` and `EventBase` a `min_heap_reserve` that fails: `event_add` then
  returns before it has changed anything.
* In `EchoServer` the statements of `event_base_loopexit` in the handler
  interrupting those of the listener's loop. Every statement of
  `event_queue_insert` and `event_queue_remove` would have to be a step, and
  nothing the code promises would survive the corruption.
* In `BufferEvent` a change of the callbacks (`bufferevent_setcb` only replaces
  them) and of the base.
* The scripts of `bin/`: they keep no state of the program. `reload` and `stop`
  send USR1 and USR2, which `mainsvrd.cpp:223` does not handle, so the default
  action ends the process at once.
* Formatting of log lines and addresses, the parsing of arguments, the makefile and
  the umbrella header.

## 6. Disagreements and exceptions

One run shows the code against its own announcement:

* `WorkersStop` (`workqueue.cpp:36`): a worker that is told to stop leaves its
  loop with `jobs_mutex` locked; no other worker ends.

Elsewhere a property holds except in a case it names, and the case is a real
weakness of the code that a caller should know of:

* `EveryWorkerIsTold` (`workqueue.cpp:98-101`): `workqueue_shutdown` walks the list
  of workers without the mutex. Workers that `workqueue_init` has not listed yet are
  not told (`missed`), and a worker that ends while the walk stands on it frees the
  `worker_t` whose `next` the walk reads: a use after free, at which the model stops
  (`crashed`) because anything may follow.
* `ShutdownReturns` (`workqueue.cpp:103`): `workqueue_shutdown` in the signal
  handler locks a mutex that the interrupted thread may own, and then hangs
  (`mutex = host`); or it meets the mutex a stopped worker left.
* `WaitReachesDeadline` (`epoll.cpp:120`): the milliseconds of the timeout are
  stored in an `int` before they are compared with the maximum; a timer about 25
  days away makes it negative and the wait has no end (`FitsInt`).
* `DispositionsKept` (`signal.cpp:205`): when adding the internal event fails, the
  handler stays installed; the next `evsignal_add` saves it as the "old"
  disposition and `evsignal_del` restores it (`left`).
* `NoStrayCancel` (`event.cpp:334-337`): a callback that breaks the loop makes
  `event_process_active` return with `ev_ncalls` not zero and `ev_pncalls` at its
  local variable, and a callback that deletes its own event leaves the fields the
  same way. A later `event_del` (lines 719-722) or `event_add` of that event
  writes a zero through the pointer. Outside of `event_process_active` that is a
  word of somebody else's stack, which the model lets go unnoticed; inside, it may
  be the count of the event being called, whose calls are then cancelled (`cut`).
* `NoCallAfterDel` (`event.cpp:741`): a signal event activated by hand inside its
  own multi-call callback loses `ev_ncalls` and `ev_pncalls`, and a following
  `event_del` no longer cancels the calls. If it is not deleted, the next of the
  old calls overwrites `ev_ncalls`, and the new activation may make no call.
* `ActiveIsServed` (`event.cpp:306-313`): `event_process_active` drains only the
  first active queue that is not empty. An event that is reported in every turn
  starves those of higher queue numbers for ever (`Outranked`).
* `SleepsOnlyWhenQuiet` (`event.cpp:437`) says nothing of how long a limited wait
  is. `timeout_next` subtracts `tv_cache`, the time at which `epoll_wait` returned
  last, which is unset only afterwards (line 451): the wait may outlast its deadline
  by the time the callbacks of the turn before have taken.
* `ArmedIsHeard` (`event.cpp:663`): `event_add` on an event that is active but not
  inserted arms its timeout without asking the backend for anything (`Deaf`): the
  event then waits for its timeout only.
* `InsertedIsHeard` (`epoll.cpp:256`): the second event of a descriptor and a
  direction takes the entry of the first, and deleting either leaves the other
  unheard (`displaced`).
* `OwnsDescriptor` (`workqueue.cpp:105`): the shutdown forgets the jobs that wait,
  and nobody takes those that are queued later. The sockets of their clients stay
  open (`Unserved`) until the process ends, which a listener that another thread's
  signal did not wake may put off for as long as nobody connects.
* `BytesStayHome` (`mainsvrd.cpp:114`, `123`): `buffered_on_error`, or
  `buffered_on_read` when it could not echo, closes the descriptor while
  `ev_write` may be active in the same turn; `bufferevent_writecb` is then
  called for a number that another client may have got (`busy`).
* `ReadingGoesOn` and `OutputGoesOut` (`evbuffer.cpp`): what stops a direction
  without a word to the application is in `lost`.
* `KeepsNewest` (`log.cpp:35`): the newest log survives, but two threads that find
  the log full both shift, so that names are skipped and fewer old logs remain
  than `siMaxLogNum`. The handler of a signal logs as well (`event_add`, `event.cpp:644`)
  and is one more logger than the nine threads, while it interrupts one that
  shifts: the ten names are then not more than the loggers, and nothing is promised.
* `StopsSoon` (`mainsvrd.cpp:287`): a signal that another thread takes does not
  wake the listener, which stops with the next connection, after at most two.

## 7. Plan

Done: every component of 1 that has state, each with its promises checked, and
its safety proved. What would come next:

1. Handlers of the same signal overlapping on several threads in `EvSignal`, with
   the counter as a `sig_atomic_t`: state and check what survives the lost increment.
2. `evsignal_init` and `evsignal_dealloc` with several bases sharing
   `evsignal_base`, as the server's clients have them.
3. More of the composition: that the states `EchoServer` keeps of a client's two
   events are those `BufferEvent` can reach, as a refinement.
