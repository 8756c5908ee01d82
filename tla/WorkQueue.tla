------------------------------ MODULE WorkQueue ------------------------------
(***************************************************************************)
(* include/workqueue.cpp: a list of jobs under one mutex and one condition *)
(* variable, the worker threads, and the two threads' worth of calls that  *)
(* src/mainsvrd.cpp makes: the main thread runs workqueue_init and then    *)
(* workqueue_add_job for every client, and the signal handler runs         *)
(* workqueue_shutdown on whichever thread the kernel picks.  That thread,  *)
(* host, does nothing else until the handler returns.                      *)
(***************************************************************************)
EXTENDS Naturals, Sequences, FiniteSets

CONSTANTS
  Worker,     \* the worker threads workqueue_init may create
  Job,        \* the jobs the main thread may add (bounds the model)
  Main,       \* the main thread
  Handler,    \* the signal handler, as an owner of the mutex
  NoThread,
  NoJob

ASSUME ThreadAssumption ==
  /\ IsFiniteSet(Worker) /\ IsFiniteSet(Job)
  /\ Main \notin Worker /\ Handler \notin Worker \cup {Main}
  /\ NoThread \notin Worker \cup {Main, Handler}
  /\ NoJob \notin Job

VARIABLES
  mutex,      \* the owner of jobs_mutex
  jobs,       \* waiting_jobs, the newest first
  workers,    \* the list of workers, the newest first
  asleep,     \* the workers in pthread_cond_wait
  wpc,        \* where each worker is in worker_function
  job,        \* the job each worker runs
  terminate,  \* worker->terminate
  mpc,        \* where the main thread is
  next,       \* the job the main thread is adding
  added,      \* the jobs handed to workqueue_add_job
  ended,      \* the jobs whose job_function returned
  hpc,        \* where the signal handler is in workqueue_shutdown
  host,       \* the thread the handler runs on
  cursor,     \* its position in the list of workers
  missed      \* the workers not on the list when the walk began

vars == <<mutex, jobs, workers, asleep, wpc, job, terminate, mpc, next, added,
          ended, hpc, host, cursor, missed>>

ToSet(s) == {s[i] : i \in 1 .. Len(s)}

Created == {w \in Worker : wpc[w] # "none"}
Exited  == {w \in Worker : wpc[w] = "exited"}

Init ==
  /\ mutex = NoThread
  /\ jobs = <<>>
  /\ workers = <<>>
  /\ asleep = {}
  /\ wpc = [w \in Worker |-> "none"]
  /\ job = [w \in Worker |-> NoJob]
  /\ terminate = [w \in Worker |-> FALSE]
  /\ mpc = "init"
  /\ next = NoJob
  /\ added = {}
  /\ ended = {}
  /\ hpc = "off"
  /\ host = NoThread
  /\ cursor = <<>>
  /\ missed = {}

\* A thread takes steps unless the handler runs on it or the process died.
Runs(t) == hpc # "crashed" /\ host # t

workerVars  == <<wpc, job>>
mainVars    == <<mpc, next, added>>
handlerVars == <<hpc, host, cursor, missed>>

-----------------------------------------------------------------------------
(* The main thread: workqueue_init, then workqueue_add_job.                *)

\* pthread_create; the thread runs before LL_ADD puts it on the list.
Create(w) ==
  /\ mpc = "init" /\ Runs(Main)
  /\ wpc[w] = "none"
  /\ wpc' = [wpc EXCEPT ![w] = "lock"]
  /\ mpc' = "list"
  /\ next' = w
  /\ UNCHANGED <<mutex, jobs, workers, asleep, job, terminate, added, ended,
                 handlerVars>>

ListWorker ==
  /\ mpc = "list" /\ Runs(Main)
  /\ workers' = <<next>> \o workers
  /\ next' = NoJob
  /\ mpc' = IF Created = Worker THEN "ready" ELSE "init"
  /\ UNCHANGED <<mutex, jobs, asleep, workerVars, terminate, added, ended,
                 handlerVars>>

\* malloc or pthread_create fails: workqueue_init returns 1 and runServer
\* calls workqueue_shutdown itself, on the main thread.  (Only one call of
\* workqueue_shutdown is modelled: not this one after a signal.)
InitFails ==
  /\ mpc = "init" /\ Runs(Main)
  /\ hpc = "off"
  /\ mpc' = "failed"
  /\ hpc' = "walk"
  /\ host' = Main
  /\ cursor' = workers
  /\ missed' = Worker \ ToSet(workers)
  /\ UNCHANGED <<mutex, jobs, workers, asleep, workerVars, terminate, next,
                 added, ended>>

AddLock(j) ==
  /\ mpc = "ready" /\ Runs(Main)
  /\ j \notin added
  /\ mutex = NoThread
  /\ mutex' = Main
  /\ mpc' = "locked"
  /\ next' = j
  /\ added' = added \cup {j}
  /\ UNCHANGED <<jobs, workers, asleep, workerVars, terminate, ended, handlerVars>>

\* pthread_cond_signal: one of the sleepers wakes, if there is one.
SignalOne ==
  IF asleep = {} THEN asleep' = {} ELSE \E w \in asleep : asleep' = asleep \ {w}

\* Fault: no worker is woken when jobs are waiting already.
AddPushQuietly ==
  /\ mpc = "locked" /\ Runs(Main)
  /\ jobs' = <<next>> \o jobs
  /\ IF jobs = <<>> THEN SignalOne ELSE asleep' = asleep
  /\ mutex' = NoThread
  /\ mpc' = "ready"
  /\ next' = NoJob
  /\ UNCHANGED <<workers, workerVars, terminate, added, ended, handlerVars>>

\* Fault: the mutex is unlocked only for the first job.
AddPushKeepsLock ==
  /\ mpc = "locked" /\ Runs(Main)
  /\ jobs' = <<next>> \o jobs
  /\ SignalOne
  /\ mutex' = IF jobs = <<>> THEN NoThread ELSE mutex
  /\ mpc' = "ready"
  /\ next' = NoJob
  /\ UNCHANGED <<workers, workerVars, terminate, added, ended, handlerVars>>

AddPush ==
  /\ mpc = "locked" /\ Runs(Main)
  /\ jobs' = <<next>> \o jobs
  /\ SignalOne
  /\ mutex' = NoThread
  /\ mpc' = "ready"
  /\ next' = NoJob
  /\ UNCHANGED <<workers, workerVars, terminate, added, ended, handlerVars>>

-----------------------------------------------------------------------------
(* worker_function.                                                        *)

\* pthread_mutex_lock, and the return of pthread_cond_wait.
Lock(w) ==
  /\ wpc[w] = "lock" /\ w \notin asleep /\ Runs(w)
  /\ mutex = NoThread
  /\ mutex' = w
  /\ wpc' = [wpc EXCEPT ![w] = "locked"]
  /\ UNCHANGED <<jobs, workers, asleep, job, terminate, mainVars, ended, handlerVars>>

\* Fault: a worker goes to sleep without looking at the list.
SleepBlindly(w) ==
  /\ wpc[w] = "locked" /\ Runs(w)
  /\ ~terminate[w]
  /\ asleep' = asleep \cup {w}
  /\ mutex' = NoThread
  /\ wpc' = [wpc EXCEPT ![w] = "lock"]
  /\ UNCHANGED <<jobs, workers, job, terminate, mainVars, ended, handlerVars>>

Sleep(w) ==
  /\ wpc[w] = "locked" /\ Runs(w)
  /\ jobs = <<>> /\ ~terminate[w]
  /\ asleep' = asleep \cup {w}
  /\ mutex' = NoThread
  /\ wpc' = [wpc EXCEPT ![w] = "lock"]
  /\ UNCHANGED <<jobs, workers, job, terminate, mainVars, ended, handlerVars>>

SpuriousWakeup(w) ==
  /\ w \in asleep /\ Runs(w)
  /\ asleep' = asleep \ {w}
  /\ UNCHANGED <<mutex, jobs, workers, workerVars, terminate, mainVars, ended,
                 handlerVars>>

\* Both tests of terminate break out of the loop with the mutex locked, and
\* nothing after the loop unlocks it.
Exit(w) ==
  /\ wpc[w] = "locked" /\ Runs(w)
  /\ terminate[w]
  /\ wpc' = [wpc EXCEPT ![w] = "exited"]
  /\ UNCHANGED <<mutex, jobs, workers, asleep, job, terminate, mainVars, ended,
                 handlerVars>>

\* Fault: the job is read but stays on the list.
TakePeeks(w) ==
  /\ wpc[w] = "locked" /\ Runs(w)
  /\ jobs # <<>> /\ ~terminate[w]
  /\ job' = [job EXCEPT ![w] = Head(jobs)]
  /\ mutex' = NoThread
  /\ wpc' = [wpc EXCEPT ![w] = "run"]
  /\ UNCHANGED <<jobs, workers, asleep, terminate, mainVars, ended, handlerVars>>

Take(w) ==
  /\ wpc[w] = "locked" /\ Runs(w)
  /\ jobs # <<>> /\ ~terminate[w]
  /\ job' = [job EXCEPT ![w] = Head(jobs)]
  /\ jobs' = Tail(jobs)
  /\ mutex' = NoThread
  /\ wpc' = [wpc EXCEPT ![w] = "run"]
  /\ UNCHANGED <<workers, asleep, terminate, mainVars, ended, handlerVars>>

JobReturns(w) ==
  /\ wpc[w] = "run" /\ Runs(w)
  /\ ended' = ended \cup {job[w]}
  /\ job' = [job EXCEPT ![w] = NoJob]
  /\ wpc' = [wpc EXCEPT ![w] = "lock"]
  /\ UNCHANGED <<mutex, jobs, workers, asleep, terminate, mainVars, handlerVars>>

-----------------------------------------------------------------------------
(* sighandler -> killServer -> workqueue_shutdown.                         *)

SignalArrives(t) ==
  /\ hpc = "off"
  /\ mpc # "failed"
  /\ hpc' = "walk"
  /\ host' = t
  /\ cursor' = workers
  /\ missed' = Worker \ ToSet(workers)
  /\ UNCHANGED <<mutex, jobs, workers, asleep, workerVars, terminate, mainVars, ended>>

WalkTell ==
  /\ hpc = "walk" /\ cursor # <<>>
  /\ terminate' = [terminate EXCEPT ![Head(cursor)] = TRUE]
  /\ hpc' = "step"
  /\ UNCHANGED <<mutex, jobs, workers, asleep, workerVars, mainVars, ended, host,
                 cursor, missed>>

\* Fault: the walk ends one worker too early.
WalkStepShort ==
  /\ hpc = "step"
  /\ cursor' = IF Len(cursor) = 2 THEN <<>> ELSE Tail(cursor)
  /\ hpc' = "walk"
  /\ UNCHANGED <<mutex, jobs, workers, asleep, workerVars, terminate, mainVars,
                 ended, host, missed>>

\* worker = worker->next; a worker that has exited has freed its worker_t,
\* and the read finds the old contents or anything else.
WalkStep ==
  /\ hpc = "step"
  /\ \/ cursor' = Tail(cursor) /\ hpc' = "walk"
     \/ Head(cursor) \in Exited /\ hpc' = "crashed" /\ cursor' = <<>>
  /\ UNCHANGED <<mutex, jobs, workers, asleep, workerVars, terminate, mainVars,
                 ended, host, missed>>

ShutdownLock ==
  /\ hpc = "walk" /\ cursor = <<>>
  /\ mutex = NoThread
  /\ mutex' = Handler
  /\ hpc' = "locked"
  /\ UNCHANGED <<jobs, workers, asleep, workerVars, terminate, mainVars, ended,
                 host, cursor, missed>>

\* Both lists are emptied, all sleepers wake and the mutex is unlocked.
Broadcast ==
  /\ hpc = "locked"
  /\ workers' = <<>>
  /\ jobs' = <<>>
  /\ asleep' = {}
  /\ mutex' = NoThread
  /\ hpc' = "returned"
  /\ host' = NoThread
  /\ UNCHANGED <<workerVars, terminate, mainVars, ended, cursor, missed>>

-----------------------------------------------------------------------------
MainStep == \/ \E w \in Worker : Create(w)
            \/ ListWorker \/ InitFails
            \/ \E j \in Job : AddLock(j)
            \/ AddPush

WorkerStep(w) == Lock(w) \/ Sleep(w) \/ SpuriousWakeup(w) \/ Exit(w) \/ Take(w)
                 \/ JobReturns(w)

HandlerStep == WalkTell \/ WalkStep \/ ShutdownLock \/ Broadcast

Next ==
  \/ MainStep
  \/ \E w \in Worker : WorkerStep(w)
  \/ \E t \in {Main} \cup (Created \ Exited) : SignalArrives(t)
  \/ HandlerStep

Spec == Init /\ [][Next]_vars

\* Threads are scheduled, and a mutex that is free again and again is granted
\* to a thread that wants it.  Nothing is said of how long a job takes.
Scheduling ==
  /\ \A w \in Worker : WF_vars(Sleep(w) \/ Exit(w) \/ Take(w)) /\ SF_vars(Lock(w))
  /\ WF_vars(ListWorker \/ AddPush \/ \E w \in Worker : Create(w))
  /\ WF_vars(WalkTell \/ WalkStep \/ Broadcast)
  /\ SF_vars(ShutdownLock)

JobsReturn == \A w \in Worker : WF_vars(JobReturns(w))

SchedSpec == Spec /\ Scheduling
FairSpec  == SchedSpec /\ JobsReturn

-----------------------------------------------------------------------------
\* The state of the mutex, the lists, the threads and the handler.
TypeOK ==
  /\ mutex \in Worker \cup {Main, Handler, NoThread}
  /\ jobs \in Seq(Job)
  /\ workers \in Seq(Worker)
  /\ asleep \in SUBSET Worker
  /\ wpc \in [Worker -> {"none", "lock", "locked", "run", "exited"}]
  /\ job \in [Worker -> Job \cup {NoJob}]
  /\ terminate \in [Worker -> BOOLEAN]
  /\ mpc \in {"init", "list", "failed", "ready", "locked"}
  /\ next \in Job \cup Worker \cup {NoJob}
  /\ added \in SUBSET Job /\ ended \in SUBSET Job
  /\ hpc \in {"off", "walk", "step", "locked", "returned", "crashed"}
  /\ host \in Worker \cup {Main, NoThread}
  /\ cursor \in Seq(Worker)
  /\ missed \in SUBSET Worker

\* A job is in one place: in the list once, or with one worker, or done.
JobInOnePlace ==
  /\ \A i, k \in 1 .. Len(jobs) : jobs[i] = jobs[k] => i = k
  /\ \A w, v \in Worker : job[w] = job[v] /\ job[w] # NoJob => w = v
  /\ \A w \in Worker : job[w] \notin ToSet(jobs) \cup ended
  /\ ToSet(jobs) \cap ended = {}
  /\ mpc = "locked" => next \notin ToSet(jobs) \cup ended \cup {job[w] : w \in Worker}

\* No wakeup is lost: while a worker sleeps before the shutdown, as many
\* workers are on their way to the list as there are jobs in it.
EnoughAwake ==
  hpc = "off" /\ asleep # {} =>
    Cardinality({w \in Worker \ asleep : wpc[w] \in {"lock", "locked"}}) >= Len(jobs)

\* A shutdown that gets past its walk has told every worker that was on the
\* list when the walk began, whatever the workers and the main thread did
\* meanwhile.  Not told are the workers that workqueue_init was still to put on
\* the list, and a walk that found garbage in the worker_t of a worker that
\* had ended ("crashed") gets past nothing.
EveryWorkerIsTold ==
  hpc \in {"locked", "returned"} => \A w \in Worker \ missed : terminate[w]

Pool == INSTANCE JobPool WITH
          waiting <- ToSet(jobs),
          running <- {job[w] : w \in Worker} \ {NoJob},
          ended <- ended

\* The threads together keep the promise of JobPool.
ImplementsJobPool == Pool!Spec

\* Without a shutdown a job does not wait for ever while some worker has
\* nothing to run: it is taken, or all the workers are busy.
JobsStart ==
  [](hpc = "off") =>
    \A j \in Job : j \in ToSet(jobs) ~>
                     j \notin ToSet(jobs) \/ \A w \in Worker : wpc[w] = "run"

\* killServer announces "Stopping workers.": when workqueue_shutdown has
\* returned, every worker that was on the list when the walk began ends.
WorkersStop ==
  hpc = "returned" ~> \A w \in Worker \ missed : wpc[w] = "exited"

\* workqueue_shutdown, which the handler calls after it has announced "Shutting
\* down.", returns or reads a worker that is gone, except where it hangs: the
\* thread it interrupts owns jobs_mutex, or a worker has ended with the mutex.
ShutdownReturns ==
  hpc = "walk" ~> \/ hpc \in {"returned", "crashed"}
                  \/ mutex = host
                  \/ mutex \in Exited
==============================================================================
