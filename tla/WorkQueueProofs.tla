--------------------------- MODULE WorkQueueProofs ---------------------------
(***************************************************************************)
(* Proofs about WorkQueue for any number of workers and jobs: the mutex    *)
(* has one owner, a job is in one place, no wakeup is lost, the shutdown   *)
(* tells every worker, and the threads implement JobPool.                  *)
(***************************************************************************)
EXTENDS WorkQueue, FiniteSetTheorems, TLAPS

\* The owner of the mutex is the one thread between its lock and its unlock;
\* a worker that has ended may still own it.
Owners ==
  /\ mutex = Main <=> mpc = "locked"
  /\ mutex = Handler <=> hpc = "locked"
  /\ \A w \in Worker : wpc[w] = "locked" => mutex = w
  /\ \A w \in Worker : mutex = w => wpc[w] \in {"locked", "exited"}

\* What the local variables of a thread are at its position.
Locals ==
  /\ mpc = "list" => next \in Worker
  /\ mpc = "locked" => next \in Job
  /\ \A w \in Worker : job[w] # NoJob <=> wpc[w] = "run"
  /\ \A w \in asleep : wpc[w] = "lock"
  /\ hpc = "off" => \A w \in Worker : ~terminate[w]

\* Every job anywhere has been handed to workqueue_add_job.
WereAdded ==
  /\ ToSet(jobs) \subseteq added /\ ended \subseteq added
  /\ \A w \in Worker : job[w] # NoJob => job[w] \in added
  /\ mpc = "locked" => next \in added

\* The list of workers is complete when workqueue_init returns, and the walk
\* of workqueue_shutdown leaves nobody behind.
Walk ==
  /\ hpc = "off" =>
       \A w \in Created : w \in ToSet(workers) \/ (mpc = "list" /\ w = next)
  /\ mpc \in {"ready", "locked"} => Created = Worker
  /\ hpc = "step" => cursor # <<>> /\ terminate[Head(cursor)]
  /\ hpc \in {"walk", "step"} =>
       \A w \in Worker \ missed : terminate[w] \/ w \in ToSet(cursor)

IInv == /\ TypeOK /\ Owners /\ Locals
        /\ WereAdded /\ JobInOnePlace
        /\ EnoughAwake
        /\ Walk /\ EveryWorkerIsTold

-----------------------------------------------------------------------------
(* Lists.                                                                  *)

LEMMA Pushed ==
  ASSUME NEW S, NEW s \in Seq(S), NEW x \in S
  PROVE  /\ <<x>> \o s \in Seq(S)
         /\ Len(<<x>> \o s) = Len(s) + 1
         /\ (<<x>> \o s)[1] = x
         /\ \A i \in 2 .. Len(s) + 1 : (<<x>> \o s)[i] = s[i - 1]
         /\ ToSet(<<x>> \o s) = {x} \cup ToSet(s)
<1>1. /\ <<x>> \o s \in Seq(S)
      /\ Len(<<x>> \o s) = Len(s) + 1
      /\ (<<x>> \o s)[1] = x
      /\ \A i \in 2 .. Len(s) + 1 : (<<x>> \o s)[i] = s[i - 1]
  OBVIOUS
<1>2. ASSUME NEW y \in ToSet(s) PROVE y \in ToSet(<<x>> \o s)
  <2>1. PICK i \in 1 .. Len(s) : s[i] = y
    BY DEF ToSet
  <2>2. i + 1 \in 2 .. Len(s) + 1 /\ i + 1 \in 1 .. Len(<<x>> \o s)
    BY <1>1
  <2>3. (<<x>> \o s)[i + 1] = y
    BY <1>1, <2>1, <2>2
  <2> QED BY <2>2, <2>3 DEF ToSet
<1>3. ASSUME NEW y \in ToSet(<<x>> \o s) PROVE y \in {x} \cup ToSet(s)
  <2>1. PICK i \in 1 .. Len(s) + 1 : (<<x>> \o s)[i] = y
    BY <1>1 DEF ToSet
  <2>2. CASE i = 1
    BY <1>1, <2>1, <2>2
  <2>3. CASE i # 1
    <3>1. i - 1 \in 1 .. Len(s) /\ s[i - 1] = y
      BY <1>1, <2>1, <2>3
    <3> QED BY <3>1 DEF ToSet
  <2> QED BY <2>2, <2>3
<1>4. x \in ToSet(<<x>> \o s)
  BY <1>1 DEF ToSet
<1> QED BY <1>1, <1>2, <1>3, <1>4

LEMMA Popped ==
  ASSUME NEW S, NEW s \in Seq(S), s # <<>>
  PROVE  /\ Head(s) \in S /\ Tail(s) \in Seq(S)
         /\ Len(s) \in Nat \ {0} /\ Len(Tail(s)) = Len(s) - 1
         /\ Head(s) = s[1]
         /\ \A i \in 1 .. Len(s) - 1 : Tail(s)[i] = s[i + 1]
         /\ ToSet(s) = {Head(s)} \cup ToSet(Tail(s))
<1>1. /\ Head(s) \in S /\ Tail(s) \in Seq(S)
      /\ Len(s) \in Nat \ {0} /\ Len(Tail(s)) = Len(s) - 1
      /\ Head(s) = s[1]
      /\ \A i \in 1 .. Len(s) - 1 : Tail(s)[i] = s[i + 1]
  OBVIOUS
<1>2. ASSUME NEW y \in ToSet(s) PROVE y \in {Head(s)} \cup ToSet(Tail(s))
  <2>1. PICK i \in 1 .. Len(s) : s[i] = y
    BY DEF ToSet
  <2>2. CASE i = 1
    BY <1>1, <2>1, <2>2
  <2>3. CASE i # 1
    <3>1. i - 1 \in 1 .. Len(Tail(s)) /\ Tail(s)[i - 1] = y
      BY <1>1, <2>1, <2>3
    <3> QED BY <3>1 DEF ToSet
  <2> QED BY <2>2, <2>3
<1>3. ASSUME NEW y \in ToSet(Tail(s)) PROVE y \in ToSet(s)
  <2>1. PICK i \in 1 .. Len(s) - 1 : Tail(s)[i] = y
    BY <1>1 DEF ToSet
  <2>2. i + 1 \in 1 .. Len(s) /\ s[i + 1] = y
    BY <1>1, <2>1
  <2> QED BY <2>2 DEF ToSet
<1>4. Head(s) \in ToSet(s)
  BY <1>1 DEF ToSet
<1> QED BY <1>1, <1>2, <1>3, <1>4

LEMMA Emptied == ToSet(<<>>) = {}
BY DEF ToSet

-----------------------------------------------------------------------------
(* Every step preserves each part.                                         *)

LEMMA InitInv == Init => IInv
<1> SUFFICES ASSUME Init PROVE IInv
  OBVIOUS
<1>1. TypeOK
  <2>1. <<>> \in Seq(Job) /\ <<>> \in Seq(Worker)
    OBVIOUS
  <2> QED BY <2>1 DEF Init, TypeOK
<1>2. Owners /\ Locals
  BY ThreadAssumption DEF Init, Owners, Locals, ThreadAssumption
<1>3. WereAdded /\ JobInOnePlace
  BY Emptied DEF Init, WereAdded, JobInOnePlace, ToSet
<1>4. EnoughAwake /\ EveryWorkerIsTold
  BY DEF Init, EnoughAwake, EveryWorkerIsTold
<1>5. Walk
  BY DEF Init, Walk, Created
<1> QED BY <1>1, <1>2, <1>3, <1>4, <1>5 DEF IInv

LEMMA TypeStep ==
  ASSUME TypeOK, Locals, Walk, [Next]_vars
  PROVE  TypeOK'
<1>1. CASE UNCHANGED vars
  BY <1>1 DEF vars, workerVars, mainVars, handlerVars, TypeOK
<1>2. ASSUME NEW w \in Worker, Create(w) PROVE TypeOK'
  BY <1>2 DEF Create, workerVars, mainVars, handlerVars, TypeOK
<1>3. CASE ListWorker
  <2>1. workers' = <<next>> \o workers /\ next \in Worker /\ workers \in Seq(Worker)
    BY <1>3 DEF ListWorker, Locals, TypeOK
  <2>2. workers' \in Seq(Worker)
    BY <2>1, Pushed
  <2> QED BY <1>3, <2>2 DEF ListWorker, workerVars, handlerVars, TypeOK
<1>4. CASE InitFails
  BY <1>4 DEF InitFails, workerVars, mainVars, handlerVars, TypeOK
<1>5. ASSUME NEW j \in Job, AddLock(j) PROVE TypeOK'
  BY <1>5 DEF AddLock, workerVars, mainVars, handlerVars, TypeOK
<1>6. CASE AddPush
  <2>1. jobs' = <<next>> \o jobs /\ next \in Job /\ jobs \in Seq(Job)
    BY <1>6 DEF AddPush, Locals, TypeOK
  <2>2. jobs' \in Seq(Job)
    BY <2>1, Pushed
  <2> QED BY <1>6, <2>2 DEF AddPush, SignalOne, workerVars, handlerVars, TypeOK
<1>7. ASSUME NEW w \in Worker, Lock(w) PROVE TypeOK'
  BY <1>7 DEF Lock, workerVars, mainVars, handlerVars, TypeOK
<1>8. ASSUME NEW w \in Worker, Sleep(w) PROVE TypeOK'
  BY <1>8 DEF Sleep, workerVars, mainVars, handlerVars, TypeOK
<1>9. ASSUME NEW w \in Worker, SpuriousWakeup(w) PROVE TypeOK'
  BY <1>9 DEF SpuriousWakeup, workerVars, mainVars, handlerVars, TypeOK
<1>10. ASSUME NEW w \in Worker, Exit(w) PROVE TypeOK'
  BY <1>10 DEF Exit, workerVars, mainVars, handlerVars, TypeOK
<1>11. ASSUME NEW w \in Worker, Take(w) PROVE TypeOK'
  <2>1. jobs' = Tail(jobs) /\ jobs \in Seq(Job) /\ jobs # <<>>
    BY <1>11 DEF Take, TypeOK
  <2>2. jobs' \in Seq(Job) /\ Head(jobs) \in Job
    BY <2>1, Popped
  <2> QED BY <1>11, <2>2 DEF Take, mainVars, handlerVars, TypeOK
<1>12. ASSUME NEW w \in Worker, JobReturns(w) PROVE TypeOK'
  <2>1. job[w] \in Job
    BY <1>12 DEF JobReturns, Locals, TypeOK
  <2> QED BY <1>12, <2>1 DEF JobReturns, mainVars, handlerVars, TypeOK
<1>13. ASSUME NEW t \in {Main} \cup (Created \ Exited), SignalArrives(t) PROVE TypeOK'
  BY <1>13 DEF SignalArrives, Created, workerVars, mainVars, TypeOK
<1>14. CASE WalkTell
  BY <1>14 DEF WalkTell, workerVars, mainVars, handlerVars, TypeOK
<1>15. CASE WalkStep
  <2>1. cursor' \in Seq(Worker)
    <3>1. CASE cursor = <<>>
      BY <1>15, <3>1 DEF WalkStep, Walk
    <3>2. CASE cursor # <<>>
      <4>1. cursor \in Seq(Worker)
        BY DEF TypeOK
      <4>2. Tail(cursor) \in Seq(Worker) /\ <<>> \in Seq(Worker)
        BY <3>2, <4>1, Popped
      <4> QED BY <1>15, <4>2 DEF WalkStep
    <3> QED BY <3>1, <3>2
  <2> QED BY <1>15, <2>1 DEF WalkStep, workerVars, mainVars, TypeOK
<1>16. CASE ShutdownLock
  BY <1>16 DEF ShutdownLock, workerVars, mainVars, handlerVars, TypeOK
<1>17. CASE Broadcast
  BY <1>17 DEF Broadcast, workerVars, mainVars, handlerVars, TypeOK
<1> QED BY <1>1, <1>2, <1>3, <1>4, <1>5, <1>6, <1>7, <1>8, <1>9, <1>10, <1>11,
            <1>12, <1>13, <1>14, <1>15, <1>16, <1>17
        DEF Next, MainStep, WorkerStep, HandlerStep

LEMMA OwnersStep ==
  ASSUME TypeOK, Owners, [Next]_vars
  PROVE  Owners'
<1>1. CASE UNCHANGED vars
  BY <1>1 DEF vars, workerVars, mainVars, handlerVars, TypeOK, Owners
<1>2. ASSUME NEW w \in Worker, Create(w) PROVE Owners'
  BY <1>2, ThreadAssumption DEF Create, ThreadAssumption, workerVars, mainVars, handlerVars, TypeOK, Owners
<1>3. CASE ListWorker
  BY <1>3, ThreadAssumption DEF ListWorker, ThreadAssumption, workerVars, mainVars, handlerVars, TypeOK, Owners
<1>4. CASE InitFails
  BY <1>4, ThreadAssumption DEF InitFails, workerVars, mainVars, handlerVars, TypeOK, Owners
<1>5. ASSUME NEW j \in Job, AddLock(j) PROVE Owners'
  BY <1>5, ThreadAssumption DEF AddLock, ThreadAssumption, workerVars, mainVars, handlerVars, TypeOK, Owners
<1>6. CASE AddPush
  BY <1>6, ThreadAssumption DEF AddPush, ThreadAssumption, workerVars, mainVars, handlerVars, TypeOK, Owners
<1>7. ASSUME NEW w \in Worker, Lock(w) PROVE Owners'
  BY <1>7, ThreadAssumption DEF Lock, ThreadAssumption, workerVars, mainVars, handlerVars, TypeOK, Owners
<1>8. ASSUME NEW w \in Worker, Sleep(w) PROVE Owners'
  BY <1>8, ThreadAssumption DEF Sleep, ThreadAssumption, workerVars, mainVars, handlerVars, TypeOK, Owners
<1>9. ASSUME NEW w \in Worker, SpuriousWakeup(w) PROVE Owners'
  BY <1>9, ThreadAssumption DEF SpuriousWakeup, ThreadAssumption, workerVars, mainVars, handlerVars, TypeOK, Owners
<1>10. ASSUME NEW w \in Worker, Exit(w) PROVE Owners'
  BY <1>10, ThreadAssumption DEF Exit, ThreadAssumption, workerVars, mainVars, handlerVars, TypeOK, Owners
<1>11. ASSUME NEW w \in Worker, Take(w) PROVE Owners'
  BY <1>11, ThreadAssumption DEF Take, ThreadAssumption, workerVars, mainVars, handlerVars, TypeOK, Owners
<1>12. ASSUME NEW w \in Worker, JobReturns(w) PROVE Owners'
  BY <1>12, ThreadAssumption DEF JobReturns, ThreadAssumption, workerVars, mainVars, handlerVars, TypeOK, Owners
<1>13. ASSUME NEW t \in {Main} \cup (Created \ Exited), SignalArrives(t) PROVE Owners'
  BY <1>13, ThreadAssumption DEF SignalArrives, ThreadAssumption, workerVars, mainVars, handlerVars, TypeOK, Owners
<1>14. CASE WalkTell
  BY <1>14, ThreadAssumption DEF WalkTell, ThreadAssumption, workerVars, mainVars, handlerVars, TypeOK, Owners
<1>15. CASE WalkStep
  BY <1>15, ThreadAssumption DEF WalkStep, ThreadAssumption, workerVars, mainVars, handlerVars, TypeOK, Owners
<1>16. CASE ShutdownLock
  BY <1>16, ThreadAssumption DEF ShutdownLock, ThreadAssumption, workerVars, mainVars, handlerVars, TypeOK, Owners
<1>17. CASE Broadcast
  BY <1>17, ThreadAssumption DEF Broadcast, ThreadAssumption, workerVars, mainVars, handlerVars, TypeOK, Owners
<1> QED BY <1>1, <1>2, <1>3, <1>4, <1>5, <1>6, <1>7, <1>8, <1>9, <1>10, <1>11,
            <1>12, <1>13, <1>14, <1>15, <1>16, <1>17
        DEF Next, MainStep, WorkerStep, HandlerStep

LEMMA LocalsStep ==
  ASSUME TypeOK, Locals, [Next]_vars
  PROVE  Locals'
<1>1. CASE UNCHANGED vars
  BY <1>1 DEF vars, workerVars, mainVars, handlerVars, TypeOK, Locals
<1>2. ASSUME NEW w \in Worker, Create(w) PROVE Locals'
  BY <1>2, ThreadAssumption DEF Create, ThreadAssumption, workerVars, mainVars, handlerVars, TypeOK, Locals
<1>3. CASE ListWorker
  BY <1>3, ThreadAssumption DEF ListWorker, ThreadAssumption, workerVars, mainVars, handlerVars, TypeOK, Locals
<1>4. CASE InitFails
  BY <1>4, ThreadAssumption DEF InitFails, workerVars, mainVars, handlerVars, TypeOK, Locals
<1>5. ASSUME NEW j \in Job, AddLock(j) PROVE Locals'
  BY <1>5, ThreadAssumption DEF AddLock, ThreadAssumption, workerVars, mainVars, handlerVars, TypeOK, Locals
<1>6. CASE AddPush
  BY <1>6, ThreadAssumption DEF AddPush, SignalOne, workerVars, handlerVars, ThreadAssumption, TypeOK, Locals
<1>7. ASSUME NEW w \in Worker, Lock(w) PROVE Locals'
  BY <1>7, ThreadAssumption DEF Lock, ThreadAssumption, workerVars, mainVars, handlerVars, TypeOK, Locals
<1>8. ASSUME NEW w \in Worker, Sleep(w) PROVE Locals'
  BY <1>8, ThreadAssumption DEF Sleep, ThreadAssumption, workerVars, mainVars, handlerVars, TypeOK, Locals
<1>9. ASSUME NEW w \in Worker, SpuriousWakeup(w) PROVE Locals'
  BY <1>9, ThreadAssumption DEF SpuriousWakeup, ThreadAssumption, workerVars, mainVars, handlerVars, TypeOK, Locals
<1>10. ASSUME NEW w \in Worker, Exit(w) PROVE Locals'
  BY <1>10, ThreadAssumption DEF Exit, ThreadAssumption, workerVars, mainVars, handlerVars, TypeOK, Locals
<1>11. ASSUME NEW w \in Worker, Take(w) PROVE Locals'
  <2>1. Head(jobs) \in Job /\ Head(jobs) # NoJob
    BY <1>11, Popped, ThreadAssumption DEF Take, ThreadAssumption, TypeOK
  <2> QED BY <1>11, <2>1 DEF Take, mainVars, handlerVars, TypeOK, Locals
<1>12. ASSUME NEW w \in Worker, JobReturns(w) PROVE Locals'
  BY <1>12, ThreadAssumption DEF JobReturns, ThreadAssumption, workerVars, mainVars, handlerVars, TypeOK, Locals
<1>13. ASSUME NEW t \in {Main} \cup (Created \ Exited), SignalArrives(t) PROVE Locals'
  BY <1>13, ThreadAssumption DEF SignalArrives, ThreadAssumption, workerVars, mainVars, handlerVars, TypeOK, Locals
<1>14. CASE WalkTell
  BY <1>14, ThreadAssumption DEF WalkTell, ThreadAssumption, workerVars, mainVars, handlerVars, TypeOK, Locals
<1>15. CASE WalkStep
  BY <1>15, ThreadAssumption DEF WalkStep, ThreadAssumption, workerVars, mainVars, handlerVars, TypeOK, Locals
<1>16. CASE ShutdownLock
  BY <1>16, ThreadAssumption DEF ShutdownLock, ThreadAssumption, workerVars, mainVars, handlerVars, TypeOK, Locals
<1>17. CASE Broadcast
  BY <1>17, ThreadAssumption DEF Broadcast, ThreadAssumption, workerVars, mainVars, handlerVars, TypeOK, Locals
<1> QED BY <1>1, <1>2, <1>3, <1>4, <1>5, <1>6, <1>7, <1>8, <1>9, <1>10, <1>11,
            <1>12, <1>13, <1>14, <1>15, <1>16, <1>17
        DEF Next, MainStep, WorkerStep, HandlerStep

LEMMA AddedStep ==
  ASSUME TypeOK, Owners, Locals, WereAdded, [Next]_vars
  PROVE  WereAdded'
<1>1. CASE UNCHANGED vars
  BY <1>1 DEF vars, workerVars, mainVars, handlerVars, TypeOK, Locals, WereAdded
<1>2. ASSUME NEW w \in Worker, Create(w) PROVE WereAdded'
  BY <1>2 DEF Create, workerVars, mainVars, handlerVars, TypeOK, Locals, WereAdded
<1>3. CASE ListWorker
  BY <1>3 DEF ListWorker, workerVars, mainVars, handlerVars, TypeOK, Locals, WereAdded
<1>4. CASE InitFails
  BY <1>4 DEF InitFails, workerVars, mainVars, handlerVars, TypeOK, Locals, WereAdded
<1>5. ASSUME NEW j \in Job, AddLock(j) PROVE WereAdded'
  BY <1>5 DEF AddLock, workerVars, mainVars, handlerVars, TypeOK, Locals, WereAdded
<1>6. CASE AddPush
  <2>1. ToSet(jobs') = {next} \cup ToSet(jobs)
    BY <1>6, Pushed DEF AddPush, Locals, TypeOK
  <2> QED BY <1>6, <2>1 DEF AddPush, workerVars, handlerVars, WereAdded
<1>7. ASSUME NEW w \in Worker, Lock(w) PROVE WereAdded'
  BY <1>7 DEF Lock, workerVars, mainVars, handlerVars, TypeOK, Locals, WereAdded
<1>8. ASSUME NEW w \in Worker, Sleep(w) PROVE WereAdded'
  BY <1>8 DEF Sleep, workerVars, mainVars, handlerVars, TypeOK, Locals, WereAdded
<1>9. ASSUME NEW w \in Worker, SpuriousWakeup(w) PROVE WereAdded'
  BY <1>9 DEF SpuriousWakeup, workerVars, mainVars, handlerVars, TypeOK, Locals, WereAdded
<1>10. ASSUME NEW w \in Worker, Exit(w) PROVE WereAdded'
  BY <1>10 DEF Exit, workerVars, mainVars, handlerVars, TypeOK, Locals, WereAdded
<1>11. ASSUME NEW w \in Worker, Take(w) PROVE WereAdded'
  <2>1. ToSet(jobs) = {Head(jobs)} \cup ToSet(jobs')
    BY <1>11, Popped DEF Take, TypeOK
  <2> QED BY <1>11, <2>1 DEF Take, mainVars, handlerVars, TypeOK, WereAdded
<1>12. ASSUME NEW w \in Worker, JobReturns(w) PROVE WereAdded'
  <2>1. job[w] \in added
    BY <1>12 DEF JobReturns, Locals, WereAdded
  <2> QED BY <1>12, <2>1 DEF JobReturns, mainVars, handlerVars, TypeOK, WereAdded
<1>13. ASSUME NEW t \in {Main} \cup (Created \ Exited), SignalArrives(t) PROVE WereAdded'
  BY <1>13 DEF SignalArrives, workerVars, mainVars, handlerVars, TypeOK, Locals, WereAdded
<1>14. CASE WalkTell
  BY <1>14 DEF WalkTell, workerVars, mainVars, handlerVars, TypeOK, Locals, WereAdded
<1>15. CASE WalkStep
  BY <1>15 DEF WalkStep, workerVars, mainVars, handlerVars, TypeOK, Locals, WereAdded
<1>16. CASE ShutdownLock
  BY <1>16 DEF ShutdownLock, workerVars, mainVars, handlerVars, TypeOK, Locals, WereAdded
<1>17. CASE Broadcast
  BY <1>17, Emptied DEF Broadcast, workerVars, mainVars, WereAdded
<1> QED BY <1>1, <1>2, <1>3, <1>4, <1>5, <1>6, <1>7, <1>8, <1>9, <1>10, <1>11,
            <1>12, <1>13, <1>14, <1>15, <1>16, <1>17
        DEF Next, MainStep, WorkerStep, HandlerStep

\* A job changes its place in one step: where it comes from it is no more.
LEMMA PlaceStep ==
  ASSUME TypeOK, Owners, Locals, WereAdded, JobInOnePlace, [Next]_vars
  PROVE  JobInOnePlace'
<1>1. CASE UNCHANGED vars
  BY <1>1 DEF vars, workerVars, mainVars, handlerVars, JobInOnePlace
<1>2. ASSUME NEW w \in Worker, Create(w) PROVE JobInOnePlace'
  BY <1>2 DEF Create, workerVars, mainVars, handlerVars, JobInOnePlace
<1>3. CASE ListWorker
  BY <1>3 DEF ListWorker, workerVars, handlerVars, JobInOnePlace
<1>4. CASE InitFails
  BY <1>4 DEF InitFails, workerVars, mainVars, handlerVars, JobInOnePlace
<1>5. ASSUME NEW j \in Job, AddLock(j) PROVE JobInOnePlace'
  <2>1. j \notin ToSet(jobs) \cup ended \cup {job[w] : w \in Worker}
    BY <1>5, ThreadAssumption DEF AddLock, ThreadAssumption, WereAdded
  <2> QED BY <1>5, <2>1 DEF AddLock, workerVars, handlerVars, JobInOnePlace
<1>6. CASE AddPush
  <2>1. next \notin ToSet(jobs) \cup ended \cup {job[w] : w \in Worker}
    BY <1>6 DEF AddPush, JobInOnePlace
  <2>2. /\ Len(jobs') = Len(jobs) + 1 /\ Len(jobs) \in Nat /\ jobs'[1] = next
        /\ \A i \in 2 .. Len(jobs) + 1 : jobs'[i] = jobs[i - 1]
        /\ ToSet(jobs') = {next} \cup ToSet(jobs)
    BY <1>6, Pushed DEF AddPush, Locals, TypeOK
  <2>3. ASSUME NEW i \in 1 .. Len(jobs'), NEW k \in 1 .. Len(jobs'), jobs'[i] = jobs'[k]
        PROVE  i = k
    <3>1. \A l \in 2 .. Len(jobs) + 1 : /\ jobs'[l] = jobs[l - 1] /\ l - 1 \in 1 .. Len(jobs)
                                        /\ jobs'[l] # next
      BY <2>1, <2>2 DEF ToSet
    <3>2. CASE i = 1 \/ k = 1
      BY <2>2, <2>3, <3>1, <3>2
    <3>3. CASE i # 1 /\ k # 1
      <4>1. /\ i \in 2 .. Len(jobs) + 1 /\ k \in 2 .. Len(jobs) + 1
            /\ i - 1 \in 1 .. Len(jobs) /\ k - 1 \in 1 .. Len(jobs)
        BY <2>2, <3>3
      <4>2. jobs[i - 1] = jobs[k - 1]
        BY <2>3, <3>1, <4>1
      <4>3. i - 1 = k - 1
        BY <4>1, <4>2 DEF JobInOnePlace
      <4> QED BY <4>3
    <3> QED BY <3>2, <3>3
  <2> QED BY <1>6, <2>1, <2>2, <2>3 DEF AddPush, workerVars, handlerVars, JobInOnePlace
<1>7. ASSUME NEW w \in Worker, Lock(w) PROVE JobInOnePlace'
  BY <1>7 DEF Lock, workerVars, mainVars, handlerVars, JobInOnePlace
<1>8. ASSUME NEW w \in Worker, Sleep(w) PROVE JobInOnePlace'
  BY <1>8 DEF Sleep, workerVars, mainVars, handlerVars, JobInOnePlace
<1>9. ASSUME NEW w \in Worker, SpuriousWakeup(w) PROVE JobInOnePlace'
  BY <1>9 DEF SpuriousWakeup, workerVars, mainVars, handlerVars, JobInOnePlace
<1>10. ASSUME NEW w \in Worker, Exit(w) PROVE JobInOnePlace'
  BY <1>10 DEF Exit, workerVars, mainVars, handlerVars, JobInOnePlace
<1>11. ASSUME NEW w \in Worker, Take(w) PROVE JobInOnePlace'
  <2>1. /\ jobs \in Seq(Job) /\ jobs # <<>> /\ jobs' = Tail(jobs)
        /\ job' = [job EXCEPT ![w] = Head(jobs)]
    BY <1>11 DEF Take, TypeOK
  <2>2. /\ Len(jobs) \in Nat \ {0} /\ Len(jobs') = Len(jobs) - 1 /\ Head(jobs) = jobs[1]
        /\ \A i \in 1 .. Len(jobs) - 1 : jobs'[i] = jobs[i + 1]
        /\ ToSet(jobs) = {Head(jobs)} \cup ToSet(jobs')
    BY <2>1, Popped
  <2>3. \A i, k \in 1 .. Len(jobs') : jobs'[i] = jobs'[k] => i = k
    <3>1. \A i \in 1 .. Len(jobs') : jobs'[i] = jobs[i + 1] /\ i + 1 \in 1 .. Len(jobs)
      BY <2>2
    <3>2. \A i, k \in 1 .. Len(jobs') : jobs'[i] = jobs'[k] => i + 1 = k + 1
      BY <3>1 DEF JobInOnePlace
    <3> QED BY <3>2
  <2>4. Head(jobs) \notin ToSet(jobs')
    <3>1. \A i \in 1 .. Len(jobs') : /\ jobs'[i] = jobs[i + 1] /\ i + 1 \in 1 .. Len(jobs)
                                     /\ 1 \in 1 .. Len(jobs) /\ i + 1 # 1
      BY <2>2
    <3>2. \A i \in 1 .. Len(jobs') : jobs'[i] # jobs[1]
      BY <3>1 DEF JobInOnePlace
    <3> QED BY <2>2, <3>2 DEF ToSet
  <2>5. \A v \in Worker : job'[v] = IF v = w THEN Head(jobs) ELSE job[v]
    BY <2>1 DEF TypeOK
  <2>6. \A v \in Worker : job[v] # Head(jobs)
    BY <2>2 DEF JobInOnePlace
  <2>7. mpc' = mpc /\ next' = next /\ ended' = ended
    BY <1>11 DEF Take, mainVars
  <2> QED BY <2>2, <2>3, <2>4, <2>5, <2>6, <2>7 DEF JobInOnePlace
<1>12. ASSUME NEW w \in Worker, JobReturns(w) PROVE JobInOnePlace'
  <2>1. \A v \in Worker : job'[v] = IF v = w THEN NoJob ELSE job[v]
    BY <1>12 DEF JobReturns, TypeOK
  <2>2. jobs' = jobs /\ mpc' = mpc /\ next' = next /\ ended' = ended \cup {job[w]}
    BY <1>12 DEF JobReturns, mainVars
  <2>3. job[w] # NoJob /\ NoJob \notin ToSet(jobs) \cup ended'
    <3>1. job[w] # NoJob
      BY <1>12 DEF JobReturns, Locals
    <3>2. NoJob \notin added
      BY ThreadAssumption DEF ThreadAssumption, TypeOK
    <3> QED BY <2>2, <3>1, <3>2 DEF WereAdded
  <2>4. mpc = "locked" => next # NoJob
    BY ThreadAssumption DEF ThreadAssumption, Locals
  <2> QED BY <2>1, <2>2, <2>3, <2>4 DEF JobInOnePlace
<1>13. ASSUME NEW t \in {Main} \cup (Created \ Exited), SignalArrives(t) PROVE JobInOnePlace'
  BY <1>13 DEF SignalArrives, workerVars, mainVars, handlerVars, JobInOnePlace
<1>14. CASE WalkTell
  BY <1>14 DEF WalkTell, workerVars, mainVars, handlerVars, JobInOnePlace
<1>15. CASE WalkStep
  BY <1>15 DEF WalkStep, workerVars, mainVars, handlerVars, JobInOnePlace
<1>16. CASE ShutdownLock
  BY <1>16 DEF ShutdownLock, workerVars, mainVars, handlerVars, JobInOnePlace
<1>17. CASE Broadcast
  <2>1. jobs' = <<>> /\ job' = job /\ mpc' = mpc /\ next' = next /\ ended' = ended
    BY <1>17 DEF Broadcast, workerVars, mainVars
  <2> QED BY <2>1, Emptied DEF JobInOnePlace
<1> QED BY <1>1, <1>2, <1>3, <1>4, <1>5, <1>6, <1>7, <1>8, <1>9, <1>10, <1>11,
            <1>12, <1>13, <1>14, <1>15, <1>16, <1>17
        DEF Next, MainStep, WorkerStep, HandlerStep

\* The workers on their way to the list.
Awake == {w \in Worker \ asleep : wpc[w] \in {"lock", "locked"}}

LEMMA AwakeFinite ==
  /\ IsFiniteSet(Awake) /\ IsFiniteSet(Awake')
  /\ Cardinality(Awake) \in Nat /\ Cardinality(Awake') \in Nat
<1>1. IsFiniteSet(Awake) /\ IsFiniteSet(Awake')
  <2>1. Awake \subseteq Worker /\ Awake' \subseteq Worker
    BY DEF Awake
  <2> QED BY <2>1, ThreadAssumption, FS_Subset DEF ThreadAssumption
<1> QED BY <1>1, FS_CardinalityType

\* A job that is added wakes a sleeper, and a worker that takes one had come
\* to the list.
LEMMA AwakeStep ==
  ASSUME TypeOK, Locals, EnoughAwake, [Next]_vars
  PROVE  EnoughAwake'
<1>0. ASSUME Awake \subseteq Awake', jobs' = jobs, hpc' = hpc, asleep' \subseteq asleep
      PROVE  EnoughAwake'
  <2>1. Cardinality(Awake) <= Cardinality(Awake')
    BY <1>0, AwakeFinite, FS_Subset
  <2>2. Len(jobs) \in Nat
    BY DEF TypeOK
  <2>3. hpc = "off" /\ asleep # {} => Cardinality(Awake) >= Len(jobs)
    BY DEF EnoughAwake, Awake
  <2>4. hpc' = "off" /\ asleep' # {} => Cardinality(Awake') >= Len(jobs')
    BY <1>0, <2>1, <2>2, <2>3, AwakeFinite
  <2> QED BY <2>4 DEF EnoughAwake, Awake
<1>1. CASE UNCHANGED vars
  BY <1>0, <1>1 DEF vars, Awake
<1>2. ASSUME NEW w \in Worker, Create(w) PROVE EnoughAwake'
  BY <1>2, <1>0 DEF Create, workerVars, mainVars, handlerVars, TypeOK, Awake
<1>3. CASE ListWorker
  BY <1>3, <1>0 DEF ListWorker, workerVars, mainVars, handlerVars, TypeOK, Awake
<1>4. CASE InitFails
  BY <1>4 DEF InitFails, EnoughAwake
<1>5. ASSUME NEW j \in Job, AddLock(j) PROVE EnoughAwake'
  BY <1>5, <1>0 DEF AddLock, workerVars, mainVars, handlerVars, TypeOK, Awake
<1>6. CASE AddPush
  <2>1. /\ Len(jobs') = Len(jobs) + 1 /\ Len(jobs) \in Nat
        /\ hpc' = hpc /\ wpc' = wpc
    BY <1>6, Pushed DEF AddPush, workerVars, handlerVars, Locals, TypeOK
  <2>2. CASE asleep = {}
    BY <1>6, <2>2 DEF AddPush, SignalOne, EnoughAwake
  <2>3. CASE asleep # {}
    <3>1. PICK w \in asleep : asleep' = asleep \ {w}
      BY <1>6, <2>3 DEF AddPush, SignalOne
    <3>2. w \in Worker /\ wpc[w] = "lock"
      BY DEF Locals, TypeOK
    <3>3. Awake' = Awake \cup {w} /\ w \notin Awake
      BY <2>1, <3>1, <3>2 DEF Awake
    <3>4. Cardinality(Awake') = Cardinality(Awake) + 1
      BY <3>3, AwakeFinite, FS_AddElement
    <3>5. hpc = "off" => Cardinality(Awake) >= Len(jobs)
      BY <2>3 DEF EnoughAwake, Awake
    <3>6. hpc' = "off" => Cardinality(Awake') >= Len(jobs')
      BY <2>1, <3>4, <3>5, AwakeFinite
    <3> QED BY <3>6 DEF EnoughAwake, Awake
  <2> QED BY <2>2, <2>3
<1>7. ASSUME NEW w \in Worker, Lock(w) PROVE EnoughAwake'
  BY <1>7, <1>0 DEF Lock, workerVars, mainVars, handlerVars, TypeOK, Awake
<1>8. ASSUME NEW w \in Worker, Sleep(w) PROVE EnoughAwake'
  <2>1. Len(jobs') = 0
    BY <1>8 DEF Sleep
  <2> QED BY <2>1, AwakeFinite DEF EnoughAwake, Awake
<1>9. ASSUME NEW w \in Worker, SpuriousWakeup(w) PROVE EnoughAwake'
  BY <1>9, <1>0 DEF SpuriousWakeup, workerVars, mainVars, handlerVars, TypeOK, Awake
<1>10. ASSUME NEW w \in Worker, Exit(w) PROVE EnoughAwake'
  BY <1>10 DEF Exit, handlerVars, Locals, EnoughAwake
<1>11. ASSUME NEW w \in Worker, Take(w) PROVE EnoughAwake'
  <2>1. /\ Len(jobs') = Len(jobs) - 1 /\ Len(jobs) \in Nat
        /\ hpc' = hpc /\ asleep' = asleep /\ wpc[w] = "locked"
        /\ wpc' = [wpc EXCEPT ![w] = "run"]
    BY <1>11, Popped DEF Take, handlerVars, TypeOK
  <2>2. Awake' = Awake \ {w} /\ w \in Awake
    BY <2>1 DEF Awake, Locals, TypeOK
  <2>3. Cardinality(Awake') = Cardinality(Awake) - 1
    BY <2>2, AwakeFinite, FS_RemoveElement
  <2>4. hpc = "off" /\ asleep # {} => Cardinality(Awake) >= Len(jobs)
    BY DEF EnoughAwake, Awake
  <2>5. hpc' = "off" /\ asleep' # {} => Cardinality(Awake') >= Len(jobs')
    BY <2>1, <2>3, <2>4, AwakeFinite
  <2> QED BY <2>5 DEF EnoughAwake, Awake
<1>12. ASSUME NEW w \in Worker, JobReturns(w) PROVE EnoughAwake'
  BY <1>12, <1>0 DEF JobReturns, workerVars, mainVars, handlerVars, TypeOK, Awake
<1>13. ASSUME NEW t \in {Main} \cup (Created \ Exited), SignalArrives(t) PROVE EnoughAwake'
  BY <1>13 DEF SignalArrives, EnoughAwake
<1>14. CASE WalkTell
  BY <1>14 DEF WalkTell, EnoughAwake
<1>15. CASE WalkStep
  BY <1>15 DEF WalkStep, EnoughAwake
<1>16. CASE ShutdownLock
  BY <1>16 DEF ShutdownLock, EnoughAwake
<1>17. CASE Broadcast
  BY <1>17 DEF Broadcast, EnoughAwake
<1> QED BY <1>1, <1>2, <1>3, <1>4, <1>5, <1>6, <1>7, <1>8, <1>9, <1>10, <1>11,
            <1>12, <1>13, <1>14, <1>15, <1>16, <1>17
        DEF Next, MainStep, WorkerStep, HandlerStep

LEMMA WalkKept ==
  ASSUME TypeOK, Locals, Walk, [Next]_vars
  PROVE  Walk'
<1>1. CASE UNCHANGED vars
  BY <1>1 DEF vars, workerVars, mainVars, handlerVars, TypeOK, Walk, Created
<1>2. ASSUME NEW w \in Worker, Create(w) PROVE Walk'
  BY <1>2 DEF Create, workerVars, mainVars, handlerVars, TypeOK, Walk, Created
<1>3. CASE ListWorker
  <2>1. workers' = <<next>> \o workers /\ next \in Worker /\ workers \in Seq(Worker)
    BY <1>3 DEF ListWorker, Locals, TypeOK
  <2>2. ToSet(workers') = {next} \cup ToSet(workers)
    BY <2>1, Pushed
  <2> QED BY <1>3, <2>2 DEF ListWorker, workerVars, handlerVars, Walk, Created
<1>4. CASE InitFails
  BY <1>4 DEF InitFails, workerVars, mainVars, handlerVars, TypeOK, Walk, Created
<1>5. ASSUME NEW j \in Job, AddLock(j) PROVE Walk'
  BY <1>5 DEF AddLock, workerVars, mainVars, handlerVars, TypeOK, Walk, Created
<1>6. CASE AddPush
  BY <1>6 DEF AddPush, workerVars, mainVars, handlerVars, TypeOK, Walk, Created
<1>7. ASSUME NEW w \in Worker, Lock(w) PROVE Walk'
  BY <1>7 DEF Lock, workerVars, mainVars, handlerVars, TypeOK, Walk, Created
<1>8. ASSUME NEW w \in Worker, Sleep(w) PROVE Walk'
  BY <1>8 DEF Sleep, workerVars, mainVars, handlerVars, TypeOK, Walk, Created
<1>9. ASSUME NEW w \in Worker, SpuriousWakeup(w) PROVE Walk'
  BY <1>9 DEF SpuriousWakeup, workerVars, mainVars, handlerVars, TypeOK, Walk, Created
<1>10. ASSUME NEW w \in Worker, Exit(w) PROVE Walk'
  BY <1>10 DEF Exit, workerVars, mainVars, handlerVars, TypeOK, Walk, Created
<1>11. ASSUME NEW w \in Worker, Take(w) PROVE Walk'
  BY <1>11 DEF Take, workerVars, mainVars, handlerVars, TypeOK, Walk, Created
<1>12. ASSUME NEW w \in Worker, JobReturns(w) PROVE Walk'
  BY <1>12 DEF JobReturns, workerVars, mainVars, handlerVars, TypeOK, Walk, Created
<1>13. ASSUME NEW t \in {Main} \cup (Created \ Exited), SignalArrives(t) PROVE Walk'
  BY <1>13 DEF SignalArrives, workerVars, mainVars, TypeOK, Walk, Created
<1>14. CASE WalkTell
  <2>1. Head(cursor) \in Worker /\ ToSet(cursor) = {Head(cursor)} \cup ToSet(Tail(cursor))
    BY <1>14, Popped DEF WalkTell, TypeOK
  <2> QED BY <1>14, <2>1 DEF WalkTell, workerVars, mainVars, TypeOK, Walk, Created
<1>15. CASE WalkStep
  <2>1. ToSet(cursor) = {Head(cursor)} \cup ToSet(Tail(cursor))
    BY <1>15, Popped DEF WalkStep, TypeOK, Walk
  <2> QED BY <1>15, <2>1 DEF WalkStep, workerVars, mainVars, Walk, Created
<1>16. CASE ShutdownLock
  BY <1>16 DEF ShutdownLock, workerVars, mainVars, handlerVars, TypeOK, Walk, Created
<1>17. CASE Broadcast
  BY <1>17 DEF Broadcast, workerVars, mainVars, handlerVars, TypeOK, Walk, Created
<1> QED BY <1>1, <1>2, <1>3, <1>4, <1>5, <1>6, <1>7, <1>8, <1>9, <1>10, <1>11,
            <1>12, <1>13, <1>14, <1>15, <1>16, <1>17
        DEF Next, MainStep, WorkerStep, HandlerStep

LEMMA ToldStep ==
  ASSUME TypeOK, Locals, Walk, EveryWorkerIsTold, [Next]_vars
  PROVE  EveryWorkerIsTold'
<1>1. CASE UNCHANGED vars
  BY <1>1 DEF vars, workerVars, mainVars, handlerVars, TypeOK, EveryWorkerIsTold
<1>2. ASSUME NEW w \in Worker, Create(w) PROVE EveryWorkerIsTold'
  BY <1>2 DEF Create, workerVars, mainVars, handlerVars, TypeOK, EveryWorkerIsTold
<1>3. CASE ListWorker
  BY <1>3 DEF ListWorker, workerVars, mainVars, handlerVars, TypeOK, EveryWorkerIsTold
<1>4. CASE InitFails
  BY <1>4 DEF InitFails, workerVars, mainVars, handlerVars, TypeOK, EveryWorkerIsTold
<1>5. ASSUME NEW j \in Job, AddLock(j) PROVE EveryWorkerIsTold'
  BY <1>5 DEF AddLock, workerVars, mainVars, handlerVars, TypeOK, EveryWorkerIsTold
<1>6. CASE AddPush
  BY <1>6 DEF AddPush, workerVars, mainVars, handlerVars, TypeOK, EveryWorkerIsTold
<1>7. ASSUME NEW w \in Worker, Lock(w) PROVE EveryWorkerIsTold'
  BY <1>7 DEF Lock, workerVars, mainVars, handlerVars, TypeOK, EveryWorkerIsTold
<1>8. ASSUME NEW w \in Worker, Sleep(w) PROVE EveryWorkerIsTold'
  BY <1>8 DEF Sleep, workerVars, mainVars, handlerVars, TypeOK, EveryWorkerIsTold
<1>9. ASSUME NEW w \in Worker, SpuriousWakeup(w) PROVE EveryWorkerIsTold'
  BY <1>9 DEF SpuriousWakeup, workerVars, mainVars, handlerVars, TypeOK, EveryWorkerIsTold
<1>10. ASSUME NEW w \in Worker, Exit(w) PROVE EveryWorkerIsTold'
  BY <1>10 DEF Exit, workerVars, mainVars, handlerVars, TypeOK, EveryWorkerIsTold
<1>11. ASSUME NEW w \in Worker, Take(w) PROVE EveryWorkerIsTold'
  BY <1>11 DEF Take, workerVars, mainVars, handlerVars, TypeOK, EveryWorkerIsTold
<1>12. ASSUME NEW w \in Worker, JobReturns(w) PROVE EveryWorkerIsTold'
  BY <1>12 DEF JobReturns, workerVars, mainVars, handlerVars, TypeOK, EveryWorkerIsTold
<1>13. ASSUME NEW t \in {Main} \cup (Created \ Exited), SignalArrives(t) PROVE EveryWorkerIsTold'
  BY <1>13 DEF SignalArrives, workerVars, mainVars, handlerVars, TypeOK, EveryWorkerIsTold
<1>14. CASE WalkTell
  BY <1>14 DEF WalkTell, workerVars, mainVars, handlerVars, TypeOK, EveryWorkerIsTold
<1>15. CASE WalkStep
  BY <1>15 DEF WalkStep, workerVars, mainVars, handlerVars, TypeOK, EveryWorkerIsTold
<1>16. CASE ShutdownLock
  BY <1>16, Emptied DEF ShutdownLock, Walk, EveryWorkerIsTold
<1>17. CASE Broadcast
  BY <1>17 DEF Broadcast, workerVars, mainVars, handlerVars, TypeOK, EveryWorkerIsTold
<1> QED BY <1>1, <1>2, <1>3, <1>4, <1>5, <1>6, <1>7, <1>8, <1>9, <1>10, <1>11,
            <1>12, <1>13, <1>14, <1>15, <1>16, <1>17
        DEF Next, MainStep, WorkerStep, HandlerStep

LEMMA StepInv == IInv /\ [Next]_vars => IInv'
BY TypeStep, OwnersStep, LocalsStep, AddedStep, PlaceStep, AwakeStep, WalkKept,
   ToldStep DEF IInv

-----------------------------------------------------------------------------
(* Theorems.                                                               *)

THEOREM Invariant == Spec => []IInv
BY InitInv, StepInv, PTL DEF Spec

\* The state of the queue keeps its type for any workers and jobs.
THEOREM TypeCorrect == Spec => []TypeOK
BY Invariant, PTL DEF IInv

\* One thread at a time is between the lock and the unlock of jobs_mutex.
THEOREM MutualExclusion == Spec => []Owners
BY Invariant, PTL DEF IInv

\* A job is in the list once, with one worker, or done.
THEOREM EachJobOnce == Spec => []JobInOnePlace
BY Invariant, PTL DEF IInv

\* No wakeup is lost, for any number of workers and jobs.
THEOREM NoWakeupLost == Spec => []EnoughAwake
BY Invariant, PTL DEF IInv

\* The walk of workqueue_shutdown reaches every worker that was on the list
\* when it began, however the workers and workqueue_init go on meanwhile.
THEOREM AllAreTold == Spec => []EveryWorkerIsTold
BY Invariant, PTL DEF IInv

\* The jobs that are being run.
Running == {job[w] : w \in Worker} \ {NoJob}

\* A push adds, a take starts, a return ends; the broadcast drops; the rest
\* stutters.
LEMMA PoolStep ==
  ASSUME IInv, [Next]_vars
  PROVE  [Pool!Next]_(Pool!vars)
<1> USE DEF IInv
<1>0. ASSUME UNCHANGED <<jobs, job, ended>> PROVE UNCHANGED Pool!vars
  BY <1>0 DEF Pool!vars
<1>1. CASE UNCHANGED vars
  BY <1>0, <1>1 DEF vars, workerVars
<1>2. ASSUME NEW w \in Worker, Create(w) PROVE [Pool!Next]_(Pool!vars)
  BY <1>2, <1>0 DEF Create, workerVars, mainVars, handlerVars
<1>3. CASE ListWorker
  BY <1>3, <1>0 DEF ListWorker, workerVars, mainVars, handlerVars
<1>4. CASE InitFails
  BY <1>4, <1>0 DEF InitFails, workerVars, mainVars, handlerVars
<1>5. ASSUME NEW j \in Job, AddLock(j) PROVE [Pool!Next]_(Pool!vars)
  BY <1>5, <1>0 DEF AddLock, workerVars, mainVars, handlerVars
<1>6. CASE AddPush
  <2>1. /\ ToSet(jobs') = {next} \cup ToSet(jobs) /\ next \in Job
        /\ job' = job /\ ended' = ended
    BY <1>6, Pushed DEF AddPush, workerVars, Locals, TypeOK
  <2>2. next \notin ToSet(jobs) \cup Running \cup ended
    BY <1>6 DEF AddPush, JobInOnePlace, Running
  <2>3. Pool!Add(next)
    BY <2>1, <2>2 DEF Pool!Add, Running
  <2> QED BY <2>1, <2>3 DEF Pool!Next
<1>7. ASSUME NEW w \in Worker, Lock(w) PROVE [Pool!Next]_(Pool!vars)
  BY <1>7, <1>0 DEF Lock, workerVars, mainVars, handlerVars
<1>8. ASSUME NEW w \in Worker, Sleep(w) PROVE [Pool!Next]_(Pool!vars)
  BY <1>8, <1>0 DEF Sleep, workerVars, mainVars, handlerVars
<1>9. ASSUME NEW w \in Worker, SpuriousWakeup(w) PROVE [Pool!Next]_(Pool!vars)
  BY <1>9, <1>0 DEF SpuriousWakeup, workerVars, mainVars, handlerVars
<1>10. ASSUME NEW w \in Worker, Exit(w) PROVE [Pool!Next]_(Pool!vars)
  BY <1>10, <1>0 DEF Exit, workerVars, mainVars, handlerVars
<1>11. ASSUME NEW w \in Worker, Take(w) PROVE [Pool!Next]_(Pool!vars)
  <2> DEFINE j == Head(jobs)
  <2>1. /\ j \in Job /\ ToSet(jobs) = {j} \cup ToSet(jobs') /\ ended' = ended
        /\ jobs \in Seq(Job) /\ Len(jobs) \in Nat \ {0} /\ j = jobs[1]
        /\ Len(jobs') = Len(jobs) - 1
        /\ \A i \in 1 .. Len(jobs) - 1 : jobs'[i] = jobs[i + 1]
        /\ job' = [job EXCEPT ![w] = j] /\ job[w] = NoJob
    BY <1>11, Popped DEF Take, Locals, TypeOK
  <2>2. j \notin ToSet(jobs')
    <3>1. \A i \in 1 .. Len(jobs') : /\ jobs'[i] = jobs[i + 1] /\ i + 1 \in 1 .. Len(jobs)
                                     /\ 1 \in 1 .. Len(jobs) /\ i + 1 # 1
      BY <2>1
    <3>2. \A i \in 1 .. Len(jobs') : jobs'[i] # jobs[1]
      BY <3>1 DEF JobInOnePlace
    <3> QED BY <2>1, <3>2 DEF ToSet
  <2>3. \A v \in Worker : job'[v] = IF v = w THEN j ELSE job[v]
    BY <2>1 DEF TypeOK
  <2>4. j # NoJob
    BY <2>1, ThreadAssumption DEF ThreadAssumption
  <2> HIDE DEF j
  <2>5. Running' = Running \cup {j}
    BY <2>1, <2>3, <2>4 DEF Running
  <2>6. Pool!Start(j)
    BY <2>1, <2>2, <2>5 DEF Pool!Start, Running
  <2> QED BY <2>1, <2>6 DEF Pool!Next, Pool!Start
<1>12. ASSUME NEW w \in Worker, JobReturns(w) PROVE [Pool!Next]_(Pool!vars)
  <2> DEFINE j == job[w]
  <2>1. /\ jobs' = jobs /\ ended' = ended \cup {j}
        /\ j \in Job /\ j # NoJob
    BY <1>12 DEF JobReturns, Locals, TypeOK
  <2>2. \A v \in Worker : job'[v] = IF v = w THEN NoJob ELSE job[v]
    BY <1>12 DEF JobReturns, TypeOK
  <2>3. \A v \in Worker : job[v] = j => v = w
    BY <2>1 DEF JobInOnePlace
  <2>4. Running' = Running \ {j} /\ j \in Running
    BY <2>1, <2>2, <2>3 DEF Running
  <2>5. Pool!End(j)
    BY <2>1, <2>4 DEF Pool!End, Running
  <2> QED BY <2>1, <2>5 DEF Pool!Next, Pool!End
<1>13. ASSUME NEW t \in {Main} \cup (Created \ Exited), SignalArrives(t) PROVE [Pool!Next]_(Pool!vars)
  BY <1>13, <1>0 DEF SignalArrives, workerVars, mainVars, handlerVars
<1>14. CASE WalkTell
  BY <1>14, <1>0 DEF WalkTell, workerVars, mainVars, handlerVars
<1>15. CASE WalkStep
  BY <1>15, <1>0 DEF WalkStep, workerVars, mainVars, handlerVars
<1>16. CASE ShutdownLock
  BY <1>16, <1>0 DEF ShutdownLock, workerVars, mainVars, handlerVars
<1>17. CASE Broadcast
  <2>1. ToSet(jobs') = {} /\ job' = job /\ ended' = ended
    BY <1>17, Emptied DEF Broadcast, workerVars
  <2> QED BY <2>1 DEF Pool!Next, Pool!DropAll
<1> QED BY <1>1, <1>2, <1>3, <1>4, <1>5, <1>6, <1>7, <1>8, <1>9, <1>10, <1>11,
            <1>12, <1>13, <1>14, <1>15, <1>16, <1>17
        DEF Next, MainStep, WorkerStep, HandlerStep

\* The threads together are a pool that runs each job once.
THEOREM ThreadsImplementJobPool == Spec => ImplementsJobPool
<1>1. Init => Pool!Init
  BY Emptied, ThreadAssumption DEF Init, Pool!Init, ThreadAssumption
<1>2. IInv /\ [Next]_vars => [Pool!Next]_(Pool!vars)
  BY PoolStep
<1> QED BY <1>1, <1>2, Invariant, PTL DEF Spec, ImplementsJobPool, Pool!Spec
=============================================================================
