---------------------------- MODULE EvSignalProofs ----------------------------
(***************************************************************************)
(* Proofs about EvSignal for any number of signals, events and threads:    *)
(* the counters stay natural numbers although -= and ++ are not atomic, no *)
(* signal is lost on its way to an event or slept on, evsignal_cb finds a  *)
(* byte, and the dispositions of the program are kept.                     *)
(***************************************************************************)
EXTENDS EvSignal, TLAPS

\* A signal has one handler at a time; what it has loaded is not below the
\* counter, and neither is the counter below what evsignal_process subtracts from it.
Counters ==
  /\ \A t, u \in Thread : 
       hpc[t] # "off" /\ hpc[u] # "off" /\ hsig[t] = hsig[u] => t = u
  /\ \A t \in Thread : hpc[t] = "store" =>
       /\ hval[t] >= count[hsig[t]]
       /\ pc = "store" /\ i = hsig[t] => hval[t] >= tmp
  /\ pc = "load" => count[i] >= ncalls
  /\ pc = "store" => tmp >= ncalls /\ count[i] >= tmp

\* The flag is up or a handler is about to raise it.
Flagged == caught \/ \E t \in Thread : hpc[t] \in {"load", "store", "flag"}

\* evsignal_process has not passed signal s: it takes what s has counted.
Ahead(s) ==
  \/ pc = "process"
  \/ pc = "scan" /\ i <= s
  \/ pc \in {"load", "store", "activate"} /\ i < s
  \/ pc = "load" /\ i = s /\ count[s] = ncalls
  \/ pc = "store" /\ i = s /\ tmp = ncalls

CountIsSeen == \A s \in Sig : count[s] > 0 => Flagged \/ Ahead(s)

\* The bytes that the flag must have in the socket pair: one is for the call
\* of evsignal_cb that is due.
Due == IF ready \/ pipeActive THEN 2 ELSE 1

ByteIsSent ==
  /\ PipeHasByte
  /\ caught /\ pc # "process" /\ (\A t \in Thread : hpc[t] \notin {"install", "send"})
       => pipe >= Due
  /\ ready => pc \notin {"app", "wait"}

\* The byte of a signal that an event waits for is listened to.
Listening == listed # {} => added

\* The disposition that evsignal_del will restore is the program's own.
OldIsApp ==
  \A s \in Sig : ListOf(s) # {} /\ s \notin left => sh_old[s] = App

IInv == /\ TypeOK /\ Counters
        /\ OwedIsOnItsWay /\ CountIsSeen /\ ByteIsSent /\ Listening
        /\ DispositionsKept /\ OldIsApp

LEMMA Constants == 1 \in Sig /\ 0 \in 0 .. PipeCap /\ \A e \in Event : SigOf[e] \in Sig
<1> QED BY SignalAssumption DEF SignalAssumption, Sig

LEMMA InitInv == Init => IInv
<1> SUFFICES ASSUME Init PROVE IInv
  OBVIOUS
<1>1. TypeOK
  BY Constants DEF Init, TypeOK, App, Handler, Unsaved
<1>2. Counters /\ OwedIsOnItsWay /\ CountIsSeen /\ ByteIsSent
  BY DEF Init, Counters, OwedIsOnItsWay, CountIsSeen, ByteIsSent, PipeHasByte
<1>3. DispositionsKept /\ OldIsApp /\ Listening
  BY DEF Init, DispositionsKept, OldIsApp, ListOf, Listening
<1> QED BY <1>1, <1>2, <1>3 DEF IInv

LEMMA TypeStep ==
  ASSUME TypeOK, Counters, ByteIsSent, DispositionsKept, [Next]_vars
  PROVE  TypeOK'
<1>1. CASE UNCHANGED vars
  BY <1>1 DEF vars, counters, eventVars, activeVars, loopVars, handlerVars,
         TypeOK
<1>2. ASSUME NEW t \in Thread, NEW s \in Sig, Raise(t, s) PROVE TypeOK'
  BY <1>2, SignalAssumption DEF Raise, counters, eventVars, TypeOK,
         SignalAssumption, Sig, ListOf
<1>3. ASSUME NEW t \in Thread, CountLoad(t) PROVE TypeOK'
  BY <1>3 DEF CountLoad, HandlerGoes, counters, activeVars, loopVars, TypeOK
<1>4. ASSUME NEW t \in Thread, CountStore(t) PROVE TypeOK'
  BY <1>4 DEF CountStore, HandlerGoes, Counted, activeVars, loopVars, TypeOK
<1>5. ASSUME NEW t \in Thread, RaiseFlag(t) PROVE TypeOK'
  BY <1>5 DEF RaiseFlag, HandlerGoes, activeVars, loopVars, TypeOK
<1>23. ASSUME NEW t \in Thread, Reinstall(t) PROVE TypeOK'
  BY <1>23 DEF Reinstall, HandlerGoes, counters, activeVars, loopVars, TypeOK
<1>6. ASSUME NEW t \in Thread, Send(t) PROVE TypeOK'
  BY <1>6, SignalAssumption DEF Send, HandlerGoes, Sent, activeVars, loopVars,
         TypeOK, SignalAssumption, Sig
<1>7. ASSUME NEW e \in Event, EventAdd(e) PROVE TypeOK'
  BY <1>7, Constants DEF EventAdd, Installs, counters, activeVars, loopVars,
         handlerVars, TypeOK, App, Handler, Unsaved
<1>8. ASSUME NEW e \in Event, EventAddFailsHalf(e) PROVE TypeOK'
  BY <1>8, Constants DEF EventAddFailsHalf, Installs, counters, activeVars,
         loopVars, handlerVars, TypeOK, App, Handler, Unsaved
<1>9. ASSUME NEW e \in Event, EventAddFails(e) PROVE TypeOK'
  BY <1>9 DEF EventAddFails, vars, counters, eventVars, activeVars, loopVars,
         handlerVars, TypeOK
<1>10. ASSUME NEW e \in Event, EventDel(e) PROVE TypeOK'
  <2>1. DEFINE gone == {e} \cap listed
  <2>2. \A s \in Ending(gone) : s \in Sig /\ sh_old[s] \in {App, Handler}
    BY DEF Ending, DispositionsKept, TypeOK
  <2>3. /\ disp' = [s \in Sig |-> IF s \in Ending(gone) THEN sh_old[s] ELSE disp[s]]
        /\ sh_old' = [s \in Sig |-> IF s \in Ending(gone) THEN Unsaved ELSE sh_old[s]]
        /\ listed' = listed \ gone
    BY <1>10 DEF EventDel, Unlist
  <2> HIDE DEF gone
  <2>4. disp' \in [Sig -> {App, Handler}] /\ sh_old' \in [Sig -> {App, Handler, Unsaved}]
    BY <2>2, <2>3 DEF TypeOK
  <2> QED BY <1>10, <2>3, <2>4, SignalAssumption
          DEF EventDel, TypeOK, eventVars, counters, loopVars, handlerVars
<1>11. ASSUME NEW e \in Event, Call(e) PROVE TypeOK'
  BY <1>11 DEF Call, counters, eventVars, loopVars, handlerVars, TypeOK
<1>12. CASE CallPipe
  <2>1. pipe' \in 0 .. PipeCap
    BY <1>12, SignalAssumption DEF CallPipe, TypeOK, ByteIsSent, PipeHasByte, SignalAssumption
  <2> QED BY <1>12, <2>1 DEF CallPipe, eventVars, loopVars, handlerVars, TypeOK
<1>13. CASE Wait
  BY <1>13 DEF Wait, LoopGoes, counters, eventVars, activeVars, handlerVars,
         TypeOK
<1>14. CASE WakeInterrupted
  BY <1>14 DEF WakeInterrupted, LoopGoes, counters, eventVars, activeVars,
         handlerVars, TypeOK
<1>15. CASE Wake
  BY <1>15 DEF Wake, LoopGoes, AfterWait, Readable, counters, eventVars,
         activeVars, handlerVars, TypeOK
<1>16. CASE ProcessBegins
  BY <1>16, Constants DEF ProcessBegins, LoopGoes, eventVars, activeVars,
         handlerVars, TypeOK
<1>17. CASE ScanEmpty
  BY <1>17, SignalAssumption DEF ScanEmpty, LoopGoes, Onward, AfterSignal, IsLast,
         counters, eventVars, activeVars, handlerVars, TypeOK,
         SignalAssumption, Sig
<1>18. CASE Scan
  BY <1>18 DEF Scan, LoopGoes, counters, eventVars, activeVars, handlerVars,
         TypeOK
<1>19. CASE SubtractLoad
  BY <1>19 DEF SubtractLoad, LoopGoes, counters, eventVars, activeVars,
         handlerVars, TypeOK
<1>20. CASE SubtractStore
  BY <1>20, SignalAssumption DEF SubtractStore, LoopGoes, eventVars, activeVars,
         handlerVars, TypeOK, SignalAssumption, Sig, Counters
<1>21. CASE Activate
  <2>1. DEFINE gone == ListOf(i) \ Persist
  <2>2. \A s \in Ending(gone) : s \in Sig /\ sh_old[s] \in {App, Handler}
    BY DEF Ending, DispositionsKept, TypeOK
  <2>3. /\ disp' = [s \in Sig |-> IF s \in Ending(gone) THEN sh_old[s] ELSE disp[s]]
        /\ sh_old' = [s \in Sig |-> IF s \in Ending(gone) THEN Unsaved ELSE sh_old[s]]
        /\ listed' = listed \ gone
    BY <1>21 DEF Activate, LoopGoes, Unlist
  <2> HIDE DEF gone
  <2>4. disp' \in [Sig -> {App, Handler}] /\ sh_old' \in [Sig -> {App, Handler, Unsaved}]
    BY <2>2, <2>3 DEF TypeOK
  <2> QED BY <1>21, <2>3, <2>4, SignalAssumption
          DEF Activate, LoopGoes, TypeOK, Onward, AfterSignal, IsLast, counters, handlerVars, ListOf, SignalAssumption, Sig
<1>22. CASE Report
  BY <1>22 DEF Report, LoopGoes, counters, eventVars, handlerVars, TypeOK
<1> QED BY <1>1, <1>2, <1>3, <1>4, <1>5, <1>6, <1>7, <1>8, <1>9, <1>10, <1>11,
           <1>12, <1>13, <1>14, <1>15, <1>16, <1>17, <1>18, <1>19, <1>20,
           <1>21, <1>22, <1>23
        DEF Next, HandlerStep, Process

LEMMA CountersStep ==
  ASSUME TypeOK, Counters, [Next]_vars
  PROVE  Counters'
<1>1. CASE UNCHANGED vars
  BY <1>1 DEF vars, counters, eventVars, activeVars, loopVars, handlerVars,
         TypeOK, Counters
<1>2. ASSUME NEW t \in Thread, NEW s \in Sig, Raise(t, s) PROVE Counters'
  BY <1>2 DEF Raise, counters, eventVars, TypeOK, Counters
<1>3. ASSUME NEW t \in Thread, CountLoad(t) PROVE Counters'
  BY <1>3 DEF CountLoad, HandlerGoes, counters, activeVars, loopVars, TypeOK,
         Counters
<1>4. ASSUME NEW t \in Thread, CountStore(t) PROVE Counters'
  BY <1>4 DEF CountStore, HandlerGoes, Counted, activeVars, loopVars, TypeOK,
         Counters
<1>5. ASSUME NEW t \in Thread, RaiseFlag(t) PROVE Counters'
  BY <1>5 DEF RaiseFlag, HandlerGoes, activeVars, loopVars, TypeOK, Counters
<1>23. ASSUME NEW t \in Thread, Reinstall(t) PROVE Counters'
  BY <1>23 DEF Reinstall, HandlerGoes, counters, activeVars, loopVars, TypeOK, Counters
<1>6. ASSUME NEW t \in Thread, Send(t) PROVE Counters'
  BY <1>6 DEF Send, HandlerGoes, Sent, activeVars, loopVars, TypeOK, Counters
<1>7. ASSUME NEW e \in Event, EventAdd(e) PROVE Counters'
  BY <1>7 DEF EventAdd, Installs, counters, activeVars, loopVars, handlerVars,
         TypeOK, Counters
<1>8. ASSUME NEW e \in Event, EventAddFailsHalf(e) PROVE Counters'
  BY <1>8 DEF EventAddFailsHalf, Installs, counters, activeVars, loopVars,
         handlerVars, TypeOK, Counters
<1>9. ASSUME NEW e \in Event, EventAddFails(e) PROVE Counters'
  BY <1>9 DEF EventAddFails, vars, counters, eventVars, activeVars, loopVars,
         handlerVars, TypeOK, Counters
<1>10. ASSUME NEW e \in Event, EventDel(e) PROVE Counters'
  BY <1>10 DEF EventDel, Unlist, counters, loopVars, handlerVars, TypeOK,
         Counters
<1>11. ASSUME NEW e \in Event, Call(e) PROVE Counters'
  BY <1>11 DEF Call, counters, eventVars, loopVars, handlerVars, TypeOK,
         Counters
<1>12. CASE CallPipe
  BY <1>12 DEF CallPipe, eventVars, loopVars, handlerVars, TypeOK, Counters
<1>13. CASE Wait
  BY <1>13 DEF Wait, LoopGoes, counters, eventVars, activeVars, handlerVars,
         TypeOK, Counters
<1>14. CASE WakeInterrupted
  BY <1>14 DEF WakeInterrupted, LoopGoes, counters, eventVars, activeVars,
         handlerVars, TypeOK, Counters
<1>15. CASE Wake
  BY <1>15 DEF Wake, LoopGoes, AfterWait, Readable, counters, eventVars,
         activeVars, handlerVars, TypeOK, Counters
<1>16. CASE ProcessBegins
  BY <1>16 DEF ProcessBegins, LoopGoes, eventVars, activeVars, handlerVars,
         TypeOK, Counters
<1>17. CASE ScanEmpty
  BY <1>17 DEF ScanEmpty, LoopGoes, Onward, AfterSignal, IsLast, counters,
         eventVars, activeVars, handlerVars, TypeOK, Counters
<1>18. CASE Scan
  BY <1>18 DEF Scan, LoopGoes, counters, eventVars, activeVars, handlerVars,
         TypeOK, Counters
<1>19. CASE SubtractLoad
  BY <1>19 DEF SubtractLoad, LoopGoes, counters, eventVars, activeVars,
         handlerVars, TypeOK, Counters
<1>20. CASE SubtractStore
  BY <1>20 DEF SubtractStore, LoopGoes, eventVars, activeVars, handlerVars,
         TypeOK, Counters
<1>21. CASE Activate
  BY <1>21 DEF Activate, LoopGoes, Onward, AfterSignal, IsLast, Unlist,
         counters, handlerVars, TypeOK, Counters
<1>22. CASE Report
  BY <1>22 DEF Report, LoopGoes, counters, eventVars, handlerVars, TypeOK,
         Counters
<1> QED BY <1>1, <1>2, <1>3, <1>4, <1>5, <1>6, <1>7, <1>8, <1>9, <1>10, <1>11,
           <1>12, <1>13, <1>14, <1>15, <1>16, <1>17, <1>18, <1>19, <1>20,
           <1>21, <1>22, <1>23
        DEF Next, HandlerStep, Process

LEMMA OwedStep ==
  ASSUME TypeOK, OwedIsOnItsWay, [Next]_vars
  PROVE  OwedIsOnItsWay'
<1>1. CASE UNCHANGED vars
  BY <1>1 DEF vars, counters, eventVars, activeVars, loopVars, handlerVars,
         TypeOK, OwedIsOnItsWay, ListOf, Counting, BeingActivated
<1>2. ASSUME NEW t \in Thread, NEW s \in Sig, Raise(t, s) PROVE OwedIsOnItsWay'
  BY <1>2 DEF Raise, counters, eventVars, TypeOK, OwedIsOnItsWay, ListOf,
         Counting, BeingActivated
<1>3. ASSUME NEW t \in Thread, CountLoad(t) PROVE OwedIsOnItsWay'
  BY <1>3 DEF CountLoad, HandlerGoes, counters, activeVars, loopVars, TypeOK,
         OwedIsOnItsWay, ListOf, Counting, BeingActivated
<1>4. ASSUME NEW t \in Thread, CountStore(t) PROVE OwedIsOnItsWay'
  BY <1>4 DEF CountStore, HandlerGoes, Counted, activeVars, loopVars, TypeOK,
         OwedIsOnItsWay, ListOf, Counting, BeingActivated
<1>5. ASSUME NEW t \in Thread, RaiseFlag(t) PROVE OwedIsOnItsWay'
  BY <1>5 DEF RaiseFlag, HandlerGoes, activeVars, loopVars, TypeOK,
         OwedIsOnItsWay, ListOf, Counting, BeingActivated
<1>23. ASSUME NEW t \in Thread, Reinstall(t) PROVE OwedIsOnItsWay'
  BY <1>23 DEF Reinstall, HandlerGoes, counters, activeVars, loopVars, TypeOK,
         OwedIsOnItsWay, ListOf, Counting, BeingActivated
<1>6. ASSUME NEW t \in Thread, Send(t) PROVE OwedIsOnItsWay'
  BY <1>6 DEF Send, HandlerGoes, Sent, activeVars, loopVars, TypeOK,
         OwedIsOnItsWay, ListOf, Counting, BeingActivated
<1>7. ASSUME NEW e \in Event, EventAdd(e) PROVE OwedIsOnItsWay'
  BY <1>7 DEF EventAdd, Installs, counters, activeVars, loopVars, handlerVars,
         TypeOK, OwedIsOnItsWay, ListOf, Counting, BeingActivated
<1>8. ASSUME NEW e \in Event, EventAddFailsHalf(e) PROVE OwedIsOnItsWay'
  BY <1>8 DEF EventAddFailsHalf, Installs, counters, activeVars, loopVars,
         handlerVars, TypeOK, OwedIsOnItsWay, ListOf, Counting, BeingActivated
<1>9. ASSUME NEW e \in Event, EventAddFails(e) PROVE OwedIsOnItsWay'
  BY <1>9 DEF EventAddFails, vars, counters, eventVars, activeVars, loopVars,
         handlerVars, TypeOK, OwedIsOnItsWay, ListOf, Counting, BeingActivated
<1>10. ASSUME NEW e \in Event, EventDel(e) PROVE OwedIsOnItsWay'
  BY <1>10 DEF EventDel, Unlist, counters, loopVars, handlerVars, TypeOK,
         OwedIsOnItsWay, ListOf, Counting, BeingActivated
<1>11. ASSUME NEW e \in Event, Call(e) PROVE OwedIsOnItsWay'
  BY <1>11 DEF Call, counters, eventVars, loopVars, handlerVars, TypeOK,
         OwedIsOnItsWay, ListOf, Counting, BeingActivated
<1>12. CASE CallPipe
  BY <1>12 DEF CallPipe, eventVars, loopVars, handlerVars, TypeOK,
         OwedIsOnItsWay, ListOf, Counting, BeingActivated
<1>13. CASE Wait
  BY <1>13 DEF Wait, LoopGoes, counters, eventVars, activeVars, handlerVars,
         TypeOK, OwedIsOnItsWay, ListOf, Counting, BeingActivated
<1>14. CASE WakeInterrupted
  BY <1>14 DEF WakeInterrupted, LoopGoes, counters, eventVars, activeVars,
         handlerVars, TypeOK, OwedIsOnItsWay, ListOf, Counting, BeingActivated
<1>15. CASE Wake
  BY <1>15 DEF Wake, LoopGoes, AfterWait, Readable, counters, eventVars,
         activeVars, handlerVars, TypeOK, OwedIsOnItsWay, ListOf, Counting,
         BeingActivated
<1>16. CASE ProcessBegins
  BY <1>16 DEF ProcessBegins, LoopGoes, eventVars, activeVars, handlerVars,
         TypeOK, OwedIsOnItsWay, ListOf, Counting, BeingActivated
<1>17. CASE ScanEmpty
  BY <1>17 DEF ScanEmpty, LoopGoes, Onward, AfterSignal, IsLast, counters,
         eventVars, activeVars, handlerVars, TypeOK, OwedIsOnItsWay, ListOf,
         Counting, BeingActivated
<1>18. CASE Scan
  BY <1>18 DEF Scan, LoopGoes, counters, eventVars, activeVars, handlerVars,
         TypeOK, OwedIsOnItsWay, ListOf, Counting, BeingActivated
<1>19. CASE SubtractLoad
  BY <1>19 DEF SubtractLoad, LoopGoes, counters, eventVars, activeVars,
         handlerVars, TypeOK, OwedIsOnItsWay, ListOf, Counting, BeingActivated
<1>20. CASE SubtractStore
  BY <1>20 DEF SubtractStore, LoopGoes, eventVars, activeVars, handlerVars,
         TypeOK, OwedIsOnItsWay, ListOf, Counting, BeingActivated
<1>21. CASE Activate
  BY <1>21 DEF Activate, LoopGoes, Onward, AfterSignal, IsLast, Unlist,
         counters, handlerVars, TypeOK, OwedIsOnItsWay, ListOf, Counting,
         BeingActivated
<1>22. CASE Report
  BY <1>22 DEF Report, LoopGoes, counters, eventVars, handlerVars, TypeOK,
         OwedIsOnItsWay, ListOf, Counting, BeingActivated
<1> QED BY <1>1, <1>2, <1>3, <1>4, <1>5, <1>6, <1>7, <1>8, <1>9, <1>10, <1>11,
           <1>12, <1>13, <1>14, <1>15, <1>16, <1>17, <1>18, <1>19, <1>20,
           <1>21, <1>22, <1>23
        DEF Next, HandlerStep, Process

LEMMA SeenStep ==
  ASSUME TypeOK, Counters, CountIsSeen, [Next]_vars
  PROVE  CountIsSeen'
<1>1. CASE UNCHANGED vars
  BY <1>1 DEF vars, counters, eventVars, activeVars, loopVars, handlerVars,
         TypeOK, CountIsSeen, Flagged, Ahead
<1>2. ASSUME NEW t \in Thread, NEW s \in Sig, Raise(t, s) PROVE CountIsSeen'
  BY <1>2 DEF Raise, counters, eventVars, TypeOK, CountIsSeen, Flagged, Ahead
<1>3. ASSUME NEW t \in Thread, CountLoad(t) PROVE CountIsSeen'
  BY <1>3 DEF CountLoad, HandlerGoes, counters, activeVars, loopVars, TypeOK,
         CountIsSeen, Flagged, Ahead
<1>4. ASSUME NEW t \in Thread, CountStore(t) PROVE CountIsSeen'
  BY <1>4 DEF CountStore, HandlerGoes, Counted, activeVars, loopVars, TypeOK,
         CountIsSeen, Flagged, Ahead
<1>5. ASSUME NEW t \in Thread, RaiseFlag(t) PROVE CountIsSeen'
  BY <1>5 DEF RaiseFlag, HandlerGoes, activeVars, loopVars, TypeOK,
         CountIsSeen, Flagged, Ahead
<1>23. ASSUME NEW t \in Thread, Reinstall(t) PROVE CountIsSeen'
  BY <1>23 DEF Reinstall, HandlerGoes, counters, activeVars, loopVars, TypeOK,
         CountIsSeen, Flagged, Ahead
<1>6. ASSUME NEW t \in Thread, Send(t) PROVE CountIsSeen'
  BY <1>6 DEF Send, HandlerGoes, Sent, activeVars, loopVars, TypeOK,
         CountIsSeen, Flagged, Ahead
<1>7. ASSUME NEW e \in Event, EventAdd(e) PROVE CountIsSeen'
  BY <1>7 DEF EventAdd, Installs, counters, activeVars, loopVars, handlerVars,
         TypeOK, CountIsSeen, Flagged, Ahead
<1>8. ASSUME NEW e \in Event, EventAddFailsHalf(e) PROVE CountIsSeen'
  BY <1>8 DEF EventAddFailsHalf, Installs, counters, activeVars, loopVars,
         handlerVars, TypeOK, CountIsSeen, Flagged, Ahead
<1>9. ASSUME NEW e \in Event, EventAddFails(e) PROVE CountIsSeen'
  BY <1>9 DEF EventAddFails, vars, counters, eventVars, activeVars, loopVars,
         handlerVars, TypeOK, CountIsSeen, Flagged, Ahead
<1>10. ASSUME NEW e \in Event, EventDel(e) PROVE CountIsSeen'
  BY <1>10 DEF EventDel, Unlist, counters, loopVars, handlerVars, TypeOK,
         CountIsSeen, Flagged, Ahead
<1>11. ASSUME NEW e \in Event, Call(e) PROVE CountIsSeen'
  BY <1>11 DEF Call, counters, eventVars, loopVars, handlerVars, TypeOK,
         CountIsSeen, Flagged, Ahead
<1>12. CASE CallPipe
  BY <1>12 DEF CallPipe, eventVars, loopVars, handlerVars, TypeOK,
         CountIsSeen, Flagged, Ahead
<1>13. CASE Wait
  BY <1>13 DEF Wait, LoopGoes, counters, eventVars, activeVars, handlerVars,
         TypeOK, CountIsSeen, Flagged, Ahead
<1>14. CASE WakeInterrupted
  BY <1>14 DEF WakeInterrupted, LoopGoes, counters, eventVars, activeVars,
         handlerVars, TypeOK, CountIsSeen, Flagged, Ahead
<1>15. CASE Wake
  BY <1>15 DEF Wake, LoopGoes, AfterWait, Readable, counters, eventVars,
         activeVars, handlerVars, TypeOK, CountIsSeen, Flagged, Ahead
<1>16. CASE ProcessBegins
  BY <1>16, SignalAssumption DEF ProcessBegins, LoopGoes, eventVars, activeVars,
         handlerVars, TypeOK, SignalAssumption, Sig, CountIsSeen, Flagged,
         Ahead
<1>17. CASE ScanEmpty
  BY <1>17, SignalAssumption DEF ScanEmpty, LoopGoes, Onward, AfterSignal, IsLast,
         counters, eventVars, activeVars, handlerVars, TypeOK,
         SignalAssumption, Sig, CountIsSeen, Flagged, Ahead
<1>18. CASE Scan
  BY <1>18, SignalAssumption DEF Scan, LoopGoes, counters, eventVars, activeVars,
         handlerVars, TypeOK, SignalAssumption, Sig, CountIsSeen, Flagged,
         Ahead, Counters
<1>19. CASE SubtractLoad
  BY <1>19, SignalAssumption DEF SubtractLoad, LoopGoes, counters, eventVars,
         activeVars, handlerVars, TypeOK, SignalAssumption, Sig, CountIsSeen,
         Flagged, Ahead, Counters
<1>20. CASE SubtractStore
  BY <1>20, SignalAssumption DEF SubtractStore, LoopGoes, eventVars, activeVars,
         handlerVars, TypeOK, SignalAssumption, Sig, CountIsSeen, Flagged,
         Ahead, Counters
<1>21. CASE Activate
  BY <1>21, SignalAssumption DEF Activate, LoopGoes, Onward, AfterSignal, IsLast,
         Unlist, counters, handlerVars, TypeOK, SignalAssumption, Sig,
         CountIsSeen, Flagged, Ahead
<1>22. CASE Report
  BY <1>22 DEF Report, LoopGoes, counters, eventVars, handlerVars, TypeOK,
         CountIsSeen, Flagged, Ahead
<1> QED BY <1>1, <1>2, <1>3, <1>4, <1>5, <1>6, <1>7, <1>8, <1>9, <1>10, <1>11,
           <1>12, <1>13, <1>14, <1>15, <1>16, <1>17, <1>18, <1>19, <1>20,
           <1>21, <1>22, <1>23
        DEF Next, HandlerStep, Process

LEMMA ByteStep ==
  ASSUME TypeOK, Counters, ByteIsSent, [Next]_vars
  PROVE  ByteIsSent'
<1>1. CASE UNCHANGED vars
  BY <1>1 DEF vars, counters, eventVars, activeVars, loopVars, handlerVars,
         TypeOK, ByteIsSent, PipeHasByte, Due
<1>2. ASSUME NEW t \in Thread, NEW s \in Sig, Raise(t, s) PROVE ByteIsSent'
  BY <1>2 DEF Raise, counters, eventVars, TypeOK, ByteIsSent, PipeHasByte, Due
<1>3. ASSUME NEW t \in Thread, CountLoad(t) PROVE ByteIsSent'
  BY <1>3 DEF CountLoad, HandlerGoes, counters, activeVars, loopVars, TypeOK,
         ByteIsSent, PipeHasByte, Due
<1>4. ASSUME NEW t \in Thread, CountStore(t) PROVE ByteIsSent'
  BY <1>4 DEF CountStore, HandlerGoes, Counted, activeVars, loopVars, TypeOK,
         ByteIsSent, PipeHasByte, Due
<1>5. ASSUME NEW t \in Thread, RaiseFlag(t) PROVE ByteIsSent'
  BY <1>5 DEF RaiseFlag, HandlerGoes, activeVars, loopVars, TypeOK,
         ByteIsSent, PipeHasByte, Due
<1>23. ASSUME NEW t \in Thread, Reinstall(t) PROVE ByteIsSent'
  BY <1>23 DEF Reinstall, HandlerGoes, counters, activeVars, loopVars, TypeOK,
         ByteIsSent, PipeHasByte, Due
<1>6. ASSUME NEW t \in Thread, Send(t) PROVE ByteIsSent'
  BY <1>6, SignalAssumption DEF Send, HandlerGoes, Sent, activeVars, loopVars,
         TypeOK, SignalAssumption, Sig, ByteIsSent, PipeHasByte, Due, Counters
<1>7. ASSUME NEW e \in Event, EventAdd(e) PROVE ByteIsSent'
  BY <1>7 DEF EventAdd, Installs, counters, activeVars, loopVars, handlerVars,
         TypeOK, ByteIsSent, PipeHasByte, Due
<1>8. ASSUME NEW e \in Event, EventAddFailsHalf(e) PROVE ByteIsSent'
  BY <1>8 DEF EventAddFailsHalf, Installs, counters, activeVars, loopVars,
         handlerVars, TypeOK, ByteIsSent, PipeHasByte, Due
<1>9. ASSUME NEW e \in Event, EventAddFails(e) PROVE ByteIsSent'
  BY <1>9 DEF EventAddFails, vars, counters, eventVars, activeVars, loopVars,
         handlerVars, TypeOK, ByteIsSent, PipeHasByte, Due
<1>10. ASSUME NEW e \in Event, EventDel(e) PROVE ByteIsSent'
  BY <1>10 DEF EventDel, Unlist, counters, loopVars, handlerVars, TypeOK,
         ByteIsSent, PipeHasByte, Due
<1>11. ASSUME NEW e \in Event, Call(e) PROVE ByteIsSent'
  BY <1>11 DEF Call, counters, eventVars, loopVars, handlerVars, TypeOK,
         ByteIsSent, PipeHasByte, Due
<1>12. CASE CallPipe
  BY <1>12 DEF CallPipe, AppRuns, eventVars, loopVars, handlerVars, TypeOK, ByteIsSent,
         PipeHasByte, Due
<1>13. CASE Wait
  BY <1>13 DEF Wait, LoopGoes, counters, eventVars, activeVars, handlerVars,
         TypeOK, ByteIsSent, PipeHasByte, Due
<1>14. CASE WakeInterrupted
  BY <1>14 DEF WakeInterrupted, LoopGoes, counters, eventVars, activeVars,
         handlerVars, TypeOK, ByteIsSent, PipeHasByte, Due
<1>15. CASE Wake
  BY <1>15 DEF Wake, LoopGoes, AfterWait, Readable, counters, eventVars,
         activeVars, handlerVars, TypeOK, ByteIsSent, PipeHasByte, Due
<1>16. CASE ProcessBegins
  BY <1>16 DEF ProcessBegins, LoopGoes, eventVars, activeVars, handlerVars,
         TypeOK, ByteIsSent, PipeHasByte, Due
<1>17. CASE ScanEmpty
  BY <1>17 DEF ScanEmpty, LoopGoes, Onward, AfterSignal, IsLast, counters,
         eventVars, activeVars, handlerVars, TypeOK, ByteIsSent, PipeHasByte,
         Due
<1>18. CASE Scan
  BY <1>18 DEF Scan, LoopGoes, counters, eventVars, activeVars, handlerVars,
         TypeOK, ByteIsSent, PipeHasByte, Due
<1>19. CASE SubtractLoad
  BY <1>19 DEF SubtractLoad, LoopGoes, counters, eventVars, activeVars,
         handlerVars, TypeOK, ByteIsSent, PipeHasByte, Due
<1>20. CASE SubtractStore
  BY <1>20 DEF SubtractStore, LoopGoes, eventVars, activeVars, handlerVars,
         TypeOK, ByteIsSent, PipeHasByte, Due
<1>21. CASE Activate
  BY <1>21 DEF Activate, LoopGoes, Onward, AfterSignal, IsLast, Unlist,
         counters, handlerVars, TypeOK, ByteIsSent, PipeHasByte, Due
<1>22. CASE Report
  BY <1>22 DEF Report, LoopGoes, counters, eventVars, handlerVars, TypeOK,
         ByteIsSent, PipeHasByte, Due
<1> QED BY <1>1, <1>2, <1>3, <1>4, <1>5, <1>6, <1>7, <1>8, <1>9, <1>10, <1>11,
           <1>12, <1>13, <1>14, <1>15, <1>16, <1>17, <1>18, <1>19, <1>20,
           <1>21, <1>22, <1>23
        DEF Next, HandlerStep, Process

LEMMA KeptStep ==
  ASSUME TypeOK, DispositionsKept, OldIsApp, [Next]_vars
  PROVE  DispositionsKept'
<1>1. CASE UNCHANGED vars
  BY <1>1 DEF vars, counters, eventVars, activeVars, loopVars, handlerVars,
         TypeOK, DispositionsKept, OldIsApp, ListOf, Ending
<1>2. ASSUME NEW t \in Thread, NEW s \in Sig, Raise(t, s) PROVE DispositionsKept'
  BY <1>2 DEF Raise, counters, eventVars, TypeOK, DispositionsKept, OldIsApp,
         ListOf, Ending
<1>3. ASSUME NEW t \in Thread, CountLoad(t) PROVE DispositionsKept'
  BY <1>3 DEF CountLoad, HandlerGoes, counters, activeVars, loopVars, TypeOK,
         DispositionsKept, OldIsApp, ListOf, Ending
<1>4. ASSUME NEW t \in Thread, CountStore(t) PROVE DispositionsKept'
  BY <1>4 DEF CountStore, HandlerGoes, Counted, activeVars, loopVars, TypeOK,
         DispositionsKept, OldIsApp, ListOf, Ending
<1>5. ASSUME NEW t \in Thread, RaiseFlag(t) PROVE DispositionsKept'
  BY <1>5 DEF RaiseFlag, HandlerGoes, activeVars, loopVars, TypeOK,
         DispositionsKept, OldIsApp, ListOf, Ending
<1>23. ASSUME NEW t \in Thread, Reinstall(t) PROVE DispositionsKept'
  BY <1>23 DEF Reinstall, HandlerGoes, counters, activeVars, loopVars, TypeOK,
         DispositionsKept, OldIsApp, ListOf, Ending
<1>6. ASSUME NEW t \in Thread, Send(t) PROVE DispositionsKept'
  BY <1>6 DEF Send, HandlerGoes, Sent, activeVars, loopVars, TypeOK,
         DispositionsKept, OldIsApp, ListOf, Ending
<1>7. ASSUME NEW e \in Event, EventAdd(e) PROVE DispositionsKept'
  BY <1>7, SignalAssumption DEF EventAdd, Installs, counters, activeVars,
         loopVars, handlerVars, TypeOK, DispositionsKept, OldIsApp, ListOf,
         App, Handler, Unsaved
<1>8. ASSUME NEW e \in Event, EventAddFailsHalf(e) PROVE DispositionsKept'
  BY <1>8 DEF EventAddFailsHalf, Installs, counters, activeVars, loopVars,
         handlerVars, TypeOK, DispositionsKept, OldIsApp, ListOf, Ending
<1>9. ASSUME NEW e \in Event, EventAddFails(e) PROVE DispositionsKept'
  BY <1>9 DEF EventAddFails, vars, counters, eventVars, activeVars, loopVars,
         handlerVars, TypeOK, DispositionsKept, OldIsApp, ListOf, Ending
<1>10. ASSUME NEW e \in Event, EventDel(e) PROVE DispositionsKept'
  BY <1>10 DEF EventDel, Unlist, counters, loopVars, handlerVars, TypeOK,
         DispositionsKept, OldIsApp, ListOf, Ending
<1>11. ASSUME NEW e \in Event, Call(e) PROVE DispositionsKept'
  BY <1>11 DEF Call, counters, eventVars, loopVars, handlerVars, TypeOK,
         DispositionsKept, OldIsApp, ListOf, Ending
<1>12. CASE CallPipe
  BY <1>12 DEF CallPipe, eventVars, loopVars, handlerVars, TypeOK,
         DispositionsKept, OldIsApp, ListOf, Ending
<1>13. CASE Wait
  BY <1>13 DEF Wait, LoopGoes, counters, eventVars, activeVars, handlerVars,
         TypeOK, DispositionsKept, OldIsApp, ListOf, Ending
<1>14. CASE WakeInterrupted
  BY <1>14 DEF WakeInterrupted, LoopGoes, counters, eventVars, activeVars,
         handlerVars, TypeOK, DispositionsKept, OldIsApp, ListOf, Ending
<1>15. CASE Wake
  BY <1>15 DEF Wake, LoopGoes, AfterWait, Readable, counters, eventVars,
         activeVars, handlerVars, TypeOK, DispositionsKept, OldIsApp, ListOf,
         Ending
<1>16. CASE ProcessBegins
  BY <1>16 DEF ProcessBegins, LoopGoes, eventVars, activeVars, handlerVars,
         TypeOK, DispositionsKept, OldIsApp, ListOf, Ending
<1>17. CASE ScanEmpty
  BY <1>17 DEF ScanEmpty, LoopGoes, Onward, AfterSignal, IsLast, counters,
         eventVars, activeVars, handlerVars, TypeOK, DispositionsKept,
         OldIsApp, ListOf, Ending
<1>18. CASE Scan
  BY <1>18 DEF Scan, LoopGoes, counters, eventVars, activeVars, handlerVars,
         TypeOK, DispositionsKept, OldIsApp, ListOf, Ending
<1>19. CASE SubtractLoad
  BY <1>19 DEF SubtractLoad, LoopGoes, counters, eventVars, activeVars,
         handlerVars, TypeOK, DispositionsKept, OldIsApp, ListOf, Ending
<1>20. CASE SubtractStore
  BY <1>20 DEF SubtractStore, LoopGoes, eventVars, activeVars, handlerVars,
         TypeOK, DispositionsKept, OldIsApp, ListOf, Ending
<1>21. CASE Activate
  BY <1>21 DEF Activate, LoopGoes, Onward, AfterSignal, IsLast, Unlist,
         counters, handlerVars, TypeOK, DispositionsKept, OldIsApp, ListOf,
         Ending
<1>22. CASE Report
  BY <1>22 DEF Report, LoopGoes, counters, eventVars, handlerVars, TypeOK,
         DispositionsKept, OldIsApp, ListOf, Ending
<1> QED BY <1>1, <1>2, <1>3, <1>4, <1>5, <1>6, <1>7, <1>8, <1>9, <1>10, <1>11,
           <1>12, <1>13, <1>14, <1>15, <1>16, <1>17, <1>18, <1>19, <1>20,
           <1>21, <1>22, <1>23
        DEF Next, HandlerStep, Process

LEMMA OldStep ==
  ASSUME TypeOK, DispositionsKept, OldIsApp, [Next]_vars
  PROVE  OldIsApp'
<1>1. CASE UNCHANGED vars
  BY <1>1 DEF vars, counters, eventVars, activeVars, loopVars, handlerVars,
         TypeOK, DispositionsKept, OldIsApp, ListOf, Ending
<1>2. ASSUME NEW t \in Thread, NEW s \in Sig, Raise(t, s) PROVE OldIsApp'
  BY <1>2 DEF Raise, counters, eventVars, TypeOK, DispositionsKept, OldIsApp,
         ListOf, Ending
<1>3. ASSUME NEW t \in Thread, CountLoad(t) PROVE OldIsApp'
  BY <1>3 DEF CountLoad, HandlerGoes, counters, activeVars, loopVars, TypeOK,
         DispositionsKept, OldIsApp, ListOf, Ending
<1>4. ASSUME NEW t \in Thread, CountStore(t) PROVE OldIsApp'
  BY <1>4 DEF CountStore, HandlerGoes, Counted, activeVars, loopVars, TypeOK,
         DispositionsKept, OldIsApp, ListOf, Ending
<1>5. ASSUME NEW t \in Thread, RaiseFlag(t) PROVE OldIsApp'
  BY <1>5 DEF RaiseFlag, HandlerGoes, activeVars, loopVars, TypeOK,
         DispositionsKept, OldIsApp, ListOf, Ending
<1>23. ASSUME NEW t \in Thread, Reinstall(t) PROVE OldIsApp'
  BY <1>23 DEF Reinstall, HandlerGoes, counters, activeVars, loopVars, TypeOK,
         DispositionsKept, OldIsApp, ListOf, Ending
<1>6. ASSUME NEW t \in Thread, Send(t) PROVE OldIsApp'
  BY <1>6 DEF Send, HandlerGoes, Sent, activeVars, loopVars, TypeOK,
         DispositionsKept, OldIsApp, ListOf, Ending
<1>7. ASSUME NEW e \in Event, EventAdd(e) PROVE OldIsApp'
  BY <1>7 DEF EventAdd, Installs, counters, activeVars, loopVars, handlerVars,
         TypeOK, DispositionsKept, OldIsApp, ListOf, Ending
<1>8. ASSUME NEW e \in Event, EventAddFailsHalf(e) PROVE OldIsApp'
  BY <1>8 DEF EventAddFailsHalf, Installs, counters, activeVars, loopVars,
         handlerVars, TypeOK, DispositionsKept, OldIsApp, ListOf, Ending
<1>9. ASSUME NEW e \in Event, EventAddFails(e) PROVE OldIsApp'
  BY <1>9 DEF EventAddFails, vars, counters, eventVars, activeVars, loopVars,
         handlerVars, TypeOK, DispositionsKept, OldIsApp, ListOf, Ending
<1>10. ASSUME NEW e \in Event, EventDel(e) PROVE OldIsApp'
  BY <1>10 DEF EventDel, Unlist, counters, loopVars, handlerVars, TypeOK,
         DispositionsKept, OldIsApp, ListOf, Ending
<1>11. ASSUME NEW e \in Event, Call(e) PROVE OldIsApp'
  BY <1>11 DEF Call, counters, eventVars, loopVars, handlerVars, TypeOK,
         DispositionsKept, OldIsApp, ListOf, Ending
<1>12. CASE CallPipe
  BY <1>12 DEF CallPipe, eventVars, loopVars, handlerVars, TypeOK,
         DispositionsKept, OldIsApp, ListOf, Ending
<1>13. CASE Wait
  BY <1>13 DEF Wait, LoopGoes, counters, eventVars, activeVars, handlerVars,
         TypeOK, DispositionsKept, OldIsApp, ListOf, Ending
<1>14. CASE WakeInterrupted
  BY <1>14 DEF WakeInterrupted, LoopGoes, counters, eventVars, activeVars,
         handlerVars, TypeOK, DispositionsKept, OldIsApp, ListOf, Ending
<1>15. CASE Wake
  BY <1>15 DEF Wake, LoopGoes, AfterWait, Readable, counters, eventVars,
         activeVars, handlerVars, TypeOK, DispositionsKept, OldIsApp, ListOf,
         Ending
<1>16. CASE ProcessBegins
  BY <1>16 DEF ProcessBegins, LoopGoes, eventVars, activeVars, handlerVars,
         TypeOK, DispositionsKept, OldIsApp, ListOf, Ending
<1>17. CASE ScanEmpty
  BY <1>17 DEF ScanEmpty, LoopGoes, Onward, AfterSignal, IsLast, counters,
         eventVars, activeVars, handlerVars, TypeOK, DispositionsKept,
         OldIsApp, ListOf, Ending
<1>18. CASE Scan
  BY <1>18 DEF Scan, LoopGoes, counters, eventVars, activeVars, handlerVars,
         TypeOK, DispositionsKept, OldIsApp, ListOf, Ending
<1>19. CASE SubtractLoad
  BY <1>19 DEF SubtractLoad, LoopGoes, counters, eventVars, activeVars,
         handlerVars, TypeOK, DispositionsKept, OldIsApp, ListOf, Ending
<1>20. CASE SubtractStore
  BY <1>20 DEF SubtractStore, LoopGoes, eventVars, activeVars, handlerVars,
         TypeOK, DispositionsKept, OldIsApp, ListOf, Ending
<1>21. CASE Activate
  BY <1>21 DEF Activate, LoopGoes, Onward, AfterSignal, IsLast, Unlist,
         counters, handlerVars, TypeOK, DispositionsKept, OldIsApp, ListOf,
         Ending
<1>22. CASE Report
  BY <1>22 DEF Report, LoopGoes, counters, eventVars, handlerVars, TypeOK,
         DispositionsKept, OldIsApp, ListOf, Ending
<1> QED BY <1>1, <1>2, <1>3, <1>4, <1>5, <1>6, <1>7, <1>8, <1>9, <1>10, <1>11,
           <1>12, <1>13, <1>14, <1>15, <1>16, <1>17, <1>18, <1>19, <1>20,
           <1>21, <1>22, <1>23
        DEF Next, HandlerStep, Process

LEMMA ListeningStep ==
  ASSUME TypeOK, Listening, [Next]_vars
  PROVE  Listening'
<1>1. CASE UNCHANGED <<listed, added>>
  BY <1>1 DEF Listening
<1>2. ASSUME NEW e \in Event, EventAdd(e) PROVE Listening'
  BY <1>2 DEF EventAdd, Listening
<1>3. ASSUME NEW gone, Unlist(gone), added' = added PROVE Listening'
  BY <1>3 DEF Unlist, Listening
<1>4. ASSUME NEW e \in Event, EventDel(e) PROVE Listening'
  BY <1>3, <1>4 DEF EventDel
<1>5. CASE Activate
  BY <1>3, <1>5 DEF Activate
<1>6. ASSUME NEW t \in Thread, HandlerStep(t) \/ \E s \in Sig : Raise(t, s)
      PROVE  UNCHANGED <<listed, added>>
  BY <1>6 DEF HandlerStep, CountLoad, CountStore, RaiseFlag, Reinstall, Send,
         HandlerGoes, Raise, eventVars
<1>7. ASSUME NEW e \in Event, EventAddFailsHalf(e) \/ EventAddFails(e) \/ Call(e)
      PROVE  UNCHANGED <<listed, added>>
  BY <1>7 DEF EventAddFailsHalf, EventAddFails, Call, vars, eventVars
<1>8. CASE CallPipe \/ Wait \/ WakeInterrupted \/ Wake \/ UNCHANGED vars
  BY <1>1, <1>8 DEF CallPipe, Wait, WakeInterrupted, Wake, vars, eventVars
<1>9. CASE Process
  BY <1>1, <1>5, <1>9 DEF Process, ProcessBegins, ScanEmpty, Scan, SubtractLoad,
         SubtractStore, Report, eventVars
<1> QED BY <1>1, <1>2, <1>4, <1>6, <1>7, <1>8, <1>9 DEF Next

LEMMA StepInv == IInv /\ [Next]_vars => IInv'
<1> SUFFICES ASSUME IInv, [Next]_vars PROVE IInv'
  OBVIOUS
<1>1. TypeOK' /\ Counters'
  BY TypeStep, CountersStep DEF IInv
<1>2. OwedIsOnItsWay' /\ CountIsSeen' /\ ByteIsSent'
  BY OwedStep, SeenStep, ByteStep DEF IInv
<1>3. DispositionsKept' /\ OldIsApp' /\ Listening'
  BY KeptStep, OldStep, ListeningStep DEF IInv
<1> QED BY <1>1, <1>2, <1>3 DEF IInv

LEMMA Invariance == Spec => []IInv
<1> QED BY InitInv, StepInv, PTL DEF Spec

\* A counted signal has its flag up, and the flag its byte.
LEMMA SleepIsSafe == IInv => NoSleepOnSignal
<1> SUFFICES ASSUME IInv, pc = "wait", \A t \in Thread : hpc[t] = "off",
                    NEW s \in Sig, count[s] > 0
             PROVE  caught /\ pipe > 0 /\ (added \/ listed = {})
  BY DEF NoSleepOnSignal
<1>1. caught
  BY DEF IInv, CountIsSeen, Flagged, Ahead
<1>2. pipe > 0
  BY <1>1 DEF IInv, ByteIsSent, Due, TypeOK
<1> QED BY <1>1, <1>2 DEF IInv, Listening

\* The counters of evsigcaught never go below zero and the socket pair is
\* within its bounds, although signals interrupt ++ and -= half-way.
THEOREM TypeCorrect == Spec => []TypeOK
<1> QED BY Invariance, PTL DEF IInv

\* signal.cpp: a signal that has come for an event is counted, about to be
\* counted, or about to activate the event, whatever the handler interrupts.
THEOREM NoSignalLost == Spec => []OwedIsOnItsWay
<1> QED BY Invariance, PTL DEF IInv

\* epoll_dispatch does not sleep on a signal that the handler has counted.
THEOREM NoSleep == Spec => []NoSleepOnSignal
<1> QED BY Invariance, SleepIsSafe, PTL

\* evsignal_cb, which reads from a blocking socket, is called with a byte in it.
THEOREM ByteIsThere == Spec => []PipeHasByte
<1> QED BY Invariance, PTL DEF IInv, ByteIsSent

\* A signal has evsignal_handler while events wait for it and its former
\* disposition otherwise, unless evsignal_add failed or a handler came late.
THEOREM DispositionsAreKept == Spec => []DispositionsKept
<1> QED BY Invariance, PTL DEF IInv
================================================================================
