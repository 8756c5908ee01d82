----------------------------- MODULE EpollProofs -----------------------------
(***************************************************************************)
(* For any events and descriptors: the table of epoll.cpp and the kernel's *)
(* epoll set agree, no entry dangles, and dispatch keeps what event.cpp    *)
(* expects of an eventop.                                                  *)
(***************************************************************************)
EXTENDS Epoll, TLAPS

EpollInv == TypeOK /\ NoDangling /\ InTable /\ KernelAgrees

LEMMA WatchedIsNotAbsent ==
  /\ Absent \notin SUBSET Dir
  /\ \A fd \in Fd : Watched(fd) \in SUBSET Dir
  BY DEF Absent, Dir, Watched

LEMMA InitHolds == Init => EpollInv
  <1> SUFFICES ASSUME Init PROVE EpollInv
      OBVIOUS
  <1>1. TypeOK
    <2>1. nevents < 2 * MaxNevents /\ nevents \in Nat \ {0} /\ nfds \in Nat \ {0}
      BY EpollAssumption, SMT DEF Init
    <2>3. fds \in [Fd -> [Dir -> Event \cup {NoEvent}]]
      <3>1. [d \in Dir |-> NoEvent] \in [Dir -> Event \cup {NoEvent}]
        OBVIOUS
      <3> QED
        BY <3>1 DEF Init
    <2>4. kernel \in [Fd -> (SUBSET Dir) \cup {Absent}]
      BY DEF Init
    <2>2. /\ open \in SUBSET Fd /\ inserted \in SUBSET Event
          /\ stale \in SUBSET Fd /\ refused \in SUBSET Fd
          /\ displaced \in SUBSET (inserted \X Dir)
      BY DEF Init
    <2> QED
      BY <2>1, <2>2, <2>3, <2>4 DEF TypeOK
  <1>2. NoDangling
    BY DEF Init, NoDangling
  <1>3. InTable /\ KernelAgrees
    BY DEF Init, InTable, KernelAgrees
  <1> QED
    BY <1>1, <1>2, <1>3 DEF EpollInv

-----------------------------------------------------------------------------
(* The table after an add and after a del, entry by entry.                 *)

LEMMA FilledEntries ==
  ASSUME TypeOK, NEW e \in Event
  PROVE  /\ Filled(e) \in [Fd -> [Dir -> Event \cup {NoEvent}]]
         /\ \A fd \in Fd, d \in Dir :
              Filled(e)[fd][d] = IF fd = FdOf[e] /\ d \in Interest[e] THEN e ELSE fds[fd][d]
  BY EpollAssumption DEF TypeOK, Filled

LEMMA ClearedEntries ==
  ASSUME TypeOK, NEW e \in Event
  PROVE  /\ Cleared(e) \in [Fd -> [Dir -> Event \cup {NoEvent}]]
         /\ \A fd \in Fd, d \in Dir :
              Cleared(e)[fd][d] =
                IF fd = FdOf[e] /\ d \notin Kept(e) THEN NoEvent ELSE fds[fd][d]
  BY EpollAssumption DEF TypeOK, Cleared

LEMMA GrownFacts ==
  ASSUME TypeOK, NEW fd \in Fd, NEW l \in Grown(fd)
  PROVE  l \in Nat \ {0} /\ l > fd /\ l >= nfds
  <1>1. PICK k \in 0 .. fd : l = nfds * 2^k
    BY DEF Grown
  <1>2. l > fd /\ (l = nfds \/ l <= 2 * fd)
    BY DEF Grown
  <1>3. fd \in Nat /\ nfds \in Nat \ {0} /\ k \in Nat
    BY EpollAssumption, SMT DEF TypeOK
  <1> QED
    BY <1>1, <1>2, <1>3, SMT

LEMMA WatchedAfterAdd ==
  ASSUME TypeOK, NEW e \in Event, fds' = Filled(e)
  PROVE  \A fd \in Fd : Watched(fd)' = IF fd = FdOf[e] THEN Wanted(e) ELSE Watched(fd)
  <1>1. e # NoEvent /\ Interest[e] \subseteq Dir
    BY EpollAssumption
  <1>2. \A fd \in Fd : Watched(fd)' = {d \in Dir : Filled(e)[fd][d] # NoEvent}
    BY DEF Watched
  <1> QED
    BY <1>1, <1>2, FilledEntries DEF Watched, Wanted

LEMMA WatchedAfterDel ==
  ASSUME TypeOK, NEW e \in Event, fds' = Cleared(e)
  PROVE  \A fd \in Fd : Watched(fd)' = IF fd = FdOf[e] THEN Kept(e) ELSE Watched(fd)
  <1>1. FdOf[e] \in Fd
    BY EpollAssumption
  <1>2. \A fd \in Fd : Watched(fd)' = {d \in Dir : Cleared(e)[fd][d] # NoEvent}
    BY DEF Watched
  <1> QED
    BY <1>1, <1>2, ClearedEntries DEF Watched, Kept

-----------------------------------------------------------------------------
(* One lemma for each call that changes the table.                         *)

LEMMA AddKeeps ==
  ASSUME EpollInv, NEW e \in Event, EpollAdd(e)
  PROVE  EpollInv'
  <1> DEFINE fd == FdOf[e]
  <1>1. /\ TypeOK /\ NoDangling /\ InTable /\ KernelAgrees
        /\ fd \in Fd /\ Interest[e] \in (SUBSET Dir) \ {{}} /\ e # NoEvent
    BY EpollAssumption DEF EpollInv
  <1>2. /\ fds' = Filled(e) /\ nfds' \in Grown(fd) /\ fd \in open
        /\ kernel' = [kernel EXCEPT ![fd] = Wanted(e)]
        /\ inserted' = inserted \cup {e} /\ refused' = {}
        /\ displaced' = displaced \cup Rivals(e)
        /\ UNCHANGED <<nevents, open, stale>>
    BY DEF EpollAdd, CtlFits
  <1>3. Wanted(e) \in SUBSET Dir /\ Wanted(e) # {}
    BY <1>1, WatchedIsNotAbsent DEF Wanted
  <1>4. nfds' \in Nat \ {0} /\ nfds' > fd /\ nfds' >= nfds
    BY <1>1, <1>2, GrownFacts
  <1>5. TypeOK'
    <2>1. kernel' \in [Fd -> (SUBSET Dir) \cup {Absent}]
      BY <1>1, <1>2, <1>3 DEF TypeOK
    <2>2. displaced' \in SUBSET (inserted' \X Dir)
      BY <1>1, <1>2 DEF TypeOK, Rivals
    <2> QED
      BY <1>1, <1>2, <1>4, <2>1, <2>2, FilledEntries DEF TypeOK
  <1>6. NoDangling'
    BY <1>1, <1>2, FilledEntries DEF NoDangling
  <1>7. InTable'
    <2> SUFFICES ASSUME NEW f \in inserted \cup {e} PROVE FdOf[f] < nfds'
        BY <1>2 DEF InTable
    <2>1. CASE f = e
      BY <1>1, <1>4, <2>1, EpollAssumption, SMT
    <2>2. CASE f \in inserted
      <3>1. FdOf[f] < nfds /\ FdOf[f] \in Nat /\ nfds \in Nat
        BY <1>1, <2>2, EpollAssumption DEF InTable, TypeOK
      <3> QED
        BY <1>4, <3>1, SMT
    <2> QED
      BY <2>1, <2>2
  <1>8. KernelAgrees'
    BY <1>1, <1>2, <1>3, WatchedAfterAdd DEF KernelAgrees, TypeOK
  <1> QED
    BY <1>5, <1>6, <1>7, <1>8 DEF EpollInv

LEMMA DelKeeps ==
  ASSUME EpollInv, NEW e \in Event, EpollDel(e)
  PROVE  EpollInv'
  <1> DEFINE fd == FdOf[e]
             left == CASE kernel[fd] = Absent -> Absent
                       [] Kept(e) = {}        -> Absent
                       [] OTHER               -> Kept(e)
  <1>1. /\ TypeOK /\ NoDangling /\ InTable /\ KernelAgrees
        /\ fd \in Fd /\ Interest[e] \in (SUBSET Dir) \ {{}} /\ e # NoEvent
    BY EpollAssumption DEF EpollInv
  <1>2. /\ fds' = Cleared(e) /\ kernel' = [kernel EXCEPT ![fd] = left]
        /\ inserted' = inserted \ {e} /\ refused' \in SUBSET Fd /\ stale' \in SUBSET Fd
        /\ displaced' = (displaced \cup Rivals(e)) \ ({e} \X Dir)
        /\ UNCHANGED <<nfds, nevents, open>>
    BY <1>1 DEF EpollDel, TypeOK
  <1>3. Kept(e) \in SUBSET Dir
    BY <1>1, WatchedIsNotAbsent DEF Kept
  <1>4. /\ left \in (SUBSET Dir) \cup {Absent}
        /\ left # Absent => kernel[fd] # Absent /\ left = Kept(e) /\ Kept(e) # {}
    BY <1>3
  <1> HIDE DEF left
  <1>5. TypeOK'
    <2>1. kernel' \in [Fd -> (SUBSET Dir) \cup {Absent}]
      BY <1>1, <1>2, <1>4 DEF TypeOK
    <2>2. displaced' \in SUBSET (inserted' \X Dir)
      <3>1. Rivals(e) \in SUBSET ((inserted \ {e}) \X Dir)
        BY DEF Rivals
      <3> QED
        BY <1>1, <1>2, <3>1 DEF TypeOK
    <2> QED
      BY <1>1, <1>2, <2>1, <2>2, ClearedEntries DEF TypeOK
  <1>6. NoDangling'
    <2> SUFFICES ASSUME NEW g \in Fd, NEW d \in Dir, Cleared(e)[g][d] # NoEvent
                 PROVE  /\ Cleared(e)[g][d] \in inserted \ {e}
                        /\ FdOf[Cleared(e)[g][d]] = g
                        /\ d \in Interest[Cleared(e)[g][d]]
        BY <1>2 DEF NoDangling
    <2>1. /\ Cleared(e)[g][d] = fds[g][d]
          /\ g = fd => d \in Kept(e)
      BY <1>1, ClearedEntries
    <2>2. /\ fds[g][d] \in inserted /\ FdOf[fds[g][d]] = g /\ d \in Interest[fds[g][d]]
      BY <1>1, <2>1 DEF NoDangling
    <2>3. fds[g][d] # e
      BY <2>1, <2>2 DEF Kept
    <2> QED
      BY <2>1, <2>2, <2>3
  <1>7. InTable'
    BY <1>1, <1>2 DEF InTable
  <1>8. KernelAgrees'
    <2> SUFFICES ASSUME NEW g \in Fd, kernel'[g] # Absent
                 PROVE  g \in open /\ kernel'[g] = Watched(g)' /\ Watched(g)' # {}
        BY <1>2 DEF KernelAgrees
    <2>1. CASE g = fd
      BY <1>1, <1>2, <1>4, <2>1, WatchedAfterDel DEF KernelAgrees, TypeOK
    <2>2. CASE g # fd
      BY <1>1, <1>2, <2>2, WatchedAfterDel DEF KernelAgrees, TypeOK
    <2> QED
      BY <2>1, <2>2
  <1> QED
    BY <1>5, <1>6, <1>7, <1>8 DEF EpollInv

LEMMA OpenCloseKeeps ==
  ASSUME EpollInv, NEW fd \in Fd, Open(fd) \/ Close(fd)
  PROVE  EpollInv'
  <1>1. CASE Open(fd)
    BY <1>1 DEF Open, EpollInv, TypeOK, NoDangling, InTable, KernelAgrees, Watched
  <1>2. CASE Close(fd)
    <2>1. TypeOK' /\ NoDangling' /\ InTable'
      BY <1>2 DEF Close, EpollInv, TypeOK, NoDangling, InTable
    <2>2. KernelAgrees'
      BY <1>2 DEF Close, EpollInv, TypeOK, KernelAgrees, Watched
    <2> QED
      BY <2>1, <2>2 DEF EpollInv
  <1> QED
    BY <1>1, <1>2

\* What an epoll_add that fails and a dispatch leave alone.
LEMMA LengthsKeep ==
  ASSUME EpollInv,
         nfds' \in Nat \ {0}, nfds' >= nfds,
         nevents' \in Nat \ {0}, nevents' < 2 * MaxNevents,
         refused' \in SUBSET Fd,
         UNCHANGED <<fds, kernel, open, inserted, stale, displaced>>
  PROVE  EpollInv'
  <1>1. TypeOK' /\ NoDangling' /\ KernelAgrees'
    BY DEF EpollInv, TypeOK, NoDangling, KernelAgrees, Watched
  <1>2. InTable'
    <2> SUFFICES ASSUME NEW e \in inserted PROVE FdOf[e] < nfds'
        BY DEF InTable
    <2>1. FdOf[e] < nfds /\ FdOf[e] \in Nat /\ nfds \in Nat
      BY EpollAssumption DEF EpollInv, InTable, TypeOK
    <2> QED
      BY <2>1, SMT
  <1> QED
    BY <1>1, <1>2 DEF EpollInv

LEMMA FailuresKeep ==
  ASSUME EpollInv, NEW e \in Event, RecalcFails(e) \/ CtlFails(e)
  PROVE  EpollInv'
  <1>1. TypeOK /\ FdOf[e] \in Fd
    BY EpollAssumption DEF EpollInv
  <1>2. /\ nfds' \in Nat \ {0} /\ nfds' >= nfds
        /\ refused' \in SUBSET Fd
        /\ UNCHANGED <<fds, nevents, kernel, open, inserted, stale, displaced>>
    <2>1. CASE RecalcFails(e)
      BY <1>1, <2>1, SMT DEF RecalcFails, TypeOK
    <2>2. CASE CtlFails(e)
      BY <1>1, <2>2, GrownFacts DEF CtlFails
    <2> QED
      BY <2>1, <2>2
  <1>3. nevents' \in Nat \ {0} /\ nevents' < 2 * MaxNevents
    BY <1>1, <1>2 DEF TypeOK
  <1> QED
    BY <1>2, <1>3, LengthsKeep

LEMMA DispatchKeeps ==
  ASSUME EpollInv, NEW tv \in Timeval \cup {NullTv}, NEW r \in Reports,
         EpollDispatch(tv, r)
  PROVE  EpollInv'
  <1>1. TypeOK
    BY DEF EpollInv
  <1>2. /\ nevents' \in Widened(Cardinality(DOMAIN r))
        /\ refused' \in SUBSET Fd /\ nfds' = nfds
        /\ UNCHANGED <<fds, kernel, open, inserted, stale, displaced>>
    BY DEF EpollDispatch
  <1>3. nevents' \in Nat \ {0} /\ nevents' < 2 * MaxNevents
    BY <1>1, <1>2, EpollAssumption, SMT DEF TypeOK, Widened
  <1>4. nfds' \in Nat \ {0} /\ nfds' >= nfds
    BY <1>1, <1>2, SMT DEF TypeOK
  <1> QED
    BY <1>2, <1>3, <1>4, LengthsKeep

-----------------------------------------------------------------------------
LEMMA NextKeeps == EpollInv /\ [Next]_vars => EpollInv'
  <1> SUFFICES ASSUME EpollInv, [Next]_vars PROVE EpollInv'
      OBVIOUS
  <1>1. CASE \E fd \in Fd : Open(fd) \/ Close(fd)
    BY <1>1, OpenCloseKeeps
  <1>2. CASE \E e \in Event : EpollAdd(e) \/ RecalcFails(e) \/ CtlFails(e) \/ EpollDel(e)
    BY <1>2, AddKeeps, FailuresKeep, DelKeeps
  <1>3. CASE \E tv \in Timeval \cup {NullTv}, r \in Reports : EpollDispatch(tv, r)
    BY <1>3, DispatchKeeps
  <1>4. CASE UNCHANGED vars
    BY <1>4 DEF vars, EpollInv, TypeOK, NoDangling, InTable, KernelAgrees, Watched
  <1> QED
    BY <1>1, <1>2, <1>3, <1>4 DEF Next

\* The invariant that carries the proofs: types, entries of inserted events
\* only, entries inside the table, and an epoll set that equals the table
\* wherever the descriptor is in it (epoll.cpp:209-329).
THEOREM InvHolds == Spec => []EpollInv
  BY InitHolds, NextKeeps, PTL DEF Spec

\* event_del leaves no pointer to the event in the table of epoll.cpp, even if
\* epoll_ctl fails, the descriptor was closed, or other events share it.
THEOREM NothingDangles == Spec => []NoDangling
  BY InvHolds, PTL DEF EpollInv

\* Whatever the kernel reports wakes an event: its set never asks for more
\* than the table holds, nor for less.
THEOREM KernelMatchesTable == Spec => []KernelAgrees
  BY InvHolds, PTL DEF EpollInv

\* epoll_recalc makes the table long enough for every descriptor used in it.
THEOREM TableIsLongEnough == Spec => []InTable
  BY InvHolds, PTL DEF EpollInv

-----------------------------------------------------------------------------
(* Who is heard.                                                           *)

LEMMA AddIsHeard ==
  ASSUME EpollInv, InsertedIsHeard, NEW a \in Event, EpollAdd(a)
  PROVE  InsertedIsHeard'
  <1>1. /\ TypeOK /\ FdOf \in [Event -> Fd] /\ inserted \subseteq Event
        /\ Interest \in [Event -> (SUBSET Dir) \ {{}}]
    BY EpollAssumption DEF EpollInv, TypeOK
  <1>2. /\ fds' = Filled(a) /\ kernel' = [kernel EXCEPT ![FdOf[a]] = Wanted(a)]
        /\ inserted' = inserted \cup {a} /\ stale' = stale
        /\ displaced' = displaced \cup Rivals(a)
    BY DEF EpollAdd
  <1>3. Wanted(a) # Absent
    BY <1>1, WatchedIsNotAbsent DEF Wanted
  <1> SUFFICES ASSUME NEW e \in inserted \cup {a}, NEW d \in Interest[e], <<e, d>> \notin displaced'
               PROVE  /\ Filled(a)[FdOf[e]][d] = e
                      /\ FdOf[e] \notin stale => kernel'[FdOf[e]] # Absent
      BY <1>2 DEF InsertedIsHeard
  <1>4. e \in Event /\ FdOf[e] \in Fd /\ d \in Dir /\ FdOf[a] \in Fd
    BY <1>1
  <1>5. CASE e = a
    BY <1>1, <1>2, <1>3, <1>4, <1>5, FilledEntries DEF TypeOK
  <1>6. CASE e # a
    <2>1. fds[FdOf[e]][d] = e /\ (FdOf[e] \notin stale => kernel[FdOf[e]] # Absent)
      BY <1>2, <1>6 DEF InsertedIsHeard
    <2>2. ~(FdOf[a] = FdOf[e] /\ d \in Interest[a])
      BY <1>2, <1>4, <1>6 DEF Rivals
    <2> QED
      BY <1>1, <1>2, <1>3, <1>4, <2>1, <2>2, FilledEntries DEF TypeOK
  <1> QED
    BY <1>5, <1>6

LEMMA DelIsHeard ==
  ASSUME EpollInv, InsertedIsHeard, NEW a \in Event, EpollDel(a)
  PROVE  InsertedIsHeard'
  <1>1. /\ TypeOK /\ FdOf \in [Event -> Fd] /\ inserted \subseteq Event
        /\ Interest \in [Event -> (SUBSET Dir) \ {{}}] /\ NoEvent \notin Event
    BY EpollAssumption DEF EpollInv, TypeOK
  <1> DEFINE fd == FdOf[a]
  <1>2. /\ fds' = Cleared(a) /\ inserted' = inserted \ {a}
        /\ kernel' = [kernel EXCEPT ![fd] = CASE @ = Absent   -> Absent
                                              [] Kept(a) = {} -> Absent
                                              [] OTHER        -> Kept(a)]
        /\ stale' = IF Kept(a) = {} THEN stale \ {fd} ELSE stale
        /\ displaced' = (displaced \cup Rivals(a)) \ ({a} \X Dir)
    BY DEF EpollDel
  <1>3. Kept(a) # Absent
    BY <1>1, WatchedIsNotAbsent DEF Kept
  <1> SUFFICES ASSUME NEW e \in inserted \ {a}, NEW d \in Interest[e], <<e, d>> \notin displaced'
               PROVE  /\ Cleared(a)[FdOf[e]][d] = e
                      /\ FdOf[e] \notin stale' => kernel'[FdOf[e]] # Absent
      BY <1>2 DEF InsertedIsHeard
  <1>4. e \in Event /\ FdOf[e] \in Fd /\ d \in Dir /\ fd \in Fd
    BY <1>1
  <1> <<e, d>> \notin displaced /\ <<e, d>> \notin Rivals(a)
    BY <1>2
  <1>5. fds[FdOf[e]][d] = e /\ (FdOf[e] \notin stale => kernel[FdOf[e]] # Absent)
    BY DEF InsertedIsHeard
  <1>6. CASE FdOf[e] = fd
    <2>1. d \notin Interest[a]
      BY <1>4, <1>6 DEF Rivals
    <2>2. d \in Kept(a)
      BY <1>1, <1>4, <1>5, <1>6, <2>1 DEF Kept, Watched
    <2>3. Cleared(a)[FdOf[e]][d] = e
      BY <1>1, <1>4, <1>5, <2>2, ClearedEntries
    <2>4. stale' = stale /\ Kept(a) # {}
      BY <1>2, <2>2
    <2>5. FdOf[e] \notin stale => kernel'[FdOf[e]] # Absent
      BY <1>1, <1>2, <1>3, <1>4, <1>5, <1>6, <2>4 DEF TypeOK
    <2> QED
      BY <2>3, <2>4, <2>5
  <1>7. CASE FdOf[e] # fd
    <2>1. Cleared(a)[FdOf[e]][d] = e
      BY <1>1, <1>4, <1>5, <1>7, ClearedEntries
    <2>2. kernel'[FdOf[e]] = kernel[FdOf[e]] /\ (FdOf[e] \notin stale' => FdOf[e] \notin stale)
      BY <1>1, <1>2, <1>4, <1>7 DEF TypeOK
    <2> QED
      BY <1>5, <2>1, <2>2
  <1> QED
    BY <1>6, <1>7

LEMMA CloseIsHeard ==
  ASSUME EpollInv, InsertedIsHeard, NEW fd \in Fd, Close(fd)
  PROVE  InsertedIsHeard'
  <1>1. /\ TypeOK /\ FdOf \in [Event -> Fd] /\ inserted \subseteq Event
        /\ Interest \in [Event -> (SUBSET Dir) \ {{}}] /\ NoEvent \notin Event
    BY EpollAssumption DEF EpollInv, TypeOK
  <1>2. /\ fds' = fds /\ inserted' = inserted
        /\ kernel' = [kernel EXCEPT ![fd] = Absent]
        /\ stale' = IF Watched(fd) # {} THEN stale \cup {fd} ELSE stale
        /\ displaced' = displaced
    BY DEF Close
  <1> SUFFICES ASSUME NEW e \in inserted, NEW d \in Interest[e], <<e, d>> \notin displaced'
               PROVE  /\ fds[FdOf[e]][d] = e
                      /\ FdOf[e] \notin stale' => kernel'[FdOf[e]] # Absent
      BY <1>2 DEF InsertedIsHeard
  <1>3. e \in Event /\ FdOf[e] \in Fd /\ d \in Dir
    BY <1>1
  <1>4. fds[FdOf[e]][d] = e /\ (FdOf[e] \notin stale => kernel[FdOf[e]] # Absent)
    BY <1>2 DEF InsertedIsHeard
  <1>5. FdOf[e] = fd => fd \in stale'
    BY <1>1, <1>2, <1>3, <1>4 DEF Watched
  <1> QED
    BY <1>1, <1>2, <1>3, <1>4, <1>5 DEF TypeOK

\* An inserted event is found in the table until another event of the same
\* descriptor and direction is added over it or deleted from under it, and the
\* kernel is asked about it unless the application closed the descriptor:
\* event_del of the event for the other direction (bufferevent_disable) and
\* failing calls do not deafen it, nor does a rival that was never added.
THEOREM InsertedAreHeard == Spec => []InsertedIsHeard
  <1>1. Init => InsertedIsHeard
    BY DEF Init, InsertedIsHeard
  <1>2. ASSUME EpollInv, InsertedIsHeard, [Next]_vars
        PROVE  InsertedIsHeard'
    <2>1. CASE \E fd \in Fd : Open(fd)
      BY <1>2, <2>1 DEF Open, InsertedIsHeard
    <2>2. CASE \E fd \in Fd : Close(fd)
      BY <1>2, <2>2, CloseIsHeard
    <2>3. CASE \E e \in Event : EpollAdd(e)
      BY <1>2, <2>3, AddIsHeard
    <2>4. CASE \E e \in Event : EpollDel(e)
      BY <1>2, <2>4, DelIsHeard
    <2>5. CASE \E e \in Event : RecalcFails(e) \/ CtlFails(e)
      BY <1>2, <2>5 DEF RecalcFails, CtlFails, InsertedIsHeard
    <2>6. CASE \E tv \in Timeval \cup {NullTv}, r \in Reports : EpollDispatch(tv, r)
      BY <1>2, <2>6 DEF EpollDispatch, InsertedIsHeard
    <2>7. CASE UNCHANGED vars
      BY <1>2, <2>7 DEF vars, InsertedIsHeard
    <2> QED
      BY <1>2, <2>1, <2>2, <2>3, <2>4, <2>5, <2>6, <2>7 DEF Next
  <1> QED
    BY <1>1, <1>2, InvHolds, PTL DEF Spec

-----------------------------------------------------------------------------
(* The refinement of Backend.                                              *)

LEMMA StepIsBackend == EpollInv /\ [Next]_vars => [Table!Next]_(Table!vars)
  <1> SUFFICES ASSUME EpollInv, [Next]_vars
               PROVE  Table!Next \/ UNCHANGED Table!vars
      OBVIOUS
  <1>1. ASSUME NEW e \in Event, EpollAdd(e) PROVE Table!Next
    BY <1>1 DEF EpollAdd, Quiet, Table!Next, Table!Add
  <1>2. ASSUME NEW e \in Event, EpollDel(e) PROVE Table!Next
    BY <1>2 DEF EpollDel, Quiet, Table!Next, Table!Del
  <1>3. ASSUME reported' = {}, inserted' = inserted PROVE Table!Next
    BY <1>3 DEF Table!Next, Table!Dispatch
  <1>4. CASE \E fd \in Fd : Open(fd) \/ Close(fd)
    BY <1>3, <1>4 DEF Open, Close, Quiet
  <1>5. CASE \E e \in Event : RecalcFails(e) \/ CtlFails(e)
    BY <1>3, <1>5 DEF RecalcFails, CtlFails, Quiet
  <1>6. ASSUME NEW tv \in Timeval \cup {NullTv}, NEW r \in Reports, EpollDispatch(tv, r)
        PROVE  Table!Next
    <2>1. reported' = Activated(r) /\ inserted' = inserted
      BY <1>6 DEF EpollDispatch
    <2>2. DOMAIN r \subseteq Fd
      BY DEF Reports, InSet
    <2>3. Activated(r) \subseteq Table!Results
      <3> SUFFICES ASSUME NEW x \in Activated(r) PROVE x \in Table!Results
          OBVIOUS
      <3>1. /\ x \in Event \X Dir
            /\ \E fd \in Fd : fds[fd][x[2]] = x[1]
        BY <2>2 DEF Activated
      <3>2. x[1] # NoEvent /\ x[2] \in Dir /\ x = <<x[1], x[2]>>
        BY <3>1, EpollAssumption
      <3>3. x[1] \in inserted /\ x[2] \in Interest[x[1]]
        BY <3>1, <3>2 DEF EpollInv, NoDangling
      <3> QED
        BY <3>2, <3>3 DEF Table!Results
    <2> QED
      BY <2>1, <2>3 DEF Table!Next, Table!Dispatch
  <1>7. CASE UNCHANGED vars
    BY <1>7 DEF vars, Table!vars
  <1> QED
    BY <1>1, <1>2, <1>4, <1>5, <1>6, <1>7 DEF Next

\* epoll.cpp implements what EventBase assumes of an eventop: dispatch activates
\* only events that were added and not deleted, for their own interest.
THEOREM EpollImplementsBackend == Spec => ImplementsBackend
  <1>1. Init => Table!Init
    BY DEF Init, Table!Init
  <1> QED
    BY <1>1, StepIsBackend, InvHolds, PTL DEF Spec, ImplementsBackend, Table!Spec

-----------------------------------------------------------------------------
(* The operation given to epoll_ctl.                                       *)

\* An entry whose descriptor is not in the epoll set is a leftover of a close.
StaleInv == \A fd \in Fd : Watched(fd) # {} /\ kernel[fd] = Absent => fd \in stale

LEMMA StaleKept ==
  ASSUME EpollInv, StaleInv, [Next]_vars
  PROVE  StaleInv'
  <1>1. /\ TypeOK /\ FdOf \in [Event -> Fd] /\ NoEvent \notin Event
        /\ Interest \in [Event -> (SUBSET Dir) \ {{}}]
        /\ kernel \in [Fd -> (SUBSET Dir) \cup {Absent}]
    BY EpollAssumption DEF EpollInv, TypeOK
  <1>2. ASSUME NEW e \in Event, EpollAdd(e) PROVE StaleInv'
    <2>1. /\ fds' = Filled(e) /\ kernel' = [kernel EXCEPT ![FdOf[e]] = Wanted(e)]
          /\ stale' = stale
      BY <1>2 DEF EpollAdd
    <2>2. Wanted(e) # Absent
      BY <1>1, WatchedIsNotAbsent DEF Wanted
    <2> QED
      BY <1>1, <2>1, <2>2, WatchedAfterAdd DEF StaleInv
  <1>3. ASSUME NEW e \in Event, EpollDel(e) PROVE StaleInv'
    <2> DEFINE fd == FdOf[e]
               left == CASE kernel[fd] = Absent -> Absent
                         [] Kept(e) = {}        -> Absent
                         [] OTHER               -> Kept(e)
    <2>1. /\ fds' = Cleared(e) /\ kernel' = [kernel EXCEPT ![fd] = left]
          /\ stale' = IF Kept(e) = {} THEN stale \ {fd} ELSE stale
      BY <1>3 DEF EpollDel
    <2>2. Kept(e) # Absent /\ Kept(e) \subseteq Watched(fd) /\ fd \in Fd
      BY <1>1, WatchedIsNotAbsent DEF Kept
    <2>3. left = Absent /\ Kept(e) # {} => kernel[fd] = Absent
      BY <2>2
    <2> HIDE DEF left
    <2> SUFFICES ASSUME NEW g \in Fd, Watched(g)' # {}, kernel'[g] = Absent
                 PROVE  g \in stale'
        BY DEF StaleInv
    <2>4. CASE g = fd
      <3>1. Watched(g)' = Kept(e) /\ left = Absent
        BY <1>1, <2>1, <2>4, WatchedAfterDel
      <3> QED
        BY <2>1, <2>2, <2>3, <2>4, <3>1 DEF StaleInv
    <2>5. CASE g # fd
      <3>1. Watched(g)' = Watched(g) /\ kernel'[g] = kernel[g]
        BY <1>1, <2>1, <2>5, WatchedAfterDel
      <3> QED
        BY <2>1, <2>5, <3>1 DEF StaleInv
    <2> QED
      BY <2>4, <2>5
  <1>4. ASSUME NEW fd \in Fd, Close(fd) PROVE StaleInv'
    BY <1>1, <1>4 DEF Close, StaleInv, Watched
  <1>5. ASSUME UNCHANGED <<fds, kernel, stale>> PROVE StaleInv'
    BY <1>5 DEF StaleInv, Watched
  <1>6. CASE \E fd \in Fd : Open(fd)
    BY <1>5, <1>6 DEF Open
  <1>7. CASE \E e \in Event : RecalcFails(e) \/ CtlFails(e)
    BY <1>5, <1>7 DEF RecalcFails, CtlFails
  <1>8. CASE \E tv \in Timeval \cup {NullTv}, r \in Reports : EpollDispatch(tv, r)
    BY <1>5, <1>8 DEF EpollDispatch
  <1>9. CASE UNCHANGED vars
    BY <1>5, <1>9 DEF vars
  <1> QED
    BY <1>2, <1>3, <1>4, <1>6, <1>7, <1>8, <1>9 DEF Next

\* epoll_ctl is given EPOLL_CTL_ADD for a descriptor that is not in the epoll
\* set, and EPOLL_CTL_MOD and _DEL for one that is: an open descriptor is
\* refused only if it was closed under an event, or when event_del lets go of
\* an event that others have displaced in all its directions.
THEOREM OperationsFit == Spec => OperationFits
  <1> DEFINE Fits == \A fd \in refused' :
                       \/ fd \in stale
                       \/ \E e \in inserted \ inserted' :
                            \A d \in Interest[e] : <<e, d>> \in displaced
  <1>1. Init => StaleInv
    BY DEF Init, StaleInv, Watched
  <1>2. EpollInv /\ StaleInv /\ [Next]_vars => StaleInv'
    BY StaleKept
  <1>3. ASSUME EpollInv, StaleInv, InsertedIsHeard, Next PROVE Fits
    <2>1. TypeOK /\ KernelAgrees /\ FdOf \in [Event -> Fd] /\ NoEvent \notin Event
          /\ Interest \in [Event -> (SUBSET Dir) \ {{}}]
      BY <1>3, EpollAssumption DEF EpollInv
    <2>2. ASSUME refused' = {} PROVE Fits
      BY <2>2
    <2>3. ASSUME NEW e \in Event, CtlFails(e) PROVE Fits
      <3> SUFFICES ASSUME NEW fd \in refused' PROVE fd \in stale
          OBVIOUS
      <3>1. fd = FdOf[e] /\ fd \in open /\ ~CtlFits(fd) /\ fd \in Fd
        BY <2>1, <2>3 DEF CtlFails
      <3>2. Watched(fd) # {} /\ kernel[fd] = Absent
        BY <2>1, <3>1 DEF CtlFits, IsNew, KernelAgrees
      <3> QED
        BY <1>3, <3>1, <3>2 DEF StaleInv
    <2>4. ASSUME NEW e \in Event, EpollDel(e) PROVE Fits
      <3> SUFFICES ASSUME NEW fd \in refused', fd \notin stale, NEW d \in Interest[e]
                   PROVE  <<e, d>> \in displaced
          BY <2>4 DEF EpollDel
      <3>1. fd = FdOf[e] /\ kernel[fd] = Absent /\ fd \in Fd /\ e \in inserted
        BY <2>1, <2>4 DEF EpollDel
      <3>2. d \in Dir
        BY <2>1
      <3>3. Watched(fd) = {}
        BY <1>3, <3>1 DEF StaleInv
      <3>4. fds[fd][d] # e
        BY <2>1, <3>2, <3>3 DEF Watched
      <3> QED
        BY <1>3, <3>1, <3>4 DEF InsertedIsHeard
    <2>5. CASE \E fd \in Fd : Open(fd) \/ Close(fd)
      BY <2>2, <2>5 DEF Open, Close
    <2>6. CASE \E e \in Event : EpollAdd(e) \/ RecalcFails(e)
      BY <2>2, <2>6 DEF EpollAdd, RecalcFails
    <2>7. CASE \E tv \in Timeval \cup {NullTv}, r \in Reports : EpollDispatch(tv, r)
      BY <2>2, <2>7 DEF EpollDispatch
    <2> QED
      BY <1>3, <2>3, <2>4, <2>5, <2>6, <2>7 DEF Next
  <1>4. EpollInv /\ StaleInv /\ InsertedIsHeard /\ [Next]_vars => [Fits]_vars
    BY <1>3
  <1> QED
    BY <1>1, <1>2, <1>4, InvHolds, InsertedAreHeard, PTL DEF Spec, OperationFits

-----------------------------------------------------------------------------
(* The timeout of epoll_wait.                                              *)

LEMMA DivBounds ==
  ASSUME NEW a \in Nat, NEW u \in Nat \ {0}
  PROVE  a \div u \in Nat /\ (a \div u) * u <= a /\ a < (a \div u) * u + u
  BY SMT

LEMMA ModSmall ==
  ASSUME NEW a \in Nat, NEW m \in Nat \ {0}, a < m
  PROVE  a % m = a
  BY SMT

LEMMA Distributes ==
  ASSUME NEW a \in Int, NEW b \in Int, NEW u \in Nat
  PROVE  (a + b) * u = a * u + b * u
  BY SMT

LEMMA ProductLess ==
  ASSUME NEW a \in Int, NEW b \in Int, NEW u \in Nat \ {0}, a * u < b * u
  PROVE  a < b
  BY SMT

\* A value in the range of an int keeps it.
LEMMA IntKeeps ==
  ASSUME NEW x \in Nat, x < IntHalf
  PROVE  ToInt(x) = x
  <1>1. x + IntHalf \in Nat /\ 2 * IntHalf \in Nat \ {0} /\ x + IntHalf < 2 * IntHalf
    BY TimeAssumption
  <1>2. (x + IntHalf) % (2 * IntHalf) = x + IntHalf
    BY <1>1, ModSmall
  <1> QED
    BY <1>2, TimeAssumption DEF ToInt

\* The milliseconds epoll_dispatch computes are the deadline rounded up.
LEMMA Milliseconds ==
  ASSUME NEW tv \in Timeval, FitsInt(tv),
         NEW x, x = tv.sec * MsPerSec + (tv.usec + UsecPerMs - 1) \div UsecPerMs
  PROVE  /\ x \in Nat /\ x < IntHalf
         /\ UsecOf(tv) \in Nat
         /\ UsecOf(tv) <= x * UsecPerMs /\ UsecOf(tv) > (x - 1) * UsecPerMs
  <1> DEFINE u == UsecPerMs
             s == tv.sec * MsPerSec
             a == tv.usec + u - 1
             q == a \div u
  <1>1. u \in Nat \ {0} /\ s \in Nat /\ tv.usec \in Nat /\ IntHalf \in Nat \ {0}
    BY TimeAssumption
  <1>2. a \in Nat
    BY <1>1
  <1>3. UsecOf(tv) = s * u + tv.usec
    BY DEF UsecOf
  <1>4. s * u + tv.usec <= (IntHalf - 1) * u
    BY <1>3 DEF FitsInt
  <1>5. x = s + q
    OBVIOUS
  <1> HIDE DEF u, s
  <1>6. q \in Nat /\ q * u <= a /\ a < q * u + u
    BY <1>1, <1>2, DivBounds
  <1>7. a = tv.usec + u - 1
    OBVIOUS
  <1> HIDE DEF q, a
  <1>8. /\ x \in Nat /\ s * u \in Nat /\ q * u \in Nat
        /\ x * u \in Nat /\ IntHalf * u \in Nat
        /\ x * u = s * u + q * u /\ (x - 1) * u = x * u - u
        /\ (IntHalf - 1) * u = IntHalf * u - u
    <2>1. x \in Nat
      BY <1>1, <1>5, <1>6
    <2>2. s * u \in Nat /\ q * u \in Nat /\ x * u \in Nat /\ IntHalf * u \in Nat
      BY <1>1, <1>6, <2>1
    <2>3. x * u = s * u + q * u
      BY <1>1, <1>5, <1>6, Distributes
    <2>4. (x + -1) * u = x * u + -1 * u /\ (IntHalf + -1) * u = IntHalf * u + -1 * u
      BY <1>1, <2>1, Distributes
    <2> QED
      BY <1>1, <2>1, <2>2, <2>3, <2>4
  <1>9. x * u < IntHalf * u
    BY <1>1, <1>2, <1>4, <1>6, <1>7, <1>8
  <1>10. x < IntHalf
    BY <1>1, <1>8, <1>9, ProductLess
  <1>11. s * u + tv.usec <= x * u /\ s * u + tv.usec > (x - 1) * u
    BY <1>1, <1>2, <1>6, <1>7, <1>8
  <1> QED
    BY <1>1, <1>3, <1>8, <1>10, <1>11 DEF u

\* Between two dispatches nothing is known of the last timeout.
PollFits ==
  poll # Nothing => \E tv \in Timeval \cup {NullTv} : poll = <<tv, Timeout(tv)>>

\* A deadline of less than about 25 days bounds epoll_wait: it waits no longer
\* than MAX_EPOLL_TIMEOUT_MSEC nor more than a millisecond too long, and does
\* not give up before the deadline, whatever the units and the width of int.
THEOREM WaitsToDeadline == Spec => []WaitReachesDeadline
  <1>1. Init => PollFits
    BY DEF Init, PollFits
  <1>2. PollFits /\ [Next]_vars => PollFits'
    <2> SUFFICES ASSUME PollFits, [Next]_vars PROVE PollFits'
        OBVIOUS
    <2>1. CASE \E tv \in Timeval \cup {NullTv}, r \in Reports : EpollDispatch(tv, r)
      BY <2>1 DEF EpollDispatch, PollFits
    <2>2. CASE \E fd \in Fd : Open(fd) \/ Close(fd)
      BY <2>2 DEF Open, Close, Quiet, PollFits
    <2>3. CASE \E e \in Event : EpollAdd(e) \/ RecalcFails(e) \/ CtlFails(e) \/ EpollDel(e)
      BY <2>3 DEF EpollAdd, RecalcFails, CtlFails, EpollDel, Quiet, PollFits
    <2>4. CASE UNCHANGED vars
      BY <2>4 DEF vars, PollFits
    <2> QED
      BY <2>1, <2>2, <2>3, <2>4 DEF Next
  <1>3. PollFits => WaitReachesDeadline
    <2> SUFFICES ASSUME NEW tv \in Timeval, FitsInt(tv), tv # NullTv
                 PROVE  /\ Timeout(tv) \in 0 .. MaxWait
                        /\ UsecOf(tv) > (Timeout(tv) - 1) * UsecPerMs
                        /\ Timeout(tv) = MaxWait \/ UsecOf(tv) <= Timeout(tv) * UsecPerMs
        BY DEF PollFits, WaitReachesDeadline
    <2> DEFINE x == tv.sec * MsPerSec + (tv.usec + UsecPerMs - 1) \div UsecPerMs
    <2>1. Timeout(tv) = IF ToInt(x) > MaxWait THEN MaxWait ELSE ToInt(x)
      BY DEF Timeout
    <2>2. \A y : y = x =>
            /\ y \in Nat /\ y < IntHalf
            /\ UsecOf(tv) \in Nat
            /\ UsecOf(tv) <= y * UsecPerMs /\ UsecOf(tv) > (y - 1) * UsecPerMs
      BY Milliseconds
    <2>3. /\ x \in Nat /\ x < IntHalf /\ UsecOf(tv) \in Nat
          /\ UsecOf(tv) <= x * UsecPerMs /\ UsecOf(tv) > (x - 1) * UsecPerMs
      BY <2>2
    <2> HIDE DEF x
    <2>4. Timeout(tv) = IF x > MaxWait THEN MaxWait ELSE x
      BY <2>1, <2>3, IntKeeps
    <2>5. CASE x > MaxWait
      <3>1. MaxWait \in Nat /\ UsecPerMs \in Nat \ {0} /\ MaxWait - 1 <= x - 1
        BY <2>3, <2>5, TimeAssumption
      <3>2. (MaxWait - 1) * UsecPerMs <= (x - 1) * UsecPerMs
        BY <2>3, <3>1, SMT
      <3>3. (MaxWait - 1) * UsecPerMs \in Int /\ (x - 1) * UsecPerMs \in Int
        BY <2>3, <3>1
      <3>4. UsecOf(tv) > (MaxWait - 1) * UsecPerMs
        BY <2>3, <3>2, <3>3
      <3> QED
        BY <2>4, <2>5, <3>1, <3>4
    <2>6. CASE ~(x > MaxWait)
      BY <2>3, <2>4, <2>6, TimeAssumption
    <2> QED
      BY <2>5, <2>6
  <1> QED
    BY <1>1, <1>2, <1>3, PTL DEF Spec
==============================================================================
