-------------------------------- MODULE Epoll --------------------------------
(***************************************************************************)
(* include/epoll.cpp: for every file descriptor the table fds remembers    *)
(* the event that reads and the event that writes, and the kernel's epoll  *)
(* set must say the same.  The two are changed by separate statements, of  *)
(* which epoll_ctl may fail, and the application may close a descriptor    *)
(* while events are registered for it (closeClient in mainsvrd.cpp does).  *)
(***************************************************************************)
EXTENDS Integers, FiniteSets

CONSTANTS
  Event,        \* the events with EV_READ or EV_WRITE
  NoEvent,      \* the null struct event*
  Fd,           \* the descriptor numbers in use
  FdOf,         \* ev_fd
  Interest,     \* ev_events without EV_PERSIST
  InitNfiles,   \* INITIAL_NFILES
  InitNevents,  \* INITIAL_NEVENTS
  MaxNevents,   \* MAX_NEVENTS
  Timeval,      \* the timevals the loop passes, records of sec and usec
  MsPerSec,     \* 1000
  UsecPerMs,    \* 1000
  IntHalf,      \* 2^31: an int is one of -IntHalf .. IntHalf - 1
  MaxWait       \* MAX_EPOLL_TIMEOUT_MSEC

Dir == {"READ", "WRITE"}   \* EPOLLIN and EPOLLOUT

ASSUME EpollAssumption ==
  /\ Fd \subseteq Nat /\ IsFiniteSet(Fd)
  /\ NoEvent \notin Event
  /\ FdOf \in [Event -> Fd]
  /\ Interest \in [Event -> (SUBSET Dir) \ {{}}]
  /\ InitNfiles \in Nat \ {0} /\ MaxNevents \in Nat \ {0}
  /\ InitNevents \in 1 .. MaxNevents

ASSUME TimeAssumption ==
  /\ Timeval \subseteq [sec : Nat, usec : Nat]
  /\ MsPerSec \in Nat \ {0} /\ UsecPerMs \in Nat \ {0}
  /\ IntHalf \in Nat \ {0} /\ MaxWait \in Nat

Absent  == {"absent"}    \* the descriptor is not in the epoll set
NullTv  == [sec |-> -1, usec |-> 0]   \* a NULL struct timeval*

VARIABLES
  fds,       \* evread and evwrite of every descriptor
  nfds,      \* the length of the table
  nevents,   \* the length of the array of reports
  kernel,    \* the epoll set: the interest of the descriptors in it
  open,      \* the descriptors that are open
  inserted,  \* the events event.cpp has on its eventqueue
  reported,  \* what the last call activated, with which result
  poll,      \* the timeval and the timeout of the last epoll_wait
  stale,     \* history: descriptors closed under an event that is still here
  refused,   \* history: the open descriptor the last epoll_ctl had not or twice
  displaced  \* history: inserted events whose entry another event has taken
             \* over or emptied, each with the direction

vars == <<fds, nfds, nevents, kernel, open, inserted, reported, poll, stale,
          refused, displaced>>

Nothing == <<>>

Init ==
  /\ fds = [fd \in Fd |-> [d \in Dir |-> NoEvent]]
  /\ nfds = InitNfiles
  /\ nevents = InitNevents
  /\ kernel = [fd \in Fd |-> Absent]
  /\ open = {}
  /\ inserted = {}
  /\ reported = {}
  /\ poll = Nothing
  /\ stale = {}
  /\ refused = {}
  /\ displaced = {}

Watched(fd) == {d \in Dir : fds[fd][d] # NoEvent}

Quiet == reported' = {} /\ poll' = Nothing

-----------------------------------------------------------------------------
(* The application opens and closes descriptors.                           *)

Open(fd) ==
  /\ fd \notin open
  /\ open' = open \cup {fd}
  /\ refused' = {}
  /\ Quiet
  /\ UNCHANGED <<fds, nfds, nevents, kernel, inserted, stale, displaced>>

\* The last descriptor of a file leaves the epoll set by itself.
Close(fd) ==
  /\ fd \in open
  /\ open' = open \ {fd}
  /\ kernel' = [kernel EXCEPT ![fd] = Absent]
  /\ stale' = IF Watched(fd) # {} THEN stale \cup {fd} ELSE stale
  /\ refused' = {}
  /\ Quiet
  /\ UNCHANGED <<fds, nfds, nevents, inserted, displaced>>

-----------------------------------------------------------------------------
(* epoll_add.                                                              *)

\* The length epoll_recalc gives the table: it doubles until fd fits.
Grown(fd) ==
  {l \in {nfds * 2^k : k \in 0 .. fd} : l > fd /\ (l = nfds \/ l <= 2 * fd)}

\* Fault: only the reader tells that the descriptor is in the set.
IsNewReader(fd) == fds[fd]["READ"] = NoEvent

\* EPOLL_CTL_ADD is the operation, not EPOLL_CTL_MOD.
IsNew(fd) == Watched(fd) = {}

CtlFits(fd) == fd \in open /\ (IsNew(fd) <=> kernel[fd] = Absent)

\* Fault: the interest of the other event of the descriptor is forgotten.
WantedAlone(e) == Interest[e]

Wanted(e) == Watched(FdOf[e]) \cup Interest[e]

\* The events that lose their entry when e takes the entries of its
\* directions, or when epoll_del empties them without asking whose they are.
Rivals(e) ==
  {x \in (inserted \ {e}) \X Dir :
     FdOf[x[1]] = FdOf[e] /\ x[2] \in Interest[x[1]] \cap Interest[e]}

Filled(e) ==
  [fds EXCEPT ![FdOf[e]] = [d \in Dir |-> IF d \in Interest[e] THEN e ELSE @[d]]]

EpollAdd(e) ==
  /\ e \notin inserted
  /\ CtlFits(FdOf[e])
  /\ nfds' \in Grown(FdOf[e])
  /\ kernel' = [kernel EXCEPT ![FdOf[e]] = Wanted(e)]
  /\ fds' = Filled(e)
  /\ inserted' = inserted \cup {e}
  /\ displaced' = displaced \cup Rivals(e)
  /\ refused' = {}
  /\ Quiet
  /\ UNCHANGED <<nevents, open, stale>>

\* realloc of the table fails.
RecalcFails(e) ==
  /\ e \notin inserted
  /\ nfds <= FdOf[e]
  /\ refused' = {}
  /\ Quiet
  /\ UNCHANGED <<fds, nfds, nevents, kernel, open, inserted, stale, displaced>>

\* epoll_ctl fails: EBADF, ENOENT, EEXIST, or the kernel has no room for one
\* more descriptor.
CtlFails(e) ==
  /\ e \notin inserted
  /\ ~CtlFits(FdOf[e]) \/ IsNew(FdOf[e])
  /\ nfds' \in Grown(FdOf[e])
  /\ refused' = IF ~CtlFits(FdOf[e]) /\ FdOf[e] \in open THEN {FdOf[e]} ELSE {}
  /\ Quiet
  /\ UNCHANGED <<fds, nevents, kernel, open, inserted, stale, displaced>>

-----------------------------------------------------------------------------
(* epoll_del.                                                              *)

\* Fault: an event with both directions is taken for one that only reads.
KeptBlind(e) ==
  Watched(FdOf[e]) \ (IF "READ" \in Interest[e] THEN {"READ"} ELSE {"WRITE"})

\* Fault: the other event of the descriptor is let go of as well.
KeptNone(e) == {}

\* The directions that another event keeps watching.
Kept(e) == Watched(FdOf[e]) \ Interest[e]

\* Fault: the entries are cleared only if epoll_ctl succeeds.
ClearedAfterCtl(e) ==
  IF kernel[FdOf[e]] = Absent THEN fds
  ELSE [fds EXCEPT ![FdOf[e]] = [d \in Dir |-> IF d \in Kept(e) THEN @[d] ELSE NoEvent]]

Cleared(e) ==
  [fds EXCEPT ![FdOf[e]] = [d \in Dir |-> IF d \in Kept(e) THEN @[d] ELSE NoEvent]]

\* The event is off the eventqueue whatever epoll_del returns.  (The test of
\* fd against nfds is left out: by InTable it never succeeds.)
EpollDel(e) ==
  LET fd == FdOf[e]
  IN  /\ e \in inserted
      /\ inserted' = inserted \ {e}
      /\ fds' = Cleared(e)
      /\ displaced' = (displaced \cup Rivals(e)) \ ({e} \X Dir)
      /\ kernel' = [kernel EXCEPT ![fd] =
                      CASE @ = Absent     -> Absent
                        [] Kept(e) = {}   -> Absent
                        [] OTHER          -> Kept(e)]
      /\ stale' = IF Kept(e) = {} THEN stale \ {fd} ELSE stale
      /\ refused' = IF fd \in open /\ kernel[fd] = Absent THEN {fd} ELSE {}
      /\ Quiet
      /\ UNCHANGED <<nfds, nevents, open>>

-----------------------------------------------------------------------------
(* epoll_dispatch.                                                         *)

ToInt(x) == ((x + IntHalf) % (2 * IntHalf)) - IntHalf

\* Fault: the microseconds are cut off.
TimeoutCut(tv) ==
  LET timeout == IF tv = NullTv THEN -1
                 ELSE ToInt(tv.sec * MsPerSec + tv.usec \div UsecPerMs)
  IN  IF timeout > MaxWait THEN MaxWait ELSE timeout

Timeout(tv) ==
  LET timeout == IF tv = NullTv THEN -1
                 ELSE ToInt(tv.sec * MsPerSec + (tv.usec + UsecPerMs - 1) \div UsecPerMs)
  IN  IF timeout > MaxWait THEN MaxWait ELSE timeout

InSet == {fd \in Fd : kernel[fd] # Absent}

\* What epoll_wait may say of some of the descriptors; "ERROR" is EPOLLHUP
\* or EPOLLERR, which is reported whatever the interest.
Reports ==
  {r \in UNION {[F -> (SUBSET (Dir \cup {"ERROR"})) \ {{}}] : F \in SUBSET InSet} :
     /\ Cardinality(DOMAIN r) <= nevents
     /\ \A fd \in DOMAIN r : r[fd] \ {"ERROR"} \subseteq kernel[fd]}

Activated(r) ==
  {x \in Event \X Dir :
     \E fd \in DOMAIN r : fds[fd][x[2]] = x[1] /\ r[fd] \cap {x[2], "ERROR"} # {}}

\* The array of reports doubles when it was full, if realloc lets it.
Widened(n) ==
  IF n = nevents /\ nevents < MaxNevents THEN {nevents, nevents * 2} ELSE {nevents}

EpollDispatch(tv, r) ==
  /\ reported' = Activated(r)
  /\ nevents' \in Widened(Cardinality(DOMAIN r))
  /\ poll' = <<tv, Timeout(tv)>>
  /\ refused' = {}
  /\ UNCHANGED <<fds, nfds, kernel, open, inserted, stale, displaced>>

-----------------------------------------------------------------------------
Next ==
  \/ \E fd \in Fd : Open(fd) \/ Close(fd)
  \/ \E e \in Event : EpollAdd(e) \/ RecalcFails(e) \/ CtlFails(e) \/ EpollDel(e)
  \/ \E tv \in Timeval \cup {NullTv}, r \in Reports : EpollDispatch(tv, r)

Spec == Init /\ [][Next]_vars

-----------------------------------------------------------------------------
\* The table, the kernel's set and the history; the array of reports stays
\* below twice its limit.
TypeOK ==
  /\ fds \in [Fd -> [Dir -> Event \cup {NoEvent}]]
  /\ nfds \in Nat \ {0}
  /\ nevents \in Nat \ {0} /\ nevents < 2 * MaxNevents
  /\ kernel \in [Fd -> (SUBSET Dir) \cup {Absent}]
  /\ open \in SUBSET Fd
  /\ inserted \in SUBSET Event
  /\ stale \in SUBSET Fd /\ refused \in SUBSET Fd
  /\ displaced \in SUBSET (inserted \X Dir)

\* No entry outlives its event: event_del and bufferevent_free leave no pointer
\* behind, whatever epoll_ctl says and in whatever order events come and go.
NoDangling ==
  \A fd \in Fd, d \in Dir :
    fds[fd][d] # NoEvent =>
      /\ fds[fd][d] \in inserted
      /\ FdOf[fds[fd][d]] = fd
      /\ d \in Interest[fds[fd][d]]

\* Entries are used only inside the table.
InTable == \A e \in inserted : FdOf[e] < nfds

\* The kernel watches for exactly what the table can pass on: it never reports
\* a readiness that wakes no event, which would keep the loop spinning.
KernelAgrees ==
  \A fd \in Fd : kernel[fd] # Absent => fd \in open /\ kernel[fd] = Watched(fd) /\ Watched(fd) # {}

\* An inserted event is found when its descriptor is reported, in each of its
\* directions, until another event of the same descriptor and direction is added
\* over it or deleted from under it; and the kernel is asked, unless the
\* descriptor was closed under it.
InsertedIsHeard ==
  \A e \in inserted : \A d \in Interest[e] :
    <<e, d>> \notin displaced =>
      /\ fds[FdOf[e]][d] = e
      /\ FdOf[e] \notin stale => kernel[FdOf[e]] # Absent

\* The operation given to epoll_ctl is the one the epoll set calls for: it is
\* refused as absent or present only for a descriptor that was closed under an
\* event, or when event_del lets go of an event that others have displaced in
\* all its directions.
OperationFits ==
  [][\A fd \in refused' :
       \/ fd \in stale
       \/ \E e \in inserted \ inserted' : \A d \in Interest[e] : <<e, d>> \in displaced]_vars

Table == INSTANCE Backend

\* The table and the epoll set behave as event.cpp expects of an eventop.
ImplementsBackend == Table!Spec

UsecOf(tv) == (tv.sec * MsPerSec) * UsecPerMs + tv.usec

\* The milliseconds of tv fit in the int of epoll_dispatch (about 25 days).
FitsInt(tv) == UsecOf(tv) <= (IntHalf - 1) * UsecPerMs

\* A deadline whose milliseconds fit in an int bounds epoll_wait: it waits at
\* most MAX_EPOLL_TIMEOUT_MSEC and less than a millisecond too long, and it
\* does not give up before the deadline, which would make the loop spin.
WaitReachesDeadline ==
  poll # Nothing /\ poll[1] # NullTv /\ FitsInt(poll[1]) =>
    /\ poll[2] \in 0 .. MaxWait
    /\ UsecOf(poll[1]) > (poll[2] - 1) * UsecPerMs
    /\ poll[2] = MaxWait \/ UsecOf(poll[1]) <= poll[2] * UsecPerMs
==============================================================================
