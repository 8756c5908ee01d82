----------------------------- MODULE EchoServer -----------------------------
(***************************************************************************)
(* src/mainsvrd.cpp: the main thread accepts clients and queues them as    *)
(* jobs, each worker runs the event loop of one client until it has no     *)
(* event left, and a signal asks the listener to stop.  The threads share  *)
(* the process's descriptor numbers, which the kernel gives out again as   *)
(* soon as they are closed.                                                *)
(*                                                                         *)
(* The bufferevent of a client is the one of BufferEvent without marks and *)
(* with both timeouts, seen through the states of its two events; the job  *)
(* queue is JobPool.  One callback of a worker is one step.                *)
(***************************************************************************)
EXTENDS Integers, Sequences, FiniteSets

CONSTANTS
  Client,    \* the connections that come
  Fd,        \* the descriptor numbers accept may return
  NoClient,  \* a number that is not in use, an epoll set without the socket
  Threads,   \* NUM_THREADS
  MaxOut     \* bytes the output buffer of a client holds (bounds the model)

Dir == {"READ", "WRITE"}
Closed == -1

ASSUME EchoAssumption ==
  /\ IsFiniteSet(Client) /\ NoClient \notin Client
  /\ Fd \subseteq Nat
  /\ Threads \in Nat \ {0} /\ MaxOut \in Nat \ {0}

VARIABLES
  client,   \* the client_t and job_t of each connection
  owner,    \* whose socket a descriptor number stands for
  main,     \* where the main thread is in the loop of evbase_accept
  exitSet,  \* event_loopexit's timer is in evbase_accept
  exitDue,  \* this turn's timeout_process has made it active
  strayed,  \* history: <<c, d>> moved bytes of another client's socket
  after     \* history: clients accepted after the request to stop

vars == <<client, owner, main, exitSet, exitDue, strayed, after>>
mainVars == <<main, exitSet, exitDue, after>>

(* An event is off; on: registered, with its timer; active: reported and   *)
(* still registered; late: active for its timeout; timer: armed by its     *)
(* timer only, which event_add does to a late event.                       *)
EventState == {"off", "on", "active", "late", "timer"}

\* The active queue of a client, in the order of the calls.
Turns == {<<>>, <<"READ">>, <<"WRITE">>, <<"READ", "WRITE">>, <<"WRITE", "READ">>}

Record ==
  [stage : {"none", "queued", "running", "dropped", "freed"},
   fd : Fd \cup {Closed},            \* client->fd
   num : Fd,                         \* ev_fd of the two events
   ev : [Dir -> EventState],
   entry : Client \cup {NoClient},   \* the socket in the client's epoll set
   turn : Turns,                     \* the active queue
   out : 0 .. MaxOut,                \* the output buffer
   busy : BOOLEAN]                   \* history: closed with ev_write active

Init ==
  /\ client \in [Client -> {r \in [stage : {"none"}, fd : {Closed}, num : Fd,
                                   ev : {[d \in Dir |-> "off"]},
                                   entry : {NoClient}, turn : {<<>>},
                                   out : {0}, busy : {FALSE}] :
                              \A n \in Fd : r.num <= n}]
  /\ owner = [n \in Fd |-> NoClient]
  /\ main = "top" /\ exitSet = FALSE /\ exitDue = FALSE
  /\ strayed = {} /\ after = 0

-----------------------------------------------------------------------------
(* The client's event loop, as functions on its record.                    *)

Inserted(r) == {d \in Dir : r.ev[d] \in {"on", "active"}}

\* The event leaves the backend's table; the last one empties the epoll set.
SetEvent(r, d, state) ==
  LET s == [r EXCEPT !.ev[d] = state]
  IN  IF Inserted(s) = {} THEN [s EXCEPT !.entry = NoClient] ELSE s

\* Whether epoll_ctl takes the event: MOD when the other one is registered,
\* which needs the socket in the set, else ADD of what the number stands for.
Takes(r) ==
  IF Inserted(r) # {} THEN r.entry # NoClient ELSE owner[r.num] # NoClient

\* bufferevent_add with a timeout; a refused event stays as it was.  A late
\* event, which the callback of the other one has met, was alone in the queue.
Arms(r, d) ==
  IF r.ev[d] \in {"on", "active"} THEN {r}
  ELSE IF r.ev[d] = "late"
  THEN {[r EXCEPT !.ev[d] = "timer", !.turn = <<>>]}
  ELSE {r} \cup IF Takes(r)
                THEN {[r EXCEPT !.ev[d] = "on",
                                !.entry = IF @ = NoClient THEN owner[r.num] ELSE @]}
                ELSE {}

\* Fault: client->fd keeps the number that was closed.
CloseKeepsFd(r) ==
  [r EXCEPT !.entry = NoClient, !.busy = @ \/ r.ev["WRITE"] = "active"]

\* closeClient.  close() takes the socket out of the epoll set.
Close(r) ==
  IF r.fd = Closed THEN r
  ELSE [r EXCEPT !.fd = Closed, !.entry = NoClient,
                 !.busy = @ \/ r.ev["WRITE"] = "active"]

\* What close(r.fd) does to the numbers and to the other clients' epoll sets.
Released(r) == IF r.fd = Closed THEN owner ELSE [owner EXCEPT ![r.fd] = NoClient]

Without(s) ==
  [c \in Client |-> IF client[c].entry = s /\ s # NoClient
                    THEN [client[c] EXCEPT !.entry = NoClient] ELSE client[c]]

CloseAndSet(c, r) ==
  /\ owner' = Released(r)
  /\ client' = [Without(IF r.fd = Closed THEN NoClient ELSE owner[r.fd])
                  EXCEPT ![c] = Close(r)]

Keep(c, r) == client' = [client EXCEPT ![c] = r] /\ UNCHANGED owner

-----------------------------------------------------------------------------
(* One turn of a worker in event_base_dispatch(client->evbase).            *)

Runs(c) == main # "gone" /\ client[c].stage = "running"

\* Fault: the write event of a descriptor is activated before its read event.
WriteGoesFirst(x, y, T) == y \in T \/ (x = "WRITE" /\ x \notin T)

\* Whether the event of y is activated after that of x: the late ones of T come
\* after the reports, of which the read event is the first.
GoesFirst(x, y, T) == y \in T \/ (x = "READ" /\ x \notin T)

\* Fault: the bufferevent of a client has no timeouts.
ArmedWithoutTimeouts(r) == {d \in Dir : r.ev[d] = "timer"}

Armed(r) == {d \in Dir : r.ev[d] \in {"on", "timer"}}

\* epoll_wait reports R, then timeout_process takes the events of T, in the
\* order of their deadlines; an event of both is called for its timeout only.
Poll(c, R, T) ==
  LET r == client[c]
      s == [r EXCEPT !.ev = [d \in Dir |-> IF d \in T THEN "late"
                                          ELSE IF d \in R THEN "active"
                                          ELSE @[d]]]
  IN  /\ Runs(c) /\ r.turn = <<>>
      /\ R \cup T # {}
      /\ R \subseteq {d \in Dir : r.ev[d] = "on" /\ r.entry # NoClient}
      /\ T \subseteq Armed(r)
      /\ \E turn \in Turns :
           /\ {turn[i] : i \in 1 .. Len(turn)} = R \cup T
           /\ Len(turn) = 2 => GoesFirst(turn[1], turn[2], T)
           /\ Keep(c, [s EXCEPT !.turn = turn,
                                !.entry = IF Inserted(s) = {} THEN NoClient ELSE @])
  /\ UNCHANGED <<mainVars, strayed>>

\* event_process_active takes the first event off every queue.
Taken(c) ==
  LET r == client[c]
  IN  SetEvent([r EXCEPT !.turn = Tail(@)], Head(r.turn), "off")

Calls(c, d, state) ==
  /\ Runs(c)
  /\ client[c].turn # <<>> /\ Head(client[c].turn) = d
  /\ client[c].ev[d] = state

Strays(c, d) ==
  strayed' = IF owner[client[c].num] \notin {c, NoClient}
             THEN strayed \cup {<<c, d>>} ELSE strayed

\* buffered_on_error for a timeout; nothing is read or written.
TimedOut(c) ==
  /\ \E d \in Dir : Calls(c, d, "late")
  /\ CloseAndSet(c, Taken(c))
  /\ UNCHANGED <<mainVars, strayed>>

\* read() or write() failed or met the end of the stream: buffered_on_error.
Fails(c) ==
  /\ Calls(c, "READ", "active") \/ (Calls(c, "WRITE", "active") /\ client[c].out # 0)
  /\ CloseAndSet(c, Taken(c))
  /\ UNCHANGED <<mainVars, strayed>>

ReadBlocks(c) ==
  /\ Calls(c, "READ", "active")
  /\ owner[client[c].num] # NoClient
  /\ \E r \in Arms(Taken(c), "READ") : Keep(c, r)
  /\ UNCHANGED <<mainVars, strayed>>

\* buffered_on_read: ev_read is armed again, then the bytes are echoed.  The
\* result of evbuffer_add is ignored: nothing is armed for bytes it did not take.
ReadGets(c) ==
  /\ Calls(c, "READ", "active")
  /\ owner[client[c].num] # NoClient
  /\ Strays(c, "READ")
  /\ \E r \in Arms(Taken(c), "READ") :
       \/ \E n \in client[c].out + 1 .. MaxOut :
            \E s \in Arms([r EXCEPT !.out = n], "WRITE") : Keep(c, s)
       \/ Keep(c, r)                 \* evbuffer_add failed, the bytes are lost
       \/ CloseAndSet(c, r)          \* bufferevent_write_buffer failed
  /\ UNCHANGED mainVars

WriteBlocks(c) ==
  /\ Calls(c, "WRITE", "active") /\ client[c].out # 0
  /\ owner[client[c].num] # NoClient
  /\ \E r \in Arms(Taken(c), "WRITE") : Keep(c, r)
  /\ UNCHANGED <<mainVars, strayed>>

WriteSends(c) ==
  /\ Calls(c, "WRITE", "active")
  /\ IF client[c].out = 0
     THEN Keep(c, Taken(c)) /\ UNCHANGED strayed
     ELSE /\ owner[client[c].num] # NoClient
          /\ Strays(c, "WRITE")
          /\ \E n \in 0 .. client[c].out - 1 :
               LET r == [Taken(c) EXCEPT !.out = n]
               IN  \E s \in IF n = 0 THEN {r} ELSE Arms(r, "WRITE") : Keep(c, s)
  /\ UNCHANGED mainVars

Callback(c) ==
  \/ TimedOut(c) \/ Fails(c) \/ ReadBlocks(c) \/ ReadGets(c)
  \/ WriteBlocks(c) \/ WriteSends(c)

\* event_base_dispatch returned, for lack of events or because epoll_wait
\* failed: closeAndFreeClient and free(job).
Ends(c) ==
  /\ Runs(c) /\ client[c].turn = <<>>
  /\ LET r == [client[c] EXCEPT !.stage = "freed", !.ev = [d \in Dir |-> "off"]]
     IN  CloseAndSet(c, [r EXCEPT !.entry = NoClient])
  /\ UNCHANGED <<mainVars, strayed>>

-----------------------------------------------------------------------------
(* The job queue and the main thread.                                      *)

\* A worker takes a job; workqueue_shutdown has told every worker to stop.
Start(c) ==
  /\ main # "gone" /\ ~exitSet
  /\ client[c].stage = "queued"
  /\ Cardinality({b \in Client : client[b].stage = "running"}) < Threads
  /\ Keep(c, [client[c] EXCEPT !.stage = "running"])
  /\ UNCHANGED <<mainVars, strayed>>

\* event_base_loop tests event_gotterm, then computes the timeout: it is zero
\* once the timer of event_loopexit is armed, or there is none.
MainPolls ==
  /\ main = "top"
  /\ main' = IF exitSet THEN "polling" ELSE "blocked"
  /\ UNCHANGED <<client, owner, exitSet, exitDue, strayed, after>>

\* epoll_wait returns without a connection: event_loopexit_cb stops the loop.
MainStops ==
  /\ main = "polling" /\ exitSet
  /\ main' = "stopped"
  /\ UNCHANGED <<client, owner, exitSet, exitDue, strayed, after>>

\* epoll_wait reports the listening socket; the timer may be due as well.
MainReports ==
  /\ main \in {"polling", "blocked"}
  /\ main' = "accepting"
  /\ exitDue' = exitSet
  /\ UNCHANGED <<client, owner, exitSet, strayed, after>>

\* Fault: a timer that is due is not looked at in a turn with reports.
AcceptedMissesTimer ==
  /\ main = "accepting"
  /\ main' = "top"
  /\ after' = IF exitSet THEN after + 1 ELSE after
  /\ UNCHANGED <<exitSet, exitDue>>

\* on_accept returns; event_loopexit_cb follows in the queue if it is due.
Accepted ==
  /\ main = "accepting"
  /\ main' = IF exitDue THEN "stopped" ELSE "top"
  /\ after' = IF exitSet THEN after + 1 ELSE after
  /\ UNCHANGED <<exitSet, exitDue>>

\* on_accept with every allocation granted.
Accept(c) ==
  /\ Accepted
  /\ client[c].stage = "none"
  /\ \E n \in Fd :
       /\ owner[n] = NoClient
       /\ owner' = [owner EXCEPT ![n] = c]
       /\ \E ev \in {"off", "on"} :
            client' = [client EXCEPT
                         ![c] = [@ EXCEPT !.stage = "queued", !.fd = n, !.num = n,
                                   !.ev["READ"] = ev,
                                   !.entry = IF ev = "on" THEN c ELSE NoClient]]
  /\ UNCHANGED strayed

\* accept, setnonblock or an allocation failed: what there was of the client
\* is closed and freed before on_accept returns.
AcceptFails == Accepted /\ UNCHANGED <<client, owner, strayed>>

\* sighandler on any thread: event_base_loopexit, then workqueue_shutdown
\* drops the jobs that wait.  Only epoll_wait of the interrupted thread
\* returns, and then evbase_accept sees its new timer.
Signal(onMain) ==
  /\ main \notin {"stopped", "gone"}
  /\ ~exitSet
  /\ exitSet' = TRUE
  /\ main' = IF onMain /\ main = "blocked" THEN "top" ELSE main
  /\ client' = [c \in Client |-> IF client[c].stage = "queued"
                                 THEN [client[c] EXCEPT !.stage = "dropped"]
                                 ELSE client[c]]
  /\ UNCHANGED <<owner, exitDue, strayed, after>>

\* runServer returns and the process ends with its workers.
Exit ==
  /\ main = "stopped"
  /\ main' = "gone"
  /\ UNCHANGED <<client, owner, exitSet, exitDue, strayed, after>>

MainStep ==
  \/ MainPolls \/ MainStops \/ MainReports \/ AcceptFails \/ Exit
  \/ \E c \in Client : Accept(c)

WorkerStep(c) ==
  \/ Start(c) \/ Callback(c) \/ Ends(c)
  \/ \E R, T \in SUBSET Dir : Poll(c, R, T)

Next ==
  \/ MainStep
  \/ \E c \in Client : WorkerStep(c)
  \/ \E onMain \in BOOLEAN : Signal(onMain)

Spec == Init /\ [][Next]_vars

\* The worker runs, armed timers end, and a socket that is reported writable
\* again and again takes a byte in the end.
Fairness ==
  \A c \in Client :
    /\ WF_vars(Callback(c))
    /\ WF_vars(\E T \in SUBSET Dir : Poll(c, {}, T))
    /\ WF_vars(Ends(c) /\ \A d \in Dir : client[c].ev[d] = "off")
    /\ SF_vars(WriteSends(c))

FairSpec == Spec /\ Fairness

-----------------------------------------------------------------------------
TypeOK ==
  /\ client \in [Client -> Record]
  /\ owner \in [Fd -> Client \cup {NoClient}]
  /\ main \in {"top", "polling", "blocked", "accepting", "stopped", "gone"}
  /\ exitSet \in BOOLEAN /\ exitDue \in BOOLEAN
  /\ strayed \subseteq Client \X Dir
  /\ after \in Nat

\* A client's descriptor is the number of its own socket, and an open socket is
\* the descriptor of its client.
NumbersAgree ==
  \A c \in Client, n \in Fd : (client[c].fd = n) <=> (owner[n] = c)

\* No worker will close the descriptor of c: workqueue_shutdown dropped its job
\* (workqueue.cpp:105), or the job was queued when the workers had been told.
Unserved(c) == exitSet /\ client[c].stage \in {"queued", "dropped"}

\* Whoever has a descriptor is served by a worker, waits for one, or is one of
\* those the shutdown left without.
HasCloser ==
  \A c \in Client :
    client[c].fd # Closed =>
      \/ client[c].stage = "running"
      \/ client[c].stage = "queued" /\ ~exitSet
      \/ Unserved(c)

\* client->fd is the client's own socket for as long as it is not -1: no thread
\* closes the descriptor of another, however the numbers are given out again.
\* An open socket has a worker that closes it or a job that waits for one,
\* except after a request to stop: the sockets of the clients that were queued
\* then or are accepted later stay open until the process ends.
OwnsDescriptor == NumbersAgree /\ HasCloser

\* No client reads from a socket that is not its own.  One writes to it only
\* if its descriptor was closed while ev_write was active, by buffered_on_error
\* (mainsvrd.cpp:123) or because buffered_on_read could not echo (line 114):
\* bufferevent_writecb is then called for a number another client may have.
BytesStayHome ==
  \A c \in Client :
    /\ <<c, "READ">> \notin strayed
    /\ <<c, "WRITE">> \in strayed => client[c].busy

\* After the request to stop the listener accepts at most two clients, however
\* the signal meets its loop and whichever thread takes it.
StopsSoon == after <= 2

\* A client whose descriptor is closed is freed, and its worker takes another
\* job: the timers end what the closed descriptor will never report.
ClosedClientEnds ==
  \A c \in Client :
    (client[c].stage = "running" /\ client[c].fd = Closed)
      ~> (client[c].stage = "freed" \/ main = "gone")
=============================================================================
