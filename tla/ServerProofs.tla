---------------------------- MODULE ServerProofs ----------------------------
(***************************************************************************)
(* Proofs about the program of mainsvrd.cpp and the log it writes, which   *)
(* share no constant: EchoServer for any number of clients, descriptor     *)
(* numbers and workers, and LogRotate for any threads, any number of names *)
(* and any size.                                                           *)
(***************************************************************************)
EXTENDS EchoServer, LogRotate, FiniteSetTheorems, TLAPS

(***************************************************************************)
(* EchoServer: descriptors are closed by their owners only, no client      *)
(* reads from the socket of another, one that writes to it was closed with *)
(* its write event active, and the listener stops within two connections.  *)
(***************************************************************************)

\* What one client's record keeps true by itself: a client has no descriptor
\* before it is accepted, the events have the number of the descriptor while
\* it is open, an active read event is the next to be called and its
\* descriptor open, and a closed client whose events can still be reported
\* was closed with its write event active.
Sane(r) ==
  /\ r.stage = "none" => r.fd = Closed
  /\ r.fd # Closed => r.num = r.fd
  /\ r.ev["READ"] = "active" =>
       r.fd # Closed /\ r.turn # <<>> /\ Head(r.turn) = "READ"
  /\ r.ev["READ"] = "on" /\ r.entry # NoClient => r.fd # Closed
  /\ r.fd = Closed /\ (r.ev["WRITE"] = "active" \/ r.entry # NoClient) => r.busy

AllSane == \A c \in Client : Sane(client[c])

\* How far the listener is after the request to stop.
Stopping ==
  /\ ~exitSet => after = 0 /\ main \notin {"polling", "stopped", "gone"}
  /\ exitDue => main \in {"accepting", "stopped", "gone"}
  /\ exitDue => exitSet
  /\ main = "blocked" => after = 0
  /\ main = "accepting" => after <= IF exitDue THEN 1 ELSE 0
  /\ main \in {"top", "polling"} => after <= 1
  /\ after <= 2

IInv == TypeOK /\ AllSane /\ NumbersAgree /\ BytesStayHome

\* What every callback leaves alone but for the close.
Same(r, s) ==
  s.stage = r.stage /\ s.fd = r.fd /\ s.num = r.num /\ s.busy = r.busy

LEMMA ClosedIsNoFd == Closed \notin Fd
<1> QED BY EchoAssumption DEF EchoAssumption, Closed

LEMMA InitInv == Init => IInv /\ Stopping
<1> SUFFICES ASSUME Init PROVE IInv /\ Stopping
  OBVIOUS
<1>1. ASSUME NEW c \in Client
      PROVE  /\ client[c] \in Record
             /\ client[c].fd = Closed /\ client[c].entry = NoClient
             /\ client[c].ev["READ"] = "off" /\ client[c].ev["WRITE"] = "off"
  <2> DEFINE None == [stage : {"none"}, fd : {Closed}, num : Fd,
                      ev : {[d \in Dir |-> "off"]}, entry : {NoClient},
                      turn : {<<>>}, out : {0}, busy : {FALSE}]
  <2>1. client[c] \in None
    BY DEF Init
  <2>2. [d \in Dir |-> "off"] \in [Dir -> EventState] /\ <<>> \in Turns
        /\ 0 \in 0 .. MaxOut
    BY EchoAssumption DEF EchoAssumption, EventState, Turns
  <2>3. client[c] \in Record
    BY <2>1, <2>2 DEF Record
  <2> QED BY <2>1, <2>3 DEF Dir
<1>2. TypeOK
  <2>1. client \in [Client -> Record]
    BY <1>1 DEF Init
  <2>2. owner \in [Fd -> Client \cup {NoClient}] /\ strayed \subseteq Client \X Dir
    BY DEF Init
  <2>3. /\ main \in {"top", "polling", "blocked", "accepting", "stopped", "gone"}
        /\ exitSet \in BOOLEAN /\ exitDue \in BOOLEAN /\ after \in Nat
    BY DEF Init
  <2> QED BY <2>1, <2>2, <2>3 DEF TypeOK
<1>5. Stopping
  BY DEF Init, Stopping
<1>3. AllSane
  BY <1>1 DEF AllSane, Sane
<1>4. NumbersAgree /\ BytesStayHome
  BY <1>1, ClosedIsNoFd, EchoAssumption
  DEF EchoAssumption, Init, NumbersAgree, BytesStayHome
<1> QED BY <1>2, <1>3, <1>4, <1>5 DEF IInv

-----------------------------------------------------------------------------
(* The functions on one record.                                            *)

LEMMA SetEventFacts ==
  ASSUME NEW r \in Record, NEW d \in Dir, NEW state \in EventState
  PROVE  LET s == SetEvent(r, d, state)
         IN  /\ s \in Record /\ Same(r, s) /\ s.turn = r.turn
             /\ s.ev = [r.ev EXCEPT ![d] = state]
             /\ s.entry \in {r.entry, NoClient}
<1> DEFINE s == [r EXCEPT !.ev[d] = state]
<1>1. s \in Record /\ Same(r, s) /\ s.turn = r.turn /\ s.entry = r.entry
      /\ s.ev = [r.ev EXCEPT ![d] = state]
  BY DEF Record, Same, Dir, EventState
<1>2. SetEvent(r, d, state) = IF Inserted(s) = {} THEN [s EXCEPT !.entry = NoClient] ELSE s
  BY DEF SetEvent
<1> HIDE DEF s
<1> QED BY <1>1, <1>2 DEF Record, Same

\* The event that is called is no longer active, and neither is the read event.
LEMMA TakenFacts ==
  ASSUME TypeOK, AllSane, NEW c \in Client, client[c].turn # <<>>
  PROVE  /\ Taken(c) \in Record /\ Same(client[c], Taken(c)) /\ Sane(Taken(c))
         /\ Taken(c).ev["READ"] # "active"
<1> DEFINE r == client[c]
           d == Head(r.turn)
           q == [r EXCEPT !.turn = Tail(@)]
<1>1. r \in Record /\ Sane(r)
  BY DEF TypeOK, AllSane
<1>2. r.turn \in Turns /\ r.turn # <<>>
  BY <1>1 DEF Record
<1>3. d \in Dir /\ Tail(r.turn) \in Turns
  <2>1. CASE r.turn = <<"READ">>
    BY <2>1 DEF Turns, Dir
  <2>2. CASE r.turn = <<"WRITE">>
    BY <2>2 DEF Turns, Dir
  <2>3. CASE r.turn = <<"READ", "WRITE">>
    BY <2>3 DEF Turns, Dir
  <2>4. CASE r.turn = <<"WRITE", "READ">>
    BY <2>4 DEF Turns, Dir
  <2> QED BY <1>2, <2>1, <2>2, <2>3, <2>4 DEF Turns
<1>4. q \in Record /\ Same(r, q) /\ q.ev = r.ev /\ q.entry = r.entry
  BY <1>1, <1>3 DEF Record, Same
<1>5. Taken(c) = SetEvent(q, d, "off")
  BY DEF Taken
<1>6. r.ev \in [Dir -> EventState]
  BY <1>1 DEF Record
<1> HIDE DEF q
<1>7. /\ Taken(c) \in Record /\ Same(r, Taken(c))
      /\ Taken(c).ev = [r.ev EXCEPT ![d] = "off"]
      /\ Taken(c).entry \in {r.entry, NoClient}
  <2>1. "off" \in EventState
    BY DEF EventState
  <2>2. /\ SetEvent(q, d, "off") \in Record /\ Same(q, SetEvent(q, d, "off"))
        /\ SetEvent(q, d, "off").ev = [q.ev EXCEPT ![d] = "off"]
        /\ SetEvent(q, d, "off").entry \in {q.entry, NoClient}
    BY <1>3, <1>4, <2>1, SetEventFacts
  <2> QED BY <1>4, <1>5, <2>2 DEF Same
<1>8. Taken(c).ev["READ"] # "active"
  BY <1>1, <1>3, <1>6, <1>7 DEF Sane, Dir
<1>9. Sane(Taken(c))
  BY <1>1, <1>3, <1>6, <1>7, <1>8 DEF Sane, Dir, Same
<1> QED BY <1>7, <1>8, <1>9

\* event_add from a callback whose client is open, or was closed busy.
LEMMA ArmsFacts ==
  ASSUME owner \in [Fd -> Client \cup {NoClient}],
         NEW r \in Record, Sane(r), r.ev["READ"] # "active",
         NEW d \in Dir, d = "READ" => r.fd # Closed, r.fd = Closed => r.busy,
         NEW s \in Arms(r, d)
  PROVE  s \in Record /\ Same(r, s) /\ Sane(s) /\ s.ev["READ"] # "active"
<1>1. CASE s = r
  BY <1>1 DEF Same
<1>2. CASE s = [r EXCEPT !.ev[d] = "timer", !.turn = <<>>]
  <2>1. s \in Record /\ Same(r, s) /\ s.entry = r.entry
        /\ s.ev = [r.ev EXCEPT ![d] = "timer"]
    BY <1>2 DEF Record, Same, Dir, EventState, Turns
  <2>2. s.ev["READ"] # "active" /\ Sane(s)
    BY <2>1 DEF Record, Same, Dir, Sane
  <2> QED BY <2>1, <2>2
<1>3. CASE /\ Takes(r)
           /\ s = [r EXCEPT !.ev[d] = "on",
                            !.entry = IF @ = NoClient THEN owner[r.num] ELSE @]
  <2>1. s \in Record /\ Same(r, s) /\ s.ev = [r.ev EXCEPT ![d] = "on"]
    BY <1>3 DEF Record, Same, Dir, EventState
  <2>2. s.ev["READ"] # "active"
    BY <2>1 DEF Record, Dir
  <2>3. r.entry # NoClient \/ r.ev["READ"] # "on"
    BY <1>3 DEF Takes, Inserted, Dir
  <2> QED BY <2>1, <2>2, <2>3 DEF Record, Same, Dir, Sane
<1>4. s = r \/ s = [r EXCEPT !.ev[d] = "timer", !.turn = <<>>]
      \/ /\ Takes(r)
         /\ s = [r EXCEPT !.ev[d] = "on",
                          !.entry = IF @ = NoClient THEN owner[r.num] ELSE @]
  BY DEF Arms
<1> QED BY <1>1, <1>2, <1>3, <1>4

LEMMA CloseFacts ==
  ASSUME NEW r \in Record, Sane(r), r.ev["READ"] # "active"
  PROVE  /\ Close(r) \in Record /\ Sane(Close(r))
         /\ Close(r).fd = Closed /\ Close(r).stage = r.stage
         /\ Close(r).num = r.num /\ (r.busy => Close(r).busy)
<1>1. CASE r.fd = Closed
  BY <1>1 DEF Close
<1>2. CASE r.fd # Closed
  <2> DEFINE s == Close(r)
  <2>1. /\ s \in Record /\ s.fd = Closed /\ s.entry = NoClient /\ s.stage = r.stage
        /\ s.num = r.num /\ s.ev = r.ev
        /\ s.busy = (r.busy \/ r.ev["WRITE"] = "active")
    BY <1>2 DEF Close, Record
  <2> HIDE DEF s
  <2>2. Sane(s)
    BY <2>1 DEF Sane
  <2> QED BY <2>1, <2>2 DEF s
<1> QED BY <1>1, <1>2

-----------------------------------------------------------------------------
(* The steps.                                                              *)

\* What a step keeps of the clients and of the descriptor numbers.
Kept ==
  /\ client' \in [Client -> Record]
  /\ owner' \in [Fd -> Client \cup {NoClient}]
  /\ AllSane' /\ NumbersAgree'
  /\ \A c \in Client : client[c].busy => client'[c].busy

LEMMA KeepKeeps ==
  ASSUME TypeOK, AllSane, NumbersAgree, NEW c \in Client,
         NEW r \in Record, Sane(r), r.fd = client[c].fd,
         client[c].busy => r.busy, Keep(c, r)
  PROVE  Kept
<1>1. client' = [client EXCEPT ![c] = r] /\ owner' = owner
  BY DEF Keep
<1>2. client' \in [Client -> Record] /\ owner' \in [Fd -> Client \cup {NoClient}]
  BY <1>1 DEF TypeOK
<1>3. \A b \in Client : client'[b] = IF b = c THEN r ELSE client[b]
  BY <1>1 DEF TypeOK
<1>4. AllSane'
  BY <1>3 DEF AllSane
<1>5. NumbersAgree'
  BY <1>1, <1>3 DEF NumbersAgree
<1> QED BY <1>2, <1>3, <1>4, <1>5 DEF Kept

LEMMA CloseKeeps ==
  ASSUME TypeOK, AllSane, NumbersAgree, NEW c \in Client,
         NEW r \in Record, Sane(r), r.ev["READ"] # "active", r.fd = client[c].fd,
         client[c].busy => r.busy, CloseAndSet(c, r)
  PROVE  Kept
<1> DEFINE s == IF r.fd = Closed THEN NoClient ELSE owner[r.fd]
<1>1. client' = [Without(s) EXCEPT ![c] = Close(r)] /\ owner' = Released(r)
  BY DEF CloseAndSet
<1>2. /\ Close(r) \in Record /\ Sane(Close(r)) /\ Close(r).fd = Closed
      /\ r.busy => Close(r).busy
  BY CloseFacts
<1> HIDE DEF s
<1>3. ASSUME NEW b \in Client
      PROVE  /\ Without(s)[b] \in Record /\ Sane(Without(s)[b])
             /\ Without(s)[b].fd = client[b].fd /\ Without(s)[b].busy = client[b].busy
  <2>1. client[b] \in Record /\ Sane(client[b])
    BY DEF TypeOK, AllSane
  <2>2. CASE Without(s)[b] = client[b]
    BY <2>1, <2>2
  <2>3. CASE Without(s)[b] = [client[b] EXCEPT !.entry = NoClient]
    BY <2>1, <2>3 DEF Record, Sane
  <2> QED BY <2>2, <2>3 DEF Without
<1>4. /\ client' \in [Client -> Record]
      /\ \A b \in Client : client'[b] = IF b = c THEN Close(r) ELSE Without(s)[b]
  BY <1>1, <1>2, <1>3 DEF Without
<1>5. AllSane'
  BY <1>2, <1>3, <1>4 DEF AllSane
<1>6. \A b \in Client : client'[b].fd = IF b = c THEN Closed ELSE client[b].fd
  BY <1>2, <1>3, <1>4
<1>7. \A n \in Fd : owner'[n] = IF n = r.fd THEN NoClient ELSE owner[n]
  BY <1>1, ClosedIsNoFd DEF Released, TypeOK
<1>8. NumbersAgree'
  BY <1>6, <1>7, ClosedIsNoFd, EchoAssumption DEF NumbersAgree, EchoAssumption
<1>9. owner' \in [Fd -> Client \cup {NoClient}]
  BY <1>1 DEF Released, TypeOK
<1> QED BY <1>2, <1>3, <1>4, <1>5, <1>8, <1>9 DEF Kept

\* The callbacks.
LEMMA CallbackKeeps ==
  ASSUME IInv, NEW c \in Client, Callback(c)
  PROVE  Kept
<1> USE DEF IInv
<1>1. /\ Taken(c) \in Record /\ Same(client[c], Taken(c)) /\ Sane(Taken(c))
      /\ Taken(c).ev["READ"] # "active"
  BY TakenFacts DEF Callback, TimedOut, Fails, ReadBlocks, ReadGets, WriteBlocks,
                    WriteSends, Calls
<1>2. owner \in [Fd -> Client \cup {NoClient}]
  BY DEF TypeOK
<1>3. Calls(c, "READ", "active") => client[c].fd # Closed
  BY DEF Calls, AllSane, Sane
<1>4. Calls(c, "WRITE", "active") /\ client[c].fd = Closed => client[c].busy
  BY DEF Calls, AllSane, Sane
<1>5. CASE TimedOut(c) \/ Fails(c)
  <2>1. CloseAndSet(c, Taken(c))
    BY <1>5 DEF TimedOut, Fails
  <2> QED BY <1>1, <2>1, CloseKeeps DEF Same
<1>6. ASSUME NEW d \in Dir, Calls(c, d, "active"), NEW r \in Arms(Taken(c), d)
      PROVE  r \in Record /\ Same(client[c], r) /\ Sane(r) /\ r.ev["READ"] # "active"
  <2>1. d = "READ" => Taken(c).fd # Closed
    BY <1>1, <1>3, <1>6 DEF Same
  <2>2. Taken(c).fd = Closed => Taken(c).busy
    BY <1>1, <1>3, <1>4, <1>6 DEF Same, Dir
  <2>3. r \in Record /\ Same(Taken(c), r) /\ Sane(r) /\ r.ev["READ"] # "active"
    BY <1>1, <1>2, <1>6, <2>1, <2>2, ArmsFacts
  <2> QED BY <1>1, <2>3 DEF Same
<1>7. CASE ReadBlocks(c) \/ WriteBlocks(c)
  <2>1. PICK d \in Dir : Calls(c, d, "active") /\ \E r \in Arms(Taken(c), d) : Keep(c, r)
    BY <1>7 DEF ReadBlocks, WriteBlocks, Dir
  <2>2. PICK r \in Arms(Taken(c), d) : Keep(c, r)
    BY <2>1
  <2> QED BY <1>6, <2>1, <2>2, KeepKeeps DEF Same
<1>8. CASE ReadGets(c)
  <2>1. PICK r \in Arms(Taken(c), "READ") :
          \/ \E n \in client[c].out + 1 .. MaxOut :
               \E s \in Arms([r EXCEPT !.out = n], "WRITE") : Keep(c, s)
          \/ Keep(c, r)
          \/ CloseAndSet(c, r)
    BY <1>8 DEF ReadGets
  <2>2. r \in Record /\ Same(client[c], r) /\ Sane(r) /\ r.ev["READ"] # "active"
        /\ r.fd # Closed
    BY <1>3, <1>6, <1>8, <2>1 DEF ReadGets, Dir, Same
  <2>3. CASE CloseAndSet(c, r) \/ Keep(c, r)
    BY <2>2, <2>3, CloseKeeps, KeepKeeps DEF Same
  <2>4. ASSUME NEW n \in client[c].out + 1 .. MaxOut,
               NEW s \in Arms([r EXCEPT !.out = n], "WRITE"), Keep(c, s)
        PROVE  Kept
    <3> DEFINE q == [r EXCEPT !.out = n]
    <3>1. n \in 0 .. MaxOut
      BY <2>4, EchoAssumption DEF TypeOK, Record, EchoAssumption
    <3>2. q \in Record /\ Same(r, q) /\ q.ev = r.ev /\ q.entry = r.entry /\ q.turn = r.turn
      BY <2>2, <3>1 DEF Record, Same
    <3>3. s \in Arms(q, "WRITE")
      BY <2>4
    <3> HIDE DEF q
    <3>4. Sane(q) /\ q.ev["READ"] # "active" /\ q.fd # Closed
      BY <2>2, <3>2 DEF Sane, Same
    <3>5. s \in Record /\ Same(q, s) /\ Sane(s)
      BY <1>2, <3>2, <3>3, <3>4, ArmsFacts DEF Dir
    <3> QED BY <2>2, <2>4, <3>2, <3>5, KeepKeeps DEF Same
  <2> QED BY <2>1, <2>3, <2>4
<1>9. CASE WriteSends(c)
  <2>1. CASE client[c].out = 0
    <3>1. Keep(c, Taken(c))
      BY <1>9, <2>1 DEF WriteSends
    <3> QED BY <1>1, <3>1, KeepKeeps DEF Same
  <2>2. CASE client[c].out # 0
    <3>1. PICK n \in 0 .. client[c].out - 1 :
            LET r == [Taken(c) EXCEPT !.out = n]
            IN  \E s \in IF n = 0 THEN {r} ELSE Arms(r, "WRITE") : Keep(c, s)
      BY <1>9, <2>2 DEF WriteSends
    <3> DEFINE r == [Taken(c) EXCEPT !.out = n]
    <3>2. PICK s \in IF n = 0 THEN {r} ELSE Arms(r, "WRITE") : Keep(c, s)
      BY <3>1
    <3>3. n \in 0 .. MaxOut
      BY <3>1, EchoAssumption DEF TypeOK, Record, EchoAssumption
    <3>4. r \in Record /\ Same(Taken(c), r) /\ r.ev = Taken(c).ev
          /\ r.entry = Taken(c).entry /\ r.turn = Taken(c).turn
      BY <1>1, <3>3 DEF Record, Same
    <3> HIDE DEF r
    <3>5. Sane(r) /\ r.ev["READ"] # "active" /\ (r.fd = Closed => r.busy)
      BY <1>1, <1>4, <1>9, <3>4 DEF Sane, Same, WriteSends
    <3>6. s \in Record /\ Same(r, s) /\ Sane(s)
      <4>1. CASE s = r
        BY <3>4, <3>5, <4>1 DEF Same
      <4>2. CASE s \in Arms(r, "WRITE")
        BY <1>2, <3>4, <3>5, <4>2, ArmsFacts DEF Dir
      <4> QED BY <3>2, <4>1, <4>2
    <3> QED BY <1>1, <3>2, <3>4, <3>6, KeepKeeps DEF Same
  <2> QED BY <2>1, <2>2
<1> QED BY <1>5, <1>7, <1>8, <1>9 DEF Callback

LEMMA PollKeeps ==
  ASSUME IInv, NEW c \in Client, NEW R \in SUBSET Dir, NEW T \in SUBSET Dir, Poll(c, R, T)
  PROVE  Kept
<1> USE DEF IInv
<1> DEFINE r == client[c]
           ev == [d \in Dir |-> IF d \in T THEN "late"
                                ELSE IF d \in R THEN "active" ELSE r.ev[d]]
           s == [r EXCEPT !.ev = ev]
           n(turn) == [s EXCEPT !.turn = turn,
                                !.entry = IF Inserted(s) = {} THEN NoClient ELSE @]
<1>1. r \in Record /\ Sane(r) /\ r.turn = <<>>
      /\ R \subseteq {d \in Dir : r.ev[d] = "on" /\ r.entry # NoClient}
  BY DEF TypeOK, AllSane, Poll
<1>2. PICK turn \in Turns :
        /\ {turn[i] : i \in 1 .. Len(turn)} = R \cup T
        /\ Len(turn) = 2 => GoesFirst(turn[1], turn[2], T)
        /\ Keep(c, n(turn))
  BY DEF Poll
<1>3. ev \in [Dir -> EventState]
  BY <1>1 DEF Record, EventState
<1>4. s \in Record /\ Same(r, s) /\ s.ev = ev /\ s.entry = r.entry
  BY <1>1, <1>3 DEF Record, Same
<1>5. ev["READ"] = "active" => "READ" \in R \ T
  BY <1>1 DEF Sane, Dir
<1>6. ev["WRITE"] = "active" => r.entry # NoClient \/ r.ev["WRITE"] = "active"
  BY <1>1 DEF Dir
<1>7. ev["READ"] = "on" => r.ev["READ"] = "on"
  BY DEF Dir
<1>8. "READ" \in R \ T => turn # <<>> /\ Head(turn) = "READ"
  <2> SUFFICES ASSUME "READ" \in R \ T PROVE turn # <<>> /\ Head(turn) = "READ"
    OBVIOUS
  <2>1. \E i \in 1 .. Len(turn) : turn[i] = "READ"
    BY <1>2
  <2>2. CASE turn = <<"READ">> \/ turn = <<"READ", "WRITE">>
    BY <2>2
  <2>3. CASE turn = <<>> \/ turn = <<"WRITE">>
    BY <2>1, <2>3
  <2>4. CASE turn = <<"WRITE", "READ">>
    BY <1>2, <2>4 DEF GoesFirst
  <2> QED BY <2>2, <2>3, <2>4 DEF Turns
<1> HIDE DEF s, ev
<1>9. /\ n(turn) \in Record /\ Same(r, n(turn)) /\ n(turn).ev = ev
      /\ n(turn).turn = turn /\ n(turn).entry \in {r.entry, NoClient}
  BY <1>2, <1>4 DEF Record, Same
<1> HIDE DEF n
<1>10. Sane(n(turn))
  BY <1>1, <1>5, <1>6, <1>7, <1>8, <1>9 DEF Sane, Same
<1> QED BY <1>2, <1>9, <1>10, KeepKeeps DEF Same

LEMMA EndsKeeps ==
  ASSUME IInv, NEW c \in Client, Ends(c)
  PROVE  Kept
<1> USE DEF IInv
<1> DEFINE r == [client[c] EXCEPT !.stage = "freed", !.ev = [d \in Dir |-> "off"]]
           s == [r EXCEPT !.entry = NoClient]
<1>1. client[c] \in Record /\ Sane(client[c]) /\ client[c].stage = "running"
  BY DEF TypeOK, AllSane, Ends, Runs
<1>2. CloseAndSet(c, s)
  BY DEF Ends
<1>3. /\ s \in Record /\ s.fd = client[c].fd /\ s.num = client[c].num
      /\ s.busy = client[c].busy /\ s.stage = "freed" /\ s.entry = NoClient
      /\ s.ev = [d \in Dir |-> "off"]
  BY <1>1 DEF Record, EventState
<1> HIDE DEF r, s
<1>4. Sane(s) /\ s.ev["READ"] # "active"
  BY <1>1, <1>3 DEF Sane, Dir
<1> QED BY <1>2, <1>3, <1>4, CloseKeeps

LEMMA StartKeeps ==
  ASSUME IInv, NEW c \in Client, Start(c)
  PROVE  Kept
<1> USE DEF IInv
<1> DEFINE s == [client[c] EXCEPT !.stage = "running"]
<1>1. client[c] \in Record /\ Sane(client[c])
  BY DEF TypeOK, AllSane
<1>2. s \in Record /\ s.fd = client[c].fd /\ s.busy = client[c].busy /\ Sane(s)
  BY <1>1 DEF Record, Sane
<1> QED BY <1>2, KeepKeeps DEF Start

LEMMA AcceptKeeps ==
  ASSUME IInv, NEW c \in Client, Accept(c)
  PROVE  Kept
<1> USE DEF IInv
<1>1. PICK n \in Fd :
        /\ owner[n] = NoClient
        /\ owner' = [owner EXCEPT ![n] = c]
        /\ \E ev \in {"off", "on"} :
             client' = [client EXCEPT
                          ![c] = [@ EXCEPT !.stage = "queued", !.fd = n, !.num = n,
                                    !.ev["READ"] = ev,
                                    !.entry = IF ev = "on" THEN c ELSE NoClient]]
  BY DEF Accept
<1>2. PICK ev \in {"off", "on"} :
        client' = [client EXCEPT
                     ![c] = [@ EXCEPT !.stage = "queued", !.fd = n, !.num = n,
                               !.ev["READ"] = ev,
                               !.entry = IF ev = "on" THEN c ELSE NoClient]]
  BY <1>1
<1> DEFINE r == client[c]
           s == [r EXCEPT !.stage = "queued", !.fd = n, !.num = n, !.ev["READ"] = ev,
                          !.entry = IF ev = "on" THEN c ELSE NoClient]
<1>3. r \in Record /\ r.fd = Closed
  BY DEF TypeOK, AllSane, Sane, Accept
<1>4. /\ s \in Record /\ s.stage = "queued" /\ s.fd = n /\ s.num = n
      /\ s.busy = r.busy /\ s.ev["READ"] = ev
  BY <1>3 DEF Record, EventState, Dir
<1>5. client' = [client EXCEPT ![c] = s]
  BY <1>2
<1> HIDE DEF s
<1>6. Sane(s)
  BY <1>4, ClosedIsNoFd DEF Sane
<1>7. client' \in [Client -> Record]
      /\ \A b \in Client : client'[b] = IF b = c THEN s ELSE client[b]
  BY <1>4, <1>5 DEF TypeOK
<1>8. owner' \in [Fd -> Client \cup {NoClient}]
      /\ \A m \in Fd : owner'[m] = IF m = n THEN c ELSE owner[m]
  BY <1>1 DEF TypeOK
<1>9. AllSane'
  BY <1>6, <1>7 DEF AllSane
<1>10. NumbersAgree'
  BY <1>1, <1>3, <1>4, <1>7, <1>8, ClosedIsNoFd, EchoAssumption
  DEF NumbersAgree, EchoAssumption
<1> QED BY <1>4, <1>7, <1>8, <1>9, <1>10 DEF Kept

LEMMA SignalKeeps ==
  ASSUME IInv, NEW onMain \in BOOLEAN, Signal(onMain)
  PROVE  Kept
<1> USE DEF IInv
<1>1. ASSUME NEW c \in Client
      PROVE  /\ client'[c] \in Record /\ Sane(client'[c])
             /\ client'[c].fd = client[c].fd /\ client'[c].busy = client[c].busy
  <2>1. client[c] \in Record /\ Sane(client[c])
    BY DEF TypeOK, AllSane
  <2>2. CASE client'[c] = client[c]
    BY <2>1, <2>2
  <2>3. CASE client'[c] = [client[c] EXCEPT !.stage = "dropped"] /\ client[c].stage = "queued"
    BY <2>1, <2>3 DEF Record, Sane
  <2> QED BY <2>2, <2>3 DEF Signal
<1>2. client' \in [Client -> Record] /\ owner' = owner
  BY <1>1 DEF Signal
<1>3. AllSane' /\ NumbersAgree'
  BY <1>1, <1>2 DEF AllSane, NumbersAgree
<1> QED BY <1>1, <1>2, <1>3 DEF Kept, TypeOK

\* No step makes a client touch the bytes of another that was closed idle.
LEMMA BytesStep ==
  ASSUME IInv, Kept,
         \/ strayed' = strayed
         \/ \E c \in Client, d \in Dir : Calls(c, d, "active") /\ Strays(c, d)
  PROVE  BytesStayHome' /\ strayed' \subseteq Client \X Dir
<1> USE DEF IInv
<1>1. CASE strayed' = strayed
  BY <1>1 DEF BytesStayHome, Kept, TypeOK
<1>2. ASSUME NEW c \in Client, NEW d \in Dir, Calls(c, d, "active"), Strays(c, d)
      PROVE  BytesStayHome' /\ strayed' \subseteq Client \X Dir
  <2>1. client[c] \in Record /\ Sane(client[c])
    BY DEF TypeOK, AllSane
  <2>2. client[c].fd # Closed => owner[client[c].num] = c
    BY <2>1 DEF Sane, Record, NumbersAgree
  <2>3. CASE owner[client[c].num] = c
    BY <1>2, <2>3 DEF Strays, BytesStayHome, Kept, TypeOK
  <2>4. CASE client[c].fd = Closed
    <3>1. d = "WRITE" /\ client[c].busy
      BY <1>2, <2>1, <2>4 DEF Calls, Sane, Dir
    <3> QED BY <1>2, <3>1 DEF Strays, BytesStayHome, Kept, TypeOK
  <2> QED BY <2>2, <2>3, <2>4
<1> QED BY <1>1, <1>2

\* The actions by what they do to the clients, and to the listener.
WorkerQuiet(c) ==
  \/ Start(c) \/ TimedOut(c) \/ Fails(c) \/ ReadBlocks(c) \/ WriteBlocks(c) \/ Ends(c)
  \/ \E R, T \in SUBSET Dir : Poll(c, R, T)

LEMMA StepKeeps == IInv /\ [Next]_vars => Kept
<1> SUFFICES ASSUME IInv, [Next]_vars PROVE Kept
  OBVIOUS
<1>1. CASE UNCHANGED <<client, owner>>
  BY <1>1 DEF Kept, IInv, TypeOK, AllSane, NumbersAgree
<1>2. CASE MainPolls \/ MainStops \/ MainReports \/ AcceptFails \/ Exit \/ UNCHANGED vars
  BY <1>1, <1>2 DEF MainPolls, MainStops, MainReports, AcceptFails, Exit, vars
<1>3. ASSUME NEW c \in Client, Accept(c) PROVE Kept
  BY <1>3, AcceptKeeps
<1>4. ASSUME NEW c \in Client, WorkerStep(c) PROVE Kept
  BY <1>4, StartKeeps, CallbackKeeps, EndsKeeps, PollKeeps DEF WorkerStep
<1>5. ASSUME NEW onMain \in BOOLEAN, Signal(onMain) PROVE Kept
  BY <1>5, SignalKeeps
<1> QED BY <1>2, <1>3, <1>4, <1>5 DEF Next, MainStep

LEMMA StrayStep ==
  ASSUME [Next]_vars
  PROVE  \/ strayed' = strayed
         \/ \E c \in Client, d \in Dir : Calls(c, d, "active") /\ Strays(c, d)
<1>1. CASE MainStep \/ (\E onMain \in BOOLEAN : Signal(onMain)) \/ UNCHANGED vars
  BY <1>1 DEF MainStep, MainPolls, MainStops, MainReports, Accept, AcceptFails, Exit,
              Signal, vars
<1>2. ASSUME NEW c \in Client, WorkerQuiet(c)
      PROVE  strayed' = strayed
  BY <1>2 DEF WorkerQuiet, Start, TimedOut, Fails, ReadBlocks, WriteBlocks, Ends, Poll
<1>3. ASSUME NEW c \in Client, ReadGets(c) \/ WriteSends(c)
      PROVE  \/ strayed' = strayed
             \/ \E d \in Dir : Calls(c, d, "active") /\ Strays(c, d)
  BY <1>3 DEF ReadGets, WriteSends, Dir
<1> QED BY <1>1, <1>2, <1>3 DEF Next, WorkerStep, Callback, WorkerQuiet

MainTypes ==
  /\ main \in {"top", "polling", "blocked", "accepting", "stopped", "gone"}
  /\ exitSet \in BOOLEAN /\ exitDue \in BOOLEAN
  /\ after \in Nat

\* The listener: its types, and how far it is from its stop.
LEMMA ListenerStep == MainTypes /\ Stopping /\ [Next]_vars => MainTypes' /\ Stopping'
<1> SUFFICES ASSUME MainTypes, Stopping, [Next]_vars PROVE MainTypes' /\ Stopping'
  OBVIOUS
<1> USE DEF MainTypes, Stopping
<1>1. CASE UNCHANGED mainVars
  BY <1>1 DEF mainVars
<1>2. CASE \E c \in Client : WorkerStep(c)
  BY <1>1, <1>2 DEF WorkerStep, Callback, Start, TimedOut, Fails, ReadBlocks, ReadGets,
                    WriteBlocks, WriteSends, Ends, Poll
<1>3. CASE MainPolls
  BY <1>3 DEF MainPolls
<1>4. CASE MainStops
  BY <1>4 DEF MainStops
<1>5. CASE MainReports
  BY <1>5 DEF MainReports
<1>6. CASE Accepted
  BY <1>6 DEF Accepted
<1>7. CASE Exit
  BY <1>7 DEF Exit
<1>8. CASE \E onMain \in BOOLEAN : Signal(onMain)
  BY <1>8 DEF Signal
<1> QED BY <1>1, <1>2, <1>3, <1>4, <1>5, <1>6, <1>7, <1>8
        DEF Next, MainStep, Accept, AcceptFails, vars, mainVars

LEMMA Invariance == Spec => [](IInv /\ Stopping)
<1>1. ASSUME IInv, Stopping, [Next]_vars PROVE IInv' /\ Stopping'
  <2>1. Kept
    BY <1>1, StepKeeps
  <2>2. BytesStayHome' /\ strayed' \subseteq Client \X Dir
    BY <1>1, <2>1, StrayStep, BytesStep
  <2>3. MainTypes' /\ Stopping'
    BY <1>1, ListenerStep DEF IInv, TypeOK, MainTypes
  <2> QED BY <2>1, <2>2, <2>3 DEF Kept, IInv, TypeOK, MainTypes
<1> QED BY <1>1, InitInv, PTL DEF Spec

\* The descriptor numbers, the clients, their active queues and the listener
\* keep their types.
THEOREM TypeCorrect == Spec => []TypeOK
<1> QED BY Invariance, PTL DEF IInv

\* No client reads from the socket of another, and one that writes to it was
\* closed by buffered_on_error or after a failed echo (mainsvrd.cpp:123, 114)
\* while its write event was active.
THEOREM BytesAreHome == Spec => []BytesStayHome
<1> QED BY Invariance, PTL DEF IInv

\* mainsvrd.cpp:284: after killServer has called event_base_loopexit at most
\* two clients are accepted, wherever the signal meets the listener.
THEOREM ListenerStops == Spec => []StopsSoon
<1>1. Stopping => StopsSoon
  BY DEF Stopping, StopsSoon
<1> QED BY <1>1, Invariance, PTL

-----------------------------------------------------------------------------
(* The clients are jobs: the queue the server sees is a job pool.          *)

Jobs == INSTANCE JobPool WITH
  Job <- Client,
  waiting <- {c \in Client : client[c].stage = "queued"},
  running <- {c \in Client : client[c].stage = "running"},
  ended <- {c \in Client : client[c].stage = "freed"}

\* The step takes c to the stage s and no other client anywhere.
Moves(c, s) ==
  \A b \in Client : /\ client'[b].stage = IF b = c THEN s ELSE client[b].stage
                    /\ b # c => client'[b].fd = client[b].fd

LEMMA KeepMoves ==
  ASSUME TypeOK, NEW c \in Client, NEW r, Keep(c, r)
  PROVE  Moves(c, r.stage)
BY DEF TypeOK, Keep, Moves

LEMMA CloseMoves ==
  ASSUME TypeOK, NEW c \in Client, NEW r \in Record, CloseAndSet(c, r)
  PROVE  Moves(c, r.stage) /\ client'[c].fd = Closed
<1> DEFINE s == IF r.fd = Closed THEN NoClient ELSE owner[r.fd]
<1>1. client' = [Without(s) EXCEPT ![c] = Close(r)]
  BY DEF CloseAndSet
<1> HIDE DEF s
<1>2. Close(r).stage = r.stage /\ Close(r).fd = Closed
  BY DEF Close, Record
<1>3. \A b \in Client : /\ Without(s)[b].stage = client[b].stage
                        /\ Without(s)[b].fd = client[b].fd
  BY DEF Without, TypeOK, Record
<1>4. \A b \in Client : client'[b] = IF b = c THEN Close(r) ELSE Without(s)[b]
  BY <1>1 DEF Without
<1> QED BY <1>2, <1>3, <1>4 DEF Moves

LEMMA ArmsMove ==
  ASSUME TypeOK, NEW r \in Record, NEW d \in Dir, NEW s \in Arms(r, d)
  PROVE  s \in Record /\ s.stage = r.stage
<1>1. CASE s = [r EXCEPT !.ev[d] = "timer", !.turn = <<>>]
  BY <1>1 DEF Record, Dir, EventState, Turns
<1>2. CASE s = [r EXCEPT !.ev[d] = "on",
                         !.entry = IF @ = NoClient THEN owner[r.num] ELSE @]
  BY <1>2 DEF Record, Dir, EventState, TypeOK
<1> QED BY <1>1, <1>2 DEF Arms

\* A worker stays with its client until the client's loop has ended.
LEMMA CallbackMoves ==
  ASSUME IInv, NEW c \in Client, Callback(c)
  PROVE  client[c].stage = "running" /\ Moves(c, "running")
<1>1. TypeOK /\ AllSane /\ client[c].stage = "running" /\ client[c].turn # <<>>
  BY DEF IInv, Callback, TimedOut, Fails, ReadBlocks, ReadGets, WriteBlocks, WriteSends,
         Calls, Runs
<1>2. Taken(c) \in Record /\ Taken(c).stage = "running"
  BY <1>1, TakenFacts DEF Same
<1>3. CASE TimedOut(c) \/ Fails(c)
  BY <1>1, <1>2, <1>3, CloseMoves DEF TimedOut, Fails
<1>4. CASE ReadBlocks(c) \/ WriteBlocks(c)
  <2>1. PICK d \in Dir : \E r \in Arms(Taken(c), d) : Keep(c, r)
    BY <1>4 DEF ReadBlocks, WriteBlocks, Dir
  <2>2. PICK r \in Arms(Taken(c), d) : Keep(c, r)
    BY <2>1
  <2>3. r.stage = "running"
    BY <1>1, <1>2, ArmsMove
  <2> QED BY <1>1, <2>2, <2>3, KeepMoves
<1>5. CASE ReadGets(c)
  <2>1. PICK r \in Arms(Taken(c), "READ") :
          \/ \E n \in client[c].out + 1 .. MaxOut :
               \E s \in Arms([r EXCEPT !.out = n], "WRITE") : Keep(c, s)
          \/ Keep(c, r)
          \/ CloseAndSet(c, r)
    BY <1>5 DEF ReadGets
  <2>2. r \in Record /\ r.stage = "running"
    BY <1>1, <1>2, ArmsMove DEF Dir
  <2>3. CASE CloseAndSet(c, r) \/ Keep(c, r)
    BY <1>1, <2>2, <2>3, CloseMoves, KeepMoves
  <2>4. ASSUME NEW n \in client[c].out + 1 .. MaxOut,
               NEW s \in Arms([r EXCEPT !.out = n], "WRITE"), Keep(c, s)
        PROVE  Moves(c, "running")
    <3> DEFINE q == [r EXCEPT !.out = n]
    <3>1. n \in 0 .. MaxOut
      BY <1>1, EchoAssumption DEF TypeOK, Record
    <3>2. q \in Record /\ q.stage = "running"
      BY <2>2, <3>1 DEF Record
    <3> HIDE DEF q
    <3>3. s \in Arms(q, "WRITE")
      BY DEF q
    <3>4. s.stage = "running"
      BY <1>1, <3>2, <3>3, ArmsMove DEF Dir
    <3> QED BY <1>1, <2>4, <3>4, KeepMoves
  <2> QED BY <1>1, <2>1, <2>3, <2>4
<1>6. CASE WriteSends(c)
  <2>1. CASE Keep(c, Taken(c))
    BY <1>1, <1>2, <2>1, KeepMoves
  <2>2. CASE client[c].out # 0
    <3>1. PICK n \in 0 .. client[c].out - 1 :
            \E s \in IF n = 0 THEN {[Taken(c) EXCEPT !.out = n]}
                    ELSE Arms([Taken(c) EXCEPT !.out = n], "WRITE") : Keep(c, s)
      BY <1>6, <2>2 DEF WriteSends
    <3> DEFINE q == [Taken(c) EXCEPT !.out = n]
    <3>2. n \in 0 .. MaxOut
      BY <1>1, EchoAssumption DEF TypeOK, Record
    <3>3. q \in Record /\ q.stage = "running"
      BY <1>2, <3>2 DEF Record
    <3>4. PICK s \in IF n = 0 THEN {q} ELSE Arms(q, "WRITE") : Keep(c, s)
      BY <3>1
    <3> HIDE DEF q
    <3>5. s.stage = "running"
      BY <1>1, <3>3, <3>4, ArmsMove DEF Dir
    <3> QED BY <1>1, <3>4, <3>5, KeepMoves
  <2> QED BY <1>6, <2>1, <2>2 DEF WriteSends
<1> QED BY <1>1, <1>3, <1>4, <1>5, <1>6 DEF Callback

LEMMA PollMoves ==
  ASSUME IInv, NEW c \in Client, NEW R \in SUBSET Dir, NEW T \in SUBSET Dir, Poll(c, R, T)
  PROVE  client[c].stage = "running" /\ Moves(c, "running")
<1> DEFINE s == [client[c] EXCEPT !.ev = [d \in Dir |-> IF d \in T THEN "late"
                                          ELSE IF d \in R THEN "active"
                                          ELSE @[d]]]
<1>1. TypeOK /\ client[c].stage = "running"
  BY DEF IInv, Poll, Runs
<1>2. PICK turn \in Turns :
        Keep(c, [s EXCEPT !.turn = turn,
                          !.entry = IF Inserted(s) = {} THEN NoClient ELSE @])
  BY DEF Poll
<1>3. s.stage = "running" /\ DOMAIN s = DOMAIN client[c]
  BY <1>1 DEF TypeOK, Record
<1>4. DOMAIN client[c] = {"stage", "fd", "num", "ev", "entry", "turn", "out", "busy"}
  BY <1>1 DEF TypeOK, Record
<1> HIDE DEF s
<1>5. [s EXCEPT !.turn = turn,
                !.entry = IF Inserted(s) = {} THEN NoClient ELSE @].stage = "running"
  BY <1>3, <1>4
<1> QED BY <1>1, <1>2, <1>5, KeepMoves

LEMMA OtherMoves ==
  ASSUME IInv, NEW c \in Client
  PROVE  /\ Start(c) => client[c].stage = "queued" /\ Moves(c, "running")
         /\ Ends(c) => /\ client[c].stage = "running" /\ Moves(c, "freed")
                       /\ client'[c].fd = Closed
         /\ Accept(c) => client[c].stage = "none" /\ Moves(c, "queued")
<1>1. TypeOK /\ client[c] \in Record
  BY DEF IInv, TypeOK
<1>2. Start(c) => client[c].stage = "queued" /\ Moves(c, "running")
  <2>1. [client[c] EXCEPT !.stage = "running"].stage = "running"
    BY <1>1 DEF Record
  <2> QED BY <1>1, <2>1, KeepMoves DEF Start
<1>3. Ends(c) => /\ client[c].stage = "running" /\ Moves(c, "freed")
                 /\ client'[c].fd = Closed
  <2> DEFINE r == [client[c] EXCEPT !.stage = "freed", !.ev = [d \in Dir |-> "off"]]
             s == [r EXCEPT !.entry = NoClient]
  <2>1. s \in Record /\ s.stage = "freed"
    BY <1>1 DEF Record, EventState
  <2>2. Ends(c) => client[c].stage = "running" /\ CloseAndSet(c, s)
    BY DEF Ends, Runs
  <2> HIDE DEF s
  <2> QED BY <1>1, <2>1, <2>2, CloseMoves
<1>4. Accept(c) => client[c].stage = "none" /\ Moves(c, "queued")
  BY <1>1 DEF Accept, Moves, TypeOK, Record
<1> QED BY <1>2, <1>3, <1>4

\* The request to stop drops the clients that wait.
LEMMA SignalDrops ==
  ASSUME IInv, NEW onMain \in BOOLEAN, Signal(onMain)
  PROVE  /\ exitSet'
         /\ \A b \in Client :
              /\ client'[b].stage = IF client[b].stage = "queued" THEN "dropped"
                                   ELSE client[b].stage
              /\ client'[b].fd = client[b].fd
BY DEF IInv, TypeOK, Signal, Record

\* Everything a step does to the stages, in one place.
Course ==
  \/ \A b \in Client : client'[b].stage = client[b].stage
                      /\ (client'[b].fd = client[b].fd \/ client[b].stage = "running")
  \/ \E c \in Client : client[c].stage = "none" /\ Moves(c, "queued")
  \/ \E c \in Client : client[c].stage = "queued" /\ Moves(c, "running")
  \/ \E c \in Client : client[c].stage = "running" /\ Moves(c, "freed")
                      /\ client'[c].fd = Closed
  \/ /\ exitSet'
     /\ \A b \in Client : /\ client'[b].stage = IF client[b].stage = "queued" THEN "dropped"
                                                ELSE client[b].stage
                          /\ client'[b].fd = client[b].fd

LEMMA StepCourse == IInv /\ [Next]_vars => Course
<1> SUFFICES ASSUME IInv, [Next]_vars PROVE Course
  OBVIOUS
<1>1. CASE MainPolls \/ MainStops \/ MainReports \/ AcceptFails \/ Exit \/ UNCHANGED vars
  BY <1>1 DEF Course, MainPolls, MainStops, MainReports, AcceptFails, Exit, vars
<1>2. ASSUME NEW c \in Client, Accept(c) \/ Start(c) \/ Ends(c) PROVE Course
  BY <1>2, OtherMoves DEF Course
<1>3. ASSUME NEW c \in Client, Callback(c) \/ \E R, T \in SUBSET Dir : Poll(c, R, T)
      PROVE  Course
  BY <1>3, CallbackMoves, PollMoves DEF Course, Moves
<1>4. ASSUME NEW onMain \in BOOLEAN, Signal(onMain) PROVE Course
  BY <1>4, SignalDrops DEF Course
<1> QED BY <1>1, <1>2, <1>3, <1>4 DEF Next, MainStep, WorkerStep

\* The server's clients are the jobs of a job pool, however its threads are
\* interleaved: a client is served at most once, by one worker, and its service
\* ends once.
THEOREM ClientsAreJobs == Spec => Jobs!Spec
<1>1. Init => Jobs!Init
  <2>1. Init => \A c \in Client : client[c].stage = "none"
    BY DEF Init
  <2> QED BY <2>1 DEF Jobs!Init
<1>2. IInv /\ [Next]_vars => [Jobs!Next]_(Jobs!vars)
  <2> SUFFICES ASSUME Course PROVE Jobs!Next \/ UNCHANGED Jobs!vars
    BY StepCourse
  <2>1. CASE \A b \in Client : client'[b].stage = client[b].stage
    BY <2>1 DEF Jobs!vars
  <2>2. ASSUME NEW c \in Client, client[c].stage = "none" /\ Moves(c, "queued")
        PROVE  Jobs!Next
    <3>1. Jobs!Add(c)
      BY <2>2 DEF Jobs!Add, Moves
    <3> QED BY <3>1 DEF Jobs!Next
  <2>3. ASSUME NEW c \in Client, client[c].stage = "queued" /\ Moves(c, "running")
        PROVE  Jobs!Next
    <3>1. Jobs!Start(c)
      BY <2>3 DEF Jobs!Start, Moves
    <3> QED BY <3>1 DEF Jobs!Next
  <2>4. ASSUME NEW c \in Client, client[c].stage = "running" /\ Moves(c, "freed")
        PROVE  Jobs!Next
    <3>1. Jobs!End(c)
      BY <2>4 DEF Jobs!End, Moves
    <3> QED BY <3>1 DEF Jobs!Next
  <2>5. CASE \A b \in Client : client'[b].stage = IF client[b].stage = "queued" THEN "dropped"
                                                 ELSE client[b].stage
    <3>1. Jobs!DropAll
      BY <2>5 DEF Jobs!DropAll
    <3> QED BY <3>1 DEF Jobs!Next
  <2> QED BY <2>1, <2>2, <2>3, <2>4, <2>5 DEF Course
<1> QED BY <1>1, <1>2, Invariance, PTL DEF Spec, Jobs!Spec

\* A client that the request to stop has dropped is never served after all, and
\* one that was freed is not touched again.
GoneStays ==
  [][\A c \in Client : client[c].stage \in {"dropped", "freed"} =>
       client'[c].stage = client[c].stage /\ client'[c].fd = client[c].fd]_vars

\* A client that was freed holds no descriptor number, whoever has its last one.
FreedIsClosed == \A c \in Client : client[c].stage = "freed" => client[c].fd = Closed
NothingLeaks == \A c \in Client : client[c].stage = "freed" => \A n \in Fd : owner[n] # c

\* mainsvrd.cpp:284: killServer drops the jobs that wait, and no worker serves
\* or frees one of their clients afterwards.
THEOREM GoneClientsStay == Spec => GoneStays
<1>1. IInv /\ [Next]_vars =>
        [\A c \in Client : client[c].stage \in {"dropped", "freed"} =>
           client'[c].stage = client[c].stage /\ client'[c].fd = client[c].fd]_vars
  BY StepCourse DEF Course, Moves
<1> QED BY <1>1, Invariance, PTL DEF Spec, GoneStays

\* mainsvrd.cpp:71: closeAndFreeClient leaves no descriptor of its client open,
\* whichever way the client's loop ended and whatever was closed before.
THEOREM FreedClientsLeakNothing == Spec => []NothingLeaks
<1>1. Init => FreedIsClosed
  BY DEF Init, FreedIsClosed
<1>2. IInv /\ FreedIsClosed /\ [Next]_vars => FreedIsClosed'
  BY StepCourse DEF Course, Moves, FreedIsClosed
<1>3. IInv /\ FreedIsClosed => NothingLeaks
  BY ClosedIsNoFd DEF IInv, NumbersAgree, FreedIsClosed, NothingLeaks
<1> QED BY <1>1, <1>2, <1>3, Invariance, PTL DEF Spec

\* Only a request to stop drops a client, and it is never taken back.
DroppedByRequest == \A c \in Client : client[c].stage = "dropped" => exitSet

LEMMA RequestStays == [Next]_vars /\ exitSet => exitSet'
<1> SUFFICES ASSUME [Next]_vars, exitSet PROVE exitSet'
  OBVIOUS
<1>1. CASE UNCHANGED mainVars
  BY <1>1 DEF mainVars
<1>2. CASE \E c \in Client : WorkerStep(c)
  BY <1>1, <1>2 DEF WorkerStep, Callback, Start, TimedOut, Fails, ReadBlocks, ReadGets,
                    WriteBlocks, WriteSends, Ends, Poll
<1>3. CASE MainStep \/ (\E onMain \in BOOLEAN : Signal(onMain))
  BY <1>3 DEF MainStep, MainPolls, MainStops, MainReports, Accept, AcceptFails, Accepted,
              Exit, Signal
<1> QED BY <1>1, <1>2, <1>3 DEF Next, vars, mainVars

\* mainsvrd.cpp:59, 71: closeClient and closeAndFreeClient close the descriptor
\* of their own client or none, however accept gives the numbers out again, and
\* an open socket is left without a worker to close it only by the shutdown:
\* its client waited for one, or was accepted after the request to stop.
THEOREM DescriptorsAreOwned == Spec => []OwnsDescriptor
<1>1. Init => FreedIsClosed /\ DroppedByRequest
  BY DEF Init, FreedIsClosed, DroppedByRequest
<1>2. IInv /\ FreedIsClosed /\ [Next]_vars => FreedIsClosed'
  BY StepCourse DEF Course, Moves, FreedIsClosed
<1>3. IInv /\ DroppedByRequest /\ [Next]_vars => DroppedByRequest'
  BY StepCourse, RequestStays DEF Course, Moves, DroppedByRequest
<1>4. IInv /\ FreedIsClosed /\ DroppedByRequest => OwnsDescriptor
  <2> SUFFICES ASSUME IInv, FreedIsClosed, DroppedByRequest, NEW c \in Client,
                      client[c].fd # Closed
               PROVE  \/ client[c].stage = "running"
                      \/ client[c].stage = "queued" /\ ~exitSet
                      \/ Unserved(c)
    BY DEF IInv, OwnsDescriptor, HasCloser
  <2>1. client[c].stage \in {"none", "queued", "running", "dropped", "freed"}
    BY DEF IInv, TypeOK, Record
  <2>2. client[c].stage \notin {"none", "freed"}
    BY DEF IInv, AllSane, Sane, FreedIsClosed
  <2>3. client[c].stage = "dropped" => exitSet
    BY DEF DroppedByRequest
  <2> QED BY <2>1, <2>2, <2>3 DEF Unserved
<1> QED BY <1>1, <1>2, <1>3, <1>4, Invariance, PTL DEF Spec

-----------------------------------------------------------------------------
(***************************************************************************)
(* LogRotate: the order of the names, the full log that is always carried  *)
(* on, and the newest log that survives.                                   *)
(***************************************************************************)
\* The threads that cannot move the file at name p in the pass they are in.
Spent(p) ==
  {t \in Thread : ~ \/ pc[t] \in {"last", "remove"}
                    \/ pc[t] \in {"access", "rename"} /\ index[t] >= p}

\* Each name the newest log has been shifted by has used up a thread.
Drift == \A p \in Name : dir[p] = made /\ made # 0 => p <= Cardinality(Spent(p))

\* Files that are not created yet are empty.
FreshIsEmpty == \A f \in 1 .. MaxFiles : f > made => size[f] = 0

LogInv == LogTypeOK /\ NewestFirst /\ FreshIsEmpty /\ FullIsShifted /\ Drift /\ KeepsNewest

LEMMA LogInitInv == LogInit => LogInv
<1> SUFFICES ASSUME LogInit PROVE LogInv
  OBVIOUS
<1> USE LogAssumption DEF LogAssumption, LogInit, Exists, NoFile, Name
<1>1. LogTypeOK
  BY DEF LogTypeOK
<1>2. NewestFirst /\ FreshIsEmpty /\ FullIsShifted /\ Drift /\ KeepsNewest
  BY DEF NewestFirst, FreshIsEmpty, FullIsShifted, Drift, KeepsNewest
<1> QED BY <1>1, <1>2 DEF LogInv

LEMMA Names ==
  /\ 0 \in Name /\ MaxLogNum - 1 \in Name
  /\ \A i \in 0 .. MaxLogNum - 2 : i \in Name /\ i + 1 \in Name
BY LogAssumption DEF LogAssumption, Name

LEMMA LogTypeStep == LogTypeOK /\ [LogNext]_logVars => LogTypeOK'
<1> SUFFICES ASSUME LogTypeOK, [LogNext]_logVars PROVE LogTypeOK'
  OBVIOUS
<1>a. /\ made \in Nat /\ made \in 0 .. MaxFiles /\ MaxFiles \in Nat
      /\ MaxLogNum \in Nat /\ MaxLogNum - 2 \in 0 .. MaxLogNum - 2
  BY LogAssumption DEF LogAssumption, LogTypeOK
<1>1. CASE UNCHANGED logVars
  BY <1>1 DEF logVars, LogTypeOK
<1>2. ASSUME NEW t \in Thread, Open(t) PROVE LogTypeOK'
  <2>1. CASE Exists(0)
    BY <1>2, <2>1, Names DEF Open, Goes, LogTypeOK
  <2>2. CASE ~Exists(0)
    <3>1. /\ made' = made + 1 /\ made' \in Nat /\ made' \in 0 .. MaxFiles
          /\ dir' = [dir EXCEPT ![0] = made']
          /\ handle' = [handle EXCEPT ![t] = made']
      BY <1>2, <1>a, <2>2 DEF Open
    <3>2. 0 .. made \subseteq 0 .. made' /\ made' \in 0 .. made' /\ 1 .. made \subseteq 1 .. made'
      BY <1>a, <3>1
    <3>3. dir' \in [Name -> 0 .. made'] /\ handle' \in [Thread -> 0 .. made']
      BY <3>1, <3>2 DEF LogTypeOK
    <3> QED BY <1>2, <3>1, <3>2, <3>3 DEF Open, Goes, LogTypeOK
  <2> QED BY <2>1, <2>2
<1>3. ASSUME NEW t \in Thread, WriteLine(t) PROVE LogTypeOK'
  <2>1. size' \in [1 .. MaxFiles -> Nat]
    <3>1. size' = [size EXCEPT ![handle[t]] = size[handle[t]] + 1]
      BY <1>3 DEF WriteLine
    <3>2. \A f \in 1 .. MaxFiles : size[f] + 1 \in Nat
      BY DEF LogTypeOK
    <3> QED BY <3>1, <3>2 DEF LogTypeOK
  <2>2. handle' \in [Thread -> 0 .. made]
    BY <1>3, <1>a DEF WriteLine, NoFile, LogTypeOK
  <2> QED BY <1>3, <2>1, <2>2 DEF WriteLine, Goes, LogTypeOK
<1>4. ASSUME NEW t \in Thread, Stat(t) PROVE LogTypeOK'
  BY <1>4 DEF Stat, Goes, LogTypeOK
<1>5. ASSUME NEW t \in Thread, StartLoop(t)
      PROVE  /\ pc' \in [Thread -> {"idle", "write", "stat", "last", "remove", "access", "rename"}]
             /\ index' \in [Thread -> 0 .. MaxLogNum - 2]
  BY <1>5, <1>a DEF StartLoop, Goes, LogTypeOK
<1>6. ASSUME NEW t \in Thread, NextName(t)
      PROVE  /\ pc' \in [Thread -> {"idle", "write", "stat", "last", "remove", "access", "rename"}]
             /\ index' \in [Thread -> 0 .. MaxLogNum - 2]
  <2>1. CASE index[t] = 0
    BY <1>6, <2>1 DEF NextName, Goes, LogTypeOK
  <2>2. CASE index[t] # 0
    <3>1. index[t] - 1 \in 0 .. MaxLogNum - 2
      BY <1>a, <2>2 DEF LogTypeOK
    <3> QED BY <1>6, <2>2, <3>1 DEF NextName, Goes, LogTypeOK
  <2> QED BY <2>1, <2>2
<1>7. ASSUME NEW t \in Thread, AccessLast(t) PROVE LogTypeOK'
  <2>1. CASE Exists(MaxLogNum - 1)
    BY <1>7, <2>1 DEF AccessLast, Goes, LogTypeOK
  <2>2. CASE ~Exists(MaxLogNum - 1)
    BY <1>5, <1>7, <2>2 DEF AccessLast, LogTypeOK
  <2> QED BY <2>1, <2>2
<1>8. ASSUME NEW t \in Thread, RemoveLast(t) PROVE LogTypeOK'
  <2>1. CASE Exists(MaxLogNum - 1)
    <3>1. dir[MaxLogNum - 1] \in 1 .. made
      BY <1>a, <2>1, Names DEF Exists, NoFile, LogTypeOK
    <3>2. dir' \in [Name -> 0 .. made]
      BY <1>8, <1>a, <2>1 DEF RemoveLast, NoFile, LogTypeOK
    <3> QED BY <1>5, <1>8, <2>1, <3>1, <3>2 DEF RemoveLast, LogTypeOK
  <2>2. CASE ~Exists(MaxLogNum - 1)
    BY <1>8, <2>2 DEF RemoveLast, Goes, LogTypeOK
  <2> QED BY <2>1, <2>2
<1>9. ASSUME NEW t \in Thread, Access(t) PROVE LogTypeOK'
  <2>1. CASE Exists(index[t])
    BY <1>9, <2>1 DEF Access, Goes, LogTypeOK
  <2>2. CASE ~Exists(index[t])
    BY <1>6, <1>9, <2>2 DEF Access, LogTypeOK
  <2> QED BY <2>1, <2>2
<1>10. ASSUME NEW t \in Thread, Rename(t) PROVE LogTypeOK'
  <2> DEFINE i == index[t]
  <2>0. i \in Name /\ i + 1 \in Name
    BY Names DEF LogTypeOK
  <2>1. CASE Exists(i)
    <3>1. dir' = [dir EXCEPT ![i] = NoFile, ![i + 1] = dir[i]]
      BY <1>10, <2>1 DEF Rename
    <3>2. dir[i] \in 0 .. made /\ dir[i + 1] \in 0 .. made /\ NoFile \in 0 .. made
      BY <1>a, <2>0 DEF NoFile, LogTypeOK
    <3>3. dir' \in [Name -> 0 .. made]
      BY <2>0, <3>1, <3>2 DEF LogTypeOK
    <3>4. killed' \subseteq 1 .. made
      <4>1. killed' = killed \cup ({dir[i + 1]} \ {0})
        BY <1>10, <2>1 DEF Rename, NoFile
      <4>2. dir[i + 1] # 0 => dir[i + 1] \in 1 .. made
        BY <1>a, <3>2
      <4> QED BY <4>1, <4>2 DEF LogTypeOK
    <3> QED BY <1>6, <1>10, <2>1, <3>3, <3>4 DEF Rename, LogTypeOK
  <2>2. CASE ~Exists(i)
    BY <1>10, <2>2 DEF Rename, Goes, LogTypeOK
  <2> QED BY <2>1, <2>2
<1> QED BY <1>1, <1>2, <1>3, <1>4, <1>7, <1>8, <1>9, <1>10 DEF LogNext, Step

\* A directory changes in three ways, and each keeps the order of the names.
LEMMA OrderStep == LogTypeOK /\ NewestFirst /\ [LogNext]_logVars => NewestFirst'
<1> SUFFICES ASSUME LogTypeOK, NewestFirst, [LogNext]_logVars PROVE NewestFirst'
  OBVIOUS
<1> USE LogAssumption DEF LogAssumption, LogTypeOK, Name, Exists, NoFile, NewestFirst
<1>1. CASE UNCHANGED dir
  BY <1>1
<1>2. ASSUME NEW t \in Thread, Open(t), dir' # dir PROVE NewestFirst'
  <2>1. dir' = [dir EXCEPT ![0] = made + 1] /\ made \in Nat
    BY <1>2 DEF Open
  <2>2. \A n \in Name : dir[n] \in Nat /\ dir[n] <= made /\ n \in Nat
    BY <2>1
  <2> QED BY <2>1, <2>2
<1>3. ASSUME NEW t \in Thread, RemoveLast(t), dir' # dir PROVE NewestFirst'
  BY <1>3 DEF RemoveLast
<1>4. ASSUME NEW t \in Thread, Rename(t), dir' # dir PROVE NewestFirst'
  <2> DEFINE i == index[t]
  <2>1. /\ dir' = [dir EXCEPT ![i] = NoFile, ![i + 1] = dir[i]]
        /\ i \in Name /\ i + 1 \in Name /\ Exists(i)
    BY <1>4, Names DEF Rename
  <2>2. /\ dir'[i] = NoFile /\ dir'[i + 1] = dir[i]
        /\ \A n \in Name \ {i, i + 1} : dir'[n] = dir[n]
    BY <2>1
  <2> HIDE DEF i
  <2>3. SUFFICES ASSUME NEW m \in Name, NEW n \in Name, m < n, Exists(m)', Exists(n)'
                 PROVE  dir'[m] > dir'[n]
    OBVIOUS
  <2>4. m # i /\ n # i
    BY <2>2, <2>3
  <2>5. CASE m = i + 1
    BY <2>1, <2>2, <2>3, <2>4, <2>5
  <2>6. CASE n = i + 1
    BY <2>1, <2>2, <2>3, <2>4, <2>6
  <2>7. CASE m # i + 1 /\ n # i + 1
    BY <2>1, <2>2, <2>3, <2>4, <2>7
  <2> QED BY <2>5, <2>6, <2>7
<1> QED BY <1>1, <1>2, <1>3, <1>4
        DEF LogNext, Step, logVars, WriteLine, Stat, AccessLast, Access

LEMMA FreshStep == LogTypeOK /\ FreshIsEmpty /\ [LogNext]_logVars => FreshIsEmpty'
<1> SUFFICES ASSUME LogTypeOK, FreshIsEmpty, [LogNext]_logVars PROVE FreshIsEmpty'
  OBVIOUS
<1> USE LogAssumption DEF LogAssumption, LogTypeOK, FreshIsEmpty
<1>1. CASE UNCHANGED <<made, size>>
  BY <1>1
<1>2. ASSUME NEW t \in Thread, Open(t) PROVE FreshIsEmpty'
  BY <1>2 DEF Open
<1>3. ASSUME NEW t \in Thread, WriteLine(t) PROVE FreshIsEmpty'
  BY <1>3 DEF WriteLine
<1> QED BY <1>1, <1>2, <1>3
        DEF LogNext, Step, logVars, Stat, AccessLast, RemoveLast, Access, Rename

\* What makes a thread unable to carry on is a thread that has just been
\* faster, and that one carries on.
LEMMA FullStep ==
  ASSUME LogTypeOK, FreshIsEmpty, FullIsShifted, [LogNext]_logVars
  PROVE  FullIsShifted'
<1> USE LogAssumption DEF LogAssumption, LogTypeOK, Name, Exists, Goes, NoFile
<1> SUFFICES ASSUME Exists(0)', (size[dir[0]] >= MaxSize)'
             PROVE  \E t \in Thread : Carries(t)'
  BY DEF FullIsShifted
<1>1. CASE UNCHANGED logVars
  BY <1>1 DEF logVars, FullIsShifted, Carries
<1>2. ASSUME NEW t \in Thread, Open(t) PROVE \E u \in Thread : Carries(u)'
  <2>1. dir' = dir /\ size' = size
    BY <1>2 DEF Open, FreshIsEmpty
  <2>2. PICK u \in Thread : Carries(u)
    BY <2>1 DEF FullIsShifted
  <2> QED BY <1>2, <2>1, <2>2 DEF Open, Carries
<1>3. ASSUME NEW t \in Thread, WriteLine(t) PROVE Carries(t)'
  BY <1>3 DEF WriteLine, Carries
<1>4. ASSUME NEW t \in Thread, Stat(t) PROVE Carries(t)'
  BY <1>4 DEF Stat, Carries
<1>5. ASSUME NEW t \in Thread, AccessLast(t) PROVE \E u \in Thread : Carries(u)'
  BY <1>5 DEF AccessLast, StartLoop, Carries
<1>6. ASSUME NEW t \in Thread, RemoveLast(t) PROVE \E u \in Thread : Carries(u)'
  <2>1. CASE Exists(MaxLogNum - 1)
    BY <1>6, <2>1 DEF RemoveLast, StartLoop, Carries
  <2>2. CASE ~Exists(MaxLogNum - 1)
    <3>1. dir' = dir /\ size' = size /\ ~Carries(t)
      BY <1>6, <2>2 DEF RemoveLast, Carries
    <3>2. PICK u \in Thread : Carries(u)
      BY <3>1 DEF FullIsShifted
    <3> QED BY <1>6, <2>2, <3>1, <3>2 DEF RemoveLast, Carries
  <2> QED BY <2>1, <2>2
<1>7. ASSUME NEW t \in Thread, Access(t) PROVE \E u \in Thread : Carries(u)'
  BY <1>7 DEF Access, NextName, Carries
<1>8. ASSUME NEW t \in Thread, Rename(t) PROVE \E u \in Thread : Carries(u)'
  <2>1. CASE Exists(index[t])
    BY <1>8, <2>1 DEF Rename, NextName, Carries
  <2>2. CASE ~Exists(index[t])
    <3>1. dir' = dir /\ size' = size /\ ~Carries(t)
      BY <1>8, <2>2 DEF Rename, Carries
    <3>2. PICK u \in Thread : Carries(u)
      BY <3>1 DEF FullIsShifted
    <3> QED BY <1>8, <2>2, <3>1, <3>2 DEF Rename, Carries
  <2> QED BY <2>1, <2>2
<1> QED BY <1>1, <1>2, <1>3, <1>4, <1>5, <1>6, <1>7, <1>8 DEF LogNext, Step

LEMMA SpentGrows ==
  ASSUME NEW p \in Name, Spent(p) \subseteq Spent(p)'
  PROVE  Cardinality(Spent(p)) <= Cardinality(Spent(p)')
<1>1. IsFiniteSet(Spent(p)')
  BY LogAssumption, FS_Subset DEF LogAssumption, Spent
<1> QED BY <1>1, FS_Subset

\* A file moves up one name by a thread that cannot move it again before a
\* newer log is made.
LEMMA DriftStep ==
  ASSUME LogTypeOK, NewestFirst, Drift, [LogNext]_logVars
  PROVE  Drift'
<1> SUFFICES ASSUME NEW p \in Name, dir'[p] = made', made' # 0
             PROVE  p <= Cardinality(Spent(p)')
  BY DEF Drift
<1>0. /\ \A q \in Name : /\ q \in Nat
                         /\ Cardinality(Spent(q)) \in Nat
                         /\ Cardinality(Spent(q)') \in Nat
                         /\ IsFiniteSet(Spent(q)) /\ IsFiniteSet(Spent(q)')
      /\ made \in Nat /\ \A q \in Name : dir[q] \in Nat /\ dir[q] <= made
      /\ \A u \in Thread : index[u] \in Nat /\ index[u] \in Name /\ index[u] + 1 \in Name
  <2>1. \A q \in Name : Spent(q) \subseteq Thread /\ Spent(q)' \subseteq Thread
    BY DEF Spent
  <2>2. \A q \in Name : IsFiniteSet(Spent(q)) /\ IsFiniteSet(Spent(q)')
    BY <2>1, LogAssumption, FS_Subset DEF LogAssumption
  <2>3. \A q \in Name : Cardinality(Spent(q)) \in Nat /\ Cardinality(Spent(q)') \in Nat
    BY <2>2, FS_CardinalityType
  <2>4. (\A q \in Name : q \in Nat) /\ made \in Nat
    BY LogAssumption DEF LogAssumption, Name, LogTypeOK
  <2>5. \A q \in Name : dir[q] \in Nat /\ dir[q] <= made
    BY <2>4 DEF LogTypeOK
  <2>6. \A u \in Thread : index[u] \in Nat /\ index[u] \in Name /\ index[u] + 1 \in Name
    BY <2>4, Names DEF LogTypeOK
  <2> QED BY <2>2, <2>3, <2>4, <2>5, <2>6
<1>1. CASE p = 0
  BY <1>0, <1>1
<1>2. ASSUME dir[p] = made, made # 0, Spent(p) \subseteq Spent(p)'
      PROVE  p <= Cardinality(Spent(p)')
  <2>1. p <= Cardinality(Spent(p))
    BY <1>2 DEF Drift
  <2>2. Cardinality(Spent(p)) <= Cardinality(Spent(p)')
    BY <1>2, SpentGrows
  <2> QED BY <1>0, <2>1, <2>2
<1>3. ASSUME p # 0, NEW t \in Thread, Open(t) PROVE p <= Cardinality(Spent(p)')
  <2>1. dir[p] = made /\ made # 0
    BY <1>0, <1>3 DEF Open, Exists, LogTypeOK
  <2>2. Spent(p) \subseteq Spent(p)'
    BY <1>3 DEF Open, Goes, Spent, LogTypeOK
  <2> QED BY <1>2, <2>1, <2>2
<1>4. ASSUME p # 0, NEW t \in Thread, WriteLine(t) PROVE p <= Cardinality(Spent(p)')
  BY <1>2, <1>4 DEF WriteLine, Goes, Spent, LogTypeOK
<1>5. ASSUME p # 0, NEW t \in Thread, Stat(t) PROVE p <= Cardinality(Spent(p)')
  <2>1. dir[p] = made /\ made # 0 /\ 0 < p
    BY <1>0, <1>5 DEF Stat
  <2>2. ~Exists(0)
    BY <1>0, <2>1, Names DEF NewestFirst, Exists, NoFile
  <2>3. Spent(p) \subseteq Spent(p)'
    BY <1>5, <2>2 DEF Stat, Goes, Spent, LogTypeOK
  <2> QED BY <1>2, <2>1, <2>3
<1>6. ASSUME p # 0, NEW t \in Thread, AccessLast(t) PROVE p <= Cardinality(Spent(p)')
  BY <1>2, <1>6 DEF AccessLast, StartLoop, Goes, Spent, LogTypeOK
<1>7. ASSUME p # 0, NEW t \in Thread, RemoveLast(t) PROVE p <= Cardinality(Spent(p)')
  <2>1. dir[p] = made /\ made # 0
    BY <1>7 DEF RemoveLast, NoFile, LogTypeOK
  <2>2. Spent(p) \subseteq Spent(p)'
    BY <1>7 DEF RemoveLast, StartLoop, Goes, Spent, LogTypeOK
  <2> QED BY <1>2, <2>1, <2>2
<1>8. ASSUME NEW t \in Thread, NextName(t), pc[t] \in {"access", "rename"}
      PROVE  /\ \A u \in Thread \ {t} : pc'[u] = pc[u] /\ index'[u] = index[u]
             /\ \/ pc'[t] = "idle"
                \/ pc'[t] = "access" /\ index'[t] = index[t] - 1
  BY <1>8 DEF NextName, Goes, LogTypeOK
<1>8a. ASSUME NEW t \in Thread, NextName(t), pc[t] \in {"access", "rename"}
       PROVE  Spent(p) \subseteq Spent(p)'
  <2> SUFFICES ASSUME NEW u \in Spent(p) PROVE u \in Spent(p)'
    OBVIOUS
  <2>0. u \in Thread
    BY DEF Spent
  <2>1. CASE u # t
    BY <1>8, <1>8a, <2>0, <2>1 DEF Spent
  <2>2. CASE u = t
    <3>1. index[t] \in Nat /\ p \in Nat /\ ~(index[t] >= p)
      <4>1. ~(pc[t] \in {"access", "rename"} /\ index[t] >= p)
        BY <2>2 DEF Spent
      <4> QED BY <1>0, <1>8a, <4>1
    <3>2. pc'[t] = "idle" \/ (pc'[t] = "access" /\ index'[t] = index[t] - 1)
      BY <1>8, <1>8a
    <3>3. pc'[t] = "idle" \/ (pc'[t] = "access" /\ ~(index'[t] >= p))
      BY <3>1, <3>2
    <3> QED BY <2>0, <2>2, <3>3 DEF Spent
  <2> QED BY <2>1, <2>2
<1>9. ASSUME p # 0, NEW t \in Thread, Access(t) PROVE p <= Cardinality(Spent(p)')
  <2>1. CASE Exists(index[t])
    BY <1>2, <1>9, <2>1 DEF Access, Goes, Spent, LogTypeOK
  <2>2. CASE ~Exists(index[t])
    <3>1. Spent(p) \subseteq Spent(p)'
      BY <1>9, <1>8a, <2>2 DEF Access
    <3> QED BY <1>2, <1>9, <3>1 DEF Access
  <2> QED BY <2>1, <2>2
<1>10. ASSUME p # 0, NEW t \in Thread, Rename(t) PROVE p <= Cardinality(Spent(p)')
  <2> DEFINE i == index[t]
  <2>1. CASE p = i + 1 /\ Exists(i)
    <3>0. /\ dir' = [dir EXCEPT ![i] = NoFile, ![i + 1] = dir[i]]
          /\ made' = made /\ pc[t] = "rename" /\ NextName(t)
      BY <1>10, <2>1 DEF Rename
    <3>1. i \in Name /\ dir[i] = made /\ made # 0
      BY <1>0, <2>1, <3>0 DEF LogTypeOK
    <3>2. Spent(i) \cup {t} \subseteq Spent(p)' /\ t \notin Spent(i)
      <4>1. t \notin Spent(i) /\ t \in Spent(p)'
        BY <1>0, <1>8, <2>1, <3>0 DEF Spent
      <4>2. \A u \in Spent(i) : u \in Spent(p)'
        BY <1>0, <1>8, <2>1, <3>0, <4>1 DEF Spent
      <4> QED BY <4>1, <4>2
    <3>3. Cardinality(Spent(i) \cup {t}) = Cardinality(Spent(i)) + 1
      BY <1>0, <3>1, <3>2, FS_AddElement
    <3>4. Cardinality(Spent(i) \cup {t}) <= Cardinality(Spent(p)')
      BY <1>0, <3>2, FS_Subset
    <3>5. i <= Cardinality(Spent(i))
      BY <3>1 DEF Drift
    <3>6. Cardinality(Spent(i)) \in Nat /\ Cardinality(Spent(p)') \in Nat /\ i \in Nat /\ p = i + 1
      BY <1>0, <2>1, <3>1
    <3> HIDE DEF i
    <3> QED BY <3>3, <3>4, <3>5, <3>6
  <2>2. CASE p # i + 1 /\ Exists(i)
    <3>1. /\ dir' = [dir EXCEPT ![i] = NoFile, ![i + 1] = dir[i]]
          /\ made' = made /\ pc[t] = "rename" /\ NextName(t)
      BY <1>10, <2>2 DEF Rename
    <3>2. dir[p] = made /\ made # 0
      BY <2>2, <3>1 DEF NoFile, LogTypeOK
    <3>3. Spent(p) \subseteq Spent(p)'
      BY <1>8a, <3>1
    <3> QED BY <1>2, <3>2, <3>3
  <2>3. CASE ~Exists(i)
    <3>1. pc' = [pc EXCEPT ![t] = "idle"] /\ index' = index
      BY <1>10, <2>3 DEF Rename, Goes
    <3>2. Spent(p) \subseteq Spent(p)'
      BY <3>1 DEF Spent, LogTypeOK
    <3> QED BY <1>2, <1>10, <2>3, <3>2 DEF Rename
  <2> QED BY <2>1, <2>2, <2>3
<1>11. CASE UNCHANGED logVars
  BY <1>2, <1>11 DEF logVars, Spent
<1> QED BY <1>1, <1>3, <1>4, <1>5, <1>6, <1>7, <1>9, <1>10, <1>11 DEF LogNext, Step

LEMMA KeepStep ==
  ASSUME LogTypeOK, NewestFirst, Drift, KeepsNewest, [LogNext]_logVars
  PROVE  KeepsNewest'
<1> USE LogAssumption DEF LogAssumption, LogTypeOK, Name, Exists, NoFile
<1> SUFFICES ASSUME Cardinality(Thread) < MaxLogNum PROVE made' \notin killed'
  BY DEF KeepsNewest
<1>1. CASE UNCHANGED <<made, killed>>
  BY <1>1 DEF KeepsNewest
<1>2. ASSUME NEW t \in Thread, Open(t) PROVE made' \notin killed'
  BY <1>2 DEF Open, KeepsNewest
<1>3. ASSUME NEW t \in Thread, RemoveLast(t) PROVE made' \notin killed'
  <2> DEFINE last == MaxLogNum - 1
  <2>1. CASE dir[last] = made /\ Exists(last)
    <3>1. last <= Cardinality(Spent(last))
      BY <2>1 DEF Drift
    <3>2. Spent(last) \subseteq Thread \ {t}
      <4>1. pc[t] = "remove"
        BY <1>3 DEF RemoveLast
      <4> QED BY <4>1 DEF Spent
    <3>3. /\ IsFiniteSet(Thread \ {t}) /\ Cardinality(Thread) \in Nat
          /\ Cardinality(Thread \ {t}) = Cardinality(Thread) - 1
      BY FS_RemoveElement, FS_CardinalityType
    <3>4. /\ Cardinality(Spent(last)) \in Nat
          /\ Cardinality(Spent(last)) <= Cardinality(Thread \ {t})
      BY <3>2, <3>3, FS_Subset, FS_CardinalityType
    <3> QED BY <3>1, <3>3, <3>4
  <2>2. CASE ~(dir[last] = made /\ Exists(last))
    BY <1>3, <2>2 DEF RemoveLast, KeepsNewest
  <2> QED BY <2>1, <2>2
<1>4. ASSUME NEW t \in Thread, Rename(t) PROVE made' \notin killed'
  <2> DEFINE i == index[t]
  <2>1. i \in Name /\ i + 1 \in Name /\ i < i + 1 /\ made' = made /\ made \notin killed
    BY <1>4, Names DEF Rename, KeepsNewest
  <2>2. CASE Exists(i)
    <3>1. killed' = killed \cup ({dir[i + 1]} \ {NoFile})
      BY <1>4, <2>2 DEF Rename
    <3>2. dir[i + 1] # NoFile => dir[i] > dir[i + 1]
      BY <2>1, <2>2 DEF NewestFirst
    <3>3. dir[i] <= made /\ dir[i] \in Nat /\ dir[i + 1] \in Nat /\ made \in Nat
      BY <2>1
    <3> QED BY <2>1, <3>1, <3>2, <3>3
  <2>3. CASE ~Exists(i)
    BY <1>4, <2>1, <2>3 DEF Rename
  <2> QED BY <2>2, <2>3
<1> QED BY <1>1, <1>2, <1>3, <1>4
        DEF LogNext, Step, logVars, WriteLine, Stat, AccessLast, Access

LEMMA LogStep == LogInv /\ [LogNext]_logVars => LogInv'
BY LogTypeStep, OrderStep, FreshStep, FullStep, DriftStep, KeepStep DEF LogInv

THEOREM LogInvariant == LogSpec => []LogInv
BY LogInitInv, LogStep, PTL DEF LogSpec

\* The directory, the positions of the threads and the sizes keep their types.
THEOREM LogTypesCorrect == LogSpec => []LogTypeOK
<1>1. LogInv => LogTypeOK
  BY DEF LogInv
<1> QED BY <1>1, LogInvariant, PTL

\* The names of the logs are in the order of their age in every interleaving
\* of any number of threads, and no log has two names.
THEOREM NamesInOrder == LogSpec => []NewestFirst
<1>1. LogInv => NewestFirst
  BY DEF LogInv
<1> QED BY <1>1, LogInvariant, PTL

\* A full base.log always has a thread that carries on shifting it.
THEOREM FullLogIsShifted == LogSpec => []FullIsShifted
<1>1. LogInv => FullIsShifted
  BY DEF LogInv
<1> QED BY <1>1, LogInvariant, PTL

\* With more names than threads the newest log is never removed or renamed
\* over: every thread moves it at most once before a newer one is made.
THEOREM NewestSurvives == LogSpec => []KeepsNewest
<1>1. LogInv => KeepsNewest
  BY DEF LogInv
<1> QED BY <1>1, LogInvariant, PTL
=============================================================================
