----------------------------- MODULE LogRotate -----------------------------
(***************************************************************************)
(* include/log.cpp: threads append to base.log and, when it has grown to   *)
(* slMaxLogSize, shift base<i>.log to base<i+1>.log.  Nothing is locked:   *)
(* every call on the file system is a step and others come between.        *)
(*                                                                         *)
(* A file is the number of its creation, so that a larger number is a      *)
(* newer log; a name is an index, 0 for base.log.                          *)
(***************************************************************************)
EXTENDS Integers, FiniteSets

CONSTANTS
  Thread,
  MaxLogNum,   \* siMaxLogNum
  MaxSize,     \* slMaxLogSize, in messages
  MaxFiles     \* files created in all (bounds the model)

NoFile == 0
Name == 0 .. MaxLogNum - 1

ASSUME LogAssumption ==
  /\ IsFiniteSet(Thread)
  /\ MaxLogNum \in Nat /\ MaxLogNum >= 2
  /\ MaxSize \in Nat \ {0} /\ MaxFiles \in Nat \ {0}

VARIABLES
  dir,      \* the file each name stands for
  size,     \* the messages in each file
  made,     \* the files created so far
  pc,       \* where each thread is in VWriteLog and ShiftFiles
  handle,   \* pFile
  index,    \* i of the loop in ShiftFiles
  killed    \* history: files removed or renamed over

logVars == <<dir, size, made, pc, handle, index, killed>>

LogInit ==
  /\ dir = [n \in Name |-> NoFile]
  /\ size = [f \in 1 .. MaxFiles |-> 0]
  /\ made = 0
  /\ pc = [t \in Thread |-> "idle"]
  /\ handle = [t \in Thread |-> NoFile]
  /\ index = [t \in Thread |-> 0]
  /\ killed = {}

Exists(n) == dir[n] # NoFile

Goes(t, p) == pc' = [pc EXCEPT ![t] = p]

-----------------------------------------------------------------------------
(* VWriteLog.                                                              *)

\* fopen with "a+" creates base.log when there is none.  When it fails VWriteLog
\* returns and has changed nothing.
Open(t) ==
  /\ pc[t] = "idle"
  /\ IF Exists(0)
     THEN handle' = [handle EXCEPT ![t] = dir[0]] /\ UNCHANGED <<dir, made>>
     ELSE /\ made < MaxFiles
          /\ made' = made + 1
          /\ dir' = [dir EXCEPT ![0] = made + 1]
          /\ handle' = [handle EXCEPT ![t] = made + 1]
  /\ Goes(t, "write")
  /\ UNCHANGED <<size, index, killed>>

\* fclose writes to the file that was opened, whatever its name is by now.
WriteLine(t) ==
  /\ pc[t] = "write"
  /\ size' = [size EXCEPT ![handle[t]] = @ + 1]
  /\ handle' = [handle EXCEPT ![t] = NoFile]
  /\ Goes(t, "stat")
  /\ UNCHANGED <<dir, made, index, killed>>

-----------------------------------------------------------------------------
(* ShiftFiles.                                                             *)

\* Fault: a log of exactly the largest size is not shifted.
StatStrictly(t) ==
  /\ pc[t] = "stat"
  /\ Goes(t, IF Exists(0) /\ size[dir[0]] > MaxSize THEN "last" ELSE "idle")
  /\ UNCHANGED <<dir, size, made, handle, index, killed>>

Stat(t) ==
  /\ pc[t] = "stat"
  /\ Goes(t, IF Exists(0) /\ size[dir[0]] >= MaxSize THEN "last" ELSE "idle")
  /\ UNCHANGED <<dir, size, made, handle, index, killed>>

StartLoop(t) ==
  /\ Goes(t, "access")
  /\ index' = [index EXCEPT ![t] = MaxLogNum - 2]

\* access(last)
AccessLast(t) ==
  /\ pc[t] = "last"
  /\ IF Exists(MaxLogNum - 1)
     THEN Goes(t, "remove") /\ UNCHANGED index
     ELSE StartLoop(t)
  /\ UNCHANGED <<dir, size, made, handle, killed>>

\* Fault: the name of base.log is still in the buffer.
RemovesBase(t) ==
  /\ pc[t] = "remove"
  /\ IF Exists(0)
     THEN /\ dir' = [dir EXCEPT ![0] = NoFile]
          /\ killed' = killed \cup {dir[0]}
          /\ StartLoop(t)
     ELSE Goes(t, "idle") /\ UNCHANGED <<dir, index, killed>>
  /\ UNCHANGED <<size, made, handle>>

\* remove(last) fails if another thread was faster.
RemoveLast(t) ==
  /\ pc[t] = "remove"
  /\ IF Exists(MaxLogNum - 1)
     THEN /\ dir' = [dir EXCEPT ![MaxLogNum - 1] = NoFile]
          /\ killed' = killed \cup {dir[MaxLogNum - 1]}
          /\ StartLoop(t)
     ELSE Goes(t, "idle") /\ UNCHANGED <<dir, index, killed>>
  /\ UNCHANGED <<size, made, handle>>

NextName(t) ==
  IF index[t] = 0
  THEN Goes(t, "idle") /\ UNCHANGED index
  ELSE Goes(t, "access") /\ index' = [index EXCEPT ![t] = @ - 1]

Access(t) ==
  /\ pc[t] = "access"
  /\ IF Exists(index[t]) THEN Goes(t, "rename") /\ UNCHANGED index ELSE NextName(t)
  /\ UNCHANGED <<dir, size, made, handle, killed>>

\* Fault: the old name is kept.
RenameCopies(t) ==
  LET i == index[t]
  IN  /\ pc[t] = "rename"
      /\ IF Exists(i)
         THEN /\ dir' = [dir EXCEPT ![i + 1] = dir[i]]
              /\ killed' = killed \cup ({dir[i + 1]} \ {NoFile})
              /\ NextName(t)
         ELSE Goes(t, "idle") /\ UNCHANGED <<dir, index, killed>>
      /\ UNCHANGED <<size, made, handle>>

\* rename(i, i + 1) replaces what the new name stood for.
Rename(t) ==
  LET i == index[t]
  IN  /\ pc[t] = "rename"
      /\ IF Exists(i)
         THEN /\ dir' = [dir EXCEPT ![i] = NoFile, ![i + 1] = dir[i]]
              /\ killed' = killed \cup ({dir[i + 1]} \ {NoFile})
              /\ NextName(t)
         ELSE Goes(t, "idle") /\ UNCHANGED <<dir, index, killed>>
      /\ UNCHANGED <<size, made, handle>>

Step(t) ==
  \/ Open(t) \/ WriteLine(t) \/ Stat(t) \/ AccessLast(t) \/ RemoveLast(t)
  \/ Access(t) \/ Rename(t)

LogNext == \E t \in Thread : Step(t)

LogSpec == LogInit /\ [][LogNext]_logVars

-----------------------------------------------------------------------------
LogTypeOK ==
  /\ dir \in [Name -> 0 .. made]
  /\ made \in 0 .. MaxFiles
  /\ size \in [1 .. MaxFiles -> Nat]
  /\ pc \in [Thread -> {"idle", "write", "stat", "last", "remove", "access", "rename"}]
  /\ handle \in [Thread -> 0 .. made]
  /\ index \in [Thread -> 0 .. MaxLogNum - 2]
  /\ killed \subseteq 1 .. made

\* A name with a larger index stands for an older log, and a log has one name,
\* however the shifts of several threads are interleaved.
NewestFirst ==
  \A m, n \in Name : m < n /\ Exists(m) /\ Exists(n) => dir[m] > dir[n]

\* t is about to test the size of base.log or is shifting, and the file it has
\* found is still there: it will not give up at its next step.
Carries(t) ==
  \/ pc[t] \in {"stat", "last", "access"}
  \/ pc[t] = "remove" /\ Exists(MaxLogNum - 1)
  \/ pc[t] = "rename" /\ Exists(index[t])

\* A full base.log is never left behind: a thread that gives up because
\* another was faster leaves that other one to carry on.
FullIsShifted ==
  Exists(0) /\ size[dir[0]] >= MaxSize => \E t \in Thread : Carries(t)

\* With more names than threads the newest log is not lost, however often the
\* threads that found it full shift it.  (mainsvrd.cpp has 10 names and 9 threads;
\* a signal handler that logs while its thread shifts counts as one more.)
KeepsNewest == Cardinality(Thread) < MaxLogNum => made \notin killed
=============================================================================
