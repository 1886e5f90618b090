------------------------------- MODULE FileLock -------------------------------
(* LockFile and UnlockFile (util/env_posix.cc): a table for the threads of  *)
(* a process, a lock of the operating system for processes; and DestroyDB,  *)
(* which deletes the lock's file at its end. The system's lock belongs to a *)
(* file and a process, and goes with any descriptor that the process closes. *)
EXTENDS Integers, FiniteSets

CONSTANTS Processes, Threads, Nobody,
          Destroys,   \* whether a holder may destroy the database
          MaxFiles    \* bound: files that were given the name

VARIABLES pc,      \* of each thread of each process: how far its call is
          fd,      \* the file that the thread has open, 0 for none
          table,   \* the processes whose locked_files_ has the name
          system,  \* for each file that was given the name, the process with its lock
          name     \* the file that has the name, 0 for none

vars == <<pc, fd, table, system, name>>
All == Processes \X Threads
Files == 1..MaxFiles

Init ==
  /\ pc = [t \in All |-> "idle"]
  /\ fd = [t \in All |-> 0]
  /\ table = {}
  /\ system = [f \in Files |-> Nobody]
  /\ name = 1

-----------------------------------------------------------------------------
Goto(t, from, to) == pc[t] = from /\ pc' = [pc EXCEPT ![t] = to]

(* The file is created when there is none.                                  *)
Open(t, f) ==
  /\ Goto(t, "idle", "opened")
  /\ IF name = 0 THEN system[f] = Nobody /\ (\A u \in All : fd[u] # f) /\ name' = f ELSE f = name /\ UNCHANGED name
  /\ fd' = [fd EXCEPT ![t] = f]
  /\ UNCHANGED <<table, system>>

Insert(t) ==
  /\ t[1] \notin table /\ Goto(t, "opened", "inserted")
  /\ table' = table \cup {t[1]}
  /\ UNCHANGED <<fd, system, name>>
AlreadyHeld(t) ==
  /\ t[1] \in table /\ Goto(t, "opened", "refused")
  /\ UNCHANGED <<fd, table, system, name>>

(* Mutant: the answer of fcntl is not looked at.                            *)
LockIt_Unchecked(t) ==
  /\ Goto(t, "inserted", "held")
  /\ system' = [system EXCEPT ![fd[t]] = IF @ = Nobody THEN t[1] ELSE @]
  /\ UNCHANGED <<fd, table, name>>

LockIt(t) ==
  /\ Goto(t, "inserted", "held") /\ system[fd[t]] \in {Nobody, t[1]}
  /\ system' = [system EXCEPT ![fd[t]] = t[1]]
  /\ UNCHANGED <<fd, table, name>>
Denied(t) ==
  /\ Goto(t, "inserted", "denied") /\ system[fd[t]] \notin {Nobody, t[1]}
  /\ UNCHANGED <<fd, table, system, name>>

Released(s, f, p) == [s EXCEPT ![f] = IF @ = p THEN Nobody ELSE @]
CloseWith(t, from, to) ==
  /\ Goto(t, from, to)
  /\ system' = Released(system, fd[t], t[1])
  /\ fd' = [fd EXCEPT ![t] = 0]
  /\ UNCHANGED <<table, name>>
RemoveWith(t, from, to) ==
  /\ Goto(t, from, to)
  /\ table' = table \ {t[1]}
  /\ UNCHANGED <<fd, system, name>>

CloseRefused(t) == CloseWith(t, "refused", "idle")
CloseDenied(t) == CloseWith(t, "denied", "closed")
RemoveDenied(t) == RemoveWith(t, "closed", "idle")

Unlock(t) ==
  /\ \E then \in {"unlocked"} \cup (IF Destroys THEN {"destroying"} ELSE {}) : Goto(t, "held", then)
  /\ system' = Released(system, fd[t], t[1])
  /\ UNCHANGED <<fd, table, name>>
RemoveName(t) == RemoveWith(t, "unlocked", "removed") \/ RemoveWith(t, "destroying", "removed and destroying")
Close(t) == CloseWith(t, "removed", "idle") \/ CloseWith(t, "removed and destroying", "deleting")

(* DestroyDB deletes the lock's file once it has let it go.                 *)
DeleteLock(t) ==
  /\ Goto(t, "deleting", "idle")
  /\ name' = 0
  /\ UNCHANGED <<fd, table, system>>

(* A process ends, or crashes, and another takes its place.                 *)
Exit(p) ==
  /\ \E t \in Threads : pc[<<p, t>>] # "idle"
  /\ pc' = [t \in All |-> IF t[1] = p THEN "idle" ELSE pc[t]]
  /\ fd' = [t \in All |-> IF t[1] = p THEN 0 ELSE fd[t]]
  /\ table' = table \ {p}
  /\ system' = [f \in Files |-> IF system[f] = p THEN Nobody ELSE system[f]]
  /\ UNCHANGED name

Next ==
  \/ \E t \in All : \/ (\E f \in Files : Open(t, f)) \/ Insert(t) \/ AlreadyHeld(t) \/ LockIt(t) \/ Denied(t)
                    \/ CloseRefused(t) \/ CloseDenied(t) \/ RemoveDenied(t)
                    \/ Unlock(t) \/ RemoveName(t) \/ Close(t) \/ DeleteLock(t)
  \/ \E p \in Processes : Exit(p)
Spec == Init /\ [][Next]_vars

-----------------------------------------------------------------------------
Holders == {t \in All : pc[t] = "held"}

(* env_posix.cc:308-311: the table keeps the threads of a process apart,    *)
(* whatever becomes of the system's lock.                                   *)
OnePerProcess == \A t, u \in Holders : t[1] = u[1] => t = u

(* With a single thread to each process, the lock is the abstract one.      *)
Abstract == INSTANCE LockSpec WITH holder <- {t[1] : t \in Holders}
IsLock == Abstract!Spec
=============================================================================
