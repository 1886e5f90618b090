------------------------------- MODULE ReadFiles -------------------------------
(* Files open for reading (util/env_posix.cc): mapped into memory while the *)
(* first limiter allows it, held by a descriptor while the second does, and *)
(* opened again for each read otherwise.                                    *)
EXTENDS Integers, FiniteSets

CONSTANTS Threads,
          MmapLimit, FdLimit,   \* MaxMmaps, MaxOpenFiles
          MaxFiles              \* bound: files open at a time

VARIABLES allowed,   \* of each limiter
          pc,        \* how far each thread's call is
          files,     \* how many are open in each way
          fds        \* descriptors in use

vars == <<allowed, pc, files, fds>>
Kinds == {"mmap", "fd", "temporary"}

Init ==
  /\ allowed = [mmap |-> MmapLimit, fd |-> FdLimit]
  /\ pc = [t \in Threads |-> "idle"]
  /\ files = [k \in Kinds |-> 0]
  /\ fds = 0

Goto(t, from, to) == pc[t] = from /\ pc' = [pc EXCEPT ![t] = to]

-----------------------------------------------------------------------------
(* Limiter::Acquire: a look without the mutex, then another with it.        *)
Looks(t, l, from, some, none) ==
  Goto(t, from, IF allowed[l] <= 0 THEN none ELSE some) /\ UNCHANGED <<allowed, files, fds>>

Takes(t, l, from, got, none) ==
  /\ Goto(t, from, IF allowed[l] <= 0 THEN none ELSE got)
  /\ allowed' = [allowed EXCEPT ![l] = IF @ <= 0 THEN @ ELSE @ - 1]
  /\ UNCHANGED <<files, fds>>
Release(l) == allowed' = [allowed EXCEPT ![l] = @ + 1]

(* NewRandomAccessFile                                                      *)
Open(t) ==
  /\ Cardinality({u \in Threads : pc[u] # "idle"}) + files["mmap"] + files["fd"] + files["temporary"] < MaxFiles
  /\ Goto(t, "idle", "opened")
  /\ fds' = fds + 1
  /\ UNCHANGED <<allowed, files>>
TryMmap(t) == Looks(t, "mmap", "opened", "mmap?", "no mmap") \/ Takes(t, "mmap", "mmap?", "mmap", "no mmap")

(* The file is mapped, or its size or the mapping fails; its descriptor is  *)
(* closed in any case, and then the limiter has its own back.               *)
Map(t) ==
  /\ \/ Goto(t, "mmap", "idle") /\ files' = [files EXCEPT !["mmap"] = @ + 1]
     \/ Goto(t, "mmap", "failed") /\ UNCHANGED files
  /\ fds' = fds - 1
  /\ UNCHANGED allowed
GiveBack(t) == Goto(t, "failed", "idle") /\ Release("mmap") /\ UNCHANGED <<files, fds>>

(* PosixRandomAccessFile                                                    *)
TryFd(t) == Looks(t, "fd", "no mmap", "fd?", "no fd") \/ Takes(t, "fd", "fd?", "fd", "no fd")
Keep(t) == Goto(t, "fd", "idle") /\ files' = [files EXCEPT !["fd"] = @ + 1] /\ UNCHANGED <<allowed, fds>>
CloseAtOnce(t) ==
  /\ Goto(t, "no fd", "idle")
  /\ files' = [files EXCEPT !["temporary"] = @ + 1] /\ fds' = fds - 1
  /\ UNCHANGED allowed
OpenToRead(t) ==
  /\ files["temporary"] > 0 /\ Goto(t, "idle", "reading")
  /\ fds' = fds + 1
  /\ UNCHANGED <<allowed, files>>
CloseRead(t) == Goto(t, "reading", "idle") /\ fds' = fds - 1 /\ UNCHANGED <<allowed, files>>

(* The destructors: a file is no longer read then.                          *)
CloseMmap(t) ==
  /\ files["mmap"] > 0 /\ Goto(t, "idle", "idle")
  /\ files' = [files EXCEPT !["mmap"] = @ - 1] /\ Release("mmap")
  /\ UNCHANGED fds
CloseFd(t) ==
  /\ files["fd"] > 0 /\ Goto(t, "idle", "idle")
  /\ files' = [files EXCEPT !["fd"] = @ - 1] /\ Release("fd")
  /\ fds' = fds - 1
CloseTemporary(t) ==
  /\ files["temporary"] > Cardinality({u \in Threads : pc[u] = "reading"}) /\ Goto(t, "idle", "idle")
  /\ files' = [files EXCEPT !["temporary"] = @ - 1]
  /\ UNCHANGED <<allowed, fds>>

Next ==
  \E t \in Threads :
    \/ Open(t) \/ TryMmap(t) \/ Map(t) \/ GiveBack(t) \/ TryFd(t) \/ Keep(t) \/ CloseAtOnce(t)
    \/ OpenToRead(t) \/ CloseRead(t) \/ CloseMmap(t) \/ CloseFd(t) \/ CloseTemporary(t)
Spec == Init /\ [][Next]_vars

-----------------------------------------------------------------------------
At(s) == Cardinality({t \in Threads : pc[t] \in s})

(* env_posix.cc:41-44: no more files are mapped, and no more descriptors    *)
(* held, than the limits, and none of them is lost on a failed open; each   *)
(* call in progress has one descriptor more at most.                        *)
Balanced ==
  /\ allowed["mmap"] >= 0 /\ allowed["mmap"] + files["mmap"] + At({"mmap", "failed"}) = MmapLimit
  /\ allowed["fd"] >= 0 /\ allowed["fd"] + files["fd"] + At({"fd"}) = FdLimit
  /\ fds <= FdLimit + Cardinality(Threads)

=============================================================================
