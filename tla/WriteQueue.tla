----------------------------- MODULE WriteQueue -----------------------------
(* leveldb's write path and the background work it waits for               *)
(* (db/db_impl.cc): client threads in DBImpl::Write, TEST_CompactMemTable  *)
(* and TEST_CompactRange, one background thread, one mutex, and condition  *)
(* variables whose signals reach only threads that are already waiting.    *)
(* A step is what a thread does between two points where it gives up the   *)
(* mutex or touches a file.                                                *)
EXTENDS Naturals, Sequences, FiniteSets, SequencesExt

CONSTANTS
  Threads,          \* client threads
  None,             \* no thread, no memtable
  Kinds,            \* what clients call: "write", "sync", "flush", "range"
  Faults,           \* "append", "sync", "newlog", "table", "manifest", "work"
  MaxOps,           \* bound: calls issued in a behaviour
  GroupLimit,       \* max_size of a group of batches
  BufferSize,       \* write_buffer_size, in batches
  Slowdown, Stop,   \* config::kL0_SlowdownWritesTrigger, kL0_StopWritesTrigger
  Trigger,          \* config::kL0_CompactionTrigger
  Chunks            \* bound: compactions a manual compaction is made of

AllKinds == {"write", "sync", "flush", "range"}
AllFaults == {"append", "sync", "newlog", "table", "manifest", "work"}

ASSUME QueueAssumption ==
  /\ None \notin Threads /\ \A ids \in SUBSET (1..MaxOps) : None # ids
  /\ Kinds \subseteq AllKinds /\ Faults \subseteq AllFaults
  /\ {MaxOps, GroupLimit, BufferSize, Slowdown, Stop, Trigger, Chunks} \subseteq Nat
  /\ Trigger <= Slowdown /\ Slowdown <= Stop /\ 0 < Trigger /\ 0 < GroupLimit

VARIABLES
  mutex,      \* the client thread that holds mutex_ between two steps
  pc,         \* where each client thread is
  call,       \* its call: kind, id, and what its Writer holds (done, ok)
  writers,    \* writers_
  lead,       \* the front writer's locals: force, delay, group, pop, ok
  calls,      \* calls issued so far; the next id
  lastSeq,    \* versions_->LastSequence()
  logs,       \* the log files in the order of their numbers, the last one current:
              \* their records and how many of them are synced
  mem, imm,   \* ids in the memtables; imm is None when there is none
  tables,     \* ids in the tables of the current version
  logNumber,  \* versions_->LogNumber(): older log files are deleted
  level0,     \* versions_->NumLevelFiles(0)
  bgError,    \* bg_error_ is not ok
  scheduled,  \* bg_compaction_scheduled_
  bg,         \* the background thread: pc, whether CompactMemTable was called
              \* from DoCompactionWork, level-0 inputs, manual compaction
  manual,     \* manual_compaction_, as the thread it belongs to
  chunk,      \* CompactRange calls each manual compaction needs; 0 is done
  closing,    \* the destructor: "open", "closing", "closed"
  acked       \* history: ids whose call returned ok

dbVars == <<lastSeq, logs, mem, imm, tables, logNumber, level0>>
bgVars == <<scheduled, bg, manual, chunk>>
vars == <<mutex, pc, call, writers, lead, calls, dbVars, bgError, bgVars,
          closing, acked>>

NoCall == [kind |-> "none", id |-> 0, done |-> FALSE, ok |-> TRUE]
NoLead == [force |-> FALSE, delay |-> FALSE, group |-> {}, pop |-> 1, ok |-> TRUE]
IdleBg == [pc |-> "idle", nested |-> FALSE, inputs |-> 0, manual |-> None]
EmptyLog == [recs |-> <<>>, synced |-> 0]

Fails(f) == IF f \in Faults THEN BOOLEAN ELSE {FALSE}
IsWrite(t) == call[t].kind \in {"write", "sync"}

(* DB::Open of an empty database has made log 1 the current one.           *)
Init ==
  /\ mutex = None
  /\ pc = [t \in Threads |-> "idle"]
  /\ call = [t \in Threads |-> NoCall]
  /\ writers = <<>> /\ lead = NoLead /\ calls = 0
  /\ lastSeq = 0 /\ logs = <<EmptyLog>> /\ logNumber = 1
  /\ mem = {} /\ imm = None /\ tables = {} /\ level0 = 0
  /\ bgError = FALSE /\ scheduled = FALSE /\ bg = IdleBg
  /\ manual = None /\ chunk = [t \in Threads |-> 0]
  /\ closing = "open" /\ acked = {}

-----------------------------------------------------------------------------
(* Condition variables.  A thread asleep on its Writer's cv has pc "wait";  *)
(* the three places that sleep on bg_cv_ have pcs of their own.            *)
Woken(p) ==
  CASE p = "roomSleep" -> "room"
    [] p = "immSleep" -> "imm"
    [] p = "rangeSleep" -> "range"
    [] OTHER -> p

(* bg_cv_.SignalAll().                                                     *)
SignalAll(pcs) == [t \in Threads |-> Woken(pcs[t])]

(* versions_->NeedsCompaction(): here, of level 0 only.                    *)
NeedsCompaction(l0) == l0 >= Trigger

(* MaybeScheduleCompaction: whether work is scheduled afterwards.          *)
MaybeScheduleCompaction(sched, frozen, man, l0, err) ==
  \/ sched
  \/ /\ closing = "open" /\ ~err
     /\ frozen # None \/ man # None \/ NeedsCompaction(l0)

(* The same with env_->Schedule: the background thread will call BGWork.   *)
Schedule(frozen, man) ==
  LET sched == MaybeScheduleCompaction(scheduled, frozen, man, level0, bgError)
  IN  /\ scheduled' = sched
      /\ bg' = IF sched /\ ~scheduled THEN [IdleBg EXCEPT !.pc = "call"] ELSE bg

-----------------------------------------------------------------------------
(* DBImpl::Write.                                                          *)

(* Join the queue; sleep unless first.  A NULL batch (flush, range) forces *)
(* the memtable out and is not delayed.                                    *)
Enter(t, kind) ==
  /\ mutex = None /\ closing = "open" /\ pc[t] = "idle" /\ calls < MaxOps
  /\ calls' = calls + 1
  /\ call' = [call EXCEPT ![t] = [kind |-> kind, id |-> calls + 1,
                                  done |-> FALSE, ok |-> TRUE]]
  /\ writers' = Append(writers, t)
  /\ IF writers = <<>>
     THEN /\ pc' = [pc EXCEPT ![t] = "room"] /\ mutex' = t
          /\ lead' = [NoLead EXCEPT !.force = kind \in {"flush", "range"},
                                    !.delay = kind \in {"write", "sync"}]
     ELSE /\ pc' = [pc EXCEPT ![t] = "wait"]
          /\ UNCHANGED <<mutex, lead>>
  /\ \E n \in 1..(Chunks + 1) :
       chunk' = IF kind = "range" THEN [chunk EXCEPT ![t] = n] ELSE chunk
  /\ UNCHANGED <<dbVars, bgError, scheduled, bg, manual, closing, acked>>

(* Where a thread goes on when its Write has returned.                     *)
Continue(t, ok) ==
  IF ok /\ call[t].kind \in {"flush", "range"} THEN "imm"
  ELSE IF call[t].kind = "range" THEN "range" ELSE "idle"

(* Signalled: already done by another thread, or first, or sleep again.    *)
Recheck(t) ==
  /\ mutex = None /\ pc[t] = "check"
  /\ \/ /\ call[t].done
        /\ pc' = [pc EXCEPT ![t] = Continue(t, call[t].ok)]
        /\ acked' = IF call[t].ok /\ IsWrite(t) THEN acked \cup {call[t].id} ELSE acked
        /\ UNCHANGED <<mutex, lead>>
     \/ /\ ~call[t].done /\ t = Head(writers)
        /\ pc' = [pc EXCEPT ![t] = "room"] /\ mutex' = t
        /\ lead' = [NoLead EXCEPT !.force = ~IsWrite(t), !.delay = IsWrite(t)]
        /\ UNCHANGED acked
     \/ /\ ~call[t].done /\ t # Head(writers)
        /\ pc' = [pc EXCEPT ![t] = "wait"]
        /\ UNCHANGED <<mutex, lead, acked>>
  /\ UNCHANGED <<call, writers, calls, dbVars, bgError, bgVars, closing>>

(* BuildBatchGroup: how many writers the front one answers for, and the    *)
(* ids of their batches.  The order of updates in a batch is WriteBatch's. *)
BuildBatchGroup(q) ==
  LET Batches(n) == {i \in 1..n : IsWrite(q[i])}
      Joins(i) == /\ call[q[i]].kind = "sync" => call[q[1]].kind = "sync"
                  /\ Cardinality(Batches(i)) <= GroupLimit
      pop == Max({n \in 1..Len(q) : \A i \in 2..n : Joins(i)})
  IN  [pop |-> pop, ids |-> {call[q[i]].id : i \in Batches(pop)}]

(* The writers of the group and the one behind it are signalled, and t     *)
(* leaves; of those in the queue only t is not waiting or signalled.       *)
Answered(t, pop, ok, pcs) ==
  [u \in Threads |->
     IF u = t THEN Continue(t, ok)
     ELSE IF \E i \in 1..Len(writers) : i <= pop + 1 /\ writers[i] = u THEN "check"
     ELSE pcs[u]]

(* The loop that pops the queue, and the return.                           *)
Return(t, pop, ok, pcs) ==
  /\ writers' = SubSeq(writers, pop + 1, Len(writers))
  /\ pc' = Answered(t, pop, ok, pcs)
  /\ call' = [u \in Threads |->
       IF u # t /\ \E i \in 1..pop : writers[i] = u
       THEN [call[u] EXCEPT !.done = TRUE, !.ok = ok] ELSE call[u]]
  /\ acked' = IF ok /\ IsWrite(t) THEN acked \cup {call[t].id} ELSE acked
  /\ lead' = NoLead /\ mutex' = None

-----------------------------------------------------------------------------
(* MakeRoomForWrite: the alternatives of its loop, in their order.         *)
HasMutex(t) == mutex = t \/ (mutex = None /\ pc[t] = "room")
InRoom(t) == pc[t] = "room" /\ HasMutex(t)
Delays == lead.delay /\ level0 >= Slowdown
Fits == ~lead.force /\ Cardinality(mem) <= BufferSize

RoomError(t) ==
  /\ InRoom(t) /\ bgError
  /\ Return(t, 1, FALSE, pc)
  /\ UNCHANGED <<calls, dbVars, bgError, bgVars, closing>>

RoomDelay(t) ==
  /\ InRoom(t) /\ ~bgError /\ Delays
  /\ lead' = [lead EXCEPT !.delay = FALSE]
  /\ mutex' = None
  /\ UNCHANGED <<pc, call, writers, calls, dbVars, bgError, bgVars, closing, acked>>

(* There is room: the group is formed under the mutex, which is then       *)
(* released.  A NULL batch has nothing to log.                             *)
RoomReady(t) ==
  /\ InRoom(t) /\ ~bgError /\ ~Delays /\ Fits
  /\ IF IsWrite(t)
     THEN LET g == BuildBatchGroup(writers)
          IN  /\ lead' = [lead EXCEPT !.group = g.ids, !.pop = g.pop]
              /\ pc' = [pc EXCEPT ![t] = "append"]
              /\ mutex' = None
              /\ UNCHANGED <<call, writers, acked>>
     ELSE Return(t, 1, TRUE, pc)
  /\ UNCHANGED <<calls, dbVars, bgError, bgVars, closing>>

RoomWait(t) ==
  /\ InRoom(t) /\ ~bgError /\ ~Delays /\ ~Fits
  /\ imm # None \/ level0 >= Stop
  /\ pc' = [pc EXCEPT ![t] = "roomSleep"]
  /\ mutex' = None
  /\ UNCHANGED <<call, writers, lead, calls, dbVars, bgError, bgVars, closing, acked>>

(* A new log file and memtable; the loop goes on with the mutex held.      *)
RoomSwitch(t) ==
  /\ InRoom(t) /\ ~bgError /\ ~Delays /\ ~Fits
  /\ imm = None /\ level0 < Stop
  /\ logs' = Append(logs, EmptyLog)
  /\ imm' = mem /\ mem' = {}
  /\ lead' = [lead EXCEPT !.force = FALSE]
  /\ mutex' = t
  /\ Schedule(imm', manual)
  /\ UNCHANGED <<pc, call, writers, calls, lastSeq, tables, logNumber, level0,
                 bgError, manual, chunk, closing, acked>>

(* The new log file cannot be created.                                     *)
RoomNoLog(t) ==
  /\ InRoom(t) /\ ~bgError /\ ~Delays /\ ~Fits
  /\ imm = None /\ level0 < Stop /\ "newlog" \in Faults
  /\ Return(t, 1, FALSE, pc)
  /\ UNCHANGED <<calls, dbVars, bgError, bgVars, closing>>

-----------------------------------------------------------------------------
(* The part of Write that runs without the mutex.                          *)
Current == Len(logs)

(* log_->AddRecord: one record for the group.  A write that fails leaves   *)
(* all of the record in the file, or a part that no reader gets past.      *)
AddRecord(t) ==
  /\ pc[t] = "append"
  /\ \E failed \in Fails("append"), whole \in BOOLEAN :
       /\ ~failed => whole
       /\ logs' = [logs EXCEPT ![Current].recs =
            Append(@, [seq |-> lastSeq + 1, ids |-> lead.group, whole |-> whole])]
       /\ lead' = [lead EXCEPT !.ok = ~failed]
       /\ pc' = [pc EXCEPT ![t] = IF failed THEN "commit"
                                  ELSE IF call[t].kind = "sync" THEN "sync"
                                  ELSE "insert"]
  /\ UNCHANGED <<mutex, call, writers, calls, lastSeq, mem, imm, tables, logNumber,
                 level0, bgError, bgVars, closing, acked>>

SyncLog(t) ==
  /\ pc[t] = "sync"
  /\ \E failed \in Fails("sync") :
       /\ logs' = IF failed THEN logs
                  ELSE [logs EXCEPT ![Current].synced = Len(logs[Current].recs)]
       /\ lead' = [lead EXCEPT !.ok = ~failed]
       /\ pc' = [pc EXCEPT ![t] = IF failed THEN "syncError" ELSE "insert"]
  /\ UNCHANGED <<mutex, call, writers, calls, lastSeq, mem, imm, tables, logNumber,
                 level0, bgError, bgVars, closing, acked>>

InsertInto(t) ==
  /\ pc[t] = "insert"
  /\ mem' = mem \cup lead.group
  /\ pc' = [pc EXCEPT ![t] = "commit"]
  /\ UNCHANGED <<mutex, call, writers, lead, calls, lastSeq, logs, imm, tables,
                 logNumber, level0, bgError, bgVars, closing, acked>>

(* Mutant: a group is counted as one write.                                *)
Commit_One(t) ==
  /\ mutex = None /\ pc[t] \in {"commit", "syncError"}
  /\ LET err == pc[t] = "syncError"
     IN  /\ bgError' = (bgError \/ err)
         /\ Return(t, lead.pop, lead.ok, IF err /\ ~bgError THEN SignalAll(pc) ELSE pc)
  /\ lastSeq' = lastSeq + 1
  /\ UNCHANGED <<calls, logs, mem, imm, tables, logNumber, level0, bgVars, closing>>

(* The mutex again: a failed sync stops all later writes, and the sequence *)
(* numbers are taken whatever happened.                                    *)
Commit(t) ==
  /\ mutex = None /\ pc[t] \in {"commit", "syncError"}
  /\ LET err == pc[t] = "syncError"
     IN  /\ bgError' = (bgError \/ err)
         /\ Return(t, lead.pop, lead.ok, IF err /\ ~bgError THEN SignalAll(pc) ELSE pc)
  /\ lastSeq' = lastSeq + Cardinality(lead.group)
  /\ UNCHANGED <<calls, logs, mem, imm, tables, logNumber, level0, bgVars, closing>>

-----------------------------------------------------------------------------
(* TEST_CompactMemTable waits for the memtable it has forced out.          *)
WaitForMemTable(t) ==
  /\ mutex = None /\ pc[t] = "imm"
  /\ pc' = [pc EXCEPT ![t] =
       IF imm # None /\ ~bgError THEN "immSleep"
       ELSE IF call[t].kind = "range" THEN "range" ELSE "idle"]
  /\ UNCHANGED <<mutex, call, writers, lead, calls, dbVars, bgError, bgVars, closing, acked>>

(* TEST_CompactRange: register the request when nobody else's is, and wait.*)
WaitForRange(t) ==
  /\ mutex = None /\ pc[t] = "range"
  /\ chunk[t] > 0 /\ ~bgError
  /\ pc' = [pc EXCEPT ![t] = "rangeSleep"]
  /\ IF manual = None
     THEN manual' = t /\ Schedule(imm, t)
     ELSE UNCHANGED <<manual, scheduled, bg>>
  /\ UNCHANGED <<mutex, call, writers, lead, calls, dbVars, bgError, chunk, closing, acked>>

(* Its end, which withdraws the request.                                   *)
LeaveRange(t) ==
  /\ mutex = None /\ pc[t] = "range"
  /\ chunk[t] = 0 \/ bgError
  /\ pc' = [pc EXCEPT ![t] = "idle"]
  /\ manual' = IF manual = t THEN None ELSE manual
  /\ UNCHANGED <<mutex, call, writers, lead, calls, dbVars, bgError, scheduled, bg,
                 chunk, closing, acked>>

-----------------------------------------------------------------------------
(* The background thread.                                                  *)

(* Mutant: after an error the work counts as scheduled for good.           *)
EndBackgroundCall_Stuck(l0, frozen, man, err) ==
  /\ scheduled' = (err \/ MaybeScheduleCompaction(FALSE, frozen, man, l0, err))
  /\ bg' = IF scheduled' /\ ~err THEN [IdleBg EXCEPT !.pc = "call"] ELSE IdleBg
  /\ pc' = SignalAll(pc)

(* The end of BackgroundCall, given the state BackgroundCompaction leaves. *)
EndBackgroundCall(l0, frozen, man, err) ==
  LET sched == MaybeScheduleCompaction(FALSE, frozen, man, l0, err)
  IN  /\ scheduled' = sched
      /\ bg' = IF sched THEN [IdleBg EXCEPT !.pc = "call"] ELSE IdleBg
      /\ pc' = SignalAll(pc)

(* BackgroundCall when there is nothing it may or needs to do.             *)
BackgroundNothing ==
  /\ mutex = None /\ bg.pc = "call"
  /\ \/ closing # "open" \/ bgError
     \/ imm = None /\ manual = None /\ ~NeedsCompaction(level0)
  /\ EndBackgroundCall(level0, imm, manual, bgError)
  /\ UNCHANGED <<mutex, call, writers, lead, calls, dbVars, bgError, manual, chunk,
                 closing, acked>>

(* versions_->CompactRange finds nothing (left) to compact.                *)
BackgroundManualDone ==
  /\ mutex = None /\ bg.pc = "call" /\ closing = "open" /\ ~bgError
  /\ imm = None /\ manual # None
  /\ chunk[manual] = 1 \/ level0 = 0
  /\ chunk' = [chunk EXCEPT ![manual] = 0]
  /\ manual' = None
  /\ EndBackgroundCall(level0, imm, None, bgError)
  /\ UNCHANGED <<mutex, call, writers, lead, calls, dbVars, bgError, closing, acked>>

(* WriteLevel0Table starts and releases the mutex: from BackgroundCall, or *)
(* in the middle of a compaction.                                          *)
CompactMemTable ==
  /\ mutex = None /\ imm # None
  /\ \/ bg.pc = "call" /\ closing = "open" /\ ~bgError
     \/ bg.pc = "work"
  /\ bg' = [bg EXCEPT !.pc = "table", !.nested = (bg.pc = "work")]
  /\ UNCHANGED <<mutex, pc, call, writers, lead, calls, dbVars, bgError, scheduled,
                 manual, chunk, closing, acked>>

(* CompactMemTable returns to BackgroundCall or to the compaction.         *)
EndCompactMemTable(l0, frozen, err) ==
  IF bg.nested
  THEN /\ bg' = [bg EXCEPT !.pc = "work"]
       /\ pc' = SignalAll(pc)
       /\ UNCHANGED scheduled
  ELSE EndBackgroundCall(l0, frozen, manual, err)

(* The table is written; the edit goes to the manifest unless it failed.   *)
TableWritten ==
  /\ mutex = None /\ bg.pc = "table"
  /\ \E failed \in Fails("table") :
       IF failed \/ closing # "open"
       THEN bgError' = TRUE /\ EndCompactMemTable(level0, imm, TRUE)
       ELSE /\ bg' = [bg EXCEPT !.pc = "manifest"]
            /\ UNCHANGED <<pc, scheduled, bgError>>
  /\ UNCHANGED <<mutex, call, writers, lead, calls, dbVars, manual, chunk, closing, acked>>

(* Mutant: the log of the memtable that was just filled is dropped too.    *)
MemTableInstalled_NextLog ==
  /\ mutex = None /\ bg.pc = "manifest"
  /\ \E failed \in Fails("manifest"), l0 \in {level0, level0 + 1} :
       IF failed
       THEN /\ bgError' = TRUE /\ EndCompactMemTable(level0, imm, TRUE)
            /\ UNCHANGED dbVars
       ELSE /\ tables' = tables \cup imm /\ imm' = None
            /\ logNumber' = Current + 1 /\ level0' = l0
            /\ EndCompactMemTable(l0, None, bgError)
            /\ UNCHANGED <<bgError, lastSeq, logs, mem>>
  /\ UNCHANGED <<mutex, call, writers, lead, calls, manual, chunk, closing, acked>>

(* LogAndApply returns: the memtable is replaced by the table, at level 0  *)
(* or deeper, and the older log files are not needed any more.             *)
MemTableInstalled ==
  /\ mutex = None /\ bg.pc = "manifest"
  /\ \E failed \in Fails("manifest"), l0 \in {level0, level0 + 1} :
       IF failed
       THEN /\ bgError' = TRUE /\ EndCompactMemTable(level0, imm, TRUE)
            /\ UNCHANGED dbVars
       ELSE /\ tables' = tables \cup imm /\ imm' = None
            /\ logNumber' = Current /\ level0' = l0
            /\ EndCompactMemTable(l0, None, bgError)
            /\ UNCHANGED <<bgError, lastSeq, logs, mem>>
  /\ UNCHANGED <<mutex, call, writers, lead, calls, manual, chunk, closing, acked>>

(* CompactRange or PickCompaction chooses level-0 files; a trivial move of *)
(* one file goes to the manifest at once.                                  *)
StartCompaction ==
  /\ mutex = None /\ bg.pc = "call" /\ closing = "open" /\ ~bgError
  /\ imm = None
  /\ IF manual # None THEN chunk[manual] > 1 ELSE NeedsCompaction(level0)
  /\ \E n \in 1..level0 : \E next \in {"work", "install"} :
       /\ next = "install" => manual = None /\ n = 1
       /\ bg' = [pc |-> next, nested |-> FALSE, inputs |-> n, manual |-> manual]
  /\ UNCHANGED <<mutex, pc, call, writers, lead, calls, dbVars, bgError, scheduled,
                 manual, chunk, closing, acked>>

(* The end of BackgroundCompaction after a compaction of its own.          *)
EndCompaction(l0, failed) ==
  LET err == bgError \/ failed
  IN  /\ bgError' = err
      /\ chunk' = IF bg.manual = None THEN chunk
                  ELSE [chunk EXCEPT ![bg.manual] = IF failed THEN 0 ELSE @ - 1]
      /\ manual' = IF bg.manual = None THEN manual ELSE None
      /\ EndBackgroundCall(l0, imm, IF bg.manual = None THEN manual ELSE None, err)

(* manual_compaction_ is followed at the end of BackgroundCompaction: when *)
(* it has become NULL the process dies there.                              *)
Dereferences == bg.manual # None => manual # None

(* The loop of DoCompactionWork ends; results go to the manifest.          *)
CompactionWorked ==
  /\ mutex = None /\ bg.pc = "work"
  /\ \E failed \in Fails("work") :
       IF failed \/ closing # "open"
       THEN Dereferences /\ EndCompaction(level0, TRUE)
       ELSE /\ bg' = [bg EXCEPT !.pc = "install"]
            /\ UNCHANGED <<pc, scheduled, bgError, manual, chunk>>
  /\ UNCHANGED <<mutex, call, writers, lead, calls, dbVars, closing, acked>>

CompactionInstalled ==
  /\ mutex = None /\ bg.pc = "install" /\ Dereferences
  /\ \E failed \in Fails("manifest") :
       LET l0 == IF failed THEN level0 ELSE level0 - bg.inputs
       IN  /\ EndCompaction(l0, failed)
           /\ level0' = l0
  /\ UNCHANGED <<mutex, call, writers, lead, calls, lastSeq, logs, mem, imm, tables,
                 logNumber, closing, acked>>

-----------------------------------------------------------------------------
(* The destructor: clients have returned; it waits for background work.    *)
Close ==
  /\ mutex = None /\ closing = "open" /\ \A t \in Threads : pc[t] = "idle"
  /\ closing' = "closing"
  /\ UNCHANGED <<mutex, pc, call, writers, lead, calls, dbVars, bgError, bgVars, acked>>

(* Mutant: the destructor waits only for work that is running.             *)
Closed_Early ==
  /\ mutex = None /\ closing = "closing" /\ bg.pc \in {"idle", "call"}
  /\ closing' = "closed"
  /\ UNCHANGED <<mutex, pc, call, writers, lead, calls, dbVars, bgError, bgVars, acked>>

Closed ==
  /\ mutex = None /\ closing = "closing" /\ ~scheduled
  /\ closing' = "closed"
  /\ UNCHANGED <<mutex, pc, call, writers, lead, calls, dbVars, bgError, bgVars, acked>>

ThreadStep(t) ==
  \/ Recheck(t) \/ RoomError(t) \/ RoomDelay(t) \/ RoomReady(t) \/ RoomWait(t)
  \/ RoomSwitch(t) \/ RoomNoLog(t) \/ AddRecord(t) \/ SyncLog(t) \/ InsertInto(t)
  \/ Commit(t) \/ WaitForMemTable(t) \/ WaitForRange(t) \/ LeaveRange(t)

BackgroundStep ==
  \/ BackgroundNothing \/ BackgroundManualDone \/ CompactMemTable \/ TableWritten
  \/ MemTableInstalled \/ StartCompaction \/ CompactionWorked \/ CompactionInstalled

Next ==
  \/ \E t \in Threads : ThreadStep(t) \/ \E kind \in Kinds : Enter(t, kind)
  \/ BackgroundStep
  \/ Close \/ Closed

(* The threads run and the mutex is granted; the input of a compaction is  *)
(* finite, however often the memtable interrupts it; nobody has to call or *)
(* close.                                                                  *)
Fairness ==
  /\ \A t \in Threads : SF_vars(ThreadStep(t))
  /\ SF_vars(BackgroundStep) /\ SF_vars(CompactionWorked)
  /\ WF_vars(Closed)

Spec == Init /\ [][Next]_vars
FairSpec == Spec /\ Fairness

-----------------------------------------------------------------------------
(* Type invariant.                                                         *)
TypeOK ==
  /\ mutex \in Threads \cup {None}
  /\ pc \in [Threads -> {"idle", "wait", "check", "room", "roomSleep", "append",
                         "sync", "syncError", "insert", "commit", "imm",
                         "immSleep", "range", "rangeSleep"}]
  /\ call \in [Threads -> [kind : AllKinds \cup {"none"}, id : 0..MaxOps,
                           done : BOOLEAN, ok : BOOLEAN]]
  /\ writers \in Seq(Threads) /\ IsInjective(writers)
  /\ calls \in 0..MaxOps /\ lastSeq \in 0..MaxOps
  /\ mem \subseteq 1..MaxOps /\ tables \subseteq 1..MaxOps
  /\ imm = None \/ imm \subseteq 1..MaxOps
  /\ logNumber \in 1..Current /\ level0 \in Nat
  /\ bgError \in BOOLEAN /\ scheduled \in BOOLEAN
  /\ bg.pc \in {"idle", "call", "table", "manifest", "work", "install"}
  /\ manual \in Threads \cup {None}
  /\ chunk \in [Threads -> 0..(Chunks + 1)]
  /\ closing \in {"open", "closing", "closed"}

(* What a log file gives back to recovery: the records before the first    *)
(* one that is not whole; after a machine crash, the synced ones of these. *)
Readable(l) ==
  LET recs == logs[l].recs
  IN  {n \in 1..Len(recs) : \A i \in 1..n : recs[i].whole}
IdsOf(l, ns) == UNION {logs[l].recs[n].ids : n \in ns}
Recoverable ==
  tables \cup UNION {IdsOf(l, Readable(l)) : l \in logNumber..Current}
Durable ==
  tables \cup UNION {IdsOf(l, Readable(l) \cap 1..logs[l].synced) : l \in logNumber..Current}

(* A write that was answered ok is in a table or readable in a log file    *)
(* that recovery looks at, whatever background step is under way.          *)
AckedRecoverable == acked \subseteq Recoverable

(* A sync write answered ok, by whichever thread led its group, survives a *)
(* crash of the machine.                                                   *)
SyncedSurvive ==
  \A t \in Threads :
    call[t].kind = "sync" /\ call[t].id \in acked => call[t].id \in Durable

(* Every entry of a memtable is in the log file that belongs to it, so     *)
(* that the file may go exactly when the memtable goes.                    *)
MemTableHasLog ==
  /\ mem \subseteq IdsOf(Current, 1..Len(logs[Current].recs))
  /\ imm # None =>
       /\ Current > logNumber
       /\ imm \subseteq UNION {IdsOf(l, 1..Len(logs[l].recs)) : l \in logNumber..(Current - 1)}

(* What the write queue answered ok is in a table or readable in a log file *)
(* that recovery looks at, and durable there if it was a sync write, at     *)
(* every step of the flushes, compactions and failures in the background.   *)
QueueDurable == TypeOK /\ AckedRecoverable /\ SyncedSurvive /\ MemTableHasLog

(* No two batches in the log files got the same sequence number, failed    *)
(* ones included.                                                          *)
SequenceUnique ==
  \A l, k \in 1..Current :
    \A i \in 1..Len(logs[l].recs), j \in 1..Len(logs[k].recs) :
      <<l, i>> # <<k, j>> =>
        LET r == logs[l].recs[i]
            q == logs[k].recs[j]
        IN  r.seq + Cardinality(r.ids) <= q.seq \/ q.seq + Cardinality(q.ids) <= r.seq

(* Nothing runs, waits or is scheduled when the destructor frees the state.*)
QuietWhenClosed ==
  closing = "closed" =>
    /\ bg.pc = "idle" /\ ~scheduled /\ manual = None
    /\ writers = <<>> /\ \A t \in Threads : pc[t] = "idle"

(* An immutable memtable goes away only into the tables.                   *)
ImmGoesToTable == [][imm # None /\ imm' # imm => imm \subseteq tables']_vars

(* Every call returns: no signal is lost and nobody waits on a condition   *)
(* that no background work will change.                                    *)
CallsReturn == \A t \in Threads : pc[t] # "idle" ~> pc[t] = "idle"

(* The destructor ends.                                                    *)
CloseEnds == closing = "closing" ~> closing = "closed"

=============================================================================
