------------------------------ MODULE MCProgress ------------------------------
(* What must happen in leveldb in the end: calls return, the destructor     *)
(* ends, compactions settle, a database opens again, a search stops, what   *)
(* was scheduled runs.  A behaviour is one part at work, under the fairness *)
(* that the code of that part justifies; the others stay as they begin.     *)
EXTENDS Integers, Sequences, FiniteSets

CONSTANTS Threads, None, Items, p1

VARIABLES part,
  (* WriteQueue *)
  mutex, pc, call, writers, lead, calls, lastSeq, logs, mem, imm, tables, logNumber, level0,
  bgError, scheduled, bg, manual, chunk, closing, acked,
  (* Lsm *)
  seq, smem, simm, files, disk, next, snaps, pins, ptr, seek, smanual, comp, serror,
  (* Recovery *)
  current, manifests, rlogs, rtables, rpc, db, edit, ids, crashes, synced, racked,
  (* MemTable *)
  links, height, heights, w, r,
  (* Background *)
  queue, started, thread, asked, ran

(* Manual compactions beside writes: no signal may be lost.                 *)
CallKinds == {"write", "flush", "range"}
Calls == INSTANCE WriteQueue WITH Kinds <- CallKinds, Faults <- {}, MaxOps <- 3,
  GroupLimit <- 2, BufferSize <- 1, Slowdown <- 1, Stop <- 2, Trigger <- 1, Chunks <- 1

(* The destructor after background errors.                                  *)
CloseKinds == {"write", "sync", "flush"}
CloseFaults == {"sync", "table", "manifest", "work"}
Closing == INSTANCE WriteQueue WITH Kinds <- CloseKinds, Faults <- CloseFaults, MaxOps <- 3,
  GroupLimit <- 2, BufferSize <- 1, Slowdown <- 1, Stop <- 2, Trigger <- 1, Chunks <- 1

(* Seek and size compactions; MaxFiles is never reached.                    *)
Levels == INSTANCE Lsm WITH Keys <- {1, 2}, MaxWrites <- 3, MaxPins <- 0, MaxSnaps <- 0,
  MaxFiles <- 12, NumLevels <- 4, MaxMemLevel <- 1, Trigger <- 1, LevelMax <- 2, FileSize <- 9,
  GrandLimit <- 1, ExpandLimit <- 9, Deletes <- BOOLEAN, Seeks <- TRUE, Begins <- {},
  Ends <- {}, Errors <- FALSE,
  mem <- smem, imm <- simm, manual <- smanual, bgError <- serror

(* Opening is attempted until it succeeds.                                  *)
Restart == INSTANCE Recovery WITH MaxWrites <- 2, MaxNumber <- 20, MaxCrashes <- 1,
  Power <- FALSE, Reuse <- FALSE, Errors <- TRUE,
  logs <- rlogs, tables <- rtables, pc <- rpc, acked <- racked

(* A reader's steps are fair, the writer's are not.                         *)
List == INSTANCE MemTable WITH Users <- {1}, LastSeq <- 2, MaxHeight <- 2, Readers <- {p1},
  next <- links

Work == INSTANCE Background

-----------------------------------------------------------------------------
queueVars == <<mutex, pc, call, writers, lead, calls, lastSeq, logs, mem, imm, tables,
               logNumber, level0, bgError, scheduled, bg, manual, chunk, closing, acked>>
levelVars == <<seq, smem, simm, files, disk, next, snaps, pins, ptr, seek, smanual, comp, serror>>
restartVars == <<current, manifests, rlogs, rtables, rpc, db, edit, ids, crashes, synced, racked>>
listVars == <<links, height, heights, w, r>>
workVars == <<queue, started, thread, asked, ran>>
vars == <<part, queueVars, levelVars, restartVars, listVars, workVars>>

Init ==
  /\ part \in {"calls", "closing", "levels", "restart", "list", "work"}
  /\ Calls!Init /\ Levels!Init /\ Restart!Init /\ List!Init /\ Work!Init

Next ==
  /\ UNCHANGED part
  /\ \/ part = "calls" /\ Calls!Next
        /\ UNCHANGED <<levelVars, restartVars, listVars, workVars>>
     \/ part = "closing" /\ Closing!Next
        /\ UNCHANGED <<levelVars, restartVars, listVars, workVars>>
     \/ part = "levels" /\ Levels!Next
        /\ UNCHANGED <<queueVars, restartVars, listVars, workVars>>
     \/ part = "restart" /\ Restart!Next
        /\ UNCHANGED <<queueVars, levelVars, listVars, workVars>>
     \/ part = "list" /\ List!Next
        /\ UNCHANGED <<queueVars, levelVars, restartVars, workVars>>
     \/ part = "work" /\ Work!Next
        /\ UNCHANGED <<queueVars, levelVars, restartVars, listVars>>

-----------------------------------------------------------------------------
(* Threads run, the mutex is granted in the end, and a compaction's input   *)
(* is finite; nobody has to call, to write, to crash or to close.           *)
ThreadStep(t) ==
  \/ part = "calls" /\ Calls!ThreadStep(t)
  \/ part = "closing" /\ Closing!ThreadStep(t)
BackgroundStep ==
  \/ part = "calls" /\ Calls!BackgroundStep
  \/ part = "closing" /\ Closing!BackgroundStep
CompactionWorked ==
  \/ part = "calls" /\ Calls!CompactionWorked
  \/ part = "closing" /\ Closing!CompactionWorked
Closed ==
  \/ part = "calls" /\ Calls!Closed
  \/ part = "closing" /\ Closing!Closed

Fairness ==
  /\ \A t \in Threads : SF_queueVars(ThreadStep(t))
  /\ SF_queueVars(BackgroundStep) /\ SF_queueVars(CompactionWorked)
  /\ WF_queueVars(Closed)
  /\ \/ []<>~(part = "levels" /\ Levels!HasWork)
     \/ []<><<Levels!Background>>_levelVars
  /\ WF_restartVars(part = "restart" /\ Restart!Opening)
  /\ WF_listVars(part = "list" /\ List!Walk(p1))
  /\ WF_workVars(part = "work" /\ Work!Wait)
  /\ WF_workVars(part = "work" /\ Work!Take)
  /\ WF_workVars(part = "work" /\ Work!Return)

FairSpec == Init /\ [][Next]_vars /\ Fairness

(* Every call returns and the destructor ends: no signal is lost and nobody *)
(* waits for what no background work will do.  Once clients stop writing,   *)
(* compactions settle.  A database opens again however often opening was    *)
(* interrupted; a search ends that the writer never waits for; every item   *)
(* that was scheduled runs.                                                 *)
MakesProgress ==
  /\ Calls!CallsReturn /\ Calls!CloseEnds
  /\ part = "levels" => Levels!Settles
  /\ part = "restart" => Restart!OpensAgain
  /\ List!SearchEnds
  /\ Work!Runs
=============================================================================
