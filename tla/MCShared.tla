------------------------------- MODULE MCShared -------------------------------
(* What threads, processes and clients of leveldb share: part is the object *)
(* that a behaviour uses, and the others stay as they begin.                *)
EXTENDS Integers, Sequences, FiniteSets

VARIABLES part,
  shard, open, rd, reads,                              \* LRUCache, TableCache
  next, height, heights, w, r,                         \* MemTable
  history, view, pending, releasing, done, reader,     \* AtomicPointer
  blocks, ptr, left, usage, chunks,                    \* Arena
  lpc, fd, table, system, name,                        \* FileLock
  queue, started, thread, asked, ran,                  \* Background
  allowed, pc, files, fds,                             \* ReadFiles
  held, reps, strings, freedTwice, errptr, options, using, snapshot,
  store, kept, refuses, written, views, batch, answer  \* CApi

-----------------------------------------------------------------------------
(* A shard of a cache: keys 1 and 2 have the same hash, 3 shares their      *)
(* chain until a resize.                                                    *)
One == {0}
Three == {1, 2, 3}
Two == {1, 2}
Just1 == {1}
AllInOne == [k \in Three |-> 0]
Colliding == [k \in Three |-> IF k <= 2 THEN 1 ELSE k]
Cache == INSTANCE LRUCache WITH Keys <- Three, Shards <- One, ShardOf <- AllInOne, HashOf <- Colliding,
  Capacity <- 2, MinLength <- 1, Charges <- Two, MaxHandles <- 2, MaxEntries <- 3

(* Three readers of two files, a cache with room for one table.             *)
TwoInOne == [k \in Two |-> 0]
Apart == [k \in Two |-> k]
ThreeReaders == {"r1", "r2", "r3"}
Tables == INSTANCE TableCache WITH Keys <- Two, Shards <- One, ShardOf <- TwoInOne, HashOf <- Apart,
  Capacity <- 1, MinLength <- 1, Charges <- Just1, MaxHandles <- 3, MaxEntries <- 5,
  Readers <- ThreeReaders, MaxReads <- 5, Failures <- 1

(* Two user keys, up to two entries, one reader.                            *)
OneReader == {"r1"}
List == INSTANCE MemTable WITH Users <- Two, LastSeq <- 2, MaxHeight <- 2, Readers <- OneReader

(* A node of two levels, one of one level behind it, one between them; three *)
(* searches.                                                                *)
ThreeInserts == <<<<1, 2>>, <<3, 1>>, <<2, 2>>>>
Weak == INSTANCE AtomicPointer WITH Inserts <- ThreeInserts, Readers <- OneReader, MaxSearches <- 3, r <- reader

(* Blocks of 16 bytes; sizes below, at and above a quarter of one, and more. *)
Asked == {1, 3, 4, 5, 20}
Memory == INSTANCE Arena WITH BlockSize <- 16, Align <- 4, PointerSize <- 2, Sizes <- Asked, MaxChunks <- 5

(* Three processes with a thread each; two with two threads each, which may *)
(* destroy the database.                                                    *)
ThreeProcesses == {"p1", "p2", "p3"}
TwoProcesses == {"p1", "p2"}
OneThread == {"t1"}
TwoThreads == {"t1", "t2"}
Among == INSTANCE FileLock WITH Processes <- ThreeProcesses, Threads <- OneThread,
  Nobody <- "nobody", Destroys <- FALSE, MaxFiles <- 1, pc <- lpc
Within == INSTANCE FileLock WITH Processes <- TwoProcesses, Threads <- TwoThreads,
  Nobody <- "nobody", Destroys <- TRUE, MaxFiles <- 1, pc <- lpc

Items == {"i1", "i2", "i3", "i4"}
Work == INSTANCE Background

(* One mapping, two descriptors, five files.                                *)
ThreeThreads == {"t1", "t2", "t3"}
Files == INSTANCE ReadFiles WITH Threads <- ThreeThreads, MmapLimit <- 1, FdLimit <- 2, MaxFiles <- 5

(* The handles that reading and writing take; and every other handle.       *)
OneKey == {"k1"}
OneValue == {"v1"}
DataHandles == {"options", "readoptions", "batch"}
OtherHandles == {"cache", "env", "options"}
Data == INSTANCE CApi WITH Keys <- OneKey, Values <- OneValue, Simple <- DataHandles, MaxOps <- 1
Handles == INSTANCE CApi WITH Keys <- OneKey, Values <- OneValue, Simple <- OtherHandles, MaxOps <- 0

ASSUME Cache!CacheAssumption /\ Tables!CacheAssumption /\ Memory!ArenaAssumption

-----------------------------------------------------------------------------
cacheVars == <<shard, open>>
readVars == <<rd, reads>>
listVars == <<next, height, heights, w, r>>
weakVars == <<history, view, pending, releasing, done, reader>>
memoryVars == <<blocks, ptr, left, usage, chunks>>
lockVars == <<lpc, fd, table, system, name>>
workVars == <<queue, started, thread, asked, ran>>
fileVars == <<allowed, pc, files, fds>>
clientVars == <<held, reps, strings, freedTwice, errptr, options, using, snapshot,
                store, kept, refuses, written, views, batch, answer>>
vars == <<part, cacheVars, readVars, listVars, weakVars, memoryVars, lockVars, workVars, fileVars, clientVars>>

Init ==
  /\ part \in {"cache", "tables", "list", "weak", "memory", "processes", "threads", "work", "files", "data", "handles"}
  /\ Tables!TInit
  /\ List!Init /\ Weak!Init /\ Memory!Init
  /\ IF part = "threads" THEN Within!Init ELSE Among!Init
  /\ Work!Init /\ Files!Init /\ Data!Init

Next ==
  /\ UNCHANGED part
  /\ \/ /\ part = "cache" /\ Cache!Next
        /\ UNCHANGED <<readVars, listVars, weakVars, memoryVars, lockVars, workVars, fileVars, clientVars>>
     \/ /\ part = "tables" /\ Tables!TNext
        /\ UNCHANGED <<listVars, weakVars, memoryVars, lockVars, workVars, fileVars, clientVars>>
     \/ /\ part = "list" /\ List!Next
        /\ UNCHANGED <<cacheVars, readVars, weakVars, memoryVars, lockVars, workVars, fileVars, clientVars>>
     \/ /\ part = "weak" /\ Weak!Next
        /\ UNCHANGED <<cacheVars, readVars, listVars, memoryVars, lockVars, workVars, fileVars, clientVars>>
     \/ /\ part = "memory" /\ Memory!Next
        /\ UNCHANGED <<cacheVars, readVars, listVars, weakVars, lockVars, workVars, fileVars, clientVars>>
     \/ /\ \/ part = "processes" /\ Among!Next
           \/ part = "threads" /\ Within!Next
        /\ UNCHANGED <<cacheVars, readVars, listVars, weakVars, memoryVars, workVars, fileVars, clientVars>>
     \/ /\ part = "work" /\ Work!Next
        /\ UNCHANGED <<cacheVars, readVars, listVars, weakVars, memoryVars, lockVars, fileVars, clientVars>>
     \/ /\ part = "files" /\ Files!Next
        /\ UNCHANGED <<cacheVars, readVars, listVars, weakVars, memoryVars, lockVars, workVars, clientVars>>
     \/ /\ \/ part = "data" /\ Data!Next
           \/ part = "handles" /\ Handles!Next
        /\ UNCHANGED <<cacheVars, readVars, listVars, weakVars, memoryVars, lockVars, workVars, fileVars>>

Spec == Init /\ [][Next]_vars

-----------------------------------------------------------------------------
(* cache.h:25-33: a shard is the cache that CacheSpec describes, whatever   *)
(* the order of the calls; one that is destroyed is taken for closed.       *)
CacheKeepsPromise ==
  Cache!Promise!Init /\ [][part = "cache" => [Cache!Promise!Next]_(Cache!Promise!vars)]_vars

(* cache.cc:28-36, table_cache.cc:30-33: what the cache counts is what it   *)
(* holds, lists and table agree, and the deleter is called once for each    *)
(* entry; no file is closed while a reader uses its table, and none is      *)
(* left open without a user or a place in the cache.                        *)
CacheAgrees ==
  /\ part = "cache" => Cache!UsageRight /\ Cache!ListsRight /\ Cache!TypeOK
  /\ part = "tables" => Tables!InUseOpen /\ Tables!NoneLost

(* skiplist.h:16-28, memtable.h:52-55, arena.h:21-25: while an entry is     *)
(* added, a reader finds what its snapshot covers; in memory that is weakly *)
(* ordered it gets no node before its key and links are there; no two       *)
(* chunks of the arena overlap and its usage is counted.                    *)
ReadersFind ==
  /\ part = "list" => List!LevelsNest /\ List!SearchRight /\ List!SnapshotRead
  /\ part = "weak" => Weak!Initialised /\ Weak!FoundAgain
  /\ part = "memory" => Memory!Disjoint /\ Memory!UsageCovers

(* env.h:107-133, env_posix.cc:41-44: the lock of a database is a lock      *)
(* among processes of one thread, and keeps the threads of a process apart; *)
(* background work runs once and in order; mappings and descriptors stay    *)
(* within their limits and none is lost on a failed open.                   *)
SystemShared ==
  /\ part = "processes" => Among!Abstract!Init
  /\ [][part = "processes" => [Among!Abstract!Next]_{t[1] : t \in Among!Holders}]_vars
  /\ [](/\ part = "threads" => Within!OnePerProcess
        /\ part = "work" => Work!InOrder
        /\ part = "files" => Files!Balanced)

(* c.h:24-33, db_impl.cc:1236-1241: what exists is what the client has a    *)
(* handle of or was given, whatever calls failed; only a call that failed   *)
(* sets the error, and nobody sees its updates while the database is open;  *)
(* those of one write whose sync failed may be there when it is opened      *)
(* again, no others; a read shows the store of the moment or the snapshot.  *)
ClientOwns ==
  /\ [](/\ part = "handles" => Handles!Owned
        /\ part = "data" => Data!Owned /\ Data!Certain)
  /\ [][part = "data" =>
         /\ errptr' # errptr => errptr' = Data!None \/ answer'.failed
         /\ answer'.failed => errptr' # Data!None /\ store' = store
         /\ answer'.call = "get" /\ ~answer'.failed =>
              /\ answer'.value = (IF snapshot = {} THEN store ELSE views["snapshot"])[answer'.key]
              /\ errptr' = errptr]_vars
=============================================================================
