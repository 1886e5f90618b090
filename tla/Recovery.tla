------------------------------ MODULE Recovery ------------------------------
(* What leveldb leaves on disk and what DB::Open makes of it: log files,    *)
(* MANIFEST files and CURRENT, a process that is killed or a machine that   *)
(* loses power between any two steps, a disk that refuses a write.          *)
(* Directory operations (create, rename, delete) last at once and in order; *)
(* contents last when they are synced, and a crash keeps a prefix of the    *)
(* rest, perhaps with a torn record at its end.  Merging and the choice of  *)
(* levels are in Lsm; here a version is a set of tables.                    *)
EXTENDS Naturals, Sequences, FiniteSets, SequencesExt, FiniteSetsExt, Functions

CONSTANTS
  MaxWrites,   \* bound: writes in a behaviour
  MaxNumber,   \* bound: file numbers
  MaxCrashes,  \* bound: crashes and closings
  Power,       \* whether a crash may lose what was not synced
  Reuse,       \* options.reuse_logs
  Errors       \* whether writing a MANIFEST may fail

RecoveryAssumption ==
  /\ {MaxWrites, MaxNumber, MaxCrashes} \subseteq Nat /\ MaxNumber # 0
  /\ {Power, Reuse, Errors} \subseteq BOOLEAN

VARIABLES
  current,   \* the MANIFEST that CURRENT names; 0 if there is no CURRENT
  manifests, \* MANIFEST files by number: edits and how many are synced
  logs,      \* log files by number: writes and how many are synced
  tables,    \* table files by number: the writes in them
  pc,        \* where the process is
  db,        \* what it has in memory
  edit,      \* the version edit it is about to log
  ids,       \* writes issued so far
  crashes,
  synced,    \* history: synced writes that returned ok
  acked      \* history: all writes that returned ok

disk == <<current, manifests, logs, tables>>
history == <<ids, crashes, synced, acked>>
vars == <<disk, pc, db, edit, history>>

Empty == [n \in {} |-> {}]
Torn == [torn |-> TRUE]
File(recs, n) == [recs |-> recs, synced |-> n]
NoEdit == [log |-> 0, next |-> 0, last |-> 0, add |-> {}, del |-> {}]
NoDb == [mem |-> {}, imm |-> <<>>, ver |-> {}, next |-> 1, log |-> 0, minLog |-> 0,
         manifest |-> 0, last |-> 0, save |-> FALSE, todo |-> {}, error |-> FALSE]

(* What log::Reader returns of a file: nothing at or after a torn record.   *)
Readable(f) ==
  LET t == {n \in DOMAIN f.recs : f.recs[n] = Torn}
  IN  IF t = {} THEN f.recs ELSE SubSeq(f.recs, 1, Min(t) - 1)

Put(files, n, f) == [m \in DOMAIN files \cup {n} |-> IF m = n THEN f ELSE files[m]]
AppendTo(files, n, r) == [files EXCEPT ![n].recs = Append(@, r)]
SyncFile(files, n) == [files EXCEPT ![n].synced = Len(files[n].recs)]

Init ==
  /\ current = 0 /\ manifests = Empty /\ logs = Empty /\ tables = Empty
  /\ pc = "down" /\ db = NoDb /\ edit = NoEdit
  /\ ids = 0 /\ crashes = 0 /\ synced = {} /\ acked = {}

-----------------------------------------------------------------------------
(* DB::Open.                                                               *)

(* NewDB: a first MANIFEST, closed but not synced, then CURRENT.            *)
NewManifest ==
  /\ pc = "down" /\ current = 0
  /\ manifests' = Put(manifests, 1, File(<<[NoEdit EXCEPT !.next = 2]>>, 0))
  /\ pc' = "newdb" /\ UNCHANGED <<current, logs, tables, db, edit, history>>

SetFirstCurrent ==
  /\ pc = "newdb" /\ current' = 1 /\ pc' = "down"
  /\ UNCHANGED <<manifests, logs, tables, db, edit, history>>

(* The version that a sequence of edits builds: the tables that one adds    *)
(* and no later one deletes.                                                *)
Builder(edits) ==
  {n \in UNION {edits[i].add : i \in DOMAIN edits} :
     \E i \in DOMAIN edits : /\ n \in edits[i].add
                             /\ \A j \in DOMAIN edits : j > i => n \notin edits[j].del}

(* Mutant: only logs newer than the one in the descriptor are replayed.     *)
LogsToReplay_Newer(minLog) == {n \in DOMAIN logs : n > minLog}

LogsToReplay(minLog) == {n \in DOMAIN logs : n >= minLog}

(* VersionSet::Recover, and the check for missing files.  A torn record is  *)
(* an error in a MANIFEST unless it is the last; a file counts as present   *)
(* when there is one of any type with its number.                           *)
Garbled(f) == \E n \in 1..(Len(f.recs) - 1) : f.recs[n] = Torn

Recover ==
  /\ pc = "down" /\ current # 0
  /\ LET edits == Readable(manifests[current])
         e == Last(edits)
         ver == Builder(edits)
     IN  IF \/ Garbled(manifests[current]) \/ edits = <<>> \/ e.next = 0
            \/ ~(ver \subseteq DOMAIN tables \cup DOMAIN logs)
         THEN pc' = "corrupt" /\ UNCHANGED <<db, edit>>
         ELSE /\ pc' = "replay" /\ edit' = NoEdit
              /\ db' = [NoDb EXCEPT
                   !.ver = ver, !.minLog = e.log, !.last = e.last,
                   !.next = e.next + 1,
                   !.manifest = IF Reuse THEN current ELSE e.next, !.save = ~Reuse,
                   !.todo = LogsToReplay(e.log)]
  /\ UNCHANGED <<disk, history>>

MaxSequence(last, recs) == Max({last} \cup {r.seq : r \in recs})

(* RecoverLogFile: the writes of a log become a table, or, if the log is    *)
(* the last one and logs are reused, the memtable.                          *)
RecoverLogFile ==
  /\ pc = "replay" /\ db.todo # {}
  /\ LET n == Min(db.todo)
         recs == ToSet(Readable(logs[n]))
         d == [db EXCEPT !.todo = @ \ {n}, !.last = MaxSequence(@, recs),
                         !.next = Max({@, n + 1})]
     IN  \/ /\ Reuse /\ db.todo = {n}
            /\ db' = [d EXCEPT !.log = n, !.mem = recs]
            /\ UNCHANGED <<tables, edit>>
         \/ /\ recs = {} /\ ~(Reuse /\ db.todo = {n})
            /\ db' = d /\ UNCHANGED <<tables, edit>>
         \/ /\ recs # {} /\ db.next <= MaxNumber
            /\ tables' = Put(tables, db.next, recs)
            /\ edit' = [edit EXCEPT !.add = @ \cup {db.next}]
            /\ db' = [d EXCEPT !.next = Max({db.next, n}) + 1, !.save = TRUE]
  /\ UNCHANGED <<current, manifests, logs, pc, history>>

(* A new log, unless the last one is reused.                                *)
OpenLog ==
  /\ pc = "replay" /\ db.todo = {} /\ db.next <= MaxNumber
  /\ IF db.log # 0 THEN UNCHANGED <<logs, db>>
     ELSE /\ logs' = Put(logs, db.next, File(<<>>, 0))
          /\ db' = [db EXCEPT !.log = db.next, !.next = @ + 1]
  /\ pc' = IF db.save THEN "manifest" ELSE "clean"
  /\ UNCHANGED <<current, manifests, tables, edit, history>>

(* LogAndApply writes the edit; the first time it starts a new MANIFEST     *)
(* with a snapshot of the version.                                          *)
Completed(log) ==
  [edit EXCEPT !.log = log, !.next = db.next, !.last = db.last]
Snapshot == [NoEdit EXCEPT !.add = db.ver]

WriteManifest ==
  /\ pc = "manifest"
  /\ LET e == Completed(db.log)
     IN  manifests' = IF db.manifest \in DOMAIN manifests /\ Reuse
                      THEN AppendTo(manifests, db.manifest, e)
                      ELSE Put(manifests, db.manifest, File(<<Snapshot, e>>, 0))
  /\ pc' = "syncManifest"
  /\ UNCHANGED <<current, logs, tables, db, edit, history>>

SyncManifest ==
  /\ pc = "syncManifest"
  /\ manifests' = SyncFile(manifests, db.manifest) /\ pc' = "setCurrent"
  /\ UNCHANGED <<current, logs, tables, db, edit, history>>

(* SetCurrentFile, by renaming a synced temporary file, and the new version.*)
Applied(log) == [db EXCEPT !.ver = (@ \ edit.del) \cup edit.add, !.minLog = log]
SetCurrentFile ==
  /\ pc = "setCurrent" /\ current' = db.manifest
  /\ db' = Applied(db.log) /\ edit' = NoEdit /\ pc' = "clean"
  /\ UNCHANGED <<manifests, logs, tables, history>>

(* Mutant: files are deleted after an error.                                *)
Obsolete_DespiteError ==
  [logs |-> {n \in DOMAIN logs : n < db.minLog},
   manifests |-> {n \in DOMAIN manifests : n < db.manifest},
   tables |-> DOMAIN tables \ db.ver]

(* DeleteObsoleteFiles: nothing after an error, since the version on disk   *)
(* is then unknown.  Failing deletions are ignored, and the process may die *)
(* between two of them: any of the obsolete files remain.                   *)
Obsolete ==
  IF db.error THEN [logs |-> {}, manifests |-> {}, tables |-> {}]
  ELSE [logs |-> {n \in DOMAIN logs : n < db.minLog},
        manifests |-> {n \in DOMAIN manifests : n < db.manifest},
        tables |-> DOMAIN tables \ db.ver]

DeleteObsoleteFiles ==
  /\ pc = "clean" /\ pc' = "open"
  /\ \E keep \in {{}, Obsolete.logs, Obsolete.manifests, Obsolete.tables} :
       /\ logs' = Restrict(logs, DOMAIN logs \ (Obsolete.logs \ keep))
       /\ manifests' = Restrict(manifests, DOMAIN manifests \ (Obsolete.manifests \ keep))
       /\ tables' = Restrict(tables, DOMAIN tables \ (Obsolete.tables \ keep))
  /\ UNCHANGED <<current, db, edit, history>>

-----------------------------------------------------------------------------
(* The open database.                                                      *)

(* A write is in the log, synced if so asked, before it is in the memtable. *)
Write(sync) ==
  /\ pc = "open" /\ ~db.error /\ ids < MaxWrites
  /\ LET r == [id |-> ids + 1, seq |-> db.last + 1]
         appended == AppendTo(logs, db.log, r)
     IN  /\ logs' = IF sync THEN SyncFile(appended, db.log) ELSE appended
         /\ db' = [db EXCEPT !.last = @ + 1, !.mem = @ \cup {r}]
         /\ ids' = ids + 1 /\ acked' = acked \cup {r}
         /\ synced' = IF sync THEN synced \cup {r} ELSE synced
  /\ UNCHANGED <<current, manifests, tables, pc, edit, crashes>>

(* MakeRoomForWrite: the memtable is frozen and a new log begun.            *)
Rotate ==
  /\ pc = "open" /\ ~db.error /\ db.imm = <<>> /\ db.mem # {} /\ db.next <= MaxNumber
  /\ logs' = Put(logs, db.next, File(<<>>, 0))
  /\ db' = [db EXCEPT !.log = db.next, !.next = @ + 1, !.imm = <<db.mem>>, !.mem = {}]
  /\ UNCHANGED <<current, manifests, tables, pc, edit, history>>

(* The background thread's tables: the frozen memtable, or all tables in    *)
(* one.  They are synced before the MANIFEST names them.                    *)
Idle == pc = "open" /\ ~db.error /\ edit = NoEdit /\ db.next <= MaxNumber
BuildTable ==
  /\ Idle
  /\ \/ /\ db.imm # <<>>
        /\ tables' = Put(tables, db.next, db.imm[1])
        /\ edit' = [NoEdit EXCEPT !.log = db.log, !.add = {db.next}]
     \/ /\ db.imm = <<>> /\ Cardinality(db.ver) > 1
        /\ tables' = Put(tables, db.next, UNION {tables[n] : n \in db.ver})
        /\ edit' = [NoEdit EXCEPT !.log = db.minLog, !.add = {db.next}, !.del = db.ver]
  /\ db' = [db EXCEPT !.next = @ + 1]
  /\ UNCHANGED <<current, manifests, logs, pc, history>>

(* LogAndApply of the open database, in two steps; writes go on meanwhile.  *)
(* After an error, the cleaning that ends a compaction is the last work of  *)
(* the background thread.                                                   *)
LogEdit ==
  /\ pc = "open" /\ ~db.error /\ edit # NoEdit /\ edit.next = 0
  /\ \/ /\ edit' = Completed(edit.log)
        /\ manifests' = AppendTo(manifests, db.manifest, edit')
        /\ UNCHANGED <<db, pc>>
     \/ /\ Errors /\ db' = [db EXCEPT !.error = TRUE] /\ UNCHANGED edit
        /\ manifests' \in {manifests, AppendTo(manifests, db.manifest, Torn),
                           AppendTo(manifests, db.manifest, Completed(edit.log))}
        /\ pc' = IF edit.del = {} THEN pc ELSE "clean"
  /\ UNCHANGED <<current, logs, tables, history>>

ApplyEdit ==
  /\ pc = "open" /\ edit.next # 0
  /\ manifests' = SyncFile(manifests, db.manifest)
  /\ db' = [Applied(edit.log) EXCEPT !.imm = IF edit.del = {} THEN <<>> ELSE @]
  /\ edit' = NoEdit /\ pc' = "clean"
  /\ UNCHANGED <<current, logs, tables, history>>

-----------------------------------------------------------------------------
(* What a crash leaves of a file: all of it, or what was synced and any     *)
(* more; the record after that, if there is or was to be one, may be torn.  *)
Remains(f, busy) ==
  UNION {LET cut == SubSeq(f.recs, 1, n)
         IN  {File(cut, n)} \cup
             (IF busy \/ n < Len(f.recs) THEN {File(Append(cut, Torn), n + 1)} ELSE {}) :
         n \in IF Power THEN f.synced..Len(f.recs) ELSE {Len(f.recs)}}

LoggingEdit(n) ==
  /\ n = db.manifest /\ ~db.error
  /\ pc = "manifest" \/ (pc = "open" /\ edit # NoEdit /\ edit.next = 0)
LoggingWrite(n) == n = db.log /\ ~db.error /\ pc = "open" /\ ids < MaxWrites

Crash ==
  /\ pc \notin {"down", "corrupt"} /\ crashes < MaxCrashes
  /\ LET M(n) == Remains(manifests[n], LoggingEdit(n))
         L(n) == Remains(logs[n], LoggingWrite(n))
     IN  /\ manifests' \in {m \in [DOMAIN manifests -> UNION {M(n) : n \in DOMAIN manifests}] :
                              \A n \in DOMAIN m : m[n] \in M(n)}
         /\ logs' \in {l \in [DOMAIN logs -> UNION {L(n) : n \in DOMAIN logs}] :
                         \A n \in DOMAIN l : l[n] \in L(n)}
  /\ pc' = "down" /\ db' = NoDb /\ edit' = NoEdit /\ crashes' = crashes + 1
  /\ UNCHANGED <<current, tables, ids, synced, acked>>

(* The destructor; nothing is written.                                      *)
Close ==
  /\ pc = "open" /\ crashes < MaxCrashes /\ edit.next = 0
  /\ pc' = "down" /\ db' = NoDb /\ edit' = NoEdit /\ crashes' = crashes + 1
  /\ UNCHANGED <<disk, ids, synced, acked>>

Opening ==
  \/ NewManifest \/ SetFirstCurrent \/ Recover \/ RecoverLogFile \/ OpenLog
  \/ WriteManifest \/ SyncManifest \/ SetCurrentFile \/ DeleteObsoleteFiles

Next ==
  \/ Opening \/ Rotate \/ BuildTable \/ LogEdit \/ ApplyEdit \/ Crash \/ Close
  \/ \E sync \in BOOLEAN : Write(sync)

Spec == Init /\ [][Next]_vars
FairSpec == Spec /\ WF_vars(Opening)

-----------------------------------------------------------------------------
Contents == db.mem \cup (UNION ToSet(db.imm)) \cup (UNION {tables[n] : n \in db.ver})

TypeOK ==
  /\ current \in Nat /\ (current # 0 => current \in DOMAIN manifests)
  /\ \A n \in DOMAIN logs : logs[n].synced <= Len(logs[n].recs)
  /\ \A n \in DOMAIN manifests : manifests[n].synced <= Len(manifests[n].recs)
  /\ Len(db.imm) <= 1 /\ db.next \in 1..(MaxNumber + 2)

(* A synced write that returned ok is in the database whenever it is open,  *)
(* whatever crashed in between (WriteOptions::sync).                        *)
SyncedSurvive == pc = "open" => synced \subseteq Contents

(* If only processes die and the machine does not, no write that returned   *)
(* ok is lost.                                                              *)
AckedSurvive == pc = "open" => acked \subseteq Contents

(* Sequence numbers are not given twice: a write that survived is never     *)
(* mistaken for a later one.                                                *)
SequenceFresh ==
  pc = "open" => \A r \in Contents : /\ r.seq <= db.last
                                     /\ \A q \in Contents : q.seq = r.seq => q = r

(* Every table of the current version exists, and no crash makes the        *)
(* database one that cannot be opened.                                      *)
TablesExist == pc \in {"clean", "open"} => db.ver \subseteq DOMAIN tables
Openable == pc # "corrupt"

(* What the next Open would find is never older than what was applied: the  *)
(* synced part of the MANIFEST that CURRENT names builds this version.      *)
ManifestAgrees ==
  pc = "open" /\ edit = NoEdit /\ ~db.error =>
    Builder(SubSeq(manifests[current].recs, 1, manifests[current].synced)) = db.ver

(* Opening ends: however often it was interrupted, recovery succeeds once   *)
(* it is left alone.                                                        *)
OpensAgain == <>[](pc # "down") /\ (pc = "down" ~> pc = "open")
=============================================================================
