--------------------------------- MODULE CApi ---------------------------------
(* The C binding of leveldb (db/c.cc): opaque handles around the objects,   *)
(* error strings, and the memory that passes between the binding and its    *)
(* client. Calls of the database succeed, find nothing, or fail.            *)
EXTENDS Integers, Sequences, FiniteSets

CONSTANTS Keys, Values,
          Simple,    \* the handles that are made on their own: cache, bloom, env,
                     \* options, batch, readoptions, comparator
          MaxOps     \* bound: operations of a batch

VARIABLES held,      \* the handles that the client has, one of a kind
          reps,      \* the objects of leveldb that exist
          strings,   \* allocated strings: errors and values
          freedTwice, \* something was freed that did not exist
          errptr,    \* what *errptr points to; None if it is NULL
          options,   \* objects that the options point to
          using,     \* those that the open database points to
          snapshot,  \* the snapshot of the read options; none, or in a singleton
          store, views, \* what the database shows, and what a snapshot or an iterator shows
          kept,      \* the contents it may have when it is opened again
          refuses,   \* it takes no more writes: the sync of one has failed
          written,   \* history: the values that its files may have
          batch,     \* the updates of the batch
          answer     \* of the last call

memory == <<held, reps, strings, freedTwice>>
pointers == <<options, using, snapshot>>
files == <<kept, refuses, written>>
contents == <<store, files, views, batch>>
vars == <<memory, errptr, pointers, contents, answer>>

None == "none"
NotFound == "not found"
Absent == [k \in Keys |-> NotFound]
Idle == [call |-> None, key |-> None, value |-> None, failed |-> FALSE]

(* The handles, and the object in each: NULL where the handle is the object. *)
(* The default environment is made by nobody and belongs to nobody.         *)
Rep == [db |-> "DB", iterator |-> "Iterator", snapshot |-> "Snapshot", cache |-> "Cache",
        bloom |-> "BloomFilterPolicy", env |-> "Env", options |-> None, batch |-> None,
        readoptions |-> None, comparator |-> None]

Init ==
  /\ held = {} /\ reps = {"Env"} /\ strings = {} /\ freedTwice = FALSE
  /\ errptr = None
  /\ options = {} /\ using = {} /\ snapshot = {}
  /\ store = Absent /\ kept = {Absent} /\ refuses = FALSE /\ written = {}
  /\ views = [h \in {} |-> Absent] /\ batch = <<>>
  /\ answer = Idle

-----------------------------------------------------------------------------
(* Error strings are numbered by whether they are the first or the second.  *)
Fresh == CHOOSE s \in {"error 1", "error 2"} : s \notin {errptr}

SaveError(failed) ==
  IF ~failed THEN UNCHANGED <<strings, errptr, freedTwice>>
  ELSE /\ errptr' = Fresh
       /\ strings' = (strings \ {errptr}) \cup {Fresh}
       /\ freedTwice' = (freedTwice \/ (errptr # None /\ errptr \notin strings))

(* leveldb_free                                                             *)
FreeError ==
  /\ errptr # None
  /\ strings' = strings \ {errptr} /\ errptr' = None
  /\ freedTwice' = (freedTwice \/ errptr \notin strings)
  /\ answer' = Idle
  /\ UNCHANGED <<held, reps, pointers, contents>>
FreeValue ==
  /\ "value" \in strings
  /\ strings' = strings \ {"value"}
  /\ answer' = Idle
  /\ UNCHANGED <<held, reps, freedTwice, errptr, pointers, contents>>

-----------------------------------------------------------------------------
(* leveldb_*_create and leveldb_*_destroy. An object is destroyed when no   *)
(* database that is open and no call to come points to it.                  *)
Create(h) ==
  /\ h \notin held
  /\ held' = held \cup {h}
  /\ reps' = reps \cup ({Rep[h]} \ {None})
  /\ options' = (IF h = "options" THEN {} ELSE options)
  /\ snapshot' = (IF h = "readoptions" THEN {} ELSE snapshot)
  /\ batch' = (IF h = "batch" THEN <<>> ELSE batch)
  /\ answer' = Idle
  /\ UNCHANGED <<strings, freedTwice, errptr, using, store, files, views>>

(* The default environment is not deleted.                                  *)
DeletedWith(h) == IF h = "env" THEN {} ELSE {Rep[h]} \ {None}

Destroys(h) ==
  /\ h \in held
  /\ held' = held \ {h}
  /\ reps' = reps \ DeletedWith(h)
  /\ freedTwice' = (freedTwice \/ ~(DeletedWith(h) \subseteq reps))
  /\ answer' = Idle
  /\ UNCHANGED <<strings, errptr>>
Points(h) == IF h = "comparator" THEN "comparator" ELSE Rep[h]
Destroy(h) ==
  /\ Points(h) \notin using /\ (h # "env" => Points(h) \notin options)
  /\ Destroys(h)
  /\ UNCHANGED <<pointers, contents>>

(* leveldb_options_set_*: the object is pointed to, not the handle.         *)
SetOption(h) ==
  /\ {h, "options"} \subseteq held
  /\ options' = options \cup {Points(h)}
  /\ answer' = Idle
  /\ UNCHANGED <<memory, errptr, using, snapshot, contents>>
ClearEnv == \* leveldb_options_set_env(NULL)
  /\ "options" \in held
  /\ options' = options \ {"Env"}
  /\ answer' = Idle
  /\ UNCHANGED <<memory, errptr, using, snapshot, contents>>

-----------------------------------------------------------------------------
Answers(call, k, v, failed) == answer' = [call |-> call, key |-> k, value |-> v, failed |-> failed]
Status(failed) == SaveError(failed) /\ Answers("status", None, None, failed)

Open ==
  /\ "db" \notin held /\ {"options"} \subseteq held
  /\ \E failed \in BOOLEAN :
       /\ Status(failed)
       /\ IF failed THEN UNCHANGED <<held, reps, using, store, files>>
          ELSE /\ held' = held \cup {"db"} /\ reps' = reps \cup {"DB"} /\ using' = options
               /\ store' \in kept /\ kept' = {store'} /\ refuses' = FALSE /\ UNCHANGED written
  /\ UNCHANGED <<options, snapshot, views, batch>>
Close ==
  /\ held \cap {"iterator", "snapshot"} = {} /\ Destroys("db")
  /\ using' = {}
  /\ UNCHANGED <<options, snapshot, contents>>

Applied(op, m) == [m EXCEPT ![op[1]] = op[2]]
RECURSIVE AllApplied(_, _)
AllApplied(ops, m) == IF ops = <<>> THEN m ELSE AllApplied(Tail(ops), Applied(Head(ops), m))
Valued(ops) == {ops[i] : i \in {j \in DOMAIN ops : ops[j][2] # NotFound}}
Logged(ops) ==
  /\ kept' = {AllApplied(ops, m) : m \in kept}
  /\ written' = written \cup Valued(ops)

(* Mutant: no background error is recorded.                                 *)
Unsynced_GoesOn(ops) ==
  /\ written' = written \cup Valued(ops)
  /\ kept' = kept \cup {AllApplied(ops, m) : m \in kept}
  /\ UNCHANGED <<refuses, store>>

(* DBImpl::Write: it fails before the log has the updates; or it is their   *)
(* sync that fails, then they are not shown, may be there when the database *)
(* is opened again, and every later write fails. Appending to the log fails *)
(* in WriteQueue only.                                                      *)
Refused == UNCHANGED <<store, files>>
Unsynced(ops) ==
  /\ written' = written \cup Valued(ops)
  /\ kept' = kept \cup {AllApplied(ops, m) : m \in kept}
  /\ refuses' = TRUE /\ UNCHANGED store

Commit(ops, failed) ==
  \/ ~failed /\ ~refuses /\ Logged(ops) /\ store' = AllApplied(ops, store) /\ UNCHANGED refuses
  \/ failed /\ Refused
  \/ failed /\ ~refuses /\ Unsynced(ops)

Put(k, v) ==
  /\ "db" \in held
  /\ \E failed \in BOOLEAN : Status(failed) /\ Commit(<<<<k, v>>>>, failed)
  /\ UNCHANGED <<held, reps, pointers, views, batch>>
Delete(k) == Put(k, NotFound)

(* leveldb_get: a copy of the value, no error if there is none.             *)
Get(k) ==
  /\ {"db", "readoptions"} \subseteq held /\ "value" \notin strings
  /\ LET v == (IF snapshot = {} THEN store ELSE views["snapshot"])[k] IN
       \/ SaveError(TRUE) /\ Answers("get", k, None, TRUE)
       \/ /\ strings' = (IF v = NotFound THEN strings ELSE strings \cup {"value"})
          /\ Answers("get", k, v, FALSE)
          /\ UNCHANGED <<errptr, freedTwice>>
  /\ UNCHANGED <<held, reps, pointers, contents>>

View(h) ==
  /\ "db" \in held /\ h \notin held
  /\ held' = held \cup {h} /\ reps' = reps \cup {Rep[h]}
  /\ views' = [g \in DOMAIN views \cup {h} |-> IF g = h THEN store ELSE views[g]]
  /\ answer' = Idle
  /\ UNCHANGED <<strings, freedTwice, errptr, pointers, store, files, batch>>
EndView(h) ==
  /\ Destroys(h) /\ (h = "snapshot" => snapshot = {})
  /\ views' = [g \in DOMAIN views \ {h} |-> views[g]]
  /\ UNCHANGED <<pointers, store, files, batch>>
SetSnapshot ==
  /\ "readoptions" \in held
  /\ snapshot' \in {{}} \cup {{s} : s \in held \cap {"snapshot"}}
  /\ answer' = Idle
  /\ UNCHANGED <<memory, errptr, options, using, contents>>

(* An iterator at a key, and leveldb_iter_get_error.                        *)
IterValue(k) ==
  /\ "iterator" \in held /\ views["iterator"][k] # NotFound
  /\ Answers("iterator", k, views["iterator"][k], FALSE)
  /\ UNCHANGED <<memory, errptr, pointers, contents>>
IterGetError ==
  /\ "iterator" \in held
  /\ \E failed \in BOOLEAN : Status(failed)
  /\ UNCHANGED <<held, reps, pointers, contents>>

BatchUpdate(k, v) ==
  /\ "batch" \in held /\ Len(batch) < MaxOps
  /\ batch' = Append(batch, <<k, v>>)
  /\ answer' = Idle
  /\ UNCHANGED <<memory, errptr, pointers, store, files, views>>
BatchClear ==
  /\ "batch" \in held
  /\ batch' = <<>> /\ answer' = Idle
  /\ UNCHANGED <<memory, errptr, pointers, store, files, views>>
Write ==
  /\ {"db", "batch"} \subseteq held
  /\ \E failed \in BOOLEAN : Status(failed) /\ Commit(batch, failed)
  /\ UNCHANGED <<held, reps, pointers, views, batch>>

-----------------------------------------------------------------------------
(* Of a database of which files are missing, or that was put together again *)
(* from its files, each key shows something once written to it, or nothing. *)
Remains == {m \in [Keys -> Values \cup {NotFound}] : \A k \in Keys : m[k] = NotFound \/ <<k, m[k]>> \in written}

(* leveldb_destroy_db and leveldb_repair_db, of a database that is closed.  *)
Managing(failed) ==
  /\ "db" \notin held /\ "options" \in held
  /\ Status(failed)
  /\ UNCHANGED <<held, reps, pointers, store, refuses, views, batch>>

(* DestroyDB: it deletes every file that it can, and answers the first      *)
(* error; a directory that could not be listed counts as empty.             *)
DestroyDB ==
  \/ Managing(FALSE) /\ kept' = {Absent} /\ written' = {}
  \/ \E failed \in BOOLEAN : Managing(failed) /\ UNCHANGED <<kept, written>>
  \/ Managing(TRUE) /\ kept' = Remains /\ UNCHANGED written

(* RepairDB: it archives files before it may fail; tables that were left,   *)
(* or whose numbers are not in the order of their age, may show older       *)
(* values.                                                                  *)
RepairDB ==
  \/ \E failed \in BOOLEAN : Managing(failed) /\ kept' = Remains /\ UNCHANGED written
  \/ Managing(TRUE) /\ UNCHANGED <<kept, written>>

Next ==
  \/ FreeError \/ FreeValue \/ \E h \in Simple : Create(h) \/ Destroy(h)
  \/ (\E h \in Simple \ {"options", "batch", "readoptions"} : SetOption(h)) \/ ClearEnv
  \/ Open \/ Close
  \/ \E k \in Keys : Delete(k) \/ Get(k) \/ IterValue(k) \/ \E v \in Values : Put(k, v)
  \/ \E h \in {"iterator", "snapshot"} : View(h) \/ EndView(h)
  \/ SetSnapshot \/ IterGetError
  \/ (\E k \in Keys, v \in Values \cup {NotFound} : BatchUpdate(k, v)) \/ BatchClear \/ Write
  \/ DestroyDB \/ RepairDB
Spec == Init /\ [][Next]_vars

-----------------------------------------------------------------------------
(* c.h:24-33, 98-99: what exists is what the client has a handle of or was  *)
(* given, whatever calls failed: nothing leaks, nothing is freed twice, and *)
(* the default environment stays.                                           *)
Owned ==
  /\ ~freedTwice
  /\ reps = {"Env"} \cup ({Rep[h] : h \in held} \ {None})
  /\ strings \ {"value"} = {errptr} \ {None}

(* db_impl.cc:1236-1241: an open database shows what it will have when it   *)
(* is opened again, unless the sync of a write has failed: then it may, and *)
(* may have all the updates of that write besides, and of no other.         *)
Certain == "db" \in held => store \in kept /\ Cardinality(kept) <= (IF refuses THEN 2 ELSE 1)
=============================================================================
