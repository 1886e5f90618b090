-------------------------------- MODULE Repair --------------------------------
(* RepairDB (db/repair.cc): logs become tables, tables are scanned, those   *)
(* with damage are copied, and a new descriptor names them all at level 0.  *)
(* Calls of the environment fail, the process is killed, and the repair is  *)
(* run again.                                                               *)
EXTENDS Integers, Sequences, FiniteSets, SequencesExt

CONSTANTS Starts,       \* databases to repair, as [logs, tables, manifests]
          MaxFailures, MaxKills   \* bounds

VARIABLES dir, lost,    \* the directory and its subdirectory lost
          pc, result,
          logs, numbers,  \* logs_ and table_numbers_ still to be treated
          tables,       \* tables_
          next,         \* next_file_number_
          copy,         \* the table being written
          failures, kills,
          found,        \* the directory at the beginning
          misread,      \* history: tables of which a read failed
          risked        \* history: what that left out of a copy of a table that stayed

memory == <<logs, numbers, tables, next, copy>>
history == <<found, misread, risked>>
budget == <<failures, kills, history>>
vars == <<dir, lost, pc, result, memory, budget>>

-----------------------------------------------------------------------------
(* A log has the entries of its whole records, and what the changed bytes   *)
(* of others read as. A table has the entries that its iterator gives, and  *)
(* ends if that reports no error then. A table not finished has none.       *)
Union(f) == UNION {f[n] : n \in DOMAIN f}
Without(f, n) == [m \in DOMAIN f \ {n} |-> f[m]]
With(f, n, x) == [m \in DOMAIN f \cup {n} |-> IF m = n THEN x ELSE f[m]]
Unfinished == [gives |-> {}, ends |-> FALSE]
Whole(entries) == [gives |-> entries, ends |-> TRUE]
NoTable == [number |-> 0, from |-> 0, gives |-> {}, seen |-> {}]
MaxOf(S) == IF S = {} THEN 0 ELSE CHOOSE m \in S : \A n \in S : n <= m
Seqs(entries) == {e.seq : e \in entries}

(* What a directory has: numbers, and entries whose sequence numbers have   *)
(* a greatest.                                                              *)
Numbered(S) == S \subseteq Nat /\ IsFiniteSet(S)
Readable(entries) == Numbered(Seqs(entries))
RepairAssumption ==
  /\ MaxFailures \in Nat /\ MaxKills \in Nat
  /\ \A s \in Starts :
       /\ Numbered(DOMAIN s.logs) /\ Numbered(DOMAIN s.tables)
       /\ \A n \in DOMAIN s.logs : Readable(s.logs[n].whole) /\ Readable(s.logs[n].misread)
       /\ \A n \in DOMAIN s.tables : Readable(s.tables[n].gives)

Init ==
  /\ found \in Starts
  /\ dir = [logs |-> found.logs, tables |-> found.tables, manifests |-> found.manifests, new |-> <<>>, current |-> MaxOf(found.manifests)]
  /\ lost = [logs |-> <<>>, tables |-> <<>>]
  /\ pc = "find" /\ result = "none"
  /\ logs = <<>> /\ numbers = <<>> /\ tables = <<>> /\ next = 1 /\ copy = NoTable
  /\ failures = 0 /\ kills = 0 /\ misread = {} /\ risked = {}

Goto(from, to) == pc = from /\ pc' = to
Works == UNCHANGED budget
Failure == failures < MaxFailures /\ failures' = failures + 1 /\ UNCHANGED <<kills, found>>
Fails == Failure /\ UNCHANGED <<misread, risked>>

(* Of a pass over table n a read fails: it gives the blocks that could be   *)
(* read, and an error that is seen only at the end.                         *)
Misses(n) == Failure /\ misread' = misread \cup {n} /\ UNCHANGED risked

ArchiveLog(n) ==
  /\ dir' = [dir EXCEPT !.logs = Without(@, n)]
  /\ lost' = [lost EXCEPT !.logs = With(@, n, dir.logs[n])]

(* Mutant: the file is deleted.                                             *)
ArchiveTable_Deletes(n) ==
  /\ dir' = [dir EXCEPT !.tables = Without(@, n)]
  /\ lost' = lost

(* A file of that name that lost has already is replaced.                   *)
ArchiveTable(n) ==
  /\ dir' = [dir EXCEPT !.tables = Without(@, n)]
  /\ lost' = [lost EXCEPT !.tables = With(@, n, dir.tables[n])]

-----------------------------------------------------------------------------
(* The directory is listed in any order. Descriptors do not count.          *)
FindFiles ==
  /\ pc = "find"
  /\ \/ /\ Works /\ pc' = "logs"
        /\ logs' \in SetToSeqs(DOMAIN dir.logs) /\ numbers' \in SetToSeqs(DOMAIN dir.tables)
        /\ next' = MaxOf(DOMAIN dir.logs \cup DOMAIN dir.tables) + 1
        /\ UNCHANGED result
     \/ Fails /\ pc' = "done" /\ result' = "error" /\ UNCHANGED <<logs, numbers, next>>
  /\ UNCHANGED <<dir, lost, tables, copy>>

(* ConvertLogToTable: the reader does not look at the checksums, and a read *)
(* that fails ends the log.                                                 *)
ReadLog(log) == log.whole \cup log.misread

OpenLog ==
  /\ pc = "logs" /\ logs # <<>>
  /\ LET entries == ReadLog(dir.logs[Head(logs)]) IN
       \/ \E got \in SUBSET entries :
            /\ (Works /\ got = entries) \/ Fails
            /\ pc' = (IF got = {} THEN "archive_log" ELSE "create_table")
            /\ copy' = [number |-> next, from |-> Head(logs), gives |-> got, seen |-> {}]
            /\ next' = next + 1
       \/ Fails /\ pc' = "archive_log" /\ UNCHANGED <<copy, next>>
  /\ UNCHANGED <<dir, lost, result, logs, numbers, tables>>

(* BuildTable: a table is synced, or deleted.                               *)
CreateTable ==
  /\ \/ Works /\ Goto("create_table", "finish_table") /\ dir' = [dir EXCEPT !.tables = With(@, copy.number, Unfinished)]
     \/ Fails /\ Goto("create_table", "archive_log") /\ UNCHANGED dir
  /\ UNCHANGED <<lost, result, memory>>

FinishTable ==
  /\ Goto("finish_table", "archive_log")
  /\ \/ /\ Works /\ dir' = [dir EXCEPT !.tables[copy.number] = Whole(copy.gives)]
        /\ numbers' = Append(numbers, copy.number)
     \/ Fails /\ dir' = [dir EXCEPT !.tables = Without(@, copy.number)] /\ UNCHANGED numbers
  /\ UNCHANGED <<lost, result, logs, tables, next, copy>>

LogArchived ==
  /\ Goto("archive_log", "logs")
  /\ logs' = Tail(logs)
  /\ copy' = NoTable
  /\ \/ Works /\ ArchiveLog(Head(logs))
     \/ Fails /\ UNCHANGED <<dir, lost>>
  /\ UNCHANGED <<result, numbers, tables, next>>

-----------------------------------------------------------------------------
(* ScanTable: an error at the end, from damage or from a read that failed,  *)
(* has the table copied. What was seen until then is its description.       *)
Info(n, entries) ==
  [number |-> n, keys |-> {e.key : e \in entries}, max_sequence |-> MaxOf(Seqs(entries))]

ScanTable ==
  /\ \/ pc = "logs" /\ logs = <<>>
     \/ pc = "scan"
  /\ numbers # <<>>
  /\ LET n == Head(numbers)  t == dir.tables[n] IN
       \/ /\ Works /\ t.ends /\ pc' = "scan"
          /\ numbers' = Tail(numbers) /\ tables' = Append(tables, Info(n, t.gives))
          /\ UNCHANGED <<dir, lost, copy, next>>
       \/ /\ pc' = "copy"
          /\ \E got \in SUBSET t.gives :
               /\ (Works /\ ~t.ends /\ got = t.gives) \/ Misses(n)
               /\ copy' = [number |-> next, from |-> n, gives |-> t.gives, seen |-> got]
          /\ next' = next + 1
          /\ UNCHANGED <<dir, lost, numbers, tables>>
       \/ /\ Fails /\ pc' = "scan" /\ numbers' = Tail(numbers)    \* its size
          /\ (ArchiveTable(n) \/ UNCHANGED <<dir, lost>>)
          /\ UNCHANGED <<tables, copy, next>>
  /\ UNCHANGED <<result, logs>>

NextTable == numbers' = Tail(numbers) /\ copy' = NoTable

(* RepairTable: what a second pass over the table gives is copied, however  *)
(* it ends, and the table is archived, before the copy has been finished    *)
(* and has its name.                                                        *)
CreateCopy ==
  /\ \/ /\ Goto("copy", "archive_table") /\ dir' = [dir EXCEPT !.tables = With(@, copy.number, Unfinished)]
        /\ \E got \in SUBSET copy.gives :
             /\ (Works /\ got = copy.gives) \/ Misses(copy.from)
             /\ copy' = [number |-> copy.number, from |-> copy.from, gives |-> got, seen |-> copy.seen]
        /\ UNCHANGED numbers
     \/ Fails /\ Goto("copy", "scan") /\ UNCHANGED dir /\ NextTable
  /\ UNCHANGED <<lost, result, logs, tables, next>>
TableArchived ==
  /\ Goto("archive_table", "finish_copy")
  /\ \/ Works /\ ArchiveTable(copy.from)
     \/ /\ Failure /\ UNCHANGED <<dir, lost, misread>>
        /\ risked' = risked \cup (dir.tables[copy.from].gives \ copy.gives)
  /\ UNCHANGED <<result, memory>>
FinishCopy ==
  /\ pc = "finish_copy"
  /\ \/ /\ Works /\ copy.gives = {} /\ pc' = "scan" /\ NextTable /\ UNCHANGED dir
     \/ /\ Works /\ copy.gives # {} /\ pc' = "rename_copy"
        /\ dir' = [dir EXCEPT !.tables[copy.number] = Whole(copy.gives)] /\ UNCHANGED <<numbers, copy>>
     \/ /\ Fails /\ pc' = "delete_copy" /\ UNCHANGED <<dir, numbers, copy>>
  /\ UNCHANGED <<lost, result, logs, tables, next>>
RenameCopy ==
  /\ \/ /\ Works /\ Goto("rename_copy", "scan")
        /\ dir' = [dir EXCEPT !.tables = With(Without(@, copy.number), copy.from, Whole(copy.gives))]
        /\ tables' = Append(tables, Info(copy.from, copy.seen)) /\ NextTable
     \/ Fails /\ Goto("rename_copy", "delete_copy") /\ UNCHANGED <<dir, tables, numbers, copy>>
  /\ UNCHANGED <<lost, result, logs, next>>
DeleteCopy ==
  /\ Goto("delete_copy", "scan")
  /\ \/ Works /\ dir' = [dir EXCEPT !.tables = Without(@, copy.number)]
     \/ Fails /\ UNCHANGED dir
  /\ NextTable
  /\ UNCHANGED <<lost, result, logs, tables, next>>

-----------------------------------------------------------------------------
LastSequence == MaxOf({tables[i].max_sequence : i \in DOMAIN tables})

(* WriteDescriptor: a temporary file, the older descriptors, two names.     *)
Finish(r) == pc' = "done" /\ result' = r
WriteDescriptor ==
  /\ \/ pc = "logs" /\ logs = <<>>
     \/ pc = "scan"
  /\ numbers = <<>>
  /\ \/ /\ Works /\ pc' = "manifests"
        /\ dir' = [dir EXCEPT !.new = <<[files |-> {tables[i] : i \in DOMAIN tables}, next |-> next, last |-> LastSequence]>>]
        /\ UNCHANGED result
     \/ Fails /\ UNCHANGED dir /\ Finish("error")
  /\ UNCHANGED <<lost, memory>>
ArchiveManifests ==
  /\ Goto("manifests", "install")
  /\ \/ Works /\ dir' = [dir EXCEPT !.manifests = {}]
     \/ Fails /\ \E left \in SUBSET dir.manifests : dir' = [dir EXCEPT !.manifests = left]
  /\ UNCHANGED <<lost, result, memory>>
Install ==
  /\ pc = "install"
  /\ \/ Works /\ dir' = [dir EXCEPT !.manifests = @ \cup {1}] /\ pc' = "current" /\ UNCHANGED result
     \/ Fails /\ dir' = [dir EXCEPT !.new = <<>>] /\ Finish("error")
  /\ UNCHANGED <<lost, memory>>
SetCurrentFile ==
  /\ pc = "current"
  /\ \/ Works /\ dir' = [dir EXCEPT !.current = 1] /\ Finish("ok")
     \/ Fails /\ UNCHANGED dir /\ Finish("error")
  /\ UNCHANGED <<lost, memory>>

(* The process is killed, or the repair has answered an error: it is run    *)
(* again, on the files as they are.                                         *)
Again ==
  /\ kills < MaxKills /\ pc # "find" /\ result # "ok"
  /\ kills' = kills + 1
  /\ pc' = "find" /\ result' = "none"
  /\ logs' = <<>> /\ numbers' = <<>> /\ tables' = <<>> /\ next' = 1 /\ copy' = NoTable
  /\ UNCHANGED <<dir, lost, failures, history>>

Next ==
  \/ FindFiles \/ OpenLog \/ CreateTable \/ FinishTable \/ LogArchived
  \/ ScanTable \/ CreateCopy \/ TableArchived \/ FinishCopy \/ RenameCopy \/ DeleteCopy
  \/ WriteDescriptor \/ ArchiveManifests \/ Install \/ SetCurrentFile \/ Again
Spec == Init /\ [][Next]_vars

-----------------------------------------------------------------------------
Logged(ls) == Union([n \in DOMAIN ls |-> ls[n].whole])
Given(ts) == Union([n \in DOMAIN ts |-> ts[n].gives])
ToSave == Logged(found.logs) \cup Given(found.tables)
InDamaged == UNION {found.tables[n].gives : n \in {m \in DOMAIN found.tables : ~found.tables[m].ends}}
Repaired == result = "ok"
Descriptor == dir.new[1]
Saved == UNION {dir.tables[f.number].gives : f \in Descriptor.files}

(* Whatever fails, or whenever the process is killed, what could be read    *)
(* before the repair can be read after it, in the directory or in lost: but *)
(* for what a failing read left out of a copy of a table that could then    *)
(* not be moved to lost, since the copy takes its place.                    *)
(* When calls fail in one repair and another follows, a number may be used  *)
(* again and a file of lost replaced.                                       *)
Kept ==
  ToSave \ risked \subseteq Logged(dir.logs) \cup Logged(lost.logs) \cup Given(dir.tables) \cup Given(lost.tables)

(* A repair in which no call failed has in the database what could be read  *)
(* before it; but for a process killed while it copied a damaged table.     *)
Salvaged ==
  Repaired /\ failures = 0 => ToSave \ (IF kills = 0 THEN {} ELSE InDamaged) \subseteq Saved

(* What a repaired database opens is there, whatever has failed, and is as  *)
(* it was described: the tables, the range of keys and of sequence numbers  *)
(* of those that were read without a failure, and the numbers left for new  *)
(* files.  A table of which a read failed has those of what the scan saw.   *)
Described ==
  Repaired =>
    /\ dir.current = 1 /\ 1 \in dir.manifests
    /\ \A f \in Descriptor.files :
         /\ f.number \in DOMAIN dir.tables /\ dir.tables[f.number].ends
         /\ f.number \notin misread =>
              /\ {e.key : e \in dir.tables[f.number].gives} = f.keys
              /\ \A e \in dir.tables[f.number].gives : e.seq <= Descriptor.last
    /\ \A n \in DOMAIN dir.tables \cup DOMAIN dir.logs : n < Descriptor.next
=============================================================================
