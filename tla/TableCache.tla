------------------------------- MODULE TableCache -------------------------------
(* Readers of table files through the table cache (db/table_cache.cc).      *)
(* FindTable is not one step: two readers may both miss, both open the file *)
(* and both insert; a file's entry may be evicted, because it is to be      *)
(* deleted, between a reader's steps.                                       *)
EXTENDS LRUCache

CONSTANTS Readers, MaxReads, Failures

VARIABLES rd,       \* each reader: its step, file and entry
          reads     \* reads begun, failures met


Idle == [pc |-> "idle", file |-> CHOOSE k \in Keys : TRUE, entry |-> 0]

TInit == Init /\ rd = [r \in Readers |-> Idle] /\ reads = [begun |-> 0, failed |-> 0]

Home(k) == shard[ShardOf[k]]
Set(r, pc, k, e) == rd' = [rd EXCEPT ![r] = [pc |-> pc, file |-> k, entry |-> e]]

(* FindTable's lookup.                                                      *)
FindHit(r, k) ==
  /\ Lookup(k)
  /\ Set(r, "using", k, Find(Home(k), k))
FindMiss(r, k) ==
  /\ Find(Home(k), k) = 0
  /\ Set(r, "opening", k, 0)
  /\ UNCHANGED <<shard, open>>
FindTable(r, k) ==
  /\ rd[r].pc = "idle" /\ reads.begun < MaxReads
  /\ reads' = [reads EXCEPT !.begun = @ + 1]
  /\ FindHit(r, k) \/ FindMiss(r, k)

Opened(r) ==
  LET k == rd[r].file
  IN  /\ rd[r].pc = "opening"
      /\ Insert(k, 1)
      /\ Set(r, "using", k, Len(Home(k).h) + 1)
      /\ UNCHANGED reads

(* The file cannot be opened, or is not a table: nothing is cached.         *)
OpenFails(r) ==
  /\ rd[r].pc = "opening" /\ reads.failed < Failures
  /\ reads' = [reads EXCEPT !.failed = @ + 1]
  /\ Set(r, "idle", rd[r].file, 0)
  /\ UNCHANGED <<shard, open>>

(* Mutant: a Get that ends leaves its handle out.                           *)
Done_Keeps(r) ==
  /\ rd[r].pc = "using"
  /\ Set(r, "idle", rd[r].file, 0)
  /\ UNCHANGED <<shard, open, reads>>

(* The end of Get, or the cleanup of an iterator (UnrefEntry).              *)
Done(r) ==
  /\ rd[r].pc = "using"
  /\ Release(ShardOf[rd[r].file], rd[r].entry, TRUE)
  /\ Set(r, "idle", rd[r].file, 0)
  /\ UNCHANGED reads

Evict(k) == Find(Home(k), k) # 0 /\ Erase(k) /\ UNCHANGED <<rd, reads>>

TNext ==
  \/ \E r \in Readers : \/ \E k \in Keys : FindTable(r, k)
                        \/ Opened(r)
                        \/ OpenFails(r)
                        \/ Done(r)
  \/ \E k \in Keys : Evict(k)

-----------------------------------------------------------------------------
(* A reader uses its own file's table, and no file is closed while a reader *)
(* uses its table.                                                          *)
InUseOpen ==
  \A r \in Readers : rd[r].pc = "using" =>
    LET c == Home(rd[r].file)
    IN  c.h[rd[r].entry].key = rd[r].file /\ c.h[rd[r].entry].freed = <<>>

(* No descriptor is lost: every file that was opened is in use, or in the   *)
(* cache, or has been closed; and the cache keeps no more than it has room  *)
(* for when nobody reads.                                                   *)
NoneLost ==
  \A s \in Shards : \A e \in DOMAIN shard[s].h :
    \/ \E r \in Readers : rd[r].pc = "using" /\ rd[r].entry = e /\ ShardOf[rd[r].file] = s
    \/ shard[s].h[e].inCache
    \/ shard[s].h[e].freed # <<>>
=============================================================================
