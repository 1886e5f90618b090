-------------------------------- MODULE LRUCache --------------------------------
(* leveldb's cache (util/cache.cc): shards, each a chained hash table of    *)
(* counted entries and two lists, of the entries in use and of the others.  *)
(* A shard is a record; every operation runs under the shard's mutex.       *)
EXTENDS Integers, Sequences, FiniteSets, SequencesExt, FiniteSetsExt

CONSTANTS Keys,
          Shards,      \* the numbers of the shards
          ShardOf,     \* Shard: the top bits of each key's hash
          HashOf,      \* the rest of its hash
          Capacity,    \* of the whole cache
          MinLength,   \* of a hash table: 4
          Charges,
          MaxEntries,  \* bound: entries made in a shard
          MaxHandles   \* bound: handles of one entry

CacheAssumption ==
  /\ ShardOf \in [Keys -> Shards] /\ HashOf \in [Keys -> Nat]
  /\ Capacity \in Nat /\ MinLength \in Nat \ {0} /\ Charges \subseteq Nat

VARIABLES shard,    \* the shards; freed: the keys the deleter was called with
          open      \* the cache has not been destroyed

vars == <<shard, open>>

(* ShardedLRUCache's constructor: the capacity of a shard is rounded up.    *)
PerShard == (Capacity + Cardinality(Shards) - 1) \div Cardinality(Shards)

-----------------------------------------------------------------------------
(* HandleTable: a bucket is a chain of entries.                             *)
EmptyTable == [length |-> MinLength, elems |-> 0, list |-> [b \in 0..(MinLength - 1) |-> <<>>]]
Bucket(t, k) == HashOf[k] % t.length

(* Mutant: entries are told apart by their hash alone.                      *)
FindPointer_HashOnly(c, k) ==
  LET chain == c.table.list[Bucket(c.table, k)]
      at == {i \in DOMAIN chain : HashOf[c.h[chain[i]].key] = HashOf[k]}
  IN  IF at = {} THEN 0 ELSE Min(at)

(* The position of the key's entry in its chain, or 0.                      *)
FindPointer(c, k) ==
  LET chain == c.table.list[Bucket(c.table, k)]
      at == {i \in DOMAIN chain : c.h[chain[i]].key = k}
  IN  IF at = {} THEN 0 ELSE Min(at)
Find(c, k) ==
  IF FindPointer(c, k) = 0 THEN 0 ELSE c.table.list[Bucket(c.table, k)][FindPointer(c, k)]

RECURSIVE LengthFor(_, _)
LengthFor(length, elems) == IF length < elems THEN LengthFor(2 * length, elems) ELSE length

(* Every entry goes to the front of its new chain.                          *)
Resize(h, t) ==
  LET length == LengthFor(MinLength, t.elems)
      all == FlattenSeq([i \in 1..t.length |-> t.list[i - 1]])
      In(b) == SelectSeq(all, LAMBDA e : HashOf[h[e].key] % length = b)
  IN  [t EXCEPT !.length = length, !.list = [b \in 0..(length - 1) |-> Reverse(In(b))]]

TableInsert(c, e) ==
  LET k == c.h[e].key
      b == Bucket(c.table, k)
      i == FindPointer(c, k)
      grown == [c.table EXCEPT !.list[b] = Append(@, e), !.elems = @ + 1]
  IN  [c EXCEPT !.table = IF i # 0 THEN [@ EXCEPT !.list[b][i] = e]
                          ELSE IF grown.elems > grown.length THEN Resize(c.h, grown) ELSE grown]
TableRemove(c, k) ==
  IF FindPointer(c, k) = 0 THEN c
  ELSE [c EXCEPT !.table.list[Bucket(c.table, k)] = RemoveAt(@, FindPointer(c, k)),
                 !.table.elems = @ - 1]

-----------------------------------------------------------------------------
(* LRUCache                                                                 *)
EmptyShard == [h |-> <<>>, lru |-> <<>>, inUse |-> {}, usage |-> 0, table |-> EmptyTable]

Unlink(c, e) ==
  [c EXCEPT !.lru = SelectSeq(@, LAMBDA x : x # e), !.inUse = @ \ {e}]

Ref(c, e) ==
  LET moves == c.h[e].refs = 1 /\ c.h[e].inCache
      d == IF moves THEN [Unlink(c, e) EXCEPT !.inUse = @ \cup {e}] ELSE c
  IN  [d EXCEPT !.h[e].refs = @ + 1]

(* key(): an entry that is on no list has what its memory held for next; if *)
(* that is its own address, its value is taken for a pointer to its key.    *)
KeyOf(c, e, luck) == IF c.h[e].linked \/ luck THEN c.h[e].key ELSE 0

Unref(c, e, luck) ==
  LET d == [c EXCEPT !.h[e].refs = @ - 1]
  IN  IF d.h[e].refs = 0
      THEN [d EXCEPT !.h[e].freed = Append(@, KeyOf(c, e, luck))]
      ELSE IF d.h[e].inCache /\ d.h[e].refs = 1
      THEN [Unlink(d, e) EXCEPT !.lru = Append(@, e)]
      ELSE d

FinishErase(c, e) ==
  IF e = 0 THEN c
  ELSE Unref([Unlink(c, e) EXCEPT !.h[e].inCache = FALSE, !.usage = @ - c.h[e].charge], e, TRUE)

EraseKey(c, k) == FinishErase(TableRemove(c, k), Find(c, k))

RECURSIVE EvictWhile(_, _)
EvictWhile(c, limit) ==
  IF c.usage > limit /\ c.lru # <<>> THEN EvictWhile(EraseKey(c, c.h[c.lru[1]].key), limit) ELSE c

InsertIn(c, k, charge) ==
  LET e == Len(c.h) + 1
      cached == PerShard > 0
      made == [c EXCEPT !.h = Append(@, [key |-> k, charge |-> charge, inCache |-> cached,
                                         linked |-> cached, freed |-> <<>>, refs |-> IF cached THEN 2 ELSE 1])]
      linked == [made EXCEPT !.inUse = @ \cup {e}, !.usage = @ + charge]
      put == FinishErase(TableInsert(linked, e), Find(c, k))
  IN  EvictWhile(IF cached THEN put ELSE made, PerShard)

Held(c, e) == c.h[e].refs - (IF c.h[e].inCache THEN 1 ELSE 0)

-----------------------------------------------------------------------------
Init == shard = [s \in Shards |-> EmptyShard] /\ open = TRUE

Do(s, c) == open /\ shard' = [shard EXCEPT ![s] = c] /\ UNCHANGED open

Insert(k, charge) ==
  /\ Len(shard[ShardOf[k]].h) < MaxEntries
  /\ Do(ShardOf[k], InsertIn(shard[ShardOf[k]], k, charge))

Lookup(k) ==
  LET c == shard[ShardOf[k]]
      e == Find(c, k)
  IN  e # 0 /\ Held(c, e) < MaxHandles /\ Do(ShardOf[k], Ref(c, e))

(* A client returns a handle that it holds.                                 *)
Release(s, e, luck) == Held(shard[s], e) > 0 /\ Do(s, Unref(shard[s], e, luck))

Erase(k) == Do(ShardOf[k], EraseKey(shard[ShardOf[k]], k))

Prune == open /\ shard' = [s \in Shards |-> EvictWhile(shard[s], -1)] /\ UNCHANGED open

(* ~LRUCache, of which no handle may be left.                               *)
Destroy ==
  /\ open
  /\ \A s \in Shards : shard[s].inUse = {} /\ \A e \in DOMAIN shard[s].h : Held(shard[s], e) = 0
  /\ shard' = [s \in Shards |->
       FoldLeft(LAMBDA c, e : Unref([c EXCEPT !.h[e].inCache = FALSE], e, TRUE), shard[s], shard[s].lru)]
  /\ open' = FALSE

Next ==
  \/ \E k \in Keys, charge \in Charges : Insert(k, charge)
  \/ \E k \in Keys : Lookup(k) \/ Erase(k)
  \/ \E s \in Shards : \E e \in DOMAIN shard[s].h, luck \in BOOLEAN : Release(s, e, luck)
  \/ Prune
  \/ Destroy

Spec == Init /\ [][Next]_vars

-----------------------------------------------------------------------------
Rec == [key : Keys, charge : Charges, refs : Nat, inCache : BOOLEAN, linked : BOOLEAN,
        freed : Seq(Nat)]
TypeOK ==
  /\ open \in BOOLEAN
  /\ \A s \in Shards : /\ shard[s].h \in Seq(Rec)
                       /\ shard[s].usage \in Nat
                       /\ DOMAIN shard[s].table.list = 0..(shard[s].table.length - 1)

(* While the cache is open, a shard's mappings, handles, idle entries and   *)
(* calls of the deleter are those of the promise: the table, the counts and *)
(* the two lists never disagree, whatever the order of the calls.           *)
Watched == Min(Shards)
Promise == INSTANCE CacheSpec WITH
  Keys <- {k \in Keys : ShardOf[k] = Watched}, Capacity <- PerShard,
  entries <- [e \in DOMAIN shard[Watched].h |->
                [key |-> shard[Watched].h[e].key, charge |-> shard[Watched].h[e].charge]],
  map <- [k \in {key \in Keys : ShardOf[key] = Watched} |-> IF open THEN Find(shard[Watched], k) ELSE 0],
  held <- [e \in DOMAIN shard[Watched].h |-> Held(shard[Watched], e)],
  idle <- IF open THEN shard[Watched].lru ELSE <<>>,
  dead <- {e \in DOMAIN shard[Watched].h : shard[Watched].h[e].freed # <<>>}
Implements == Promise!Spec

(* usage_, which decides what is evicted, is the sum of the charges of the  *)
(* entries in the cache.                                                    *)
UsageRight ==
  open => \A s \in Shards : LET c == shard[s] IN
    c.usage = FoldSet(LAMBDA e, sum : c.h[e].charge + sum, 0, {e \in DOMAIN c.h : c.h[e].inCache})

(* cache.cc:28-36: entries in the cache are on one list or the other, by    *)
(* their counts, and in the table; the deleter is called once for each.     *)
ListsRight ==
  \A s \in Shards : LET c == shard[s] IN
    /\ open => \A e \in DOMAIN c.h :
         /\ (e \in ToSet(c.lru)) = (c.h[e].inCache /\ c.h[e].refs = 1)
         /\ (e \in c.inUse) = (c.h[e].inCache /\ c.h[e].refs > 1)
         /\ c.h[e].inCache = (Find(c, c.h[e].key) = e)
    /\ \A e \in DOMAIN c.h : Len(c.h[e].freed) = (IF c.h[e].refs = 0 THEN 1 ELSE 0)

=============================================================================
