------------------------------ MODULE MemTable -------------------------------
(* leveldb's memtable (db/memtable.cc) over its skip list (db/skiplist.h):  *)
(* one writer, and readers who take no lock. A step is one access to memory *)
(* that others see. Links are released and acquired; max_height_ is         *)
(* neither, so a reader may get an old value.                               *)
EXTENDS Integers, FiniteSets, FiniteSetsExt

CONSTANTS Users,      \* user keys, 1 up
          LastSeq,    \* bound: entries added
          MaxHeight,  \* kMaxHeight
          Readers

(* An entry's rank is its place in the order of internal keys.              *)
Deletion == 0
Value == 1
Tags == 2 * (LastSeq + 1)
Rank(user, seq, type) == (user * Tags) + (Tags - 1 - ((2 * seq) + type))
UserOf(k) == k \div Tags
TagOf(k) == Tags - 1 - (k % Tags)
SeqOf(k) == TagOf(k) \div 2
TypeOf(k) == TagOf(k) % 2
Keys == {Rank(u, s, t) : u \in Users, s \in 1..LastSeq, t \in {Deletion, Value}}

Head == 0
Nil == Max(Keys) + 1    \* NULL, which comes after every key
Levels == 0..(MaxHeight - 1)

VARIABLES next,      \* next[n][level]; a node of height h has levels 0..h-1
          height,    \* of each node, 0 when it has not been made
          heights,   \* the values max_height_ has had
          w,         \* the writer
          r          \* the readers, each with one iterator

vars == <<next, height, heights, w, r>>

GetMaxHeight == Max(heights)

-----------------------------------------------------------------------------
(* The writer: pc is what Insert does next.                                 *)
AtRest == [pc |-> "rest", key |-> Nil, level |-> 0, prev |-> <<>>]

(* prev[level] of FindGreaterOrEqual, for a writer whom nobody disturbs.    *)
RECURSIVE Before(_, _, _)
Before(x, level, key) == IF next[x][level] < key THEN Before(next[x][level], level, key) ELSE x
RECURSIVE Prevs(_, _, _)
Prevs(x, level, key) ==
  LET p == Before(x, level, key)
  IN  IF level = 0 THEN [l \in {0} |-> p]
      ELSE [l \in 0..level |-> IF l = level THEN p ELSE Prevs(p, level - 1, key)[l]]

Insert(key, h) ==
  /\ w.pc = "rest" /\ height[key] = 0
  /\ LET found == Prevs(Head, GetMaxHeight - 1, key)
         prev == [l \in 0..(h - 1) |-> IF l < GetMaxHeight THEN found[l] ELSE Head]
     IN  w' = [pc |-> "raise", key |-> key, level |-> h, prev |-> prev]
  /\ UNCHANGED <<next, height, heights, r>>

(* max_height_ is stored before any link, and the node is made.             *)
Raise ==
  /\ w.pc = "raise"
  /\ heights' = heights \cup (IF w.level > GetMaxHeight THEN {w.level} ELSE {})
  /\ height' = [height EXCEPT ![w.key] = w.level]
  /\ next' = [next EXCEPT ![w.key] = [l \in 0..(w.level - 1) |-> Nil]]
  /\ w' = [w EXCEPT !.pc = "own", !.level = 0]
  /\ UNCHANGED r

SetOwn ==
  /\ w.pc = "own"
  /\ next' = [next EXCEPT ![w.key][w.level] = next[w.prev[w.level]][w.level]]
  /\ w' = [w EXCEPT !.pc = "publish"]
  /\ UNCHANGED <<height, heights, r>>

(* Mutant: the links of a node are published from the highest level down.   *)
Publish_TopFirst ==
  /\ w.pc = "publish"
  /\ LET l == height[w.key] - 1 - w.level
     IN  next' = [next EXCEPT ![w.prev[l]][l] = w.key, ![w.key][l] = next[w.prev[l]][l]]
  /\ w' = (IF w.level + 1 = height[w.key] THEN AtRest ELSE [w EXCEPT !.pc = "own", !.level = @ + 1])
  /\ UNCHANGED <<height, heights, r>>

Publish ==
  /\ w.pc = "publish"
  /\ next' = [next EXCEPT ![w.prev[w.level]][w.level] = w.key]
  /\ w' = (IF w.level + 1 = height[w.key] THEN AtRest ELSE [w EXCEPT !.pc = "own", !.level = @ + 1])
  /\ UNCHANGED <<height, heights, r>>

-----------------------------------------------------------------------------
(* A level, as it is linked now.                                            *)
RECURSIVE From(_, _)
From(x, level) == IF x = Nil THEN {} ELSE {x} \cup From(next[x][level], level)
Linked(level) == From(Head, level) \ {Head}

(* The readers: had is what the list held when the search began.            *)
Unset == [pc |-> "idle", op |-> "none", target |-> Nil, x |-> Head, level |-> 0, at |-> Nil, had |-> {}]
Set(p, f) == r' = [r EXCEPT ![p] = f] /\ UNCHANGED <<next, height, heights, w>>

Search(p, op, target) ==
  /\ r[p].pc = "idle"
  /\ \E h \in heights :
       Set(p, [r[p] EXCEPT !.pc = "walk", !.op = op, !.target = target, !.x = Head, !.level = h - 1,
                           !.had = Linked(0)])

Seek(p, target) == Search(p, "atOrAfter", target)
Prev(p) == r[p].at # Nil /\ Search(p, "before", r[p].at)
SeekToLast(p) == Search(p, "before", Nil)    \* FindLast: every key is before NULL

(* One link is followed, or the search goes down a level.                   *)
Walk(p) ==
  /\ r[p].pc = "walk"
  /\ LET x == r[p].x
         n == next[x][r[p].level]
         here == IF r[p].op = "atOrAfter" THEN n ELSE IF x = Head THEN Nil ELSE x
     IN  Set(p, IF n < r[p].target THEN [r[p] EXCEPT !.x = n]
                ELSE IF r[p].level > 0 THEN [r[p] EXCEPT !.level = @ - 1]
                ELSE [r[p] EXCEPT !.pc = "idle", !.at = here])

Step(p, op, x) ==
  /\ r[p].pc = "idle"
  /\ Set(p, [r[p] EXCEPT !.op = op, !.target = x, !.at = next[x][0], !.had = Linked(0)])
SeekToFirst(p) == Step(p, "after", Head)
NextNode(p) == r[p].at # Nil /\ Step(p, "after", r[p].at)

-----------------------------------------------------------------------------
Init ==
  /\ next = [n \in Keys \cup {Head} |-> IF n = Head THEN [l \in Levels |-> Nil] ELSE <<>>]
  /\ height = [n \in Keys |-> 0]
  /\ heights = {1}
  /\ w = AtRest
  /\ r = [p \in Readers |-> Unset]

Write == Raise \/ SetOwn \/ Publish
Move(p) == SeekToLast(p) \/ SeekToFirst(p) \/ NextNode(p) \/ Prev(p) \/ Walk(p)
-----------------------------------------------------------------------------
(* The memtable: the writer adds entries with ascending sequence numbers    *)
(* while readers look keys up in a snapshot.                                *)
(* LastSequence of the database: it is set when the insertion is complete.  *)
Added == {k \in Keys : height[k] > 0} \ {w.key}
LastSequence == Cardinality(Added)

Add(user, type, h) ==
  /\ LastSequence < LastSeq
  /\ Insert(Rank(user, LastSequence + 1, type), h)

(* Get seeks the first entry of the user key that is no newer than the      *)
(* snapshot: target is the lookup key.                                      *)
Get(p, user, snapshot) == Seek(p, Rank(user, snapshot, Value))

Answer(p) ==
  IF r[p].at = Nil THEN "unknown"
  ELSE IF UserOf(r[p].at) # UserOf(r[p].target) THEN "unknown"
  ELSE IF TypeOf(r[p].at) = Value THEN "value" ELSE "deleted"

Next ==
  \/ \E user \in Users, type \in {Deletion, Value}, h \in 1..MaxHeight : Add(user, type, h)
  \/ Write
  \/ \E p \in Readers : Move(p) \/ \E user \in Users, snapshot \in 0..LastSequence : Get(p, user, snapshot)
Spec == Init /\ [][Next]_vars

-----------------------------------------------------------------------------
(* skiplist.h:16-28: while a node is being inserted, every level is a part  *)
(* of the level below it, and the lowest has every node that was inserted.  *)
LevelsNest ==
  /\ \A l \in 1..(MaxHeight - 1) : Linked(l) \subseteq Linked(l - 1)
  /\ {n \in Keys : height[n] > 0} \ {w.key} \subseteq Linked(0)
  /\ \A n \in Keys : height[n] > 0 /\ n # w.key => \A l \in 0..(height[n] - 1) : n \in Linked(l)

(* Whatever is inserted meanwhile, a search stops where it should among the *)
(* keys that the list held when it began, and at a node of the list.        *)
SearchRight ==
  \A p \in Readers : r[p].pc = "idle" /\ r[p].op # "none" =>
    LET at == r[p].at
        t == r[p].target
    IN  /\ at \in Linked(0) \cup {Nil}
        /\ r[p].op = "atOrAfter" => at >= t /\ \A k \in r[p].had : k >= t => at <= k
        /\ r[p].op = "after" => at > t /\ \A k \in r[p].had : k > t => at <= k
        /\ r[p].op = "before" =>
             IF at = Nil THEN \A k \in r[p].had : k >= t
             ELSE at < t /\ \A k \in r[p].had : k < t => k <= at

(* A search ends although the writer never waits for it.                    *)
SearchEnds == \A p \in Readers : r[p].pc = "walk" ~> r[p].pc = "idle"

(* memtable.h:52-55: a lookup answers what the newest entry of the key that *)
(* the snapshot covers says, whatever is being added.                       *)
SnapshotRead ==
  \A p \in Readers : r[p].pc = "idle" /\ r[p].op = "atOrAfter" =>
    LET t == r[p].target
        covered == {k \in Added : UserOf(k) = UserOf(t) /\ SeqOf(k) <= SeqOf(t)}
        newest == CHOOSE k \in covered : \A j \in covered : SeqOf(j) <= SeqOf(k)
    IN  Answer(p) = IF covered = {} THEN "unknown" ELSE IF TypeOf(newest) = Value THEN "value" ELSE "deleted"
=============================================================================
