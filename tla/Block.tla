--------------------------------- MODULE Block ---------------------------------
(* An iterator over a block that BlockBuilder made, whole or with one cell  *)
(* changed (table/block_builder.cc, table/block.cc).                        *)
EXTENDS BlockFormat

CONSTANTS UserKeys,
          MaxEntries,   \* bound: entries in the block
          Values,       \* values, which may be empty
          Damage        \* what a cell may be changed to; {} for a whole block

VARIABLES entries,   \* what was added, in order
          data,      \* the block
          it         \* the iterator

vars == <<entries, data, it>>

Build(es) == FinishBlock(FoldLeft(LAMBDA b, e : AddTo(b, Interval, e.key, e.value), EmptyBlock, es))

(* Sorted sequences of entries; the values go round.                        *)
Sorted(keys) ==
  LET order == SetToSortSeq(keys, LAMBDA a, b : Compare(a, b) < 0)
  IN  [i \in DOMAIN order |-> [key |-> order[i], value |-> Values[1 + (i % Len(Values))]]]

Init ==
  /\ entries \in {Sorted(keys) : keys \in {s \in SUBSET UserKeys : Cardinality(s) <= MaxEntries}}
  /\ IF Damage = {} THEN data = Build(entries)
     ELSE \E i \in DOMAIN Build(entries), c \in Damage : data = [Build(entries) EXCEPT ![i] = c]
  /\ it = NewIter(data)

Move(to) == it' = to /\ UNCHANGED <<entries, data>>

First == Move(SeekToFirst(data, it))
AtLast == Move(SeekToLast(data, it))
SeekKey(k) == Move(Seek(data, it, k))
Forward == Valid(it) /\ Move(Parse(data, it))
Back == Valid(it) /\ Move(Prev(data, it))

Next == First \/ AtLast \/ Forward \/ Back \/ \E k \in UserKeys : SeekKey(k)
Spec == Init /\ [][Next]_vars

-----------------------------------------------------------------------------
AtOrPast(entry, t) == Order(entry.key, t) >= 0
Here == {i \in DOMAIN entries : entries[i] = [key |-> it.key, value |-> Value(data, it)]}
Pos == IF ~Valid(it) THEN 0 ELSE IF Here = {} THEN -1 ELSE Max(Here)
Source == INSTANCE Cursor WITH Targets <- UserKeys, pos <- Pos

(* Over a whole block the iterator is the cursor of iterator.h, each        *)
(* operation that of its name, and has no error: restart points and shared  *)
(* prefixes never show.                                                     *)
Implements ==
  /\ Source!Spec /\ []it.ok
  /\ [][/\ First => Source!SeekToFirst
        /\ AtLast => Source!SeekToLast
        /\ Forward => Source!NextEntry
        /\ Back => Source!Prev]_vars

(* block.cc:40-45: whatever the cells hold, what is read lies in the block. *)
InBounds == Valid(it) => it.at + it.size <= it.restarts

(* Every walk over a damaged block ends: each step that leaves the iterator *)
(* somewhere leaves it further in its direction.                            *)
WalksEnd ==
  Valid(it) => /\ LET n == Parse(data, it) IN Valid(n) => n.current > it.current
               /\ LET p == Prev(data, it) IN Valid(p) => p.current < it.current
=============================================================================
