------------------------------ MODULE BlockFormat ------------------------------
(* A block of a leveldb table: entries whose keys share a prefix with the   *)
(* one before, and the offsets of the entries that share none. A block is a *)
(* sequence of cells: a varint, a fixed word or a byte is one cell, so a    *)
(* block ends in one cell for each restart point and one for their number.  *)
(* Lengths stay below 128, the fast path of DecodeEntry.                    *)
EXTENDS Keys

CONSTANTS Interval,      \* block_restart_interval
          Order(_, _)    \* the comparator

BlockAssumption == Interval \in Nat \ {0}

-----------------------------------------------------------------------------
(* BlockBuilder                                                             *)
EmptyBlock == [buffer |-> <<>>, restarts |-> <<0>>, counter |-> 0, last |-> <<>>]

(* A restart after every so many entries: 1 in an index block.              *)
AddTo(b, every, k, v) ==
  LET restart == b.counter = every
      n == IF restart THEN 0 ELSE Shared(b.last, k)
      body == <<n, Len(k) - n, Len(v)>> \o SubSeq(k, n + 1, Len(k)) \o v
  IN  [buffer |-> b.buffer \o body, last |-> k,
       restarts |-> IF restart THEN Append(b.restarts, Len(b.buffer)) ELSE b.restarts,
       counter |-> IF restart THEN 1 ELSE b.counter + 1]

SizeEstimate(b) == Len(b.buffer) + Len(b.restarts) + 1
FinishBlock(b) == b.buffer \o b.restarts \o <<Len(b.restarts)>>

-----------------------------------------------------------------------------
(* Block: offsets count from 0.                                             *)
NumRestarts(data) == data[Len(data)]
BadBlock(data) == data = <<>> \/ NumRestarts(data) > Len(data) - 1
RestartOffset(data) == Len(data) - (1 + NumRestarts(data))
RestartPoint(data, i) == data[RestartOffset(data) + i + 1]

(* The three lengths of the entry at an offset, and where its key begins.   *)
NoEntry == [ok |-> FALSE, shared |-> 0, own |-> 0, value |-> 0, at |-> 0]

DecodeEntry(data, at) ==
  LET limit == RestartOffset(data)
  IN  IF limit - at < 3 THEN NoEntry
      ELSE [ok |-> data[at + 2] + data[at + 3] <= limit - (at + 3), shared |-> data[at + 1],
            own |-> data[at + 2], value |-> data[at + 3], at |-> at + 3]
Cells(data, at, n) == SubSeq(data, at + 1, at + n)

-----------------------------------------------------------------------------
(* Block::Iter: the value is where it lies in the block. An iterator of no  *)
(* block, empty or of an error, has no restart points.                      *)
NoIter(ok) == [restarts |-> 0, num |-> 0, current |-> 0, index |-> 0, key |-> <<>>,
               at |-> 0, size |-> 0, ok |-> ok]
NewIter(data) ==
  IF BadBlock(data) THEN NoIter(FALSE)
  ELSE IF NumRestarts(data) = 0 THEN NoIter(TRUE)
  ELSE [NoIter(TRUE) EXCEPT !.restarts = RestartOffset(data), !.num = NumRestarts(data),
          !.current = RestartOffset(data), !.index = NumRestarts(data)]

Valid(it) == it.current < it.restarts
Value(data, it) == Cells(data, it.at, it.size)
NextOffset(it) == it.at + it.size
End(it) == [it EXCEPT !.current = it.restarts, !.index = it.num]
Corrupt(it) == [End(it) EXCEPT !.ok = FALSE, !.key = <<>>, !.size = 0]

SeekToRestart(data, it, i) ==
  [it EXCEPT !.key = <<>>, !.index = i, !.at = RestartPoint(data, i), !.size = 0]

(* The last restart point before the entry, from the current one on.        *)
RECURSIVE Region(_, _, _)
Region(data, current, i) ==
  IF i + 1 < NumRestarts(data) /\ RestartPoint(data, i + 1) < current
  THEN Region(data, current, i + 1) ELSE i

ParseAt(data, it, at, e) ==
  IF ~e.ok \/ Len(it.key) < e.shared THEN Corrupt(it)
  ELSE [it EXCEPT !.current = at, !.key = SubSeq(@, 1, e.shared) \o Cells(data, e.at, e.own),
          !.at = e.at + e.own, !.size = e.value, !.index = Region(data, at, @)]
Parse(data, it) ==
  LET at == NextOffset(it)
  IN  IF at >= it.restarts THEN End(it) ELSE ParseAt(data, it, at, DecodeEntry(data, at))

(* Goes on until an entry ends at an offset or past it; until a key is at   *)
(* or past the target.                                                      *)
RECURSIVE StepTo(_, _, _)
StepTo(data, it, offset) ==
  IF Valid(it) /\ NextOffset(it) < offset THEN StepTo(data, Parse(data, it), offset) ELSE it
ParseTo(data, it, offset) == StepTo(data, Parse(data, it), offset)

RECURSIVE StepUntil(_, _, _)
StepUntil(data, it, target) ==
  IF Valid(it) /\ Order(it.key, target) < 0 THEN StepUntil(data, Parse(data, it), target) ELSE it

(* The restart points are searched by halving: -1 when one is corrupt.      *)
RECURSIVE Halve(_, _, _, _)
Halve(data, target, left, right) ==
  LET mid == (left + right + 1) \div 2
      e == DecodeEntry(data, RestartPoint(data, mid))
  IN  IF left >= right THEN left
      ELSE IF ~e.ok \/ e.shared # 0 THEN -1
      ELSE IF Order(Cells(data, e.at, e.own), target) < 0 THEN Halve(data, target, mid, right)
      ELSE Halve(data, target, left, mid - 1)

SeekFrom(data, it, left, target) ==
  IF left = -1 THEN Corrupt(it) ELSE StepUntil(data, Parse(data, SeekToRestart(data, it, left)), target)
Seek(data, it, target) ==
  IF it.num = 0 THEN it ELSE SeekFrom(data, it, Halve(data, target, 0, it.num - 1), target)

SeekToFirst(data, it) == IF it.num = 0 THEN it ELSE Parse(data, SeekToRestart(data, it, 0))
SeekToLast(data, it) ==
  IF it.num = 0 THEN it ELSE ParseTo(data, SeekToRestart(data, it, it.num - 1), it.restarts)

Prev(data, it) ==
  LET before == {i \in 0..it.index : RestartPoint(data, i) < it.current}
  IN  IF before = {} THEN End(it) ELSE ParseTo(data, SeekToRestart(data, it, Max(before)), it.current)
=============================================================================
