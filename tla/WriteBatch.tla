------------------------------ MODULE WriteBatch ------------------------------
(* A batch of updates as the bytes that go to the log (db/write_batch.cc):  *)
(* a sequence number, a count and the records.                              *)
EXTENDS Coding

CONSTANTS Keys, Values,
          MaxBytes   \* bound: length of a batch

Deletion == 0
Value == 1
Header == FixedLen(Bits64) + FixedLen(Bits32)

VARIABLES rep,       \* the bytes of two batches
          ops        \* what was asked of each

vars == <<rep, ops>>

-----------------------------------------------------------------------------
Sequence(r) == FromFixed(SubSeq(r, 1, FixedLen(Bits64)))
Count(r) == FromFixed(SubSeq(r, FixedLen(Bits64) + 1, Header))
SetSequence(r, s) == Fixed(s, Bits64) \o Drop(r, FixedLen(Bits64))
SetCount(r, n) == SubSeq(r, 1, FixedLen(Bits64)) \o Fixed(n, Bits32) \o Drop(r, Header)
Clear == [i \in 1..Header |-> 0]

Put(r, k, v) == SetCount(r, Count(r) + 1) \o <<Value>> \o Prefixed(k) \o Prefixed(v)
Delete(r, k) == SetCount(r, Count(r) + 1) \o <<Deletion>> \o Prefixed(k)

AppendTo(dst, source) == SetCount(dst, Count(dst) + Count(source)) \o Drop(source, Header)

Op(type, k, v) == [type |-> type, key |-> k, value |-> v]

(* Iterate: a handler gets the records up to the first that is bad; the     *)
(* count is looked at last.                                                 *)
RECURSIVE Records(_, _)
Records(s, got) ==
  LET bad == [ok |-> FALSE, got |-> got]
      Valued(k, v) == IF v.ok THEN Records(v.rest, Append(got, Op(Value, k, v.value))) ELSE bad
      Keyed(k) == IF ~k.ok THEN bad
                  ELSE IF Head(s) = Value THEN Valued(k.value, GetPrefixed(k.rest))
                  ELSE Records(k.rest, Append(got, Op(Deletion, k.value, <<>>)))
  IN  IF s = <<>> THEN [ok |-> TRUE, got |-> got]
      ELSE IF Head(s) \notin {Value, Deletion} THEN bad ELSE Keyed(GetPrefixed(Tail(s)))

Iterate(r) ==
  LET Counted(all) == [all EXCEPT !.ok = @ /\ Len(all.got) = Count(r)]
  IN  IF Len(r) < Header THEN [ok |-> FALSE, got |-> <<>>] ELSE Counted(Records(Drop(r, Header), <<>>))

(* What a memtable gets: each record at a sequence number of its own.       *)
InsertInto(r) ==
  LET Numbered(i) == [i EXCEPT !.got = [n \in DOMAIN @ |-> [seq |-> Sequence(r) + n - 1, op |-> @[n]]]]
  IN  Numbered(Iterate(r))

-----------------------------------------------------------------------------
Init == rep = <<Clear, Clear>> /\ ops = <<<<>>, <<>>>>

Fits(r) == Len(r) <= MaxBytes
Change(b, r, o) == Fits(r) /\ rep' = [rep EXCEPT ![b] = r] /\ ops' = [ops EXCEPT ![b] = o]

PutIn(b, k, v) == Change(b, Put(rep[b], k, v), Append(ops[b], Op(Value, k, v)))
DeleteIn(b, k) == Change(b, Delete(rep[b], k), Append(ops[b], Op(Deletion, k, <<>>)))
ClearOf(b) == Change(b, Clear, <<>>)
AppendBatch == Change(1, AppendTo(rep[1], rep[2]), ops[1] \o ops[2])
Stamp(s) == Change(1, SetSequence(rep[1], s), ops[1])

Next ==
  \/ \E b \in 1..2, k \in Keys : DeleteIn(b, k) \/ \E v \in Values : PutIn(b, k, v)
  \/ \E b \in 1..2 : ClearOf(b)
  \/ \E s \in {5} : Stamp(s)
  \/ AppendBatch
Spec == Init /\ [][Next]_vars

-----------------------------------------------------------------------------
(* write_batch.h:26-29: the updates are applied in the order in which they  *)
(* were added, batches that were joined too, and each has a sequence number *)
(* of its own, from the one that the batch was given.                       *)
InOrder ==
  \A b \in 1..2 :
    LET i == InsertInto(rep[b])
    IN  i.ok /\ i.got = [n \in DOMAIN ops[b] |-> [seq |-> Sequence(rep[b]) + n - 1, op |-> ops[b][n]]]

(* A batch of which the end is missing, in a log that is not checked, is an *)
(* error, and what was applied before that was noticed is a beginning of it. *)
CutIsNoticed ==
  \A n \in 0..(Len(rep[1]) - 1) :
    LET i == Iterate(SubSeq(rep[1], 1, n))
    IN  ~i.ok /\ IsPrefix(i.got, ops[1])
=============================================================================
