--------------------------------- MODULE Keys ---------------------------------
(* leveldb's keys: user keys are strings of bytes in their order; internal  *)
(* keys end in a tag, the packed sequence number and type, and a higher tag *)
(* comes first (util/comparator.cc, db/dbformat.cc).                        *)
EXTENDS Integers, Sequences, SequencesExt, FiniteSetsExt, FiniteSets

CONSTANTS LastByte,   \* 0xff
          LastSeq     \* kMaxSequenceNumber

KeysAssumption == LastByte \in Nat /\ LastSeq \in Nat

TypeForSeek == 1

(* PackSequenceAndType, with one bit for the type instead of eight.         *)
Pack(seq, type) == 2 * seq + type
MaxTag == Pack(LastSeq, TypeForSeek)
MakeKey(user, seq, type) == Append(user, Pack(seq, type))
UserKey(k) == Front(k)
Tag(k) == Last(k)
Parsed(k) == [user |-> UserKey(k), seq |-> Tag(k) \div 2, type |-> Tag(k) % 2]

Shared(a, b) ==
  Max({n \in 0..Len(a) : n <= Len(b) /\ SubSeq(a, 1, n) = SubSeq(b, 1, n)})

(* Slice::compare: -1, 0 or 1.                                              *)
Compare(a, b) ==
  LET n == Shared(a, b)
  IN  IF a = b THEN 0
      ELSE IF n = Len(a) THEN -1
      ELSE IF n = Len(b) THEN 1
      ELSE IF a[n + 1] < b[n + 1] THEN -1 ELSE 1

(* Mutant: the byte may become the limit's own.                             *)
Separator_Touches(start, limit) ==
  LET n == Shared(start, limit)
  IN  IF n < Len(start) /\ n < Len(limit) /\ start[n + 1] < LastByte /\ start[n + 1] + 1 <= limit[n + 1]
      THEN Append(SubSeq(start, 1, n), start[n + 1] + 1)
      ELSE start

Separator(start, limit) ==
  LET n == Shared(start, limit)
  IN  IF n < Len(start) /\ n < Len(limit) /\ start[n + 1] < LastByte /\ start[n + 1] + 1 < limit[n + 1]
      THEN Append(SubSeq(start, 1, n), start[n + 1] + 1)
      ELSE start

Successor(k) ==
  LET raisable == {i \in DOMAIN k : k[i] # LastByte}
      i == Min(raisable)
  IN  IF raisable = {} THEN k ELSE Append(SubSeq(k, 1, i - 1), k[i] + 1)

CompareInternal(a, b) ==
  LET r == Compare(UserKey(a), UserKey(b))
  IN  IF r # 0 THEN r ELSE IF Tag(a) > Tag(b) THEN -1 ELSE IF Tag(a) < Tag(b) THEN 1 ELSE 0

(* The shortened user key gets the tag that comes first.                    *)
Shorten(k, user) ==
  IF Len(user) < Len(UserKey(k)) /\ Compare(UserKey(k), user) < 0 THEN Append(user, MaxTag) ELSE k
SeparatorInternal(start, limit) == Shorten(start, Separator(UserKey(start), UserKey(limit)))
SuccessorInternal(k) == Shorten(k, Successor(UserKey(k)))

LookupKey(user, seq) == MakeKey(user, seq, TypeForSeek)
=============================================================================
