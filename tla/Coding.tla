-------------------------------- MODULE Coding --------------------------------
(* leveldb's numbers and strings as bytes (util/coding.cc, util/logging.cc): *)
(* a varint has one bit of each byte for "more follows".                    *)
EXTENDS Integers, Sequences, SequencesExt

CONSTANTS Group,    \* bits of a varint's byte, 7
          Bits32, Bits64,   \* width of uint32_t and of uint64_t
          Ten       \* the base of numbers in file names

Cont == 2 ^ Group
ByteSize == 2 * Cont
Bytes == 0..(ByteSize - 1)
Groups(bits) == (bits + Group - 1) \div Group

-----------------------------------------------------------------------------
(* A fixed number of bytes, the lowest first.                               *)
FixedLen(bits) == bits \div (Group + 1)
Fixed(v, bits) == [i \in 1..FixedLen(bits) |-> (v \div (ByteSize ^ (i - 1))) % ByteSize]
FromFixed(s) == FoldLeft(LAMBDA v, b : (v * ByteSize) + b, 0, Reverse(s))

(* VarintLength counts the groups from the lowest to the last that is not 0. *)
VarintLength(v) == CHOOSE n \in 1..Groups(Bits64) : v < Cont ^ n /\ (n = 1 \/ v >= Cont ^ (n - 1))

Varint(v) ==
  LET n == VarintLength(v)
  IN  [i \in 1..n |-> ((v \div (Cont ^ (i - 1))) % Cont) + (IF i < n THEN Cont ELSE 0)]

Failed == [ok |-> FALSE, value |-> 0, rest |-> <<>>]
Drop(s, n) == SubSeq(s, n + 1, Len(s))

(* The number of the first n bytes, less the bits it has no room for, which *)
(* are shifted out; ends has the first byte that does not go on, if any.    *)
VarintOf(s, n, bits) ==
  [ok |-> TRUE, rest |-> Drop(s, n),
   value |-> FoldLeft(LAMBDA acc, b : (acc * Cont) + (b % Cont), 0, Reverse(SubSeq(s, 1, n))) % (2 ^ bits)]
Ends(s, most) == {n \in 1..most : n <= Len(s) /\ s[n] < Cont /\ \A i \in 1..(n - 1) : s[i] >= Cont}
UpTo(s, ends, bits) == IF ends = {} THEN Failed ELSE VarintOf(s, CHOOSE n \in ends : TRUE, bits)

GetVarint(s, bits) == UpTo(s, Ends(s, Groups(bits)), bits)

Prefixed(s) == Varint(Len(s)) \o s
GetPrefixed(s) ==
  LET After(l) == IF ~l.ok \/ Len(l.rest) < l.value THEN Failed
                  ELSE [ok |-> TRUE, value |-> SubSeq(l.rest, 1, l.value), rest |-> Drop(l.rest, l.value)]
  IN  After(GetVarint(s, Bits32))

-----------------------------------------------------------------------------
(* Decimal numbers: the digits of v, as AppendNumberTo writes them, and how *)
(* they are read, with the test that keeps v within 64 bits.                *)
RECURSIVE Decimal(_)
Decimal(v) == IF v < Ten THEN <<v>> ELSE Append(Decimal(v \div Ten), v % Ten)

MaxNumber == (2 ^ Bits64) - 1

TooBig(v, digit) == v > MaxNumber \div Ten \/ (v = MaxNumber \div Ten /\ digit > MaxNumber % Ten)

RECURSIVE Digits(_, _, _)
Digits(s, v, n) ==
  IF s = <<>> \/ Head(s) \notin 0..(Ten - 1)
  THEN [ok |-> n > 0, value |-> v, rest |-> s]
  ELSE IF TooBig(v, Head(s)) THEN Failed
       ELSE Digits(Tail(s), ((v * Ten) + Head(s)) % (2 ^ Bits64), n + 1)
ConsumeDecimalNumber(s) == Digits(s, 0, 0)

(* File names: a number and a suffix, or a fixed name; the suffixes and the *)
(* names are characters of their own here, past the digits, and stand for   *)
(* the types too. %06llu is two digits.                                     *)
Current == Ten
DBLock == Ten + 1
InfoLog == Ten + 2
Descriptor == Ten + 3
Log == Ten + 4
Table == Ten + 5
TempFile == Ten + 6

Padded(n) == IF n < Ten THEN <<0>> \o Decimal(n) ELSE Decimal(n)
FileName(type, n) ==
  CASE type \in {Current, DBLock, InfoLog} -> <<type>>
    [] type = Descriptor -> <<Descriptor>> \o Padded(n)
    [] OTHER -> Append(Padded(n), type)
ParseFileName(s) ==
  LET no == [ok |-> FALSE, type |-> 0, value |-> 0]
      Named(type, n, rests) ==
        IF n.ok /\ n.rest \in rests THEN [ok |-> TRUE, type |-> type, value |-> n.value] ELSE no
  IN  CASE s = <<>> -> no
        [] s # <<>> /\ s \in {<<Current>>, <<DBLock>>, <<InfoLog>>} -> [ok |-> TRUE, type |-> s[1], value |-> 0]
        [] s # <<>> /\ s[1] = Descriptor -> Named(Descriptor, ConsumeDecimalNumber(Tail(s)), {<<>>})
        [] OTHER -> Named(Last(s), ConsumeDecimalNumber(s), {<<Log>>, <<Table>>, <<TempFile>>})
=============================================================================
