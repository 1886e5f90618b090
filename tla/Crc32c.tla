-------------------------------- MODULE Crc32c --------------------------------
(* The checksum of util/crc32c.cc. A word is the set of its bits that are 1, *)
(* 0 the lowest; it is four bytes wide.                                     *)
EXTENDS Integers, Sequences, SequencesExt, FiniteSetsExt

CONSTANTS ByteBits, Poly,
          Rotation,   \* of Mask, 15 bits of 32
          MaskDelta

Bits == 4 * ByteBits
Words == SUBSET (0..(Bits - 1))
Bytes == SUBSET (0..(ByteBits - 1))
Ones == 0..(Bits - 1)
Xor(a, b) == (a \ b) \cup (b \ a)
Right(w, n) == {b - n : b \in {x \in w : x >= n}}
Left(w, n) == {b + n : b \in {x \in w : x + n < Bits}}
Byte(w, i) == {b \in Right(w, i * ByteBits) : b < ByteBits}

(* The tables hold what the zero bits that follow a byte make of it: one    *)
(* byte of them for table0_, four for table3_.                              *)
RECURSIVE Divide(_, _)
Divide(w, n) ==
  IF n = 0 THEN w ELSE Divide(IF 0 \in w THEN Xor(Right(w, 1), Poly) ELSE Right(w, 1), n - 1)
table0 == [c \in Bytes |-> Divide(c, ByteBits)]
table1 == [c \in Bytes |-> Divide(c, 2 * ByteBits)]
table2 == [c \in Bytes |-> Divide(c, 3 * ByteBits)]
table3 == [c \in Bytes |-> Divide(c, 4 * ByteBits)]

Load(s, p) == UNION {Left(s[p + i], i * ByteBits) : i \in 0..3}

(* Mutant: half of each byte is left out.                                   *)
Step1_Half(l, s, p) == Xor(table0[Xor(Byte(l, 0), s[p] \cap {0})], Right(l, ByteBits))

Step1(l, s, p) == Xor(table0[Xor(Byte(l, 0), s[p])], Right(l, ByteBits))

Step4(l, s, p) ==
  LET c == Xor(l, Load(s, p))
  IN  Xor(Xor(table3[Byte(c, 0)], table2[Byte(c, 1)]), Xor(table1[Byte(c, 2)], table0[Byte(c, 3)]))

(* Single bytes up to x, where the address is a multiple of four, if that   *)
(* lies in s; then words of four bytes; then what is left. The first byte   *)
(* lies at address at.                                                      *)
RECURSIVE Steps(_, _, _, _)
Steps(l, s, p, x) ==
  IF p > Len(s) THEN l
  ELSE IF p < x \/ Len(s) - p + 1 < 4 THEN Steps(Step1(l, s, p), s, p + 1, x)
  ELSE Steps(Step4(l, s, p), s, p + 4, x)

Extend(crc, s, at) ==
  LET aligned == 1 + ((4 - (at % 4)) % 4)
  IN  Xor(Steps(Xor(crc, Ones), s, 1, IF aligned <= Len(s) + 1 THEN aligned ELSE 1), Ones)

-----------------------------------------------------------------------------
ToNumber(w) == FoldSet(LAMBDA b, n : n + (2 ^ b), 0, w)
ToWord(n) == {b \in 0..(Bits - 1) : (n \div (2 ^ b)) % 2 = 1}
Rotate(w, n) == Right(w, n) \cup Left(w, Bits - n)

Mask(w) == ToWord((ToNumber(Rotate(w, Rotation)) + MaskDelta) % (2 ^ Bits))
Unmask(w) == Rotate(ToWord((ToNumber(w) + (2 ^ Bits) - MaskDelta) % (2 ^ Bits)), Bits - Rotation)
=============================================================================
