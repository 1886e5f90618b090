------------------------------ MODULE MCFormats ------------------------------
(* What is written as bytes and read back: part is the format that a        *)
(* behaviour uses, and the others stay as they begin.  Inputs come one      *)
(* after another.                                                           *)
EXTENDS Integers, Sequences, FiniteSets, SequencesExt, FiniteSetsExt

VARIABLES part,
  start, limit,                     \* internal keys
  item,                             \* numbers, strings, edits and file names
  rep, ops,                         \* WriteBatch
  word, at,                         \* a string to be checksummed, its address
  raw, text, size                   \* base64

-----------------------------------------------------------------------------
(* Every pair of internal keys of user keys of at most two of four bytes.   *)
K == INSTANCE Keys WITH LastByte <- 3, LastSeq <- 3
InternalKeys ==
  {K!MakeKey(u, s, t) : u \in UNION {[1..n -> 0..3] : n \in 0..2}, s \in {0, 3}, t \in {0, 1}}
Pair == start' \in InternalKeys /\ UNCHANGED limit

(* Numbers of nine bits, strings of up to four bytes of three bits, digits, *)
(* and edits with every field there or not.                                 *)
E == INSTANCE VersionEdit WITH Group <- 2, Bits32 <- 6, Bits64 <- 9, Ten <- 3, NumLevels <- 3
Strings(n, of) == UNION {[1..i -> of] : i \in 0..n}
Perhaps == {E!None, E!Some(0), E!Some(E!MaxNumber)}
Ends == {<<>>, <<1, 7>>}
Files == {E!File(l, 5, E!MaxNumber - 5, a, b) : l \in {0, 2}, a \in Ends, b \in Ends}
Edits == {[E!Fresh EXCEPT !.comparator = c, !.log = l, !.prev = p, !.next = n, !.last = E!Some(9),
                          !.pointers = q, !.deleted = d, !.new = f] :
  c \in {E!Unnamed, E!Some(<<3>>)}, l \in Perhaps, p \in Perhaps, n \in {E!None, E!Some(4)},
  q \in {<<>>, <<<<1, <<2>>>>, <<0, <<>>>>>>}, d \in {{}, {<<1, 7>>, <<0, 8>>, <<1, 6>>}},
  f \in {<<>>} \cup {<<g>> : g \in Files} \cup {<<g, g>> : g \in Files}}
Item(i) == item.kind = "none" /\ item' = i
AnItem ==
  \/ \E v \in 0..E!MaxNumber : Item([kind |-> "number", v |-> v])
  \/ \E s \in Strings(4, E!Bytes) : Item([kind |-> "bytes", s |-> s])
  \/ \E s \in Strings(6, 0..2) : Item([kind |-> "digits", s |-> s])
  \/ \E e \in Edits : Item([kind |-> "edit", e |-> e])

(* Two batches of up to fifteen bytes, five of them the header.             *)
BatchKeys == {<<>>, <<1, 6>>}
BatchValues == {<<>>, <<0>>}
Batch == INSTANCE WriteBatch WITH Group <- 2, Bits32 <- 6, Bits64 <- 9, Ten <- 3,
  Keys <- BatchKeys, Values <- BatchValues, MaxBytes <- 15

(* Strings of up to five bytes of two bits at each alignment, in words of    *)
(* eight bits; x^8 + x^4 + x^3 + x^2 + 1 for the polynomial.                *)
Polynomial == {7, 5, 4, 3}
Crc == INSTANCE Crc32c WITH ByteBits <- 2, Poly <- Polynomial, Rotation <- 3, MaskDelta <- 162
Longer == Len(word) < 5 /\ \E b \in Crc!Bytes : word' = Append(word, b) /\ UNCHANGED at

(* Up to four bytes to be encoded, or a text of up to five of seven          *)
(* characters to be decoded, and every size of the target.                  *)
B == INSTANCE Base64
MoreBytes == text = <<>> /\ Len(raw) < 4 /\ \E b \in B!Byte : raw' = Append(raw, b) /\ UNCHANGED <<text, size>>
MoreText ==
  raw = <<>> /\ Len(text) < 5 /\ \E c \in {0, 1, 4, 7, 8, 9, 10} : text' = Append(text, c) /\ UNCHANGED <<raw, size>>

ASSUME K!KeysAssumption

-----------------------------------------------------------------------------
keyVars == <<start, limit>>
batchVars == <<rep, ops>>
crcVars == <<word, at>>
textVars == <<raw, text, size>>
vars == <<part, keyVars, item, batchVars, crcVars, textVars>>

Init ==
  /\ part \in {"keys", "edits", "batch", "crc", "text"}
  /\ start = <<0>> /\ IF part = "keys" THEN limit \in InternalKeys ELSE limit = <<0>>
  /\ item = [kind |-> "none"]
  /\ Batch!Init
  /\ word = <<>> /\ IF part = "crc" THEN at \in 0..3 ELSE at = 0
  /\ raw = <<>> /\ text = <<>> /\ IF part = "text" THEN size \in 0..7 ELSE size = 0

Next ==
  /\ UNCHANGED part
  /\ \/ part = "keys" /\ start = <<0>> /\ Pair /\ UNCHANGED <<item, batchVars, crcVars, textVars>>
     \/ part = "edits" /\ AnItem /\ UNCHANGED <<keyVars, batchVars, crcVars, textVars>>
     \/ part = "batch" /\ Batch!Next /\ UNCHANGED <<keyVars, item, crcVars, textVars>>
     \/ part = "crc" /\ Longer /\ UNCHANGED <<keyVars, item, batchVars, textVars>>
     \/ /\ part = "text" /\ (MoreBytes \/ MoreText)
        /\ UNCHANGED <<keyVars, item, batchVars, crcVars>>

Spec == Init /\ [][Next]_vars

-----------------------------------------------------------------------------
(* comparator.h:42-56, table_builder.cc:32-37: what stands for a block in   *)
(* the index is at or past its last key and before the next block's first,  *)
(* with the order of internal keys as with that of user keys; the successor *)
(* of a key is not before it.                                               *)
SplitsAt(s, t) ==
  /\ K!CompareInternal(s, t) < 0 =>
       /\ K!CompareInternal(s, K!SeparatorInternal(s, t)) <= 0
       /\ K!CompareInternal(K!SeparatorInternal(s, t), t) < 0
       /\ Len(K!SeparatorInternal(s, t)) <= Len(s)
  /\ K!Compare(K!UserKey(s), K!UserKey(t)) < 0 =>
       /\ K!Compare(K!UserKey(s), K!Separator(K!UserKey(s), K!UserKey(t))) <= 0
       /\ K!Compare(K!Separator(K!UserKey(s), K!UserKey(t)), K!UserKey(t)) < 0
NotBefore(k) ==
  /\ K!CompareInternal(k, K!SuccessorInternal(k)) <= 0
  /\ K!Compare(K!UserKey(k), K!Successor(K!UserKey(k))) <= 0

(* A lookup at a sequence number comes before every version of the key that *)
(* is no newer and after every newer one, however tags are packed.          *)
LookupSplits(k, seq) ==
  /\ K!MakeKey(K!UserKey(k), K!Parsed(k).seq, K!Parsed(k).type) = k
  /\ (K!CompareInternal(K!LookupKey(K!UserKey(k), seq), k) <= 0) = (K!Parsed(k).seq <= seq)
KeysOrdered ==
  part = "keys" /\ limit # <<0>> =>
    /\ NotBefore(limit)
    /\ start # <<0>> => SplitsAt(start, limit) /\ LookupSplits(limit, K!Parsed(start).seq)

(* coding.h:28-39: what was put is got back, with what comes after it; cut  *)
(* short, it is refused.  A number that is read takes no more bytes than    *)
(* its type can need, whatever they are.                                    *)
GotBack(v) ==
  LET s == E!Varint(v)
  IN  /\ E!GetVarint(s \o <<E!Cont, 1>>, 9) = [ok |-> TRUE, value |-> v, rest |-> <<E!Cont, 1>>]
      /\ E!FromFixed(E!Fixed(v, 9)) = v
      /\ \A n \in 0..(Len(s) - 1) : ~E!GetVarint(SubSeq(s, 1, n), 9).ok
      /\ v < 2 ^ 6 => E!GetVarint(s, 6).value = v
TakesFew(s) ==
  \A bits \in {6, 9} :
    LET g == E!GetVarint(s, bits)
    IN  g.ok => g.value < 2 ^ bits /\ Len(s) - Len(g.rest) <= E!Groups(bits)

(* logging.h:35-38: a number is read right or not at all, and what is left  *)
(* begins where it ends; a file name gives back its type and number.        *)
Exact(s) ==
  LET v == FoldLeft(LAMBDA a, d : (a * 3) + d, 0, s)
      g == E!ConsumeDecimalNumber(s \o <<E!Log>>)
  IN  IF s # <<>> /\ v <= E!MaxNumber THEN g.value = v /\ g.rest = <<E!Log>> ELSE ~g.ok
Named(v) ==
  \A t \in E!Current..E!TempFile :
    LET p == E!ParseFileName(E!FileName(t, v)) IN p.ok /\ p.type = t /\ p.value \in {0, v}

(* version_set.cc:806, 924: the edit that is read from a descriptor is the  *)
(* one that was logged, and an accepted string is one that an edit has;     *)
(* write_batch.h:26: updates are applied in the order in which they were    *)
(* added, in batches that were joined too, and a batch of which the end is  *)
(* missing is an error after a beginning of it was applied.                 *)
Accepted(s) ==
  LET d == E!DecodeFrom(s)
  IN  d.ok => E!DecodeFrom(E!EncodeTo(d.edit)) = d /\ \A i \in DOMAIN d.edit.new : d.edit.new[i].level < 3
RecordsReadBack ==
  /\ item.kind = "number" => GotBack(item.v) /\ Named(item.v)
  /\ item.kind = "bytes" => TakesFew(item.s) /\ Accepted(item.s)
  /\ item.kind = "digits" => Exact(item.s)
  /\ item.kind = "edit" => E!DecodeFrom(E!EncodeTo(item.e)) = [ok |-> TRUE, edit |-> item.e]
  /\ part = "batch" => Batch!InOrder /\ Batch!CutIsNoticed

(* The remainder of the bits of s by the polynomial, one bit at a time.     *)
Bit(l, b) == LET r == Crc!Right(l, 1) IN IF (0 \in l) # b THEN Crc!Xor(r, Polynomial) ELSE r
BitsOf(t) == FlattenSeq([i \in DOMAIN t |-> [j \in 1..2 |-> (j - 1) \in t[i]]])
Remainder(t) == Crc!Xor(FoldLeft(Bit, Crc!Ones, BitsOf(t)), Crc!Ones)
ValueOf(t) == Crc!Extend({}, t, 0)

(* crc32c.h:14-20: the checksum is that of the bytes, wherever they lie and *)
(* by however many the loops take them, and one can be extended by a        *)
(* string; a string of which one byte was changed has another, what the     *)
(* models of the log and of tables take for granted; a masked one is got    *)
(* back.                                                                    *)
ChecksumSees ==
  part = "crc" =>
    /\ Crc!Extend({}, word, at) = Remainder(word)
    /\ \A n \in 0..Len(word) :
         Crc!Extend(Crc!Extend({}, SubSeq(word, 1, n), at), SubSeq(word, n + 1, Len(word)), at + n) = Remainder(word)
    /\ \A i \in DOMAIN word, b \in Crc!Bytes : b # word[i] => ValueOf([word EXCEPT ![i] = b]) # ValueOf(word)
    /\ Crc!Unmask(Crc!Mask(ValueOf(word))) = ValueOf(word)

(* What was encoded is decoded, into a target that is just large enough,    *)
(* and spaces anywhere in the text change nothing.  The decoder never       *)
(* writes past the target's end, and tells an error that is the target's    *)
(* only when it is too small.  fbase64.c:296-301: no text but the encoder's *)
(* own is accepted, so that no bits can be hidden in it.                    *)
Whole(d) == SubSeq(d.target, 1, d.n)
ThereAndBack ==
  LET e == B!f_b64_ntop(raw, 7)
      spaced == FlattenSeq([i \in DOMAIN e.target |-> <<B!Space, e.target[i]>>])
  IN  e.n # B!Error =>
        Whole(B!f_b64_pton(e.target, Len(raw) + 1)) = raw /\ B!f_b64_pton(spaced, 7) = B!f_b64_pton(e.target, 7)
InTarget ==
  LET d == B!f_b64_pton(text, size)
      whole == B!f_b64_pton(text, 7)
  IN  Len(d.target) <= size /\ (d = whole \/ (d.n = B!Error /\ size < Len(whole.target)))
OneText ==
  LET d == B!f_b64_pton(text, 7)
  IN  d.n # B!Error => B!f_b64_ntop(Whole(d), 11).target = SelectSeq(text, LAMBDA c : c # B!Space)
TextIsOne == part = "text" => ThereAndBack /\ InTarget /\ OneText
=============================================================================
