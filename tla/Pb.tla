--------------------------------- MODULE Pb ----------------------------------
(* nanopb: descriptions of messages, the iterator over their fields, the     *)
(* decoder (pb_decode.c, built without PB_ENABLE_MALLOC) and the encoder    *)
(* (pb_encode.c).  A message is a structure in memory: a function from the  *)
(* addresses of its members to their contents, [n, v]: n is the has_,       *)
(* _count or which_ variable, v the data.  The widths of bytes and words    *)
(* are parameters; the code has groups of 7 bits and words of 8 to 64.      *)
EXTENDS Integers, Sequences, FiniteSets, SequencesExt, FiniteSetsExt

CONSTANTS
  Group,                          \* payload bits of a byte of a varint
  Bits8, Bits16, Bits32, Bits64,  \* widths of the words of 1, 2, 4 and 8 bytes
  FlagBits,                       \* flags in a word of fields_seen: 32
  FlagWords                       \* words of fields_seen: 2

PbAssumption ==
  /\ {Group, FlagBits, FlagWords} \subseteq Nat \ {0}
  /\ {Bits8, Bits16, Bits32, Bits64} \subseteq Nat \ {0}
ASSUME PbAssumption

Cont == 2 ^ Group
Base == 2 * Cont
WordBits(size) ==
  CASE size = 1 -> Bits8 [] size = 2 -> Bits16 [] size = 4 -> Bits32 [] size = 8 -> Bits64
Unsigned(v, bits) == v % (2 ^ bits)
Signed(v, bits) ==
  IF Unsigned(v, bits) >= 2 ^ (bits - 1) THEN Unsigned(v, bits) - 2 ^ bits ELSE Unsigned(v, bits)

(* Wire types.                                                              *)
Varint == 0
Fixed64 == 1
String == 2
Fixed32 == 5

WireType(ltype) ==
  CASE ltype \in {"varint", "uvarint", "svarint"} -> Varint
    [] ltype = "fixed32" -> Fixed32
    [] ltype = "fixed64" -> Fixed64
    [] ltype \in {"bytes", "string", "submessage", "fixed_length_bytes"} -> String
Packable(ltype) == ltype \in {"varint", "uvarint", "svarint", "fixed32", "fixed64"}

(* The field descriptions that the PB_FIELD macros make; at is the offset   *)
(* of the member, ptr its default value or the fields of its submessage.    *)
Field(tag, htype, ltype, at, size, ptr) ==
  [tag |-> tag, htype |-> htype, atype |-> "static", ltype |-> ltype, at |-> at,
   size |-> size, max |-> 0, implicit |-> FALSE, ptr |-> ptr]
Required(tag, ltype, at, size, ptr) == Field(tag, "required", ltype, at, size, ptr)
Optional(tag, ltype, at, size, ptr) == Field(tag, "optional", ltype, at, size, ptr)
Singular(tag, ltype, at, size, ptr) ==
  [Field(tag, "optional", ltype, at, size, ptr) EXCEPT !.implicit = TRUE]
Repeated(tag, ltype, at, size, max, ptr) ==
  [Field(tag, "repeated", ltype, at, size, ptr) EXCEPT !.max = max]
Oneof(tag, ltype, at, size, ptr) == Field(tag, "oneof", ltype, at, size, ptr)
Callback(tag, htype, ltype, at) ==
  [Field(tag, htype, ltype, at, 2, <<>>) EXCEPT !.atype = "callback", !.implicit = TRUE]
(* The placeholder of a message's extensions, whose fields are in ptr.      *)
Extension(tag, at, ptr) == Field(tag, "optional", "extension", at, 1, ptr)

PointerSize == 1
MemberSize(f) ==
  IF f.atype = "pointer" THEN PointerSize
  ELSE IF f.atype = "static" /\ f.htype = "repeated" THEN f.size * f.max ELSE f.size

(* data_offset: from the end of the previous member, or the mark of a union.*)
InUnion == -1
DataOffset(fields, k) ==
  IF k = 1 THEN fields[1].at
  ELSE IF /\ fields[k].htype = "oneof" /\ fields[k - 1].htype = "oneof"
          /\ fields[k].at = fields[k - 1].at
  THEN InUnion
  ELSE fields[k].at - fields[k - 1].at - MemberSize(fields[k - 1])

(* pb_field_iter_t: the field, how many required ones precede it, and where *)
(* its data are.                                                            *)
IterBegin(fields) ==
  [pos |-> 1, required |-> 0, data |-> IF fields = <<>> THEN 0 ELSE DataOffset(fields, 1)]

(* pb_field_iter_next, which goes back to the beginning after the last.     *)
IterNext(fields, it) ==
  IF it.pos >= Len(fields) THEN IterBegin(fields)
  ELSE LET prev == fields[it.pos]
           off == DataOffset(fields, it.pos + 1)
       IN  IF off = InUnion THEN [it EXCEPT !.pos = @ + 1]
           ELSE [pos |-> it.pos + 1,
                 required |-> it.required + (IF prev.htype = "required" THEN 1 ELSE 0),
                 data |-> it.data + MemberSize(prev) + off]
IsLast(fields, it) == it.pos >= Len(fields)

(* The iterator after at most a full turn, stopped at a position of stops.  *)
RECURSIVE Turn(_, _, _, _)
Turn(fields, it, start, stops) ==
  IF it.pos \in stops THEN [found |-> TRUE, it |-> it]
  ELSE LET next == IterNext(fields, it)
       IN  IF next.pos = start THEN [found |-> FALSE, it |-> next]
           ELSE Turn(fields, next, start, stops)

(* pb_field_iter_find and find_extension_field.                             *)
Placeholders(fields) == {k \in DOMAIN fields : fields[k].ltype = "extension"}
IterFind(fields, it, tag) ==
  IF fields = <<>> THEN [found |-> FALSE, it |-> it]
  ELSE Turn(fields, it, it.pos, {k \in DOMAIN fields : fields[k].tag = tag} \ Placeholders(fields))
FindExtension(fields, it) ==
  IF fields = <<>> THEN [found |-> FALSE, it |-> it]
  ELSE Turn(fields, it, it.pos, Placeholders(fields))

(* The contents of a zeroed entry and of a zeroed member.                   *)
Entry(f) ==
  CASE Packable(f.ltype) -> 0
    [] f.ltype = "fixed_length_bytes" -> [i \in 1..f.size |-> 0]
    [] OTHER -> <<>>
Nothing(f) == IF f.htype = "repeated" \/ f.atype # "static" THEN <<>> ELSE Entry(f)

-----------------------------------------------------------------------------
(* The decoder.  A stream is [in, pos, left, ub]; ub is what the build made *)
(* of a shift by a word's width.  Every function gives whether it           *)
(* succeeded, the stream and a value.                                       *)
Good(s, v) == [ok |-> TRUE, s |-> s, v |-> v]
Bad(s, v) == [ok |-> FALSE, s |-> s, v |-> v]
(* The next call with the result of the one before, unless that failed.     *)
Then(r, v, Next(_)) == IF r.ok THEN Next(r) ELSE Bad(r.s, v)

Istream(bytes, ub) == [in |-> bytes, pos |-> 0, left |-> Len(bytes), ub |-> ub]

Read(s, n) ==
  IF s.left < n THEN Bad(s, <<>>)
  ELSE Good([s EXCEPT !.pos = @ + n, !.left = @ - n], SubSeq(s.in, s.pos + 1, s.pos + n))

RECURSIVE VarintFrom(_, _, _, _)
VarintFrom(s, bits, at, v) ==
  IF at >= bits THEN Bad(s, 0)
  ELSE Then(Read(s, 1), 0, LAMBDA r :
         IF r.v[1] >= Cont
         THEN VarintFrom(r.s, bits, at + Group, Unsigned(v + (r.v[1] % Cont) * 2 ^ at, bits))
         ELSE Good(r.s, Unsigned(v + r.v[1] * 2 ^ at, bits)))

DecodeVarint32(s) == VarintFrom(s, Bits32, 0, 0)
DecodeVarint(s) == VarintFrom(s, Bits64, 0, 0)

RECURSIVE SkipVarint(_)
SkipVarint(s) ==
  Then(Read(s, 1), 0, LAMBDA r : IF r.v[1] >= Cont THEN SkipVarint(r.s) ELSE r)

SkipString(s) == Then(DecodeVarint32(s), 0, LAMBDA r : Read(r.s, r.v))

SkipField(s, wire) ==
  CASE wire = Varint -> SkipVarint(s)
    [] wire = Fixed64 -> Read(s, 8)
    [] wire = String -> SkipString(s)
    [] wire = Fixed32 -> Read(s, 4)
    [] OTHER -> Bad(s, 0)

(* pb_decode_tag: the value is [eof, tag, wire].                            *)
TagOf(r) ==
  IF ~r.ok THEN Bad(r.s, [eof |-> r.s.left = 0, tag |-> 0, wire |-> 0])
  ELSE IF r.v = 0 THEN Bad(r.s, [eof |-> TRUE, tag |-> 0, wire |-> 0])
  ELSE Good(r.s, [eof |-> FALSE, tag |-> r.v \div 8, wire |-> r.v % 8])
DecodeTag(s) == TagOf(DecodeVarint32(s))

(* read_raw_value, for callbacks: at most as many bytes as a 64-bit varint. *)
RawMax == (Bits64 + Group - 1) \div Group
ReadRawValue(s, wire) ==
  CASE wire = Varint ->
         LET ends == {n \in 1..RawMax : n <= s.left /\ s.in[s.pos + n] < Cont}
         IN  IF ends = {} THEN Bad(s, <<>>) ELSE Read(s, Min(ends))
    [] wire = Fixed64 -> Read(s, 8)
    [] wire = Fixed32 -> Read(s, 4)
    [] OTHER -> Bad(s, <<>>)

(* pb_make_string_substream: the value is the substream.                    *)
MakeSubstream(s) ==
  Then(DecodeVarint32(s), 0, LAMBDA r :
    IF r.s.left < r.v THEN Bad(r.s, 0)
    ELSE Good([r.s EXCEPT !.left = @ - r.v], [r.s EXCEPT !.left = r.v]))

CloseSubstream(s, sub) == [s EXCEPT !.pos = sub.pos + sub.left]

-----------------------------------------------------------------------------
(* Decoders of single values; old is what the destination holds.            *)
Zigzag(v) == IF v % 2 = 1 THEN -(v \div 2) - 1 ELSE v \div 2
FixedValue(bytes) == FoldRight(LAMBDA b, v : b + Base * v, bytes, 0)

Clamp(s, v, clamped) == IF clamped = v THEN Good(s, v) ELSE Bad(s, clamped)

Number(f, s) ==
  Then(DecodeVarint(s), 0, LAMBDA r :
    IF f.ltype = "uvarint" THEN Clamp(r.s, r.v, Unsigned(r.v, WordBits(f.size)))
    ELSE LET v == IF f.ltype = "svarint" THEN Zigzag(r.v)
                  ELSE Signed(r.v, IF f.size = 8 THEN Bits64 ELSE Bits32)
         IN  Clamp(r.s, v, Signed(v, WordBits(f.size))))

(* The size of pb_bytes_array_t before its bytes.                           *)
BytesHeader == 1
Blob(f, s, old) ==
  Then(DecodeVarint32(s), old, LAMBDA r :
    IF f.ltype = "fixed_length_bytes" /\ r.v = 0 THEN Good(r.s, Entry(f))
    ELSE IF \/ f.ltype = "bytes" /\ r.v + BytesHeader > f.size
            \/ f.ltype = "string" /\ r.v + 1 > f.size
            \/ f.ltype = "fixed_length_bytes" /\ r.v # f.size
    THEN Bad(r.s, old)
    ELSE Then(Read(r.s, r.v), old, LAMBDA q : q))

RECURSIVE DecodeNoinit(_, _, _), Defaults(_), SetToDefaults(_, _)

(* pb_message_set_to_defaults and pb_field_set_to_default, of zeroed memory *)
(* and of what the caller passes in, whose callbacks stay.                  *)
DefaultSlot(f) ==
  CASE f.ltype = "extension" -> [n |-> 0, v |-> [i \in DOMAIN f.ptr |-> [n |-> 0, v |-> Nothing(f.ptr[i])]]]
    [] f.ltype # "extension" /\ f.htype \in {"required", "optional"} /\ f.atype = "static" ->
         [n |-> 0, v |-> IF f.ltype = "submessage" THEN Defaults(f.ptr)
                         ELSE IF f.ptr # <<>> THEN f.ptr[1] ELSE Nothing(f)]
    [] OTHER -> [n |-> 0, v |-> Nothing(f)]
Defaults(fields) ==
  [a \in {fields[k].at : k \in DOMAIN fields} |->
     DefaultSlot(fields[Min({k \in DOMAIN fields : fields[k].at = a})])]
SetToDefaults(fields, m) ==
  [a \in DOMAIN m |->
     LET f == fields[Min({k \in DOMAIN fields : fields[k].at = a})]
     IN  IF f.atype = "callback" THEN m[a]
         ELSE IF f.ltype = "submessage" /\ f.htype \in {"required", "optional"} /\ f.atype = "static"
         THEN [n |-> 0, v |-> SetToDefaults(f.ptr, m[a].v)]
         ELSE DefaultSlot(f)]

(* What was decoded from a substream of s, which is closed.                 *)
Closed(s, d) == [ok |-> d.ok, s |-> CloseSubstream(s, d.s), v |-> d.v]
Submessage(f, s, old) ==
  Then(MakeSubstream(s), old, LAMBDA r :
    Closed(r.s, DecodeNoinit(f.ptr, r.v, IF f.htype = "repeated" THEN Defaults(f.ptr) ELSE old)))

(* PB_DECODERS                                                              *)
Value(f, s, old) ==
  CASE f.ltype \in {"varint", "uvarint", "svarint"} -> Number(f, s)
    [] f.ltype = "fixed32" -> Then(Read(s, 4), old, LAMBDA r : Good(r.s, FixedValue(r.v)))
    [] f.ltype = "fixed64" -> Then(Read(s, 8), old, LAMBDA r : Good(r.s, FixedValue(r.v)))
    [] f.ltype \in {"bytes", "string", "fixed_length_bytes"} -> Blob(f, s, old)
    [] f.ltype = "submessage" -> Submessage(f, s, old)

-----------------------------------------------------------------------------
(* Decoding one field into its slot.                                        *)

(* Mutant: the count of an array is not compared with its size.             *)
Full_Never(f, slot) == FALSE

Full(f, slot) == slot.n >= f.max

RECURSIVE Items(_, _, _)
Items(f, sub, slot) ==
  IF sub.left = 0 \/ Full(f, slot) THEN Good(sub, slot)
  ELSE Then(Value(f, sub, Entry(f)), slot, LAMBDA r :
         Items(f, r.s, [n |-> slot.n + 1, v |-> Append(slot.v, r.v)]))

PackedArray(f, s, slot) ==
  Then(MakeSubstream(s), slot, LAMBDA r :
    LET Whole(d) == IF d.s.left # 0 THEN Bad(r.s, d.v) ELSE Closed(r.s, d)
    IN  Whole(Items(f, r.v, slot)))

DecodeStatic(f, s, wire, slot) ==
  LET old == CASE f.htype \in {"required", "optional"} -> slot.v
               [] f.htype = "oneof" -> IF f.ltype = "submessage" THEN Defaults(f.ptr) ELSE Nothing(f)
               [] f.htype = "repeated" -> Entry(f)
      Into(r) ==
        [ok |-> r.ok, s |-> r.s,
         v |-> CASE f.htype = "required" -> [n |-> slot.n, v |-> r.v]
                 [] f.htype = "optional" -> [n |-> IF f.implicit THEN slot.n ELSE 1, v |-> r.v]
                 [] f.htype = "oneof" -> [n |-> f.tag, v |-> r.v]
                 [] f.htype = "repeated" -> [n |-> slot.n + 1, v |-> Append(slot.v, r.v)]]
  IN  IF f.htype = "repeated" /\ wire = String /\ Packable(f.ltype) THEN PackedArray(f, s, slot)
      ELSE IF f.htype = "repeated" /\ Full(f, slot) THEN Bad(s, slot)
      ELSE Into(Value(f, s, old))

(* The callback, if there is one (n = 1), takes all it is given.            *)
DecodeCallback(f, s, wire, slot) ==
  IF slot.n = 0 THEN [SkipField(s, wire) EXCEPT !.v = slot]
  ELSE IF wire = String
  THEN Then(MakeSubstream(s), slot, LAMBDA r :
         Good(CloseSubstream(r.s, r.v), [slot EXCEPT !.v = Append(@, Read(r.v, r.v.left).v)]))
  ELSE Then(ReadRawValue(s, wire), slot, LAMBDA r : Good(r.s, [slot EXCEPT !.v = Append(@, r.v)]))

(* Without PB_ENABLE_MALLOC nothing is left of it but the error.            *)
DecodePointer(s, slot) == Bad(s, slot)

DecodeField(f, s, wire, slot) ==
  CASE f.atype = "static" -> DecodeStatic(f, s, wire, slot)
    [] f.atype = "pointer" -> DecodePointer(s, slot)
    [] f.atype = "callback" -> DecodeCallback(f, s, wire, slot)

(* decode_extension with the default decoder.                               *)
DecodeExtension(f, s, tag, wire, slot) ==
  LET match == {i \in DOMAIN f.ptr : f.ptr[i].tag = tag}
      Into(i, r) == [r EXCEPT !.v = [slot EXCEPT !.v[i] = r.v]]
      At(i) == Into(i, DecodeField(f.ptr[i], s, wire, [slot.v[i] EXCEPT !.n = 1]))
  IN  IF match = {} THEN Good(s, slot) ELSE At(Min(match))

(* A field that the message does not have: an extension, or skipped.  The   *)
(* value is the message and the iterator.                                   *)
UnknownAt(fields, s, tag, wire, m, e) ==
  LET Into(r, msg) == [ok |-> r.ok, s |-> r.s, v |-> [m |-> msg, it |-> e.it]]
      Tried(x) == IF ~x.ok \/ x.s.left # s.left THEN Into(x, [m EXCEPT ![e.it.data] = x.v])
                  ELSE Into(SkipField(s, wire), m)
  IN  IF e.found /\ tag >= fields[e.it.pos].tag
      THEN Tried(DecodeExtension(fields[e.it.pos], s, tag, wire, m[e.it.data]))
      ELSE Into(SkipField(s, wire), m)
Unknown(fields, s, tag, wire, m, it) == UnknownAt(fields, s, tag, wire, m, FindExtension(fields, it))

(* The check at the end, of fields_seen against the number of required      *)
(* fields: a shift by a word's width, and a word past the end of            *)
(* fields_seen, give what the build makes of them.                          *)
RequiredCount(fields) == Cardinality({k \in DOMAIN fields : fields[k].htype = "required"})
AllBits == 0..(FlagBits - 1)
WordOf(seen, w) == {i % FlagBits : i \in {j \in seen : j \div FlagBits = w}}
SeenAll(seen, count, ub) ==
  LET w == count \div FlagBits
      rest == count % FlagBits
      Is(i, bits) == IF i < FlagWords THEN WordOf(seen, i) = bits ELSE ub
  IN  /\ \A i \in 0..(w - 1) : Is(i, AllBits)
      /\ Is(w, IF rest # 0 THEN 0..(rest - 1) ELSE IF ub THEN AllBits ELSE {})

RECURSIVE FieldsFrom(_, _, _, _, _)
AllSeen(fields, s, m, seen) ==
  LET count == RequiredCount(fields)
  IN  IF count = 0 \/ SeenAll(seen, count, s.ub) THEN Good(s, m) ELSE Bad(s, m)
Saw(fields, it, seen) ==
  IF fields[it.pos].htype = "required" /\ it.required < FlagBits * FlagWords THEN seen \cup {it.required} ELSE seen
Took(fields, r, m, it, seen) ==
  LET after == [m EXCEPT ![it.data] = r.v]
  IN  IF ~r.ok THEN Bad(r.s, after) ELSE FieldsFrom(fields, r.s, after, it, Saw(fields, it, seen))
Tagged(fields, t, m, k, seen) ==
  IF k.found
  THEN Took(fields, DecodeField(fields[k.it.pos], t.s, t.v.wire, m[k.it.data]), m, k.it, seen)
  ELSE Then(Unknown(fields, t.s, t.v.tag, t.v.wire, m, k.it), m, LAMBDA r :
         FieldsFrom(fields, r.s, r.v.m, r.v.it, seen))
AfterTag(fields, t, m, it, seen) ==
  IF t.ok THEN Tagged(fields, t, m, IterFind(fields, it, t.v.tag), seen)
  ELSE IF t.v.eof THEN AllSeen(fields, t.s, m, seen) ELSE Bad(t.s, m)
FieldsFrom(fields, s, m, it, seen) ==
  IF s.left = 0 THEN AllSeen(fields, s, m, seen) ELSE AfterTag(fields, DecodeTag(s), m, it, seen)

DecodeNoinit(fields, s, m) == FieldsFrom(fields, s, m, IterBegin(fields), {})

Decode(fields, s, m) == DecodeNoinit(fields, s, SetToDefaults(fields, m))

DecodeDelimited(fields, s, m) ==
  Then(MakeSubstream(s), m, LAMBDA r : Closed(r.s, Decode(fields, r.v, m)))

-----------------------------------------------------------------------------
(* The encoder.  A stream is [out, n, max, sizing]: a sizing stream counts  *)
(* what would be written.  A pointer that is not NULL is <<what it points   *)
(* at>>; a callback field's slot has what its callback writes, less the     *)
(* last item on a sizing stream when n = 2.                                 *)
Okay(s) == [ok |-> TRUE, s |-> s]
Fail(s) == [ok |-> FALSE, s |-> s]
After(r, Step(_)) == IF r.ok THEN Step(r.s) ELSE r
(* Step on each item of a sequence until one fails.                         *)
Each(s, seq, Step(_, _)) ==
  FoldLeft(LAMBDA r, x : IF r.ok THEN Step(r.s, x) ELSE r, Okay(s), seq)

Ostream(size) == [out |-> <<>>, n |-> 0, max |-> size, sizing |-> FALSE]
Sizing == [out |-> <<>>, n |-> 0, max |-> 0, sizing |-> TRUE]

Write(s, bytes) ==
  IF s.sizing THEN Okay([s EXCEPT !.n = @ + Len(bytes)])
  ELSE IF s.n + Len(bytes) > s.max THEN Fail(s)
  ELSE Okay([s EXCEPT !.n = @ + Len(bytes), !.out = @ \o bytes])

RECURSIVE Varbytes(_)
Varbytes(v) == IF v < Cont THEN <<v>> ELSE <<Cont + (v % Cont)>> \o Varbytes(v \div Cont)
RECURSIVE FixedBytes(_, _)
FixedBytes(v, n) == IF n = 0 THEN <<>> ELSE <<v % Base>> \o FixedBytes(v \div Base, n - 1)

EncodeVarint(s, v) == Write(s, Varbytes(v))
Zigzagged(v) == IF v < 0 THEN -2 * v - 1 ELSE 2 * v
EncodeTag(s, wire, tag) == EncodeVarint(s, 8 * tag + wire)
EncodeTagFor(s, f) == EncodeTag(s, WireType(f.ltype), f.tag)
EncodeString(s, bytes) == After(EncodeVarint(s, Len(bytes)), LAMBDA t : Write(t, bytes))

(* pb_check_proto3_default_value; of an array it looks at the first entry.  *)
RECURSIVE IsDefault(_, _)
IsDefault(f, slot) ==
  LET v == IF f.htype = "repeated" /\ f.atype = "static" /\ slot.v # <<>> THEN slot.v[1] ELSE slot.v
  IN  IF f.htype = "repeated" /\ slot.v = <<>> THEN TRUE
      ELSE IF f.ltype = "extension" THEN f.ptr = <<>>
      ELSE IF f.atype = "callback" THEN slot.n = 0
      ELSE CASE f.ltype = "string" -> v = <<>> \/ v[1] = 0
             [] f.ltype = "bytes" \/ f.atype = "pointer" -> v = <<>>
             [] f.ltype = "fixed_length_bytes" -> f.size = 0
             [] f.ltype = "submessage" /\ f.atype = "static" ->
                  \A k \in DOMAIN f.ptr : IsDefault(f.ptr[k], v[f.ptr[k].at])
             [] Packable(f.ltype) /\ f.atype = "static" -> v = 0

-----------------------------------------------------------------------------
RECURSIVE Encode(_, _, _)

(* pb_encode_submessage: a pass to find the size, a pass to write.          *)
WriteSized(s, size, fields, m) ==
  LET Copied(w) == [ok |-> w.ok /\ w.s.n = size, s |-> [s EXCEPT !.n = @ + w.s.n, !.out = w.s.out]]
  IN  IF s.sizing THEN Okay([s EXCEPT !.n = @ + size])
      ELSE IF s.n + size > s.max THEN Fail(s)
      ELSE Copied(Encode([Ostream(size) EXCEPT !.out = s.out], fields, m))
EncodeSubmessage(s, fields, m) ==
  LET Sized(sized) ==
        IF ~sized.ok THEN Fail(s)
        ELSE After(EncodeVarint(s, sized.s.n), LAMBDA t : WriteSized(t, sized.s.n, fields, m))
  IN  Sized(Encode(Sizing, fields, m))

EncodeDelimited(s, fields, m) == EncodeSubmessage(s, fields, m)

UpToZero(bytes, max) ==
  LET stops == {i \in 1..Len(bytes) : bytes[i] = 0 \/ i > max}
  IN  IF stops = {} THEN bytes ELSE SubSeq(bytes, 1, Min(stops) - 1)

(* PB_ENCODERS; a NULL string or bytes array is an empty one.               *)
EncodeValue(s, f, v) ==
  CASE f.ltype \in {"varint", "uvarint"} -> EncodeVarint(s, Unsigned(v, Bits64))
    [] f.ltype = "svarint" -> EncodeVarint(s, Unsigned(Zigzagged(v), Bits64))
    [] f.ltype = "fixed32" -> Write(s, FixedBytes(v, 4))
    [] f.ltype = "fixed64" -> Write(s, FixedBytes(v, 8))
    [] f.ltype = "bytes" ->
         IF f.atype = "static" /\ Len(v) + 1 > f.size THEN Fail(s) ELSE EncodeString(s, v)
    [] f.ltype = "string" ->
         EncodeString(s, UpToZero(v, IF f.atype = "pointer" THEN Len(v) ELSE f.size))
    [] f.ltype = "fixed_length_bytes" -> EncodeString(s, v)
    [] f.ltype = "submessage" -> EncodeSubmessage(s, f.ptr, v)

PackedSize(f, items) ==
  CASE f.ltype = "fixed32" -> Okay([Sizing EXCEPT !.n = 4 * Len(items)])
    [] f.ltype = "fixed64" -> Okay([Sizing EXCEPT !.n = 8 * Len(items)])
    [] OTHER -> Each(Sizing, items, LAMBDA t, v : EncodeValue(t, f, v))

EncodePacked(s, f, items) ==
  LET Sized(size) ==
        After(After(EncodeTag(s, String, f.tag), LAMBDA t : EncodeVarint(t, size)), LAMBDA t :
          IF t.sizing THEN Okay([t EXCEPT !.n = @ + size])
          ELSE Each(t, items, LAMBDA u, v : EncodeValue(u, f, v)))
  IN  Sized(PackedSize(f, items).s.n)

EncodeArray(s, f, items) ==
  IF items = <<>> THEN Okay(s)
  ELSE IF f.atype # "pointer" /\ Len(items) > f.max THEN Fail(s)
  ELSE IF Packable(f.ltype) THEN EncodePacked(s, f, items)
  ELSE Each(s, items, LAMBDA t, v :
         After(EncodeTagFor(t, f), LAMBDA u : EncodeValue(u, f, v)))

Has(f, slot) ==
  CASE f.htype = "required" -> TRUE
    [] f.htype = "oneof" -> slot.n = f.tag
    [] f.htype = "optional" ->
         IF f.atype = "pointer" THEN slot.v # <<>>
         ELSE IF f.implicit THEN ~IsDefault(f, slot) ELSE slot.n = 1

EncodeBasic(s, f, slot) ==
  IF f.htype = "repeated" THEN EncodeArray(s, f, slot.v)
  ELSE IF ~Has(f, slot) THEN Okay(s)
  ELSE IF f.atype = "pointer" /\ slot.v = <<>> THEN Fail(s)
  ELSE After(EncodeTagFor(s, f), LAMBDA t :
         EncodeValue(t, f, IF f.atype = "pointer" THEN slot.v[1] ELSE slot.v))

(* The callback writes a tag and a string for each of its items.            *)
EncodeCallback(s, f, slot) ==
  IF slot.n = 0 THEN Okay(s)
  ELSE LET items == IF slot.n = 2 /\ s.sizing THEN Front(slot.v) ELSE slot.v
       IN  Each(s, items, LAMBDA t, x :
             After(EncodeTag(t, String, f.tag), LAMBDA u : EncodeString(u, x)))

EncodeField(s, f, slot) ==
  IF f.atype = "callback" THEN EncodeCallback(s, f, slot) ELSE EncodeBasic(s, f, slot)

(* encode_extension_field, with the default encoder for each extension.     *)
EncodeExtensions(s, f, slot) ==
  Each(s, [i \in DOMAIN f.ptr |-> i], LAMBDA t, i : EncodeField(t, f.ptr[i], slot.v[i]))

RECURSIVE EncodeFrom(_, _, _, _)
EncodeFrom(s, fields, m, it) ==
  LET f == fields[it.pos]
      Next(r) == IF ~r.ok \/ IsLast(fields, it) THEN r ELSE EncodeFrom(r.s, fields, m, IterNext(fields, it))
  IN  Next(IF f.ltype = "extension" THEN EncodeExtensions(s, f, m[it.data])
           ELSE EncodeField(s, f, m[it.data]))

Encode(s, fields, m) ==
  IF fields = <<>> THEN Okay(s) ELSE EncodeFrom(s, fields, m, IterBegin(fields))
=============================================================================
