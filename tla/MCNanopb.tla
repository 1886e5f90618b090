------------------------------- MODULE MCNanopb -------------------------------
(* Descriptions of messages with every kind of field, and messages at their *)
(* limits.                                                                  *)
EXTENDS Nanopb

One(set) == CHOOSE x \in set : TRUE
Slots(fields, vals) == [a \in {fields[k].at : k \in DOMAIN fields} |->
                          vals[CHOOSE k \in DOMAIN fields : fields[k].at = a]]
S(n, v) == [n |-> n, v |-> v]

(* Single values.                                                           *)
Scalars == <<Required(1, "uvarint", 0, 1, <<>>), Optional(2, "svarint", 2, 2, <<-1>>),
             Singular(3, "string", 4, 3, <<>>), Optional(4, "bytes", 8, 3, <<>>),
             Singular(5, "fixed_length_bytes", 12, 2, <<>>)>>
Narrow == <<Required(1, "uvarint", 0, 1, <<>>), Optional(2, "svarint", 1, 1, <<-1>>),
            Singular(5, "fixed_length_bytes", 2, 2, <<>>)>>
ScalarCases ==
  {[of |-> "Scalars", msg |-> Slots(Scalars, <<S(0, a), b, S(0, c), d, S(0, <<0, 5>>)>>)] :
     a \in {7}, b \in {S(0, -1), S(1, 3), S(1, -4), S(1, 4), S(1, -16)},
     c \in {<<>>, <<1, 2>>}, d \in {S(0, <<>>), S(1, <<0, 7>>)}}

(* Arrays: packed, not packed, of a fixed size; then a signed number.       *)
Arrays == <<Repeated(1, "uvarint", 0, 4, 2, <<>>), Repeated(2, "string", 8, 2, 2, <<>>),
            Repeated(15, "fixed32", 12, 4, 2, <<>>), Optional(3, "varint", 24, 4, <<>>)>>
Fewer == <<Optional(3, "varint", 0, 1, <<>>)>>
ArrayCases ==
  {[of |-> "Arrays", msg |-> Slots(Arrays, <<a, b, c, d>>)] :
     a \in {S(0, <<>>), S(2, <<127, 1>>)}, b \in {S(0, <<>>), S(2, <<<<>>, <<3>>>>)},
     c \in {S(0, <<>>), S(1, <<9>>)}, d \in {S(0, 0), S(1, -64), S(1, 3)}}

(* Submessages, one with a callback, and more items than there is room for. *)
Inner == <<Singular(1, "uvarint", 0, 1, <<>>), Callback(2, "optional", "string", 1)>>
Leaf == <<Required(1, "uvarint", 0, 1, <<>>)>>
Nested == <<Optional(1, "submessage", 0, 3, Inner), Repeated(2, "submessage", 3, 1, 2, Leaf),
            Singular(3, "submessage", 5, 1, Leaf)>>
Outer == <<Repeated(2, "submessage", 0, 1, 2, Leaf)>>
InnerMsg(a, cb) == Slots(Inner, <<S(0, a), cb>>)
LeafMsg(a) == Slots(Leaf, <<S(0, a)>>)
NestedCases ==
  {[of |-> "Nested", msg |-> Slots(Nested, <<a, b, S(0, LeafMsg(c))>>)] :
     a \in {S(0, InnerMsg(0, S(0, <<>>))), S(1, InnerMsg(2, S(0, <<>>)))},
     b \in {S(0, <<>>), S(2, <<LeafMsg(0), LeafMsg(7)>>)}, c \in {0, 1}}

(* A union, a member after it, extensions and a callback at the top.        *)
Union == <<Oneof(1, "varint", 0, 4, <<>>), Oneof(2, "submessage", 0, 1, Leaf),
           Optional(3, "uvarint", 4, 2, <<>>),
           Extension(8, 6, <<Required(9, "varint", 0, 4, <<>>)>>),
           Callback(4, "repeated", "bytes", 7)>>
UnionCases ==
  {[of |-> "Union", msg |-> Slots(Union, <<u, S(0, <<>>), o, S(0, <<S(1, x)>>), S(1, cb)>>)] :
     u \in {S(0, 0), S(1, -1), S(2, LeafMsg(3))}, o \in {S(0, 0), S(1, 31)},
     x \in {0, 5}, cb \in {<<>>, <<<<>>, <<6>>>>}}

(* Three required fields, one word and a half of flags.                     *)
Three == <<Required(1, "uvarint", 0, 1, <<>>), Required(2, "uvarint", 1, 1, <<>>),
           Required(3, "fixed64", 2, 8, <<>>)>>
ThreeCase == [of |-> "Three", msg |-> Slots(Three, <<S(0, 1), S(0, 2), S(0, 3)>>)]
Regular == ScalarCases \cup ArrayCases \cup NestedCases \cup UnionCases \cup {ThreeCase}
(* Callbacks that do not write the same twice.                              *)
Odd == S(2, <<<<1>>, <<2>>>>)
Changing ==
  {[of |-> "Nested", msg |-> Slots(Nested, <<S(1, InnerMsg(1, Odd)), S(0, <<>>), S(0, LeafMsg(1))>>)],
   [of |-> "Inner", msg |-> InnerMsg(1, Odd)]}

(* A tag and up to two bytes, that no encoder made.                         *)
Fed == {Varbytes(8 * tag + wire) \o tail :
               tag \in 1..3, wire \in {Varint, String, Fixed32}, tail \in UNION {[1..n -> 0..3] : n \in 0..2}}

Descriptions ==
  [Scalars |-> [type |-> Scalars, older |-> Narrow], Arrays |-> [type |-> Arrays, older |-> Fewer],
   Nested |-> [type |-> Nested, older |-> Outer],
   Union |-> [type |-> Union, older |-> SubSeq(Union, 3, 3)],
   Three |-> [type |-> Three, older |-> Leaf], Inner |-> [type |-> Inner, older |-> Leaf]]
Messages == Regular \cup Changing
Room == {-1, 0}

(* A message arrives as it was sent, is written if and only if it fits in   *)
(* the buffer and then takes the size that was computed; a receiver with an *)
(* older description reads what it knows; one that goes with its length is  *)
(* never accepted when cut; and whatever the bytes, no array is filled past *)
(* its end.                                                                 *)
MessagesArrive ==
  /\ SizeKnown /\ ArraysFit /\ TypeOK
  /\ case \in Regular => RoundTrip /\ OlderReads /\ CutNoticed
=============================================================================
