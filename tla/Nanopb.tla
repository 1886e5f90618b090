-------------------------------- MODULE Nanopb --------------------------------
(* A message on its way through nanopb: a sender encodes it into a buffer,  *)
(* the bytes may be cut or changed, and a receiver decodes them with the    *)
(* same description of the message or with an older one.                    *)
EXTENDS Pb

CONSTANTS Types,    \* descriptions of messages: a function to records [type, older]
          Cases,    \* messages: records [of, msg]
          Inputs,   \* bytes that no encoder made
          Spare     \* sizes of the buffer beyond what the message needs

VARIABLES case,     \* the message and what it is of
          framed,   \* whether it goes with its length before it
          room,     \* the size of the sender's buffer
          stage,    \* made -> written | refused -> cut | changed -> read
          bytes,    \* what the sender wrote, and what became of it
          as,       \* the receiver's description: the same or the older one
          ok, got   \* what decoding answered and left in the structure

vars == <<case, framed, room, stage, bytes, as, ok, got>>

Type == Types[case.of].type
Description(a) == IF a = "same" THEN Type ELSE Types[case.of].older

(* What a receiver passes in: zeroed, with its callbacks set.               *)
Blank(fields) ==
  [a \in DOMAIN Defaults(fields) |->
     IF \E k \in DOMAIN fields : fields[k].at = a /\ fields[k].atype = "callback"
     THEN [n |-> 1, v |-> <<>>] ELSE Defaults(fields)[a]]

Put(s) == IF framed THEN EncodeDelimited(s, Type, case.msg) ELSE Encode(s, Type, case.msg)

(* pb_get_encoded_size.                                                     *)
Need == Put(Sizing).s.n

Init ==
  /\ case \in Cases
  /\ framed \in BOOLEAN
  /\ room \in {n \in {Need + d : d \in Spare} : n >= 0}
  /\ stage = "made" /\ bytes = <<>> /\ as = "same"
  /\ ok = FALSE /\ got = <<>>

Send ==
  /\ stage = "made"
  /\ LET r == Put(Ostream(room))
     IN  stage' = (IF r.ok THEN "written" ELSE "refused") /\ bytes' = r.s.out
  /\ UNCHANGED <<case, framed, room, as, ok, got>>

Cut ==
  /\ stage = "written"
  /\ \E n \in 0..(Len(bytes) - 1) : bytes' = SubSeq(bytes, 1, n)
  /\ stage' = "cut"
  /\ UNCHANGED <<case, framed, room, as, ok, got>>

Change ==
  /\ stage = "written"
  /\ \E i \in 1..Len(bytes), b \in 0..(Base - 1) : bytes' = [bytes EXCEPT ![i] = b]
  /\ stage' = "changed"
  /\ UNCHANGED <<case, framed, room, as, ok, got>>

Feed ==
  /\ stage = "refused"
  /\ bytes' \in Inputs
  /\ stage' = "changed"
  /\ UNCHANGED <<case, framed, room, as, ok, got>>

(* What reading gave: stage tells what had been done to the bytes.          *)
Was == [written |-> "read", cut |-> "readCut", changed |-> "readChanged"]
Receive(a, ub) ==
  /\ stage \in DOMAIN Was
  /\ LET fields == Description(a)
         s == Istream(bytes, ub)
         r == IF framed THEN DecodeDelimited(fields, s, Blank(fields))
              ELSE Decode(fields, s, Blank(fields))
     IN  ok' = r.ok /\ got' = r.v
  /\ stage' = Was[stage] /\ as' = a
  /\ UNCHANGED <<case, framed, room, bytes>>

Next ==
  \/ Send
  \/ Cut
  \/ Change
  \/ Feed
  \/ \E a \in {"same", "older"}, ub \in BOOLEAN : Receive(a, ub)

Spec == Init /\ [][Next]_vars

-----------------------------------------------------------------------------
TypeOK ==
  /\ case \in Cases /\ framed \in BOOLEAN /\ ok \in BOOLEAN
  /\ room \in Nat /\ bytes \in Seq(0..(Base - 1))
  /\ stage \in {"made", "refused"} \cup DOMAIN Was \cup {Was[w] : w \in DOMAIN Was}
  /\ as \in {"same", "older"}

Tags(fields) == {fields[k].tag : k \in DOMAIN fields}
FieldOf(fields, tag) == fields[CHOOSE k \in DOMAIN fields : fields[k].tag = tag]
Slot(fields, m, tag) == m[FieldOf(fields, tag).at]

(* A message arrives as it was sent: every kind of field, allocation and    *)
(* repetition that the encoder writes, the decoder reads back, with the     *)
(* iterator's addresses agreeing on both sides.                             *)
RoundTrip == stage = "read" /\ as = "same" => ok /\ got = case.msg

(* The sizing pass is exact: a message is written if and only if its        *)
(* computed size fits in the buffer, and takes that size; a callback that   *)
(* writes another amount the second time is refused inside a submessage.    *)
Unsteady(fields, m) ==
  \E k \in DOMAIN fields : fields[k].atype = "callback" /\ m[fields[k].at].n = 2
UnsteadyWithin(fields, m) ==
  \E k \in DOMAIN fields : /\ fields[k].ltype = "submessage" /\ fields[k].htype \in {"required", "optional"}
                           /\ Unsteady(fields[k].ptr, m[fields[k].at].v)
SizeKnown ==
  LET top == Unsteady(Type, case.msg)
      below == UnsteadyWithin(Type, case.msg) \/ (framed /\ top)
  IN  /\ stage \in {"written", "refused"} => Len(bytes) <= room
      /\ stage = "written" => ~below /\ (Len(bytes) = Need \/ top)
      /\ stage = "refused" => Need > room \/ below \/ top

(* Whatever the bytes, the decoder leaves no array with more items, and no  *)
(* string or bytes longer, than the structure has room for.                 *)
RECURSIVE Within(_, _)
ItemWithin(f, v) ==
  CASE f.ltype = "string" -> Len(v) + 1 <= f.size
    [] f.ltype = "bytes" -> Len(v) + BytesHeader <= f.size
    [] f.ltype = "fixed_length_bytes" -> Len(v) = f.size
    [] f.ltype = "submessage" -> Within(f.ptr, v)
    [] OTHER -> TRUE
Within(fields, m) ==
  \A k \in DOMAIN fields : LET f == fields[k]
                               slot == m[f.at]
    IN  f.atype = "static" /\ f.ltype # "extension" /\ (f.htype = "oneof" => slot.n = f.tag) =>
          IF f.htype = "repeated"
          THEN slot.n = Len(slot.v) /\ slot.n <= f.max /\ \A i \in DOMAIN slot.v : ItemWithin(f, slot.v[i])
          ELSE ItemWithin(f, slot.v)
ArraysFit == got # <<>> => Within(Description(as), got)

(* A receiver with an older description skips what it does not know and     *)
(* reads the rest as it was sent; a number its field is too narrow for      *)
(* fails the decoding and is never cut.                                     *)
OlderReads ==
  LET fields == Description(as)
      common == Tags(fields) \cap Tags(Type)
  IN  stage = "read" =>
        /\ ok => \A tag \in common : Slot(fields, got, tag) = Slot(Type, case.msg, tag)
        /\ ~ok => \E tag \in common : FieldOf(fields, tag).size < FieldOf(Type, tag).size

(* A message that goes with its length is never accepted when it is cut.    *)
CutNoticed == stage = "readCut" /\ framed => ~ok

=============================================================================
