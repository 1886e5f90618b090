----------------------------- MODULE VersionEdit -----------------------------
(* The record of a descriptor (db/version_edit.cc): an edit as bytes.       *)
EXTENDS Coding

CONSTANT NumLevels

None == [has |-> FALSE, v |-> 0]
Unnamed == [has |-> FALSE, v |-> <<>>]
Some(v) == [has |-> TRUE, v |-> v]

(* A fresh edit. Clear() leaves compact_pointers_ alone, which is empty then. *)
Fresh == [comparator |-> Unnamed, log |-> None, next |-> None, last |-> None, prev |-> None,
          pointers |-> <<>>, deleted |-> {}, new |-> <<>>]

(* The optional fields, in the order in which they are written.             *)
Fields == <<[tag |-> 2, name |-> "log"], [tag |-> 9, name |-> "prev"],
            [tag |-> 3, name |-> "next"], [tag |-> 4, name |-> "last"]>>

File(level, number, size, smallest, largest) ==
  [level |-> level, number |-> number, size |-> size, smallest |-> smallest, largest |-> largest]
Before(a, b) == a[1] < b[1] \/ (a[1] = b[1] /\ a[2] < b[2])

EncodeTo(e) ==
  LET field(f) == IF e[f.name].has THEN Varint(f.tag) \o Varint(e[f.name].v) ELSE <<>>
      pointer(p) == Varint(5) \o Varint(p[1]) \o Prefixed(p[2])
      deletion(d) == Varint(6) \o Varint(d[1]) \o Varint(d[2])
      file(f) == Varint(7) \o Varint(f.level) \o Varint(f.number) \o Varint(f.size)
                 \o Prefixed(f.smallest) \o Prefixed(f.largest)
      each(Of(_), s) == FlattenSeq([i \in DOMAIN s |-> Of(s[i])])
  IN  (IF e.comparator.has THEN Varint(1) \o Prefixed(e.comparator.v) ELSE <<>>)
      \o each(field, Fields) \o each(pointer, e.pointers)
      \o each(deletion, SetToSortSeq(e.deleted, Before)) \o each(file, e.new)

GetLevel(s) ==
  LET Valid(l) == IF l.ok /\ l.value < NumLevels THEN l ELSE Failed IN Valid(GetVarint(s, Bits32))

(* The parts of a record, one after another: "level", "number" or "string". *)
RECURSIVE Parts(_, _, _)
Parts(s, kinds, values) ==
  LET Part(kind) == CASE kind = "level" -> GetLevel(s)
                      [] kind = "number" -> GetVarint(s, Bits64)
                      [] kind = "string" -> GetPrefixed(s)
      More(p) == IF p.ok THEN Parts(p.rest, Tail(kinds), Append(values, p.value)) ELSE Failed
  IN  IF kinds = <<>> THEN [ok |-> TRUE, value |-> values, rest |-> s] ELSE More(Part(Head(kinds)))

KindsOf(tag) ==
  CASE tag = 1 -> <<"string">>
    [] tag \in {2, 3, 4, 9} -> <<"number">>
    [] tag = 5 -> <<"level", "string">>
    [] tag = 6 -> <<"level", "number">>
    [] tag = 7 -> <<"level", "number", "number", "string", "string">>
Known == {1, 2, 3, 4, 5, 6, 7, 9}

(* Mutant: the previous log number is taken for the log number.             *)
Take_SameField(e, tag, v) ==
  CASE tag = 1 -> [e EXCEPT !.comparator = Some(v[1])]
    [] tag \in {2, 9} -> [e EXCEPT !.log = Some(v[1])]
    [] tag = 3 -> [e EXCEPT !.next = Some(v[1])]
    [] tag = 4 -> [e EXCEPT !.last = Some(v[1])]
    [] tag = 5 -> [e EXCEPT !.pointers = Append(@, v)]
    [] tag = 6 -> [e EXCEPT !.deleted = @ \cup {v}]
    [] tag = 7 -> [e EXCEPT !.new = Append(@, File(v[1], v[2], v[3], v[4], v[5]))]

Take(e, tag, v) ==
  CASE tag = 1 -> [e EXCEPT !.comparator = Some(v[1])]
    [] tag = 2 -> [e EXCEPT !.log = Some(v[1])]
    [] tag = 9 -> [e EXCEPT !.prev = Some(v[1])]
    [] tag = 3 -> [e EXCEPT !.next = Some(v[1])]
    [] tag = 4 -> [e EXCEPT !.last = Some(v[1])]
    [] tag = 5 -> [e EXCEPT !.pointers = Append(@, v)]
    [] tag = 6 -> [e EXCEPT !.deleted = @ \cup {v}]
    [] tag = 7 -> [e EXCEPT !.new = Append(@, File(v[1], v[2], v[3], v[4], v[5]))]

(* DecodeFrom: a tag that cannot be read ends the record, and is an error   *)
(* unless nothing is left.                                                  *)
RECURSIVE Decode(_, _)
Decode(e, s) ==
  LET Given(tag, p) == IF p.ok THEN Decode(Take(e, tag, p.value), p.rest) ELSE [ok |-> FALSE, edit |-> e]
      Tagged(t) == IF ~t.ok THEN [ok |-> s = <<>>, edit |-> e]
                   ELSE IF t.value \notin Known THEN [ok |-> FALSE, edit |-> e]
                   ELSE Given(t.value, Parts(t.rest, KindsOf(t.value), <<>>))
  IN  Tagged(GetVarint(s, Bits32))
DecodeFrom(s) == Decode(Fresh, s)
=============================================================================
