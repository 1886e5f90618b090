-------------------------------- MODULE Base64 --------------------------------
(* The base 64 of Firebase's web socket (SocketRocket/fbase64.c), with four *)
(* bits to a byte and three to a digit: three bytes are four digits.        *)
EXTENDS Integers, Sequences, SequencesExt

Byte == 0..15
Digit == 0..7
Pad == 8      \* =
Space == 9
Other == 10   \* any other character

Error == -1

-----------------------------------------------------------------------------
(* f_b64_ntop: three bytes at a time, then what is left, with zero bits and *)
(* padding; a target of size characters holds the terminating 0 too.        *)
Quad(b) == <<b[1] \div 2, (b[1] % 2) * 4 + b[2] \div 4, (b[2] % 4) * 2 + b[3] \div 8, b[3] % 8>>

Last4(b) ==
  IF Len(b) = 1 THEN SubSeq(Quad(b \o <<0, 0>>), 1, 2) \o <<Pad, Pad>> ELSE SubSeq(Quad(Append(b, 0)), 1, 3) \o <<Pad>>

RECURSIVE Text(_)
Text(source) ==
  IF Len(source) > 2 THEN Quad(source) \o Text(SubSeq(source, 4, Len(source)))
  ELSE IF source = <<>> THEN <<>> ELSE Last4(source)

f_b64_ntop(source, size) ==
  LET t == Text(source)
  IN  IF Len(t) >= size THEN [n |-> Error, target |-> <<>>] ELSE [n |-> Len(t), target |-> t]

-----------------------------------------------------------------------------
(* f_b64_pton: state is the number of digits of the group that were read,   *)
(* index the bytes that are whole, target those that were written.          *)
NoText == [state |-> 0, index |-> 0, target |-> <<>>]
Set(t, i, v) == IF i > Len(t) THEN Append(t, v) ELSE [t EXCEPT ![i] = v]

(* Whether the digit's bits have room, and the decoder after it.            *)
Room(d, size) == d.index + (IF d.state \in {1, 2} THEN 2 ELSE 1) <= size
Put(d, v) ==
  LET t == d.target
      i == d.index + 1
  IN  CASE d.state = 0 -> [d EXCEPT !.target = Set(t, i, v * 2), !.state = 1]
        [] d.state = 1 -> [state |-> 2, index |-> i, target |-> Set([t EXCEPT ![i] = @ + v \div 4], i + 1, (v % 4) * 4)]
        [] d.state = 2 -> [state |-> 3, index |-> i, target |-> Set([t EXCEPT ![i] = @ + v \div 2], i + 1, (v % 2) * 8)]
        [] d.state = 3 -> [state |-> 0, index |-> i, target |-> [t EXCEPT ![i] = @ + v]]

Failed == [n |-> Error, target |-> <<>>]
Spaces(s) == \A i \in DOMAIN s : s[i] = Space

(* Mutant: the bits past the last whole byte may be anything.               *)
Padded_AnyBits(d, rest) ==
  LET next == {i \in DOMAIN rest : rest[i] # Space /\ \A j \in 1..(i - 1) : rest[j] = Space}
      after == CHOOSE i \in next : TRUE
  IN  CASE d.state \in {0, 1} -> FALSE
        [] d.state = 2 -> next # {} /\ rest[after] = Pad /\ Spaces(SubSeq(rest, after + 1, Len(rest)))
        [] d.state = 3 -> Spaces(rest)

(* After the first pad: one more is wanted when there is one byte, nothing  *)
(* but space may follow, and no bits may be left over.                      *)
Padded(d, rest) ==
  LET next == {i \in DOMAIN rest : rest[i] # Space /\ \A j \in 1..(i - 1) : rest[j] = Space}
      after == CHOOSE i \in next : TRUE
  IN  /\ CASE d.state \in {0, 1} -> FALSE
           [] d.state = 2 -> next # {} /\ rest[after] = Pad /\ Spaces(SubSeq(rest, after + 1, Len(rest)))
           [] d.state = 3 -> Spaces(rest)
      /\ d.target[d.index + 1] = 0

RECURSIVE Decode(_, _, _)
Decode(d, text, size) ==
  LET c == Head(text)
      done == [n |-> d.index, target |-> d.target]
  IN  IF text = <<>> THEN IF d.state = 0 THEN done ELSE Failed
      ELSE IF c = Space THEN Decode(d, Tail(text), size)
      ELSE IF c = Pad THEN IF Padded(d, Tail(text)) THEN done ELSE Failed
      ELSE IF c = Other \/ ~Room(d, size) THEN Failed
      ELSE Decode(Put(d, c), Tail(text), size)
f_b64_pton(text, size) == Decode(NoText, text, size)
=============================================================================
