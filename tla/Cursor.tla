-------------------------------- MODULE Cursor --------------------------------
(* What iterator.h promises of every iterator: a position in a sorted       *)
(* sequence of entries, or none.                                            *)
EXTENDS Integers, Sequences

CONSTANTS Targets,
          AtOrPast(_, _)   \* the entry is at or past the target

VARIABLES entries,
          pos              \* 1..Len(entries), or 0 when not Valid

vars == <<entries, pos>>

Init == pos = 0

(* A new iterator has no position.                                          *)
Create == entries = <<>> /\ pos' = 0
SeekToFirst == pos' = (IF entries = <<>> THEN 0 ELSE 1) /\ UNCHANGED entries
SeekToLast == pos' = Len(entries) /\ UNCHANGED entries
Seek(t) ==
  /\ UNCHANGED entries
  /\ IF \E i \in DOMAIN entries : AtOrPast(entries[i], t)
     THEN /\ pos' \in DOMAIN entries /\ AtOrPast(entries[pos'], t)
          /\ \A i \in 1..(pos' - 1) : ~AtOrPast(entries[i], t)
     ELSE pos' = 0
NextEntry == pos # 0 /\ pos' = (IF pos = Len(entries) THEN 0 ELSE pos + 1) /\ UNCHANGED entries
Prev == pos # 0 /\ pos' = pos - 1 /\ UNCHANGED entries

Next == Create \/ SeekToFirst \/ SeekToLast \/ NextEntry \/ Prev \/ \E t \in Targets : Seek(t)
Spec == Init /\ [][Next]_vars
=============================================================================
