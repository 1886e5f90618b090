------------------------------ MODULE KVStore ------------------------------
(* What leveldb promises its callers (include/leveldb/db.h): writes take    *)
(* effect one after the other, and a snapshot or an iterator shows the      *)
(* store as it was when it was taken, for as long as it is held.            *)
EXTENDS Naturals

CONSTANTS
  Keys,        \* user keys
  MaxWrites    \* bound: writes in a behaviour

VARIABLES
  clock,       \* writes so far
  now,         \* for each key the write that a read returns, NotFound if none
  held         \* states of the store that somebody holds

kvVars == <<clock, now, held>>
NotFound == 0

Init == clock = 0 /\ now = [k \in Keys |-> NotFound] /\ held = {}

Write(k) ==
  /\ clock < MaxWrites
  /\ clock' = clock + 1
  /\ now' \in {[now EXCEPT ![k] = v] : v \in {clock + 1, NotFound}}
  /\ UNCHANGED held

(* A state is taken, or released; a held state never changes.               *)
Hold ==
  /\ held' \subseteq held \cup {[at |-> clock, map |-> now]}
  /\ UNCHANGED <<clock, now>>

Next == Hold \/ \E k \in Keys : Write(k)
Spec == Init /\ [][Next]_kvVars
=============================================================================
