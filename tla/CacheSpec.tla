------------------------------- MODULE CacheSpec -------------------------------
(* What a leveldb cache promises its clients (cache.h): a handle keeps an   *)
(* entry, whatever happens to its mapping; an entry is given to its deleter *)
(* when it has neither; and the mappings that go for want of room are those *)
(* that have been idle for longest.                                         *)
EXTENDS Integers, Sequences, SequencesExt, FiniteSetsExt

CONSTANTS Keys, Capacity, Charges, MaxEntries

VARIABLES entries,  \* all entries ever inserted, [key, charge]
          map,      \* the entry of each key, 0 when there is none
          held,     \* how many handles each entry has
          idle,     \* mapped entries without a handle, longest idle first
          dead      \* entries given to their deleter

vars == <<entries, map, held, idle, dead>>

Entries == DOMAIN entries
Charge(es, set) == FoldSet(LAMBDA e, sum : es[e].charge + sum, 0, set)
Mapped(m) == {m[k] : k \in Keys} \ {0}
Without(m, gone) == [k \in Keys |-> IF m[k] \in gone THEN 0 ELSE m[k]]
Unheld(h, set) == {e \in set : h[e] = 0}

Init ==
  /\ entries = <<>> /\ held = <<>> /\ idle = <<>> /\ dead = {}
  /\ map = [k \in Keys |-> 0]

(* How many of the idle must go.                                            *)
Excess(es, m, list) ==
  LET Fits(n) == Charge(es, Mapped(m) \ {list[i] : i \in 1..n}) <= Capacity
      enough == {n \in 0..Len(list) : Fits(n)}
  IN  IF enough = {} THEN Len(list) ELSE Min(enough)

Insert(k, charge) ==
  /\ Len(entries) < MaxEntries
  /\ LET e == Len(entries) + 1
         es == Append(entries, [key |-> k, charge |-> charge])
         old == IF Capacity > 0 THEN {map[k]} \ {0} ELSE {}
         m == IF Capacity > 0 THEN [map EXCEPT ![k] = e] ELSE map
         list == SelectSeq(idle, LAMBDA x : x \notin old)
         n == Excess(es, m, list)
         out == {list[i] : i \in 1..n}
     IN  /\ entries' = es
         /\ held' = Append(held, 1)
         /\ map' = Without(m, out)
         /\ idle' = SubSeq(list, n + 1, Len(list))
         /\ dead' = dead \cup out \cup Unheld(held, old)

Lookup(k) ==
  LET e == map[k]
  IN  /\ e # 0
      /\ held' = [held EXCEPT ![e] = @ + 1]
      /\ idle' = SelectSeq(idle, LAMBDA x : x # e)
      /\ UNCHANGED <<entries, map, dead>>

Release(e) ==
  /\ held[e] > 0
  /\ held' = [held EXCEPT ![e] = @ - 1]
  /\ LET last == held[e] = 1
         mapped == e \in Mapped(map)
     IN  /\ idle' = IF last /\ mapped THEN Append(idle, e) ELSE idle
         /\ dead' = IF last /\ ~mapped THEN dead \cup {e} ELSE dead
  /\ UNCHANGED <<entries, map>>

Erase(k) ==
  /\ map[k] # 0
  /\ map' = [map EXCEPT ![k] = 0]
  /\ idle' = SelectSeq(idle, LAMBDA x : x # map[k])
  /\ dead' = dead \cup Unheld(held, {map[k]})
  /\ UNCHANGED <<entries, held>>

(* Prune, and the destruction of a cache of which no handle is left.        *)
Prune ==
  /\ map' = Without(map, {idle[i] : i \in DOMAIN idle})
  /\ idle' = <<>>
  /\ dead' = dead \cup {idle[i] : i \in DOMAIN idle}
  /\ UNCHANGED <<entries, held>>

Next ==
  \/ \E k \in Keys, charge \in Charges : Insert(k, charge)
  \/ \E k \in Keys : Lookup(k) \/ Erase(k)
  \/ \E e \in Entries : Release(e)
  \/ Prune

Spec == Init /\ [][Next]_vars
=============================================================================
