----------------------------- MODULE AtomicPointer -----------------------------
(* port::AtomicPointer (port/atomic_pointer.h) under a memory that keeps no *)
(* order but what barriers ask for, and the skip list (db/skiplist.h) whose *)
(* readers rely on it. A location has a history of stores; a thread has a   *)
(* view, of the stores it cannot go back behind, and may load any after it. *)
EXTENDS Integers, Sequences, FiniteSets, FiniteSetsExt, SequencesExt, TLC

CONSTANTS Inserts,     \* <<key, height>> of each call of Insert, in their order
          Readers,
          MaxSearches  \* bound: searches of a reader

VARIABLES history,     \* of each location: the values stored, with the views they carry
          view,        \* of each thread: the stores it has seen
          pending,     \* and those that it has loaded a value from, without a barrier
          releasing,   \* the view that its stores carry
          done,        \* accesses of the writer so far
          r            \* the readers

vars == <<history, view, pending, releasing, done, r>>

Keys == {Inserts[i][1] : i \in DOMAIN Inserts}
HeadNode == 0
Nil == Max(Keys) + 1
Garbage == -1
MaxHeight == Max({Inserts[i][2] : i \in DOMAIN Inserts})
Locations == ({HeadNode} \cup Keys) \X {"next", "key", "height"} \X (0..(MaxHeight - 1))
Writer == "writer"
Threads == Readers \cup {Writer}

-----------------------------------------------------------------------------
Join(u, v) == [l \in Locations |-> Max({u[l], v[l]})]
At(v, l, i) == [v EXCEPT ![l] = i]

(* MemoryBarrier: what was loaded from is seen from here on, and carried    *)
(* with what is stored.                                                     *)
MemoryBarrier(t, loaded) ==
  /\ pending' = [pending EXCEPT ![t] = loaded]
  /\ view' = [view EXCEPT ![t] = loaded]
  /\ releasing' = [releasing EXCEPT ![t] = loaded]

Stores(t, l, v, carried) ==
  LET n == Len(history[l]) + 1 IN
    /\ history' = [history EXCEPT ![l] = Append(@, [value |-> v, view |-> At(carried, l, n)])]
    /\ view' = [view EXCEPT ![t][l] = n]
    /\ pending' = [pending EXCEPT ![t][l] = n]

NoBarrier_Store(t, l, v) == Stores(t, l, v, releasing[t]) /\ UNCHANGED releasing

(* The barrier, and then the store.                                         *)
Release_Store(t, l, v) ==
  /\ Stores(t, l, v, pending[t])
  /\ releasing' = [releasing EXCEPT ![t] = pending[t]]

Loaded(t, l, i) == At(Join(pending[t], history[l][i].view), l, i)
Loadable(t, l) == view[t][l]..Len(history[l])

NoBarrier_Load(t, l, i) ==
  /\ view' = [view EXCEPT ![t][l] = i]
  /\ pending' = [pending EXCEPT ![t] = Loaded(t, l, i)]
  /\ UNCHANGED releasing

(* The load, and then the barrier.                                          *)
Acquire_Load(t, l, i) == MemoryBarrier(t, Loaded(t, l, i))

-----------------------------------------------------------------------------
(* The accesses of the inserts, in the order of the code.                   *)
Taller(n, l) == {HeadNode} \cup {Inserts[i][1] : i \in {j \in 1..(n - 1) : Inserts[j][2] > l}}
Prev(n, l) == Max({x \in Taller(n, l) : x < Inserts[n][1]})
Succ(n, l) == Min({x \in Taller(n, l) \cup {Nil} : x > Inserts[n][1]})
HeightBefore(n) == Max({1} \cup {Inserts[i][2] : i \in 1..(n - 1)})

Access(order, x, field, l, v) == [order |-> order, location |-> <<x, field, l>>, value |-> v]
Insert(n) ==
  LET key == Inserts[n][1]  height == Inserts[n][2]
      Link(l) == <<Access("none", key, "next", l, Succ(n, l)), Access("release", Prev(n, l), "next", l, key)>>
  IN  (IF height > HeightBefore(n) THEN <<Access("none", HeadNode, "height", 0, height)>> ELSE <<>>)
      \o <<Access("none", key, "key", 0, key)>>
      \o FoldLeft(LAMBDA s, l : s \o Link(l), <<>>, [i \in 1..height |-> i - 1])
Accesses == FoldLeft(LAMBDA s, n : s \o Insert(n), <<>>, [i \in DOMAIN Inserts |-> i])

Write ==
  /\ done < Len(Accesses)
  /\ done' = done + 1
  /\ LET a == Accesses[done + 1] IN
       IF a.order = "release" THEN Release_Store(Writer, a.location, a.value) ELSE NoBarrier_Store(Writer, a.location, a.value)
  /\ UNCHANGED r

-----------------------------------------------------------------------------
(* A reader: FindGreaterOrEqual of a key, with Node::Next and GetMaxHeight. *)
AtRest == [pc |-> "rest", target |-> Nil, x |-> HeadNode, level |-> 0, next |-> Nil]

Search(t, key) ==
  /\ r[t].pc = "rest" /\ r[t].searches < MaxSearches
  /\ \E i \in Loadable(t, <<HeadNode, "height", 0>>) :
       /\ NoBarrier_Load(t, <<HeadNode, "height", 0>>, i)
       /\ r' = [r EXCEPT ![t] = [@ EXCEPT !.pc = "next", !.target = key, !.x = HeadNode, !.searches = @ + 1,
                                           !.level = history[<<HeadNode, "height", 0>>][i].value - 1]]
  /\ UNCHANGED <<history, done>>

Down(s) == IF s.level = 0 THEN [s EXCEPT !.pc = "found"] ELSE [s EXCEPT !.pc = "next", !.level = @ - 1]
Next_(t) ==
  /\ r[t].pc = "next"
  /\ LET l == <<r[t].x, "next", r[t].level>> IN
       \E i \in Loadable(t, l) :
         LET n == history[l][i].value  s == [r[t] EXCEPT !.next = n] IN
           /\ Acquire_Load(t, l, i)
           /\ r' = [r EXCEPT ![t] = IF n \in Keys THEN [s EXCEPT !.pc = "key"] ELSE Down(s)]
  /\ UNCHANGED <<history, done>>

(* KeyIsAfterNode: the key is const, and loaded as any memory.              *)
KeyIsAfterNode(t) ==
  /\ r[t].pc = "key"
  /\ LET l == <<r[t].next, "key", 0>> IN
       \E i \in Loadable(t, l) :
         /\ NoBarrier_Load(t, l, i)
         /\ r' = [r EXCEPT ![t] = IF history[l][i].value < r[t].target THEN [@ EXCEPT !.pc = "next", !.x = r[t].next] ELSE Down(r[t])]
  /\ UNCHANGED <<history, done>>

Return(t) ==
  /\ r[t].pc = "found"
  /\ r' = [r EXCEPT ![t] = [seen |-> @.seen \cup ({@.next} \cap Keys), searches |-> @.searches] @@ AtRest]
  /\ UNCHANGED <<history, view, pending, releasing, done>>

Init ==
  /\ history = [l \in Locations |->
        <<[value |-> IF l[2] = "height" THEN 1 ELSE IF l[1] = HeadNode THEN Nil ELSE Garbage, view |-> [m \in Locations |-> 1]]>>]
  /\ view = [t \in Threads |-> [l \in Locations |-> 1]]
  /\ pending = view /\ releasing = view
  /\ done = 0
  /\ r = [t \in Readers |-> [seen |-> {}, searches |-> 0] @@ AtRest]
Next == Write \/ \E t \in Readers : (\E key \in Keys : Search(t, key)) \/ Next_(t) \/ KeyIsAfterNode(t) \/ Return(t)
Spec == Init /\ [][Next]_vars

-----------------------------------------------------------------------------
(* skiplist.h:156-163: a reader that gets a node observes it initialised,   *)
(* its key and its link of the level that it came by.                       *)
Initialised ==
  \A t \in Readers :
    /\ r[t].pc = "key" => view[t][<<r[t].next, "key", 0>>] > 1
    /\ r[t].pc = "next" /\ r[t].x # HeadNode => view[t][<<r[t].x, "next", r[t].level>>] > 1

(* What a thread has found it finds again, whichever old height or links of *)
(* other levels it loads.                                                   *)
FoundAgain == \A t \in Readers : r[t].pc = "found" /\ r[t].target \in r[t].seen => r[t].next = r[t].target
=============================================================================
