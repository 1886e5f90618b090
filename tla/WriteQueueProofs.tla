-------------------------- MODULE WriteQueueProofs --------------------------
(***************************************************************************)
(* WriteQueue, for every set of clients, every bound and every limit: what *)
(* was answered ok is in a table or in a log file that recovery reads, no  *)
(* sequence number is given twice, and nothing is left to run when the     *)
(* destructor has ended.                                                   *)
(***************************************************************************)
EXTENDS WriteQueue, FiniteSetTheorems, SequenceTheorems, WellFoundedInduction, TLAPS

-----------------------------------------------------------------------------
(* The inductive invariant.                                                *)

(* Threads that write without the mutex, that are first in the queue, that *)
(* are in the queue.                                                       *)
Writing == {"append", "sync", "syncError", "insert", "commit"}
AtFront == {"room", "roomSleep"} \cup Writing
Queued(t) == pc[t] = "wait" \/ pc[t] \in AtFront \/ (pc[t] = "check" /\ ~call[t].done)

Ids == 1..MaxOps
PCs == {"idle", "wait", "check", "imm", "immSleep", "range", "rangeSleep"} \cup AtFront
Call == [kind : AllKinds \cup {"none"}, id : 0..MaxOps, done : BOOLEAN, ok : BOOLEAN]
Lead == [force : BOOLEAN, delay : BOOLEAN, group : SUBSET Ids, pop : Nat, ok : BOOLEAN]
Record == [seq : Nat, ids : SUBSET Ids, whole : BOOLEAN]
LogFile == [recs : Seq(Record), synced : Nat]
Background == [pc : {"idle", "call", "table", "manifest", "work", "install"}, nested : BOOLEAN,
               inputs : Nat, manual : Threads \cup {None}]

QueueTyped ==
  /\ mutex \in Threads \cup {None}
  /\ pc \in [Threads -> PCs]
  /\ call \in [Threads -> Call]
  /\ writers \in Seq(Threads) /\ IsInjective(writers)
  /\ lead \in Lead
  /\ calls \in 0..MaxOps /\ acked \subseteq Ids
DataTyped ==
  /\ lastSeq \in Nat
  /\ logs \in Seq(LogFile)
  /\ mem \subseteq Ids /\ tables \subseteq Ids /\ (imm = None \/ imm \subseteq Ids)
  /\ logNumber \in 1..Len(logs) /\ level0 \in Nat
BackgroundTyped ==
  /\ bgError \in BOOLEAN /\ scheduled \in BOOLEAN
  /\ bg \in Background
  /\ manual \in Threads \cup {None}
  /\ chunk \in [Threads -> 0..(Chunks + 1)]
  /\ closing \in {"open", "closing", "closed"}

(* The queue holds the threads that wait in Write, once each; the first    *)
(* alone works; a number is counted for everyone in it.                    *)
QueueInv ==
  /\ \A t \in Threads : Queued(t) <=> \E i \in 1..Len(writers) : writers[i] = t
  /\ \A t \in Threads : pc[t] \in AtFront => writers[1] = t
  /\ mutex # None => pc[mutex] = "room"
  /\ \A t \in Threads : Queued(t) => ~call[t].done /\ call[t].kind # "none"
  /\ lastSeq + Len(writers) <= calls

(* Calls have numbers of their own.                                        *)
CallInv ==
  /\ \A t \in Threads : call[t].id <= calls /\ (call[t].kind # "none" => call[t].id > 0)
  /\ \A t, u \in Threads : t # u => call[t].id = 0 \/ call[t].id # call[u].id
  /\ acked \subseteq 1..calls

(* What the first writer found in the queue when it released the mutex is  *)
(* still its beginning.                                                    *)
Covers(t) ==
  \A i \in 1..lead.pop :
    LET u == writers[i]
    IN  IsWrite(u) => call[u].id \in lead.group /\ (call[u].kind = "sync" => call[t].kind = "sync")
GroupInv ==
  \A t \in Threads :
    pc[t] \in Writing =>
      /\ IsWrite(t) /\ lead.pop \in 1..Len(writers) /\ Cardinality(lead.group) <= lead.pop
      /\ Covers(t)
      /\ pc[t] \in {"sync", "syncError"} => call[t].kind = "sync"
      /\ pc[t] = "syncError" => ~lead.ok

-----------------------------------------------------------------------------
LEMMA Bounds ==
  /\ MaxOps \in Nat /\ Chunks \in Nat /\ None \notin Threads /\ None \notin SUBSET Ids
  /\ Trigger \in Nat /\ Kinds \subseteq AllKinds
  BY QueueAssumption DEF Ids

(* The queue without its first n writers.                                  *)
LEMMA Once ==
  ASSUME NEW S, NEW s \in Seq(S), IsInjective(s), NEW i \in 1..Len(s), NEW j \in 1..Len(s),
         s[i] = s[j]
  PROVE  i = j
  BY LenProperties DEF IsInjective

LEMMA SubSeqFacts ==
  ASSUME NEW S, NEW s \in Seq(S), NEW n \in 1..Len(s)
  PROVE  /\ SubSeq(s, n + 1, Len(s)) \in Seq(S)
         /\ Len(SubSeq(s, n + 1, Len(s))) = Len(s) - n
         /\ \A i \in 1..(Len(s) - n) : SubSeq(s, n + 1, Len(s))[i] = s[i + n]
  OBVIOUS

LEMMA Rest ==
  ASSUME NEW S, NEW s \in Seq(S), IsInjective(s), NEW n \in 1..Len(s)
  PROVE  /\ SubSeq(s, n + 1, Len(s)) \in Seq(S) /\ IsInjective(SubSeq(s, n + 1, Len(s)))
         /\ Len(SubSeq(s, n + 1, Len(s))) = Len(s) - n
         /\ \A i \in 1..(Len(s) - n) : SubSeq(s, n + 1, Len(s))[i] = s[i + n]
         /\ \A i \in 1..n, j \in 1..(Len(s) - n) : SubSeq(s, n + 1, Len(s))[j] # s[i]
  <1>1. PICK r : r = SubSeq(s, n + 1, Len(s))
    OBVIOUS
  <1>2. /\ r \in Seq(S) /\ Len(r) = Len(s) - n
        /\ \A i \in 1..(Len(s) - n) : r[i] = s[i + n]
    BY <1>1, SubSeqFacts
  <1>3. Len(s) \in Nat /\ DOMAIN r = 1..(Len(s) - n)
    BY <1>2, LenProperties
  <1>4. ASSUME NEW i \in 1..Len(s), NEW j \in 1..Len(s), s[i] = s[j]
        PROVE  i = j
    BY <1>4, Once
  <1>5. IsInjective(r)
    BY <1>2, <1>3, <1>4 DEF IsInjective
  <1>6. \A i \in 1..n, j \in 1..(Len(s) - n) : r[j] # s[i]
    BY <1>2, <1>3, <1>4
  <1>. QED
    BY <1>1, <1>2, <1>5, <1>6

LEMMA Woken_ ==
  ASSUME NEW pcs \in [Threads -> PCs]
  PROVE  /\ SignalAll(pcs) \in [Threads -> PCs]
         /\ \A u \in Threads :
              /\ SignalAll(pcs)[u] \in AtFront <=> pcs[u] \in AtFront
              /\ \A p \in {"idle", "wait", "check", "room"} \cup Writing :
                   pcs[u] = p => SignalAll(pcs)[u] = p
              /\ \A p \in {"idle", "wait", "check"} \cup Writing :
                   SignalAll(pcs)[u] = p => pcs[u] = p
              /\ pcs[u] \in {"range", "rangeSleep"} => SignalAll(pcs)[u] \in {"range", "rangeSleep"}
  BY DEF SignalAll, Woken, PCs, AtFront, Writing

-----------------------------------------------------------------------------
(* The queue.                                                              *)

(* Threads move, but neither into the queue nor out of it.                 *)
LEMMA PlacesKept ==
  ASSUME QueueTyped, QueueInv,
         UNCHANGED <<call, writers, calls, lastSeq>>,
         mutex' # None => pc'[mutex'] = "room",
         \A u \in Threads :
           /\ pc'[u] \in AtFront <=> pc[u] \in AtFront
           /\ pc'[u] = "wait" <=> pc[u] = "wait"
           /\ pc'[u] = "check" <=> pc[u] = "check"
  PROVE  QueueInv'
  BY DEF QueueTyped, QueueInv, Queued

LEMMA FrontAlone ==
  ASSUME QueueTyped, QueueInv, NEW t \in Threads, pc[t] \in AtFront
  PROVE  /\ 1 \in 1..Len(writers) /\ writers[1] = t
         /\ \A u \in Threads \ {t} : pc[u] \notin AtFront
         /\ ~call[t].done
  BY DEF QueueTyped, QueueInv, Queued

LEMMA ReturnKeeps ==
  ASSUME QueueTyped, QueueInv, CallInv,
         NEW t \in Threads, pc[t] \in AtFront,
         NEW pop \in 1..Len(writers), NEW ok \in BOOLEAN,
         NEW pcs \in {pc, SignalAll(pc)},
         Return(t, pop, ok, pcs),
         calls' = calls, lastSeq \in Nat, lastSeq' \in Nat, lastSeq' <= lastSeq + pop
  PROVE  QueueTyped' /\ QueueInv' /\ \A u \in Threads : pc'[u] \notin AtFront
  <1>. DEFINE popped(u) == \E i \in 1..pop : writers[i] = u
  <1>1. /\ writers' = SubSeq(writers, pop + 1, Len(writers))
        /\ pc' = Answered(t, pop, ok, pcs)
        /\ call' = [u \in Threads |-> IF u # t /\ popped(u)
                                      THEN [call[u] EXCEPT !.done = TRUE, !.ok = ok] ELSE call[u]]
        /\ acked' = IF ok /\ IsWrite(t) THEN acked \cup {call[t].id} ELSE acked
        /\ lead' = NoLead /\ mutex' = None
    BY DEF Return
  <1>2. /\ writers' \in Seq(Threads) /\ IsInjective(writers') /\ Len(writers') = Len(writers) - pop
        /\ \A i \in 1..(Len(writers) - pop) : writers'[i] = writers[i + pop]
        /\ \A i \in 1..pop, j \in 1..(Len(writers) - pop) : writers'[j] # writers[i]
        /\ Len(writers) \in Nat
    <2>1. writers \in Seq(Threads) /\ IsInjective(writers)
      BY DEF QueueTyped
    <2>2. writers' = SubSeq(writers, pop + 1, Len(writers))
      BY <1>1
    <2>3. Len(writers) \in Nat
      BY <2>1, LenProperties
    <2>. QED
      BY <2>1, <2>2, <2>3, Rest
  <1>3. writers[1] = t /\ (\A u \in Threads \ {t} : pc[u] \notin AtFront) /\ popped(t)
    BY FrontAlone
  <1>4. pcs \in [Threads -> PCs] /\ \A u \in Threads : pcs[u] \in AtFront <=> pc[u] \in AtFront
    BY Woken_ DEF QueueTyped
  <1>5. Continue(t, ok) \in {"idle", "imm", "range"}
    BY DEF Continue
  <1>6. /\ pc' \in [Threads -> PCs]
        /\ pc'[t] = Continue(t, ok)
        /\ \A u \in Threads \ {t} :
             \/ popped(u) /\ pc'[u] = "check"
             \/ ~popped(u) /\ pc'[u] = pcs[u]
             \/ ~popped(u) /\ Len(writers) > pop /\ u = writers[pop + 1] /\ pc'[u] = "check"
    <2>1. pc' = [u \in Threads |->
                   IF u = t THEN Continue(t, ok)
                   ELSE IF \E i \in 1..Len(writers) : i <= pop + 1 /\ writers[i] = u THEN "check"
                   ELSE pcs[u]]
      BY <1>1 DEF Answered
    <2>2. \A u \in Threads : pc'[u] \in PCs
      BY <1>4, <1>5, <2>1 DEF PCs
    <2>3. ASSUME NEW u \in Threads \ {t}, ~popped(u), NEW i \in 1..Len(writers), i <= pop + 1, writers[i] = u
          PROVE  Len(writers) > pop /\ u = writers[pop + 1]
      <3>1. i = pop + 1
        BY <1>2, <2>3
      <3>. QED
        BY <1>2, <2>3, <3>1
    <2>4. \A u \in Threads \ {t} : popped(u) => pc'[u] = "check"
      BY <1>2, <2>1
    <2>. QED
      BY <2>1, <2>2, <2>3, <2>4
  <1>7. /\ call' \in [Threads -> Call]
        /\ \A u \in Threads :
             /\ u # t /\ popped(u) => call'[u].done /\ call'[u].kind = call[u].kind /\ call'[u].ok = ok
             /\ u = t \/ ~popped(u) => call'[u] = call[u]
             /\ call'[u].id = call[u].id
    BY <1>1 DEF QueueTyped, Call
  <1>8. lead' \in Lead /\ mutex' = None /\ acked' \subseteq Ids
    <2>1. IsWrite(t) => call[t].id \in Ids
      BY DEF QueueTyped, Call, CallInv, IsWrite, Ids
    <2>. QED
      BY <1>1, <2>1 DEF QueueTyped, NoLead, Lead
  <1>9. QueueTyped'
    BY <1>2, <1>6, <1>7, <1>8 DEF QueueTyped
  <1>10. ASSUME NEW u \in Threads
         PROVE  /\ pc'[u] \notin AtFront
                /\ Queued(u)' <=> \E i \in 1..Len(writers') : writers'[i] = u
                /\ Queued(u)' => ~call'[u].done /\ call'[u].kind # "none"
    <2>1. CASE u = t
      <3>1. pc'[u] \in {"idle", "imm", "range"}
        BY <1>5, <1>6, <2>1
      <3>2. \A i \in 1..Len(writers') : writers'[i] # u
        BY <1>2, <1>3, <2>1
      <3>. QED
        BY <3>1, <3>2 DEF Queued, AtFront, Writing
    <2>2. CASE u # t /\ popped(u)
      <3>1. pc'[u] = "check" /\ call'[u].done
        BY <1>6, <1>7, <2>2
      <3>2. \A i \in 1..Len(writers') : writers'[i] # u
        BY <1>2, <2>2
      <3>. QED
        BY <3>1, <3>2 DEF Queued, AtFront, Writing
    <2>3. CASE u # t /\ ~popped(u)
      <3>1. call'[u] = call[u] /\ pc[u] \notin AtFront
        BY <1>3, <1>7, <2>3
      <3>2. Queued(u) <=> \E i \in 1..Len(writers') : writers'[i] = u
        <4>1. Queued(u) <=> \E i \in 1..Len(writers) : writers[i] = u
          BY DEF QueueInv
        <4>2. ASSUME NEW i \in 1..Len(writers), writers[i] = u
              PROVE  i - pop \in 1..Len(writers') /\ writers'[i - pop] = u
          BY <1>2, <2>3, <4>2
        <4>3. ASSUME NEW i \in 1..Len(writers'), writers'[i] = u
              PROVE  i + pop \in 1..Len(writers) /\ writers[i + pop] = u
          BY <1>2, <4>3
        <4>. QED
          BY <4>1, <4>2, <4>3
      <3>3. /\ pcs[u] \notin AtFront
            /\ pcs[u] = "wait" <=> pc[u] = "wait"
            /\ pcs[u] = "check" <=> pc[u] = "check"
        BY <1>4, <3>1, Woken_ DEF QueueTyped
      <3>4. CASE pc'[u] = pcs[u]
        BY <3>1, <3>2, <3>3, <3>4 DEF Queued, QueueInv, AtFront
      <3>5. CASE Len(writers) > pop /\ u = writers[pop + 1] /\ pc'[u] = "check"
        <4>1. Queued(u)
          <5>1. pop + 1 \in 1..Len(writers)
            BY <1>2, <3>5
          <5>. QED
            BY <3>5, <5>1 DEF QueueInv
        <4>. QED
          BY <3>1, <3>2, <3>5, <4>1 DEF Queued, QueueInv, AtFront, Writing
      <3>. QED
        BY <1>6, <2>3, <3>4, <3>5
    <2>. QED
      BY <2>1, <2>2, <2>3
  <1>. QED
    BY <1>2, <1>8, <1>9, <1>10 DEF QueueInv, QueueTyped

LEMMA CallsKept ==
  ASSUME QueueTyped, CallInv, NEW t \in Threads, calls' = calls,
         \A u \in Threads : call'[u].id = call[u].id /\ call'[u].kind = call[u].kind,
         acked' \subseteq IF IsWrite(t) THEN acked \cup {call[t].id} ELSE acked
  PROVE  CallInv'
  BY DEF QueueTyped, CallInv, Call, IsWrite

(* What Return does to the calls.                                          *)
LEMMA ReturnCalls ==
  ASSUME QueueTyped, QueueInv, CallInv, NEW t \in Threads, NEW pop, NEW ok, NEW pcs,
         Return(t, pop, ok, pcs), calls' = calls
  PROVE  CallInv'
  <1>1. /\ call' = [u \in Threads |->
              IF u # t /\ \E i \in 1..pop : writers[i] = u
              THEN [call[u] EXCEPT !.done = TRUE, !.ok = ok] ELSE call[u]]
        /\ acked' = IF ok /\ IsWrite(t) THEN acked \cup {call[t].id} ELSE acked
    BY DEF Return
  <1>2. \A u \in Threads : call'[u].id = call[u].id /\ call'[u].kind = call[u].kind
    BY <1>1 DEF QueueTyped, Call
  <1>3. acked' \subseteq IF IsWrite(t) THEN acked \cup {call[t].id} ELSE acked
    BY <1>1
  <1>. QED
    BY <1>2, <1>3, CallsKept

(* The steps that leave the calls and the queue alone: the front writer's, *)
(* those of a thread that is not in the queue, and the background's.       *)
Inner(t) ==
  \/ RoomDelay(t) \/ (RoomReady(t) /\ IsWrite(t)) \/ RoomWait(t) \/ RoomSwitch(t)
  \/ AddRecord(t) \/ SyncLog(t) \/ InsertInto(t)
Outer(t) == WaitForMemTable(t) \/ WaitForRange(t) \/ LeaveRange(t)

LEMMA BackgroundMoves ==
  ASSUME BackgroundStep
  PROVE  /\ UNCHANGED <<mutex, call, writers, lead, calls, acked, lastSeq, logs, mem, closing>>
         /\ pc' = pc \/ pc' = SignalAll(pc)
  <1>. USE DEF EndBackgroundCall, dbVars
  <1>1. CASE BackgroundNothing
    BY <1>1 DEF BackgroundNothing
  <1>2. CASE BackgroundManualDone
    BY <1>2 DEF BackgroundManualDone
  <1>3. CASE CompactMemTable
    BY <1>3 DEF CompactMemTable
  <1>4. CASE TableWritten
    BY <1>4 DEF TableWritten, EndCompactMemTable
  <1>5. CASE MemTableInstalled
    BY <1>5 DEF MemTableInstalled, EndCompactMemTable
  <1>6. CASE StartCompaction
    BY <1>6 DEF StartCompaction
  <1>7. CASE CompactionWorked
    BY <1>7 DEF CompactionWorked, EndCompaction
  <1>8. CASE CompactionInstalled
    BY <1>8 DEF CompactionInstalled, EndCompaction
  <1>. QED
    BY <1>1, <1>2, <1>3, <1>4, <1>5, <1>6, <1>7, <1>8 DEF BackgroundStep

LEMMA InnerMoves ==
  ASSUME QueueTyped, DataTyped, NEW t \in Threads, Inner(t)
  PROVE  /\ UNCHANGED <<call, writers, calls, acked, lastSeq>>
         /\ pc[t] \in AtFront /\ pc'[t] \in AtFront
         /\ pc' \in [Threads -> PCs] /\ \A u \in Threads \ {t} : pc'[u] = pc[u]
         /\ mutex' = None \/ (mutex' = t /\ pc'[t] = "room") \/ (mutex' = mutex /\ pc[t] # "room")
  <1>. USE DEF QueueTyped, AtFront, Writing, PCs, dbVars, bgVars, InRoom
  <1>1. CASE RoomDelay(t)
    BY <1>1 DEF RoomDelay
  <1>2. CASE RoomReady(t) /\ IsWrite(t)
    BY <1>2 DEF RoomReady
  <1>3. CASE RoomWait(t)
    BY <1>3 DEF RoomWait
  <1>4. CASE RoomSwitch(t)
    BY <1>4 DEF RoomSwitch
  <1>5. CASE AddRecord(t)
    BY <1>5 DEF AddRecord
  <1>6. CASE SyncLog(t)
    BY <1>6 DEF SyncLog
  <1>7. CASE InsertInto(t)
    BY <1>7 DEF InsertInto
  <1>. QED
    BY <1>1, <1>2, <1>3, <1>4, <1>5, <1>6, <1>7 DEF Inner

LEMMA OuterMoves ==
  ASSUME QueueTyped, NEW t \in Threads, Outer(t)
  PROVE  /\ UNCHANGED <<mutex, call, writers, lead, calls, acked, lastSeq, logs, mem, imm, tables,
                        logNumber, level0, bgError, closing>>
         /\ mutex = None /\ pc[t] \in {"imm", "range"}
         /\ pc'[t] \in {"immSleep", "range", "rangeSleep", "idle"}
         /\ pc' \in [Threads -> PCs] /\ \A u \in Threads \ {t} : pc'[u] = pc[u]
  BY DEF QueueTyped, PCs, AtFront, Writing, dbVars, Outer, WaitForMemTable, WaitForRange, LeaveRange

-----------------------------------------------------------------------------
(* The group: never empty, a beginning of the queue, and at most as many   *)
(* batches as writers.                                                     *)
LEMMA Greatest ==
  ASSUME NEW n \in Nat, NEW S \in SUBSET (1..n), S # {}
  PROVE  Max(S) \in S
  <1>. DEFINE T == {n - i : i \in S}
  <1>0. \A i \in S : i \in Nat /\ n - i \in Nat
    OBVIOUS
  <1>1. T \subseteq Nat /\ T # {}
    BY <1>0
  <1>2. PICK x \in T : \A y \in T : ~(<<y, x>> \in OpToRel(<, Nat))
    BY <1>1, NatLessThanWellFounded, WFMin
  <1>3. \A y \in T : ~(y < x)
    BY <1>1, <1>2 DEF OpToRel
  <1>4. PICK m \in S : x = n - m
    OBVIOUS
  <1>5. \A i \in S : m >= i
    <2>1. ASSUME NEW i \in S
          PROVE  m >= i
      <3>1. n - i \in T
        OBVIOUS
      <3>2. ~(n - i < n - m)
        BY <1>3, <1>4, <3>1
      <3>. QED
        BY <1>0, <3>2
    <2>. QED
      BY <2>1
  <1>. QED
    BY <1>5 DEF Max

LEMMA Group ==
  ASSUME QueueTyped, CallInv, writers # <<>>, NEW g, g = BuildBatchGroup(writers)
  PROVE  /\ g.pop \in 1..Len(writers)
         /\ g.ids \subseteq Ids /\ IsFiniteSet(g.ids) /\ Cardinality(g.ids) <= g.pop
         /\ \A i \in 1..g.pop :
              /\ IsWrite(writers[i]) => call[writers[i]].id \in g.ids
              /\ call[writers[i]].kind = "sync" => call[writers[1]].kind = "sync"
  <1>. DEFINE Batches(n) == {i \in 1..n : IsWrite(writers[i])}
              Joins(i) == /\ call[writers[i]].kind = "sync" => call[writers[1]].kind = "sync"
                          /\ Cardinality(Batches(i)) <= GroupLimit
              Sizes == {n \in 1..Len(writers) : \A i \in 2..n : Joins(i)}
              pop == Max(Sizes)
              ids == {call[writers[i]].id : i \in Batches(pop)}
              batch == [i \in Batches(pop) |-> call[writers[i]].id]
  <1>1. g = [pop |-> pop, ids |-> ids]
    BY DEF BuildBatchGroup
  <1>2. Len(writers) \in Nat /\ 1 \in 1..Len(writers)
    BY DEF QueueTyped
  <1>3. pop \in Sizes
    <2>1. 1 \in Sizes
      BY <1>2
    <2>2. Sizes \in SUBSET (1..Len(writers)) /\ Sizes # {}
      BY <2>1
    <2>. HIDE DEF Sizes
    <2>. QED
      BY <1>2, <2>2, Greatest
  <1>4. pop \in 1..Len(writers) /\ \A i \in 2..pop : Joins(i)
    BY <1>3
  <1>. HIDE DEF pop
  <1>5. ids \subseteq Ids
    <2>1. ASSUME NEW i \in 1..pop, IsWrite(writers[i])
          PROVE  call[writers[i]].id \in Ids
      <3>1. writers[i] \in Threads
        BY <1>2, <1>4 DEF QueueTyped
      <3>2. call[writers[i]] \in Call /\ call[writers[i]].kind # "none"
        BY <2>1, <3>1 DEF QueueTyped, IsWrite
      <3>3. call[writers[i]].id > 0
        BY <3>1, <3>2 DEF CallInv
      <3>. QED
        BY <3>2, <3>3, Bounds DEF Call, Ids
    <2>. QED
      BY <2>1
  <1>6. IsFiniteSet(ids) /\ Cardinality(ids) <= pop
    <2>1. IsFiniteSet(1..pop) /\ Cardinality(1..pop) = pop
      BY <1>2, <1>4, FS_Interval
    <2>2. IsFiniteSet(Batches(pop)) /\ Cardinality(Batches(pop)) <= pop
      BY <2>1, FS_Subset
    <2>3. batch \in Surjection(Batches(pop), ids)
      BY DEF Surjection
    <2>4. IsFiniteSet(ids) /\ Cardinality(ids) <= Cardinality(Batches(pop))
      BY <2>2, <2>3, FS_Surjection
    <2>5. Cardinality(ids) \in Nat /\ Cardinality(Batches(pop)) \in Nat
      BY <2>2, <2>4, FS_CardinalityType
    <2>. QED
      BY <1>2, <1>4, <2>2, <2>4, <2>5
  <1>7. \A i \in 1..pop : call[writers[i]].kind = "sync" => call[writers[1]].kind = "sync"
    <2>1. \A i \in 2..pop : call[writers[i]].kind = "sync" => call[writers[1]].kind = "sync"
      BY <1>4
    <2>2. \A i \in 1..pop : i = 1 \/ i \in 2..pop
      BY <1>2, <1>4
    <2>. QED
      BY <2>1, <2>2
  <1>. QED
    BY <1>1, <1>4, <1>5, <1>6, <1>7

LEMMA FiniteIds ==
  ASSUME NEW S \in SUBSET Ids
  PROVE  IsFiniteSet(S) /\ Cardinality(S) \in Nat
  <1>1. IsFiniteSet(Ids)
    BY Bounds, FS_Interval DEF Ids
  <1>. QED
    BY <1>1, FS_Subset, FS_CardinalityType

-----------------------------------------------------------------------------
(* The queue and the group, step by step.                                  *)
Queue == QueueTyped /\ QueueInv /\ CallInv /\ GroupInv

Returns(t, pop) ==
  /\ pc[t] \in AtFront /\ pop \in 1..Len(writers) /\ calls' = calls
  /\ lastSeq' \in Nat /\ lastSeq' <= lastSeq + pop
  /\ \E ok \in BOOLEAN, pcs \in {pc, SignalAll(pc)} : Return(t, pop, ok, pcs)

LEMMA ReturnQueue ==
  ASSUME Queue, DataTyped, NEW t \in Threads, NEW pop, Returns(t, pop)
  PROVE  Queue' /\ \A u \in Threads : pc'[u] \notin AtFront
  <1>1. lastSeq \in Nat /\ pop \in 1..Len(writers)
    BY DEF DataTyped, Returns
  <1>2. PICK ok \in BOOLEAN, pcs \in {pc, SignalAll(pc)} : Return(t, pop, ok, pcs)
    BY DEF Returns
  <1>3. QueueTyped' /\ QueueInv' /\ \A u \in Threads : pc'[u] \notin AtFront
    BY <1>1, <1>2, ReturnKeeps DEF Queue, Returns
  <1>4. CallInv'
    BY <1>2, ReturnCalls DEF Queue, Returns
  <1>5. GroupInv'
    BY <1>3 DEF GroupInv, AtFront
  <1>. QED
    BY <1>3, <1>4, <1>5 DEF Queue

(* The steps that end in Return.                                           *)
Ending(t) ==
  RoomError(t) \/ (RoomReady(t) /\ ~IsWrite(t)) \/ RoomNoLog(t) \/ Commit(t)

LEMMA EndingReturns ==
  ASSUME Queue, DataTyped, NEW t \in Threads, Ending(t)
  PROVE  Returns(t, 1) \/ Returns(t, lead.pop)
  <1>1. CASE pc[t] = "room" /\ lastSeq' = lastSeq /\ calls' = calls
             /\ \E ok \in BOOLEAN : Return(t, 1, ok, pc)
    <2>1. pc[t] \in AtFront
      BY <1>1 DEF AtFront
    <2>2. 1 \in 1..Len(writers)
      BY <2>1, FrontAlone DEF Queue
    <2>3. lastSeq' \in Nat /\ lastSeq' <= lastSeq + 1
      BY <1>1 DEF DataTyped
    <2>. QED
      BY <1>1, <2>1, <2>2, <2>3 DEF Returns
  <1>2. CASE Commit(t)
    <2>1. pc[t] \in Writing /\ pc[t] \in AtFront /\ calls' = calls
      BY <1>2 DEF Commit, Writing, AtFront
    <2>2. lead.pop \in 1..Len(writers) /\ Cardinality(lead.group) <= lead.pop
      BY <2>1 DEF Queue, GroupInv
    <2>3. lead \in Lead /\ Cardinality(lead.group) \in Nat /\ Len(writers) \in Nat
      BY FiniteIds DEF Queue, QueueTyped, Lead
    <2>4. lastSeq' \in Nat /\ lastSeq' <= lastSeq + lead.pop
      BY <1>2, <2>2, <2>3 DEF Commit, DataTyped
    <2>5. \E ok \in BOOLEAN, pcs \in {pc, SignalAll(pc)} : Return(t, lead.pop, ok, pcs)
      BY <1>2, <2>3 DEF Commit, Lead
    <2>. QED
      BY <2>1, <2>2, <2>4, <2>5 DEF Returns
  <1>3. CASE RoomError(t) \/ (RoomReady(t) /\ ~IsWrite(t)) \/ RoomNoLog(t)
    <2>1. lastSeq' = lastSeq /\ calls' = calls /\ pc[t] = "room"
      BY <1>3 DEF RoomError, RoomReady, RoomNoLog, InRoom, dbVars
    <2>2. \E ok \in BOOLEAN : Return(t, 1, ok, pc)
      BY <1>3 DEF RoomError, RoomReady, RoomNoLog
    <2>. QED
      BY <1>1, <2>1, <2>2
  <1>. QED
    BY <1>2, <1>3 DEF Ending

LEMMA BackgroundQueue ==
  ASSUME Queue, BackgroundStep
  PROVE  Queue'
  <1>1. /\ UNCHANGED <<mutex, call, writers, lead, calls, acked, lastSeq>>
        /\ pc' = pc \/ pc' = SignalAll(pc)
    BY BackgroundMoves
  <1>2. /\ pc' \in [Threads -> PCs]
        /\ \A u \in Threads :
             /\ pc'[u] \in AtFront <=> pc[u] \in AtFront
             /\ pc'[u] = "wait" <=> pc[u] = "wait"
             /\ pc'[u] = "check" <=> pc[u] = "check"
             /\ pc[u] = "room" => pc'[u] = "room"
             /\ pc'[u] \in Writing => pc'[u] = pc[u]
    BY <1>1, Woken_ DEF Queue, QueueTyped
  <1>3. QueueTyped'
    BY <1>1, <1>2 DEF Queue, QueueTyped
  <1>4. mutex' # None => pc'[mutex'] = "room"
    BY <1>1, <1>2 DEF Queue, QueueTyped, QueueInv
  <1>5. QueueInv'
    BY <1>1, <1>2, <1>4, PlacesKept DEF Queue
  <1>6. CallInv'
    BY <1>1 DEF Queue, CallInv
  <1>7. GroupInv'
    BY <1>1, <1>2 DEF Queue, GroupInv, Covers, IsWrite
  <1>. QED
    BY <1>3, <1>5, <1>6, <1>7 DEF Queue

LEMMA OuterQueue ==
  ASSUME Queue, NEW t \in Threads, Outer(t)
  PROVE  Queue'
  <1>1. /\ UNCHANGED <<mutex, call, writers, lead, calls, acked, lastSeq>>
        /\ mutex = None /\ pc[t] \in {"imm", "range"}
        /\ pc'[t] \in {"immSleep", "range", "rangeSleep", "idle"}
        /\ pc' \in [Threads -> PCs] /\ \A u \in Threads \ {t} : pc'[u] = pc[u]
    BY OuterMoves DEF Queue
  <1>2. QueueTyped'
    BY <1>1 DEF Queue, QueueTyped
  <1>3. \A u \in Threads :
          /\ pc'[u] \in AtFront <=> pc[u] \in AtFront
          /\ pc'[u] = "wait" <=> pc[u] = "wait"
          /\ pc'[u] = "check" <=> pc[u] = "check"
          /\ pc'[u] \in Writing => pc'[u] = pc[u]
    BY <1>1 DEF AtFront, Writing
  <1>4. QueueInv'
    BY <1>1, <1>3, PlacesKept DEF Queue
  <1>5. CallInv'
    BY <1>1 DEF Queue, CallInv
  <1>6. GroupInv'
    BY <1>1, <1>3 DEF Queue, GroupInv, Covers, IsWrite
  <1>. QED
    BY <1>2, <1>4, <1>5, <1>6 DEF Queue

LEMMA NewLead ==
  ASSUME NEW f \in BOOLEAN, NEW d \in BOOLEAN
  PROVE  [NoLead EXCEPT !.force = f, !.delay = d] \in Lead
  <1>1. /\ [NoLead EXCEPT !.force = TRUE, !.delay = TRUE] \in Lead
        /\ [NoLead EXCEPT !.force = TRUE, !.delay = FALSE] \in Lead
        /\ [NoLead EXCEPT !.force = FALSE, !.delay = TRUE] \in Lead
        /\ [NoLead EXCEPT !.force = FALSE, !.delay = FALSE] \in Lead
    BY DEF NoLead, Lead
  <1>2. (f = TRUE \/ f = FALSE) /\ (d = TRUE \/ d = FALSE)
    BY Zenon
  <1>. QED
    BY <1>1, <1>2, Zenon

LEMMA InnerQueue ==
  ASSUME Queue, DataTyped, NEW t \in Threads, Inner(t)
  PROVE  Queue' /\ pc[t] \in AtFront /\ \A u \in Threads \ {t} : pc[u] \notin AtFront /\ pc'[u] = pc[u]
  <1>1. /\ UNCHANGED <<call, writers, calls, acked, lastSeq>>
        /\ pc[t] \in AtFront /\ pc'[t] \in AtFront
        /\ pc' \in [Threads -> PCs] /\ \A u \in Threads \ {t} : pc'[u] = pc[u]
        /\ mutex' = None \/ (mutex' = t /\ pc'[t] = "room") \/ (mutex' = mutex /\ pc[t] # "room")
    BY InnerMoves DEF Queue
  <1>2. /\ 1 \in 1..Len(writers) /\ writers[1] = t
        /\ \A u \in Threads \ {t} : pc[u] \notin AtFront
    BY <1>1, FrontAlone DEF Queue
  <1>3. \A u \in Threads :
          /\ pc'[u] \in AtFront <=> pc[u] \in AtFront
          /\ pc'[u] = "wait" <=> pc[u] = "wait"
          /\ pc'[u] = "check" <=> pc[u] = "check"
    BY <1>1 DEF AtFront, Writing
  <1>4. mutex' # None => mutex' \in Threads /\ pc'[mutex'] = "room"
    BY <1>1, <1>2 DEF Queue, QueueTyped, QueueInv, AtFront
  <1>5. QueueInv'
    BY <1>1, <1>3, <1>4, PlacesKept DEF Queue
  <1>6. CallInv'
    BY <1>1 DEF Queue, CallInv
  <1>7. lead' \in Lead /\ GroupInv'
    <2>1. SUFFICES lead' \in Lead /\ (pc'[t] \in Writing =>
               /\ IsWrite(t) /\ lead'.pop \in 1..Len(writers)
               /\ Cardinality(lead'.group) <= lead'.pop
               /\ \A i \in 1..lead'.pop :
                    LET u == writers[i]
                    IN  IsWrite(u) => /\ call[u].id \in lead'.group
                                      /\ call[u].kind = "sync" => call[t].kind = "sync"
               /\ pc'[t] \in {"sync", "syncError"} => call[t].kind = "sync"
               /\ pc'[t] = "syncError" => ~lead'.ok)
      BY <1>1, <1>2 DEF GroupInv, Covers, AtFront, IsWrite
    <2>2. lead \in Lead /\ pc \in [Threads -> PCs]
      BY DEF Queue, QueueTyped
    <2>3. pc[t] \in Writing =>
            /\ IsWrite(t) /\ lead.pop \in 1..Len(writers) /\ Cardinality(lead.group) <= lead.pop
            /\ Covers(t)
            /\ pc[t] \in {"sync", "syncError"} => call[t].kind = "sync"
            /\ pc[t] = "syncError" => ~lead.ok
      BY DEF Queue, GroupInv
    <2>4. CASE RoomReady(t) /\ IsWrite(t)
      <3>1. PICK g : g = BuildBatchGroup(writers)
        OBVIOUS
      <3>2. /\ g.pop \in 1..Len(writers) /\ g.ids \subseteq Ids /\ Cardinality(g.ids) <= g.pop
            /\ \A i \in 1..g.pop :
                 /\ IsWrite(writers[i]) => call[writers[i]].id \in g.ids
                 /\ call[writers[i]].kind = "sync" => call[writers[1]].kind = "sync"
        BY <1>2, <3>1, Group DEF Queue, QueueTyped
      <3>3. lead' = [lead EXCEPT !.group = g.ids, !.pop = g.pop] /\ pc'[t] = "append"
        BY <2>2, <2>4, <3>1 DEF RoomReady
      <3>4. lead' \in Lead /\ lead'.group = g.ids /\ lead'.pop = g.pop
        <4>1. g.pop \in Nat
          BY <3>2
        <4>2. PICK pop \in Nat, ids \in SUBSET Ids : pop = g.pop /\ ids = g.ids
          BY <3>2, <4>1
        <4>3. lead' = [lead EXCEPT !.group = ids, !.pop = pop]
          BY <3>3, <4>2
        <4>. QED
          BY <2>2, <4>2, <4>3 DEF Lead
      <3>. QED
        BY <1>2, <2>4, <3>2, <3>3, <3>4
    <2>5. CASE RoomDelay(t) \/ RoomSwitch(t) \/ RoomWait(t)
      <3>1. pc'[t] \in {"room", "roomSleep"}
        BY <2>2, <2>5 DEF RoomDelay, RoomSwitch, RoomWait, InRoom
      <3>2. lead' \in Lead
        BY <2>2, <2>5 DEF RoomDelay, RoomSwitch, RoomWait, Lead
      <3>. QED
        BY <3>1, <3>2 DEF Writing
    <2>6. CASE AddRecord(t) \/ SyncLog(t)
      <3>1. /\ pc[t] \in {"append", "sync"}
            /\ \E ok \in BOOLEAN : /\ lead' = [lead EXCEPT !.ok = ok]
                                   /\ pc'[t] = "syncError" => ~ok
            /\ pc'[t] \in {"sync", "syncError"} => pc[t] = "sync" \/ call[t].kind = "sync"
        BY <2>2, <2>6 DEF AddRecord, SyncLog, Fails
      <3>2. /\ lead' \in Lead /\ lead'.pop = lead.pop /\ lead'.group = lead.group
            /\ pc'[t] = "syncError" => ~lead'.ok
        BY <2>2, <3>1 DEF Lead
      <3>. QED
        BY <2>3, <3>1, <3>2 DEF Writing, Covers
    <2>7. CASE InsertInto(t)
      <3>1. lead' = lead /\ pc[t] = "insert" /\ pc'[t] = "commit"
        BY <2>2, <2>7 DEF InsertInto
      <3>. QED
        BY <2>2, <2>3, <3>1 DEF Writing, Covers
    <2>. QED
      BY <2>4, <2>5, <2>6, <2>7 DEF Inner
  <1>8. QueueTyped'
    BY <1>1, <1>4, <1>7 DEF Queue, QueueTyped
  <1>. QED
    BY <1>1, <1>2, <1>5, <1>6, <1>7, <1>8 DEF Queue

LEMMA EnterQueue ==
  ASSUME Queue, DataTyped, NEW t \in Threads, NEW kind \in Kinds, Enter(t, kind)
  PROVE  Queue'
  <1>1. /\ mutex = None /\ pc[t] = "idle" /\ calls < MaxOps /\ calls' = calls + 1
        /\ call' = [call EXCEPT ![t] = [kind |-> kind, id |-> calls + 1,
                                        done |-> FALSE, ok |-> TRUE]]
        /\ writers' = Append(writers, t)
        /\ lastSeq' = lastSeq /\ acked' = acked
    BY DEF Enter, dbVars
  <1>2. /\ writers = <<>> => /\ pc' = [pc EXCEPT ![t] = "room"] /\ mutex' = t
                             /\ lead' = [NoLead EXCEPT !.force = kind \in {"flush", "range"},
                                                       !.delay = kind \in {"write", "sync"}]
        /\ writers # <<>> => /\ pc' = [pc EXCEPT ![t] = "wait"] /\ mutex' = mutex /\ lead' = lead
    BY DEF Enter
  <1>3. /\ writers \in Seq(Threads) /\ IsInjective(writers) /\ Len(writers) \in Nat
        /\ pc \in [Threads -> PCs] /\ call \in [Threads -> Call] /\ calls \in Nat /\ calls' \in 1..MaxOps
        /\ kind \in AllKinds \ {"none"}
    BY <1>1, Bounds DEF Queue, QueueTyped, AllKinds
  <1>4. \A i \in 1..Len(writers) : writers[i] # t
    BY <1>1 DEF Queue, QueueInv, Queued, AtFront, Writing
  <1>5. /\ writers' \in Seq(Threads) /\ Len(writers') = Len(writers) + 1
        /\ \A i \in 1..Len(writers) : writers'[i] = writers[i]
        /\ writers'[Len(writers) + 1] = t
    BY <1>1, <1>3
  <1>6. IsInjective(writers')
    <2>1. DOMAIN writers' = 1..(Len(writers) + 1)
      BY <1>5, LenProperties
    <2>2. ASSUME NEW i \in 1..Len(writers), NEW j \in 1..Len(writers), writers[i] = writers[j]
          PROVE  i = j
      BY <1>3, <2>2, Once
    <2>. QED
      BY <1>3, <1>4, <1>5, <2>1, <2>2 DEF IsInjective
  <1>7. /\ pc' \in [Threads -> PCs] /\ \A u \in Threads \ {t} : pc'[u] = pc[u]
        /\ call' \in [Threads -> Call] /\ \A u \in Threads \ {t} : call'[u] = call[u]
        /\ call'[t].id = calls + 1 /\ ~call'[t].done /\ call'[t].kind = kind
        /\ pc'[t] = IF writers = <<>> THEN "room" ELSE "wait"
    BY <1>1, <1>2, <1>3 DEF PCs, AtFront, Call
  <1>8. lead' \in Lead /\ mutex' \in Threads \cup {None} /\ (mutex' # None => pc'[mutex'] = "room")
    <2>1. CASE writers = <<>>
      <3>1. (kind \in {"flush", "range"}) \in BOOLEAN /\ (kind \in {"write", "sync"}) \in BOOLEAN
        OBVIOUS
      <3>2. lead' \in Lead
        BY <1>2, <2>1, <3>1, NewLead
      <3>. QED
        BY <1>2, <1>7, <2>1, <3>2
    <2>2. CASE writers # <<>>
      BY <1>1, <1>2, <2>2 DEF Queue, QueueTyped
    <2>. QED
      BY <2>1, <2>2
  <1>9. QueueTyped'
    BY <1>1, <1>3, <1>5, <1>6, <1>7, <1>8 DEF Queue, QueueTyped
  <1>10. ASSUME NEW u \in Threads
         PROVE  /\ Queued(u)' <=> \E i \in 1..Len(writers') : writers'[i] = u
                /\ pc'[u] \in AtFront => writers'[1] = u
                /\ Queued(u)' => ~call'[u].done /\ call'[u].kind # "none"
    <2>1. CASE u = t
      BY <1>3, <1>5, <1>7, <2>1 DEF Queued, AtFront, Writing
    <2>2. CASE u # t
      <3>1. /\ pc'[u] = pc[u] /\ call'[u] = call[u]
            /\ Queued(u) <=> \E i \in 1..Len(writers) : writers[i] = u
            /\ pc[u] \in AtFront => writers[1] = u
            /\ Queued(u) => ~call[u].done /\ call[u].kind # "none"
        BY <1>7, <2>2 DEF Queue, QueueInv
      <3>2. (\E i \in 1..Len(writers') : writers'[i] = u) <=> (\E i \in 1..Len(writers) : writers[i] = u)
        BY <1>3, <1>5, <2>2
      <3>3. pc[u] \in AtFront => 1 \in 1..Len(writers)
        BY <1>3, <3>1 DEF Queued
      <3>. QED
        BY <1>5, <3>1, <3>2, <3>3 DEF Queued
    <2>. QED
      BY <2>1, <2>2
  <1>11. QueueInv'
    BY <1>1, <1>3, <1>5, <1>8, <1>10 DEF Queue, QueueInv, DataTyped
  <1>12. CallInv'
    BY <1>1, <1>3, <1>7 DEF Queue, CallInv, Call
  <1>13. GroupInv'
    <2>1. SUFFICES ASSUME NEW u \in Threads, pc'[u] \in Writing
                   PROVE  /\ IsWrite(u)' /\ lead'.pop \in 1..Len(writers')
                          /\ Cardinality(lead'.group) <= lead'.pop
                          /\ Covers(u)'
                          /\ pc'[u] \in {"sync", "syncError"} => call'[u].kind = "sync"
                          /\ pc'[u] = "syncError" => ~lead'.ok
      BY DEF GroupInv
    <2>2. u # t /\ pc'[u] = pc[u] /\ call'[u] = call[u]
      BY <1>7, <2>1 DEF Writing
    <2>3. /\ IsWrite(u) /\ lead.pop \in 1..Len(writers) /\ Cardinality(lead.group) <= lead.pop
          /\ Covers(u)
          /\ pc[u] \in {"sync", "syncError"} => call[u].kind = "sync"
          /\ pc[u] = "syncError" => ~lead.ok
      BY <2>1, <2>2 DEF Queue, GroupInv
    <2>4. lead' = lead
      BY <1>2, <1>3, <2>3
    <2>5. \A i \in 1..lead.pop : writers'[i] = writers[i] /\ call'[writers'[i]] = call[writers[i]]
      <3>1. \A i \in 1..lead.pop : i \in 1..Len(writers) /\ writers[i] \in Threads \ {t}
        BY <1>3, <1>4, <2>3
      <3>. QED
        BY <1>5, <1>7, <3>1
    <2>6. Covers(u)'
      BY <2>2, <2>3, <2>4, <2>5 DEF Covers, IsWrite
    <2>. QED
      BY <1>3, <1>5, <2>1, <2>2, <2>3, <2>4, <2>6 DEF IsWrite
  <1>. QED
    BY <1>9, <1>11, <1>12, <1>13 DEF Queue

LEMMA RecheckQueue ==
  ASSUME Queue, NEW t \in Threads, Recheck(t)
  PROVE  Queue'
  <1>1. /\ mutex = None /\ pc[t] = "check"
        /\ UNCHANGED <<call, writers, calls, lastSeq>>
        /\ acked' \subseteq IF IsWrite(t) THEN acked \cup {call[t].id} ELSE acked
    BY DEF Recheck, dbVars
  <1>2. /\ pc \in [Threads -> PCs] /\ call \in [Threads -> Call]
        /\ writers \in Seq(Threads) /\ Len(writers) \in Nat
    BY DEF Queue, QueueTyped
  <1>3. \/ /\ call[t].done /\ pc'[t] \in {"idle", "imm", "range"} /\ UNCHANGED <<mutex, lead>>
        \/ /\ ~call[t].done /\ t = Head(writers) /\ pc'[t] = "room" /\ mutex' = t
           /\ lead' = [NoLead EXCEPT !.force = ~IsWrite(t), !.delay = IsWrite(t)]
        \/ /\ ~call[t].done /\ pc'[t] = "wait" /\ UNCHANGED <<mutex, lead>>
    BY <1>2 DEF Recheck, Continue
  <1>4. pc' \in [Threads -> PCs] /\ \A u \in Threads \ {t} : pc'[u] = pc[u]
    BY <1>2 DEF Recheck, Continue, PCs, AtFront
  <1>5. CallInv'
    BY <1>1, CallsKept DEF Queue
  <1>6. QueueTyped'
    <2>1. lead' \in Lead /\ mutex' \in Threads \cup {None}
      <3>1. (~IsWrite(t)) \in BOOLEAN /\ IsWrite(t) \in BOOLEAN
        BY DEF IsWrite
      <3>2. lead' = lead \/ lead' \in Lead
        BY <1>3, <3>1, NewLead
      <3>. QED
        BY <1>1, <1>3, <3>2 DEF Queue, QueueTyped
    <2>2. acked' \subseteq Ids
      BY <1>1, <1>5, Bounds DEF CallInv, Ids, Queue, QueueTyped
    <2>. QED
      BY <1>1, <1>4, <2>1, <2>2 DEF Queue, QueueTyped
  <1>7. ASSUME NEW u \in Threads
        PROVE  Queued(u)' <=> Queued(u)
    BY <1>1, <1>3, <1>4 DEF Queued, AtFront, Writing
  <1>8. CASE pc'[t] # "room"
    <2>1. mutex' = None /\ lead' = lead /\ \A u \in Threads : pc'[u] \in AtFront => u # t /\ pc'[u] = pc[u]
      BY <1>1, <1>3, <1>4, <1>8 DEF AtFront, Writing
    <2>2. QueueInv'
      BY <1>1, <1>7, <2>1 DEF Queue, QueueInv
    <2>3. GroupInv'
      BY <1>1, <2>1 DEF Queue, GroupInv, Covers, IsWrite, AtFront
    <2>. QED
      BY <1>5, <1>6, <2>2, <2>3 DEF Queue
  <1>9. CASE pc'[t] = "room"
    <2>1. Queued(t) /\ t = Head(writers) /\ mutex' = t
      BY <1>1, <1>3, <1>9 DEF Queued
    <2>2. writers[1] = t
      BY <1>2, <2>1 DEF Queue, QueueInv
    <2>3. \A u \in Threads \ {t} : pc'[u] \notin AtFront
      BY <1>4, <2>2 DEF Queue, QueueInv
    <2>4. QueueInv'
      BY <1>1, <1>7, <1>9, <2>1, <2>2, <2>3 DEF Queue, QueueInv
    <2>5. GroupInv'
      BY <1>9, <2>3 DEF GroupInv, AtFront, Writing
    <2>. QED
      BY <1>5, <1>6, <2>4, <2>5 DEF Queue
  <1>. QED
    BY <1>8, <1>9

-----------------------------------------------------------------------------
(* The data and the background thread, step by step.                       *)

(* What the background thread works on is there.                           *)
BackgroundInv ==
  /\ scheduled <=> bg.pc # "idle"
  /\ bg.pc \in {"idle", "call"} => ~bg.nested /\ bg.inputs = 0 /\ bg.manual = None
  /\ bg.pc \in {"table", "manifest"} => imm # None
  /\ bg.inputs <= level0
  /\ bg.manual # None => chunk[bg.manual] > 0
  /\ manual # None => pc[manual] \in {"range", "rangeSleep"}
  /\ closing # "open" => \A t \in Threads : pc[t] = "idle"
  /\ closing = "closed" => ~scheduled
Store == DataTyped /\ BackgroundTyped /\ BackgroundInv

(* Steps of clients that neither ask for work nor withdraw a request.      *)
LEMMA StoreKept ==
  ASSUME Queue, Store,
         UNCHANGED <<scheduled, bg, manual, closing, level0, imm>>,
         bgError' \in BOOLEAN, chunk' \in [Threads -> 0..(Chunks + 1)],
         \A u \in Threads : chunk[u] > 0 => chunk'[u] > 0,
         DataTyped',
         \A u \in Threads : pc[u] \in {"range", "rangeSleep"} => pc'[u] \in {"range", "rangeSleep"},
         closing = "open" \/ pc' = pc
  PROVE  Store'
  <1>1. BackgroundTyped'
    BY DEF Store, BackgroundTyped
  <1>2. BackgroundInv'
    BY DEF Store, BackgroundTyped, BackgroundInv, Background
  <1>. QED
    BY <1>1, <1>2 DEF Store

LEMMA EnterStore ==
  ASSUME Queue, Store, NEW t \in Threads, NEW kind \in Kinds, Enter(t, kind)
  PROVE  Store'
  <1>1. UNCHANGED <<dbVars, bgError, scheduled, bg, manual, closing>> /\ closing = "open" /\ pc[t] = "idle"
    BY DEF Enter
  <1>2. PICK n \in 1..(Chunks + 1) : chunk' = IF kind = "range" THEN [chunk EXCEPT ![t] = n] ELSE chunk
    BY DEF Enter
  <1>3. chunk' \in [Threads -> 0..(Chunks + 1)] /\ \A u \in Threads : chunk[u] > 0 => chunk'[u] > 0
    BY <1>2, Bounds DEF Store, BackgroundTyped
  <1>4. \A u \in Threads \ {t} : pc'[u] = pc[u]
    BY DEF Enter, Queue, QueueTyped
  <1>5. DataTyped'
    BY <1>1 DEF Store, DataTyped, dbVars
  <1>. QED
    BY <1>1, <1>3, <1>4, <1>5, StoreKept DEF Store, BackgroundTyped, dbVars

LEMMA RecheckStore ==
  ASSUME Queue, Store, NEW t \in Threads, Recheck(t)
  PROVE  Store'
  <1>1. UNCHANGED <<dbVars, bgError, bgVars, closing>> /\ pc[t] = "check"
    BY DEF Recheck
  <1>2. closing = "open"
    BY <1>1 DEF Store, BackgroundTyped, BackgroundInv
  <1>3. \A u \in Threads \ {t} : pc'[u] = pc[u]
    BY DEF Recheck, Queue, QueueTyped
  <1>4. DataTyped'
    BY <1>1 DEF Store, DataTyped, dbVars
  <1>. QED
    BY <1>1, <1>2, <1>3, <1>4, StoreKept DEF Store, BackgroundTyped, dbVars, bgVars

LEMMA ReturnStays ==
  ASSUME Queue, NEW t \in Threads, NEW pop, Returns(t, pop)
  PROVE  \A u \in Threads : pc[u] \in {"range", "rangeSleep"} => pc'[u] \in {"range", "rangeSleep"}
  <1>1. PICK pcs \in {pc, SignalAll(pc)}, ok \in BOOLEAN : pc' = Answered(t, pop, ok, pcs)
    BY DEF Returns, Return
  <1>2. ASSUME NEW u \in Threads, pc[u] \in {"range", "rangeSleep"}
        PROVE  pc'[u] \in {"range", "rangeSleep"}
    <2>1. u # t
      BY <1>2 DEF Returns, AtFront, Writing
    <2>2. \A i \in 1..Len(writers) : writers[i] # u
      BY <1>2 DEF Queue, QueueInv, Queued, AtFront, Writing
    <2>3. pc'[u] = pcs[u]
      BY <1>1, <2>1, <2>2 DEF Answered
    <2>. QED
      BY <1>2, <2>3, Woken_ DEF Queue, QueueTyped
  <1>. QED
    BY <1>2

LEMMA EndingStore ==
  ASSUME Queue, Store, NEW t \in Threads, Ending(t)
  PROVE  Store'
  <1>1. PICK pop : Returns(t, pop)
    BY EndingReturns DEF Store
  <1>2. pc[t] \in AtFront /\ lastSeq' \in Nat
    BY <1>1 DEF Returns
  <1>3. /\ UNCHANGED <<logs, mem, imm, tables, logNumber, level0, bgVars, closing>>
        /\ bgError' \in BOOLEAN
    BY DEF Ending, RoomError, RoomReady, RoomNoLog, Commit, dbVars, Store, BackgroundTyped
  <1>4. closing = "open"
    BY <1>2 DEF Store, BackgroundTyped, BackgroundInv, AtFront, Writing
  <1>5. \A u \in Threads : pc[u] \in {"range", "rangeSleep"} => pc'[u] \in {"range", "rangeSleep"}
    BY <1>1, ReturnStays
  <1>6. DataTyped'
    BY <1>2, <1>3 DEF Store, DataTyped
  <1>. QED
    BY <1>3, <1>4, <1>5, <1>6, StoreKept DEF Store, BackgroundTyped, bgVars

(* The log files after a record, after a sync, after a new one.            *)
LEMMA LogsTyped ==
  ASSUME DataTyped, QueueTyped
  PROVE  /\ Current \in 1..Len(logs) /\ Current \in Nat
         /\ \A l \in 1..Current : logs[l] \in LogFile
         /\ Append(logs, EmptyLog) \in Seq(LogFile) /\ Len(Append(logs, EmptyLog)) = Current + 1
         /\ \A r \in Record : [logs EXCEPT ![Current].recs = Append(@, r)] \in Seq(LogFile)
         /\ [logs EXCEPT ![Current].synced = Len(logs[Current].recs)] \in Seq(LogFile)
  <1>1. /\ Len(logs) \in Nat /\ Current = Len(logs) /\ Current \in 1..Len(logs)
        /\ \A l \in 1..Current : logs[l] \in LogFile
    BY DEF DataTyped, Current
  <1>2. EmptyLog \in LogFile
    BY DEF EmptyLog, LogFile
  <1>3. ASSUME NEW l \in LogFile
        PROVE  [logs EXCEPT ![Current] = l] \in Seq(LogFile)
    BY <1>1 DEF DataTyped
  <1>4. ASSUME NEW r \in Record
        PROVE  [logs EXCEPT ![Current].recs = Append(@, r)] \in Seq(LogFile)
    <2>0. logs[Current] \in LogFile /\ Append(logs[Current].recs, r) \in Seq(Record)
      BY <1>1 DEF LogFile
    <2>1. [logs[Current] EXCEPT !.recs = Append(@, r)] \in LogFile
      BY <2>0 DEF LogFile
    <2>. QED
      BY <1>1, <1>3, <2>1
  <1>5. [logs EXCEPT ![Current].synced = Len(logs[Current].recs)] \in Seq(LogFile)
    <2>1. [logs[Current] EXCEPT !.synced = Len(logs[Current].recs)] \in LogFile
      BY <1>1 DEF LogFile
    <2>. QED
      BY <1>1, <1>3, <2>1
  <1>6. Append(logs, EmptyLog) \in Seq(LogFile) /\ Len(Append(logs, EmptyLog)) = Current + 1
    BY <1>1, <1>2 DEF DataTyped
  <1>. QED
    BY <1>1, <1>4, <1>5, <1>6

LEMMA Scheduled ==
  ASSUME BackgroundTyped, BackgroundInv, NEW frozen, NEW man, Schedule(frozen, man)
  PROVE  /\ scheduled' \in BOOLEAN /\ bg' \in Background
         /\ scheduled' <=> bg'.pc # "idle"
         /\ bg' = bg \/ (scheduled' /\ closing = "open" /\ bg.pc = "idle" /\ bg' = [IdleBg EXCEPT !.pc = "call"])
  <1>1. /\ scheduled' = MaybeScheduleCompaction(scheduled, frozen, man, level0, bgError)
        /\ bg' = IF scheduled' /\ ~scheduled THEN [IdleBg EXCEPT !.pc = "call"] ELSE bg
        /\ scheduled => scheduled'
        /\ scheduled' => scheduled \/ closing = "open"
    BY DEF Schedule, MaybeScheduleCompaction
  <1>2. scheduled' \in BOOLEAN
    BY <1>1 DEF MaybeScheduleCompaction
  <1>3. [IdleBg EXCEPT !.pc = "call"] \in Background /\ [IdleBg EXCEPT !.pc = "call"].pc = "call"
    BY DEF IdleBg, Background
  <1>. QED
    BY <1>1, <1>2, <1>3 DEF BackgroundTyped, BackgroundInv

LEMMA InnerStore ==
  ASSUME Queue, Store, NEW t \in Threads, Inner(t)
  PROVE  Store'
  <1>1. /\ lastSeq' = lastSeq /\ pc[t] \in AtFront
        /\ \A u \in Threads \ {t} : pc'[u] = pc[u]
    BY InnerMoves DEF Queue, Store
  <1>2. /\ pc[t] \notin {"idle", "range", "rangeSleep"} /\ closing = "open"
        /\ \A u \in Threads : pc[u] \in {"range", "rangeSleep"} => pc'[u] \in {"range", "rangeSleep"}
    BY <1>1 DEF AtFront, Writing, Store, BackgroundTyped, BackgroundInv
  <1>3. CASE RoomDelay(t) \/ RoomReady(t) \/ RoomWait(t)
    <2>1. UNCHANGED <<dbVars, bgError, bgVars, closing>>
      BY <1>3 DEF RoomDelay, RoomReady, RoomWait
    <2>2. DataTyped'
      BY <2>1 DEF Store, DataTyped, dbVars
    <2>. QED
      BY <1>2, <2>1, <2>2, StoreKept DEF Store, BackgroundTyped, dbVars, bgVars
  <1>4. CASE AddRecord(t)
    <2>1. /\ UNCHANGED <<lastSeq, mem, imm, tables, logNumber, level0, bgError, bgVars, closing>>
          /\ \E whole \in BOOLEAN :
               logs' = [logs EXCEPT ![Current].recs =
                          Append(@, [seq |-> lastSeq + 1, ids |-> lead.group, whole |-> whole])]
      BY <1>4 DEF AddRecord
    <2>2. \A whole \in BOOLEAN : [seq |-> lastSeq + 1, ids |-> lead.group, whole |-> whole] \in Record
      BY DEF Record, Queue, QueueTyped, Lead, Store, DataTyped
    <2>3. logs' \in Seq(LogFile)
      BY <2>1, <2>2, LogsTyped DEF Store, Queue
    <2>4. Len(logs') = Len(logs)
      BY <2>1 DEF Store, DataTyped
    <2>5. DataTyped'
      BY <2>1, <2>3, <2>4 DEF Store, DataTyped
    <2>. QED
      BY <1>2, <2>1, <2>5, StoreKept DEF Store, BackgroundTyped, bgVars
  <1>5. CASE SyncLog(t)
    <2>1. /\ UNCHANGED <<lastSeq, mem, imm, tables, logNumber, level0, bgError, bgVars, closing>>
          /\ \/ logs' = logs
             \/ logs' = [logs EXCEPT ![Current].synced = Len(logs[Current].recs)]
      BY <1>5 DEF SyncLog
    <2>2. logs' \in Seq(LogFile) /\ Len(logs') = Len(logs)
      BY <2>1, LogsTyped DEF Store, DataTyped, Queue
    <2>3. DataTyped'
      BY <2>1, <2>2 DEF Store, DataTyped
    <2>. QED
      BY <1>2, <2>1, <2>3, StoreKept DEF Store, BackgroundTyped, bgVars
  <1>6. CASE InsertInto(t)
    <2>1. /\ UNCHANGED <<lastSeq, logs, imm, tables, logNumber, level0, bgError, bgVars, closing>>
          /\ mem' = mem \cup lead.group
      BY <1>6 DEF InsertInto
    <2>2. DataTyped'
      BY <2>1 DEF Store, DataTyped, Queue, QueueTyped, Lead
    <2>. QED
      BY <1>2, <2>1, <2>2, StoreKept DEF Store, BackgroundTyped, bgVars
  <1>7. CASE RoomSwitch(t)
    <2>1. /\ UNCHANGED <<pc, lastSeq, tables, logNumber, level0, bgError, manual, chunk, closing>>
          /\ logs' = Append(logs, EmptyLog) /\ imm' = mem /\ mem' = {} /\ imm = None
          /\ Schedule(imm', manual)
      BY <1>7 DEF RoomSwitch
    <2>2. /\ scheduled' \in BOOLEAN /\ bg' \in Background
          /\ scheduled' <=> bg'.pc # "idle"
          /\ bg' = bg \/ (scheduled' /\ closing = "open" /\ bg.pc = "idle" /\ bg' = [IdleBg EXCEPT !.pc = "call"])
      BY <2>1, Scheduled DEF Store
    <2>3. logs' \in Seq(LogFile) /\ Len(logs') = Len(logs) + 1 /\ Len(logs) \in Nat
      BY <2>1, LogsTyped DEF Store, Queue, Current
    <2>4. DataTyped'
      BY <2>1, <2>3 DEF Store, DataTyped
    <2>5. BackgroundTyped'
      BY <2>1, <2>2 DEF Store, BackgroundTyped
    <2>6. bg.pc \notin {"table", "manifest"}
      BY <2>1 DEF Store, BackgroundInv
    <2>7. BackgroundInv'
      <3>1. CASE bg' = bg
        BY <1>2, <2>1, <2>2, <2>6, <3>1 DEF Store, BackgroundInv
      <3>2. CASE bg' = [IdleBg EXCEPT !.pc = "call"]
        <4>1. bg'.pc = "call" /\ ~bg'.nested /\ bg'.inputs = 0 /\ bg'.manual = None
          BY <3>2 DEF IdleBg
        <4>. QED
          BY <1>2, <2>1, <2>2, <4>1 DEF Store, BackgroundInv, DataTyped
      <3>. QED
        BY <2>2, <3>1, <3>2
    <2>. QED
      BY <2>4, <2>5, <2>7 DEF Store
  <1>. QED
    BY <1>3, <1>4, <1>5, <1>6, <1>7 DEF Inner

LEMMA OuterStore ==
  ASSUME Queue, Store, NEW t \in Threads, Outer(t)
  PROVE  Store'
  <1>1. /\ UNCHANGED <<lastSeq, logs, mem, imm, tables, logNumber, level0, bgError, closing>>
        /\ pc[t] \in {"imm", "range"} /\ \A u \in Threads \ {t} : pc'[u] = pc[u]
    BY OuterMoves DEF Queue
  <1>2. closing = "open" /\ DataTyped'
    BY <1>1 DEF Store, DataTyped, BackgroundTyped, BackgroundInv
  <1>3. CASE WaitForMemTable(t)
    <2>1. UNCHANGED bgVars /\ pc[t] = "imm"
      BY <1>3 DEF WaitForMemTable
    <2>. QED
      BY <1>1, <1>2, <2>1, StoreKept DEF Store, BackgroundTyped, bgVars
  <1>4. CASE WaitForRange(t)
    <2>1. chunk' = chunk /\ pc'[t] = "rangeSleep" /\ t # None
      BY <1>4, Bounds DEF WaitForRange, Queue, QueueTyped
    <2>2. CASE manual # None
      <3>1. UNCHANGED bgVars
        BY <1>4, <2>1, <2>2 DEF WaitForRange, bgVars
      <3>. QED
        BY <1>1, <1>2, <2>1, <3>1, StoreKept DEF Store, BackgroundTyped, bgVars
    <2>3. CASE manual = None
      <3>1. manual' = t /\ Schedule(imm, t)
        BY <1>4, <2>3 DEF WaitForRange
      <3>2. /\ scheduled' \in BOOLEAN /\ bg' \in Background
            /\ scheduled' <=> bg'.pc # "idle"
            /\ bg' = bg \/ (scheduled' /\ closing = "open" /\ bg.pc = "idle" /\ bg' = [IdleBg EXCEPT !.pc = "call"])
        BY <3>1, Scheduled DEF Store
      <3>3. BackgroundTyped'
        BY <1>1, <2>1, <3>1, <3>2 DEF Store, BackgroundTyped
      <3>4. BackgroundInv'
        <4>1. CASE bg' = bg
          BY <1>1, <1>2, <2>1, <3>1, <3>2, <4>1 DEF Store, BackgroundInv
        <4>2. CASE bg' = [IdleBg EXCEPT !.pc = "call"]
          <5>1. bg'.pc = "call" /\ ~bg'.nested /\ bg'.inputs = 0 /\ bg'.manual = None
            BY <4>2 DEF IdleBg
          <5>. QED
            BY <1>1, <1>2, <2>1, <3>1, <3>2, <5>1 DEF Store, BackgroundInv, DataTyped
        <4>. QED
          BY <3>2, <4>1, <4>2
      <3>. QED
        BY <1>2, <3>3, <3>4 DEF Store
    <2>. QED
      BY <2>2, <2>3
  <1>5. CASE LeaveRange(t)
    <2>1. UNCHANGED <<scheduled, bg, chunk>> /\ manual' = IF manual = t THEN None ELSE manual
      BY <1>5 DEF LeaveRange
    <2>2. BackgroundTyped'
      BY <1>1, <2>1 DEF Store, BackgroundTyped
    <2>3. BackgroundInv'
      BY <1>1, <1>2, <2>1 DEF Store, BackgroundTyped, BackgroundInv
    <2>. QED
      BY <1>2, <2>2, <2>3 DEF Store
  <1>. QED
    BY <1>3, <1>4, <1>5 DEF Outer

(* The background thread is idle or called again.                          *)
LEMMA CallEnded ==
  ASSUME Queue, Store, bg.pc # "idle",
         NEW l0 \in Nat, NEW frozen, NEW man \in Threads \cup {None}, NEW err \in BOOLEAN,
         man # None => man = manual,
         EndBackgroundCall(l0, frozen, man, err),
         bgError' = err, level0' = l0, manual' = man, chunk' \in [Threads -> 0..(Chunks + 1)],
         closing' = closing, DataTyped'
  PROVE  Store'
  <1>1. /\ scheduled' = MaybeScheduleCompaction(FALSE, frozen, man, l0, err)
        /\ bg' = IF scheduled' THEN [IdleBg EXCEPT !.pc = "call"] ELSE IdleBg
        /\ pc' = SignalAll(pc)
        /\ scheduled' => closing = "open"
    BY DEF EndBackgroundCall, MaybeScheduleCompaction
  <1>2. scheduled' \in BOOLEAN
    BY <1>1 DEF MaybeScheduleCompaction
  <1>3. /\ bg' \in Background
        /\ scheduled' <=> bg'.pc # "idle"
        /\ bg'.pc \in {"idle", "call"} /\ ~bg'.nested /\ bg'.inputs = 0 /\ bg'.manual = None
    BY <1>1, <1>2 DEF IdleBg, Background
  <1>4. \A u \in Threads :
          /\ pc[u] \in {"range", "rangeSleep"} => pc'[u] \in {"range", "rangeSleep"}
          /\ pc[u] = "idle" => pc'[u] = "idle"
    BY <1>1, Woken_ DEF Queue, QueueTyped
  <1>5. BackgroundTyped'
    BY <1>2, <1>3 DEF Store, BackgroundTyped
  <1>6. BackgroundInv'
    <2>1. scheduled' <=> bg'.pc # "idle"
      BY <1>3
    <2>2. bg'.pc \notin {"table", "manifest"} /\ ~bg'.nested /\ bg'.inputs = 0 /\ bg'.manual = None
      BY <1>3
    <2>3. manual' # None => manual' \in Threads /\ pc'[manual'] \in {"range", "rangeSleep"}
      BY <1>4 DEF Store, BackgroundTyped, BackgroundInv
    <2>4. closing' # "open" => ~scheduled' /\ \A u \in Threads : pc'[u] = "idle"
      BY <1>1, <1>4 DEF Store, BackgroundInv
    <2>. QED
      BY <2>1, <2>2, <2>3, <2>4 DEF BackgroundInv
  <1>. QED
    BY <1>5, <1>6 DEF Store

(* The background thread goes on.                                          *)
LEMMA BackgroundGoesOn ==
  ASSUME Queue, Store, bg.pc # "idle", bg'.pc # "idle", bg' \in Background, DataTyped',
         UNCHANGED <<scheduled, manual, chunk, closing>>, bgError' \in BOOLEAN,
         pc' = pc \/ pc' = SignalAll(pc),
         bg'.pc \in {"table", "manifest"} => imm' # None,
         bg'.pc # "call",
         bg'.inputs <= level0',
         bg'.manual # None => bg'.manual = bg.manual \/ chunk[bg'.manual] > 0
  PROVE  Store'
  <1>1. \A u \in Threads :
          /\ pc[u] \in {"range", "rangeSleep"} => pc'[u] \in {"range", "rangeSleep"}
          /\ pc[u] = "idle" => pc'[u] = "idle"
    BY Woken_ DEF Queue, QueueTyped
  <1>2. BackgroundTyped'
    BY DEF Store, BackgroundTyped
  <1>3. BackgroundInv'
    BY <1>1 DEF Store, BackgroundTyped, BackgroundInv
  <1>. QED
    BY <1>2, <1>3 DEF Store

LEMMA BackgroundStore ==
  ASSUME Queue, Store, BackgroundStep
  PROVE  Store'
  <1>1. /\ UNCHANGED <<lastSeq, logs, mem, closing>>
        /\ pc' = pc \/ pc' = SignalAll(pc)
    BY BackgroundMoves
  <1>2. /\ bg \in Background /\ bgError \in BOOLEAN /\ manual \in Threads \cup {None}
        /\ chunk \in [Threads -> 0..(Chunks + 1)] /\ level0 \in Nat /\ DataTyped
        /\ bg.inputs \in Nat /\ bg.inputs <= level0
        /\ Chunks \in Nat
    BY Bounds DEF Store, DataTyped, BackgroundTyped, BackgroundInv, Background
  <1>3. CASE BackgroundNothing
    <2>1. /\ UNCHANGED <<dbVars, bgError, manual, chunk, closing>> /\ bg.pc = "call"
          /\ EndBackgroundCall(level0, imm, manual, bgError)
      BY <1>3 DEF BackgroundNothing
    <2>2. DataTyped'
      BY <1>2, <2>1 DEF DataTyped, dbVars
    <2>. QED
      BY <1>2, <2>1, <2>2, CallEnded DEF dbVars
  <1>4. CASE BackgroundManualDone
    <2>1. /\ UNCHANGED <<dbVars, bgError, closing>> /\ bg.pc = "call"
          /\ manual # None /\ chunk' = [chunk EXCEPT ![manual] = 0] /\ manual' = None
          /\ EndBackgroundCall(level0, imm, None, bgError)
      BY <1>4 DEF BackgroundManualDone
    <2>2. DataTyped'
      BY <1>2, <2>1 DEF DataTyped, dbVars
    <2>3. chunk' \in [Threads -> 0..(Chunks + 1)]
      BY <1>2, <2>1
    <2>. QED
      BY <1>2, <2>1, <2>2, <2>3, CallEnded DEF dbVars
  <1>5. CASE CompactMemTable
    <2>1. /\ UNCHANGED <<pc, dbVars, bgError, scheduled, manual, chunk, closing>>
          /\ imm # None /\ bg.pc \in {"call", "work"}
          /\ bg' = [bg EXCEPT !.pc = "table", !.nested = (bg.pc = "work")]
      BY <1>5 DEF CompactMemTable
    <2>2. /\ bg'.pc = "table" /\ bg'.inputs = bg.inputs /\ bg'.manual = bg.manual
      BY <1>2, <2>1 DEF Background
    <2>3. bg' \in Background
      <3>1. bg.pc = "work" => bg' = [bg EXCEPT !.pc = "table", !.nested = TRUE]
        BY <1>2, <2>1 DEF Background
      <3>2. bg.pc # "work" => bg' = [bg EXCEPT !.pc = "table", !.nested = FALSE]
        BY <1>2, <2>1 DEF Background
      <3>. QED
        BY <1>2, <3>1, <3>2 DEF Background
    <2>4. DataTyped'
      BY <1>2, <2>1 DEF DataTyped, dbVars
    <2>. QED
      BY <1>2, <2>1, <2>2, <2>3, <2>4, BackgroundGoesOn DEF dbVars
  <1>6. ASSUME NEW l0 \in Nat, NEW frozen, NEW err \in BOOLEAN, EndCompactMemTable(l0, frozen, err),
               bg.pc \in {"table", "manifest"}, level0 <= l0,
               level0' = l0, bgError' = err, UNCHANGED <<manual, chunk>>, DataTyped'
        PROVE  Store'
    <2>1. CASE bg.nested
      <3>1. bg' = [bg EXCEPT !.pc = "work"] /\ pc' = SignalAll(pc) /\ scheduled' = scheduled
        BY <1>6, <2>1 DEF EndCompactMemTable
      <3>2. bg' \in Background /\ bg'.pc = "work" /\ bg'.inputs = bg.inputs /\ bg'.manual = bg.manual
        BY <1>2, <3>1 DEF Background
      <3>3. bg'.inputs <= level0'
        BY <1>2, <1>6, <3>2
      <3>. QED
        BY <1>1, <1>6, <3>1, <3>2, <3>3, BackgroundGoesOn
    <2>2. CASE ~bg.nested
      <3>1. EndBackgroundCall(l0, frozen, manual, err)
        BY <1>6, <2>2 DEF EndCompactMemTable
      <3>. QED
        BY <1>1, <1>2, <1>6, <3>1, CallEnded
    <2>. QED
      BY <2>1, <2>2
  <1>7. CASE TableWritten
    <2>1. UNCHANGED <<dbVars, manual, chunk, closing>> /\ bg.pc = "table"
      BY <1>7 DEF TableWritten
    <2>2. DataTyped'
      BY <1>2, <2>1 DEF DataTyped, dbVars
    <2>3. \/ bgError' = TRUE /\ EndCompactMemTable(level0, imm, TRUE)
          \/ bg' = [bg EXCEPT !.pc = "manifest"] /\ UNCHANGED <<pc, scheduled, bgError>>
      BY <1>7 DEF TableWritten
    <2>4. CASE bgError' = TRUE /\ EndCompactMemTable(level0, imm, TRUE)
      <3>1. PICK err \in BOOLEAN : err /\ bgError' = err /\ EndCompactMemTable(level0, imm, err)
        BY <2>4, Zenon
      <3>2. level0 <= level0 /\ level0' = level0 /\ UNCHANGED <<manual, chunk>>
        BY <1>2, <2>1 DEF dbVars
      <3>. QED
        BY <1>2, <1>6, <2>1, <2>2, <3>1, <3>2
    <2>5. CASE bg' = [bg EXCEPT !.pc = "manifest"] /\ UNCHANGED <<pc, scheduled, bgError>>
      <3>1. /\ bg' \in Background /\ bg'.pc = "manifest" /\ bg'.inputs = bg.inputs
            /\ bg'.manual = bg.manual
        BY <1>2, <2>5 DEF Background
      <3>2. imm' # None
        BY <2>1 DEF Store, BackgroundInv, dbVars
      <3>. QED
        BY <1>2, <2>1, <2>2, <2>5, <3>1, <3>2, BackgroundGoesOn DEF dbVars
    <2>. QED
      BY <2>3, <2>4, <2>5
  <1>8. CASE MemTableInstalled
    <2>1. UNCHANGED <<manual, chunk>> /\ bg.pc = "manifest" /\ imm # None
      BY <1>8 DEF MemTableInstalled, Store, BackgroundInv
    <2>2. \/ /\ bgError' = TRUE /\ EndCompactMemTable(level0, imm, TRUE) /\ UNCHANGED dbVars
          \/ \E l0 \in {level0, level0 + 1} :
               /\ tables' = tables \cup imm /\ imm' = None
               /\ logNumber' = Current /\ level0' = l0
               /\ EndCompactMemTable(l0, None, bgError)
               /\ UNCHANGED <<bgError, lastSeq, logs, mem>>
      BY <1>8 DEF MemTableInstalled
    <2>3. CASE bgError' = TRUE /\ EndCompactMemTable(level0, imm, TRUE) /\ UNCHANGED dbVars
      <3>1. DataTyped'
        BY <1>2, <2>3 DEF DataTyped, dbVars
      <3>. QED
        <4>1. PICK err \in BOOLEAN : err /\ bgError' = err /\ EndCompactMemTable(level0, imm, err)
          BY <2>3, Zenon
        <4>2. level0 <= level0 /\ level0' = level0
          BY <1>2, <2>3 DEF dbVars
        <4>. QED
          BY <1>2, <1>6, <2>1, <3>1, <4>1, <4>2
    <2>4. CASE \E l0 \in {level0, level0 + 1} :
               /\ tables' = tables \cup imm /\ imm' = None
               /\ logNumber' = Current /\ level0' = l0
               /\ EndCompactMemTable(l0, None, bgError)
               /\ UNCHANGED <<bgError, lastSeq, logs, mem>>
      <3>1. PICK l0 \in {level0, level0 + 1} : level0' = l0 /\ EndCompactMemTable(l0, None, bgError)
        BY <2>4
      <3>2. l0 \in Nat /\ level0 <= l0
        BY <1>2
      <3>3. Len(logs) \in 1..Len(logs)
        BY <1>2 DEF DataTyped
      <3>4. DataTyped'
        BY <1>2, <2>1, <2>4, <3>1, <3>2, <3>3 DEF DataTyped, Current
      <3>. QED
        BY <1>2, <1>6, <2>1, <2>4, <3>1, <3>2, <3>4
    <2>. QED
      BY <2>2, <2>3, <2>4
  <1>9. CASE StartCompaction
    <2>1. PICK n \in 1..level0, next \in {"work", "install"} :
            bg' = [pc |-> next, nested |-> FALSE, inputs |-> n, manual |-> manual]
      BY <1>9 DEF StartCompaction
    <2>2. /\ UNCHANGED <<pc, dbVars, bgError, scheduled, manual, chunk, closing>> /\ bg.pc = "call"
          /\ manual # None => chunk[manual] > 1
      BY <1>9 DEF StartCompaction
    <2>3. /\ bg' \in Background /\ bg'.pc = next /\ bg'.inputs = n /\ bg'.manual = manual
      BY <1>2, <2>1 DEF Background
    <2>4. manual # None => chunk[manual] > 0
      BY <1>2, <2>2
    <2>5. DataTyped'
      BY <1>2, <2>2 DEF DataTyped, dbVars
    <2>. QED
      BY <1>2, <2>2, <2>3, <2>4, <2>5, BackgroundGoesOn DEF dbVars
  <1>10. ASSUME NEW l0 \in Nat, NEW failed \in BOOLEAN, EndCompaction(l0, failed),
                bg.pc # "idle", level0' = l0, DataTyped'
         PROVE  Store'
    <2>1. PICK err \in BOOLEAN, man \in {manual, None} :
            /\ err = (bgError \/ failed) /\ bgError' = err
            /\ man = (IF bg.manual = None THEN manual ELSE None) /\ manual' = man
            /\ EndBackgroundCall(l0, imm, man, err)
      BY <1>2, <1>10 DEF EndCompaction
    <2>2. chunk' = IF bg.manual = None THEN chunk
                   ELSE [chunk EXCEPT ![bg.manual] = IF failed THEN 0 ELSE @ - 1]
      BY <1>10 DEF EndCompaction
    <2>3. bg.manual # None => bg.manual \in Threads /\ chunk[bg.manual] > 0
      BY <1>2 DEF Background, Store, BackgroundInv
    <2>4. chunk' \in [Threads -> 0..(Chunks + 1)]
      BY <1>2, <2>2, <2>3
    <2>. QED
      BY <1>1, <1>2, <1>10, <2>1, <2>4, CallEnded
  <1>11. CASE CompactionWorked
    <2>1. UNCHANGED <<dbVars, closing>> /\ bg.pc = "work"
      BY <1>11 DEF CompactionWorked
    <2>2. DataTyped'
      BY <1>2, <2>1 DEF DataTyped, dbVars
    <2>3. \/ EndCompaction(level0, TRUE)
          \/ bg' = [bg EXCEPT !.pc = "install"] /\ UNCHANGED <<pc, scheduled, bgError, manual, chunk>>
      BY <1>11 DEF CompactionWorked
    <2>4. CASE EndCompaction(level0, TRUE)
      BY <1>2, <1>10, <2>1, <2>2, <2>4 DEF dbVars
    <2>5. CASE bg' = [bg EXCEPT !.pc = "install"] /\ UNCHANGED <<pc, scheduled, bgError, manual, chunk>>
      <3>1. /\ bg' \in Background /\ bg'.pc = "install" /\ bg'.inputs = bg.inputs
            /\ bg'.manual = bg.manual
        BY <1>2, <2>5 DEF Background
      <3>. QED
        BY <1>2, <2>1, <2>2, <2>5, <3>1, BackgroundGoesOn DEF dbVars
    <2>. QED
      BY <2>3, <2>4, <2>5
  <1>12. CASE CompactionInstalled
    <2>1. PICK failed \in BOOLEAN, l0 \in {level0, level0 - bg.inputs} :
            /\ l0 = (IF failed THEN level0 ELSE level0 - bg.inputs)
            /\ EndCompaction(l0, failed) /\ level0' = l0
      BY <1>12 DEF CompactionInstalled, Fails
    <2>2. l0 \in Nat
      BY <1>2, <2>1
    <2>3. UNCHANGED <<lastSeq, logs, mem, imm, tables, logNumber>> /\ bg.pc = "install"
      BY <1>12 DEF CompactionInstalled
    <2>4. DataTyped'
      BY <1>2, <2>1, <2>2, <2>3 DEF DataTyped
    <2>. QED
      BY <1>10, <2>1, <2>2, <2>3, <2>4
  <1>. QED
    BY <1>3, <1>4, <1>5, <1>7, <1>8, <1>9, <1>11, <1>12 DEF BackgroundStep

-----------------------------------------------------------------------------
(* The log files.                                                          *)

(* Sequence numbers ascend along the logs, up to those of the group that is *)
(* being written.                                                          *)
Logged == {"sync", "syncError", "insert", "commit"}
InFlight == \E t \in Threads : pc[t] \in Logged
Below(r) == r.seq + Cardinality(r.ids) <= lastSeq + 1
Numbered ==
  \A l \in 1..Current : \A i \in 1..Len(logs[l].recs) :
    \/ Below(logs[l].recs[i])
    \/ /\ InFlight /\ l = Current /\ i = Len(logs[l].recs)
       /\ logs[l].recs[i].seq = lastSeq + 1 /\ logs[l].recs[i].ids = lead.group
Ascending ==
  \A l, k \in 1..Current : \A i \in 1..Len(logs[l].recs), j \in 1..Len(logs[k].recs) :
    l < k \/ (l = k /\ i < j) =>
      logs[l].recs[i].seq + Cardinality(logs[l].recs[i].ids) <= logs[k].recs[j].seq
SequenceInv == Numbered /\ Ascending

LEMMA Steps ==
  ASSUME Next
  PROVE  \/ \E t \in Threads : \/ \E kind \in Kinds : Enter(t, kind)
                               \/ Recheck(t) \/ Ending(t) \/ Inner(t) \/ Outer(t)
         \/ BackgroundStep \/ Close \/ Closed
  BY DEF Next, ThreadStep, Ending, Inner, Outer

LEMMA Records ==
  ASSUME DataTyped
  PROVE  /\ Current \in Nat /\ Current = Len(logs)
         /\ \A l \in 1..Current :
              /\ logs[l] \in LogFile
              /\ Len(logs[l].recs) \in Nat
              /\ \A i \in 1..Len(logs[l].recs) :
                   /\ logs[l].recs[i] \in Record
                   /\ logs[l].recs[i].seq \in Nat
                   /\ logs[l].recs[i].ids \in SUBSET Ids
                   /\ Cardinality(logs[l].recs[i].ids) \in Nat
  <1>1. Current \in Nat /\ Current = Len(logs) /\ \A l \in 1..Current : logs[l] \in LogFile
    BY DEF DataTyped, Current
  <1>2. ASSUME NEW l \in 1..Current
        PROVE  Len(logs[l].recs) \in Nat /\ \A i \in 1..Len(logs[l].recs) : logs[l].recs[i] \in Record
    BY <1>1 DEF LogFile
  <1>3. ASSUME NEW r \in Record
        PROVE  r.seq \in Nat /\ r.ids \in SUBSET Ids /\ Cardinality(r.ids) \in Nat
    BY FiniteIds DEF Record
  <1>. QED
    BY <1>1, <1>2, <1>3

LEMMA SequenceKept ==
  ASSUME SequenceInv, Len(logs') = Len(logs), \A l \in 1..Len(logs) : logs'[l].recs = logs[l].recs,
         lastSeq' = lastSeq, InFlight => InFlight' /\ lead'.group = lead.group
  PROVE  SequenceInv'
  BY DEF SequenceInv, Numbered, Ascending, Below, Current

LEMMA FrontInFlight ==
  ASSUME Queue, NEW t \in Threads, pc[t] \in AtFront \/ (Len(writers) > 0 /\ writers[1] = t)
  PROVE  InFlight <=> pc[t] \in Logged
  BY DEF Queue, QueueInv, InFlight, AtFront, Writing, Logged

LEMMA SequenceStep ==
  ASSUME Queue, DataTyped, SequenceInv, Next
  PROVE  SequenceInv'
  <1>1. /\ Current \in Nat /\ Current = Len(logs) /\ lastSeq \in Nat
        /\ \A l \in 1..Current :
              /\ logs[l] \in LogFile
              /\ Len(logs[l].recs) \in Nat
              /\ \A i \in 1..Len(logs[l].recs) :
                   /\ logs[l].recs[i] \in Record
                   /\ logs[l].recs[i].seq \in Nat
                   /\ logs[l].recs[i].ids \in SUBSET Ids
                   /\ Cardinality(logs[l].recs[i].ids) \in Nat
    BY Records DEF DataTyped
  <1>2. CASE \E t \in Threads, kind \in Kinds : Enter(t, kind)
    <2>1. PICK t \in Threads, kind \in Kinds : Enter(t, kind)
      BY <1>2
    <2>2. /\ logs' = logs /\ lastSeq' = lastSeq
          /\ pc[t] = "idle" /\ \A u \in Threads \ {t} : pc'[u] = pc[u]
          /\ writers # <<>> => lead' = lead
      BY <2>1 DEF Enter, dbVars, Queue, QueueTyped
    <2>3. InFlight => writers # <<>>
      BY DEF Queue, QueueTyped, QueueInv, Queued, InFlight, AtFront, Writing, Logged
    <2>4. InFlight => InFlight'
      BY <2>2 DEF InFlight, Logged
    <2>. QED
      BY <2>2, <2>3, <2>4, SequenceKept
  <1>3. CASE \E t \in Threads : Recheck(t)
    <2>1. PICK t \in Threads : Recheck(t)
      BY <1>3
    <2>2. /\ logs' = logs /\ lastSeq' = lastSeq
          /\ pc[t] = "check" /\ \A u \in Threads \ {t} : pc'[u] = pc[u]
          /\ lead' = lead \/ (~call[t].done /\ t = Head(writers))
      BY <2>1 DEF Recheck, dbVars, Queue, QueueTyped
    <2>3. InFlight => lead' = lead
      <3>1. CASE ~call[t].done /\ t = Head(writers)
        <4>1. Len(writers) > 0 /\ writers[1] = t
          BY <2>2, <3>1 DEF Queue, QueueTyped, QueueInv, Queued
        <4>. QED
          BY <2>2, <4>1, FrontInFlight DEF Logged
      <3>. QED
        BY <2>2, <3>1
    <2>4. InFlight => InFlight'
      BY <2>2 DEF InFlight, Logged
    <2>. QED
      BY <2>2, <2>3, <2>4, SequenceKept
  <1>4. CASE \E t \in Threads : Ending(t)
    <2>1. PICK t \in Threads : Ending(t)
      BY <1>4
    <2>2. CASE Commit(t)
      <3>1. lastSeq' = lastSeq + Cardinality(lead.group) /\ logs' = logs
        BY <2>2 DEF Commit
      <3>2. Cardinality(lead.group) \in Nat
        BY FiniteIds DEF Queue, QueueTyped, Lead
      <3>3. \A l \in 1..Current : \A i \in 1..Len(logs[l].recs) :
               logs[l].recs[i].seq + Cardinality(logs[l].recs[i].ids) <= lastSeq' + 1
        <4>1. ASSUME NEW l \in 1..Current, NEW i \in 1..Len(logs[l].recs)
              PROVE  logs[l].recs[i].seq + Cardinality(logs[l].recs[i].ids) <= lastSeq' + 1
          <5>1. /\ logs[l].recs[i].seq \in Nat /\ Cardinality(logs[l].recs[i].ids) \in Nat
            BY <1>1
          <5>2. CASE Below(logs[l].recs[i])
            BY <1>1, <3>1, <3>2, <5>1, <5>2 DEF Below
          <5>3. CASE logs[l].recs[i].seq = lastSeq + 1 /\ logs[l].recs[i].ids = lead.group
            BY <1>1, <3>1, <3>2, <5>3
          <5>. QED
            BY <5>2, <5>3 DEF SequenceInv, Numbered
        <4>. QED
          BY <4>1
      <3>4. Numbered'
        BY <3>1, <3>3 DEF Numbered, Below, Current
      <3>5. Ascending'
        BY <3>1 DEF SequenceInv, Ascending, Current
      <3>. QED
        BY <3>4, <3>5 DEF SequenceInv
    <2>3. CASE RoomError(t) \/ RoomReady(t) \/ RoomNoLog(t)
      <3>1. lastSeq' = lastSeq /\ logs' = logs /\ pc[t] = "room"
        BY <2>3 DEF RoomError, RoomReady, RoomNoLog, InRoom, dbVars
      <3>2. ~InFlight
        BY <3>1, FrontInFlight DEF AtFront, Logged
      <3>. QED
        BY <3>1, <3>2, SequenceKept
    <2>. QED
      BY <2>1, <2>2, <2>3 DEF Ending
  <1>5. CASE \E t \in Threads : Inner(t)
    <2>1. PICK t \in Threads : Inner(t)
      BY <1>5
    <2>2. /\ lastSeq' = lastSeq /\ pc[t] \in AtFront
      BY <2>1, InnerMoves DEF Queue
    <2>3. InFlight <=> pc[t] \in Logged
      BY <2>2, FrontInFlight
    <2>4. CASE RoomDelay(t) \/ RoomReady(t) \/ RoomWait(t)
      <3>1. logs' = logs /\ pc[t] = "room"
        BY <2>4 DEF RoomDelay, RoomReady, RoomWait, InRoom, dbVars
      <3>. QED
        BY <2>2, <2>3, <3>1, SequenceKept DEF Logged
    <2>5. CASE RoomSwitch(t)
      <3>1. logs' = Append(logs, EmptyLog) /\ pc[t] = "room"
        BY <2>5 DEF RoomSwitch, InRoom
      <3>2. ~InFlight
        BY <2>3, <3>1 DEF Logged
      <3>3. /\ Len(logs') = Current + 1 /\ logs'[Current + 1].recs = <<>>
            /\ \A l \in 1..Current : logs'[l] = logs[l]
        BY <1>1, <3>1 DEF DataTyped, EmptyLog
      <3>4. Current' = Current + 1 /\ \A l \in 1..(Current + 1) : l \in 1..Current \/ l = Current + 1
        BY <1>1, <3>3 DEF Current
      <3>5. Len(<<>>) = 0 /\ 1..0 = {}
        OBVIOUS
      <3>6. \A l \in 1..(Current + 1) : \A i \in 1..Len(logs'[l].recs) :
               l \in 1..Current /\ logs'[l].recs = logs[l].recs
        BY <3>3, <3>4, <3>5
      <3>7. Numbered'
        BY <2>2, <3>2, <3>4, <3>6 DEF SequenceInv, Numbered, Below
      <3>8. Ascending'
        <4>1. \A l \in (1..Current)' : \A i \in (1..Len(logs[l].recs))' :
                 l \in 1..Current /\ logs'[l].recs = logs[l].recs
          BY <3>4, <3>6
        <4>2. SUFFICES ASSUME NEW l \in (1..Current)', NEW k \in (1..Current)',
                              NEW i \in (1..Len(logs[l].recs))', NEW j \in (1..Len(logs[k].recs))',
                              l < k \/ (l = k /\ i < j)
                       PROVE  (logs[l].recs[i].seq + Cardinality(logs[l].recs[i].ids)
                                <= logs[k].recs[j].seq)'
          BY DEF Ascending
        <4>. QED
          BY <4>1, <4>2 DEF SequenceInv, Ascending
      <3>. QED
        BY <3>7, <3>8 DEF SequenceInv
    <2>6. CASE AddRecord(t)
      <3>1. PICK whole \in BOOLEAN :
               logs' = [logs EXCEPT ![Current].recs =
                          Append(@, [seq |-> lastSeq + 1, ids |-> lead.group, whole |-> whole])]
        BY <2>6 DEF AddRecord
      <3>. DEFINE r == [seq |-> lastSeq + 1, ids |-> lead.group, whole |-> whole]
                  recs == logs[Current].recs
      <3>2. pc[t] = "append" /\ pc'[t] \in Logged /\ lead'.group = lead.group
        BY <2>6 DEF AddRecord, Logged, Queue, QueueTyped, Lead
      <3>3. ~InFlight /\ InFlight'
        BY <2>3, <3>2 DEF InFlight, Logged
      <3>4. Current \in 1..Current /\ recs \in Seq(Record) /\ Len(recs) \in Nat
        BY <1>1 DEF DataTyped, LogFile
      <3>5. /\ Current' = Current /\ logs'[Current].recs = Append(recs, r)
            /\ \A l \in 1..Current : l # Current => logs'[l] = logs[l]
        BY <1>1, <3>1, <3>4 DEF DataTyped, LogFile, Current
      <3>6. /\ Len(Append(recs, r)) = Len(recs) + 1
            /\ \A i \in 1..Len(recs) : Append(recs, r)[i] = recs[i]
            /\ Append(recs, r)[Len(recs) + 1] = r
        BY <3>4
      <3>7. r.seq = lastSeq + 1 /\ r.ids = lead.group
        OBVIOUS
      <3>. HIDE DEF r
      <3>8. ASSUME NEW l \in 1..Current, NEW i \in 1..Len(logs'[l].recs)
            PROVE  \/ /\ i \in 1..Len(logs[l].recs) /\ logs'[l].recs[i] = logs[l].recs[i]
                      /\ Below(logs[l].recs[i])
                   \/ l = Current /\ i = Len(logs'[l].recs) /\ logs'[l].recs[i] = r
        <4>1. CASE l # Current
          BY <3>3, <3>5, <4>1 DEF SequenceInv, Numbered
        <4>2. CASE l = Current
          <5>1. i \in 1..Len(recs) \/ i = Len(recs) + 1
            BY <3>4, <3>5, <3>6, <4>2
          <5>. QED
            BY <3>3, <3>4, <3>5, <3>6, <4>2, <5>1 DEF SequenceInv, Numbered
        <4>. QED
          BY <4>1, <4>2
      <3>9. \A l \in 1..Current : \A i \in 1..Len(logs'[l].recs) :
               \/ Below(logs[l].recs[i])'
               \/ /\ l = Current /\ i = Len(logs'[l].recs)
                  /\ logs'[l].recs[i].seq = lastSeq + 1 /\ logs'[l].recs[i].ids = lead.group
        <4>1. ASSUME NEW l \in 1..Current, NEW i \in 1..Len(logs'[l].recs)
              PROVE  \/ Below(logs[l].recs[i])'
                     \/ /\ l = Current /\ i = Len(logs'[l].recs)
                        /\ logs'[l].recs[i].seq = lastSeq + 1 /\ logs'[l].recs[i].ids = lead.group
          <5>1. CASE logs'[l].recs[i] = logs[l].recs[i] /\ Below(logs[l].recs[i])
            BY <2>2, <5>1 DEF Below
          <5>2. CASE l = Current /\ i = Len(logs'[l].recs) /\ logs'[l].recs[i] = r
            BY <3>7, <5>2
          <5>. QED
            BY <3>8, <5>1, <5>2
        <4>. QED
          BY <4>1
      <3>10. ASSUME NEW l \in 1..Current, NEW k \in 1..Current,
                    NEW i \in 1..Len(logs'[l].recs), NEW j \in 1..Len(logs'[k].recs),
                    l < k \/ (l = k /\ i < j)
             PROVE  logs'[l].recs[i].seq + Cardinality(logs'[l].recs[i].ids) <= logs'[k].recs[j].seq
        <4>1. /\ i \in 1..Len(logs[l].recs) /\ logs'[l].recs[i] = logs[l].recs[i]
              /\ Below(logs[l].recs[i])
          <5>1. Len(logs'[l].recs) \in Nat
            BY <1>1, <3>5, <3>6
          <5>2. ~(l = Current /\ i = Len(logs'[l].recs))
            BY <1>1, <3>10, <5>1
          <5>. QED
            BY <3>8, <5>2
        <4>2. CASE j \in 1..Len(logs[k].recs) /\ logs'[k].recs[j] = logs[k].recs[j]
          BY <3>10, <4>1, <4>2 DEF SequenceInv, Ascending
        <4>3. CASE logs'[k].recs[j] = r
          BY <3>7, <4>1, <4>3 DEF Below
        <4>. QED
          BY <3>8, <4>2, <4>3
      <3>. QED
        <4>1. Numbered'
          BY <2>2, <3>2, <3>3, <3>5, <3>9 DEF Numbered
        <4>2. Ascending'
          BY <3>5, <3>10 DEF Ascending
        <4>. QED
          BY <4>1, <4>2 DEF SequenceInv
    <2>7. CASE SyncLog(t)
      <3>1. \/ logs' = logs
            \/ logs' = [logs EXCEPT ![Current].synced = Len(logs[Current].recs)]
        BY <2>7 DEF SyncLog
      <3>2. Len(logs') = Len(logs) /\ \A l \in 1..Len(logs) : logs'[l].recs = logs[l].recs
        <4>1. ASSUME logs' = [logs EXCEPT ![Current].synced = Len(logs[Current].recs)], NEW l \in 1..Len(logs)
              PROVE  logs'[l].recs = logs[l].recs
          <5>1. logs[l] \in [recs : Seq(Record), synced : Nat]
            BY <1>1 DEF LogFile
          <5>. QED
            BY <4>1, <5>1 DEF DataTyped
        <4>. QED
          BY <3>1, <4>1 DEF DataTyped
      <3>3. pc'[t] \in Logged /\ lead'.group = lead.group
        BY <2>7 DEF SyncLog, Logged, Queue, QueueTyped, Lead
      <3>. QED
        BY <2>2, <3>2, <3>3, SequenceKept DEF InFlight
    <2>8. CASE InsertInto(t)
      <3>1. logs' = logs /\ lead' = lead /\ pc'[t] \in Logged
        BY <2>8 DEF InsertInto, Logged, Queue, QueueTyped
      <3>. QED
        BY <2>2, <3>1, SequenceKept DEF InFlight
    <2>. QED
      BY <2>1, <2>4, <2>5, <2>6, <2>7, <2>8 DEF Inner
  <1>6. CASE \E t \in Threads : Outer(t)
    <2>1. PICK t \in Threads : Outer(t)
      BY <1>6
    <2>2. /\ UNCHANGED <<lead, lastSeq, logs>> /\ pc[t] \in {"imm", "range"}
          /\ \A u \in Threads \ {t} : pc'[u] = pc[u]
      BY <2>1, OuterMoves DEF Queue
    <2>3. InFlight => InFlight'
      BY <2>2 DEF InFlight, Logged
    <2>. QED
      BY <2>2, <2>3, SequenceKept
  <1>7. CASE BackgroundStep
    <2>1. UNCHANGED <<lead, lastSeq, logs>> /\ (pc' = pc \/ pc' = SignalAll(pc))
      BY <1>7, BackgroundMoves
    <2>2. InFlight => InFlight'
      BY <2>1, Woken_ DEF InFlight, Logged, Writing, Queue, QueueTyped
    <2>. QED
      BY <2>1, <2>2, SequenceKept
  <1>8. CASE Close \/ Closed
    <2>1. UNCHANGED <<pc, lead, lastSeq, logs>>
      BY <1>8 DEF Close, Closed, dbVars
    <2>. QED
      BY <2>1, SequenceKept DEF InFlight
  <1>. QED
    BY <1>2, <1>3, <1>4, <1>5, <1>6, <1>7, <1>8, Steps

-----------------------------------------------------------------------------
(* What was answered ok.                                                   *)

LogIds(l) == IdsOf(l, 1..Len(logs[l].recs))
SyncedIds(l) == IdsOf(l, 1..logs[l].synced)
SyncedLogs == \A l \in 1..Current : logs[l].synced <= Len(logs[l].recs)
AllWhole == \A l \in 1..Current : \A i \in 1..Len(logs[l].recs) : logs[l].recs[i].whole

(* The group is in the log, on disk if it has to be, and then in the       *)
(* memtable.                                                               *)
GroupWritten ==
  \A t \in Threads :
    /\ pc[t] \in {"sync", "insert"} => lead.group \subseteq LogIds(Current)
    /\ pc[t] = "insert" /\ call[t].kind = "sync" => lead.group \subseteq SyncedIds(Current)
    /\ pc[t] = "commit" /\ lead.ok => lead.group \subseteq mem
    /\ pc[t] = "commit" /\ lead.ok /\ call[t].kind = "sync" => lead.group \subseteq SyncedIds(Current)

(* Where a write that is answered ok is found, and a sync one.             *)
Held(x) == x \in tables \/ (imm # None /\ x \in imm) \/ x \in mem
HeldSynced(x) ==
  \/ x \in tables
  \/ imm # None /\ x \in imm /\ \E l \in logNumber..(Current - 1) : x \in SyncedIds(l)
  \/ x \in mem /\ x \in SyncedIds(Current)
Done(t) == IsWrite(t) /\ call[t].done /\ call[t].ok
AnswersHeld ==
  /\ \A x \in acked : Held(x)
  /\ \A t \in Threads : Done(t) => Held(call[t].id)
  /\ \A t \in Threads : call[t].kind = "sync" /\ (call[t].id \in acked \/ Done(t)) => HeldSynced(call[t].id)

DurableInv == SyncedLogs /\ MemTableHasLog /\ GroupWritten /\ AnswersHeld

LEMMA LogFilesChange ==
  ASSUME Next
  PROVE  \/ logs' = logs
         \/ \E t \in Threads : RoomSwitch(t) \/ AddRecord(t) \/ SyncLog(t)
  <1>1. CASE BackgroundStep
    BY <1>1, BackgroundMoves
  <1>2. ASSUME NEW t \in Threads, Ending(t)
        PROVE  logs' = logs
    BY <1>2 DEF Ending, RoomError, RoomReady, RoomNoLog, Commit, dbVars
  <1>3. ASSUME NEW t \in Threads, Inner(t), ~(RoomSwitch(t) \/ AddRecord(t) \/ SyncLog(t))
        PROVE  logs' = logs
    BY <1>3 DEF Inner, RoomDelay, RoomReady, RoomWait, InsertInto, dbVars
  <1>4. ASSUME NEW t \in Threads, Outer(t) \/ Recheck(t) \/ \E kind \in Kinds : Enter(t, kind)
        PROVE  logs' = logs
    BY <1>4 DEF Outer, WaitForMemTable, WaitForRange, LeaveRange, Recheck, Enter, dbVars
  <1>5. CASE Close \/ Closed
    BY <1>5 DEF Close, Closed, dbVars
  <1>. QED
    BY <1>1, <1>2, <1>3, <1>4, <1>5, Steps

(* Log files only grow, and only the last one does.                        *)
LEMMA LogsGrow ==
  ASSUME Queue, Store, SyncedLogs, Next
  PROVE  /\ SyncedLogs'
         /\ Current' >= Current /\ Current' \in Nat
         /\ \A l \in 1..Current : LogIds(l) \subseteq LogIds(l)' /\ SyncedIds(l) \subseteq SyncedIds(l)'
  <1>1. /\ Current \in Nat /\ Current = Len(logs) /\ Current \in 1..Current
        /\ \A l \in 1..Current : logs[l] \in LogFile /\ Len(logs[l].recs) \in Nat
    BY Records DEF Store, DataTyped
  <1>2. CASE logs' = logs
    BY <1>1, <1>2 DEF SyncedLogs, Current, LogIds, SyncedIds, IdsOf
  <1>3. ASSUME NEW t \in Threads, RoomSwitch(t)
        PROVE  /\ SyncedLogs'
               /\ Current' >= Current /\ Current' \in Nat
               /\ \A l \in 1..Current : LogIds(l) \subseteq LogIds(l)' /\ SyncedIds(l) \subseteq SyncedIds(l)'
    <2>1. logs' = Append(logs, EmptyLog)
      BY <1>3 DEF RoomSwitch
    <2>2. /\ Len(logs') = Current + 1 /\ logs'[Current + 1] = EmptyLog
          /\ \A l \in 1..Current : logs'[l] = logs[l]
      BY <1>1, <2>1 DEF Store, DataTyped
    <2>3. EmptyLog.synced = 0 /\ Len(EmptyLog.recs) = 0
      BY DEF EmptyLog
    <2>4. SyncedLogs'
      BY <1>1, <2>2, <2>3 DEF SyncedLogs, Current
    <2>. QED
      BY <1>1, <2>2, <2>4 DEF Current, LogIds, SyncedIds, IdsOf
  <1>4. ASSUME NEW t \in Threads, AddRecord(t)
        PROVE  /\ SyncedLogs'
               /\ Current' >= Current /\ Current' \in Nat
               /\ \A l \in 1..Current : LogIds(l) \subseteq LogIds(l)' /\ SyncedIds(l) \subseteq SyncedIds(l)'
    <2>1. PICK r : logs' = [logs EXCEPT ![Current].recs = Append(@, r)]
      BY <1>4 DEF AddRecord
    <2>2. /\ Len(logs') = Current /\ logs'[Current].synced = logs[Current].synced
          /\ logs'[Current].recs = Append(logs[Current].recs, r)
          /\ \A l \in 1..Current : l # Current => logs'[l] = logs[l]
      BY <1>1, <2>1 DEF Store, DataTyped, LogFile
    <2>3. /\ logs[Current].recs \in Seq(Record) /\ logs[Current].synced \in Nat
          /\ logs[Current].synced <= Len(logs[Current].recs)
      BY <1>1 DEF LogFile, SyncedLogs
    <2>4. /\ Len(logs'[Current].recs) = Len(logs[Current].recs) + 1
          /\ \A i \in 1..Len(logs[Current].recs) : logs'[Current].recs[i] = logs[Current].recs[i]
      BY <2>2, <2>3
    <2>5. SyncedLogs'
      BY <1>1, <2>2, <2>3, <2>4 DEF SyncedLogs, Current
    <2>6. LogIds(Current) \subseteq UNION {logs'[Current].recs[n].ids : n \in 1..Len(logs'[Current].recs)}
      <3>1. ASSUME NEW n \in 1..Len(logs[Current].recs)
            PROVE  n \in 1..Len(logs'[Current].recs) /\ logs'[Current].recs[n].ids = logs[Current].recs[n].ids
        BY <1>1, <2>4
      <3>. QED
        BY <3>1 DEF LogIds, IdsOf
    <2>7. SyncedIds(Current) \subseteq UNION {logs'[Current].recs[n].ids : n \in 1..logs'[Current].synced}
      <3>1. ASSUME NEW n \in 1..logs[Current].synced
            PROVE  n \in 1..logs'[Current].synced /\ logs'[Current].recs[n].ids = logs[Current].recs[n].ids
        BY <1>1, <2>2, <2>3, <2>4
      <3>. QED
        BY <3>1 DEF SyncedIds, IdsOf
    <2>8. ASSUME NEW l \in 1..Current
          PROVE  LogIds(l) \subseteq LogIds(l)' /\ SyncedIds(l) \subseteq SyncedIds(l)'
      <3>1. CASE l # Current
        BY <2>2, <3>1 DEF LogIds, SyncedIds, IdsOf
      <3>2. CASE l = Current
        <4>1. LogIds(l)' = UNION {logs'[l].recs[n].ids : n \in 1..Len(logs'[l].recs)}
          BY DEF LogIds, IdsOf
        <4>2. SyncedIds(l)' = UNION {logs'[l].recs[n].ids : n \in 1..logs'[l].synced}
          BY DEF SyncedIds, IdsOf
        <4>. QED
          BY <2>6, <2>7, <3>2, <4>1, <4>2
      <3>. QED
        BY <3>1, <3>2
    <2>. QED
      BY <1>1, <2>2, <2>5, <2>8 DEF Current
  <1>5. ASSUME NEW t \in Threads, SyncLog(t)
        PROVE  /\ SyncedLogs'
               /\ Current' >= Current /\ Current' \in Nat
               /\ \A l \in 1..Current : LogIds(l) \subseteq LogIds(l)' /\ SyncedIds(l) \subseteq SyncedIds(l)'
    <2>1. CASE logs' = [logs EXCEPT ![Current].synced = Len(logs[Current].recs)]
      <3>1. /\ Len(logs') = Current /\ logs'[Current].recs = logs[Current].recs
            /\ logs'[Current].synced = Len(logs[Current].recs)
            /\ \A l \in 1..Current : l # Current => logs'[l] = logs[l]
        BY <1>1, <2>1 DEF Store, DataTyped, LogFile
      <3>2. /\ Len(logs[Current].recs) \in Nat /\ logs[Current].synced \in Nat
            /\ logs[Current].synced <= Len(logs[Current].recs)
        BY <1>1 DEF LogFile, SyncedLogs
      <3>3. \A n \in 1..logs[Current].synced : n \in 1..logs'[Current].synced
        BY <3>1, <3>2
      <3>4. SyncedLogs'
        BY <1>1, <3>1, <3>2 DEF SyncedLogs, Current
      <3>5. ASSUME NEW l \in 1..Current
            PROVE  LogIds(l) \subseteq LogIds(l)' /\ SyncedIds(l) \subseteq SyncedIds(l)'
        BY <3>1, <3>3 DEF LogIds, SyncedIds, IdsOf
      <3>. QED
        BY <1>1, <3>1, <3>4, <3>5 DEF Current
    <2>. QED
      BY <1>2, <1>5, <2>1 DEF SyncLog
  <1>. QED
    BY <1>2, <1>3, <1>4, <1>5, LogFilesChange

(* How a step changes the memtables and the tables.                        *)
LEMMA MemTables ==
  ASSUME Queue, Store, Next
  PROVE  \/ UNCHANGED <<mem, imm, tables, logNumber, Current>>
         \/ /\ \E t \in Threads : InsertInto(t)
            /\ mem' = mem \cup lead.group /\ UNCHANGED <<imm, tables, logNumber, logs>>
         \/ /\ \E t \in Threads : RoomSwitch(t)
            /\ imm = None /\ imm' # None /\ imm' = mem /\ mem' = {} /\ UNCHANGED <<tables, logNumber>>
            /\ Current' = Current + 1
         \/ /\ imm # None /\ tables' = tables \cup imm /\ imm' = None /\ logNumber' = Current
            /\ UNCHANGED <<mem, logs>>
  <1>. USE DEF Current
  <1>1. CASE BackgroundStep
    <2>1. CASE MemTableInstalled
      <3>1. imm # None
        BY <2>1 DEF MemTableInstalled, Store, BackgroundInv
      <3>. QED
        BY <2>1, <3>1 DEF MemTableInstalled, dbVars
    <2>2. CASE ~MemTableInstalled
      BY <1>1, <2>2 DEF BackgroundStep, BackgroundNothing, BackgroundManualDone, CompactMemTable,
        TableWritten, StartCompaction, CompactionWorked, CompactionInstalled, dbVars
    <2>. QED
      BY <2>1, <2>2
  <1>2. ASSUME NEW t \in Threads, Ending(t)
        PROVE  UNCHANGED <<mem, imm, tables, logNumber, Current>>
    BY <1>2 DEF Ending, RoomError, RoomReady, RoomNoLog, Commit, dbVars
  <1>3. ASSUME NEW t \in Threads, Inner(t), ~RoomSwitch(t), ~InsertInto(t)
        PROVE  UNCHANGED <<mem, imm, tables, logNumber, Current>>
    <2>1. CASE AddRecord(t)
      <3>1. PICK r : logs' = [logs EXCEPT ![Current].recs = Append(@, r)]
        BY <2>1 DEF AddRecord
      <3>2. Len(logs') = Len(logs)
        BY <3>1 DEF Store, DataTyped
      <3>. QED
        BY <2>1, <3>2 DEF AddRecord
    <2>2. CASE SyncLog(t)
      <3>1. logs' = logs \/ logs' = [logs EXCEPT ![Current].synced = Len(logs[Current].recs)]
        BY <2>2 DEF SyncLog
      <3>2. Len(logs') = Len(logs)
        BY <3>1 DEF Store, DataTyped
      <3>. QED
        BY <2>2, <3>2 DEF SyncLog
    <2>. QED
      BY <1>3, <2>1, <2>2 DEF Inner, RoomDelay, RoomReady, RoomWait, dbVars
  <1>4. ASSUME NEW t \in Threads, InsertInto(t)
        PROVE  mem' = mem \cup lead.group /\ UNCHANGED <<imm, tables, logNumber, logs>>
    BY <1>4 DEF InsertInto
  <1>5. ASSUME NEW t \in Threads, RoomSwitch(t)
        PROVE  /\ imm = None /\ imm' # None /\ imm' = mem /\ mem' = {} /\ UNCHANGED <<tables, logNumber>>
               /\ Current' = Current + 1
    BY <1>5, Bounds DEF RoomSwitch, Store, DataTyped
  <1>6. ASSUME NEW t \in Threads, Outer(t) \/ Recheck(t) \/ \E kind \in Kinds : Enter(t, kind)
        PROVE  UNCHANGED <<mem, imm, tables, logNumber, Current>>
    BY <1>6 DEF Outer, WaitForMemTable, WaitForRange, LeaveRange, Recheck, Enter, dbVars
  <1>7. CASE Close \/ Closed
    BY <1>7 DEF Close, Closed, dbVars
  <1>. QED
    BY <1>1, <1>2, <1>3, <1>4, <1>5, <1>6, <1>7, Steps

LEMMA MemTableLog ==
  MemTableHasLog <=>
    /\ mem \subseteq LogIds(Current)
    /\ imm # None => /\ Current > logNumber
                     /\ \A x \in imm : \E l \in logNumber..(Current - 1) : x \in LogIds(l)
  BY DEF MemTableHasLog, LogIds

LEMMA HasLogStep ==
  ASSUME Queue, Store, SyncedLogs, MemTableHasLog, GroupWritten, Next
  PROVE  MemTableHasLog'
  <1>1. /\ Current' >= Current /\ Current' \in Nat
        /\ \A l \in 1..Current : LogIds(l) \subseteq LogIds(l)'
    BY LogsGrow
  <1>2. /\ Current \in Nat /\ Current \in 1..Current /\ logNumber \in 1..Current
        /\ mem \subseteq LogIds(Current)
        /\ imm # None => /\ Current > logNumber
                         /\ \A x \in imm : \E l \in logNumber..(Current - 1) : x \in LogIds(l)
    BY MemTableLog, Records DEF Store, DataTyped
  <1>3. SUFFICES /\ mem' \subseteq LogIds(Current)'
                 /\ imm' # None => /\ Current' > logNumber'
                                   /\ \A x \in imm' : \E l \in logNumber'..(Current' - 1) : x \in LogIds(l)'
    BY DEF MemTableHasLog, LogIds
  <1>4. ASSUME imm # None, NEW x \in imm
        PROVE  \E l \in logNumber..(Current - 1) : x \in LogIds(l)'
    <2>1. PICK l \in logNumber..(Current - 1) : x \in LogIds(l)
      BY <1>2, <1>4
    <2>2. l \in 1..Current
      BY <1>2
    <2>. QED
      BY <1>1, <2>1, <2>2
  <1>5. Current' = Current => LogIds(Current) \subseteq LogIds(Current)'
    <2>1. LogIds(Current) \subseteq UNION {logs'[Current].recs[n].ids : n \in 1..Len(logs'[Current].recs)}
      BY <1>1, <1>2 DEF LogIds, IdsOf
    <2>. QED
      BY <2>1 DEF LogIds, IdsOf
  <1>6. CASE UNCHANGED <<mem, imm, tables, logNumber, Current>>
    BY <1>2, <1>4, <1>5, <1>6
  <1>7. CASE /\ \E t \in Threads : InsertInto(t)
             /\ mem' = mem \cup lead.group /\ UNCHANGED <<imm, tables, logNumber, logs>>
    <2>1. PICK t \in Threads : pc[t] = "insert"
      BY <1>7 DEF InsertInto
    <2>2. lead.group \subseteq LogIds(Current) /\ Current' = Current
      BY <1>7, <2>1 DEF GroupWritten, Current
    <2>. QED
      BY <1>2, <1>4, <1>5, <1>7, <2>2
  <1>8. CASE /\ imm = None /\ imm' # None /\ imm' = mem /\ mem' = {} /\ UNCHANGED <<tables, logNumber>>
             /\ Current' = Current + 1
    <2>1. PICK n \in 1..Current : n = Current
      BY <1>2
    <2>2. \A x \in mem : x \in LogIds(n)'
      BY <1>1, <1>2, <2>1
    <2>3. n \in logNumber'..(Current' - 1) /\ Current' > logNumber'
      BY <1>2, <1>8, <2>1
    <2>. QED
      BY <1>8, <2>2, <2>3
  <1>9. CASE /\ imm # None /\ tables' = tables \cup imm /\ imm' = None /\ logNumber' = Current
             /\ UNCHANGED <<mem, logs>>
    BY <1>2, <1>5, <1>9 DEF Current
  <1>. QED
    BY <1>6, <1>7, <1>8, <1>9, MemTables

LEMMA HeldKept ==
  ASSUME Queue, Store, Next, NEW x, Held(x)
  PROVE  Held(x)'
  BY MemTables DEF Held

LEMMA HeldSyncedKept ==
  ASSUME Queue, Store, SyncedLogs, Next, NEW x, HeldSynced(x)
  PROVE  HeldSynced(x)'
  <1>1. /\ Current' >= Current /\ Current' \in Nat
        /\ \A l \in 1..Current : SyncedIds(l) \subseteq SyncedIds(l)'
    BY LogsGrow
  <1>2. Current \in Nat /\ Current \in 1..Current /\ logNumber \in 1..Current
    BY Records DEF Store, DataTyped
  <1>3. PICK n \in 1..Current : n = Current
    BY <1>2
  <1>4. CASE x \in tables
    BY <1>4, MemTables DEF HeldSynced
  <1>5. CASE imm # None /\ x \in imm /\ \E l \in logNumber..(Current - 1) : x \in SyncedIds(l)
    <2>1. PICK l \in logNumber..(Current - 1) : x \in SyncedIds(l)
      BY <1>5
    <2>2. l \in 1..Current /\ x \in SyncedIds(l)'
      BY <1>1, <1>2, <2>1
    <2>3. CASE UNCHANGED <<imm, tables, logNumber>>
      <3>1. l \in logNumber'..(Current' - 1)
        <4>1. logNumber' = logNumber /\ l \in Int /\ logNumber <= l /\ l <= Current - 1
          BY <1>2, <2>1, <2>3
        <4>2. Current' \in Nat /\ Current' >= Current /\ Current \in Nat /\ logNumber \in Nat
          BY <1>1, <1>2
        <4>3. PICK c \in Nat, m \in Nat, k \in Nat : c = Current' /\ m = Current /\ k = logNumber
          BY <4>2
        <4>4. k <= l /\ l <= m - 1 /\ m <= c /\ l \in Int
          BY <4>1, <4>2, <4>3
        <4>5. l \in k..(c - 1)
          BY <4>4
        <4>. QED
          BY <4>1, <4>3, <4>5
      <3>. QED
        BY <1>5, <2>2, <2>3, <3>1 DEF HeldSynced
    <2>4. CASE tables' = tables \cup imm
      BY <1>5, <2>4 DEF HeldSynced
    <2>. QED
      BY <1>5, <2>3, <2>4, MemTables
  <1>6. CASE x \in mem /\ x \in SyncedIds(Current)
    <2>1. x \in SyncedIds(n)'
      BY <1>1, <1>3, <1>6
    <2>2. CASE mem \subseteq mem' /\ Current' = Current
      <3>1. x \in SyncedIds(Current)'
        BY <1>3, <2>1, <2>2 DEF SyncedIds, IdsOf
      <3>. QED
        BY <1>6, <2>2, <3>1 DEF HeldSynced
    <2>3. CASE imm' # None /\ imm' = mem /\ logNumber' = logNumber /\ Current' = Current + 1
      <3>1. n \in logNumber'..(Current' - 1)
        BY <1>2, <1>3, <2>3
      <3>. QED
        BY <1>6, <2>1, <2>3, <3>1 DEF HeldSynced
    <2>. QED
      BY <2>2, <2>3, MemTables DEF Current
  <1>. QED
    BY <1>4, <1>5, <1>6 DEF HeldSynced

(* Who is answered ok by the step that returns from Write.                 *)
Granted(u) ==
  /\ IsWrite(u)
  /\ \E t \in Threads : /\ pc[t] = "commit" /\ lead.ok /\ call[u].id \in lead.group
                        /\ call[u].kind = "sync" => call[t].kind = "sync"

LEMMA CommitGrants ==
  ASSUME Queue, NEW t \in Threads, Commit(t), lead.ok, NEW i \in 1..lead.pop
  PROVE  writers[i] \in Threads /\ (IsWrite(writers[i]) => Granted(writers[i]))
  <1>1. pc[t] \in {"commit", "syncError"}
    BY DEF Commit
  <1>2. lead.pop \in 1..Len(writers) /\ Covers(t) /\ pc[t] = "commit"
    BY <1>1 DEF Queue, GroupInv, Writing
  <1>3. writers[i] \in Threads
    BY <1>2 DEF Queue, QueueTyped
  <1>. QED
    BY <1>2, <1>3 DEF Covers, Granted

LEMMA Answers ==
  ASSUME Queue, Store, Next
  PROVE  /\ \A u \in Threads :
              \/ call'[u].id = call[u].id /\ call'[u].kind = call[u].kind
              \/ acked' = acked /\ call'[u].id = calls + 1 /\ ~call'[u].done
         /\ \A u \in Threads : Done(u)' => (Done(u) \/ Granted(u)) /\ call'[u].id = call[u].id
         /\ \A x \in acked' : \/ x \in acked
                              \/ \E u \in Threads : x = call[u].id /\ IsWrite(u) /\ (Done(u) \/ Granted(u))
  <1>1. call \in [Threads -> Call] /\ lead \in Lead
    BY DEF Queue, QueueTyped
  <1>2. ASSUME NEW t \in Threads, NEW kind \in Kinds, Enter(t, kind)
        PROVE  /\ acked' = acked
               /\ call' = [call EXCEPT ![t] = [kind |-> kind, id |-> calls + 1,
                                               done |-> FALSE, ok |-> TRUE]]
    BY <1>2 DEF Enter
  <1>3. ASSUME NEW t \in Threads, Recheck(t)
        PROVE  call' = call /\ (acked' = acked \/ (Done(t) /\ acked' = acked \cup {call[t].id}))
    BY <1>3 DEF Recheck, Done
  <1>4. ASSUME NEW t \in Threads, Commit(t)
        PROVE  /\ \A u \in Threads : call'[u].id = call[u].id /\ call'[u].kind = call[u].kind
               /\ \A u \in Threads : Done(u)' => Done(u) \/ Granted(u)
               /\ acked' = acked \/ (Granted(t) /\ acked' = acked \cup {call[t].id})
    <2>1. /\ call' = [u \in Threads |->
               IF u # t /\ \E i \in 1..lead.pop : writers[i] = u
               THEN [call[u] EXCEPT !.done = TRUE, !.ok = lead.ok] ELSE call[u]]
          /\ acked' = IF lead.ok /\ IsWrite(t) THEN acked \cup {call[t].id} ELSE acked
      BY <1>4 DEF Commit, Return
    <2>2. /\ \A u \in Threads : call'[u].id = call[u].id /\ call'[u].kind = call[u].kind
          /\ \A u \in Threads :
               \/ call'[u] = call[u]
               \/ call'[u].ok = lead.ok /\ \E i \in 1..lead.pop : writers[i] = u
      BY <1>1, <2>1 DEF Call
    <2>3. ASSUME NEW u \in Threads, Done(u)'
          PROVE  Done(u) \/ Granted(u)
      <3>1. CASE call'[u] = call[u]
        BY <2>3, <3>1 DEF Done, IsWrite
      <3>2. CASE call'[u].ok = lead.ok /\ \E i \in 1..lead.pop : writers[i] = u
        <4>1. lead.ok /\ IsWrite(u)
          BY <2>2, <2>3, <3>2 DEF Done, IsWrite
        <4>. QED
          BY <1>4, <3>2, <4>1, CommitGrants
      <3>. QED
        BY <2>2, <3>1, <3>2
    <2>4. lead.ok => Granted(t)
      <3>1. 1 \in 1..lead.pop /\ writers[1] = t /\ IsWrite(t)
        <4>1. pc[t] \in AtFront /\ pc[t] \in Writing
          BY <1>4 DEF Commit, AtFront, Writing
        <4>2. lead.pop \in 1..Len(writers) /\ Len(writers) \in Nat /\ IsWrite(t)
          BY <4>1 DEF Queue, QueueTyped, GroupInv
        <4>. QED
          BY <4>1, <4>2 DEF Queue, QueueInv
      <3>. QED
        BY <1>4, <3>1, CommitGrants
    <2>. QED
      BY <2>1, <2>2, <2>3, <2>4
  <1>5. ASSUME NEW t \in Threads, RoomError(t) \/ (RoomReady(t) /\ ~IsWrite(t)) \/ RoomNoLog(t)
        PROVE  call' = call /\ acked' = acked
    <2>1. PICK ok : Return(t, 1, ok, pc) /\ (ok = FALSE \/ ~IsWrite(t)) /\ pc[t] \in AtFront
      BY <1>5 DEF RoomError, RoomReady, RoomNoLog, InRoom, AtFront
    <2>2. writers[1] = t
      BY <2>1 DEF Queue, QueueInv
    <2>3. call' = [u \in Threads |-> call[u]]
      <3>1. \A u \in Threads : ~(u # t /\ \E i \in 1..1 : writers[i] = u)
        BY <2>2
      <3>2. call' = [u \in Threads |->
              IF u # t /\ \E i \in 1..1 : writers[i] = u
              THEN [call[u] EXCEPT !.done = TRUE, !.ok = ok] ELSE call[u]]
        BY <2>1 DEF Return
      <3>. QED
        BY <3>1, <3>2
    <2>4. acked' = acked
      BY <2>1 DEF Return
    <2>. QED
      BY <1>1, <2>3, <2>4
  <1>6. ASSUME \/ \E t \in Threads : Inner(t) \/ Outer(t)
               \/ BackgroundStep \/ Close \/ Closed
        PROVE  call' = call /\ acked' = acked
    <2>1. CASE Close \/ Closed
      BY <2>1 DEF Close, Closed
    <2>. QED
      BY <1>6, <2>1, InnerMoves, OuterMoves, BackgroundMoves DEF Queue, Store
  <1>7. CASE \E t \in Threads, kind \in Kinds : Enter(t, kind)
    BY <1>1, <1>2, <1>7 DEF Call, Done, IsWrite
  <1>8. CASE \E t \in Threads : Recheck(t)
    BY <1>3, <1>8 DEF Done, IsWrite
  <1>9. CASE \E t \in Threads : Ending(t)
    <2>1. PICK t \in Threads : Ending(t)
      BY <1>9
    <2>2. CASE Commit(t)
      <3>1. /\ \A u \in Threads : call'[u].id = call[u].id /\ call'[u].kind = call[u].kind
            /\ \A u \in Threads : Done(u)' => Done(u) \/ Granted(u)
            /\ acked' = acked \/ (Granted(t) /\ acked' = acked \cup {call[t].id})
        BY <1>4, <2>2
      <3>. QED
        BY <3>1 DEF Granted
    <2>3. CASE ~Commit(t)
      BY <1>5, <2>1, <2>3 DEF Ending, Done, IsWrite
    <2>. QED
      BY <2>2, <2>3
  <1>10. CASE \/ \E t \in Threads : Inner(t) \/ Outer(t)
              \/ BackgroundStep \/ Close \/ Closed
    BY <1>6, <1>10 DEF Done, IsWrite
  <1>. QED
    BY <1>7, <1>8, <1>9, <1>10, Steps

LEMMA GroupWrittenStep ==
  ASSUME Queue, Store, SyncedLogs, GroupWritten, Next
  PROVE  GroupWritten'
  <1>1. ASSUME \A t \in Threads : pc'[t] \in Logged => /\ pc'[t] = pc[t] /\ call'[t].kind = call[t].kind
                                                       /\ lead'.group = lead.group /\ lead'.ok = lead.ok
                                                       /\ logs' = logs /\ mem' = mem
        PROVE  GroupWritten'
    BY <1>1 DEF GroupWritten, Logged, LogIds, SyncedIds, IdsOf, Current
  <1>2. pc \in [Threads -> PCs] /\ lead \in Lead /\ call \in [Threads -> Call]
    BY DEF Queue, QueueTyped
  <1>3. ASSUME NEW t \in Threads, NEW kind \in Kinds, Enter(t, kind)
        PROVE  GroupWritten'
    <2>1. /\ logs' = logs /\ mem' = mem /\ \A u \in Threads \ {t} : call'[u] = call[u] /\ pc'[u] = pc[u]
          /\ pc'[t] \in {"room", "wait"} /\ (writers # <<>> => lead' = lead)
      BY <1>2, <1>3 DEF Enter, dbVars
    <2>2. \A u \in Threads : pc[u] \in Logged => writers # <<>>
      BY DEF Queue, QueueTyped, QueueInv, Queued, AtFront, Writing, Logged
    <2>. QED
      BY <1>1, <2>1, <2>2 DEF Logged
  <1>4. ASSUME NEW t \in Threads, Recheck(t)
        PROVE  GroupWritten'
    <2>1. /\ logs' = logs /\ mem' = mem /\ call' = call
          /\ \A u \in Threads \ {t} : pc'[u] = pc[u]
          /\ pc[t] = "check" /\ pc'[t] \in {"idle", "imm", "range", "room", "wait"}
          /\ lead' = lead \/ (~call[t].done /\ t = Head(writers))
      BY <1>2, <1>4 DEF Recheck, Continue, dbVars
    <2>2. \A u \in Threads : pc[u] \in Logged => lead' = lead
      <3>1. CASE ~call[t].done /\ t = Head(writers)
        <4>1. Len(writers) > 0 /\ writers[1] = t
          BY <2>1, <3>1 DEF Queue, QueueTyped, QueueInv, Queued
        <4>. QED
          BY <2>1, <4>1 DEF Queue, QueueInv, AtFront, Writing, Logged
      <3>. QED
        BY <2>1, <3>1
    <2>. QED
      BY <1>1, <2>1, <2>2 DEF Logged
  <1>5. ASSUME NEW t \in Threads, Ending(t)
        PROVE  GroupWritten'
    <2>1. PICK pop : Returns(t, pop)
      BY <1>5, EndingReturns DEF Store
    <2>2. \A u \in Threads : pc'[u] \notin AtFront
      BY <2>1, ReturnQueue DEF Store
    <2>. QED
      BY <1>1, <2>2 DEF AtFront, Writing, Logged
  <1>6. ASSUME NEW t \in Threads, Inner(t)
        PROVE  GroupWritten'
    <2>1. /\ call' = call
          /\ \A u \in Threads \ {t} : pc'[u] \notin Logged
      BY <1>6, InnerMoves, InnerQueue DEF Queue, Store, AtFront, Writing, Logged
    <2>2. CASE RoomDelay(t) \/ (RoomReady(t) /\ IsWrite(t)) \/ RoomWait(t) \/ RoomSwitch(t)
      <3>1. pc'[t] \notin Logged
        BY <1>2, <2>2 DEF RoomDelay, RoomReady, RoomWait, RoomSwitch, InRoom, Logged
      <3>. QED
        BY <1>1, <2>1, <3>1
    <2>3. CASE AddRecord(t)
      <3>1. PICK failed \in BOOLEAN, whole \in BOOLEAN :
               /\ logs' = [logs EXCEPT ![Current].recs =
                             Append(@, [seq |-> lastSeq + 1, ids |-> lead.group, whole |-> whole])]
               /\ lead' = [lead EXCEPT !.ok = ~failed]
               /\ pc' = [pc EXCEPT ![t] = IF failed THEN "commit"
                                          ELSE IF call[t].kind = "sync" THEN "sync"
                                          ELSE "insert"]
        BY <2>3 DEF AddRecord, Fails
      <3>2. /\ lead'.group = lead.group /\ (pc'[t] = "commit" => ~lead'.ok)
            /\ pc'[t] \in {"commit", "sync", "insert"}
            /\ pc'[t] = "insert" => call[t].kind # "sync"
        BY <1>2, <3>1 DEF Lead
      <3>3. Current \in 1..Current /\ Current = Len(logs) /\ logs[Current].recs \in Seq(Record)
        BY Records DEF Store, DataTyped, LogFile
      <3>4. \E n \in 1..Len(logs'[Current].recs) : logs'[Current].recs[n].ids = lead.group
        <4>1. logs'[Current].recs =
                Append(logs[Current].recs, [seq |-> lastSeq + 1, ids |-> lead.group, whole |-> whole])
          BY <3>1, <3>3 DEF Store, DataTyped, LogFile
        <4>2. PICK n : n = Len(logs[Current].recs) + 1
          OBVIOUS
        <4>3. n \in 1..Len(logs'[Current].recs) /\ logs'[Current].recs[n].ids = lead.group
          BY <3>3, <4>1, <4>2
        <4>. QED
          BY <4>3
      <3>5. Current' = Current
        BY <3>1, <3>3 DEF Store, DataTyped, Current
      <3>6. lead'.group \subseteq LogIds(Current)'
        BY <3>2, <3>4, <3>5 DEF LogIds, IdsOf
      <3>. QED
        BY <2>1, <3>2, <3>6 DEF GroupWritten, Logged
    <2>4. CASE SyncLog(t)
      <3>1. PICK failed \in BOOLEAN :
               /\ logs' = IF failed THEN logs
                          ELSE [logs EXCEPT ![Current].synced = Len(logs[Current].recs)]
               /\ lead' = [lead EXCEPT !.ok = ~failed]
               /\ pc' = [pc EXCEPT ![t] = IF failed THEN "syncError" ELSE "insert"]
        BY <2>4 DEF SyncLog, Fails
      <3>2. lead'.group = lead.group /\ pc'[t] \in {"syncError", "insert"}
        BY <1>2, <3>1 DEF Lead
      <3>3. CASE pc'[t] = "insert"
        <4>1. Current \in 1..Current /\ Current = Len(logs) /\ logs[Current] \in LogFile
          BY Records DEF Store, DataTyped
        <4>2. /\ logs'[Current].recs = logs[Current].recs
              /\ logs'[Current].synced = Len(logs[Current].recs)
              /\ Current' = Current
          BY <1>2, <3>1, <3>3, <4>1 DEF Store, DataTyped, LogFile, Current
        <4>3. lead.group \subseteq LogIds(Current)
          BY <2>4 DEF SyncLog, GroupWritten
        <4>4. LogIds(Current)' = LogIds(Current) /\ SyncedIds(Current)' = LogIds(Current)
          BY <4>2 DEF LogIds, SyncedIds, IdsOf
        <4>. QED
          BY <2>1, <3>2, <3>3, <4>3, <4>4 DEF GroupWritten, Logged
      <3>. QED
        BY <2>1, <3>2, <3>3 DEF GroupWritten, Logged
    <2>5. CASE InsertInto(t)
      <3>1. /\ pc[t] = "insert" /\ pc'[t] = "commit" /\ mem' = mem \cup lead.group
            /\ lead' = lead /\ logs' = logs
        BY <1>2, <2>5 DEF InsertInto
      <3>2. SyncedIds(Current)' = SyncedIds(Current)
        BY <3>1 DEF SyncedIds, IdsOf, Current
      <3>. QED
        BY <2>1, <3>1, <3>2 DEF GroupWritten, Logged
    <2>. QED
      BY <1>6, <2>2, <2>3, <2>4, <2>5 DEF Inner
  <1>7. ASSUME NEW t \in Threads, Outer(t)
        PROVE  GroupWritten'
    <2>1. /\ UNCHANGED <<call, lead, logs, mem>>
          /\ pc'[t] \in {"immSleep", "range", "rangeSleep", "idle"}
          /\ \A u \in Threads \ {t} : pc'[u] = pc[u]
      BY <1>7, OuterMoves DEF Queue
    <2>. QED
      BY <1>1, <2>1 DEF Logged
  <1>8. CASE BackgroundStep
    <2>1. UNCHANGED <<call, lead, logs, mem>> /\ (pc' = pc \/ pc' = SignalAll(pc))
      BY <1>8, BackgroundMoves
    <2>2. \A u \in Threads : pc'[u] \in Logged => pc'[u] = pc[u]
      BY <1>2, <2>1, Woken_ DEF Logged, Writing
    <2>. QED
      BY <1>1, <2>1, <2>2
  <1>9. CASE Close \/ Closed
    <2>1. UNCHANGED <<pc, call, lead, logs, mem>>
      BY <1>9 DEF Close, Closed, dbVars
    <2>. QED
      BY <1>1, <2>1
  <1>. QED
    BY <1>3, <1>4, <1>5, <1>6, <1>7, <1>8, <1>9, Steps

LEMMA AnswersStep ==
  ASSUME Queue, Store, DurableInv, Next
  PROVE  AnswersHeld'
  <1>1. ASSUME NEW u \in Threads, Granted(u)
        PROVE  /\ Held(call[u].id)
               /\ call[u].kind = "sync" => HeldSynced(call[u].id)
    BY <1>1 DEF Granted, DurableInv, GroupWritten, Held, HeldSynced
  <1>2. ASSUME NEW u \in Threads, Done(u) \/ Granted(u), NEW x, x = call[u].id
        PROVE  Held(x)' /\ (call[u].kind = "sync" => HeldSynced(x)')
    <2>1. Held(x) /\ (call[u].kind = "sync" => HeldSynced(x))
      BY <1>1, <1>2 DEF DurableInv, AnswersHeld, Done
    <2>. QED
      BY <2>1, HeldKept, HeldSyncedKept DEF DurableInv
  <1>3. /\ \A u \in Threads :
             \/ call'[u].id = call[u].id /\ call'[u].kind = call[u].kind
             \/ acked' = acked /\ call'[u].id = calls + 1 /\ ~call'[u].done
        /\ \A u \in Threads : Done(u)' => (Done(u) \/ Granted(u)) /\ call'[u].id = call[u].id
        /\ \A x \in acked' : \/ x \in acked
                             \/ \E u \in Threads : x = call[u].id /\ IsWrite(u) /\ (Done(u) \/ Granted(u))
    BY Answers
  <1>4. \A x \in acked' : Held(x)'
    <2>1. ASSUME NEW x \in acked'
          PROVE  Held(x)'
      <3>1. CASE x \in acked
        BY <3>1, HeldKept DEF DurableInv, AnswersHeld
      <3>. QED
        BY <1>2, <1>3, <3>1
    <2>. QED
      BY <2>1
  <1>5. \A u \in Threads : Done(u)' => Held(call[u].id)'
    <2>1. ASSUME NEW u \in Threads, Done(u)'
          PROVE  Held(call[u].id)'
      <3>1. PICK x : x = call[u].id /\ x = call'[u].id
        BY <1>3, <2>1
      <3>2. Held(x)'
        BY <1>2, <1>3, <2>1, <3>1
      <3>. QED
        BY <3>1, <3>2 DEF Held
    <2>. QED
      BY <2>1
  <1>6. \A u \in Threads : call'[u].kind = "sync" /\ (call'[u].id \in acked' \/ Done(u)')
                           => HeldSynced(call[u].id)'
    <2>1. ASSUME NEW u \in Threads, call'[u].kind = "sync", call'[u].id \in acked' \/ Done(u)'
          PROVE  HeldSynced(call[u].id)'
      <3>1. PICK x : x = call'[u].id
        OBVIOUS
      <3>. SUFFICES HeldSynced(x)'
        BY <3>1 DEF HeldSynced
      <3>2. x \in acked => x # calls + 1
        BY DEF Queue, QueueTyped, CallInv
      <3>3. call'[u].id = call[u].id /\ call'[u].kind = call[u].kind
        BY <1>3, <2>1, <3>1, <3>2 DEF Done
      <3>4. CASE x \in acked
        <4>1. HeldSynced(x)
          BY <2>1, <3>1, <3>3, <3>4 DEF DurableInv, AnswersHeld
        <4>. QED
          BY <4>1, HeldSyncedKept DEF DurableInv
      <3>5. CASE x \notin acked
        <4>1. CASE Done(u)'
          BY <1>2, <1>3, <2>1, <3>1, <3>3, <4>1
        <4>2. CASE x \in acked'
          <5>1. PICK v \in Threads : x = call[v].id /\ IsWrite(v) /\ (Done(v) \/ Granted(v))
            BY <1>3, <3>5, <4>2
          <5>2. call[v].id > 0
            BY <5>1 DEF Queue, CallInv, IsWrite
          <5>3. v = u
            BY <3>1, <3>3, <5>1, <5>2 DEF Queue, CallInv
          <5>. QED
            BY <1>2, <2>1, <3>3, <5>1, <5>3
        <4>. QED
          BY <2>1, <3>1, <4>1, <4>2
      <3>. QED
        BY <3>4, <3>5
    <2>. QED
      BY <2>1
  <1>. QED
    BY <1>4, <1>5, <1>6 DEF AnswersHeld

LEMMA DurableStep ==
  ASSUME Queue, Store, DurableInv, Next
  PROVE  DurableInv'
  BY LogsGrow, HasLogStep, GroupWrittenStep, AnswersStep DEF DurableInv

LEMMA WholeStep ==
  ASSUME "append" \notin Faults, Store, AllWhole, Next
  PROVE  AllWhole'
  <1>1. Current \in Nat /\ Current = Len(logs) /\ \A l \in 1..Current : logs[l] \in LogFile
    BY Records DEF Store
  <1>2. CASE logs' = logs
    BY <1>2 DEF AllWhole, Current
  <1>3. ASSUME NEW t \in Threads, AddRecord(t)
        PROVE  AllWhole'
    <2>1. PICK r : r.whole /\ logs' = [logs EXCEPT ![Current].recs = Append(@, r)]
      BY <1>3 DEF AddRecord, Fails
    <2>2. Len(logs') = Len(logs) /\ \A l \in 1..Current : l # Current => logs'[l] = logs[l]
      BY <2>1 DEF Store, DataTyped, Current
    <2>3. \A i \in 1..Len(logs'[Current].recs) : logs'[Current].recs[i].whole
      <3>1. Current \in 1..Current /\ logs[Current].recs \in Seq(Record)
        BY <1>1 DEF Store, DataTyped, LogFile
      <3>2. logs'[Current].recs = Append(logs[Current].recs, r)
        BY <1>1, <2>1, <3>1 DEF Store, DataTyped, LogFile
      <3>3. ASSUME NEW i \in 1..Len(logs'[Current].recs)
            PROVE  logs'[Current].recs[i].whole
        <4>1. CASE i \in 1..Len(logs[Current].recs)
          BY <3>1, <3>2, <4>1 DEF AllWhole
        <4>2. CASE i = Len(logs[Current].recs) + 1
          BY <2>1, <3>1, <3>2, <4>2
        <4>. QED
          BY <3>1, <3>2, <4>1, <4>2
      <3>. QED
        BY <3>3
    <2>. QED
      BY <1>1, <2>2, <2>3 DEF AllWhole, Current
  <1>4. ASSUME NEW t \in Threads, SyncLog(t)
        PROVE  AllWhole'
    <2>1. CASE logs' = [logs EXCEPT ![Current].synced = Len(logs[Current].recs)]
      <3>1. Len(logs') = Len(logs) /\ \A l \in 1..Current : logs'[l].recs = logs[l].recs
        BY <1>1, <2>1 DEF Store, DataTyped, LogFile
      <3>. QED
        BY <3>1 DEF AllWhole, Current
    <2>. QED
      BY <1>2, <1>4, <2>1 DEF SyncLog
  <1>5. ASSUME NEW t \in Threads, RoomSwitch(t)
        PROVE  AllWhole'
    <2>1. logs' = Append(logs, EmptyLog) /\ EmptyLog.recs = <<>>
      BY <1>5 DEF RoomSwitch, EmptyLog
    <2>2. /\ Len(logs') = Current + 1 /\ Len(logs'[Current + 1].recs) = 0
          /\ \A l \in 1..Current : logs'[l] = logs[l]
      BY <1>1, <2>1 DEF Store, DataTyped
    <2>. QED
      BY <1>1, <2>2 DEF AllWhole, Current
  <1>6. \/ logs' = logs
        \/ \E t \in Threads : RoomSwitch(t) \/ AddRecord(t) \/ SyncLog(t)
    BY LogFilesChange
  <1>. QED
    BY <1>2, <1>3, <1>4, <1>5, <1>6

-----------------------------------------------------------------------------
(* The invariant.                                                          *)
IInv ==
  /\ Queue /\ Store /\ SequenceInv /\ DurableInv
  /\ "append" \notin Faults => AllWhole

LEMMA InitInv == Init => IInv
  <1>. SUFFICES ASSUME Init PROVE IInv
    OBVIOUS
  <1>. USE Bounds DEF Init
  <1>1. Queue
    <2>1. QueueTyped
      <3>1. NoLead \in Lead
        BY DEF NoLead, Lead
      <3>2. 0 \in 0..MaxOps
        OBVIOUS
      <3>3. NoCall \in Call
        BY DEF NoCall, Call
      <3>4. <<>> \in Seq(Threads) /\ IsInjective(<<>>)
        BY DEF IsInjective
      <3>. QED
        BY <3>1, <3>2, <3>3, <3>4 DEF QueueTyped, PCs
    <2>2. QueueInv
      BY DEF QueueInv, Queued, AtFront, Writing
    <2>3. CallInv
      BY DEF CallInv, NoCall
    <2>4. GroupInv
      BY DEF GroupInv, Writing
    <2>. QED
      BY <2>1, <2>2, <2>3, <2>4 DEF Queue
  <1>2. Store
    <2>1. EmptyLog \in LogFile
      BY DEF EmptyLog, LogFile
    <2>2. DataTyped
      BY <2>1 DEF DataTyped
    <2>3. BackgroundTyped
      <3>1. IdleBg \in Background
        BY DEF IdleBg, Background
      <3>2. [t \in Threads |-> 0] \in [Threads -> 0..(Chunks + 1)]
        OBVIOUS
      <3>. QED
        BY <3>1, <3>2 DEF BackgroundTyped
    <2>4. BackgroundInv
      BY DEF BackgroundInv, IdleBg
    <2>. QED
      BY <2>2, <2>3, <2>4 DEF Store
  <1>3. Len(logs) = 1 /\ Current = 1 /\ Len(logs[1].recs) = 0 /\ logs[1].synced = 0
    BY DEF Current, EmptyLog
  <1>4. SequenceInv
    BY <1>3 DEF SequenceInv, Numbered, Ascending
  <1>5. DurableInv
    <2>1. SyncedLogs
      BY <1>3 DEF SyncedLogs
    <2>2. MemTableHasLog
      BY DEF MemTableHasLog
    <2>3. GroupWritten
      BY DEF GroupWritten
    <2>4. AnswersHeld
      BY DEF AnswersHeld, Done, IsWrite, NoCall
    <2>. QED
      BY <2>1, <2>2, <2>3, <2>4 DEF DurableInv
  <1>6. AllWhole
    BY <1>3 DEF AllWhole
  <1>. QED
    BY <1>1, <1>2, <1>4, <1>5, <1>6 DEF IInv

LEMMA StopStep ==
  ASSUME Queue, Store, Close \/ Closed
  PROVE  Queue' /\ Store'
  <1>1. UNCHANGED <<mutex, pc, call, writers, lead, calls, dbVars, bgError, bgVars, acked>>
    BY DEF Close, Closed
  <1>2. Queue'
    BY <1>1 DEF Queue, QueueTyped, QueueInv, Queued, CallInv, GroupInv, Covers, IsWrite, dbVars
  <1>3. DataTyped'
    BY <1>1 DEF Store, DataTyped, dbVars
  <1>4. BackgroundTyped'
    BY <1>1 DEF Store, BackgroundTyped, bgVars, Close, Closed
  <1>5. BackgroundInv'
    BY <1>1 DEF Store, BackgroundInv, bgVars, dbVars, Close, Closed
  <1>. QED
    BY <1>2, <1>3, <1>4, <1>5 DEF Store

LEMMA NextInv == IInv /\ [Next]_vars => IInv'
  <1>. SUFFICES ASSUME IInv, [Next]_vars PROVE IInv'
    OBVIOUS
  <1>1. CASE Next
    <2>1. Queue' /\ Store'
      <3>1. ASSUME NEW t \in Threads, \/ \E kind \in Kinds : Enter(t, kind)
                                      \/ Recheck(t) \/ Ending(t) \/ Inner(t) \/ Outer(t)
            PROVE  Queue' /\ Store'
        <4>1. CASE \E kind \in Kinds : Enter(t, kind)
          BY <4>1, EnterQueue, EnterStore DEF IInv, Store
        <4>2. CASE Recheck(t)
          BY <4>2, RecheckQueue, RecheckStore DEF IInv
        <4>3. CASE Ending(t)
          BY <4>3, EndingReturns, ReturnQueue, EndingStore DEF IInv, Store
        <4>4. CASE Inner(t)
          BY <4>4, InnerQueue, InnerStore DEF IInv, Store
        <4>5. CASE Outer(t)
          BY <4>5, OuterQueue, OuterStore DEF IInv
        <4>. QED
          BY <3>1, <4>1, <4>2, <4>3, <4>4, <4>5
      <3>2. CASE BackgroundStep
        BY <3>2, BackgroundQueue, BackgroundStore DEF IInv
      <3>3. CASE Close \/ Closed
        BY <3>3, StopStep DEF IInv
      <3>. QED
        BY <1>1, <3>1, <3>2, <3>3, Steps
    <2>2. SequenceInv'
      BY <1>1, SequenceStep DEF IInv, Store
    <2>3. DurableInv'
      BY <1>1, DurableStep DEF IInv
    <2>4. "append" \notin Faults => AllWhole'
      BY <1>1, WholeStep DEF IInv
    <2>. QED
      BY <2>1, <2>2, <2>3, <2>4 DEF IInv
  <1>2. CASE UNCHANGED vars
    <2>1. UNCHANGED <<mutex, pc, call, writers, lead, calls, bgError, closing, acked>>
      BY <1>2 DEF vars
    <2>2. UNCHANGED <<lastSeq, logs, mem, imm, tables, logNumber, level0>>
      BY <1>2 DEF vars, dbVars
    <2>3. UNCHANGED <<scheduled, bg, manual, chunk>>
      BY <1>2 DEF vars, bgVars
    <2>4. Queue'
      BY <2>1, <2>2 DEF IInv, Queue, QueueTyped, QueueInv, Queued, CallInv, GroupInv, Covers, IsWrite
    <2>5. DataTyped' /\ BackgroundTyped' /\ BackgroundInv'
      BY <2>1, <2>2, <2>3 DEF IInv, Store, DataTyped, BackgroundTyped, BackgroundInv
    <2>6. SequenceInv'
      BY <2>1, <2>2, SequenceKept DEF IInv, InFlight
    <2>7. SyncedLogs' /\ MemTableHasLog' /\ GroupWritten' /\ AllWhole' = AllWhole
      BY <2>1, <2>2 DEF IInv, DurableInv, SyncedLogs, MemTableHasLog, GroupWritten, AllWhole,
         LogIds, SyncedIds, IdsOf, Current
    <2>8. AnswersHeld'
      BY <2>1, <2>2 DEF IInv, DurableInv, AnswersHeld, Held, HeldSynced, Done, IsWrite, SyncedIds, IdsOf, Current
    <2>. QED
      BY <2>4, <2>5, <2>6, <2>7, <2>8 DEF IInv, Store, DurableInv
  <1>. QED
    BY <1>1, <1>2

THEOREM Invariant == Spec => []IInv
  BY InitInv, NextInv, PTL DEF Spec

-----------------------------------------------------------------------------
(* The queue, the call table, the memtables and the background thread keep *)
(* their types: the sequence number never passes the calls that were made, *)
(* and versions_->LogNumber() is a log file that exists.                   *)
THEOREM Typed == Spec => []TypeOK
  <1>1. IInv => TypeOK
    <2>. SUFFICES ASSUME IInv PROVE TypeOK
      OBVIOUS
    <2>1. QueueTyped /\ QueueInv /\ DataTyped /\ BackgroundTyped
      BY DEF IInv, Queue, Store
    <2>2. lastSeq \in 0..MaxOps
      BY <2>1, Bounds DEF QueueTyped, QueueInv, DataTyped
    <2>3. logNumber \in 1..Current /\ level0 \in Nat
      BY <2>1 DEF DataTyped, Current
    <2>4. bg.pc \in {"idle", "call", "table", "manifest", "work", "install"}
      BY <2>1 DEF BackgroundTyped, Background
    <2>. QED
      BY <2>1, <2>2, <2>3, <2>4 DEF TypeOK, QueueTyped, DataTyped, BackgroundTyped, PCs, AtFront,
        Writing, Call, Ids
  <1>. QED
    BY <1>1, Invariant, PTL

(* No two batches in the log files got the same sequence number, whatever  *)
(* the group they were written in, and failed ones included (SetSequence   *)
(* and SetLastSequence in DBImpl::Write).                                  *)
THEOREM NumbersUnique == Spec => []SequenceUnique
  <1>1. IInv => SequenceUnique
    <2>. SUFFICES ASSUME IInv, NEW l \in 1..Current, NEW k \in 1..Current,
                         NEW i \in 1..Len(logs[l].recs), NEW j \in 1..Len(logs[k].recs),
                         <<l, i>> # <<k, j>>
                  PROVE  \/ logs[l].recs[i].seq + Cardinality(logs[l].recs[i].ids) <= logs[k].recs[j].seq
                         \/ logs[k].recs[j].seq + Cardinality(logs[k].recs[j].ids) <= logs[l].recs[i].seq
      BY DEF SequenceUnique
    <2>1. Current \in Nat /\ Len(logs[l].recs) \in Nat /\ Len(logs[k].recs) \in Nat
      BY Records DEF IInv, Store
    <2>2. l < k \/ k < l \/ (l = k /\ (i < j \/ j < i))
      BY <2>1
    <2>. QED
      BY <2>2 DEF IInv, SequenceInv, Ascending
  <1>. QED
    BY <1>1, Invariant, PTL

(* Nothing runs, waits or is scheduled when the destructor frees the state *)
(* (DBImpl::~DBImpl waits for bg_compaction_scheduled_ only).              *)
THEOREM Quiet == Spec => []QuietWhenClosed
  <1>1. IInv => QuietWhenClosed
    <2>. SUFFICES ASSUME IInv, closing = "closed"
                  PROVE  /\ bg.pc = "idle" /\ ~scheduled /\ manual = None
                         /\ writers = <<>> /\ \A t \in Threads : pc[t] = "idle"
      BY DEF QuietWhenClosed
    <2>1. /\ bg.pc = "idle" /\ ~scheduled
          /\ \A t \in Threads : pc[t] = "idle"
      BY DEF IInv, Store, BackgroundInv
    <2>2. manual = None
      BY <2>1 DEF IInv, Store, BackgroundTyped, BackgroundInv
    <2>3. writers = <<>>
      <3>1. \A t \in Threads : ~Queued(t)
        BY <2>1 DEF Queued, AtFront, Writing
      <3>2. \A t \in Threads : \A i \in 1..Len(writers) : writers[i] # t
        BY <3>1 DEF IInv, Queue, QueueInv
      <3>3. writers \in Seq(Threads)
        BY DEF IInv, Queue, QueueTyped
      <3>4. ~(1 \in 1..Len(writers))
        BY <3>2, <3>3
      <3>. QED
        BY <3>3, <3>4
    <2>. QED
      BY <2>1, <2>2, <2>3
  <1>. QED
    BY <1>1, Invariant, PTL

(* What the queue answered ok is in a table or readable in a log file that *)
(* recovery looks at, and synced there if it was a sync write, at every    *)
(* step of the flushes, compactions and failures in the background; a      *)
(* failed append, after which DBImpl::Write goes on in the same log file,  *)
(* is left out.                                                            *)
THEOREM Durability == ASSUME "append" \notin Faults PROVE Spec => []QueueDurable
  <1>1. IInv /\ TypeOK => QueueDurable
    <2>. SUFFICES ASSUME IInv, TypeOK PROVE AckedRecoverable /\ SyncedSurvive /\ MemTableHasLog
      BY DEF QueueDurable
    <2>1. /\ AllWhole /\ SyncedLogs /\ MemTableHasLog /\ AnswersHeld
          /\ mem \subseteq LogIds(Current)
          /\ imm # None => \A x \in imm : \E l \in logNumber..(Current - 1) : x \in LogIds(l)
      BY MemTableLog DEF IInv, DurableInv
    <2>2. /\ Current \in Nat /\ logNumber \in 1..Current
          /\ \A l \in 1..Current : logs[l].synced \in Nat /\ Len(logs[l].recs) \in Nat
      BY Records DEF IInv, Store, DataTyped, LogFile
    <2>3. /\ Current \in logNumber..Current
          /\ \A l \in logNumber..(Current - 1) : l \in logNumber..Current
          /\ \A l \in logNumber..Current : l \in 1..Current
      BY <2>2
    <2>4. ASSUME NEW l \in logNumber..Current
          PROVE  /\ IdsOf(l, Readable(l)) = LogIds(l)
                 /\ IdsOf(l, Readable(l) \cap 1..logs[l].synced) = SyncedIds(l)
      <3>1. l \in 1..Current
        BY <2>3
      <3>2. Readable(l) = 1..Len(logs[l].recs)
        BY <2>1, <2>2, <3>1 DEF Readable, AllWhole
      <3>3. Readable(l) \cap 1..logs[l].synced = 1..logs[l].synced
        BY <2>1, <2>2, <3>1, <3>2 DEF SyncedLogs
      <3>. QED
        BY <3>2, <3>3 DEF LogIds, SyncedIds
    <2>5. AckedRecoverable
      <3>1. ASSUME NEW x \in acked
            PROVE  x \in tables \/ \E l \in logNumber..Current : x \in IdsOf(l, Readable(l))
        <4>1. Held(x)
          BY <2>1 DEF AnswersHeld
        <4>2. x \in tables \/ \E l \in logNumber..Current : x \in LogIds(l)
          BY <2>1, <2>3, <4>1 DEF Held
        <4>. QED
          BY <2>4, <4>2
      <3>. QED
        BY <3>1 DEF AckedRecoverable, Recoverable
    <2>6. SyncedSurvive
      <3>1. ASSUME NEW t \in Threads, call[t].kind = "sync", call[t].id \in acked
            PROVE  call[t].id \in Durable
        <4>1. HeldSynced(call[t].id)
          BY <2>1, <3>1 DEF AnswersHeld
        <4>2. \/ call[t].id \in tables
              \/ \E l \in logNumber..Current : call[t].id \in SyncedIds(l)
          BY <2>3, <4>1 DEF HeldSynced
        <4>3. \/ call[t].id \in tables
              \/ \E l \in logNumber..Current : call[t].id \in IdsOf(l, Readable(l) \cap 1..logs[l].synced)
          BY <2>4, <4>2
        <4>. QED
          BY <4>3 DEF Durable
      <3>. QED
        BY <3>1 DEF SyncedSurvive
    <2>. QED
      BY <2>1, <2>5, <2>6
  <1>. QED
    BY <1>1, Invariant, Typed, PTL

(* An immutable memtable goes away only into the tables: no error, and no  *)
(* compaction in which it is flushed, drops it (CompactMemTable).          *)
THEOREM ImmFlushed == Spec => ImmGoesToTable
  <1>1. IInv /\ [Next]_vars => [imm # None /\ imm' # imm => imm \subseteq tables']_vars
    <2>. SUFFICES ASSUME IInv, Next, imm # None, imm' # imm PROVE imm \subseteq tables'
      OBVIOUS
    <2>. QED
      BY MemTables DEF IInv
  <1>. QED
    BY <1>1, Invariant, PTL DEF Spec, ImmGoesToTable

=============================================================================
