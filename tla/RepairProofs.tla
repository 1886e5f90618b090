----------------------------- MODULE RepairProofs -----------------------------
(* Repair, for all directories and numbers of failures or kills: what is    *)
(* lost of what could be read, and what of the repaired database is as      *)
(* described.  Calls fail or the process is killed, not both: else a file   *)
(* in lost may be replaced, as the comment above Kept says.                 *)
EXTENDS Repair, FiniteSetTheorems, SequenceTheorems, WellFoundedInduction, TLAPS

-----------------------------------------------------------------------------
(* The invariant.                                                          *)

(* A table is being copied; it has been moved to lost, unless that failed.  *)
Copying == pc \in {"copy", "archive_table", "finish_copy", "rename_copy", "delete_copy"}
Moved == pc \in {"finish_copy", "rename_copy", "delete_copy"}
Converting == pc \in {"create_table", "finish_table"}

IsDir(d) ==
  d = [logs |-> d.logs, tables |-> d.tables, manifests |-> d.manifests, new |-> d.new, current |-> d.current]
IsLost(d) == d = [logs |-> d.logs, tables |-> d.tables]

Shape ==
  /\ IsDir(dir) /\ IsLost(lost)
  /\ found \in Starts
  /\ failures \in 0..MaxFailures /\ kills \in 0..MaxKills

Typed ==
  /\ Numbered(DOMAIN dir.logs) /\ Numbered(DOMAIN dir.tables)
  /\ \A n \in DOMAIN dir.logs : Readable(dir.logs[n].whole) /\ Readable(dir.logs[n].misread)
  /\ \A n \in DOMAIN dir.tables : Readable(dir.tables[n].gives)
  /\ Readable(copy.gives) /\ Readable(copy.seen) /\ copy.number \in Nat /\ next \in Nat
  /\ DOMAIN lost.tables \subseteq Nat

(* What is still to do is there, each once.                                 *)
Listed ==
  /\ logs \in Seq(Nat) /\ IsInjective(logs) /\ ToSet(logs) \subseteq DOMAIN dir.logs
  /\ numbers \in Seq(Nat) /\ IsInjective(numbers)
  /\ ToSet(numbers) \ (IF Moved THEN {copy.from} ELSE {}) \subseteq DOMAIN dir.tables

(* The phases, and what has been done in them.                              *)
Staged ==
  /\ pc = "find" => logs = <<>> /\ numbers = <<>>
  /\ pc \in {"find", "logs", "create_table", "finish_table", "archive_log"} => tables = <<>>
  /\ Converting \/ pc = "archive_log" => logs # <<>>
  /\ pc = "scan" \/ Copying => logs = <<>>
  /\ pc # "done" => result = "none"
  /\ pc = "delete_copy" => failures # 0

(* A new number is nobody's, whether in the directory or in lost.           *)
Fresh ==
  pc # "find" /\ result # "error" =>
    \A n \in DOMAIN dir.logs \cup DOMAIN dir.tables \cup DOMAIN lost.tables : n < next

InfoNums == {t.number : t \in ToSet(tables)}

(* The number of a table being written is its own.                          *)
Owned ==
  Converting \/ Copying =>
    /\ copy.number < next
    /\ copy.number \notin DOMAIN lost.tables \cup ToSet(numbers) \cup InfoNums
    /\ pc \in {"create_table", "copy"} => copy.number \notin DOMAIN dir.tables
    /\ pc \notin {"create_table", "copy"} => copy.number \in DOMAIN dir.tables
    /\ pc \in {"finish_table", "archive_table", "finish_copy"} => dir.tables[copy.number] = Unfinished
    /\ pc = "rename_copy" => dir.tables[copy.number] = Whole(copy.gives) /\ copy.gives # {}
    /\ pc = "delete_copy" => dir.tables[copy.number] \in {Unfinished, Whole(copy.gives)}

(* A table with damage is one that was found.  A copy has nothing but what  *)
(* its table gives, which is either where it was or in lost; it has all of  *)
(* it, and is of a table with damage, if no read failed; and what it lacks  *)
(* of a table that stayed is at risk.                                       *)
FromTable ==
  /\ \A n \in DOMAIN dir.tables : ~dir.tables[n].ends => dir.tables[n].gives \subseteq InDamaged
  /\ Copying =>
       /\ numbers # <<>> /\ copy.from = Head(numbers) /\ copy.from < copy.number
       /\ failures = 0 => copy.gives \subseteq InDamaged
       /\ pc \in {"copy", "archive_table"} =>
            copy.from \in DOMAIN dir.tables /\ (failures = 0 => ~dir.tables[copy.from].ends)
       /\ copy.from \notin misread => copy.seen = copy.gives
       /\ IF copy.from \in DOMAIN dir.tables
            THEN /\ copy.gives \subseteq dir.tables[copy.from].gives
                 /\ pc = "copy" \/ failures = 0 => dir.tables[copy.from].gives \subseteq copy.gives
                 /\ Moved => dir.tables[copy.from].gives \ copy.gives \subseteq risked
            ELSE copy.from \in DOMAIN lost.tables /\ copy.gives \subseteq lost.tables[copy.from].gives

(* What the new descriptor will say.                                        *)
Maxima(ts) == {ts[i].max_sequence : i \in DOMAIN ts}
MaxSeqs == Maxima(tables)
Infos ==
  /\ tables \in Seq(ToSet(tables)) /\ Numbered(MaxSeqs)
  /\ InfoNums \cap ToSet(numbers) = {}
  /\ \A t \in ToSet(tables) :
       /\ t.number \in DOMAIN dir.tables /\ dir.tables[t.number].ends
       /\ t.number \notin misread =>
            /\ {e.key : e \in dir.tables[t.number].gives} = t.keys
            /\ \A e \in dir.tables[t.number].gives : e.seq <= t.max_sequence

Ending == pc \in {"manifests", "install", "current"} \/ Repaired
Decided ==
  /\ Ending => /\ logs = <<>> /\ numbers = <<>>
               /\ dir.new = <<[files |-> ToSet(tables), next |-> next, last |-> LastSequence]>>
  /\ pc = "current" \/ Repaired => 1 \in dir.manifests
  /\ Repaired => pc = "done" /\ dir.current = 1

(* A table in lost whose place is free will not be replaced: a greater      *)
(* number is taken for good.                                                *)
Taken(m) ==
  \E c \in DOMAIN dir.tables :
    /\ m < c /\ (dir.tables[c].ends \/ dir.tables[c].gives = {})
    /\ ~(Copying /\ c = copy.number /\ copy.gives # {})

(* No file of lost is replaced.                                             *)
NoneReplaced ==
  /\ DOMAIN lost.logs \cap DOMAIN dir.logs = {}
  /\ MaxKills = 0 =>
       /\ pc = "find" => DOMAIN lost.tables = {}
       /\ DOMAIN lost.tables \cap ToSet(numbers) \subseteq (IF Moved THEN {copy.from} ELSE {})
  /\ MaxFailures = 0 =>
       \A m \in DOMAIN lost.tables :
         IF m \in DOMAIN dir.tables THEN dir.tables[m].ends
         ELSE Taken(m) \/ (pc \in {"finish_copy", "rename_copy"} /\ m = copy.from)

(* In a repair in which no call fails: what could be read is still to be    *)
(* treated, or in a table that the descriptor will name.                    *)
Excused == IF kills = 0 THEN {} ELSE InDamaged
ToDo == IF pc = "find" THEN DOMAIN dir.logs ELSE ToSet(logs)
ToKeep == DOMAIN dir.tables \cap (IF pc = "find" THEN DOMAIN dir.tables ELSE ToSet(numbers) \cup InfoNums)
Held(e) ==
  \/ \E n \in ToDo : e \in dir.logs[n].whole
  \/ \E n \in ToKeep : e \in dir.tables[n].gives
  \/ Moved /\ e \in copy.gives
AllHeld ==
  failures = 0 =>
    /\ pc = "finish_table" \/ pc = "create_table" => copy.gives = ReadLog(dir.logs[Head(logs)])
    /\ pc = "archive_log" =>
         \A e \in dir.logs[Head(logs)].whole : \E n \in ToSet(numbers) : e \in dir.tables[n].gives
    /\ \A e \in ToSave \ Excused : Held(e)

IInv ==
  /\ Shape /\ Typed /\ Listed /\ Staged /\ Fresh /\ Owned /\ FromTable /\ Infos /\ Decided
  /\ NoneReplaced /\ Kept /\ AllHeld

-----------------------------------------------------------------------------
(* Directories.                                                            *)

LEMMA WithIs ==
  ASSUME NEW f, NEW n, NEW x
  PROVE  /\ DOMAIN With(f, n, x) = DOMAIN f \cup {n}
         /\ With(f, n, x)[n] = x
         /\ \A m \in DOMAIN f : m # n => With(f, n, x)[m] = f[m]
  BY DEF With

LEMMA WithoutIs ==
  ASSUME NEW f, NEW n
  PROVE  /\ DOMAIN Without(f, n) = DOMAIN f \ {n}
         /\ \A m \in DOMAIN f : m # n => Without(f, n)[m] = f[m]
  BY DEF Without

LEMMA UnionIs ==
  ASSUME NEW f, NEW e
  PROVE  e \in Union(f) <=> \E n \in DOMAIN f : e \in f[n]
  BY DEF Union

LEMMA LoggedIs ==
  ASSUME NEW ls, NEW e
  PROVE  e \in Logged(ls) <=> \E n \in DOMAIN ls : e \in ls[n].whole
  BY UnionIs DEF Logged

LEMMA GivenIs ==
  ASSUME NEW ts, NEW e
  PROVE  e \in Given(ts) <=> \E n \in DOMAIN ts : e \in ts[n].gives
  BY UnionIs DEF Given

(* Where an entry can be read.                                              *)
Somewhere(e) ==
  \/ \E n \in DOMAIN dir.logs : e \in dir.logs[n].whole
  \/ \E n \in DOMAIN lost.logs : e \in lost.logs[n].whole
  \/ \E n \in DOMAIN dir.tables : e \in dir.tables[n].gives
  \/ \E n \in DOMAIN lost.tables : e \in lost.tables[n].gives

LEMMA KeptIs ==
  Kept <=> \A e \in ToSave \ risked : Somewhere(e)
  BY LoggedIs, GivenIs DEF Kept, Somewhere

LEMMA KeptStays ==
  ASSUME Kept, found' = found, risked \subseteq risked', \A e \in ToSave \ risked : Somewhere(e) => Somewhere(e)'
  PROVE  Kept'
  <1>1. ToSave' = ToSave
    BY DEF ToSave
  <1>2. Kept' <=> \A e \in ToSave' \ risked' : Somewhere(e)'
    BY LoggedIs, GivenIs DEF Kept, Somewhere
  <1>. QED
    BY <1>1, <1>2, KeptIs

-----------------------------------------------------------------------------
(* Finite sets of numbers.                                                 *)

LEMMA NumberedAdd ==
  ASSUME NEW S, Numbered(S), NEW n \in Nat
  PROVE  Numbered(S \cup {n})
  BY FS_AddElement DEF Numbered

LEMMA NumberedPart ==
  ASSUME NEW S, Numbered(S), NEW T, T \subseteq S
  PROVE  Numbered(T)
  BY FS_Subset DEF Numbered

LEMMA NumberedUnion ==
  ASSUME NEW S, NEW T, Numbered(S), Numbered(T)
  PROVE  Numbered(S \cup T)
  BY FS_Union DEF Numbered

(* They have a greatest: of subsets without one, a least one would have one.*)
LEMMA NumberedMax ==
  ASSUME NEW S, Numbered(S), S # {}
  PROVE  \E m \in S : \A n \in S : n <= m
  <1>. DEFINE Bad == {T \in FiniteSubsetsOf(S) : T # {} /\ ~\E m \in T : \A n \in T : n <= m}
  <1>1. S \in FiniteSubsetsOf(S)
    BY DEF FiniteSubsetsOf, Numbered
  <1>. SUFFICES ASSUME Bad # {} PROVE FALSE
    BY <1>1
  <1>2. PICK T \in Bad : \A U \in Bad : ~(<<U, T>> \in StrictSubsetOrdering(S))
    <2>1. Bad \subseteq FiniteSubsetsOf(S)
      OBVIOUS
    <2>. QED
      BY <2>1, FS_StrictSubsetOrderingWellFounded, WFMin
  <1>3. T \subseteq S /\ IsFiniteSet(T) /\ S \subseteq Nat
    BY DEF FiniteSubsetsOf, Numbered
  <1>4. PICK x \in T : TRUE
    OBVIOUS
  <1>5. T \ {x} \in FiniteSubsetsOf(S) /\ <<T \ {x}, T>> \in StrictSubsetOrdering(S)
    BY <1>3, <1>4, FS_RemoveElement DEF FiniteSubsetsOf, StrictSubsetOrdering
  <1>6. x \in Nat
    BY <1>3, <1>4
  <1>7. CASE T \ {x} = {}
    <2>1. \A n \in T : n <= x
      BY <1>6, <1>7
    <2>. QED
      BY <1>4, <2>1
  <1>8. CASE T \ {x} # {}
    <2>1. PICK m \in T \ {x} : \A n \in T \ {x} : n <= m
      BY <1>2, <1>5, <1>8
    <2>2. m \in Nat
      BY <1>3
    <2>3. CASE x <= m
      BY <2>1, <2>3
    <2>4. CASE ~(x <= m)
      <3>1. \A n \in T : n <= x
        <4>. TAKE n \in T
        <4>1. n \in Nat
          BY <1>3
        <4>2. n = x \/ n <= m
          BY <2>1
        <4>. QED
          BY <1>6, <2>2, <2>4, <4>1, <4>2
      <3>. QED
        BY <1>4, <3>1
    <2>. QED
      BY <2>3, <2>4
  <1>. QED
    BY <1>7, <1>8

LEMMA MaxOfIs ==
  ASSUME NEW S, Numbered(S)
  PROVE  MaxOf(S) \in Nat /\ \A n \in S : n <= MaxOf(S)
  <1>1. CASE S = {}
    BY <1>1 DEF MaxOf
  <1>2. CASE S # {}
    <2>1. MaxOf(S) \in S /\ \A n \in S : n <= MaxOf(S)
      BY <1>2, NumberedMax DEF MaxOf
    <2>. QED
      BY <2>1 DEF Numbered
  <1>. QED
    BY <1>1, <1>2

LEMMA ReadableUnion ==
  ASSUME NEW A, NEW B, Readable(A), Readable(B)
  PROVE  Readable(A \cup B)
  <1>1. Seqs(A \cup B) = Seqs(A) \cup Seqs(B)
    BY DEF Seqs
  <1>. QED
    BY <1>1, NumberedUnion DEF Readable

LEMMA ReadableEmpty ==
  Readable({})
  <1>1. Seqs({}) = {}
    BY DEF Seqs
  <1>. QED
    BY <1>1, FS_EmptySet DEF Readable, Numbered

LEMMA ReadablePart ==
  ASSUME NEW A, Readable(A), NEW B, B \subseteq A
  PROVE  Readable(B)
  <1>1. Seqs(B) \subseteq Seqs(A)
    BY DEF Seqs
  <1>. QED
    BY <1>1, NumberedPart DEF Readable

-----------------------------------------------------------------------------
(* Sequences.                                                              *)

LEMMA TailIs ==
  ASSUME NEW s \in Seq(Nat), s # <<>>, IsInjective(s)
  PROVE  /\ Tail(s) \in Seq(Nat) /\ IsInjective(Tail(s))
         /\ Head(s) \in ToSet(s) /\ Head(s) \in Nat
         /\ ToSet(Tail(s)) = ToSet(s) \ {Head(s)}
  <1>1. /\ Len(s) \in Nat /\ Len(s) >= 1 /\ DOMAIN s = 1..Len(s) /\ Head(s) = s[1]
        /\ Tail(s) \in Seq(Nat) /\ DOMAIN Tail(s) = 1..(Len(s) - 1)
        /\ \A i \in 1..(Len(s) - 1) : Tail(s)[i] = s[i + 1]
    BY EmptySeq, LenProperties, HeadTailProperties
  <1>2. IsInjective(Tail(s))
    BY <1>1 DEF IsInjective
  <1>3. ToSet(Tail(s)) \subseteq ToSet(s) \ {Head(s)}
    BY <1>1 DEF ToSet, IsInjective
  <1>4. ASSUME NEW x \in ToSet(s), x # Head(s) PROVE x \in ToSet(Tail(s))
    <2>1. PICK i \in 1..Len(s) : x = s[i]
      BY <1>1 DEF ToSet
    <2>2. i - 1 \in 1..(Len(s) - 1) /\ Tail(s)[i - 1] = x
      BY <1>1, <1>4, <2>1
    <2>. QED
      BY <1>1, <2>2 DEF ToSet
  <1>5. Head(s) \in ToSet(s) /\ Head(s) \in Nat
    BY <1>1, ElementOfSeq DEF ToSet
  <1>. QED
    BY <1>1, <1>2, <1>3, <1>4, <1>5

LEMMA AppendIs ==
  ASSUME NEW S, NEW s \in Seq(S), NEW x
  PROVE  /\ Append(s, x) \in Seq(S \cup {x})
         /\ ToSet(Append(s, x)) = ToSet(s) \cup {x}
         /\ x \notin ToSet(s) /\ IsInjective(s) => IsInjective(Append(s, x))
  <1>1. s \in Seq(S \cup {x})
    BY SeqMonotonic
  <1>2. /\ Len(s) \in Nat /\ DOMAIN s = 1..Len(s)
        /\ Append(s, x) \in Seq(S \cup {x}) /\ DOMAIN Append(s, x) = 1..(Len(s) + 1)
        /\ \A i \in 1..Len(s) : Append(s, x)[i] = s[i]
        /\ Append(s, x)[Len(s) + 1] = x
    BY <1>1, AppendProperties, LenProperties
  <1>3. 1..(Len(s) + 1) = (1..Len(s)) \cup {Len(s) + 1} /\ Len(s) + 1 \notin 1..Len(s)
    BY <1>2
  <1>4. ToSet(Append(s, x)) = ToSet(s) \cup {x}
    BY <1>2, <1>3 DEF ToSet
  <1>5. x \notin ToSet(s) /\ IsInjective(s) => IsInjective(Append(s, x))
    BY <1>2, <1>3 DEF ToSet, IsInjective
  <1>. QED
    BY <1>2, <1>4, <1>5

(* A list of a directory has all of its files, once each.                   *)
LEMMA ListIs ==
  ASSUME NEW S, Numbered(S), NEW s \in SetToSeqs(S)
  PROVE  s \in Seq(Nat) /\ IsInjective(s) /\ ToSet(s) = S
  <1>. DEFINE n == Cardinality(S)
  <1>1. n \in Nat /\ IsFiniteSet(S) /\ S \subseteq Nat
    BY FS_CardinalityType DEF Numbered
  <1>2. s \in [1..n -> S] /\ IsInjective(s)
    BY DEF SetToSeqs, IsInjective
  <1>3. Cardinality(1..n) = n
    BY <1>1, FS_Interval
  <1>4. s \in Injection(1..n, S)
    BY <1>2 DEF Injection
  <1>5. s \in Surjection(1..n, S)
    BY <1>1, <1>3, <1>4, FS_Injection
  <1>6. ToSet(s) = S
    BY <1>2, <1>5 DEF Surjection, ToSet
  <1>7. s \in Seq(Nat)
    <2>1. s \in [1..n -> Nat]
      BY <1>1, <1>2
    <2>. QED
      BY <1>1, <2>1, SeqDef
  <1>. QED
    BY <1>2, <1>6, <1>7

-----------------------------------------------------------------------------
(* What a step does to the files, and to the budget.                       *)

(* Calls fail or the process is killed.                                     *)
OneKind == MaxFailures = 0 \/ MaxKills = 0

LEMMA Budget ==
  ASSUME RepairAssumption, OneKind, Shape, Works \/ Fails \/ Failure
  PROVE  /\ found' = found /\ found' \in Starts /\ kills' = kills
         /\ failures' \in 0..MaxFailures /\ kills' \in 0..MaxKills
         /\ failures' = 0 => failures = 0
         /\ Fails \/ Failure => failures' # 0 /\ MaxFailures # 0 /\ MaxKills = 0
         /\ Works \/ Fails => misread' = misread /\ risked' = risked
         /\ InDamaged' = InDamaged /\ ToSave' = ToSave /\ Excused' = Excused
  <1>1. /\ found' = found /\ kills' = kills
        /\ failures' = failures \/ Failure
        /\ Fails => Failure
        /\ Works \/ Fails => misread' = misread /\ risked' = risked
    BY DEF Works, Fails, Failure, budget, history
  <1>2. Failure => failures < MaxFailures /\ failures' = failures + 1
    BY DEF Failure
  <1>3. MaxFailures \in Nat /\ MaxKills \in Nat /\ failures \in 0..MaxFailures /\ kills \in 0..MaxKills /\ found \in Starts
    BY DEF RepairAssumption, Shape
  <1>4. InDamaged' = InDamaged /\ ToSave' = ToSave /\ Excused' = Excused
    BY <1>1 DEF InDamaged, ToSave, Excused
  <1>. QED
    BY <1>1, <1>2, <1>3, <1>4 DEF OneKind

LEMMA TablesChanged ==
  ASSUME NEW d, IsDir(d), NEW x, NEW c, c = [d EXCEPT !.tables = x]
  PROVE  /\ IsDir(c) /\ c.tables = x /\ c.logs = d.logs
         /\ c.manifests = d.manifests /\ c.new = d.new /\ c.current = d.current
  BY DEF IsDir

LEMMA LogsChanged ==
  ASSUME NEW d, IsDir(d), NEW x, NEW c, c = [d EXCEPT !.logs = x]
  PROVE  /\ IsDir(c) /\ c.logs = x /\ c.tables = d.tables
         /\ c.manifests = d.manifests /\ c.new = d.new /\ c.current = d.current
  BY DEF IsDir

LEMMA LostChanged ==
  ASSUME NEW d, IsLost(d), NEW x
  PROVE  /\ \A c : c = [d EXCEPT !.tables = x] => IsLost(c) /\ c.tables = x /\ c.logs = d.logs
         /\ \A c : c = [d EXCEPT !.logs = x] => IsLost(c) /\ c.logs = x /\ c.tables = d.tables
  BY DEF IsLost

LEMMA TableAdded ==
  ASSUME Shape, NEW n, NEW t, dir' = [dir EXCEPT !.tables = With(@, n, t)]
  PROVE  /\ IsDir(dir')
         /\ dir'.logs = dir.logs /\ dir'.manifests = dir.manifests /\ dir'.new = dir.new
         /\ dir'.current = dir.current
         /\ DOMAIN dir'.tables = DOMAIN dir.tables \cup {n}
         /\ dir'.tables[n] = t
         /\ \A m \in DOMAIN dir.tables : m # n => dir'.tables[m] = dir.tables[m]
  <1>1. PICK f : f = With(dir.tables, n, t)
    OBVIOUS
  <1>2. dir' = [dir EXCEPT !.tables = f]
    BY <1>1
  <1>3. DOMAIN f = DOMAIN dir.tables \cup {n} /\ f[n] = t /\ \A m \in DOMAIN dir.tables : m # n => f[m] = dir.tables[m]
    BY <1>1 DEF With
  <1>. QED
    BY <1>2, <1>3, TablesChanged, LogsChanged DEF Shape

LEMMA TableRemoved ==
  ASSUME Shape, NEW n, dir' = [dir EXCEPT !.tables = Without(@, n)]
  PROVE  /\ IsDir(dir')
         /\ dir'.logs = dir.logs /\ dir'.manifests = dir.manifests /\ dir'.new = dir.new
         /\ dir'.current = dir.current
         /\ DOMAIN dir'.tables = DOMAIN dir.tables \ {n}
         /\ \A m \in DOMAIN dir.tables : m # n => dir'.tables[m] = dir.tables[m]
  <1>1. PICK f : f = Without(dir.tables, n)
    OBVIOUS
  <1>2. dir' = [dir EXCEPT !.tables = f]
    BY <1>1
  <1>3. DOMAIN f = DOMAIN dir.tables \ {n} /\ \A m \in DOMAIN dir.tables : m # n => f[m] = dir.tables[m]
    BY <1>1, WithoutIs
  <1>. QED
    BY <1>2, <1>3, TablesChanged, LogsChanged DEF Shape

LEMMA TableWritten ==
  ASSUME Shape, NEW n \in DOMAIN dir.tables, NEW t, dir' = [dir EXCEPT !.tables[n] = t]
  PROVE  /\ IsDir(dir')
         /\ dir'.logs = dir.logs /\ dir'.manifests = dir.manifests /\ dir'.new = dir.new
         /\ dir'.current = dir.current
         /\ DOMAIN dir'.tables = DOMAIN dir.tables \cup {n}
         /\ dir'.tables[n] = t
         /\ \A m \in DOMAIN dir.tables : m # n => dir'.tables[m] = dir.tables[m]
  <1>1. PICK f : f = [dir.tables EXCEPT ![n] = t]
    OBVIOUS
  <1>2. dir' = [dir EXCEPT !.tables = f]
    BY <1>1
  <1>3. DOMAIN f = DOMAIN dir.tables \cup {n} /\ f[n] = t /\ \A m \in DOMAIN dir.tables : m # n => f[m] = dir.tables[m]
    BY <1>1
  <1>. QED
    BY <1>2, <1>3, TablesChanged, LogsChanged DEF Shape

LEMMA CopyRenamed ==
  ASSUME Shape, dir' = [dir EXCEPT !.tables = With(Without(@, copy.number), copy.from, Whole(copy.gives))]
  PROVE  /\ IsDir(dir') /\ dir'.logs = dir.logs
         /\ DOMAIN dir'.tables = (DOMAIN dir.tables \ {copy.number}) \cup {copy.from}
         /\ dir'.tables[copy.from] = Whole(copy.gives)
         /\ \A m \in DOMAIN dir.tables : m # copy.number /\ m # copy.from => dir'.tables[m] = dir.tables[m]
  <1>1. PICK k, n, t : k = copy.number /\ n = copy.from /\ t = Whole(copy.gives)
    OBVIOUS
  <1>2. PICK f : f = Without(dir.tables, k)
    OBVIOUS
  <1>3. PICK g : g = With(f, n, t)
    OBVIOUS
  <1>4. dir' = [dir EXCEPT !.tables = g]
    BY <1>1, <1>2, <1>3
  <1>5. DOMAIN f = DOMAIN dir.tables \ {k} /\ \A m \in DOMAIN dir.tables : m # k => f[m] = dir.tables[m]
    BY <1>2, WithoutIs
  <1>6. DOMAIN g = DOMAIN f \cup {n} /\ g[n] = t /\ \A m \in DOMAIN f : m # n => g[m] = f[m]
    BY <1>3 DEF With
  <1>7. /\ DOMAIN g = (DOMAIN dir.tables \ {k}) \cup {n}
        /\ \A m \in DOMAIN dir.tables : m # k /\ m # n => g[m] = dir.tables[m]
    BY <1>5, <1>6
  <1>8. IsDir(dir') /\ dir'.tables = g /\ dir'.logs = dir.logs
    <2>1. IsDir(dir)
      BY DEF Shape
    <2>. QED
      BY <1>4, <2>1, TablesChanged
  <1>. QED
    BY <1>1, <1>6, <1>7, <1>8

(* A table that is moved to lost, where there is none of its number.        *)
LEMMA TableMoved ==
  ASSUME Shape, NEW n, ArchiveTable(n)
  PROVE  /\ IsDir(dir')
         /\ dir'.logs = dir.logs /\ dir'.manifests = dir.manifests /\ dir'.new = dir.new
         /\ dir'.current = dir.current
         /\ DOMAIN dir'.tables = DOMAIN dir.tables \ {n}
         /\ \A m \in DOMAIN dir.tables : m # n => dir'.tables[m] = dir.tables[m]
         /\ IsLost(lost') /\ lost'.logs = lost.logs
         /\ DOMAIN lost'.tables = DOMAIN lost.tables \cup {n}
         /\ lost'.tables[n] = dir.tables[n]
         /\ \A m \in DOMAIN lost.tables : m # n => lost'.tables[m] = lost.tables[m]
  <1>1. dir' = [dir EXCEPT !.tables = Without(@, n)]
    BY DEF ArchiveTable
  <1>2. PICK f : f = With(lost.tables, n, dir.tables[n])
    OBVIOUS
  <1>3. lost' = [lost EXCEPT !.tables = f]
    BY <1>2 DEF ArchiveTable
  <1>4. /\ DOMAIN f = DOMAIN lost.tables \cup {n} /\ f[n] = dir.tables[n]
        /\ \A m \in DOMAIN lost.tables : m # n => f[m] = lost.tables[m]
    BY <1>2 DEF With
  <1>5. IsLost(lost') /\ lost'.tables = f /\ lost'.logs = lost.logs
    BY <1>3, LostChanged DEF Shape
  <1>. QED
    BY <1>1, <1>4, <1>5, TableRemoved

LEMMA LogMoved ==
  ASSUME Shape, NEW n, ArchiveLog(n)
  PROVE  /\ IsDir(dir')
         /\ dir'.tables = dir.tables /\ dir'.manifests = dir.manifests /\ dir'.new = dir.new
         /\ dir'.current = dir.current
         /\ DOMAIN dir'.logs = DOMAIN dir.logs \ {n}
         /\ \A m \in DOMAIN dir.logs : m # n => dir'.logs[m] = dir.logs[m]
         /\ IsLost(lost') /\ lost'.tables = lost.tables
         /\ DOMAIN lost'.logs = DOMAIN lost.logs \cup {n}
         /\ lost'.logs[n] = dir.logs[n]
         /\ \A m \in DOMAIN lost.logs : m # n => lost'.logs[m] = lost.logs[m]
  <1>1. PICK f : f = With(lost.logs, n, dir.logs[n])
    OBVIOUS
  <1>2. PICK g : g = Without(dir.logs, n)
    OBVIOUS
  <1>3. lost' = [lost EXCEPT !.logs = f] /\ dir' = [dir EXCEPT !.logs = g]
    BY <1>1, <1>2 DEF ArchiveLog
  <1>4. /\ DOMAIN f = DOMAIN lost.logs \cup {n} /\ f[n] = dir.logs[n]
        /\ \A m \in DOMAIN lost.logs : m # n => f[m] = lost.logs[m]
    BY <1>1 DEF With
  <1>5. DOMAIN g = DOMAIN dir.logs \ {n} /\ \A m \in DOMAIN dir.logs : m # n => g[m] = dir.logs[m]
    BY <1>2, WithoutIs
  <1>. QED
    BY <1>3, <1>4, <1>5, TablesChanged, LogsChanged, LostChanged DEF Shape

-----------------------------------------------------------------------------
(* The beginning.                                                          *)

LEMMA NothingListed ==
  /\ <<>> \in Seq(Nat) /\ IsInjective(<<>>) /\ ToSet(<<>>) = {}
  /\ \A S : <<>> \in Seq(S)
  BY EmptySeq DEF IsInjective, ToSet

LEMMA InitHolds ==
  ASSUME RepairAssumption, Init
  PROVE  IInv
  <1>1. /\ dir.logs = found.logs /\ dir.tables = found.tables /\ found \in Starts
        /\ lost.logs = <<>> /\ lost.tables = <<>>
        /\ copy.gives = {} /\ copy.seen = {} /\ copy.number = 0
    BY DEF Init, NoTable
  <1>2. DOMAIN lost.logs = {} /\ DOMAIN lost.tables = {}
    BY <1>1
  <1>3. logs = <<>> /\ numbers = <<>> /\ tables = <<>> /\ pc = "find" /\ result = "none" /\ next = 1
        /\ failures = 0 /\ kills = 0
    BY DEF Init
  <1>4. Shape
    BY <1>3 DEF Init, Shape, IsDir, IsLost, RepairAssumption
  <1>5. Typed
    BY <1>1, <1>2, <1>3, ReadableEmpty DEF Typed, RepairAssumption
  <1>6. Listed
    BY <1>3, NothingListed DEF Listed
  <1>14. Staged
    BY <1>3 DEF Staged, Copying, Converting
  <1>7. Fresh /\ Owned /\ Decided
    BY <1>3 DEF Fresh, Owned, Decided, Converting, Copying, Ending, Repaired
  <1>8. FromTable
    BY <1>1, <1>3 DEF FromTable, Copying, InDamaged
  <1>9. Infos
    <2>1. MaxSeqs = {} /\ ToSet(tables) = {} /\ InfoNums = {}
      BY <1>3, NothingListed DEF MaxSeqs, Maxima, InfoNums
    <2>. QED
      BY <1>3, <2>1, NothingListed, FS_EmptySet DEF Infos, Numbered
  <1>10. NoneReplaced
    BY <1>2, <1>3, NothingListed DEF NoneReplaced
  <1>11. \A e \in ToSave : (\E n \in DOMAIN dir.logs : e \in dir.logs[n].whole)
                         \/ (\E n \in DOMAIN dir.tables : e \in dir.tables[n].gives)
    BY <1>1, LoggedIs, GivenIs DEF ToSave
  <1>12. Kept
    BY <1>11, KeptIs DEF Somewhere
  <1>13. AllHeld
    BY <1>3, <1>11 DEF AllHeld, Held, ToDo, ToKeep
  <1>. QED
    BY <1>4, <1>5, <1>6, <1>7, <1>8, <1>9, <1>10, <1>12, <1>13, <1>14 DEF IInv

-----------------------------------------------------------------------------
(* Steps that leave the files alone.                                       *)

(* A repair that gives up.                                                  *)
LEMMA ErrorKeeps ==
  ASSUME RepairAssumption, OneKind, IInv, Fails, pc' = "done", result' = "error",
         pc \in {"find", "logs", "scan", "manifests", "install", "current"},
         UNCHANGED memory, UNCHANGED lost,
         IsDir(dir'), dir'.logs = dir.logs, dir'.tables = dir.tables
  PROVE  IInv'
  <1>. USE DEF memory
  <1>1. /\ found' \in Starts /\ failures' \in 0..MaxFailures /\ kills' \in 0..MaxKills
        /\ failures' # 0 /\ MaxFailures # 0
        /\ misread' = misread /\ risked' = risked
        /\ InDamaged' = InDamaged /\ found' = found
    BY Budget DEF IInv
  <1>2. Shape'
    BY <1>1 DEF IInv, Shape
  <1>3. Typed' /\ Fresh' /\ Staged'
    BY DEF IInv, Typed, Fresh, Staged, Copying, Converting
  <1>4. Listed'
    BY DEF IInv, Listed, Moved
  <1>5. Owned' /\ Decided'
    BY DEF Owned, Decided, Ending, Repaired, Copying, Converting
  <1>6. FromTable'
    BY <1>1 DEF IInv, FromTable, Copying
  <1>7. Infos'
    BY <1>1 DEF IInv, Infos, MaxSeqs, InfoNums
  <1>8. NoneReplaced'
    BY <1>1 DEF IInv, NoneReplaced, Moved
  <1>9. Kept'
    BY <1>1, KeptStays DEF IInv, Somewhere
  <1>10. AllHeld'
    BY <1>1 DEF AllHeld
  <1>. QED
    BY <1>2, <1>3, <1>4, <1>5, <1>6, <1>7, <1>8, <1>9, <1>10 DEF IInv

LEMMA FindFilesKeeps ==
  ASSUME RepairAssumption, OneKind, IInv, FindFiles
  PROVE  IInv'
  <1>. DEFINE Found == /\ Works /\ pc' = "logs"
                       /\ logs' \in SetToSeqs(DOMAIN dir.logs) /\ numbers' \in SetToSeqs(DOMAIN dir.tables)
                       /\ next' = MaxOf(DOMAIN dir.logs \cup DOMAIN dir.tables) + 1
                       /\ UNCHANGED result
  <1>1. ASSUME Fails, pc' = "done", result' = "error", UNCHANGED <<logs, numbers, next>>
        PROVE  IInv'
    <2>1. pc = "find" /\ UNCHANGED memory /\ dir' = dir /\ lost' = lost /\ IsDir(dir)
      BY <1>1 DEF FindFiles, memory, IInv, Shape
    <2>. QED
      BY <1>1, <2>1, ErrorKeeps DEF IsDir
  <1>2. ASSUME Found PROVE IInv'
    <2>1. /\ pc = "find" /\ pc' = "logs" /\ UNCHANGED <<dir, lost, tables, copy, result>>
          /\ logs' \in SetToSeqs(DOMAIN dir.logs) /\ numbers' \in SetToSeqs(DOMAIN dir.tables)
          /\ next' = MaxOf(DOMAIN dir.logs \cup DOMAIN dir.tables) + 1
      BY <1>2 DEF FindFiles
    <2>2. /\ found' = found /\ found' \in Starts /\ kills' = kills /\ failures' = failures
          /\ failures' \in 0..MaxFailures /\ kills' \in 0..MaxKills
          /\ misread' = misread /\ risked' = risked
          /\ InDamaged' = InDamaged /\ ToSave' = ToSave /\ Excused' = Excused
      BY <1>2, Budget DEF IInv, Works, budget
    <2>3. /\ logs' \in Seq(Nat) /\ IsInjective(logs') /\ ToSet(logs') = DOMAIN dir.logs
          /\ numbers' \in Seq(Nat) /\ IsInjective(numbers') /\ ToSet(numbers') = DOMAIN dir.tables
      BY <2>1, ListIs DEF IInv, Typed
    <2>4. /\ next' \in Nat
          /\ \A n \in DOMAIN dir.logs \cup DOMAIN dir.tables : n \in Nat /\ n < next'
      <3>. DEFINE D == DOMAIN dir.logs \cup DOMAIN dir.tables
      <3>1. Numbered(D)
        BY NumberedUnion DEF IInv, Typed
      <3>2. MaxOf(D) \in Nat /\ \A n \in D : n <= MaxOf(D) /\ n \in Nat
        BY <3>1, MaxOfIs DEF Numbered
      <3>3. next' = MaxOf(D) + 1
        BY <2>1
      <3>. HIDE DEF D
      <3>4. next' \in Nat /\ \A n \in D : n \in Nat /\ n < next'
        BY <3>2, <3>3
      <3>. QED
        BY <3>4 DEF D
    <2>5. \A m \in DOMAIN lost.tables : m < next'
      <3>. TAKE m \in DOMAIN lost.tables
      <3>1. MaxKills # 0 /\ MaxFailures = 0
        BY <2>1 DEF IInv, NoneReplaced, OneKind
      <3>2. CASE m \in DOMAIN dir.tables
        BY <2>4, <3>2
      <3>3. CASE m \notin DOMAIN dir.tables
        <4>1. PICK c \in DOMAIN dir.tables : m < c
          BY <2>1, <3>1, <3>3 DEF IInv, NoneReplaced, Taken
        <4>2. m \in Nat /\ c \in Nat /\ c < next'
          BY <2>4 DEF IInv, Typed
        <4>. QED
          BY <2>4, <4>1, <4>2
      <3>. QED
        BY <3>2, <3>3
    <2>6. Shape' /\ Typed'
      BY <2>1, <2>2, <2>4 DEF IInv, Shape, Typed
    <2>7. Listed'
      BY <2>1, <2>3 DEF Listed, Moved
    <2>8. Staged'
      BY <2>1 DEF IInv, Staged, Converting, Copying
    <2>9. Fresh'
      BY <2>1, <2>4, <2>5 DEF Fresh
    <2>10. Owned' /\ Decided'
      BY <2>1 DEF Owned, Decided, Converting, Copying, Ending, Repaired, IInv, Staged
    <2>11. FromTable'
      BY <2>1, <2>2 DEF IInv, FromTable, Copying
    <2>12. Infos'
      <3>1. tables = <<>> /\ ToSet(tables) = {} /\ InfoNums' = {}
        BY <2>1, NothingListed DEF IInv, Staged, InfoNums
      <3>. QED
        BY <2>1, <2>2, <3>1 DEF IInv, Infos, MaxSeqs
    <2>13. NoneReplaced'
      <3>1. MaxKills = 0 => DOMAIN lost.tables = {}
        BY <2>1 DEF IInv, NoneReplaced
      <3>2. \A m : Taken(m) => Taken(m)'
        BY <2>1 DEF Taken, Copying
      <3>. QED
        BY <2>1, <3>1, <3>2 DEF IInv, NoneReplaced
    <2>14. Kept'
      BY <2>1, <2>2, KeptStays DEF IInv, Somewhere
    <2>15. AllHeld'
      <3>1. ToDo' = ToDo /\ ToKeep \subseteq ToKeep'
        BY <2>1, <2>3 DEF ToDo, ToKeep
      <3>2. \A e : Held(e) => Held(e)'
        BY <2>1, <3>1 DEF Held, Moved
      <3>. QED
        BY <2>1, <2>2, <3>2 DEF IInv, AllHeld
    <2>. QED
      BY <2>6, <2>7, <2>8, <2>9, <2>10, <2>11, <2>12, <2>13, <2>14, <2>15 DEF IInv
  <1>. QED
    BY <1>1, <1>2 DEF FindFiles

-----------------------------------------------------------------------------
(* Logs.                                                                   *)

LEMMA OpenLogKeeps ==
  ASSUME RepairAssumption, OneKind, IInv, OpenLog
  PROVE  IInv'
  <1>1. /\ pc = "logs" /\ logs # <<>> /\ result = "none"
        /\ UNCHANGED <<dir, lost, result, logs, numbers, tables>>
        /\ Works \/ Fails
    BY DEF OpenLog, IInv, Staged
  <1>2. PICK h : h = Head(logs) /\ h \in Nat /\ h \in DOMAIN dir.logs
    BY <1>1, TailIs DEF IInv, Listed
  <1>3. PICK entries : entries = ReadLog(dir.logs[h]) /\ Readable(entries)
    BY <1>2, ReadableUnion DEF ReadLog, IInv, Typed
  <1>. DEFINE Read(got) == /\ next' = next + 1
                           /\ (Works /\ got = entries) \/ Fails
                           /\ pc' = (IF got = {} THEN "archive_log" ELSE "create_table")
                           /\ copy' = [number |-> next, from |-> h, gives |-> got, seen |-> {}]
  <1>4. \/ \E got \in SUBSET entries : Read(got)
        \/ Fails /\ pc' = "archive_log" /\ UNCHANGED <<copy, next>>
    BY <1>2, <1>3 DEF OpenLog
  <1>5. /\ pc' \in {"archive_log", "create_table"}
        /\ pc' = "create_table" => copy'.number = next /\ next < next'
        /\ next \in Nat /\ next' \in Nat /\ next <= next'
        /\ copy'.number \in Nat /\ Readable(copy'.gives) /\ Readable(copy'.seen)
    <2>1. next \in Nat /\ next + 1 \in Nat /\ next < next + 1 /\ next <= next
          /\ copy.number \in Nat /\ Readable(copy.gives) /\ Readable(copy.seen)
      BY DEF IInv, Typed
    <2>2. ASSUME NEW got \in SUBSET entries, Read(got)
          PROVE  /\ pc' \in {"archive_log", "create_table"}
                 /\ copy'.number = next /\ next < next' /\ next' \in Nat
                 /\ Readable(copy'.gives) /\ Readable(copy'.seen)
      <3>1. Readable(got) /\ Readable({})
        BY <1>3, ReadablePart, ReadableEmpty
      <3>. QED
        BY <2>1, <2>2, <3>1
    <2>3. CASE Fails /\ pc' = "archive_log" /\ UNCHANGED <<copy, next>>
      BY <2>1, <2>3
    <2>. QED
      BY <1>4, <2>1, <2>2, <2>3
  <1>6. /\ found' = found /\ found' \in Starts /\ kills' = kills
        /\ failures' \in 0..MaxFailures /\ kills' \in 0..MaxKills
        /\ failures' = 0 => failures = 0 /\ ~Fails
        /\ misread' = misread /\ risked' = risked
        /\ InDamaged' = InDamaged /\ ToSave' = ToSave /\ Excused' = Excused
    BY <1>1, Budget DEF IInv
  <1>7. Shape' /\ Typed'
    BY <1>1, <1>3, <1>5, <1>6 DEF IInv, Shape, Typed
  <1>8. Listed' /\ Staged'
    BY <1>1, <1>5 DEF IInv, Listed, Staged, Moved, Converting, Copying
  <1>9. \A n \in DOMAIN dir.logs \cup DOMAIN dir.tables \cup DOMAIN lost.tables : n \in Nat /\ n < next
    BY <1>1 DEF IInv, Fresh, Typed, Numbered
  <1>10. Fresh'
    <2>1. \A n \in Nat : n < next => n < next'
      BY <1>5
    <2>. QED
      BY <1>1, <1>9, <2>1 DEF Fresh
  <1>11. Owned'
    <2>1. next \notin DOMAIN lost.tables \cup DOMAIN dir.tables
      <3>1. ~(next < next)
        BY <1>5
      <3>. QED
        BY <1>9, <3>1
    <2>2. ToSet(numbers) \subseteq DOMAIN dir.tables /\ InfoNums \subseteq DOMAIN dir.tables /\ InfoNums' = InfoNums
      BY <1>1 DEF IInv, Listed, Infos, InfoNums, Moved
    <2>. QED
      BY <1>1, <1>5, <2>1, <2>2 DEF Owned, Converting, Copying
  <1>12. FromTable' /\ Infos' /\ Decided'
    <2>1. FromTable'
      BY <1>1, <1>5, <1>6 DEF IInv, FromTable, Copying
    <2>2. Infos'
      BY <1>1, <1>6 DEF IInv, Infos, MaxSeqs, InfoNums
    <2>3. Decided'
      BY <1>1, <1>5 DEF Decided, Ending, Repaired
    <2>. QED
      BY <2>1, <2>2, <2>3
  <1>13. NoneReplaced'
    <2>1. \A m : Taken(m) => Taken(m)'
      BY <1>1, <1>5 DEF Taken, Copying
    <2>. QED
      BY <1>1, <1>5, <2>1 DEF IInv, NoneReplaced, Moved
  <1>14. Kept'
    BY <1>1, <1>6, KeptStays DEF IInv, Somewhere
  <1>15. AllHeld'
    <2>1. ToDo' = ToDo /\ ToKeep' = ToKeep
      BY <1>1, <1>5 DEF ToDo, ToKeep, InfoNums
    <2>2. \A e : Held(e) => Held(e)'
      BY <1>1, <2>1 DEF Held, Moved
    <2>3. SUFFICES ASSUME failures' = 0 PROVE AllHeld'
      BY DEF AllHeld
    <2>4. pc' = "create_table" => copy'.gives = ReadLog(dir.logs[h])
      <3>1. pc' = "create_table" => copy'.gives = entries
        BY <1>4, <1>6, <2>3
      <3>. QED
        BY <1>3, <3>1 DEF ReadLog
    <2>5. pc' = "archive_log" => dir.logs[h].whole = {}
      BY <1>3, <1>4, <1>6, <2>3 DEF ReadLog
    <2>. QED
      BY <1>1, <1>2, <1>5, <1>6, <2>2, <2>3, <2>4, <2>5 DEF IInv, AllHeld
  <1>. QED
    BY <1>7, <1>8, <1>10, <1>11, <1>12, <1>13, <1>14, <1>15 DEF IInv

(* A new table, for a log or for a copy, has nothing yet.                   *)
LEMMA UnfinishedIs ==
  Unfinished.gives = {} /\ \A entries : Whole(entries).gives = entries /\ Whole(entries).ends
  BY DEF Unfinished, Whole

LEMMA CreateTableKeeps ==
  ASSUME RepairAssumption, OneKind, IInv, CreateTable
  PROVE  IInv'
  <1>. DEFINE k == copy.number
  <1>1. /\ pc = "create_table" /\ UNCHANGED memory /\ lost' = lost /\ result' = result /\ result = "none"
        /\ Works \/ Fails
        /\ \/ Works /\ pc' = "finish_table" /\ dir' = [dir EXCEPT !.tables = With(@, k, Unfinished)]
           \/ Fails /\ pc' = "archive_log" /\ dir' = dir
    BY DEF CreateTable, Goto, IInv, Staged
  <1>2. /\ found' = found /\ found' \in Starts /\ kills' = kills
        /\ failures' \in 0..MaxFailures /\ kills' \in 0..MaxKills
        /\ failures' = 0 => failures = 0 /\ ~Fails
        /\ misread' = misread /\ risked' = risked
        /\ InDamaged' = InDamaged /\ ToSave' = ToSave /\ Excused' = Excused
    BY <1>1, Budget DEF IInv
  <1>3. /\ k \in Nat /\ k < next
        /\ k \notin DOMAIN dir.tables /\ k \notin DOMAIN lost.tables
        /\ k \notin ToSet(numbers) /\ k \notin InfoNums
    BY <1>1 DEF IInv, Owned, Typed, Converting
  <1>4. /\ IsDir(dir') /\ dir'.logs = dir.logs
        /\ DOMAIN dir.tables \subseteq DOMAIN dir'.tables /\ DOMAIN dir'.tables \subseteq DOMAIN dir.tables \cup {k}
        /\ \A m \in DOMAIN dir.tables : dir'.tables[m] = dir.tables[m]
        /\ k \in DOMAIN dir'.tables => dir'.tables[k] = Unfinished
        /\ pc' = "finish_table" => k \in DOMAIN dir'.tables
        /\ pc' = "archive_log" => Fails
    <2>1. CASE pc' = "finish_table"
      <3>1. dir' = [dir EXCEPT !.tables = With(@, k, Unfinished)]
        BY <1>1, <2>1
      <3>2. /\ IsDir(dir') /\ dir'.logs = dir.logs
            /\ DOMAIN dir'.tables = DOMAIN dir.tables \cup {k}
            /\ dir'.tables[k] = Unfinished
            /\ \A m \in DOMAIN dir.tables : m # k => dir'.tables[m] = dir.tables[m]
        BY <3>1, TableAdded DEF IInv
      <3>. QED
        BY <1>3, <2>1, <3>2
    <2>2. CASE pc' = "archive_log"
      BY <1>1, <1>3, <2>2 DEF IInv, Shape
    <2>. QED
      BY <1>1, <2>1, <2>2
  <1>. HIDE DEF k
  <1>5. Shape' /\ Typed'
    <2>1. Numbered(DOMAIN dir'.tables)
      BY <1>3, <1>4, NumberedAdd, NumberedPart DEF IInv, Typed
    <2>2. \A n \in DOMAIN dir'.tables : Readable(dir'.tables[n].gives)
      BY <1>4, UnfinishedIs, ReadableEmpty DEF IInv, Typed
    <2>. QED
      BY <1>1, <1>2, <1>4, <2>1, <2>2 DEF IInv, Shape, Typed, memory
  <1>6. Listed' /\ Staged'
    BY <1>1, <1>4 DEF IInv, Listed, Staged, Moved, Converting, Copying, memory
  <1>7. Fresh'
    BY <1>1, <1>3, <1>4 DEF IInv, Fresh, memory
  <1>8. InfoNums' = InfoNums /\ MaxSeqs' = MaxSeqs
    BY <1>1 DEF InfoNums, MaxSeqs, memory
  <1>9. Owned'
    BY <1>1, <1>3, <1>4, <1>8 DEF Owned, Converting, Copying, memory, k
  <1>10. FromTable' /\ Decided'
    <2>1. FromTable'
      BY <1>1, <1>2, <1>4, UnfinishedIs DEF IInv, FromTable, Copying
    <2>2. Decided'
      BY <1>1 DEF Decided, Ending, Repaired
    <2>. QED
      BY <2>1, <2>2
  <1>11. Infos'
    BY <1>1, <1>2, <1>4, <1>8 DEF IInv, Infos, memory
  <1>12. NoneReplaced'
    <2>1. \A m : Taken(m) => Taken(m)'
      BY <1>1, <1>4 DEF Taken, Copying
    <2>. QED
      BY <1>1, <1>3, <1>4, <2>1 DEF IInv, NoneReplaced, Moved, memory
  <1>13. Kept'
    <2>1. \A e : Somewhere(e) => Somewhere(e)'
      BY <1>1, <1>4 DEF Somewhere
    <2>. QED
      BY <1>2, <2>1, KeptStays DEF IInv
  <1>14. AllHeld'
    <2>1. ToDo' = ToDo /\ ToKeep \subseteq ToKeep' /\ ToKeep \subseteq DOMAIN dir.tables
      BY <1>1, <1>4, <1>8 DEF ToDo, ToKeep, memory
    <2>2. \A e : Held(e) => Held(e)'
      BY <1>1, <1>4, <2>1 DEF Held, Moved
    <2>. QED
      BY <1>1, <1>2, <1>4, <2>2 DEF IInv, AllHeld, memory
  <1>. QED
    BY <1>5, <1>6, <1>7, <1>9, <1>10, <1>11, <1>12, <1>13, <1>14 DEF IInv

LEMMA FinishTableKeeps ==
  ASSUME RepairAssumption, OneKind, IInv, FinishTable
  PROVE  IInv'
  <1>. DEFINE k == copy.number
  <1>1. /\ pc = "finish_table" /\ pc' = "archive_log" /\ result = "none"
        /\ UNCHANGED <<lost, result, logs, tables, next, copy>>
        /\ Works \/ Fails
        /\ \/ Works /\ dir' = [dir EXCEPT !.tables[k] = Whole(copy.gives)] /\ numbers' = Append(numbers, k)
           \/ Fails /\ dir' = [dir EXCEPT !.tables = Without(@, k)] /\ numbers' = numbers
    BY DEF FinishTable, Goto, IInv, Staged
  <1>2. /\ found' = found /\ found' \in Starts /\ kills' = kills
        /\ failures' \in 0..MaxFailures /\ kills' \in 0..MaxKills
        /\ failures' = 0 => failures = 0 /\ ~Fails
        /\ Fails => failures' # 0 /\ MaxFailures # 0
        /\ misread' = misread /\ risked' = risked
        /\ InDamaged' = InDamaged /\ ToSave' = ToSave /\ Excused' = Excused
    BY <1>1, Budget DEF IInv
  <1>3. /\ k \in Nat /\ k < next
        /\ k \in DOMAIN dir.tables /\ dir.tables[k] = Unfinished /\ k \notin DOMAIN lost.tables
        /\ k \notin ToSet(numbers) /\ k \notin InfoNums
    BY <1>1 DEF IInv, Owned, Typed, Converting
  <1>4. /\ IsDir(dir') /\ dir'.logs = dir.logs
        /\ \A m \in DOMAIN dir.tables : m # k => m \in DOMAIN dir'.tables /\ dir'.tables[m] = dir.tables[m]
        /\ DOMAIN dir'.tables \subseteq DOMAIN dir.tables
        /\ k \in DOMAIN dir'.tables => dir'.tables[k] = Whole(copy.gives)
    <2>1. CASE Works /\ dir' = [dir EXCEPT !.tables[k] = Whole(copy.gives)]
      <3>1. dir' = [dir EXCEPT !.tables[k] = Whole(copy.gives)]
        BY <2>1
      <3>2. /\ IsDir(dir') /\ dir'.logs = dir.logs
            /\ DOMAIN dir'.tables = DOMAIN dir.tables \cup {k}
            /\ dir'.tables[k] = Whole(copy.gives)
            /\ \A m \in DOMAIN dir.tables : m # k => dir'.tables[m] = dir.tables[m]
        BY <1>3, <3>1, TableWritten DEF IInv
      <3>. QED
        BY <1>3, <3>2
    <2>2. CASE Fails /\ dir' = [dir EXCEPT !.tables = Without(@, k)]
      <3>1. dir' = [dir EXCEPT !.tables = Without(@, k)]
        BY <2>2
      <3>2. /\ IsDir(dir') /\ dir'.logs = dir.logs
            /\ DOMAIN dir'.tables = DOMAIN dir.tables \ {k}
            /\ \A m \in DOMAIN dir.tables : m # k => dir'.tables[m] = dir.tables[m]
        BY <3>1, TableRemoved DEF IInv
      <3>. QED
        BY <3>2
    <2>. QED
      BY <1>1, <2>1, <2>2
  <1>5. \/ Works /\ numbers' = Append(numbers, k) /\ k \in DOMAIN dir'.tables
        \/ Fails /\ numbers' = numbers
    <2>1. CASE Works /\ dir' = [dir EXCEPT !.tables[k] = Whole(copy.gives)] /\ numbers' = Append(numbers, k)
      <3>1. dir' = [dir EXCEPT !.tables[k] = Whole(copy.gives)]
        BY <2>1
      <3>2. DOMAIN dir'.tables = DOMAIN dir.tables \cup {k}
        BY <1>3, <3>1, TableWritten DEF IInv
      <3>. QED
        BY <2>1, <3>2
    <2>. QED
      BY <1>1, <2>1
  <1>. HIDE DEF k
  <1>6. /\ numbers' \in Seq(Nat) /\ IsInjective(numbers')
        /\ ToSet(numbers) \subseteq ToSet(numbers') /\ ToSet(numbers') \subseteq ToSet(numbers) \cup {k}
        /\ k \in ToSet(numbers') => k \in DOMAIN dir'.tables
        /\ ~Fails => k \in ToSet(numbers')
    <2>1. numbers \in Seq(Nat) /\ IsInjective(numbers) /\ Nat \cup {k} = Nat
      BY <1>3 DEF IInv, Listed
    <2>2. CASE Works /\ numbers' = Append(numbers, k) /\ k \in DOMAIN dir'.tables
      BY <1>3, <2>1, <2>2, AppendIs
    <2>3. CASE Fails /\ numbers' = numbers
      BY <1>3, <2>1, <2>3
    <2>. QED
      BY <1>5, <2>2, <2>3
  <1>7. ToSet(numbers) \subseteq DOMAIN dir.tables
    BY <1>1 DEF IInv, Listed, Moved
  <1>8. InfoNums' = InfoNums /\ MaxSeqs' = MaxSeqs
    BY <1>1 DEF InfoNums, MaxSeqs
  <1>9. Shape' /\ Typed'
    <2>1. Numbered(DOMAIN dir'.tables)
      BY <1>4, NumberedPart DEF IInv, Typed
    <2>2. \A n \in DOMAIN dir'.tables : Readable(dir'.tables[n].gives)
      <3>1. TAKE n \in DOMAIN dir'.tables
      <3>2. (dir'.tables[n].gives = dir.tables[n].gives /\ n \in DOMAIN dir.tables) \/ dir'.tables[n].gives = copy.gives
        BY <1>4, UnfinishedIs
      <3>. QED
        BY <3>2 DEF IInv, Typed
    <2>. QED
      BY <1>1, <1>2, <1>4, <2>1, <2>2 DEF IInv, Shape, Typed
  <1>10. Listed' /\ Staged'
    <2>1. Listed'
      BY <1>1, <1>3, <1>4, <1>6, <1>7 DEF IInv, Listed, Moved
    <2>2. Staged'
      BY <1>1 DEF IInv, Staged, Converting, Copying
    <2>. QED
      BY <2>1, <2>2
  <1>11. Fresh' /\ Owned' /\ Decided'
    <2>1. Fresh'
      BY <1>1, <1>4 DEF IInv, Fresh
    <2>. QED
      BY <1>1, <2>1 DEF Owned, Decided, Converting, Copying, Ending, Repaired
  <1>12. FromTable'
    BY <1>1, <1>2, <1>4, UnfinishedIs DEF IInv, FromTable, Copying
  <1>13. Infos'
    <2>1. InfoNums \cap ToSet(numbers') = {}
      BY <1>3, <1>6 DEF IInv, Infos
    <2>2. \A t \in ToSet(tables) : t.number \in InfoNums
      BY DEF InfoNums
    <2>. QED
      BY <1>1, <1>2, <1>3, <1>4, <1>8, <2>1, <2>2 DEF IInv, Infos
  <1>14. NoneReplaced'
    <2>1. \A m : m # k /\ Taken(m) /\ MaxFailures = 0 => Taken(m)'
      BY <1>1, <1>2, <1>3, <1>4, <1>6, UnfinishedIs DEF Taken, Copying
    <2>. QED
      BY <1>1, <1>2, <1>3, <1>4, <1>6, <2>1 DEF IInv, NoneReplaced, Moved
  <1>15. Kept'
    <2>1. \A e : Somewhere(e) => Somewhere(e)'
      BY <1>1, <1>3, <1>4, UnfinishedIs DEF Somewhere
    <2>. QED
      BY <1>2, <2>1, KeptStays DEF IInv
  <1>16. AllHeld'
    <2>. SUFFICES ASSUME failures' = 0 PROVE AllHeld'
      BY DEF AllHeld
    <2>1. k \in ToSet(numbers') /\ k \in DOMAIN dir'.tables /\ dir'.tables[k].gives = copy.gives
      BY <1>2, <1>4, <1>6, UnfinishedIs
    <2>2. \A e : Held(e) => Held(e)'
      <3>1. ToDo' = ToDo /\ \A n \in ToKeep : n = k \/ n \in ToKeep'
        BY <1>1, <1>3, <1>4, <1>6, <1>8 DEF ToDo, ToKeep
      <3>. QED
        BY <1>1, <1>3, <1>4, <3>1, UnfinishedIs DEF Held, ToKeep, Moved
    <2>3. copy.gives = ReadLog(dir.logs[Head(logs)])
      BY <1>1, <1>2 DEF IInv, AllHeld
    <2>4. \A e \in dir.logs[Head(logs)].whole : \E n \in ToSet(numbers') : e \in dir'.tables[n].gives
      BY <2>1, <2>3 DEF ReadLog
    <2>. QED
      BY <1>1, <1>2, <1>4, <2>2, <2>4 DEF IInv, AllHeld
  <1>. QED
    BY <1>9, <1>10, <1>11, <1>12, <1>13, <1>14, <1>15, <1>16 DEF IInv

LEMMA LogArchivedKeeps ==
  ASSUME RepairAssumption, OneKind, IInv, LogArchived
  PROVE  IInv'
  <1>1. /\ pc = "archive_log" /\ pc' = "logs" /\ result = "none" /\ logs # <<>>
        /\ UNCHANGED <<result, numbers, tables, next>> /\ copy' = NoTable
        /\ Works \/ Fails
        /\ logs' = Tail(logs)
    BY DEF LogArchived, Goto, IInv, Staged, Converting
  <1>2. /\ found' = found /\ found' \in Starts /\ kills' = kills
        /\ failures' \in 0..MaxFailures /\ kills' \in 0..MaxKills
        /\ failures' = 0 => failures = 0
        /\ misread' = misread /\ risked' = risked
        /\ InDamaged' = InDamaged /\ ToSave' = ToSave /\ Excused' = Excused
    BY <1>1, Budget DEF IInv
  <1>3. PICK h : h = Head(logs)
    OBVIOUS
  <1>4. /\ logs' \in Seq(Nat) /\ IsInjective(logs') /\ ToSet(logs') = ToSet(logs) \ {h}
        /\ h \in ToSet(logs) /\ ToSet(logs) \subseteq DOMAIN dir.logs
    BY <1>1, <1>3, TailIs DEF IInv, Listed
  <1>5. /\ IsDir(dir') /\ dir'.tables = dir.tables /\ dir'.manifests = dir.manifests
        /\ DOMAIN dir'.logs \subseteq DOMAIN dir.logs
        /\ \A m \in DOMAIN dir.logs : m # h => m \in DOMAIN dir'.logs
        /\ \A m \in DOMAIN dir'.logs : dir'.logs[m] = dir.logs[m]
        /\ IsLost(lost') /\ lost'.tables = lost.tables
        /\ \A m \in DOMAIN lost.logs : m \in DOMAIN lost'.logs /\ lost'.logs[m] = lost.logs[m]
        /\ DOMAIN lost'.logs \subseteq DOMAIN lost.logs \cup (DOMAIN dir.logs \ DOMAIN dir'.logs)
        /\ h \in DOMAIN dir'.logs \/ (h \in DOMAIN lost'.logs /\ lost'.logs[h] = dir.logs[h])
    <2>1. h \notin DOMAIN lost.logs
      BY <1>4 DEF IInv, NoneReplaced
    <2>2. CASE ArchiveLog(h)
      <3>1. Shape
        BY DEF IInv
      <3>. QED
        BY <1>4, <2>1, <2>2, <3>1, LogMoved
    <2>3. CASE UNCHANGED <<dir, lost>>
      BY <1>4, <2>3 DEF IInv, Shape
    <2>4. ArchiveLog(h) \/ UNCHANGED <<dir, lost>>
      BY <1>3 DEF LogArchived
    <2>. QED
      BY <2>2, <2>3, <2>4
  <1>6. copy'.gives = {} /\ copy'.seen = {} /\ copy'.number = 0
    BY <1>1 DEF NoTable
  <1>7. InfoNums' = InfoNums /\ MaxSeqs' = MaxSeqs
    BY <1>1 DEF InfoNums, MaxSeqs
  <1>8. Shape' /\ Typed'
    <2>1. Numbered(DOMAIN dir'.logs)
      BY <1>5, NumberedPart DEF IInv, Typed
    <2>. QED
      BY <1>1, <1>2, <1>5, <1>6, <2>1, ReadableEmpty DEF IInv, Shape, Typed
  <1>9. Listed' /\ Staged'
    <2>1. Listed'
      BY <1>1, <1>4, <1>5 DEF IInv, Listed, Moved
    <2>2. Staged'
      BY <1>1 DEF IInv, Staged, Converting, Copying
    <2>. QED
      BY <2>1, <2>2
  <1>10. Fresh' /\ Owned' /\ Decided'
    <2>1. Fresh'
      BY <1>1, <1>5 DEF IInv, Fresh
    <2>. QED
      BY <1>1, <2>1 DEF Owned, Decided, Converting, Copying, Ending, Repaired
  <1>11. FromTable' /\ Infos'
    <2>1. FromTable'
      BY <1>1, <1>2, <1>5 DEF IInv, FromTable, Copying
    <2>2. Infos'
      BY <1>1, <1>2, <1>5, <1>7 DEF IInv, Infos
    <2>. QED
      BY <2>1, <2>2
  <1>12. NoneReplaced'
    <2>1. \A m : Taken(m) => Taken(m)'
      BY <1>1, <1>5 DEF Taken, Copying
    <2>2. DOMAIN lost'.logs \cap DOMAIN dir'.logs = {}
      BY <1>5 DEF IInv, NoneReplaced
    <2>. QED
      BY <1>1, <1>5, <2>1, <2>2 DEF IInv, NoneReplaced, Moved
  <1>13. Kept'
    <2>1. \A e : Somewhere(e) => Somewhere(e)'
      BY <1>5 DEF Somewhere
    <2>. QED
      BY <1>2, <2>1, KeptStays DEF IInv
  <1>14. AllHeld'
    <2>. SUFFICES ASSUME failures' = 0 PROVE AllHeld'
      BY DEF AllHeld
    <2>1. \A e \in dir.logs[h].whole : \E n \in ToSet(numbers) : e \in dir.tables[n].gives
      BY <1>1, <1>2, <1>3 DEF IInv, AllHeld
    <2>2. ToKeep' = ToKeep /\ ToSet(numbers) \subseteq ToKeep
      BY <1>1, <1>5, <1>7 DEF ToKeep, IInv, Listed, Moved
    <2>3. ToDo' = ToDo \ {h} /\ ToDo \subseteq DOMAIN dir.logs
      BY <1>1, <1>4 DEF ToDo
    <2>4. \A e : Held(e) => Held(e)'
      BY <1>1, <1>5, <2>1, <2>2, <2>3 DEF Held, Moved
    <2>. QED
      BY <1>1, <1>2, <2>4 DEF IInv, AllHeld
  <1>. QED
    BY <1>8, <1>9, <1>10, <1>11, <1>12, <1>13, <1>14 DEF IInv

-----------------------------------------------------------------------------
(* Tables.                                                                 *)

(* A table that has no damage is described.                                 *)
LEMMA InfoIs ==
  ASSUME NEW n, NEW entries, Readable(entries)
  PROVE  /\ Info(n, entries).number = n /\ Info(n, entries).keys = {e.key : e \in entries}
         /\ Info(n, entries).max_sequence \in Nat
         /\ \A e \in entries : e.seq <= Info(n, entries).max_sequence
  <1>1. MaxOf(Seqs(entries)) \in Nat /\ \A i \in Seqs(entries) : i <= MaxOf(Seqs(entries))
    BY MaxOfIs DEF Readable
  <1>2. \A e \in entries : e.seq \in Seqs(entries)
    BY DEF Seqs
  <1>. QED
    BY <1>1, <1>2 DEF Info

LEMMA InfoAdded ==
  ASSUME NEW s, s \in Seq(ToSet(s)), Numbered(Maxima(s)), NEW t, t.max_sequence \in Nat
  PROVE  /\ Append(s, t) \in Seq(ToSet(Append(s, t))) /\ ToSet(Append(s, t)) = ToSet(s) \cup {t}
         /\ Numbered(Maxima(Append(s, t)))
  <1>1. Append(s, t) \in Seq(ToSet(Append(s, t))) /\ ToSet(Append(s, t)) = ToSet(s) \cup {t}
    <2>1. Append(s, t) \in Seq(ToSet(s) \cup {t}) /\ ToSet(Append(s, t)) = ToSet(s) \cup {t}
      BY AppendIs
    <2>. QED
      BY <2>1
  <1>2. \A u : Maxima(u) = {x.max_sequence : x \in ToSet(u)}
    BY DEF ToSet, Maxima
  <1>3. Maxima(Append(s, t)) = Maxima(s) \cup {t.max_sequence}
    BY <1>1, <1>2
  <1>. QED
    BY <1>1, <1>3, NumberedAdd

(* A table scanned and found to have no damage.                             *)
LEMMA SoundKeeps ==
  ASSUME RepairAssumption, OneKind, IInv, Works, numbers # <<>>, pc' = "scan", UNCHANGED <<result, logs>>,
         (pc = "logs" /\ logs = <<>>) \/ pc = "scan",
         NEW n, n = Head(numbers), dir.tables[n].ends,
         numbers' = Tail(numbers), tables' = Append(tables, Info(n, dir.tables[n].gives)),
         UNCHANGED <<dir, lost, copy, next>>
  PROVE  IInv'
  <1>1. /\ found' = found /\ found' \in Starts /\ kills' = kills
        /\ failures' \in 0..MaxFailures /\ kills' \in 0..MaxKills
        /\ failures' = 0 => failures = 0
        /\ misread' = misread /\ risked' = risked
        /\ InDamaged' = InDamaged /\ ToSave' = ToSave /\ Excused' = Excused
    BY Budget DEF IInv
  <1>2. logs = <<>> /\ result = "none"
    BY DEF IInv, Staged
  <1>3. /\ numbers' \in Seq(Nat) /\ IsInjective(numbers') /\ ToSet(numbers') = ToSet(numbers) \ {n}
        /\ n \in ToSet(numbers) /\ ToSet(numbers) \subseteq DOMAIN dir.tables
    BY TailIs DEF IInv, Listed, Moved
  <1>4. PICK entries : entries = dir.tables[n].gives /\ Readable(entries)
    BY <1>3 DEF IInv, Typed
  <1>5. PICK t : /\ t = Info(n, entries)
                 /\ t.number = n /\ t.keys = {e.key : e \in entries} /\ t.max_sequence \in Nat
                 /\ \A e \in entries : e.seq <= t.max_sequence
    BY <1>4, InfoIs
  <1>6. tables \in Seq(ToSet(tables)) /\ Numbered(Maxima(tables)) /\ tables' = Append(tables, t)
    BY <1>4, <1>5 DEF IInv, Infos, MaxSeqs
  <1>7. tables' \in Seq(ToSet(tables')) /\ ToSet(tables') = ToSet(tables) \cup {t} /\ Numbered(Maxima(tables'))
    BY <1>5, <1>6, InfoAdded
  <1>8. InfoNums' = InfoNums \cup {n}
    BY <1>5, <1>7 DEF InfoNums
  <1>9. Shape' /\ Typed'
    BY <1>1 DEF IInv, Shape, Typed
  <1>10. Listed' /\ Staged'
    <2>1. Listed'
      BY <1>3 DEF IInv, Listed, Moved
    <2>2. Staged'
      BY <1>2 DEF IInv, Staged, Converting, Copying
    <2>. QED
      BY <2>1, <2>2
  <1>11. Fresh' /\ Owned' /\ Decided'
    <2>1. Fresh'
      BY <1>2 DEF IInv, Fresh
    <2>. QED
      BY <1>2, <2>1 DEF Owned, Decided, Converting, Copying, Ending, Repaired
  <1>12. FromTable'
    BY <1>1 DEF IInv, FromTable, Copying
  <1>13. Infos'
    <2>1. tables' \in Seq(ToSet(tables')) /\ Numbered(MaxSeqs')
      BY <1>7 DEF MaxSeqs
    <2>2. InfoNums' \cap ToSet(numbers') = {}
      BY <1>3, <1>8 DEF IInv, Infos
    <2>3. \A x \in ToSet(tables') : x \in ToSet(tables) \/ x = t
      BY <1>6, <1>7
    <2>. QED
      BY <1>1, <1>3, <1>4, <1>5, <2>1, <2>2, <2>3 DEF IInv, Infos
  <1>14. NoneReplaced'
    <2>1. \A m : Taken(m) => Taken(m)'
      BY DEF Taken, Copying
    <2>. QED
      BY <1>3, <2>1 DEF IInv, NoneReplaced, Moved
  <1>15. Kept'
    BY <1>1, KeptStays DEF IInv, Somewhere
  <1>16. AllHeld'
    <2>1. ToDo' = ToDo /\ ToKeep' = ToKeep
      BY <1>3, <1>8 DEF ToDo, ToKeep
    <2>2. \A e : Held(e) => Held(e)'
      BY <2>1 DEF Held, Moved
    <2>. QED
      BY <1>1, <2>2 DEF IInv, AllHeld
  <1>. QED
    BY <1>9, <1>10, <1>11, <1>12, <1>13, <1>14, <1>15, <1>16 DEF IInv

(* A table found to have damage, or a read of it failed: what was seen of   *)
(* it is got.                                                               *)
LEMMA DamageKeeps ==
  ASSUME RepairAssumption, OneKind, IInv, numbers # <<>>, pc' = "copy", UNCHANGED <<result, logs>>,
         (pc = "logs" /\ logs = <<>>) \/ pc = "scan",
         NEW n, n = Head(numbers), NEW got, got \subseteq dir.tables[n].gives,
         (Works /\ ~dir.tables[n].ends /\ got = dir.tables[n].gives) \/ Misses(n),
         copy' = [number |-> next, from |-> n, gives |-> dir.tables[n].gives, seen |-> got], next' = next + 1,
         UNCHANGED <<dir, lost, numbers, tables>>
  PROVE  IInv'
  <1>1. /\ found' = found /\ found' \in Starts /\ kills' = kills
        /\ failures' \in 0..MaxFailures /\ kills' \in 0..MaxKills
        /\ failures' = 0 => failures = 0 /\ ~dir.tables[n].ends
        /\ misread \subseteq misread' /\ misread' \subseteq misread \cup {n} /\ risked' = risked
        /\ n \notin misread' => got = dir.tables[n].gives
        /\ InDamaged' = InDamaged /\ ToSave' = ToSave /\ Excused' = Excused
    <2>1. Misses(n) => Failure /\ misread' = misread \cup {n} /\ risked' = risked
      BY DEF Misses
    <2>. QED
      BY <2>1, Budget DEF IInv
  <1>2. logs = <<>> /\ result = "none" /\ pc # "find"
    BY DEF IInv, Staged
  <1>3. n \in ToSet(numbers) /\ n \in Nat /\ ToSet(numbers) \subseteq DOMAIN dir.tables
    BY TailIs DEF IInv, Listed, Moved
  <1>4. /\ copy'.number = next /\ copy'.from = n /\ copy'.gives = dir.tables[n].gives /\ copy'.seen = got
        /\ next \in Nat /\ next' \in Nat /\ next < next' /\ ~(next < next)
    BY DEF IInv, Typed
  <1>5. \A m \in DOMAIN dir.logs \cup DOMAIN dir.tables \cup DOMAIN lost.tables : m \in Nat /\ m < next
    BY <1>2 DEF IInv, Fresh, Typed, Numbered
  <1>6. InfoNums' = InfoNums /\ InfoNums \subseteq DOMAIN dir.tables /\ MaxSeqs' = MaxSeqs
        /\ n \notin InfoNums /\ \A t \in ToSet(tables) : t.number \in InfoNums
    BY <1>3 DEF IInv, Infos, InfoNums, MaxSeqs
  <1>7. Shape' /\ Typed'
    <2>1. Readable(dir.tables[n].gives) /\ Readable(got)
      BY <1>3, ReadablePart DEF IInv, Typed
    <2>. QED
      BY <1>1, <1>4, <2>1 DEF IInv, Shape, Typed
  <1>8. Listed' /\ Staged'
    BY <1>2 DEF IInv, Listed, Staged, Moved, Converting, Copying
  <1>9. Fresh'
    <2>1. \A m \in Nat : m < next => m < next'
      BY <1>4
    <2>. QED
      BY <1>5, <2>1 DEF Fresh
  <1>10. Owned'
    <2>1. next \notin DOMAIN lost.tables \cup DOMAIN dir.tables
      BY <1>4, <1>5
    <2>. QED
      BY <1>3, <1>4, <1>6, <2>1 DEF Owned, Converting, Copying
  <1>11. FromTable'
    <2>1. ~dir.tables[n].ends => dir.tables[n].gives \subseteq InDamaged
      BY <1>3 DEF IInv, FromTable
    <2>. QED
      BY <1>1, <1>3, <1>4, <1>5, <2>1 DEF IInv, FromTable, Copying, Moved
  <1>12. Infos' /\ Decided'
    <2>1. Infos'
      BY <1>1, <1>6 DEF IInv, Infos
    <2>2. Decided'
      BY <1>2 DEF Decided, Ending, Repaired
    <2>. QED
      BY <2>1, <2>2
  <1>13. NoneReplaced'
    <2>1. \A m : Taken(m) => Taken(m)'
      <3>1. next \notin DOMAIN dir.tables
        BY <1>4, <1>5
      <3>. QED
        BY <1>4, <3>1 DEF Taken, Copying
    <2>. QED
      BY <1>2, <2>1 DEF IInv, NoneReplaced, Moved
  <1>14. Kept'
    BY <1>1, KeptStays DEF IInv, Somewhere
  <1>15. AllHeld'
    <2>1. ToDo' = ToDo /\ ToKeep' = ToKeep
      BY <1>2, <1>6 DEF ToDo, ToKeep
    <2>2. \A e : Held(e) => Held(e)'
      BY <2>1 DEF Held, Moved
    <2>. QED
      BY <1>1, <2>2 DEF IInv, AllHeld
  <1>. QED
    BY <1>7, <1>8, <1>9, <1>10, <1>11, <1>12, <1>13, <1>14, <1>15 DEF IInv

(* A table given up: its size could not be had, and it may have been moved. *)
LEMMA GivenUpKeeps ==
  ASSUME RepairAssumption, OneKind, IInv, Fails, numbers # <<>>, pc' = "scan", UNCHANGED <<result, logs>>,
         (pc = "logs" /\ logs = <<>>) \/ pc = "scan",
         NEW n, n = Head(numbers), numbers' = Tail(numbers),
         ArchiveTable(n) \/ UNCHANGED <<dir, lost>>,
         UNCHANGED <<tables, copy, next>>
  PROVE  IInv'
  <1>1. /\ found' = found /\ found' \in Starts /\ kills' = kills
        /\ failures' \in 0..MaxFailures /\ kills' \in 0..MaxKills
        /\ failures' # 0 /\ MaxFailures # 0 /\ MaxKills = 0
        /\ misread' = misread /\ risked' = risked
        /\ InDamaged' = InDamaged /\ ToSave' = ToSave
    BY Budget DEF IInv
  <1>2. logs = <<>> /\ result = "none" /\ pc # "find"
    BY DEF IInv, Staged
  <1>3. /\ numbers' \in Seq(Nat) /\ IsInjective(numbers') /\ ToSet(numbers') = ToSet(numbers) \ {n}
        /\ n \in ToSet(numbers) /\ ToSet(numbers) \subseteq DOMAIN dir.tables /\ n \in Nat
    BY TailIs DEF IInv, Listed, Moved
  <1>4. n \notin DOMAIN lost.tables
    BY <1>1, <1>3 DEF IInv, NoneReplaced, Moved
  <1>5. /\ IsDir(dir') /\ dir'.logs = dir.logs
        /\ DOMAIN dir'.tables \subseteq DOMAIN dir.tables
        /\ \A m \in DOMAIN dir.tables : m # n => m \in DOMAIN dir'.tables
        /\ \A m \in DOMAIN dir'.tables : dir'.tables[m] = dir.tables[m]
        /\ IsLost(lost') /\ lost'.logs = lost.logs
        /\ DOMAIN lost'.tables \subseteq DOMAIN lost.tables \cup {n}
        /\ \A m \in DOMAIN lost.tables : m \in DOMAIN lost'.tables /\ lost'.tables[m] = lost.tables[m]
        /\ n \in DOMAIN dir'.tables \/ (n \in DOMAIN lost'.tables /\ lost'.tables[n] = dir.tables[n])
    <2>1. CASE ArchiveTable(n)
      <3>1. Shape
        BY DEF IInv
      <3>. QED
        BY <1>4, <2>1, <3>1, TableMoved
    <2>2. CASE UNCHANGED <<dir, lost>>
      BY <1>3, <2>2 DEF IInv, Shape
    <2>. QED
      BY <2>1, <2>2
  <1>6. InfoNums' = InfoNums /\ MaxSeqs' = MaxSeqs /\ n \notin InfoNums
    BY <1>3 DEF InfoNums, MaxSeqs, IInv, Infos
  <1>7. Shape' /\ Typed'
    <2>1. Numbered(DOMAIN dir'.tables)
      BY <1>5, NumberedPart DEF IInv, Typed
    <2>. QED
      BY <1>1, <1>3, <1>5, <2>1 DEF IInv, Shape, Typed
  <1>8. Listed' /\ Staged'
    <2>1. Listed'
      BY <1>2, <1>3, <1>5 DEF IInv, Listed, Moved
    <2>2. Staged'
      BY <1>2 DEF IInv, Staged, Converting, Copying
    <2>. QED
      BY <2>1, <2>2
  <1>9. Fresh' /\ Owned' /\ Decided'
    <2>1. Fresh'
      BY <1>2, <1>3, <1>5 DEF IInv, Fresh
    <2>. QED
      BY <1>2, <2>1 DEF Owned, Decided, Converting, Copying, Ending, Repaired
  <1>10. FromTable'
    BY <1>1, <1>5 DEF IInv, FromTable, Copying
  <1>11. Infos'
    <2>1. \A t \in ToSet(tables) : t.number \in InfoNums
      BY DEF InfoNums
    <2>. QED
      BY <1>1, <1>3, <1>5, <1>6, <2>1 DEF IInv, Infos
  <1>12. NoneReplaced'
    BY <1>1, <1>2, <1>3, <1>5 DEF IInv, NoneReplaced, Moved
  <1>13. Kept'
    <2>1. \A e : Somewhere(e) => Somewhere(e)'
      BY <1>5 DEF Somewhere
    <2>. QED
      BY <1>1, <2>1, KeptStays DEF IInv
  <1>14. AllHeld'
    BY <1>1 DEF AllHeld
  <1>. QED
    BY <1>7, <1>8, <1>9, <1>10, <1>11, <1>12, <1>13, <1>14 DEF IInv

LEMMA ScanTableKeeps ==
  ASSUME RepairAssumption, OneKind, IInv, ScanTable
  PROVE  IInv'
  <1>1. PICK n : n = Head(numbers)
    OBVIOUS
  <1>2. /\ UNCHANGED <<result, logs>> /\ numbers # <<>>
        /\ (pc = "logs" /\ logs = <<>>) \/ pc = "scan"
    BY DEF ScanTable
  <1>3. \/ /\ Works /\ dir.tables[n].ends /\ pc' = "scan"
           /\ numbers' = Tail(numbers) /\ tables' = Append(tables, Info(n, dir.tables[n].gives))
           /\ UNCHANGED <<dir, lost, copy, next>>
        \/ /\ pc' = "copy" /\ next' = next + 1
           /\ \E got \in SUBSET dir.tables[n].gives :
                /\ (Works /\ ~dir.tables[n].ends /\ got = dir.tables[n].gives) \/ Misses(n)
                /\ copy' = [number |-> next, from |-> n, gives |-> dir.tables[n].gives, seen |-> got]
           /\ UNCHANGED <<dir, lost, numbers, tables>>
        \/ /\ Fails /\ pc' = "scan" /\ numbers' = Tail(numbers)
           /\ ArchiveTable(n) \/ UNCHANGED <<dir, lost>>
           /\ UNCHANGED <<tables, copy, next>>
    BY <1>1 DEF ScanTable
  <1>. QED
    BY <1>1, <1>2, <1>3, SoundKeeps, DamageKeeps, GivenUpKeeps

-----------------------------------------------------------------------------
(* Copying a table with damage.                                            *)

(* What is so while a table is copied.                                      *)
LEMMA WhileCopying ==
  ASSUME IInv, Copying
  PROVE  /\ logs = <<>> /\ result = "none" /\ pc # "find" /\ numbers # <<>>
         /\ copy.from = Head(numbers) /\ copy.from \in ToSet(numbers) /\ copy.from \in Nat /\ copy.number \in Nat
         /\ copy.from < copy.number /\ copy.from # copy.number /\ copy.number < next
         /\ Readable(copy.gives) /\ Readable(copy.seen)
         /\ failures = 0 => copy.gives \subseteq InDamaged
         /\ copy.number \notin DOMAIN lost.tables /\ copy.number \notin ToSet(numbers)
         /\ copy.number \notin InfoNums /\ copy.from \notin InfoNums
         /\ ToSet(numbers) \ {copy.from} \subseteq DOMAIN dir.tables
         /\ \A t \in ToSet(tables) : t.number \in InfoNums
         /\ copy.from \notin misread => copy.seen = copy.gives
         /\ IF copy.from \in DOMAIN dir.tables THEN copy.gives \subseteq dir.tables[copy.from].gives
            ELSE copy.from \in DOMAIN lost.tables /\ copy.gives \subseteq lost.tables[copy.from].gives
         /\ copy.from \in DOMAIN dir.tables =>
              /\ pc = "copy" \/ failures = 0 => dir.tables[copy.from].gives = copy.gives
              /\ Moved => dir.tables[copy.from].gives \ copy.gives \subseteq risked
  <1>1. logs = <<>> /\ result = "none" /\ pc # "find"
    BY DEF IInv, Staged, Copying
  <1>2. /\ numbers # <<>> /\ copy.from = Head(numbers) /\ copy.from < copy.number
        /\ failures = 0 => copy.gives \subseteq InDamaged
        /\ copy.from \notin misread => copy.seen = copy.gives
        /\ IF copy.from \in DOMAIN dir.tables THEN copy.gives \subseteq dir.tables[copy.from].gives
           ELSE copy.from \in DOMAIN lost.tables /\ copy.gives \subseteq lost.tables[copy.from].gives
        /\ copy.from \in DOMAIN dir.tables =>
             /\ pc = "copy" \/ failures = 0 => dir.tables[copy.from].gives = copy.gives
             /\ Moved => dir.tables[copy.from].gives \ copy.gives \subseteq risked
    BY DEF IInv, FromTable
  <1>3. copy.from \in ToSet(numbers) /\ copy.from \in Nat
    BY <1>2, TailIs DEF IInv, Listed
  <1>4. copy.number \in Nat /\ Readable(copy.gives) /\ Readable(copy.seen)
    BY DEF IInv, Typed
  <1>5. copy.from # copy.number
    BY <1>2, <1>3, <1>4
  <1>6. /\ copy.number < next /\ copy.number \notin DOMAIN lost.tables
        /\ copy.number \notin ToSet(numbers) /\ copy.number \notin InfoNums
    BY DEF IInv, Owned
  <1>7. copy.from \notin InfoNums /\ \A t \in ToSet(tables) : t.number \in InfoNums
    BY <1>3 DEF IInv, Infos, InfoNums
  <1>8. ToSet(numbers) \ {copy.from} \subseteq DOMAIN dir.tables
    BY DEF IInv, Listed
  <1>. QED
    BY <1>1, <1>2, <1>3, <1>4, <1>5, <1>6, <1>7, <1>8

(* The copy is given up, or it would be empty.                              *)
LEMMA CopyDoneKeeps ==
  ASSUME RepairAssumption, OneKind, IInv, Works \/ Fails, Copying, pc' = "scan",
         UNCHANGED <<lost, result, logs, tables, next>>, NextTable,
         IsDir(dir'), dir'.logs = dir.logs,
         \A m \in DOMAIN dir'.tables : m \in DOMAIN dir.tables /\ dir'.tables[m] = dir.tables[m],
         \A m \in DOMAIN dir.tables : m # copy.number \/ pc # "delete_copy" => m \in DOMAIN dir'.tables,
         Fails \/ pc = "delete_copy" \/ (pc = "finish_copy" /\ copy.gives = {})
  PROVE  IInv'
  <1>1. /\ found' = found /\ found' \in Starts /\ kills' = kills
        /\ failures' \in 0..MaxFailures /\ kills' \in 0..MaxKills
        /\ failures' = 0 => failures = 0 /\ ~Fails
        /\ Fails => failures' # 0 /\ MaxFailures # 0
        /\ misread' = misread /\ risked' = risked
        /\ InDamaged' = InDamaged /\ ToSave' = ToSave /\ Excused' = Excused
    BY Budget DEF IInv
  <1>2. pc = "delete_copy" => failures # 0 /\ MaxFailures # 0
    BY DEF IInv, Staged, Shape, RepairAssumption
  <1>3. MaxFailures = 0 \/ failures' = 0 => pc = "finish_copy" /\ copy.gives = {}
    BY <1>1, <1>2
  <1>4. PICK n, k : n = copy.from /\ k = copy.number
    OBVIOUS
  <1>5. /\ logs = <<>> /\ result = "none" /\ pc # "find" /\ numbers # <<>>
        /\ n = Head(numbers) /\ n \in ToSet(numbers) /\ n \in Nat /\ k \in Nat
        /\ n < k /\ n # k
        /\ k \notin DOMAIN lost.tables /\ k \notin ToSet(numbers) /\ k \notin InfoNums /\ n \notin InfoNums
        /\ ToSet(numbers) \ {n} \subseteq DOMAIN dir.tables
        /\ \A t \in ToSet(tables) : t.number \in InfoNums
        /\ IF n \in DOMAIN dir.tables THEN copy.gives \subseteq dir.tables[n].gives
           ELSE n \in DOMAIN lost.tables /\ copy.gives \subseteq lost.tables[n].gives
        /\ n \in DOMAIN dir.tables /\ failures = 0 => dir.tables[n].gives = copy.gives
    BY <1>4, WhileCopying
  <1>6. /\ numbers' \in Seq(Nat) /\ IsInjective(numbers') /\ ToSet(numbers') = ToSet(numbers) \ {n}
        /\ copy' = NoTable /\ copy'.gives = {} /\ copy'.seen = {} /\ copy'.number = 0
    BY <1>5, TailIs DEF IInv, Listed, NextTable, NoTable
  <1>7. InfoNums' = InfoNums /\ MaxSeqs' = MaxSeqs
    BY DEF InfoNums, MaxSeqs
  <1>8. Shape' /\ Typed'
    <2>1. Numbered(DOMAIN dir'.tables)
      BY NumberedPart DEF IInv, Typed
    <2>. QED
      BY <1>1, <1>6, <2>1, ReadableEmpty DEF IInv, Shape, Typed
  <1>9. Listed' /\ Staged'
    <2>1. Listed'
      BY <1>4, <1>5, <1>6 DEF IInv, Listed, Moved
    <2>2. Staged'
      BY <1>5 DEF IInv, Staged, Converting, Copying
    <2>. QED
      BY <2>1, <2>2
  <1>10. Fresh' /\ Owned' /\ Decided'
    <2>1. Fresh'
      BY <1>5 DEF IInv, Fresh
    <2>. QED
      BY <1>5, <2>1 DEF Owned, Decided, Converting, Copying, Ending, Repaired
  <1>11. FromTable'
    BY <1>1 DEF IInv, FromTable, Copying
  <1>12. Infos'
    <2>1. \A t \in ToSet(tables) : t.number \in DOMAIN dir'.tables /\ dir'.tables[t.number] = dir.tables[t.number]
      BY <1>4, <1>5 DEF IInv, Infos
    <2>. QED
      BY <1>1, <1>6, <1>7, <2>1 DEF IInv, Infos
  <1>13. NoneReplaced'
    <2>1. MaxFailures = 0 => n < k /\ k \in DOMAIN dir'.tables /\ dir'.tables[k].gives = {}
      BY <1>3, <1>4, <1>5, UnfinishedIs DEF IInv, Owned
    <2>2. MaxFailures = 0 => Taken(n)'
      BY <2>1 DEF Taken, Copying
    <2>3. ASSUME NEW m, Taken(m), MaxFailures = 0 PROVE Taken(m)'
      <3>1. PICK c \in DOMAIN dir.tables : m < c /\ (dir.tables[c].ends \/ dir.tables[c].gives = {})
        BY <2>3 DEF Taken
      <3>2. c \in DOMAIN dir'.tables /\ dir'.tables[c] = dir.tables[c]
        BY <1>3, <2>3
      <3>. QED
        BY <3>1, <3>2 DEF Taken, Copying
    <2>4. MaxFailures = 0 => \A m \in DOMAIN lost.tables :
            IF m \in DOMAIN dir'.tables THEN dir'.tables[m].ends ELSE Taken(m)'
      BY <1>3, <1>4, <2>2, <2>3 DEF IInv, NoneReplaced
    <2>5. MaxKills = 0 => DOMAIN lost.tables \cap ToSet(numbers') = {}
      BY <1>4, <1>6 DEF IInv, NoneReplaced
    <2>. QED
      BY <2>4, <2>5 DEF IInv, NoneReplaced
  <1>14. Kept'
    <2>1. ASSUME NEW e, Somewhere(e) PROVE Somewhere(e)'
      <3>1. CASE \E m \in DOMAIN dir.tables : e \in dir.tables[m].gives
        <4>1. PICK m \in DOMAIN dir.tables : e \in dir.tables[m].gives
          BY <3>1
        <4>2. CASE m \in DOMAIN dir'.tables
          BY <4>1, <4>2 DEF Somewhere
        <4>3. CASE m \notin DOMAIN dir'.tables
          <5>1. m = k /\ pc = "delete_copy"
            BY <1>4, <4>3
          <5>2. e \in copy.gives
            BY <1>4, <4>1, <5>1, UnfinishedIs DEF IInv, Owned, Copying
          <5>3. n \in DOMAIN dir.tables => n \in DOMAIN dir'.tables
            BY <1>4, <1>5
          <5>. QED
            BY <1>5, <5>2, <5>3 DEF Somewhere
        <4>. QED
          BY <4>2, <4>3
      <3>. QED
        BY <2>1, <3>1 DEF Somewhere
    <2>. QED
      BY <1>1, <2>1, KeptStays DEF IInv
  <1>15. AllHeld'
    <2>. SUFFICES ASSUME failures' = 0 PROVE AllHeld'
      BY DEF AllHeld
    <2>1. ToDo' = ToDo /\ \A m \in ToKeep : m = n \/ m \in ToKeep'
      BY <1>3, <1>5, <1>6, <1>7 DEF ToDo, ToKeep
    <2>2. n \in DOMAIN dir.tables => dir.tables[n].gives = {}
      BY <1>1, <1>3, <1>5
    <2>3. \A e : Held(e) => Held(e)'
      BY <1>3, <2>1, <2>2 DEF Held, ToKeep
    <2>. QED
      BY <1>1, <2>3 DEF IInv, AllHeld
  <1>. QED
    BY <1>8, <1>9, <1>10, <1>11, <1>12, <1>13, <1>14, <1>15 DEF IInv

(* A copy that could not be written is to be deleted.                       *)
LEMMA CopyFailedKeeps ==
  ASSUME RepairAssumption, OneKind, IInv, Fails, pc \in {"finish_copy", "rename_copy"}, pc' = "delete_copy",
         UNCHANGED <<dir, lost, result, memory>>
  PROVE  IInv'
  <1>. USE DEF memory
  <1>1. /\ found' = found /\ found' \in Starts /\ kills' = kills
        /\ failures' \in 0..MaxFailures /\ kills' \in 0..MaxKills
        /\ failures' # 0 /\ MaxFailures # 0 /\ MaxKills = 0
        /\ misread' = misread /\ risked' = risked
        /\ InDamaged' = InDamaged /\ ToSave' = ToSave
    BY Budget DEF IInv
  <1>2. InfoNums' = InfoNums /\ MaxSeqs' = MaxSeqs
    BY DEF InfoNums, MaxSeqs
  <1>3. Shape' /\ Typed' /\ Listed' /\ Infos'
    BY <1>1, <1>2 DEF IInv, Shape, Typed, Listed, Moved, Infos
  <1>4. Staged'
    BY <1>1 DEF IInv, Staged, Converting, Copying
  <1>5. Fresh' /\ Decided'
    BY DEF IInv, Fresh, Staged, Decided, Ending, Repaired
  <1>6. Owned'
    BY <1>2 DEF IInv, Owned, Converting, Copying
  <1>7. FromTable'
    BY <1>1 DEF IInv, FromTable, Copying, Moved
  <1>8. NoneReplaced'
    BY <1>1 DEF IInv, NoneReplaced, Moved
  <1>9. Kept' /\ AllHeld'
    BY <1>1, KeptStays DEF IInv, Somewhere, AllHeld
  <1>. QED
    BY <1>3, <1>4, <1>5, <1>6, <1>7, <1>8, <1>9 DEF IInv

LEMMA CreateCopyKeeps ==
  ASSUME RepairAssumption, OneKind, IInv, CreateCopy
  PROVE  IInv'
  <1>1. /\ pc = "copy" /\ UNCHANGED <<lost, result, logs, tables, next>>
        /\ \/ /\ pc' = "archive_table" /\ dir' = [dir EXCEPT !.tables = With(@, copy.number, Unfinished)]
              /\ \E got \in SUBSET copy.gives :
                   /\ (Works /\ got = copy.gives) \/ Misses(copy.from)
                   /\ copy' = [number |-> copy.number, from |-> copy.from, gives |-> got, seen |-> copy.seen]
              /\ UNCHANGED numbers
           \/ Fails /\ pc' = "scan" /\ dir' = dir /\ NextTable
    BY DEF CreateCopy, Goto
  <1>2. Copying
    BY <1>1 DEF Copying
  <1>3. CASE Fails /\ pc' = "scan" /\ dir' = dir /\ NextTable
    <2>1. IsDir(dir') /\ dir'.logs = dir.logs /\ dir'.tables = dir.tables
      BY <1>3 DEF IInv, Shape
    <2>. QED
      BY <1>1, <1>2, <1>3, <2>1, CopyDoneKeeps
  <1>4. ASSUME NEW got \in SUBSET copy.gives, (Works /\ got = copy.gives) \/ Misses(copy.from),
               copy' = [number |-> copy.number, from |-> copy.from, gives |-> got, seen |-> copy.seen], UNCHANGED numbers,
               pc' = "archive_table", dir' = [dir EXCEPT !.tables = With(@, copy.number, Unfinished)]
        PROVE  IInv'
    <2>1. PICK n, k : n = copy.from /\ k = copy.number
      OBVIOUS
    <2>2. dir' = [dir EXCEPT !.tables = With(@, k, Unfinished)]
      BY <1>4, <2>1
    <2>3. /\ found' = found /\ found' \in Starts /\ kills' = kills
          /\ failures' \in 0..MaxFailures /\ kills' \in 0..MaxKills
          /\ failures' = 0 => failures = 0 /\ got = copy.gives
          /\ misread \subseteq misread' /\ misread' \subseteq misread \cup {n} /\ risked' = risked
          /\ n \notin misread' => got = copy.gives
          /\ InDamaged' = InDamaged /\ ToSave' = ToSave /\ Excused' = Excused
      <3>1. Misses(n) => Failure /\ misread' = misread \cup {n} /\ risked' = risked
        BY DEF Misses
      <3>. QED
        BY <1>4, <2>1, <3>1, Budget DEF IInv
    <2>4. /\ logs = <<>> /\ result = "none" /\ numbers # <<>>
          /\ n = Head(numbers) /\ n \in ToSet(numbers) /\ n # k /\ k \in Nat /\ k < next
          /\ k \notin DOMAIN lost.tables /\ k \notin ToSet(numbers) /\ k \notin InfoNums /\ n \notin InfoNums
          /\ Readable(copy.gives) /\ Readable(copy.seen)
          /\ n \notin misread => copy.seen = copy.gives
          /\ n \in DOMAIN dir.tables => dir.tables[n].gives = copy.gives
          /\ n < k
          /\ failures = 0 => copy.gives \subseteq InDamaged
          /\ \A t \in ToSet(tables) : t.number \in InfoNums
      BY <1>1, <1>2, <2>1, WhileCopying
    <2>16. copy'.gives = got /\ copy'.seen = copy.seen /\ copy'.from = n /\ copy'.number = k /\ Readable(got)
      <3>1. Readable(got)
        BY <2>4, ReadablePart
      <3>. QED
        BY <1>4, <2>1, <3>1
    <2>5. k \notin DOMAIN dir.tables /\ n \in DOMAIN dir.tables /\ ToSet(numbers) \subseteq DOMAIN dir.tables
      BY <1>1, <1>2, <2>1 DEF IInv, Owned, FromTable, Listed, Moved
    <2>6. /\ IsDir(dir') /\ dir'.logs = dir.logs
          /\ DOMAIN dir'.tables = DOMAIN dir.tables \cup {k}
          /\ dir'.tables[k] = Unfinished
          /\ \A m \in DOMAIN dir.tables : dir'.tables[m] = dir.tables[m]
      <3>1. /\ IsDir(dir') /\ dir'.logs = dir.logs
            /\ DOMAIN dir'.tables = DOMAIN dir.tables \cup {k}
            /\ dir'.tables[k] = Unfinished
            /\ \A m \in DOMAIN dir.tables : m # k => dir'.tables[m] = dir.tables[m]
        BY <2>2, TableAdded DEF IInv
      <3>. QED
        BY <2>5, <3>1
    <2>7. InfoNums' = InfoNums /\ MaxSeqs' = MaxSeqs
      BY <1>1 DEF InfoNums, MaxSeqs
    <2>8. Shape' /\ Typed'
      <3>1. Numbered(DOMAIN dir'.tables)
        BY <2>4, <2>6, NumberedAdd DEF IInv, Typed
      <3>2. \A m \in DOMAIN dir'.tables : Readable(dir'.tables[m].gives)
        BY <2>6, UnfinishedIs, ReadableEmpty DEF IInv, Typed
      <3>. QED
        BY <1>1, <1>4, <2>3, <2>4, <2>6, <2>16, <3>1, <3>2 DEF IInv, Shape, Typed
    <2>9. Listed' /\ Staged'
      BY <1>1, <1>4, <2>4, <2>5, <2>6, <2>16 DEF IInv, Listed, Staged, Moved, Converting, Copying
    <2>10. Fresh' /\ Owned' /\ Decided'
      <3>1. Fresh'
        BY <1>1, <2>4, <2>6 DEF IInv, Fresh
      <3>2. Owned'
        BY <1>1, <1>4, <2>1, <2>4, <2>6, <2>7, <2>16 DEF Owned, Converting, Copying
      <3>3. Decided'
        BY <1>1, <1>4, <2>4 DEF Decided, Ending, Repaired
      <3>. QED
        BY <3>1, <3>2, <3>3
    <2>11. FromTable'
      <3>1. /\ \A m \in DOMAIN dir.tables : ~dir.tables[m].ends => dir.tables[m].gives \subseteq InDamaged
            /\ failures = 0 => ~dir.tables[n].ends
        BY <1>1, <1>2, <2>1 DEF IInv, FromTable
      <3>2. n \notin misread' => n \notin misread
        BY <2>3
      <3>. QED
        BY <1>1, <1>4, <2>3, <2>4, <2>5, <2>6, <2>16, <3>1, <3>2, UnfinishedIs DEF FromTable, Copying, Moved
    <2>12. Infos'
      <3>1. \A t \in ToSet(tables) : t.number # n /\ (t.number \notin misread' => t.number \notin misread)
        BY <2>3, <2>4
      <3>. QED
        BY <1>1, <1>4, <2>6, <2>7, <3>1 DEF IInv, Infos
    <2>13. NoneReplaced'
      <3>1. \A m : Taken(m) => Taken(m)'
        BY <1>1, <1>2, <1>4, <2>1, <2>4, <2>5, <2>6, <2>16 DEF Taken, Copying
      <3>. QED
        BY <1>1, <1>4, <2>4, <2>6, <2>16, <3>1 DEF IInv, NoneReplaced, Moved
    <2>14. Kept'
      <3>1. \A e : Somewhere(e) => Somewhere(e)'
        BY <1>1, <2>6 DEF Somewhere
      <3>. QED
        BY <2>3, <3>1, KeptStays DEF IInv
    <2>15. AllHeld'
      <3>1. ToDo' = ToDo /\ ToKeep \subseteq ToKeep'
        BY <1>1, <1>4, <2>6, <2>7 DEF ToDo, ToKeep
      <3>2. \A e : Held(e) => Held(e)'
        BY <1>1, <1>4, <2>6, <3>1 DEF Held, ToKeep, Moved
      <3>. QED
        BY <1>4, <2>3, <3>2 DEF IInv, AllHeld
    <2>. QED
      BY <2>8, <2>9, <2>10, <2>11, <2>12, <2>13, <2>14, <2>15 DEF IInv
  <1>. QED
    BY <1>1, <1>3, <1>4

(* The table is in lost before its copy is finished: no file of lost is     *)
(* replaced by it, and if nothing could be read of it the copy is empty.    *)
LEMMA TableArchivedKeeps ==
  ASSUME RepairAssumption, OneKind, IInv, TableArchived
  PROVE  IInv'
  <1>. USE DEF memory
  <1>1. /\ pc = "archive_table" /\ pc' = "finish_copy" /\ UNCHANGED <<result, memory>>
        /\ Works \/ Failure
        /\ \/ Works /\ ArchiveTable(copy.from)
           \/ /\ Failure /\ UNCHANGED <<dir, lost, misread>>
              /\ risked' = risked \cup (dir.tables[copy.from].gives \ copy.gives)
    BY DEF TableArchived, Goto
  <1>2. Copying
    BY <1>1 DEF Copying
  <1>3. PICK n, k : n = copy.from /\ k = copy.number
    OBVIOUS
  <1>4. /\ found' = found /\ found' \in Starts /\ kills' = kills
        /\ failures' \in 0..MaxFailures /\ kills' \in 0..MaxKills
        /\ failures' = 0 => failures = 0
        /\ Failure => MaxFailures # 0
        /\ misread' = misread /\ risked \subseteq risked'
        /\ InDamaged' = InDamaged /\ ToSave' = ToSave /\ Excused' = Excused
    BY <1>1, Budget DEF IInv
  <1>5. /\ logs = <<>> /\ result = "none" /\ numbers # <<>>
        /\ n = Head(numbers) /\ n \in ToSet(numbers) /\ n \in Nat /\ n < k /\ n # k /\ k \in Nat /\ k < next
        /\ k \notin DOMAIN lost.tables /\ k \notin ToSet(numbers) /\ k \notin InfoNums /\ n \notin InfoNums
        /\ ToSet(numbers) \ {n} \subseteq DOMAIN dir.tables
        /\ \A t \in ToSet(tables) : t.number \in InfoNums
    BY <1>2, <1>3, WhileCopying
  <1>6. /\ n \in DOMAIN dir.tables /\ copy.gives \subseteq dir.tables[n].gives
        /\ failures = 0 => ~dir.tables[n].ends /\ dir.tables[n].gives = copy.gives
        /\ MaxFailures = 0 => failures = 0
        /\ failures = 0 => copy.gives \subseteq InDamaged
        /\ n \notin misread => copy.seen = copy.gives
        /\ k \in DOMAIN dir.tables /\ dir.tables[k] = Unfinished
    <2>1. k \in DOMAIN dir.tables /\ dir.tables[k] = Unfinished
      BY <1>1, <1>2, <1>3 DEF IInv, Owned
    <2>2. n \in DOMAIN dir.tables /\ (failures = 0 => ~dir.tables[n].ends)
      BY <1>1, <1>2, <1>3 DEF IInv, FromTable
    <2>3. MaxFailures = 0 => failures = 0
      BY DEF IInv, Shape
    <2>. QED
      BY <1>2, <1>3, <2>1, <2>2, <2>3, WhileCopying
  <1>7. n \notin DOMAIN lost.tables
    <2>1. CASE MaxKills = 0
      BY <1>1, <1>5, <2>1 DEF IInv, NoneReplaced, Moved
    <2>2. CASE MaxFailures = 0
      BY <1>6, <2>2 DEF IInv, NoneReplaced
    <2>. QED
      BY <2>1, <2>2 DEF OneKind
  <1>8. /\ IsDir(dir') /\ dir'.logs = dir.logs /\ IsLost(lost') /\ lost'.logs = lost.logs
        /\ \A m \in DOMAIN dir'.tables : m \in DOMAIN dir.tables
        /\ \A m \in DOMAIN dir.tables : m # n => m \in DOMAIN dir'.tables
        /\ \A m \in DOMAIN dir'.tables : dir'.tables[m] = dir.tables[m]
        /\ \A m \in DOMAIN lost.tables : m \in DOMAIN lost'.tables /\ lost'.tables[m] = lost.tables[m]
        /\ DOMAIN lost'.tables \subseteq DOMAIN lost.tables \cup {n}
        /\ n \notin DOMAIN dir'.tables => n \in DOMAIN lost'.tables /\ lost'.tables[n] = dir.tables[n]
        /\ n \in DOMAIN dir'.tables =>
             /\ MaxFailures # 0 /\ DOMAIN lost'.tables = DOMAIN lost.tables /\ failures' # 0
             /\ dir.tables[n].gives \ copy.gives \subseteq risked'
    <2>1. CASE ArchiveTable(n)
      <3>1. Shape
        BY DEF IInv
      <3>. QED
        BY <1>6, <1>7, <2>1, <3>1, TableMoved
    <2>2. CASE /\ Failure /\ UNCHANGED <<dir, lost>>
               /\ risked' = risked \cup (dir.tables[n].gives \ copy.gives)
      <3>1. dir.tables[n].gives \ copy.gives \subseteq risked' /\ failures' # 0
        BY <1>4, <2>2, Budget DEF IInv
      <3>. QED
        BY <1>4, <1>6, <2>2, <3>1 DEF IInv, Shape
    <2>. QED
      BY <1>1, <1>3, <2>1, <2>2
  <1>9. InfoNums' = InfoNums /\ MaxSeqs' = MaxSeqs
    BY <1>1 DEF InfoNums, MaxSeqs
  <1>10. Shape' /\ Typed'
    <2>1. Numbered(DOMAIN dir'.tables)
      BY <1>8, NumberedPart DEF IInv, Typed
    <2>2. DOMAIN lost'.tables \subseteq Nat
      BY <1>5, <1>8 DEF IInv, Typed
    <2>. QED
      BY <1>1, <1>4, <1>8, <2>1, <2>2 DEF IInv, Shape, Typed
  <1>11. Listed' /\ Staged'
    <2>1. Listed'
      BY <1>1, <1>3, <1>5, <1>8 DEF IInv, Listed, Moved
    <2>2. Staged'
      BY <1>1, <1>5 DEF IInv, Staged, Converting, Copying
    <2>. QED
      BY <2>1, <2>2
  <1>12. Fresh' /\ Owned' /\ Decided'
    <2>1. Fresh'
      BY <1>1, <1>6, <1>8 DEF IInv, Fresh
    <2>2. Owned'
      BY <1>1, <1>3, <1>5, <1>6, <1>8, <1>9 DEF Owned, Converting, Copying
    <2>3. Decided'
      BY <1>1, <1>5 DEF Decided, Ending, Repaired
    <2>. QED
      BY <2>1, <2>2, <2>3
  <1>13. FromTable'
    <2>1. \A m \in DOMAIN dir.tables : ~dir.tables[m].ends => dir.tables[m].gives \subseteq InDamaged
      BY DEF IInv, FromTable
    <2>. QED
      BY <1>1, <1>3, <1>4, <1>5, <1>6, <1>8, <2>1 DEF FromTable, Copying, Moved
  <1>14. Infos'
    <2>1. \A t \in ToSet(tables) : t.number \in DOMAIN dir'.tables /\ dir'.tables[t.number] = dir.tables[t.number]
      BY <1>5, <1>8 DEF IInv, Infos
    <2>. QED
      BY <1>1, <1>4, <1>9, <2>1 DEF IInv, Infos
  <1>15. NoneReplaced'
    <2>1. MaxKills = 0 => DOMAIN lost'.tables \cap ToSet(numbers) \subseteq {n}
      BY <1>1, <1>8 DEF IInv, NoneReplaced, Moved
    <2>2. ASSUME MaxFailures = 0, NEW m \in DOMAIN lost'.tables, m # n
          PROVE  IF m \in DOMAIN dir'.tables THEN dir'.tables[m].ends ELSE Taken(m)'
      <3>1. m \in DOMAIN lost.tables
        BY <1>8, <2>2
      <3>2. CASE m \in DOMAIN dir.tables
        BY <1>8, <2>2, <3>1, <3>2 DEF IInv, NoneReplaced
      <3>3. CASE m \notin DOMAIN dir.tables
        <4>1. PICK c \in DOMAIN dir.tables :
                /\ m < c /\ (dir.tables[c].ends \/ dir.tables[c].gives = {})
                /\ ~(c = k /\ copy.gives # {})
          BY <1>1, <1>2, <1>3, <2>2, <3>1, <3>3 DEF IInv, NoneReplaced, Taken
        <4>2. CASE c # n
          <5>1. c \in DOMAIN dir'.tables /\ dir'.tables[c] = dir.tables[c]
            BY <1>8, <4>2
          <5>. QED
            BY <1>1, <1>3, <1>8, <3>3, <4>1, <5>1 DEF Taken
        <4>3. CASE c = n
          <5>1. copy.gives = {}
            BY <1>6, <2>2, <4>1, <4>3
          <5>2. m \in Nat
            BY <3>1 DEF IInv, Typed
          <5>3. m < k
            BY <1>5, <4>1, <4>3, <5>2
          <5>4. k \in DOMAIN dir'.tables /\ dir'.tables[k].gives = {}
            BY <1>5, <1>6, <1>8, UnfinishedIs
          <5>. QED
            BY <1>1, <1>8, <3>3, <5>1, <5>3, <5>4 DEF Taken
        <4>. QED
          BY <4>2, <4>3
      <3>. QED
        BY <3>2, <3>3
    <2>3. ASSUME MaxFailures = 0 PROVE n \notin DOMAIN dir'.tables
      BY <1>8, <2>3
    <2>. QED
      BY <1>1, <1>3, <1>8, <2>1, <2>2, <2>3 DEF IInv, NoneReplaced, Moved
  <1>16. Kept'
    <2>1. \A e : Somewhere(e) => Somewhere(e)'
      BY <1>8 DEF Somewhere
    <2>. QED
      BY <1>4, <2>1, KeptStays DEF IInv
  <1>17. AllHeld'
    <2>. SUFFICES ASSUME failures' = 0 PROVE AllHeld'
      BY DEF AllHeld
    <2>1. ToDo' = ToDo /\ \A m \in ToKeep : m = n \/ m \in ToKeep'
      BY <1>1, <1>8, <1>9 DEF ToDo, ToKeep
    <2>2. \A e : Held(e) => Held(e)'
      BY <1>1, <1>4, <1>6, <1>8, <2>1 DEF Held, ToKeep, Moved
    <2>. QED
      BY <1>1, <1>4, <2>2 DEF IInv, AllHeld
  <1>. QED
    BY <1>10, <1>11, <1>12, <1>13, <1>14, <1>15, <1>16, <1>17 DEF IInv

LEMMA FinishCopyKeeps ==
  ASSUME RepairAssumption, OneKind, IInv, FinishCopy
  PROVE  IInv'
  <1>1. /\ pc = "finish_copy" /\ UNCHANGED <<lost, result, logs, tables, next>>
        /\ Works \/ Fails
        /\ \/ Works /\ copy.gives = {} /\ pc' = "scan" /\ NextTable /\ dir' = dir
           \/ /\ Works /\ copy.gives # {} /\ pc' = "rename_copy"
              /\ dir' = [dir EXCEPT !.tables[copy.number] = Whole(copy.gives)] /\ UNCHANGED <<numbers, copy>>
           \/ Fails /\ pc' = "delete_copy" /\ UNCHANGED <<dir, numbers, copy>>
    BY DEF FinishCopy
  <1>2. Copying
    BY <1>1 DEF Copying
  <1>3. CASE Works /\ copy.gives = {} /\ pc' = "scan" /\ NextTable /\ dir' = dir
    <2>1. IsDir(dir') /\ dir'.logs = dir.logs /\ dir'.tables = dir.tables
      BY <1>3 DEF IInv, Shape
    <2>. QED
      BY <1>1, <1>2, <1>3, <2>1, CopyDoneKeeps
  <1>4. CASE Fails /\ pc' = "delete_copy" /\ UNCHANGED <<dir, numbers, copy>>
    <2>1. UNCHANGED <<dir, lost, result, memory>>
      BY <1>1, <1>4 DEF memory
    <2>. QED
      BY <1>1, <1>4, <2>1, CopyFailedKeeps
  <1>5. CASE /\ Works /\ copy.gives # {} /\ pc' = "rename_copy"
             /\ dir' = [dir EXCEPT !.tables[copy.number] = Whole(copy.gives)] /\ UNCHANGED <<numbers, copy>>
    <2>1. PICK n, k : n = copy.from /\ k = copy.number
      OBVIOUS
    <2>2. dir' = [dir EXCEPT !.tables[k] = Whole(copy.gives)]
      BY <1>5, <2>1
    <2>3. /\ found' = found /\ found' \in Starts /\ kills' = kills
          /\ failures' \in 0..MaxFailures /\ kills' \in 0..MaxKills
          /\ failures' = 0 => failures = 0
          /\ misread' = misread /\ risked' = risked
          /\ InDamaged' = InDamaged /\ ToSave' = ToSave /\ Excused' = Excused
      BY <1>1, Budget DEF IInv
    <2>4. /\ logs = <<>> /\ result = "none" /\ n # k /\ k < next
          /\ k \notin DOMAIN lost.tables /\ k \notin ToSet(numbers) /\ k \notin InfoNums
          /\ Readable(copy.gives)
          /\ failures = 0 => copy.gives \subseteq InDamaged
          /\ \A t \in ToSet(tables) : t.number \in InfoNums
      BY <1>2, <2>1, WhileCopying
    <2>5. k \in DOMAIN dir.tables /\ dir.tables[k].gives = {}
      BY <1>1, <1>2, <2>1, UnfinishedIs DEF IInv, Owned
    <2>6. /\ IsDir(dir') /\ dir'.logs = dir.logs
          /\ DOMAIN dir'.tables = DOMAIN dir.tables
          /\ dir'.tables[k] = Whole(copy.gives)
          /\ \A m \in DOMAIN dir.tables : m # k => dir'.tables[m] = dir.tables[m]
      <3>1. /\ IsDir(dir') /\ dir'.logs = dir.logs
            /\ DOMAIN dir'.tables = DOMAIN dir.tables \cup {k}
            /\ dir'.tables[k] = Whole(copy.gives)
            /\ \A m \in DOMAIN dir.tables : m # k => dir'.tables[m] = dir.tables[m]
        BY <2>2, <2>5, TableWritten DEF IInv
      <3>. QED
        BY <2>5, <3>1
    <2>7. InfoNums' = InfoNums /\ MaxSeqs' = MaxSeqs
      BY <1>1 DEF InfoNums, MaxSeqs
    <2>8. Shape' /\ Typed'
      <3>1. \A m \in DOMAIN dir'.tables : Readable(dir'.tables[m].gives)
        BY <2>4, <2>6, UnfinishedIs DEF IInv, Typed
      <3>. QED
        BY <1>1, <1>5, <2>3, <2>6, <3>1 DEF IInv, Shape, Typed
    <2>9. Listed' /\ Staged'
      BY <1>1, <1>5, <2>4, <2>6 DEF IInv, Listed, Staged, Moved, Converting, Copying
    <2>10. Fresh' /\ Owned' /\ Decided'
      <3>1. Fresh'
        BY <1>1, <2>6 DEF IInv, Fresh
      <3>2. Owned'
        BY <1>1, <1>5, <2>1, <2>4, <2>5, <2>6, <2>7 DEF Owned, Converting, Copying
      <3>3. Decided'
        BY <1>1, <1>5, <2>4 DEF Decided, Ending, Repaired
      <3>. QED
        BY <3>1, <3>2, <3>3
    <2>11. FromTable'
      BY <1>1, <1>2, <1>5, <2>1, <2>3, <2>4, <2>6, UnfinishedIs DEF IInv, FromTable, Copying, Moved
    <2>12. Infos'
      BY <1>1, <1>5, <2>3, <2>4, <2>6, <2>7 DEF IInv, Infos
    <2>13. NoneReplaced'
      <3>1. \A m : Taken(m) => Taken(m)'
        BY <1>2, <1>5, <2>1, <2>6 DEF Taken
      <3>. QED
        BY <1>1, <1>5, <2>4, <2>6, <3>1 DEF IInv, NoneReplaced, Moved
    <2>14. Kept'
      <3>1. \A e : Somewhere(e) => Somewhere(e)'
        BY <1>1, <2>5, <2>6 DEF Somewhere
      <3>. QED
        BY <2>3, <3>1, KeptStays DEF IInv
    <2>15. AllHeld'
      <3>1. ToDo' = ToDo /\ ToKeep' = ToKeep /\ k \notin ToKeep
        BY <1>1, <1>5, <2>4, <2>6, <2>7 DEF ToDo, ToKeep
      <3>2. \A e : Held(e) => Held(e)'
        BY <1>1, <1>5, <2>6, <3>1 DEF Held, ToKeep, Moved
      <3>. QED
        BY <1>5, <2>3, <3>2 DEF IInv, AllHeld
    <2>. QED
      BY <2>8, <2>9, <2>10, <2>11, <2>12, <2>13, <2>14, <2>15 DEF IInv
  <1>. QED
    BY <1>1, <1>3, <1>4, <1>5

LEMMA DeleteCopyKeeps ==
  ASSUME RepairAssumption, OneKind, IInv, DeleteCopy
  PROVE  IInv'
  <1>1. /\ pc = "delete_copy" /\ pc' = "scan" /\ NextTable
        /\ UNCHANGED <<lost, result, logs, tables, next>>
        /\ Works \/ Fails
        /\ \/ dir' = [dir EXCEPT !.tables = Without(@, copy.number)]
           \/ dir' = dir
    BY DEF DeleteCopy, Goto
  <1>2. PICK k : k = copy.number
    OBVIOUS
  <1>3. /\ IsDir(dir') /\ dir'.logs = dir.logs
        /\ \A m \in DOMAIN dir'.tables : m \in DOMAIN dir.tables /\ dir'.tables[m] = dir.tables[m]
        /\ \A m \in DOMAIN dir.tables : m # k => m \in DOMAIN dir'.tables
    <2>1. CASE dir' = [dir EXCEPT !.tables = Without(@, copy.number)]
      <3>1. dir' = [dir EXCEPT !.tables = Without(@, k)]
        BY <1>2, <2>1
      <3>. QED
        BY <3>1, TableRemoved DEF IInv
    <2>2. CASE dir' = dir
      BY <2>2 DEF IInv, Shape
    <2>. QED
      BY <1>1, <2>1, <2>2
  <1>4. Copying
    BY <1>1 DEF Copying
  <1>. QED
    BY <1>1, <1>2, <1>3, <1>4, CopyDoneKeeps

(* The copy takes the place of the table.                                   *)
LEMMA RenamedKeeps ==
  ASSUME RepairAssumption, OneKind, IInv, Works, pc = "rename_copy", pc' = "scan",
         dir' = [dir EXCEPT !.tables = With(Without(@, copy.number), copy.from, Whole(copy.gives))],
         NEW n, n = copy.from, NEW k, k = copy.number,
         tables' = Append(tables, Info(n, copy.seen)), NextTable,
         UNCHANGED <<lost, result, logs, next>>
  PROVE  IInv'
  <1>1. Copying
    BY DEF Copying
  <1>2. /\ found' = found /\ found' \in Starts /\ kills' = kills
        /\ failures' \in 0..MaxFailures /\ kills' \in 0..MaxKills
        /\ failures' = 0 => failures = 0
        /\ misread' = misread /\ risked' = risked
        /\ InDamaged' = InDamaged /\ ToSave' = ToSave /\ Excused' = Excused
    BY Budget DEF IInv
  <1>3. /\ logs = <<>> /\ result = "none" /\ pc # "find" /\ numbers # <<>>
        /\ n = Head(numbers) /\ n \in ToSet(numbers) /\ n \in Nat /\ n < k /\ n # k /\ k \in Nat /\ k < next
        /\ k \notin DOMAIN lost.tables /\ k \notin ToSet(numbers) /\ k \notin InfoNums /\ n \notin InfoNums
        /\ ToSet(numbers) \ {n} \subseteq DOMAIN dir.tables
        /\ \A t \in ToSet(tables) : t.number \in InfoNums
        /\ Readable(copy.gives) /\ Readable(copy.seen)
        /\ n \notin misread => copy.seen = copy.gives
        /\ n \in DOMAIN dir.tables => dir.tables[n].gives \ copy.gives \subseteq risked
        /\ n \in DOMAIN dir.tables /\ failures = 0 => dir.tables[n].gives = copy.gives
    BY <1>1, WhileCopying DEF Moved
  <1>4. copy.gives # {} /\ k \in DOMAIN dir.tables /\ dir.tables[k].gives = copy.gives
    BY <1>1, UnfinishedIs DEF IInv, Owned
  <1>5. /\ IsDir(dir') /\ dir'.logs = dir.logs
        /\ DOMAIN dir'.tables = (DOMAIN dir.tables \ {k}) \cup {n}
        /\ dir'.tables[n] = Whole(copy.gives)
        /\ \A m \in DOMAIN dir.tables : m # k /\ m # n => dir'.tables[m] = dir.tables[m]
    <2>1. Shape
      BY DEF IInv
    <2>. QED
      BY <2>1, CopyRenamed
  <1>6. dir'.tables[n].gives = copy.gives /\ dir'.tables[n].ends
    BY <1>5, UnfinishedIs
  <1>7. /\ numbers' \in Seq(Nat) /\ IsInjective(numbers') /\ ToSet(numbers') = ToSet(numbers) \ {n}
        /\ copy' = NoTable /\ copy'.gives = {} /\ copy'.seen = {} /\ copy'.number = 0
    BY <1>3, TailIs DEF IInv, Listed, NextTable, NoTable
  <1>8. PICK t : /\ t = Info(n, copy.seen)
                 /\ t.number = n /\ t.keys = {e.key : e \in copy.seen} /\ t.max_sequence \in Nat
                 /\ \A e \in copy.seen : e.seq <= t.max_sequence
    BY <1>3, InfoIs
  <1>9. tables \in Seq(ToSet(tables)) /\ Numbered(Maxima(tables)) /\ tables' = Append(tables, t)
    BY <1>8 DEF IInv, Infos, MaxSeqs
  <1>10. tables' \in Seq(ToSet(tables')) /\ ToSet(tables') = ToSet(tables) \cup {t} /\ Numbered(Maxima(tables'))
    BY <1>8, <1>9, InfoAdded
  <1>11. InfoNums' = InfoNums \cup {n}
    BY <1>8, <1>10 DEF InfoNums
  <1>12. Shape' /\ Typed'
    <2>1. Numbered(DOMAIN dir'.tables)
      <3>1. Numbered(DOMAIN dir.tables \cup {n})
        BY <1>3, NumberedAdd DEF IInv, Typed
      <3>. QED
        BY <1>5, <3>1, NumberedPart
    <2>2. \A m \in DOMAIN dir'.tables : Readable(dir'.tables[m].gives)
      BY <1>3, <1>5, <1>6 DEF IInv, Typed
    <2>. QED
      BY <1>2, <1>5, <1>7, <2>1, <2>2, ReadableEmpty DEF IInv, Shape, Typed
  <1>13. Listed' /\ Staged'
    <2>1. Listed'
      BY <1>3, <1>5, <1>7 DEF IInv, Listed, Moved
    <2>2. Staged'
      BY <1>3 DEF IInv, Staged, Converting, Copying
    <2>. QED
      BY <2>1, <2>2
  <1>14. Fresh' /\ Owned' /\ Decided'
    <2>1. Fresh'
      <3>1. n < next
        BY <1>3 DEF IInv, Typed
      <3>. QED
        BY <1>3, <1>5, <3>1 DEF IInv, Fresh
    <2>. QED
      BY <1>3, <2>1 DEF Owned, Decided, Converting, Copying, Ending, Repaired
  <1>15. FromTable'
    BY <1>2, <1>5, <1>6 DEF IInv, FromTable, Copying
  <1>16. Infos'
    <2>1. tables' \in Seq(ToSet(tables')) /\ Numbered(MaxSeqs')
      BY <1>10 DEF MaxSeqs
    <2>2. InfoNums' \cap ToSet(numbers') = {}
      BY <1>7, <1>11 DEF IInv, Infos
    <2>3. \A x \in ToSet(tables) : x.number \in DOMAIN dir'.tables /\ dir'.tables[x.number] = dir.tables[x.number]
      BY <1>3, <1>5 DEF IInv, Infos
    <2>4. \A x \in ToSet(tables') : x \in ToSet(tables) \/ x = t
      BY <1>10
    <2>5. /\ t.number \in DOMAIN dir'.tables /\ dir'.tables[t.number].ends
          /\ t.number \notin misread' =>
               /\ {e.key : e \in dir'.tables[t.number].gives} = t.keys
               /\ \A e \in dir'.tables[t.number].gives : e.seq <= t.max_sequence
      BY <1>2, <1>3, <1>5, <1>6, <1>8
    <2>. QED
      BY <1>2, <2>1, <2>2, <2>3, <2>4, <2>5 DEF IInv, Infos
  <1>17. NoneReplaced'
    <2>1. MaxKills = 0 => DOMAIN lost.tables \cap ToSet(numbers') = {}
      BY <1>7 DEF IInv, NoneReplaced
    <2>2. ASSUME NEW m, Taken(m) PROVE Taken(m)'
      <3>1. PICK c \in DOMAIN dir.tables : m < c /\ (dir.tables[c].ends \/ dir.tables[c].gives = {}) /\ c # k
        BY <1>1, <1>4, <2>2 DEF Taken
      <3>2. c \in DOMAIN dir'.tables /\ (dir'.tables[c].ends \/ dir'.tables[c].gives = {})
        BY <1>5, <1>6, <3>1
      <3>. QED
        BY <3>1, <3>2 DEF Taken, Copying
    <2>3. MaxFailures = 0 => \A m \in DOMAIN lost.tables :
            IF m \in DOMAIN dir'.tables THEN dir'.tables[m].ends ELSE Taken(m)'
      BY <1>3, <1>5, <1>6, <2>2 DEF IInv, NoneReplaced
    <2>. QED
      BY <1>5, <2>1, <2>3 DEF IInv, NoneReplaced
  <1>18. Kept'
    <2>1. \A e : e \notin risked /\ Somewhere(e) => Somewhere(e)'
      BY <1>3, <1>4, <1>5, <1>6 DEF Somewhere
    <2>. QED
      BY <1>2, <2>1, KeptStays DEF IInv
  <1>19. AllHeld'
    <2>. SUFFICES ASSUME failures' = 0 PROVE AllHeld'
      BY DEF AllHeld
    <2>1. ToDo' = ToDo /\ n \in ToKeep' /\ \A m \in ToKeep : m = n \/ (m \in ToKeep' /\ m # k)
      BY <1>3, <1>5, <1>7, <1>11 DEF ToDo, ToKeep
    <2>2. \A e : Held(e) => Held(e)'
      BY <1>2, <1>3, <1>5, <1>6, <2>1 DEF Held, ToKeep
    <2>. QED
      BY <1>2, <2>2 DEF IInv, AllHeld
  <1>. QED
    BY <1>12, <1>13, <1>14, <1>15, <1>16, <1>17, <1>18, <1>19 DEF IInv

LEMMA RenameCopyKeeps ==
  ASSUME RepairAssumption, OneKind, IInv, RenameCopy
  PROVE  IInv'
  <1>1. PICK n, k : n = copy.from /\ k = copy.number
    OBVIOUS
  <1>2. /\ pc = "rename_copy" /\ UNCHANGED <<lost, result, logs, next>>
        /\ \/ /\ Works /\ pc' = "scan" /\ NextTable
              /\ dir' = [dir EXCEPT !.tables = With(Without(@, copy.number), copy.from, Whole(copy.gives))]
              /\ tables' = Append(tables, Info(n, copy.seen))
           \/ Fails /\ pc' = "delete_copy" /\ UNCHANGED <<dir, tables, numbers, copy>>
    BY <1>1 DEF RenameCopy, Goto
  <1>3. CASE Fails /\ pc' = "delete_copy" /\ UNCHANGED <<dir, tables, numbers, copy>>
    <2>1. UNCHANGED <<dir, lost, result, memory>>
      BY <1>2, <1>3 DEF memory
    <2>. QED
      BY <1>2, <1>3, <2>1, CopyFailedKeeps
  <1>. QED
    BY <1>1, <1>2, <1>3, RenamedKeeps

-----------------------------------------------------------------------------
(* The descriptor, which is only begun when there is nothing left to do.   *)
LEMMA DescriptorKeeps ==
  ASSUME RepairAssumption, OneKind, IInv, Works \/ Fails,
         pc \in {"logs", "scan", "manifests", "install", "current"}, logs = <<>>, numbers = <<>>,
         pc' \in {"manifests", "install", "current", "done"}, UNCHANGED memory, UNCHANGED lost,
         pc' = "done" \/ result' = result, result' \in {"ok", result},
         IsDir(dir'), dir'.logs = dir.logs, dir'.tables = dir.tables,
         dir'.new = <<[files |-> ToSet(tables), next |-> next, last |-> LastSequence]>>,
         pc' = "current" \/ result' = "ok" => 1 \in dir'.manifests,
         result' = "ok" => dir'.current = 1
  PROVE  IInv'
  <1>. USE DEF memory
  <1>1. /\ found' = found /\ found' \in Starts /\ kills' = kills
        /\ failures' \in 0..MaxFailures /\ kills' \in 0..MaxKills
        /\ failures' = 0 => failures = 0
        /\ misread' = misread /\ risked' = risked
        /\ InDamaged' = InDamaged /\ ToSave' = ToSave /\ Excused' = Excused
    BY Budget DEF IInv
  <1>2. /\ result = "none"
        /\ ~Copying /\ ~Copying' /\ ~Converting /\ ~Converting' /\ ~Moved /\ ~Moved'
    BY DEF IInv, Staged, Copying, Converting, Moved
  <1>3. LastSequence' = LastSequence /\ InfoNums' = InfoNums /\ MaxSeqs' = MaxSeqs
    BY DEF LastSequence, InfoNums, MaxSeqs
  <1>4. Shape' /\ Typed' /\ Listed' /\ Infos'
    BY <1>1, <1>2, <1>3 DEF IInv, Shape, Typed, Listed, Infos
  <1>5. Staged'
    BY <1>2 DEF IInv, Staged
  <1>6. Fresh' /\ Owned'
    BY <1>2 DEF IInv, Fresh, Owned
  <1>7. FromTable'
    BY <1>1, <1>2 DEF IInv, FromTable
  <1>8. Decided'
    <2>1. result' = "ok" => pc' = "done"
      BY <1>2
    <2>. QED
      BY <1>3, <2>1 DEF Decided, Ending, Repaired
  <1>9. NoneReplaced'
    <2>1. \A m : Taken(m) => Taken(m)'
      BY <1>2 DEF Taken
    <2>2. pc \notin {"finish_copy", "rename_copy"} /\ pc' # "find"
      OBVIOUS
    <2>. QED
      BY <1>2, <2>1, <2>2 DEF IInv, NoneReplaced
  <1>10. Kept'
    BY <1>1, KeptStays DEF IInv, Somewhere
  <1>11. AllHeld'
    <2>1. ToDo' = ToDo /\ ToKeep' = ToKeep
      BY <1>3 DEF ToDo, ToKeep
    <2>2. \A e : Held(e) => Held(e)'
      BY <1>2, <2>1 DEF Held
    <2>. QED
      BY <1>1, <2>2 DEF IInv, AllHeld
  <1>. QED
    BY <1>4, <1>5, <1>6, <1>7, <1>8, <1>9, <1>10, <1>11 DEF IInv

LEMMA DirChanged ==
  ASSUME NEW d, IsDir(d), NEW c, NEW x,
         c = [d EXCEPT !.new = x] \/ c = [d EXCEPT !.manifests = x] \/ c = [d EXCEPT !.current = x]
  PROVE  /\ IsDir(c) /\ c.logs = d.logs /\ c.tables = d.tables
         /\ c = [d EXCEPT !.new = x] => c.new = x
         /\ c = [d EXCEPT !.manifests = x] => c.manifests = x /\ c.new = d.new
         /\ c = [d EXCEPT !.current = x] => c.current = x /\ c.manifests = d.manifests /\ c.new = d.new
  BY DEF IsDir

LEMMA WriteDescriptorKeeps ==
  ASSUME RepairAssumption, OneKind, IInv, WriteDescriptor
  PROVE  IInv'
  <1>1. /\ pc \in {"logs", "scan"} /\ numbers = <<>> /\ UNCHANGED memory /\ UNCHANGED lost
        /\ logs = <<>>
    BY DEF WriteDescriptor, IInv, Staged
  <1>2. \/ /\ Works /\ pc' = "manifests" /\ UNCHANGED result
           /\ dir' = [dir EXCEPT !.new = <<[files |-> {tables[i] : i \in DOMAIN tables}, next |-> next, last |-> LastSequence]>>]
        \/ Fails /\ dir' = dir /\ pc' = "done" /\ result' = "error"
    BY DEF WriteDescriptor, Finish
  <1>3. CASE Fails /\ dir' = dir /\ pc' = "done" /\ result' = "error"
    <2>1. IsDir(dir') /\ dir'.logs = dir.logs /\ dir'.tables = dir.tables
      BY <1>3 DEF IInv, Shape
    <2>. QED
      BY <1>1, <1>3, <2>1, ErrorKeeps
  <1>4. CASE /\ Works /\ pc' = "manifests" /\ UNCHANGED result
             /\ dir' = [dir EXCEPT !.new = <<[files |-> {tables[i] : i \in DOMAIN tables}, next |-> next, last |-> LastSequence]>>]
    <2>1. PICK x : x = <<[files |-> {tables[i] : i \in DOMAIN tables}, next |-> next, last |-> LastSequence]>>
      OBVIOUS
    <2>2. dir' = [dir EXCEPT !.new = x]
      BY <1>4, <2>1
    <2>3. IsDir(dir') /\ dir'.logs = dir.logs /\ dir'.tables = dir.tables /\ dir'.new = x
      BY <2>2, DirChanged DEF IInv, Shape
    <2>4. ToSet(tables) = {tables[i] : i \in DOMAIN tables}
      BY DEF ToSet
    <2>5. dir'.new = <<[files |-> ToSet(tables), next |-> next, last |-> LastSequence]>>
      BY <2>1, <2>3, <2>4
    <2>6. result = "none"
      BY <1>1 DEF IInv, Staged
    <2>. QED
      BY <1>1, <1>4, <2>3, <2>5, <2>6, DescriptorKeeps
  <1>. QED
    BY <1>2, <1>3, <1>4

LEMMA ArchiveManifestsKeeps ==
  ASSUME RepairAssumption, OneKind, IInv, ArchiveManifests
  PROVE  IInv'
  <1>1. /\ pc = "manifests" /\ pc' = "install" /\ UNCHANGED result /\ UNCHANGED memory /\ UNCHANGED lost
        /\ Works \/ Fails
    BY DEF ArchiveManifests, Goto
  <1>2. PICK left : dir' = [dir EXCEPT !.manifests = left]
    BY DEF ArchiveManifests
  <1>3. IsDir(dir') /\ dir'.logs = dir.logs /\ dir'.tables = dir.tables /\ dir'.new = dir.new
    BY <1>2, DirChanged DEF IInv, Shape
  <1>4. /\ logs = <<>> /\ numbers = <<>> /\ result = "none"
        /\ dir.new = <<[files |-> ToSet(tables), next |-> next, last |-> LastSequence]>>
    BY <1>1 DEF IInv, Decided, Ending, Staged
  <1>. QED
    BY <1>1, <1>3, <1>4, DescriptorKeeps

LEMMA InstallKeeps ==
  ASSUME RepairAssumption, OneKind, IInv, Install
  PROVE  IInv'
  <1>1. /\ pc = "install" /\ UNCHANGED memory /\ UNCHANGED lost
        /\ \/ Works /\ dir' = [dir EXCEPT !.manifests = @ \cup {1}] /\ pc' = "current" /\ UNCHANGED result
           \/ Fails /\ dir' = [dir EXCEPT !.new = <<>>] /\ pc' = "done" /\ result' = "error"
    BY DEF Install, Finish
  <1>2. CASE Works /\ dir' = [dir EXCEPT !.manifests = @ \cup {1}] /\ pc' = "current" /\ UNCHANGED result
    <2>1. PICK x : x = dir.manifests \cup {1}
      OBVIOUS
    <2>2. dir' = [dir EXCEPT !.manifests = x]
      BY <1>2, <2>1
    <2>3. /\ IsDir(dir') /\ dir'.logs = dir.logs /\ dir'.tables = dir.tables /\ dir'.new = dir.new
          /\ 1 \in dir'.manifests
      BY <2>1, <2>2, DirChanged DEF IInv, Shape
    <2>4. /\ logs = <<>> /\ numbers = <<>> /\ result = "none"
          /\ dir.new = <<[files |-> ToSet(tables), next |-> next, last |-> LastSequence]>>
      BY <1>1 DEF IInv, Decided, Ending, Staged
    <2>. QED
      BY <1>1, <1>2, <2>3, <2>4, DescriptorKeeps
  <1>3. CASE Fails /\ dir' = [dir EXCEPT !.new = <<>>] /\ pc' = "done" /\ result' = "error"
    <2>1. PICK x : x = <<>>
      OBVIOUS
    <2>2. dir' = [dir EXCEPT !.new = x]
      BY <1>3, <2>1
    <2>3. IsDir(dir') /\ dir'.logs = dir.logs /\ dir'.tables = dir.tables
      BY <2>2, DirChanged DEF IInv, Shape
    <2>. QED
      BY <1>1, <1>3, <2>3, ErrorKeeps
  <1>. QED
    BY <1>1, <1>2, <1>3

LEMMA SetCurrentFileKeeps ==
  ASSUME RepairAssumption, OneKind, IInv, SetCurrentFile
  PROVE  IInv'
  <1>1. /\ pc = "current" /\ UNCHANGED memory /\ UNCHANGED lost
        /\ \/ Works /\ dir' = [dir EXCEPT !.current = 1] /\ pc' = "done" /\ result' = "ok"
           \/ Fails /\ dir' = dir /\ pc' = "done" /\ result' = "error"
    BY DEF SetCurrentFile, Finish
  <1>2. CASE Works /\ dir' = [dir EXCEPT !.current = 1] /\ pc' = "done" /\ result' = "ok"
    <2>1. /\ IsDir(dir') /\ dir'.logs = dir.logs /\ dir'.tables = dir.tables /\ dir'.new = dir.new
          /\ dir'.current = 1 /\ dir'.manifests = dir.manifests
      BY <1>2, DirChanged DEF IInv, Shape
    <2>2. /\ logs = <<>> /\ numbers = <<>> /\ 1 \in dir.manifests
          /\ dir.new = <<[files |-> ToSet(tables), next |-> next, last |-> LastSequence]>>
      BY <1>1 DEF IInv, Decided, Ending
    <2>. QED
      BY <1>1, <1>2, <2>1, <2>2, DescriptorKeeps
  <1>3. CASE Fails /\ dir' = dir /\ pc' = "done" /\ result' = "error"
    <2>1. IsDir(dir') /\ dir'.logs = dir.logs /\ dir'.tables = dir.tables
      BY <1>3 DEF IInv, Shape
    <2>. QED
      BY <1>1, <1>3, <2>1, ErrorKeeps
  <1>. QED
    BY <1>1, <1>2, <1>3

-----------------------------------------------------------------------------
(* The repair is run again on the files as they are: all that is to do is   *)
(* forgotten. What was only in the memory came from a table with damage.    *)
LEMMA AgainKeeps ==
  ASSUME RepairAssumption, OneKind, IInv, Again
  PROVE  IInv'
  <1>1. /\ pc # "find" /\ pc' = "find" /\ result # "ok" /\ result' = "none" /\ kills < MaxKills /\ kills' = kills + 1
        /\ logs' = <<>> /\ numbers' = <<>> /\ tables' = <<>> /\ next' = 1 /\ copy' = NoTable
        /\ UNCHANGED <<dir, lost, failures, found, misread, risked>>
    BY DEF Again, history
  <1>2. /\ found' \in Starts /\ failures' \in 0..MaxFailures /\ kills' \in 0..MaxKills
        /\ kills' # 0 /\ MaxFailures = 0 /\ MaxKills # 0
        /\ misread' = misread /\ risked' = risked
        /\ InDamaged' = InDamaged /\ ToSave' = ToSave /\ Excused' = InDamaged
    <2>1. /\ MaxFailures \in Nat /\ MaxKills \in Nat /\ failures \in 0..MaxFailures /\ kills \in 0..MaxKills /\ found \in Starts
      BY DEF RepairAssumption, IInv, Shape
    <2>2. kills' \in 0..MaxKills /\ kills' # 0 /\ MaxKills # 0
      BY <1>1, <2>1
    <2>. QED
      BY <1>1, <2>1, <2>2 DEF OneKind, InDamaged, ToSave, Excused
  <1>3. copy'.gives = {} /\ copy'.seen = {} /\ copy'.number = 0
    BY <1>1 DEF NoTable
  <1>4. Shape' /\ Typed'
    BY <1>1, <1>2, <1>3, ReadableEmpty DEF IInv, Shape, Typed
  <1>5. Listed'
    BY <1>1, NothingListed DEF Listed
  <1>6. Staged' /\ Fresh' /\ Owned' /\ Decided'
    BY <1>1 DEF Staged, Fresh, Owned, Decided, Converting, Copying, Ending, Repaired
  <1>7. FromTable'
    BY <1>1, <1>2 DEF IInv, FromTable, Copying
  <1>8. Infos'
    <2>1. MaxSeqs' = {} /\ ToSet(tables') = {} /\ InfoNums' = {}
      BY <1>1, NothingListed DEF MaxSeqs, Maxima, InfoNums
    <2>. QED
      BY <1>1, <2>1, NothingListed, FS_EmptySet DEF Infos, Numbered
  <1>9. NoneReplaced'
    <2>1. \A m : Taken(m) => Taken(m)'
      BY <1>1 DEF Taken, Copying
    <2>2. ASSUME NEW n, n = copy.from, pc \in {"finish_copy", "rename_copy"} PROVE Taken(n)'
      <3>1. Copying /\ n < copy.number
        BY <2>2, WhileCopying DEF Copying
      <3>2. copy.number \in DOMAIN dir.tables /\ (dir.tables[copy.number].ends \/ dir.tables[copy.number].gives = {})
        BY <2>2, <3>1, UnfinishedIs DEF IInv, Owned
      <3>. QED
        BY <1>1, <3>1, <3>2 DEF Taken, Copying
    <2>3. \A m \in DOMAIN lost.tables : IF m \in DOMAIN dir.tables THEN dir.tables[m].ends ELSE Taken(m)'
      BY <1>2, <2>1, <2>2 DEF IInv, NoneReplaced
    <2>. QED
      BY <1>1, <1>2, <2>3 DEF IInv, NoneReplaced
  <1>10. Kept'
    BY <1>1, KeptStays DEF IInv, Somewhere
  <1>11. AllHeld'
    <2>. SUFFICES ASSUME failures' = 0, NEW e \in ToSave \ InDamaged PROVE Held(e)'
      BY <1>1, <1>2 DEF AllHeld
    <2>1. Held(e)
      BY <1>1 DEF IInv, AllHeld, Excused
    <2>2. Moved => copy.gives \subseteq InDamaged
      BY <1>1, WhileCopying DEF Moved, Copying
    <2>3. ToDo \subseteq DOMAIN dir.logs
      BY <1>1 DEF IInv, Listed, ToDo
    <2>4. \/ \E n \in DOMAIN dir.logs : e \in dir.logs[n].whole
          \/ \E n \in DOMAIN dir.tables : e \in dir.tables[n].gives
      BY <2>1, <2>2, <2>3 DEF Held, ToKeep
    <2>. QED
      BY <1>1, <2>4 DEF Held, ToDo, ToKeep
  <1>. QED
    BY <1>4, <1>5, <1>6, <1>7, <1>8, <1>9, <1>10, <1>11 DEF IInv

-----------------------------------------------------------------------------
(* The theorems.                                                           *)

LEMMA NextKeeps ==
  ASSUME RepairAssumption, OneKind, IInv, [Next]_vars
  PROVE  IInv'
  <1>1. CASE UNCHANGED vars
    <2>. USE <1>1 DEF vars, memory, budget, history
    <2>1. Shape' /\ Typed' /\ Listed' /\ Staged' /\ Fresh'
      BY DEF IInv, Shape, Typed, Listed, Moved, Staged, Converting, Copying, Fresh
    <2>2. InfoNums' = InfoNums /\ MaxSeqs' = MaxSeqs /\ LastSequence' = LastSequence
      BY DEF InfoNums, MaxSeqs, LastSequence
    <2>3. InDamaged' = InDamaged /\ ToSave' = ToSave /\ Excused' = Excused
      BY DEF InDamaged, ToSave, Excused
    <2>4. Owned' /\ FromTable' /\ Infos'
      BY <2>2, <2>3 DEF IInv, Owned, FromTable, Infos, Converting, Copying, Moved
    <2>5. Decided'
      BY <2>2 DEF IInv, Decided, Ending, Repaired
    <2>6. NoneReplaced'
      <3>1. \A m : Taken(m) => Taken(m)'
        BY DEF Taken, Copying
      <3>. QED
        BY <3>1 DEF IInv, NoneReplaced, Moved
    <2>7. Kept'
      BY KeptStays DEF IInv, Somewhere
    <2>8. AllHeld'
      <3>1. ToDo' = ToDo /\ ToKeep' = ToKeep
        BY <2>2 DEF ToDo, ToKeep
      <3>2. \A e : Held(e) => Held(e)'
        BY <3>1 DEF Held, Moved
      <3>. QED
        BY <2>3, <3>2 DEF IInv, AllHeld
    <2>. QED
      BY <2>1, <2>4, <2>5, <2>6, <2>7, <2>8 DEF IInv
  <1>. QED
    BY <1>1, FindFilesKeeps, OpenLogKeeps, CreateTableKeeps, FinishTableKeeps, LogArchivedKeeps, ScanTableKeeps,
       CreateCopyKeeps, TableArchivedKeeps, FinishCopyKeeps, RenameCopyKeeps, DeleteCopyKeeps, WriteDescriptorKeeps,
       ArchiveManifestsKeeps, InstallKeeps, SetCurrentFileKeeps, AgainKeeps
       DEF Next

(* What a repaired database has when none of its calls failed.              *)
LEMMA SalvagedFollows ==
  ASSUME IInv
  PROVE  Salvaged
  <1>. SUFFICES ASSUME Repaired, failures = 0, NEW e \in ToSave \ Excused PROVE e \in Saved
    BY DEF Salvaged, Excused
  <1>1. /\ pc = "done" /\ logs = <<>> /\ numbers = <<>>
        /\ dir.new = <<[files |-> ToSet(tables), next |-> next, last |-> LastSequence]>>
    BY DEF IInv, Decided, Ending
  <1>2. ToDo = {} /\ ToKeep \subseteq InfoNums /\ ToKeep \subseteq DOMAIN dir.tables /\ ~Moved
    BY <1>1, NothingListed DEF ToDo, ToKeep, Moved
  <1>3. PICK n \in InfoNums : e \in dir.tables[n].gives
    BY <1>2 DEF IInv, AllHeld, Held
  <1>4. PICK t \in ToSet(tables) : t.number = n
    BY DEF InfoNums
  <1>5. Descriptor.files = ToSet(tables)
    BY <1>1 DEF Descriptor
  <1>. QED
    BY <1>3, <1>4, <1>5 DEF Saved

LEMMA DescribedFollows ==
  ASSUME IInv
  PROVE  Described
  <1>. SUFFICES ASSUME Repaired PROVE Described
    BY DEF Described
  <1>1. /\ pc = "done" /\ result = "ok" /\ dir.current = 1 /\ 1 \in dir.manifests
        /\ dir.new = <<[files |-> ToSet(tables), next |-> next, last |-> LastSequence]>>
    BY DEF IInv, Decided, Ending, Repaired
  <1>2. /\ Descriptor.files = ToSet(tables) /\ Descriptor.next = next /\ Descriptor.last = LastSequence
    BY <1>1 DEF Descriptor
  <1>3. LastSequence \in Nat /\ \A i \in MaxSeqs : i <= LastSequence
    <2>1. LastSequence = MaxOf(MaxSeqs)
      BY DEF LastSequence, MaxSeqs, Maxima
    <2>. QED
      BY <2>1, MaxOfIs DEF IInv, Infos
  <1>4. ASSUME NEW t \in ToSet(tables), t.number \notin misread, NEW e \in dir.tables[t.number].gives PROVE e.seq <= LastSequence
    <2>1. t.max_sequence \in MaxSeqs
      BY DEF ToSet, MaxSeqs, Maxima
    <2>2. t.max_sequence \in Nat /\ t.max_sequence <= LastSequence
      BY <1>3, <2>1 DEF IInv, Infos, Numbered
    <2>3. e.seq \in Nat /\ e.seq <= t.max_sequence
      <3>1. Readable(dir.tables[t.number].gives) /\ e.seq <= t.max_sequence
        BY <1>4 DEF IInv, Infos, Typed
      <3>. QED
        BY <3>1 DEF Readable, Seqs, Numbered
    <2>. QED
      BY <1>3, <2>2, <2>3
  <1>5. \A n \in DOMAIN dir.tables \cup DOMAIN dir.logs : n < next
    BY <1>1 DEF IInv, Fresh
  <1>. QED
    BY <1>1, <1>2, <1>4, <1>5 DEF IInv, Infos, Described

(* The invariant holds, whatever fails or whenever the process is killed.   *)
THEOREM InvariantHolds ==
  ASSUME RepairAssumption, OneKind
  PROVE  Spec => []IInv
  <1>1. Init => IInv
    BY InitHolds
  <1>2. IInv /\ [Next]_vars => IInv'
    BY NextKeeps
  <1>. QED
    BY <1>1, <1>2, PTL DEF Spec

(* What RepairDB keeps, whatever fails: what could be read before the       *)
(* repair can be read after it, in the directory or in lost, but for what a *)
(* failing read left out of a copy that took the place of a table that      *)
(* could not be moved; if no call failed it is in the repaired database,    *)
(* but for what a killed repair had copied of a damaged table; and the new  *)
(* descriptor says what the tables are that were read without a failure.    *)
THEOREM PromisesHold ==
  ASSUME RepairAssumption, OneKind
  PROVE  Spec => [](Kept /\ Salvaged /\ Described)
  <1>1. IInv => Kept /\ Salvaged /\ Described
    BY SalvagedFollows, DescribedFollows DEF IInv
  <1>. QED
    BY <1>1, InvariantHolds, PTL
=============================================================================
