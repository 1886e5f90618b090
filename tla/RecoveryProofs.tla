--------------------------- MODULE RecoveryProofs ---------------------------
(***************************************************************************)
(* Recovery without reuse of logs, for every bound, whether the process    *)
(* dies or the machine loses power, whether writing a MANIFEST may fail:   *)
(* what was promised to survive is in every database that opens, sequence  *)
(* numbers are given once, and no death of the process leaves a database   *)
(* that cannot be opened.                                                  *)
(***************************************************************************)
EXTENDS Recovery, FiniteSetTheorems, SequenceTheorems, WellFoundedInduction, TLAPS

-----------------------------------------------------------------------------
(* The data.                                                               *)
Entry == [id : Nat, seq : Nat]
Edit == [log : 0..MaxNumber, next : 0..(MaxNumber + 1), last : Nat, add : SUBSET Nat, del : SUBSET Nat]
LogFile == [recs : Seq(Entry \cup {Torn}), synced : Nat]
ManifestFile == [recs : Seq(Edit \cup {Torn}), synced : Nat]
Db == [mem : SUBSET Entry, imm : Seq(SUBSET Entry), ver : SUBSET Nat, next : 1..(MaxNumber + 2),
       log : 0..MaxNumber, minLog : 0..MaxNumber, manifest : Nat, last : Nat, save : BOOLEAN,
       todo : SUBSET Nat, error : BOOLEAN]
PCs == {"down", "newdb", "corrupt", "replay", "manifest", "syncManifest", "setCurrent", "clean", "open"}

(* What is on disk and in memory has its type: at most one log per number  *)
(* that may be given, nothing synced that was not written.                 *)
LogsTyped ==
  /\ DOMAIN logs \subseteq 1..MaxNumber
  /\ \A n \in DOMAIN logs : logs[n] \in LogFile /\ logs[n].synced <= Len(logs[n].recs)
ManifestsTyped ==
  /\ DOMAIN manifests \subseteq Nat
  /\ \A n \in DOMAIN manifests :
       manifests[n] \in ManifestFile /\ manifests[n].synced <= Len(manifests[n].recs)
TablesTyped ==
  /\ DOMAIN tables \subseteq Nat
  /\ \A n \in DOMAIN tables : tables[n] \in SUBSET Entry
StateTyped ==
  /\ current \in Nat /\ pc \in PCs /\ db \in Db /\ Len(db.imm) <= 1 /\ edit \in Edit
  /\ ids \in Nat /\ synced \in SUBSET Entry /\ acked \in SUBSET Entry /\ synced \subseteq acked
Typed == LogsTyped /\ ManifestsTyped /\ TablesTyped /\ StateTyped

(* What is promised to survive: all answered writes if only processes die, *)
(* the synced ones if the machine may lose power.                          *)
Durable == IF Power THEN synced ELSE acked

(* The least of a file that a crash leaves.                                *)
Low(f) == IF Power THEN f.synced ELSE Len(f.recs)

(* The reader of a file stops at a torn record: the records before it.     *)
Unbroken(recs, k) == \A g \in 1..k : recs[g] # Torn
Intact(recs, k) == {recs[i] : i \in {h \in 1..k : Unbroken(recs, h)}}

(* The writes a log gives, and those that any crash leaves of it.          *)
Whole(n) == Intact(logs[n].recs, Len(logs[n].recs))
Kept(n) == Intact(logs[n].recs, Low(logs[n]))
KeptLogs(low) == UNION {Kept(n) : n \in {m \in DOMAIN logs : m >= low}}
ReadLogs(S) == UNION {Whole(n) : n \in S}
FromLog(low) == {n \in DOMAIN logs : n >= low}
TableWrites(V) == UNION {tables[n] : n \in V}
Distinct(W) == \A r, q \in W : r.seq = q.seq => r = q
UpTo(W, last) == \A r \in W : r.seq <= last

(* The lengths at which a restart may find a MANIFEST to end: now, or      *)
(* after a crash that cuts it.                                             *)
Reads(f) == {j \in 0..Len(f.recs) : /\ Unbroken(f.recs, j)
                                    /\ \/ j >= Low(f)
                                       \/ j < Len(f.recs) /\ f.recs[j + 1] = Torn}
VersionAt(recs, j) == Builder(SubSeq(recs, 1, j))
Opens(recs, j) == j > 0 /\ recs[j].next # 0

(* An edit and the version it ends, as a restart would take them: the      *)
(* tables exist and are below the next number, with the logs they hold all *)
(* that is durable, and no sequence number is in them twice.               *)
Starts(ver, e) ==
  /\ ver \subseteq DOMAIN tables
  /\ \A n \in ver : n < e.next
  /\ current < e.next /\ e.log < e.next
  /\ Durable \subseteq TableWrites(ver) \cup KeptLogs(e.log)
  /\ UpTo(TableWrites(ver), e.last)
  /\ Distinct(TableWrites(ver) \cup ReadLogs(FromLog(e.log)))

(* Whatever a restart may read the MANIFEST that CURRENT names as, it      *)
(* starts a database with it; next numbers only grow along the file.       *)
Descriptor == manifests[current]
Nothing == current = 0 =>
  /\ pc \in {"down", "newdb"} /\ logs = Empty /\ tables = Empty /\ acked = {}
  /\ pc = "newdb" => 1 \in DOMAIN manifests /\ manifests[1] = File(<<[NoEdit EXCEPT !.next = 2]>>, 0)
Described == current # 0 =>
  /\ current \in DOMAIN manifests /\ pc # "newdb"
  /\ \A i \in 1..Len(Descriptor.recs) : Descriptor.recs[i] = Torn => i = Len(Descriptor.recs)
  /\ \A j \in Reads(Descriptor) :
       /\ ~Power => Opens(Descriptor.recs, j)
       /\ Opens(Descriptor.recs, j) => Starts(VersionAt(Descriptor.recs, j), Descriptor.recs[j])
  /\ \A i, j \in Reads(Descriptor) :
       i <= j /\ Opens(Descriptor.recs, i) /\ Opens(Descriptor.recs, j)
         => Descriptor.recs[i].next <= Descriptor.recs[j].next
(* No reading of the MANIFEST gives a file number that was already taken.  *)
Behind ==
  \A j \in Reads(Descriptor) : Opens(Descriptor.recs, j) => Descriptor.recs[j].next <= db.next
Stopped == pc \in {"down", "newdb", "corrupt"} => db = NoDb /\ edit = NoEdit
OpensWell == ~Power => pc # "corrupt"

(* DB::Open on its way.  What is durable is in the tables it has and the   *)
(* logs it has yet to read; a new MANIFEST is complete before CURRENT      *)
(* names it.                                                               *)
Opened == db.ver \cup edit.add
Recovering == pc \in {"replay", "manifest", "syncManifest", "setCurrent"} =>
  /\ current # 0 /\ Behind
  /\ db.mem = {} /\ db.imm = <<>> /\ db.save /\ ~db.error
  /\ edit.del = {} /\ edit.next = 0
  /\ current < db.manifest /\ db.manifest < db.next
  /\ Opened \subseteq DOMAIN tables /\ \A n \in Opened : n < db.next
  /\ UpTo(TableWrites(Opened), db.last)
Replaying == pc = "replay" =>
  /\ db.todo \subseteq DOMAIN logs /\ \A n \in DOMAIN logs \ db.todo : n < db.next
  /\ db.log = 0
  /\ Durable \subseteq TableWrites(Opened) \cup ReadLogs(db.todo)
  /\ Distinct(TableWrites(Opened) \cup ReadLogs(db.todo))
NewLog ==
  /\ db.log \in DOMAIN logs /\ db.log < db.next /\ db.next <= MaxNumber + 1
  /\ \A n \in DOMAIN logs : n <= db.log
Renewing == pc \in {"manifest", "syncManifest", "setCurrent"} =>
  /\ NewLog /\ Len(logs[db.log].recs) = 0
  /\ Durable \subseteq TableWrites(Opened)
  /\ Distinct(TableWrites(Opened))
Renewed == pc \in {"syncManifest", "setCurrent"} =>
  /\ db.manifest \in DOMAIN manifests
  /\ manifests[db.manifest].recs = <<Snapshot, Completed(db.log)>>
  /\ pc = "setCurrent" => manifests[db.manifest].synced = 2

(* The open database.  Without an error, the synced part of the MANIFEST   *)
(* builds the version in memory, and only the edit under way is after it.  *)
Agreed ==
  LET m == Descriptor IN
  /\ Unbroken(m.recs, Len(m.recs))
  /\ m.synced >= 1 /\ VersionAt(m.recs, m.synced) = db.ver
  /\ m.recs[m.synced].log = db.minLog /\ m.recs[m.synced].next # 0
  /\ edit.next = 0 => Len(m.recs) = m.synced
  /\ edit.next # 0 => Len(m.recs) = m.synced + 1 /\ m.recs[Len(m.recs)] = edit

(* The edit under way: the frozen memtable became a table, or all tables   *)
(* became one.                                                             *)
Pending ==
  /\ edit.del = {} => /\ db.imm # <<>> /\ edit.log = db.log
                      /\ \E n \in DOMAIN tables : edit.add = {n} /\ tables[n] = db.imm[1]
  /\ edit.del # {} => /\ edit.del = db.ver /\ edit.log = db.minLog
                      /\ \E n \in DOMAIN tables : edit.add = {n} /\ tables[n] = TableWrites(db.ver)
  /\ \A n \in edit.add : n < db.next

Placed ==
  /\ current # 0 /\ db.manifest = current /\ NewLog
  /\ Unbroken(logs[db.log].recs, Len(logs[db.log].recs))
  /\ db.minLog <= db.log
  /\ db.ver \subseteq DOMAIN tables /\ \A n \in db.ver : n < db.next

(* What is durable is in memory or in the tables, and in the log as far as *)
(* it is only in the memtable.                                             *)
Complete ==
  /\ Durable \subseteq Contents
  /\ Durable \cap db.mem \subseteq Kept(db.log)
  /\ UpTo(Contents \cup ReadLogs(FromLog(db.minLog)), db.last)
  /\ Distinct(Contents \cup ReadLogs(FromLog(db.minLog)))

(* Sequence numbers in any log that a restart would read were given.       *)
Ahead ==
  \A j \in Reads(Descriptor) : Opens(Descriptor.recs, j) =>
    /\ Descriptor.recs[j].last <= db.last /\ Descriptor.recs[j].log <= db.log
    /\ UpTo(ReadLogs(FromLog(Descriptor.recs[j].log)), db.last)

Editing ==
  /\ pc = "clean" /\ ~db.error => edit = NoEdit
  /\ ~db.error => Agreed
  /\ ~db.error /\ edit # NoEdit => Pending
  /\ db.error => edit.next = 0
Running == pc \in {"clean", "open"} => Placed /\ Complete /\ Behind /\ Ahead /\ Editing

(* The inductive invariant.                                                *)
IInv == /\ Typed /\ Nothing /\ Described /\ Stopped /\ OpensWell
        /\ Recovering /\ Replaying /\ Renewing /\ Renewed /\ Running

-----------------------------------------------------------------------------
(* Naturals and sequences.                                                 *)

(* A set of natural numbers has a least one.                               *)
LEMMA LeastNatural ==
  ASSUME NEW S \in SUBSET Nat, S # {}
  PROVE  \E m \in S : \A n \in S : m <= n
  <1>1. PICK m \in S : \A n \in S : ~(<<n, m>> \in OpToRel(<, Nat))
    BY NatLessThanWellFounded, WFMin
  <1>2. \A n \in S : ~(n < m)
    BY <1>1 DEF OpToRel
  <1>. QED
    BY <1>2

(* Two numbers have a bound.                                               *)
LEMMA TwoBounded ==
  ASSUME NEW a \in Nat, NEW b \in Nat
  PROVE  \E c \in Nat : a <= c /\ b <= c
  <1>1. CASE a <= b
    BY <1>1
  <1>2. CASE b <= a
    BY <1>2
  <1>. QED
    BY <1>1, <1>2

(* The first file to replay.                                               *)
LEMMA MinIs ==
  ASSUME NEW S \in SUBSET Nat, S # {}
  PROVE  Min(S) \in S /\ \A n \in S : Min(S) <= n
  BY LeastNatural DEF Min

(* The sequence number after a log is replayed.                            *)
LEMMA BoundedSequence ==
  ASSUME NEW s \in Seq(Nat)
  PROVE  \E b \in Nat : \A i \in 1..Len(s) : s[i] <= b
  <1>. DEFINE Over(k) == \E b \in Nat : \A i \in 1..k : s[i] <= b
              Bad == {k \in 0..Len(s) : ~Over(k)}
  <1>0. Len(s) \in Nat /\ \A i \in 1..Len(s) : s[i] \in Nat
    BY LenProperties, ElementOfSeq
  <1>1. SUFFICES ASSUME Bad # {} PROVE FALSE
    <2>1. Len(s) \in 0..Len(s)
      BY <1>0
    <2>. QED
      BY <2>1
  <1>2. PICK k \in Bad : \A n \in Bad : k <= n
    <2>1. Bad \in SUBSET Nat
      BY <1>0
    <2>. HIDE DEF Bad
    <2>. QED
      BY <1>1, <2>1, LeastNatural
  <1>3. k # 0
    <2>1. Over(0)
      <3>1. 0 \in Nat /\ \A i \in 1..0 : s[i] <= 0
        OBVIOUS
      <3>. QED
        BY <3>1
    <2>. QED
      BY <1>2, <2>1
  <1>4. k - 1 \in 0..Len(s) /\ k \in 1..Len(s)
    BY <1>0, <1>2, <1>3
  <1>5. Over(k - 1)
    <2>1. k \in Nat /\ ~(k <= k - 1)
      BY <1>4, <1>0
    <2>2. k - 1 \notin Bad
      BY <1>2, <2>1
    <2>. QED
      BY <2>2, <1>4
  <1>6. PICK b \in Nat : \A i \in 1..(k - 1) : s[i] <= b
    BY <1>5
  <1>7. PICK c \in Nat : b <= c /\ s[k] <= c
    <2>1. s[k] \in Nat
      BY <1>0, <1>4
    <2>. QED
      BY <2>1, TwoBounded
  <1>8. \A i \in 1..k : s[i] <= c
    <2>1. ASSUME NEW i \in 1..k
          PROVE  s[i] <= c
      <3>1. CASE i = k
        BY <1>7, <3>1
      <3>2. CASE i # k
        <4>1. i \in 1..(k - 1) /\ s[i] \in Nat
          BY <1>0, <3>2, <1>4
        <4>2. s[i] <= b
          BY <4>1, <1>6
        <4>3. \A x, y, z \in Nat : x <= y /\ y <= z => x <= z
          OBVIOUS
        <4>. QED
          BY <4>1, <4>2, <4>3, <1>7
      <3>. QED
        BY <3>1, <3>2
    <2>. QED
      BY <2>1
  <1>9. Over(k)
    BY <1>8
  <1>. QED
    BY <1>2, <1>9

(* Max of the community modules is the greatest element.                   *)
LEMMA MaxIs ==
  ASSUME NEW S \in SUBSET Nat, S # {}, NEW b \in Nat, \A n \in S : n <= b
  PROVE  Max(S) \in S /\ \A n \in S : n <= Max(S)
  <1>. DEFINE B == {c \in Nat : \A n \in S : n <= c}
  <1>1. B \in SUBSET Nat /\ B # {}
    OBVIOUS
  <1>2. PICK c \in B : \A d \in B : c <= d
    BY <1>1, LeastNatural
  <1>3. c \in S
    <2>1. SUFFICES ASSUME c \notin S PROVE FALSE
      OBVIOUS
    <2>2. \A n \in S : n < c
      BY <2>1
    <2>3. c # 0
      <3>1. PICK n \in S : TRUE
        OBVIOUS
      <3>. QED
        BY <3>1, <2>2
    <2>4. c - 1 \in Nat /\ \A n \in S : n <= c - 1
      BY <2>2, <2>3
    <2>5. c - 1 \in B
      BY <2>4
    <2>6. ~(c <= c - 1)
      OBVIOUS
    <2>. QED
      BY <2>5, <2>6, <1>2
  <1>4. \A n \in S : c >= n
    OBVIOUS
  <1>. QED
    BY <1>3, <1>4 DEF Max

(* std::max of two numbers.                                                *)
LEMMA MaxOfTwo ==
  ASSUME NEW a \in Nat, NEW b \in Nat
  PROVE  Max({a, b}) = IF a >= b THEN a ELSE b
  <1>1. \E c \in Nat : a <= c /\ b <= c
    OBVIOUS
  <1>. HIDE DEF Max
  <1>2. Max({a, b}) \in {a, b} /\ \A n \in {a, b} : n <= Max({a, b})
    BY <1>1, MaxIs
  <1>. QED
    BY <1>2

-----------------------------------------------------------------------------
(* Files.                                                                  *)

(* A prefix of a file's records.                                           *)
LEMMA Prefix ==
  ASSUME NEW S, NEW recs \in Seq(S), NEW j \in 0..Len(recs)
  PROVE  /\ SubSeq(recs, 1, j) \in Seq(S) /\ Len(SubSeq(recs, 1, j)) = j
         /\ \A i \in 1..j : SubSeq(recs, 1, j)[i] = recs[i]
  <1>1. Len(recs) \in Nat /\ j \in Nat /\ 1 \in Int /\ j \in Int
    BY LenProperties
  <1>2. \A i \in 1..j : recs[i] \in S
    BY <1>1, ElementOfSeq
  <1>. QED
    BY <1>1, <1>2, SubSeqProperties

(* What a crash leaves at least is a part of the file.                     *)
LEMMA LowBounded ==
  ASSUME NEW S, NEW f, f.recs \in Seq(S), f.synced \in Nat, f.synced <= Len(f.recs)
  PROVE  Low(f) \in 0..Len(f.recs)
  <1>1. Len(f.recs) \in Nat
    BY LenProperties
  <1>2. CASE Power
    BY <1>1, <1>2 DEF Low
  <1>3. CASE ~Power
    BY <1>1, <1>3 DEF Low
  <1>. QED
    BY <1>2, <1>3

(* log::Reader stops at the first torn record, or at the end: the longest  *)
(* of the prefixes that a crash may leave to read.                         *)
LEMMA ReadableIs ==
  ASSUME NEW S, NEW f, f.recs \in Seq(S), f.synced \in Nat, f.synced <= Len(f.recs)
  PROVE  \E j \in Reads(f) : /\ Readable(f) = SubSeq(f.recs, 1, j)
                             /\ \A i \in Reads(f) : i <= j
                             /\ j = Len(f.recs) \/ f.recs[j + 1] = Torn
  <1>. DEFINE t == {n \in DOMAIN f.recs : f.recs[n] = Torn}
  <1>0. Len(f.recs) \in Nat /\ DOMAIN f.recs = 1..Len(f.recs) /\ Low(f) \in 0..Len(f.recs)
    BY LenProperties, LowBounded
  <1>1. Readable(f) = IF t = {} THEN f.recs ELSE SubSeq(f.recs, 1, Min(t) - 1)
    BY Zenon DEF Readable
  <1>2. CASE t = {}
    <2>1. Readable(f) = SubSeq(f.recs, 1, Len(f.recs))
      BY <1>1, <1>2, SubSeqFull
    <2>2. Unbroken(f.recs, Len(f.recs))
      BY <1>0, <1>2 DEF Unbroken
    <2>3. Len(f.recs) \in Reads(f) /\ \A i \in Reads(f) : i <= Len(f.recs)
      BY <1>0, <2>2 DEF Reads
    <2>. QED
      BY <2>1, <2>3
  <1>3. CASE t # {}
    <2>1. t \in SUBSET Nat
      BY <1>0
    <2>2. Min(t) \in t /\ \A n \in t : Min(t) <= n
      <3>. HIDE DEF t
      <3>. QED
        BY <1>3, <2>1, MinIs
    <2>3. PICK m \in t : m = Min(t)
      BY <2>2
    <2>4. \A n \in t : m <= n
      BY <2>2, <2>3
    <2>5. m \in 1..Len(f.recs) /\ f.recs[m] = Torn /\ Readable(f) = SubSeq(f.recs, 1, m - 1)
      BY <1>0, <1>1, <1>3, <2>3
    <2>6. Unbroken(f.recs, m - 1)
      <3>1. \A g \in 1..(m - 1) : g \in DOMAIN f.recs /\ ~(m <= g)
        BY <1>0, <2>5
      <3>. QED
        BY <3>1, <2>4 DEF Unbroken
    <2>7. m - 1 \in Reads(f)
      BY <1>0, <2>5, <2>6 DEF Reads
    <2>8. \A i \in Reads(f) : i <= m - 1
      <3>1. \A i \in Reads(f) : i \in Nat /\ \A g \in 1..i : f.recs[g] # Torn
        BY <1>0 DEF Reads, Unbroken
      <3>2. \A i \in Nat : ~(i <= m - 1) => m \in 1..i
        BY <1>0, <2>5
      <3>. QED
        BY <2>5, <3>1, <3>2
    <2>9. m - 1 + 1 = m
      BY <1>0, <2>5
    <2>. QED
      BY <2>5, <2>7, <2>8, <2>9
  <1>. QED
    BY <1>2, <1>3

(* log::Reader gives the records before the first torn one.                *)
LEMMA ReadableWhole ==
  ASSUME NEW S, NEW f, f.recs \in Seq(S), f.synced \in Nat, f.synced <= Len(f.recs)
  PROVE  ToSet(Readable(f)) = Intact(f.recs, Len(f.recs))
  <1>1. PICK j \in Reads(f) : /\ Readable(f) = SubSeq(f.recs, 1, j)
                              /\ j = Len(f.recs) \/ f.recs[j + 1] = Torn
    BY ReadableIs
  <1>2. Len(f.recs) \in Nat /\ j \in 0..Len(f.recs) /\ Unbroken(f.recs, j)
    BY <1>1, LenProperties DEF Reads
  <1>3. DOMAIN Readable(f) = 1..j /\ \A i \in 1..j : Readable(f)[i] = f.recs[i]
    BY <1>1, <1>2, Prefix, LenProperties
  <1>4. ToSet(Readable(f)) = {f.recs[i] : i \in 1..j}
    BY <1>3 DEF ToSet
  <1>5. \A h \in 1..Len(f.recs) : Unbroken(f.recs, h) <=> h \in 1..j
    <2>1. ASSUME NEW h \in 1..Len(f.recs), Unbroken(f.recs, h), h \notin 1..j
          PROVE  FALSE
      <3>1. j + 1 \in 1..h /\ j # Len(f.recs)
        BY <1>2, <2>1
      <3>. QED
        BY <1>1, <2>1, <3>1 DEF Unbroken
    <2>2. ASSUME NEW h \in 1..j
          PROVE  Unbroken(f.recs, h)
      <3>1. \A g \in 1..h : g \in 1..j
        BY <1>2
      <3>. QED
        BY <1>2, <3>1 DEF Unbroken
    <2>. QED
      BY <2>1, <2>2
  <1>6. {h \in 1..Len(f.recs) : Unbroken(f.recs, h)} = 1..j
    BY <1>2, <1>5
  <1>. QED
    BY <1>4, <1>6 DEF Intact

(* What a crash leaves of a file, record by record.                        *)
LEMMA RemainsIs ==
  ASSUME NEW S, NEW f, f.recs \in Seq(S), f.synced \in Nat, f.synced <= Len(f.recs),
         NEW busy, NEW g \in Remains(f, busy)
  PROVE  \E k \in Low(f)..Len(f.recs) :
           \/ g = File(SubSeq(f.recs, 1, k), k)
           \/ (busy \/ k < Len(f.recs)) /\ g = File(Append(SubSeq(f.recs, 1, k), Torn), k + 1)
  <1>0. Len(f.recs) \in Nat
    BY LenProperties
  <1>1. PICK k \in IF Power THEN f.synced..Len(f.recs) ELSE {Len(f.recs)} :
          g \in {File(SubSeq(f.recs, 1, k), k)} \cup
                (IF busy \/ k < Len(f.recs)
                 THEN {File(Append(SubSeq(f.recs, 1, k), Torn), k + 1)} ELSE {})
    BY DEF Remains
  <1>2. k \in Low(f)..Len(f.recs)
    <2>1. CASE Power
      BY <1>0, <1>1, <2>1 DEF Low
    <2>2. CASE ~Power
      BY <1>0, <1>1, <2>2 DEF Low
    <2>. QED
      BY <2>1, <2>2
  <1>. QED
    BY <1>1, <1>2

(* A file after a crash: what it reads was read before, what was kept is   *)
(* kept, and nothing is in it that was not.                                *)
LeftOf(f, g, S, busy) ==
  /\ g = File(g.recs, g.synced)
  /\ g.recs \in Seq(S \cup {Torn}) /\ g.synced \in Nat /\ g.synced <= Len(g.recs)
  /\ \A j \in Reads(g) : j \in Reads(f) /\ \A i \in 1..j : g.recs[i] = f.recs[i]
  /\ Intact(f.recs, Low(f)) \subseteq Intact(g.recs, Low(g))
  /\ Intact(g.recs, Len(g.recs)) \subseteq Intact(f.recs, Len(f.recs))
  /\ \A i \in 1..Len(g.recs) :
       \/ i \in 1..Len(f.recs) /\ g.recs[i] = f.recs[i]
       \/ i = Len(g.recs) /\ g.recs[i] = Torn /\ (busy \/ i <= Len(f.recs))
  /\ busy \/ Len(g.recs) <= Len(f.recs)

(* What a crash leaves of a file is as LeftOf says.                        *)
LEMMA AfterCrash ==
  ASSUME NEW S, NEW f, f.recs \in Seq(S), f.synced \in Nat, f.synced <= Len(f.recs),
         NEW busy, NEW g \in Remains(f, busy)
  PROVE  LeftOf(f, g, S, busy)
  <1>0. Len(f.recs) \in Nat /\ Low(f) \in 0..Len(f.recs)
    BY LenProperties, LowBounded
  <1>1. PICK k \in Low(f)..Len(f.recs) :
           \/ g = File(SubSeq(f.recs, 1, k), k)
           \/ (busy \/ k < Len(f.recs)) /\ g = File(Append(SubSeq(f.recs, 1, k), Torn), k + 1)
    BY RemainsIs
  <1>2. k \in 0..Len(f.recs) /\ k \in Nat
    BY <1>0, <1>1
  <1>3. PICK cut \in Seq(S) : cut = SubSeq(f.recs, 1, k)
    BY <1>2, Prefix
  <1>4. Len(cut) = k /\ \A i \in 1..k : cut[i] = f.recs[i]
    BY <1>2, <1>3, Prefix
  <1>5. \E t \in {0, 1} :
          /\ g.recs \in Seq(S \cup {Torn}) /\ g.synced = k + t /\ Len(g.recs) = k + t
          /\ g = File(g.recs, g.synced)
          /\ \A i \in 1..k : g.recs[i] = f.recs[i]
          /\ t = 1 => g.recs[k + 1] = Torn /\ (busy \/ k < Len(f.recs))
    <2>1. CASE g = File(SubSeq(f.recs, 1, k), k)
      <3>1. g.recs = cut /\ g.synced = k /\ g = File(g.recs, g.synced)
        BY <1>3, <2>1 DEF File
      <3>2. cut \in Seq(S \cup {Torn})
        BY SeqMonotonic
      <3>3. k + 0 = k /\ 0 # 1
        BY <1>2
      <3>. QED
        BY <1>4, <3>1, <3>2, <3>3
    <2>2. CASE (busy \/ k < Len(f.recs)) /\ g = File(Append(SubSeq(f.recs, 1, k), Torn), k + 1)
      <3>1. g.recs = Append(cut, Torn) /\ g.synced = k + 1 /\ g = File(g.recs, g.synced)
        BY <1>3, <2>2 DEF File
      <3>2. cut \in Seq(S \cup {Torn}) /\ Torn \in S \cup {Torn}
        BY SeqMonotonic
      <3>3. /\ Append(cut, Torn) \in Seq(S \cup {Torn}) /\ Len(Append(cut, Torn)) = k + 1
            /\ \A i \in 1..k : Append(cut, Torn)[i] = cut[i]
            /\ Append(cut, Torn)[k + 1] = Torn
        BY <1>4, <3>2, AppendProperties
      <3>4. 1 \in {0, 1}
        OBVIOUS
      <3>. QED
        BY <1>4, <2>2, <3>1, <3>3, <3>4
    <2>. QED
      BY <1>1, <2>1, <2>2
  <1>6. PICK t \in {0, 1} :
          /\ g.recs \in Seq(S \cup {Torn}) /\ g.synced = k + t /\ Len(g.recs) = k + t
          /\ g = File(g.recs, g.synced)
          /\ \A i \in 1..k : g.recs[i] = f.recs[i]
          /\ t = 1 => g.recs[k + 1] = Torn /\ (busy \/ k < Len(f.recs))
    BY <1>5
  <1>7. Low(g) = k + t
    <2>1. CASE Power
      BY <1>6, <2>1 DEF Low
    <2>2. CASE ~Power
      BY <1>6, <2>2 DEF Low
    <2>. QED
      BY <2>1, <2>2
  <1>8. ASSUME NEW j \in Reads(g)
        PROVE  j \in Reads(f) /\ \A i \in 1..j : g.recs[i] = f.recs[i]
    <2>1. /\ j \in 0..(k + t) /\ \A i \in 1..j : g.recs[i] # Torn
          /\ j >= k + t \/ (j < k + t /\ g.recs[j + 1] = Torn)
      BY <1>6, <1>7 DEF Reads, Unbroken
    <2>2. j \in 0..k
      BY <1>2, <1>6, <2>1
    <2>3. \A i \in 1..j : g.recs[i] = f.recs[i]
      BY <1>2, <1>6, <2>2
    <2>4. Unbroken(f.recs, j)
      BY <2>1, <2>3 DEF Unbroken
    <2>5. j >= Low(f) \/ (j < Len(f.recs) /\ f.recs[j + 1] = Torn)
      <3>1. CASE j = k
        BY <1>0, <1>1, <1>2, <3>1
      <3>2. CASE j < k
        <4>1. j + 1 \in 1..k /\ g.recs[j + 1] = Torn
          BY <1>2, <1>6, <2>1, <2>2, <3>2
        <4>. QED
          BY <1>2, <1>6, <2>2, <4>1
      <3>. QED
        BY <1>2, <2>2, <3>1, <3>2
    <2>6. j \in 0..Len(f.recs)
      BY <1>2, <2>2
    <2>. QED
      BY <2>3, <2>4, <2>5, <2>6 DEF Reads
  <1>9. Intact(f.recs, Low(f)) \subseteq Intact(g.recs, Low(g))
    <2>1. ASSUME NEW h \in 1..Low(f), Unbroken(f.recs, h)
          PROVE  h \in 1..Low(g) /\ Unbroken(g.recs, h) /\ g.recs[h] = f.recs[h]
      <3>1. h \in 1..k /\ h \in 1..Low(g) /\ \A i \in 1..h : i \in 1..k
        BY <1>0, <1>1, <1>2, <1>6, <1>7
      <3>. QED
        BY <1>6, <2>1, <3>1 DEF Unbroken
    <2>. QED
      BY <2>1 DEF Intact
  <1>10. Intact(g.recs, Len(g.recs)) \subseteq Intact(f.recs, Len(f.recs))
    <2>1. ASSUME NEW h \in 1..Len(g.recs), Unbroken(g.recs, h)
          PROVE  h \in 1..Len(f.recs) /\ Unbroken(f.recs, h) /\ g.recs[h] = f.recs[h]
      <3>1. h \in 1..k
        <4>1. h \in 1..(k + t) /\ g.recs[h] # Torn
          BY <1>6, <2>1 DEF Unbroken
        <4>. QED
          BY <1>2, <1>6, <4>1
      <3>2. h \in 1..Len(f.recs) /\ \A i \in 1..h : i \in 1..k
        BY <1>2, <3>1
      <3>. QED
        BY <1>6, <2>1, <3>1, <3>2 DEF Unbroken
    <2>. QED
      BY <2>1 DEF Intact
  <1>11. ASSUME NEW i \in 1..Len(g.recs)
         PROVE  \/ i \in 1..Len(f.recs) /\ g.recs[i] = f.recs[i]
                \/ i = Len(g.recs) /\ g.recs[i] = Torn /\ (busy \/ i <= Len(f.recs))
    <2>1. CASE i <= k
      <3>1. i \in 1..k /\ i \in 1..Len(f.recs)
        BY <1>2, <2>1, <1>6
      <3>. QED
        BY <1>6, <3>1
    <2>2. CASE ~(i <= k)
      <3>1. t = 1 /\ i = k + 1
        BY <1>2, <1>6, <2>2
      <3>2. busy \/ k + 1 <= Len(f.recs)
        BY <1>0, <1>2, <1>6, <3>1
      <3>. QED
        BY <1>6, <3>1, <3>2
    <2>. QED
      BY <2>1, <2>2
  <1>12. busy \/ Len(g.recs) <= Len(f.recs)
    BY <1>0, <1>2, <1>6
  <1>13. g.synced \in Nat /\ g.synced <= Len(g.recs)
    BY <1>2, <1>6
  <1>. QED
    BY <1>6, <1>8, <1>9, <1>10, <1>11, <1>12, <1>13 DEF LeftOf

(* The sequence number after the records of a log.                         *)
LEMMA NumberedAfter ==
  ASSUME NEW f, f.recs \in Seq(Entry \cup {Torn}), NEW last \in Nat
  PROVE  LET W == Intact(f.recs, Len(f.recs)) IN
         /\ W \in SUBSET Entry
         /\ MaxSequence(last, W) \in Nat /\ last <= MaxSequence(last, W)
         /\ UpTo(W, MaxSequence(last, W))
  <1>. DEFINE W == Intact(f.recs, Len(f.recs))
              seqs == [i \in 1..Len(f.recs) |-> IF f.recs[i] \in Entry THEN f.recs[i].seq ELSE 0]
              Q == {last} \cup {r.seq : r \in W}
  <1>0. Len(f.recs) \in Nat /\ \A i \in 1..Len(f.recs) : f.recs[i] \in Entry \cup {Torn}
    BY LenProperties, ElementOfSeq
  <1>1. \A r \in W : \E i \in 1..Len(f.recs) : r = f.recs[i] /\ r # Torn
    <2>1. \A h \in 1..Len(f.recs) : Unbroken(f.recs, h) => f.recs[h] # Torn
      BY <1>0 DEF Unbroken
    <2>. QED
      BY <2>1 DEF Intact
  <1>2. W \in SUBSET Entry
    BY <1>0, <1>1
  <1>3. \A r \in Entry : r.seq \in Nat
    BY DEF Entry
  <1>4. seqs \in Seq(Nat) /\ Len(seqs) = Len(f.recs)
    <2>1. \A i \in 1..Len(f.recs) : (IF f.recs[i] \in Entry THEN f.recs[i].seq ELSE 0) \in Nat
      BY <1>3
    <2>2. seqs \in Seq(Nat)
      BY <1>0, <2>1, IsASeq
    <2>3. DOMAIN seqs = 1..Len(seqs) /\ DOMAIN seqs = 1..Len(f.recs) /\ Len(seqs) \in Nat
      <3>1. DOMAIN seqs = 1..Len(f.recs)
        OBVIOUS
      <3>. HIDE DEF seqs
      <3>. QED
        BY <2>2, <3>1, LenProperties
    <2>. HIDE DEF seqs
    <2>. QED
      BY <1>0, <2>2, <2>3
  <1>5. PICK b \in Nat : \A i \in 1..Len(seqs) : seqs[i] <= b
    <2>. HIDE DEF seqs
    <2>. QED
      BY <1>4, BoundedSequence
  <1>6. PICK c \in Nat : b <= c /\ last <= c
    BY TwoBounded
  <1>7. \A r \in W : r.seq <= b
    <2>1. ASSUME NEW r \in W
          PROVE  r.seq <= b
      <3>1. PICK i \in 1..Len(f.recs) : r = f.recs[i]
        BY <1>1
      <3>2. seqs[i] = r.seq
        BY <1>2, <3>1
      <3>. QED
        BY <1>4, <1>5, <3>2
    <2>. QED
      BY <2>1
  <1>8. Q \in SUBSET Nat /\ Q # {}
    BY <1>2, <1>3
  <1>9. \A n \in Q : n <= c
    <2>1. \A x, y, z \in Nat : x <= y /\ y <= z => x <= z
      OBVIOUS
    <2>2. \A r \in W : r.seq \in Nat
      BY <1>2, <1>3
    <2>. HIDE DEF W
    <2>. QED
      BY <1>6, <1>7, <2>1, <2>2
  <1>10. Max(Q) \in Q /\ \A n \in Q : n <= Max(Q)
    <2>. HIDE DEF Q
    <2>. QED
      BY <1>8, <1>9, MaxIs
  <1>11. MaxSequence(last, W) = Max(Q)
    BY DEF MaxSequence
  <1>12. last \in Q /\ \A r \in W : r.seq \in Q
    OBVIOUS
  <1>13. Max(Q) \in Nat /\ last <= Max(Q) /\ \A r \in W : r.seq <= Max(Q)
    <2>. HIDE DEF Q
    <2>. QED
      BY <1>8, <1>10, <1>12
  <1>14. UpTo(W, Max(Q))
    <2>. HIDE DEF Q, W
    <2>. QED
      BY <1>13 DEF UpTo
  <1>. QED
    BY <1>2, <1>11, <1>13, <1>14

-----------------------------------------------------------------------------
(* The version that a MANIFEST describes.                                  *)

(* Which tables the builder has after some edits.                          *)
LEMMA VersionIs ==
  ASSUME NEW S, NEW recs \in Seq(S), NEW j \in 0..Len(recs)
  PROVE  \A n : n \in VersionAt(recs, j) <=>
                \E i \in 1..j : n \in recs[i].add /\ \A k \in 1..j : k > i => n \notin recs[k].del
  <1>1. PICK s \in Seq(S) : s = SubSeq(recs, 1, j)
    BY Prefix
  <1>2. DOMAIN s = 1..j /\ \A i \in 1..j : s[i] = recs[i]
    BY <1>1, Prefix, LenProperties
  <1>3. VersionAt(recs, j) = Builder(s)
    BY <1>1 DEF VersionAt
  <1>. QED
    BY <1>2, <1>3 DEF Builder

(* Files with the same edits build the same version.                       *)
LEMMA VersionPrefix ==
  ASSUME NEW S, NEW T, NEW recs \in Seq(S), NEW more \in Seq(T),
         NEW j \in 0..Len(recs), j <= Len(more), \A i \in 1..j : recs[i] = more[i]
  PROVE  VersionAt(recs, j) = VersionAt(more, j)
  <1>1. j \in 0..Len(more)
    BY LenProperties
  <1>2. \A n : n \in VersionAt(recs, j) <=>
                \E i \in 1..j : n \in recs[i].add /\ \A k \in 1..j : k > i => n \notin recs[k].del
    BY VersionIs
  <1>3. \A n : n \in VersionAt(more, j) <=>
                \E i \in 1..j : n \in more[i].add /\ \A k \in 1..j : k > i => n \notin more[k].del
    BY <1>1, VersionIs
  <1>4. \A n : n \in VersionAt(recs, j) <=> n \in VersionAt(more, j)
    BY <1>2, <1>3
  <1>. QED
    BY <1>4

(* One more edit deletes its tables and adds its own.                      *)
LEMMA VersionNext ==
  ASSUME NEW S, NEW recs \in Seq(S), NEW j \in Nat, j + 1 \in 1..Len(recs)
  PROVE  VersionAt(recs, j + 1) = (VersionAt(recs, j) \ recs[j + 1].del) \cup recs[j + 1].add
  <1>1. Len(recs) \in Nat /\ j \in 0..Len(recs) /\ j + 1 \in 0..Len(recs)
    BY LenProperties
  <1>2. \A n : n \in VersionAt(recs, j) <=>
                \E i \in 1..j : n \in recs[i].add /\ \A k \in 1..j : k > i => n \notin recs[k].del
    BY <1>1, VersionIs
  <1>3. \A n : n \in VersionAt(recs, j + 1) <=>
                \E i \in 1..(j + 1) : n \in recs[i].add /\ \A k \in 1..(j + 1) : k > i => n \notin recs[k].del
    BY <1>1, VersionIs
  <1>4. ASSUME NEW n, n \in VersionAt(recs, j + 1)
        PROVE  n \in (VersionAt(recs, j) \ recs[j + 1].del) \cup recs[j + 1].add
    <2>1. PICK i \in 1..(j + 1) : n \in recs[i].add /\ \A k \in 1..(j + 1) : k > i => n \notin recs[k].del
      BY <1>3, <1>4
    <2>2. CASE i = j + 1
      BY <2>1, <2>2
    <2>3. CASE i # j + 1
      <3>1. i \in 1..j /\ j + 1 \in 1..(j + 1) /\ j + 1 > i /\ \A k \in 1..j : k \in 1..(j + 1)
        BY <2>3
      <3>2. n \notin recs[j + 1].del
        BY <2>1, <3>1
      <3>3. n \in recs[i].add /\ \A k \in 1..j : k > i => n \notin recs[k].del
        BY <2>1, <3>1
      <3>4. n \in VersionAt(recs, j)
        BY <1>2, <3>1, <3>3
      <3>. QED
        BY <3>2, <3>4
    <2>. QED
      BY <2>2, <2>3
  <1>5. ASSUME NEW n, n \in recs[j + 1].add
        PROVE  n \in VersionAt(recs, j + 1)
    <2>1. j + 1 \in 1..(j + 1) /\ \A k \in 1..(j + 1) : ~(k > j + 1)
      OBVIOUS
    <2>. QED
      BY <1>3, <1>5, <2>1
  <1>6. ASSUME NEW n, n \in VersionAt(recs, j), n \notin recs[j + 1].del
        PROVE  n \in VersionAt(recs, j + 1)
    <2>1. PICK i \in 1..j : n \in recs[i].add /\ \A k \in 1..j : k > i => n \notin recs[k].del
      BY <1>2, <1>6
    <2>2. i \in 1..(j + 1) /\ \A k \in 1..(j + 1) : k \in 1..j \/ k = j + 1
      OBVIOUS
    <2>3. \A k \in 1..(j + 1) : k > i => n \notin recs[k].del
      BY <1>6, <2>1, <2>2
    <2>. QED
      BY <1>3, <2>1, <2>2, <2>3
  <1>. QED
    BY <1>4, <1>5, <1>6

(* No edits build an empty version.                                        *)
LEMMA VersionOfNone ==
  ASSUME NEW S, NEW recs \in Seq(S)
  PROVE  VersionAt(recs, 0) = {}
  <1>1. 0 \in 0..Len(recs)
    BY LenProperties
  <1>2. \A n : n \notin VersionAt(recs, 0)
    BY <1>1, VersionIs
  <1>. QED
    BY <1>2

-----------------------------------------------------------------------------
(* What a step does to the files.                                          *)

(* Put adds or replaces one file.                                          *)
LEMMA PutIs ==
  ASSUME NEW files, NEW n, NEW f
  PROVE  /\ DOMAIN Put(files, n, f) = DOMAIN files \cup {n} /\ Put(files, n, f)[n] = f
         /\ \A m \in DOMAIN files : m # n => Put(files, n, f)[m] = files[m]
  BY DEF Put

(* AppendTo adds a record to one file.                                     *)
LEMMA AppendToIs ==
  ASSUME NEW files, NEW n \in DOMAIN files, NEW r, files[n] = File(files[n].recs, files[n].synced)
  PROVE  /\ DOMAIN AppendTo(files, n, r) = DOMAIN files
         /\ AppendTo(files, n, r)[n] = File(Append(files[n].recs, r), files[n].synced)
         /\ \A m \in DOMAIN files : m # n => AppendTo(files, n, r)[m] = files[m]
  BY DEF AppendTo, File

(* SyncFile syncs all of one file.                                         *)
LEMMA SyncFileIs ==
  ASSUME NEW files, NEW n \in DOMAIN files, files[n] = File(files[n].recs, files[n].synced)
  PROVE  /\ DOMAIN SyncFile(files, n) = DOMAIN files
         /\ SyncFile(files, n)[n] = File(files[n].recs, Len(files[n].recs))
         /\ \A m \in DOMAIN files : m # n => SyncFile(files, n)[m] = files[m]
  BY DEF SyncFile, File

(* Restrict deletes files and leaves the others.                           *)
LEMMA RestrictIs ==
  ASSUME NEW files, NEW S
  PROVE  /\ DOMAIN Restrict(files, DOMAIN files \ S) = DOMAIN files \ S
         /\ \A m \in DOMAIN files \ S : Restrict(files, DOMAIN files \ S)[m] = files[m]
  BY DEF Restrict

(* A torn record is neither a write nor an edit.                           *)
LEMMA TornIsNone ==
  Torn \notin Entry /\ Torn \notin Edit
  <1>1. DOMAIN Torn = {"torn"}
    BY DEF Torn
  <1>2. \A e \in Entry : "id" \in DOMAIN e
    BY DEF Entry
  <1>3. \A e \in Edit : "log" \in DOMAIN e
    BY DEF Edit
  <1>. QED
    BY <1>1, <1>2, <1>3

(* The fields of a file.                                                   *)
LEMMA FileTyped ==
  ASSUME NEW S, NEW recs, NEW n
  PROVE  /\ File(recs, n).recs = recs /\ File(recs, n).synced = n
         /\ (recs \in Seq(S) /\ n \in Nat) => File(recs, n) \in [recs : Seq(S), synced : Nat]
         /\ \A f \in [recs : Seq(S), synced : Nat] :
              f = File(f.recs, f.synced) /\ f.recs \in Seq(S) /\ f.synced \in Nat
  BY DEF File

(* The logs that a restart would read keep what they keep, and hold no     *)
(* more than they held.                                                    *)
LogsKept(low) ==
  /\ \A n \in DOMAIN logs : n >= low => n \in DOMAIN logs' /\ Kept(n) \subseteq Kept(n)'
  /\ \A n \in DOMAIN logs' : n >= low =>
       Whole(n)' = {} \/ (n \in DOMAIN logs /\ Whole(n)' \subseteq Whole(n))

(* A version with its logs still starts a database when they keep what     *)
(* they keep.                                                              *)
LEMMA StartsStays ==
  ASSUME NEW ver, NEW e, Starts(ver, e), LogsKept(e.log),
         UNCHANGED <<current, synced, acked>>,
         ver \subseteq DOMAIN tables', \A n \in ver : tables'[n] = tables[n]
  PROVE  Starts(ver, e)'
  <1>1. Durable' = Durable
    BY DEF Durable
  <1>2. TableWrites(ver)' = TableWrites(ver)
    BY DEF TableWrites
  <1>3. KeptLogs(e.log) \subseteq KeptLogs(e.log)'
    BY DEF KeptLogs, LogsKept
  <1>4. ReadLogs(FromLog(e.log))' \subseteq ReadLogs(FromLog(e.log))
    BY DEF ReadLogs, FromLog, LogsKept
  <1>. QED
    BY <1>1, <1>2, <1>3, <1>4 DEF Starts, UpTo, Distinct

(* Logs that are not touched keep what they keep.                          *)
LEMMA LogsUnchanged ==
  ASSUME NEW low, UNCHANGED logs
  PROVE  LogsKept(low)
  BY DEF LogsKept, Kept, Whole, Low

-----------------------------------------------------------------------------
(* What a step leaves as it was.                                           *)

(* A step that leaves the MANIFEST that CURRENT names, what the logs keep  *)
(* and the tables of the versions it may be read as.                       *)
LEMMA DescribedEach ==
  ASSUME Described, UNCHANGED <<current, synced, acked>>, pc' # "newdb",
         current # 0 => /\ current \in DOMAIN manifests'
                        /\ manifests'[current] = manifests[current],
         current # 0 => \A j \in Reads(Descriptor) : Opens(Descriptor.recs, j) =>
           /\ LogsKept(Descriptor.recs[j].log)
           /\ VersionAt(Descriptor.recs, j) \subseteq DOMAIN tables'
           /\ \A n \in VersionAt(Descriptor.recs, j) : tables'[n] = tables[n]
  PROVE  Described'
  <1>1. SUFFICES ASSUME current # 0
                 PROVE  Described'
    BY DEF Described
  <1>2. Descriptor' = Descriptor
    BY <1>1 DEF Descriptor
  <1>3. ASSUME NEW j \in Reads(Descriptor), Opens(Descriptor.recs, j)
        PROVE  Starts(VersionAt(Descriptor.recs, j), Descriptor.recs[j])'
    <2>1. PICK v, e : v = VersionAt(Descriptor.recs, j) /\ e = Descriptor.recs[j]
      OBVIOUS
    <2>2. Starts(v, e)
      BY <1>1, <1>3, <2>1 DEF Described
    <2>3. LogsKept(e.log) /\ v \subseteq DOMAIN tables' /\ \A n \in v : tables'[n] = tables[n]
      BY <1>1, <1>3, <2>1
    <2>4. Starts(v, e)'
      BY <2>2, <2>3, StartsStays
    <2>5. (VersionAt(Descriptor.recs, j) = v /\ Descriptor.recs[j] = e)'
      BY <1>2, <2>1
    <2>. QED
      BY <2>4, <2>5
  <1>. QED
    BY <1>1, <1>2, <1>3 DEF Described

(* The same when the logs keep all they kept.                              *)
LEMMA DescribedStays ==
  ASSUME Described, UNCHANGED <<current, synced, acked>>, pc' # "newdb",
         \A low : LogsKept(low),
         current # 0 => /\ current \in DOMAIN manifests'
                        /\ manifests'[current] = manifests[current],
         current # 0 => \A j \in Reads(Descriptor) : Opens(Descriptor.recs, j) =>
           /\ VersionAt(Descriptor.recs, j) \subseteq DOMAIN tables'
           /\ \A n \in VersionAt(Descriptor.recs, j) : tables'[n] = tables[n]
  PROVE  Described'
  BY DescribedEach

(* Numbers already taken stay taken when the next number only grows.       *)
LEMMA BehindStays ==
  ASSUME Behind, Descriptor' = Descriptor, Typed, Typed', db.next <= db'.next,
         \A j \in Reads(Descriptor) : Opens(Descriptor.recs, j) => Descriptor.recs[j].next \in Nat
  PROVE  Behind'
  <1>1. db.next \in Nat /\ db'.next \in Nat
    BY DEF Typed, StateTyped, Db
  <1>. QED
    BY <1>1 DEF Behind

(* A reading of the MANIFEST ends with an edit.                            *)
LEMMA ReadsTyped ==
  ASSUME ManifestsTyped, current \in DOMAIN manifests,
         NEW j \in Reads(Descriptor), Opens(Descriptor.recs, j)
  PROVE  /\ j \in 1..Len(Descriptor.recs) /\ Descriptor.recs[j] \in Edit
         /\ Unbroken(Descriptor.recs, j)
  <1>1. Descriptor \in ManifestFile
    BY DEF ManifestsTyped, Descriptor
  <1>2. Descriptor.recs \in Seq(Edit \cup {Torn}) /\ Len(Descriptor.recs) \in Nat
    BY <1>1, LenProperties DEF ManifestFile
  <1>3. j \in 0..Len(Descriptor.recs) /\ Unbroken(Descriptor.recs, j) /\ j > 0
    BY DEF Reads, Opens
  <1>4. j \in 1..Len(Descriptor.recs) /\ j \in 1..j
    BY <1>2, <1>3
  <1>5. Descriptor.recs[j] # Torn
    BY <1>3, <1>4 DEF Unbroken
  <1>. QED
    BY <1>2, <1>3, <1>4, <1>5, ElementOfSeq

(* A new table, under a number that no edit has named.                     *)
LEMMA TablesPut ==
  ASSUME TablesTyped, NEW n \in Nat, NEW W \in SUBSET Entry, tables' = Put(tables, n, W)
  PROVE  /\ TablesTyped' /\ DOMAIN tables' = DOMAIN tables \cup {n} /\ tables'[n] = W
         /\ \A m \in DOMAIN tables : m # n => tables'[m] = tables[m]
  <1>1. /\ DOMAIN tables' = DOMAIN tables \cup {n} /\ tables'[n] = W
        /\ \A m \in DOMAIN tables : m # n => tables'[m] = tables[m]
    BY DEF Put
  <1>. QED
    BY <1>1 DEF TablesTyped

(* No version that a restart may read has the table with the next number.  *)
LEMMA NewTableHidden ==
  ASSUME Typed, Described, Behind, current # 0,
         NEW W, tables' = Put(tables, db.next, W)
  PROVE  \A j \in Reads(Descriptor) : Opens(Descriptor.recs, j) =>
           /\ VersionAt(Descriptor.recs, j) \subseteq DOMAIN tables'
           /\ \A n \in VersionAt(Descriptor.recs, j) : tables'[n] = tables[n]
  <1>1. SUFFICES ASSUME NEW j \in Reads(Descriptor), Opens(Descriptor.recs, j)
                 PROVE  /\ VersionAt(Descriptor.recs, j) \subseteq DOMAIN tables'
                        /\ \A n \in VersionAt(Descriptor.recs, j) : tables'[n] = tables[n]
    OBVIOUS
  <1>2. PICK v, e : v = VersionAt(Descriptor.recs, j) /\ e = Descriptor.recs[j]
    OBVIOUS
  <1>3. v \subseteq DOMAIN tables /\ \A n \in v : n < e.next
    BY <1>1, <1>2 DEF Described, Starts
  <1>4. e \in Edit
    BY <1>1, <1>2, ReadsTyped DEF Typed, Described
  <1>5. e.next <= db.next /\ e.next \in Nat /\ db.next \in Nat
    BY <1>1, <1>2, <1>4 DEF Behind, Typed, StateTyped, Edit, Db
  <1>6. \A n \in v : n # db.next
    BY <1>3, <1>5 DEF Typed, TablesTyped
  <1>7. /\ DOMAIN tables' = DOMAIN tables \cup {db.next}
        /\ \A m \in DOMAIN tables : m # db.next => tables'[m] = tables[m]
    BY DEF Put
  <1>. QED
    BY <1>2, <1>3, <1>6, <1>7

(* Tables that are not touched are still those of the versions read.       *)
LEMMA SameTables ==
  ASSUME Described, current # 0, UNCHANGED tables
  PROVE  \A j \in Reads(Descriptor) : Opens(Descriptor.recs, j) =>
           /\ VersionAt(Descriptor.recs, j) \subseteq DOMAIN tables'
           /\ \A n \in VersionAt(Descriptor.recs, j) : tables'[n] = tables[n]
  BY DEF Described, Starts

(* A new log.                                                              *)
LEMMA EmptyLog ==
  ASSUME NEW f, Len(f.recs) = 0
  PROVE  \A k : Intact(f.recs, 0) = {} /\ Unbroken(f.recs, 0)
  BY DEF Intact, Unbroken

(* A new, empty log leaves what the others keep.                           *)
LEMMA LogsPut ==
  ASSUME LogsTyped, NEW n \in 1..MaxNumber, n \notin DOMAIN logs,
         logs' = Put(logs, n, File(<<>>, 0))
  PROVE  /\ LogsTyped' /\ \A low : LogsKept(low)
         /\ DOMAIN logs' = DOMAIN logs \cup {n}
         /\ logs'[n].recs = <<>> /\ Whole(n)' = {} /\ Kept(n)' = {}
         /\ \A m \in DOMAIN logs : m # n /\ logs'[m] = logs[m]
         /\ \A m \in DOMAIN logs : Whole(m)' = Whole(m) /\ Kept(m)' = Kept(m)
  <1>1. /\ DOMAIN logs' = DOMAIN logs \cup {n} /\ logs'[n] = File(<<>>, 0)
        /\ \A m \in DOMAIN logs : m # n /\ logs'[m] = logs[m]
    BY DEF Put
  <1>2. logs'[n].recs = <<>> /\ logs'[n].synced = 0 /\ Len(<<>>) = 0
    BY <1>1, EmptySeq DEF File
  <1>3. logs'[n] \in LogFile
    <2>1. File(<<>>, 0) \in LogFile
      <3>1. <<>> \in Seq(Entry \cup {Torn}) /\ 0 \in Nat
        BY EmptySeq
      <3>. QED
        BY <3>1 DEF LogFile, File
    <2>. QED
      BY <1>1, <2>1
  <1>4. LogsTyped'
    BY <1>1, <1>2, <1>3 DEF LogsTyped
  <1>5. Low(logs'[n]) = 0
    BY <1>2 DEF Low
  <1>6. Whole(n)' = {} /\ Kept(n)' = {}
    BY <1>2, <1>5, EmptyLog DEF Whole, Kept
  <1>7. \A m \in DOMAIN logs : Whole(m)' = Whole(m) /\ Kept(m)' = Kept(m)
    BY <1>1 DEF Whole, Kept, Low
  <1>8. \A low : LogsKept(low)
    BY <1>1, <1>6, <1>7 DEF LogsKept
  <1>. QED
    BY <1>1, <1>2, <1>4, <1>6, <1>7, <1>8

(* What a log keeps is part of what it gives.                              *)
LEMMA KeptIsWhole ==
  ASSUME LogsTyped, NEW n \in DOMAIN logs
  PROVE  Kept(n) \subseteq Whole(n) /\ Whole(n) \in SUBSET Entry
  <1>1. /\ logs[n].recs \in Seq(Entry \cup {Torn}) /\ logs[n].synced \in Nat
        /\ logs[n].synced <= Len(logs[n].recs)
    BY DEF LogsTyped, LogFile
  <1>2. Low(logs[n]) \in 0..Len(logs[n].recs) /\ Len(logs[n].recs) \in Nat
    BY <1>1, LowBounded, LenProperties
  <1>3. \A h \in 1..Low(logs[n]) : h \in 1..Len(logs[n].recs)
    BY <1>2
  <1>4. Kept(n) \subseteq Whole(n)
    BY <1>3 DEF Kept, Whole, Intact
  <1>5. 0 \in Nat
    OBVIOUS
  <1>6. Whole(n) \in SUBSET Entry
    BY <1>1, <1>5, NumberedAfter DEF Whole
  <1>. QED
    BY <1>4, <1>6

(* A crash leaves in the logs what they keep, and adds nothing.            *)
LEMMA CrashedLogs ==
  ASSUME LogsTyped, Crash
  PROVE  LogsTyped' /\ DOMAIN logs' = DOMAIN logs /\ \A low : LogsKept(low)
  <1>1. DOMAIN logs' = DOMAIN logs /\ \A n \in DOMAIN logs : logs'[n] \in Remains(logs[n], LoggingWrite(n))
    BY DEF Crash
  <1>2. ASSUME NEW n \in DOMAIN logs
        PROVE  /\ logs'[n] \in LogFile /\ logs'[n].synced <= Len(logs'[n].recs)
               /\ Kept(n) \subseteq Kept(n)' /\ Whole(n)' \subseteq Whole(n)
    <2>1. PICK f, g : f = logs[n] /\ g = logs'[n]
      OBVIOUS
    <2>2. /\ f.recs \in Seq(Entry \cup {Torn}) /\ f.synced \in Nat /\ f.synced <= Len(f.recs)
          /\ g \in Remains(f, LoggingWrite(n))
      BY <1>1, <2>1 DEF LogsTyped, LogFile
    <2>3. PICK S : S = Entry \cup {Torn} /\ S \cup {Torn} = S
      OBVIOUS
    <2>8. f.recs \in Seq(S)
      BY <2>2, <2>3
    <2>9. PICK busy : busy = LoggingWrite(n)
      OBVIOUS
    <2>10. g \in Remains(f, busy)
      BY <2>2, <2>9
    <2>11. LeftOf(f, g, S, busy)
      BY <2>2, <2>8, <2>10, AfterCrash
    <2>4. /\ g = File(g.recs, g.synced)
          /\ g.recs \in Seq(S \cup {Torn}) /\ g.synced \in Nat /\ g.synced <= Len(g.recs)
          /\ Intact(f.recs, Low(f)) \subseteq Intact(g.recs, Low(g))
          /\ Intact(g.recs, Len(g.recs)) \subseteq Intact(f.recs, Len(f.recs))
      BY <2>11 DEF LeftOf
    <2>5. g \in LogFile
      BY <2>3, <2>4 DEF LogFile, File
    <2>6. Kept(n) = Intact(f.recs, Low(f)) /\ Whole(n) = Intact(f.recs, Len(f.recs))
      BY <2>1 DEF Kept, Whole
    <2>7. Kept(n)' = Intact(g.recs, Low(g)) /\ Whole(n)' = Intact(g.recs, Len(g.recs))
      BY <2>1 DEF Kept, Whole
    <2>. QED
      BY <2>1, <2>4, <2>5, <2>6, <2>7
  <1>. QED
    BY <1>1, <1>2 DEF LogsTyped, LogsKept

-----------------------------------------------------------------------------
(* DB::Open keeps the invariant.                                           *)

(* A new MANIFEST leaves the others.                                       *)
LEMMA ManifestsPut ==
  ASSUME ManifestsTyped, NEW n \in Nat, NEW f \in ManifestFile, f.synced <= Len(f.recs),
         manifests' = Put(manifests, n, f)
  PROVE  /\ ManifestsTyped' /\ DOMAIN manifests' = DOMAIN manifests \cup {n} /\ manifests'[n] = f
         /\ \A m \in DOMAIN manifests : m # n => manifests'[m] = manifests[m]
  <1>1. /\ DOMAIN manifests' = DOMAIN manifests \cup {n} /\ manifests'[n] = f
        /\ \A m \in DOMAIN manifests : m # n => manifests'[m] = manifests[m]
    BY DEF Put
  <1>. QED
    BY <1>1 DEF ManifestsTyped

First == [NoEdit EXCEPT !.next = 2]

(* The edit of NewDB.                                                      *)
LEMMA FirstIs ==
  ASSUME RecoveryAssumption
  PROVE  /\ First \in Edit /\ First.next = 2 /\ First.log = 0 /\ First.last = 0
         /\ First.add = {} /\ First.del = {}
         /\ File(<<First>>, 0) \in ManifestFile /\ File(<<First>>, 0).synced = 0
         /\ File(<<First>>, 0).recs = <<First>>
         /\ <<First>> \in Seq(Edit \cup {Torn}) /\ Len(<<First>>) = 1 /\ <<First>>[1] = First
  <1>1. 2 \in 0..(MaxNumber + 1) /\ 0 \in 0..MaxNumber /\ 0 \in Nat
    BY DEF RecoveryAssumption
  <1>2. /\ First \in Edit /\ First.next = 2 /\ First.log = 0 /\ First.last = 0
        /\ First.add = {} /\ First.del = {}
    BY <1>1 DEF First, NoEdit, Edit
  <1>3. <<First>> \in Seq(Edit \cup {Torn}) /\ Len(<<First>>) = 1 /\ <<First>>[1] = First
    BY <1>2
  <1>4. /\ File(<<First>>, 0) \in ManifestFile /\ File(<<First>>, 0).synced = 0
        /\ File(<<First>>, 0).recs = <<First>>
    BY <1>1, <1>3 DEF ManifestFile, File
  <1>. QED
    BY <1>2, <1>3, <1>4

(* The process that has not started, and the edit that changes nothing.    *)
LEMMA NoDbIs ==
  ASSUME RecoveryAssumption
  PROVE
  /\ NoDb \in Db /\ Len(NoDb.imm) = 0 /\ NoEdit \in Edit
  /\ NoDb.mem = {} /\ NoDb.imm = <<>> /\ NoDb.todo = {} /\ NoDb.error = FALSE /\ NoDb.log = 0
  /\ NoEdit.add = {} /\ NoEdit.del = {} /\ NoEdit.next = 0 /\ NoEdit.log = 0 /\ NoEdit.last = 0
  <1>1. 0 \in 0..MaxNumber /\ 1 \in 1..(MaxNumber + 2) /\ 0 \in 0..(MaxNumber + 1) /\ 0 \in Nat
    BY DEF RecoveryAssumption
  <1>2. FALSE \in BOOLEAN /\ <<>> \in Seq(SUBSET Entry) /\ Len(<<>>) = 0 /\ {} \in SUBSET Entry
    BY EmptySeq
  <1>3. NoDb \in Db
    BY <1>1, <1>2 DEF NoDb, Db
  <1>4. NoEdit \in Edit
    BY <1>1 DEF NoEdit, Edit
  <1>. QED
    BY <1>2, <1>3, <1>4 DEF NoDb, NoEdit

(* NewDB: a MANIFEST that CURRENT does not name yet.                       *)
LEMMA NewManifestKeeps ==
  ASSUME RecoveryAssumption, IInv, NewManifest
  PROVE  IInv'
  <1>0. Typed /\ Nothing /\ Stopped
    BY DEF IInv
  <1>1. /\ pc = "down" /\ current = 0 /\ pc' = "newdb" /\ manifests' = Put(manifests, 1, File(<<First>>, 0))
        /\ UNCHANGED <<current, logs, tables, db, edit, ids, crashes, synced, acked>>
    BY DEF NewManifest, First, history
  <1>2. ManifestsTyped' /\ DOMAIN manifests' = DOMAIN manifests \cup {1} /\ manifests'[1] = File(<<First>>, 0)
    <2>1. PICK f \in ManifestFile : f = File(<<First>>, 0)
      BY FirstIs
    <2>2. f.synced <= Len(f.recs) /\ 1 \in Nat
      BY <2>1, FirstIs
    <2>. QED
      BY <1>0, <1>1, <2>1, <2>2, ManifestsPut DEF Typed
  <1>3. Typed'
    BY <1>0, <1>1, <1>2 DEF Typed, LogsTyped, TablesTyped, StateTyped, PCs
  <1>4. Nothing'
    BY <1>0, <1>1, <1>2 DEF Nothing, First
  <1>5. Stopped'
    BY <1>0, <1>1 DEF Stopped
  <1>. QED
    BY <1>1, <1>3, <1>4, <1>5
    DEF IInv, Described, OpensWell, Recovering, Replaying, Renewing, Renewed, Running

(* NewDB: CURRENT names it, and it describes an empty database.            *)
LEMMA SetFirstCurrentKeeps ==
  ASSUME RecoveryAssumption, IInv, SetFirstCurrent
  PROVE  IInv'
  <1>0. Typed /\ Nothing /\ Described /\ Stopped
    BY DEF IInv
  <1>1. /\ pc = "newdb" /\ current' = 1 /\ pc' = "down"
        /\ UNCHANGED <<manifests, logs, tables, db, edit, ids, crashes, synced, acked>>
    BY DEF SetFirstCurrent, history
  <1>2. current = 0 /\ logs = Empty /\ tables = Empty /\ acked = {} /\ synced = {}
        /\ 1 \in DOMAIN manifests /\ manifests[1] = File(<<First>>, 0)
    BY <1>0, <1>1 DEF Nothing, Described, Typed, StateTyped, First
  <1>3. Typed'
    BY <1>0, <1>1 DEF Typed, LogsTyped, ManifestsTyped, TablesTyped, StateTyped, PCs
  <1>4. Descriptor' = File(<<First>>, 0)
    BY <1>1, <1>2 DEF Descriptor
  <1>5. Durable' = {}
    BY <1>1, <1>2 DEF Durable
  <1>6. VersionAt(<<First>>, 1) = {}
    <2>1. 0 + 1 \in 1..Len(<<First>>) /\ 0 \in Nat /\ 0 + 1 = 1
      BY FirstIs
    <2>2. VersionAt(<<First>>, 0 + 1) = (VersionAt(<<First>>, 0) \ <<First>>[0 + 1].del) \cup <<First>>[0 + 1].add
      BY <2>1, FirstIs, VersionNext
    <2>3. VersionAt(<<First>>, 0) = {}
      BY FirstIs, VersionOfNone
    <2>. QED
      BY <2>1, <2>2, <2>3, FirstIs
  <1>7. Starts({}, First)'
    <2>1. \A low : FromLog(low)' = {} /\ KeptLogs(low)' = {}
      BY <1>1, <1>2 DEF FromLog, KeptLogs, Empty
    <2>2. TableWrites({})' = {} /\ ReadLogs({})' = {}
      BY DEF TableWrites, ReadLogs
    <2>. QED
      BY <1>1, <1>5, <2>1, <2>2, FirstIs DEF Starts, UpTo, Distinct
  <1>8. \A j \in Reads(Descriptor)' : j = 0 \/ j = 1
    <2>1. \A j \in Reads(File(<<First>>, 0)) : j = 0 \/ j = 1
      <3>1. PICK f : f = File(<<First>>, 0) /\ Len(f.recs) = 1
        BY FirstIs
      <3>2. \A j \in Reads(f) : j \in 0..1
        BY <3>1 DEF Reads
      <3>. QED
        BY <3>1, <3>2
    <2>. QED
      BY <1>4, <2>1
  <1>9. ~Power => 0 \notin Reads(Descriptor)'
    <2>1. ~Power => 0 \notin Reads(File(<<First>>, 0))
      BY FirstIs, TornIsNone DEF Reads, Low
    <2>. QED
      BY <1>4, <2>1
  <1>10. Described'
    <2>1. current' # 0 /\ current' \in DOMAIN manifests' /\ pc' # "newdb"
      BY <1>1, <1>2
    <2>2. (\A i \in 1..Len(Descriptor.recs) : Descriptor.recs[i] = Torn => i = Len(Descriptor.recs))'
      <3>1. Len(Descriptor.recs)' = 1
        BY <1>4, FirstIs
      <3>2. \A i \in 1..1 : i = 1
        OBVIOUS
      <3>. QED
        BY <3>1, <3>2
    <2>3. Opens(Descriptor.recs, 1)' /\ ~Opens(Descriptor.recs, 0)'
      BY <1>4, FirstIs DEF Opens
    <2>4. ASSUME NEW j \in Reads(Descriptor)'
          PROVE  /\ ~Power => Opens(Descriptor.recs, j)'
                 /\ Opens(Descriptor.recs, j)'
                      => Starts(VersionAt(Descriptor.recs, j), Descriptor.recs[j])'
      <3>1. CASE j = 0
        BY <1>9, <2>3, <3>1
      <3>2. CASE j = 1
        <4>1. (VersionAt(Descriptor.recs, 1) = {} /\ Descriptor.recs[1] = First)'
          BY <1>4, <1>6, FirstIs
        <4>. QED
          BY <1>7, <2>3, <3>2, <4>1
      <3>. QED
        BY <1>8, <3>1, <3>2
    <2>5. (\A i, j \in Reads(Descriptor) :
             i <= j /\ Opens(Descriptor.recs, i) /\ Opens(Descriptor.recs, j)
               => Descriptor.recs[i].next <= Descriptor.recs[j].next)'
      BY <1>4, <1>8, <2>3, FirstIs
    <2>. QED
      BY <2>1, <2>2, <2>4, <2>5 DEF Described
  <1>11. Stopped'
    BY <1>0, <1>1 DEF Stopped
  <1>. QED
    BY <1>1, <1>3, <1>10, <1>11
    DEF IInv, Nothing, OpensWell, Recovering, Replaying, Renewing, Renewed, Running

(* What Recover finds: one of the prefixes that a crash may leave, and the *)
(* longest of them.                                                        *)
LEMMA RecoverReads ==
  ASSUME Typed, Described, current # 0
  PROVE  \E j \in Reads(Descriptor) :
           LET edits == Readable(manifests[current]) IN
           /\ \A i \in Reads(Descriptor) : i <= j
           /\ edits = <<>> <=> j = 0
           /\ j # 0 => Last(edits) = Descriptor.recs[j]
           /\ Builder(edits) = VersionAt(Descriptor.recs, j)
  <1>1. current \in DOMAIN manifests
    BY DEF Described
  <1>2. /\ Descriptor.recs \in Seq(Edit \cup {Torn}) /\ Descriptor.synced \in Nat
        /\ Descriptor.synced <= Len(Descriptor.recs)
    BY <1>1 DEF Typed, ManifestsTyped, ManifestFile, Descriptor
  <1>3. PICK j \in Reads(Descriptor) : /\ Readable(Descriptor) = SubSeq(Descriptor.recs, 1, j)
                                       /\ \A i \in Reads(Descriptor) : i <= j
    BY <1>2, ReadableIs
  <1>4. j \in 0..Len(Descriptor.recs) /\ Len(Descriptor.recs) \in Nat
    BY <1>2, LenProperties DEF Reads
  <1>5. PICK edits \in Seq(Edit \cup {Torn}) : edits = Readable(manifests[current])
    BY <1>2, <1>3, <1>4, Prefix DEF Descriptor
  <1>6. edits = SubSeq(Descriptor.recs, 1, j)
    BY <1>3, <1>5 DEF Descriptor
  <1>7. Len(edits) = j /\ \A i \in 1..j : edits[i] = Descriptor.recs[i]
    BY <1>2, <1>4, <1>6, Prefix
  <1>8. edits = <<>> <=> j = 0
    BY <1>7, EmptySeq
  <1>9. j # 0 => Last(edits) = Descriptor.recs[j]
    BY <1>4, <1>7 DEF Last
  <1>10. Builder(edits) = VersionAt(Descriptor.recs, j)
    BY <1>6 DEF VersionAt
  <1>. QED
    BY <1>3, <1>5, <1>8, <1>9, <1>10

(* Recover: the version read starts a database, whatever was cut off.      *)
LEMMA RecoverKeeps ==
  ASSUME RecoveryAssumption, ~Reuse, IInv, Recover
  PROVE  IInv'
  <1>0. Typed /\ Described /\ Stopped /\ OpensWell
    BY DEF IInv
  <1>1. /\ pc = "down" /\ current # 0 /\ db = NoDb /\ edit = NoEdit
        /\ UNCHANGED <<current, manifests, logs, tables, ids, crashes, synced, acked>>
    BY <1>0 DEF Recover, Stopped, disk, history
  <1>2. PICK edits : edits = Readable(manifests[current])
    OBVIOUS
  <1>3. PICK j \in Reads(Descriptor) :
           /\ \A i \in Reads(Descriptor) : i <= j
           /\ edits = <<>> <=> j = 0
           /\ j # 0 => Last(edits) = Descriptor.recs[j]
           /\ Builder(edits) = VersionAt(Descriptor.recs, j)
    BY <1>0, <1>1, <1>2, RecoverReads
  <1>4. PICK e, ver : e = Last(edits) /\ ver = Builder(edits)
    OBVIOUS
  <1>5. /\ current \in DOMAIN manifests
        /\ \A i \in 1..Len(Descriptor.recs) : Descriptor.recs[i] = Torn => i = Len(Descriptor.recs)
        /\ ~Power => Opens(Descriptor.recs, j)
        /\ Opens(Descriptor.recs, j) => Starts(VersionAt(Descriptor.recs, j), Descriptor.recs[j])
    BY <1>0, <1>1, <1>3 DEF Described
  <1>6. j \in Nat
    BY <1>5, LenProperties DEF Reads
  <1>7. Opens(Descriptor.recs, j) <=> ~(edits = <<>> \/ e.next = 0)
    BY <1>3, <1>4, <1>6 DEF Opens
  <1>8. Described'
    <2>1. \A low : LogsKept(low)
      BY <1>1, LogsUnchanged
    <2>2. pc' # "newdb"
      BY DEF Recover
    <2>. QED
      BY <1>0, <1>1, <1>5, <2>1, <2>2, DescribedStays, SameTables
  <1>9. CASE /\ Garbled(manifests[current]) \/ edits = <<>> \/ e.next = 0
                  \/ ~(ver \subseteq DOMAIN tables \cup DOMAIN logs)
    <2>1. pc' = "corrupt" /\ UNCHANGED <<db, edit>>
      BY <1>2, <1>4, <1>9 DEF Recover
    <2>2. Typed'
      BY <1>0, <1>1, <2>1 DEF Typed, LogsTyped, ManifestsTyped, TablesTyped, StateTyped, PCs
    <2>3. Power
      <3>1. SUFFICES ASSUME ~Power PROVE FALSE
        OBVIOUS
      <3>2. Starts(ver, e) /\ ~(edits = <<>> \/ e.next = 0)
        BY <1>3, <1>4, <1>5, <1>7, <3>1 DEF Opens
      <3>3. ver \subseteq DOMAIN tables
        BY <3>2 DEF Starts
      <3>4. ~Garbled(manifests[current])
        <4>1. Len(Descriptor.recs) \in Nat
          BY <1>0, <1>5, LenProperties DEF Typed, ManifestsTyped, ManifestFile, Descriptor
        <4>2. \A n \in 1..(Len(Descriptor.recs) - 1) : n \in 1..Len(Descriptor.recs) /\ n # Len(Descriptor.recs)
          BY <4>1
        <4>. QED
          BY <1>5, <4>2 DEF Garbled, Descriptor
      <3>. QED
        BY <1>9, <3>2, <3>3, <3>4
    <2>4. Stopped' /\ OpensWell'
      BY <1>1, <2>1, <2>3 DEF Stopped, OpensWell
    <2>. QED
      BY <1>1, <1>8, <2>1, <2>2, <2>4
      DEF IInv, Nothing, Recovering, Replaying, Renewing, Renewed, Running
  <1>10. CASE ~(Garbled(manifests[current]) \/ edits = <<>> \/ e.next = 0
                  \/ ~(ver \subseteq DOMAIN tables \cup DOMAIN logs))
    <2>1. /\ pc' = "replay" /\ edit' = NoEdit
          /\ db' = [NoDb EXCEPT !.ver = ver, !.minLog = e.log, !.last = e.last, !.next = e.next + 1,
                                !.manifest = e.next, !.save = TRUE, !.todo = FromLog(e.log)]
      <3>1. /\ pc' = "replay" /\ edit' = NoEdit
            /\ db' = [NoDb EXCEPT !.ver = ver, !.minLog = e.log, !.last = e.last, !.next = e.next + 1,
                       !.manifest = IF Reuse THEN current ELSE e.next, !.save = ~Reuse,
                       !.todo = LogsToReplay(e.log)]
        BY <1>2, <1>4, <1>10 DEF Recover
      <3>2. (~Reuse) = TRUE
        OBVIOUS
      <3>. QED
        BY <3>1, <3>2 DEF LogsToReplay, FromLog
    <2>2. e \in Edit /\ Starts(ver, e) /\ Opens(Descriptor.recs, j)
      BY <1>0, <1>3, <1>4, <1>5, <1>7, <1>10, ReadsTyped DEF Typed, Opens
    <2>3. /\ e.next \in 1..(MaxNumber + 1) /\ e.log \in 0..MaxNumber /\ e.last \in Nat
          /\ MaxNumber \in Nat
      <3>1. e.next \in 0..(MaxNumber + 1) /\ e.log \in 0..MaxNumber /\ e.last \in Nat /\ e.next # 0
        BY <1>10, <2>2 DEF Edit
      <3>. QED
        BY <3>1 DEF RecoveryAssumption
    <2>4. ver \in SUBSET Nat /\ FromLog(e.log) \in SUBSET Nat /\ FromLog(e.log) \subseteq DOMAIN logs
      BY <1>0, <2>2, <2>3 DEF Starts, Typed, TablesTyped, LogsTyped, FromLog
    <2>5. e.next + 1 \in 1..(MaxNumber + 2) /\ e.next + 1 \in Nat /\ e.next < e.next + 1 /\ e.next \in Nat
      BY <2>3
    <2>6. /\ db'.mem = {} /\ db'.imm = <<>> /\ db'.ver = ver /\ db'.next = e.next + 1 /\ db'.log = 0
          /\ db'.minLog = e.log /\ db'.manifest = e.next /\ db'.last = e.last /\ db'.save = TRUE
          /\ db'.todo = FromLog(e.log) /\ db'.error = FALSE
      BY <2>1 DEF NoDb
    <2>7. db' \in Db /\ Len(db'.imm) = 0
      <3>1. TRUE \in BOOLEAN
        OBVIOUS
      <3>2. NoDb \in Db /\ Len(<<>>) = 0
        BY NoDbIs, EmptySeq
      <3>. QED
        BY <2>1, <2>3, <2>4, <2>5, <2>6, <3>1, <3>2 DEF Db
    <2>8. Typed'
      BY <1>0, <1>1, <2>1, <2>7, NoDbIs DEF Typed, LogsTyped, ManifestsTyped, TablesTyped, StateTyped, PCs
    <2>9. Behind'
      <3>1. Descriptor' = Descriptor
        BY <1>1 DEF Descriptor
      <3>2. ASSUME NEW i \in Reads(Descriptor), Opens(Descriptor.recs, i)
            PROVE  Descriptor.recs[i].next <= e.next + 1
        <4>1. Descriptor.recs[i].next <= e.next
          BY <1>0, <1>1, <1>3, <1>4, <2>2, <3>2 DEF Described, Opens
        <4>2. Descriptor.recs[i].next \in 0..(MaxNumber + 1)
          BY <1>0, <1>5, <3>2, ReadsTyped DEF Typed, Edit
        <4>. QED
          BY <2>3, <4>1, <4>2
      <3>. QED
        BY <2>6, <3>1, <3>2 DEF Behind
    <2>10. Opened' = ver
      BY <2>1, <2>6, NoDbIs DEF Opened
    <2>11. \A n \in ver : n < e.next + 1
      BY <2>2, <2>3, <2>4 DEF Starts
    <2>12. Recovering'
      <3>1. current < e.next /\ UpTo(TableWrites(ver), e.last)' /\ ver \subseteq DOMAIN tables'
        BY <1>1, <2>2 DEF Starts, TableWrites, UpTo
      <3>. QED
        BY <1>1, <2>1, <2>5, <2>6, <2>9, <2>10, <2>11, <3>1, NoDbIs DEF Recovering
    <2>13. Replaying'
      <3>1. \A n \in DOMAIN logs \ FromLog(e.log) : n < e.next + 1
        <4>1. e.log < e.next
          BY <2>2 DEF Starts
        <4>2. \A n \in DOMAIN logs : n \in 1..MaxNumber
          BY <1>0 DEF Typed, LogsTyped
        <4>. QED
          BY <2>3, <4>1, <4>2 DEF FromLog
      <3>2. Durable \subseteq TableWrites(ver) \cup ReadLogs(FromLog(e.log))
        <4>1. KeptLogs(e.log) \subseteq ReadLogs(FromLog(e.log))
          BY <1>0, KeptIsWhole DEF KeptLogs, ReadLogs, FromLog, Typed
        <4>. QED
          BY <2>2, <4>1 DEF Starts
      <3>3. Distinct(TableWrites(ver) \cup ReadLogs(FromLog(e.log)))
        BY <2>2 DEF Starts
      <3>4. /\ Durable' = Durable /\ TableWrites(ver)' = TableWrites(ver)
            /\ ReadLogs(FromLog(e.log))' = ReadLogs(FromLog(e.log))
        BY <1>1 DEF Durable, TableWrites, ReadLogs, FromLog, Whole
      <3>5. (db.todo = FromLog(e.log))'
        BY <1>1, <2>6 DEF FromLog
      <3>. QED
        BY <1>1, <2>4, <2>6, <2>10, <3>1, <3>2, <3>3, <3>4, <3>5 DEF Replaying
    <2>. QED
      BY <1>1, <1>8, <2>1, <2>8, <2>12, <2>13
      DEF IInv, Nothing, Stopped, OpensWell, Renewing, Renewed, Running
  <1>. QED
    BY <1>9, <1>10

(* RecoverLogFile: what the log gave is in a table before it counts as     *)
(* read.                                                                   *)
LEMMA RecoverLogFileKeeps ==
  ASSUME RecoveryAssumption, ~Reuse, IInv, RecoverLogFile
  PROVE  IInv'
  <1>0. Typed /\ Described /\ Recovering /\ Replaying
    BY DEF IInv
  <1>1. /\ pc = "replay" /\ pc' = "replay" /\ db.todo # {}
        /\ UNCHANGED <<current, manifests, logs, ids, crashes, synced, acked>>
    BY DEF RecoverLogFile, history
  <1>2. PICK n, recs : n = Min(db.todo) /\ recs = ToSet(Readable(logs[n]))
    OBVIOUS
  <1>3. MaxNumber \in Nat
    BY DEF RecoveryAssumption
  <1>4. n \in db.todo /\ n \in DOMAIN logs /\ n \in 1..MaxNumber
    <2>1. db.todo \in SUBSET Nat
      BY <1>0 DEF Typed, StateTyped, Db
    <2>. QED
      BY <1>0, <1>1, <1>2, <2>1, MinIs DEF Replaying, Typed, LogsTyped
  <1>5. recs = Whole(n) /\ recs \in SUBSET Entry
    <2>1. /\ logs[n].recs \in Seq(Entry \cup {Torn}) /\ logs[n].synced \in Nat
          /\ logs[n].synced <= Len(logs[n].recs)
      BY <1>0, <1>4 DEF Typed, LogsTyped, LogFile
    <2>. QED
      BY <1>0, <1>2, <1>4, <2>1, ReadableWhole, KeptIsWhole DEF Whole, Typed
  <1>6. PICK last \in Nat : /\ last = MaxSequence(db.last, recs) /\ db.last <= last /\ UpTo(recs, last)
    <2>1. logs[n].recs \in Seq(Entry \cup {Torn}) /\ db.last \in Nat
      BY <1>0, <1>4 DEF Typed, LogsTyped, LogFile, StateTyped, Db
    <2>. QED
      BY <1>5, <2>1, NumberedAfter DEF Whole
  <1>7. /\ db \in Db /\ db.next \in Nat /\ db.next \in 1..(MaxNumber + 2) /\ db.last \in Nat
        /\ edit \in Edit /\ db.todo \in SUBSET Nat
    BY <1>0 DEF Typed, StateTyped, Db
  <1>8. /\ current # 0 /\ Behind /\ db.mem = {} /\ db.imm = <<>> /\ db.save /\ ~db.error
        /\ edit.del = {} /\ edit.next = 0 /\ current < db.manifest /\ db.manifest < db.next
        /\ Opened \subseteq DOMAIN tables /\ (\A m \in Opened : m < db.next)
        /\ UpTo(TableWrites(Opened), db.last)
    BY <1>0, <1>1 DEF Recovering
  <1>9. /\ db.todo \subseteq DOMAIN logs /\ (\A m \in DOMAIN logs \ db.todo : m < db.next)
        /\ db.log = 0
        /\ Durable \subseteq TableWrites(Opened) \cup ReadLogs(db.todo)
        /\ Distinct(TableWrites(Opened) \cup ReadLogs(db.todo))
    BY <1>0, <1>1 DEF Replaying
  <1>10. PICK table \in BOOLEAN, next \in Nat :
           /\ db' = [db EXCEPT !.todo = db.todo \ {n}, !.last = last, !.next = next, !.save = TRUE]
           /\ db.next <= next /\ n < next /\ next \in 1..(MaxNumber + 2)
           /\ table => /\ tables' = Put(tables, db.next, recs) /\ db.next < next
                       /\ edit' = [edit EXCEPT !.add = edit.add \cup {db.next}]
           /\ ~table => recs = {} /\ UNCHANGED <<tables, edit>>
    <2>. DEFINE d == [db EXCEPT !.todo = db.todo \ {n}, !.last = last, !.next = Max({db.next, n + 1})]
    <2>0. db.save = TRUE
      BY <1>7, <1>8 DEF Db
    <2>1. CASE recs = {} /\ db' = d /\ UNCHANGED <<tables, edit>>
      <3>1. PICK next \in Nat : /\ next = Max({db.next, n + 1}) /\ db.next <= next /\ n < next
                                /\ next \in 1..(MaxNumber + 2)
        <4>1. n + 1 \in Nat /\ n + 1 \in 1..(MaxNumber + 2)
          BY <1>3, <1>4
        <4>2. Max({db.next, n + 1}) = IF db.next >= n + 1 THEN db.next ELSE n + 1
          BY <1>7, <4>1, MaxOfTwo
        <4>3. CASE db.next >= n + 1
          BY <1>4, <1>7, <4>1, <4>2, <4>3
        <4>4. CASE ~(db.next >= n + 1)
          BY <1>4, <1>7, <4>1, <4>2, <4>4
        <4>. QED
          BY <4>3, <4>4
      <3>2. d = [db EXCEPT !.todo = db.todo \ {n}, !.last = last, !.next = next, !.save = TRUE]
        BY <1>7, <2>0, <3>1 DEF Db
      <3>. HIDE DEF d
      <3>3. FALSE \in BOOLEAN
        OBVIOUS
      <3>. QED
        BY <2>1, <3>1, <3>2, <3>3
    <2>2. CASE /\ db.next <= MaxNumber /\ tables' = Put(tables, db.next, recs)
               /\ edit' = [edit EXCEPT !.add = edit.add \cup {db.next}]
               /\ db' = [d EXCEPT !.next = Max({db.next, n}) + 1, !.save = TRUE]
      <3>1. PICK next \in Nat : /\ next = Max({db.next, n}) + 1 /\ db.next < next /\ n < next
                                /\ next \in 1..(MaxNumber + 2)
        <4>2. Max({db.next, n}) = IF db.next >= n THEN db.next ELSE n
          BY <1>4, <1>7, MaxOfTwo
        <4>3. CASE db.next >= n
          BY <1>3, <1>4, <1>7, <2>2, <4>2, <4>3
        <4>4. CASE ~(db.next >= n)
          BY <1>3, <1>4, <1>7, <4>2, <4>4
        <4>. QED
          BY <4>3, <4>4
      <3>2. [d EXCEPT !.next = next, !.save = TRUE]
              = [db EXCEPT !.todo = db.todo \ {n}, !.last = last, !.next = next, !.save = TRUE]
        BY <1>7 DEF Db
      <3>. HIDE DEF d
      <3>3. TRUE \in BOOLEAN /\ db.next <= next
        BY <1>7, <3>1
      <3>. QED
        BY <2>2, <3>1, <3>2, <3>3
    <2>. QED
      <3>1. /\ [db EXCEPT !.todo = @ \ {n}, !.last = MaxSequence(@, recs), !.next = Max({@, n + 1})] = d
        BY <1>6
      <3>. QED
        BY <1>2, <2>1, <2>2, <3>1 DEF RecoverLogFile
  <1>11. /\ db' \in Db /\ db'.mem = {} /\ db'.imm = <<>> /\ db'.ver = db.ver /\ db'.next = next /\ db'.log = 0
         /\ db'.minLog = db.minLog /\ db'.manifest = db.manifest /\ db'.last = last /\ db'.save = TRUE
         /\ db'.todo = db.todo \ {n} /\ db'.error = db.error
    <2>1. TRUE \in BOOLEAN
      OBVIOUS
    <2>. QED
      BY <1>7, <1>8, <1>9, <1>10, <2>1 DEF Db
  <1>12. /\ edit' \in Edit /\ edit'.del = {} /\ edit'.next = 0 /\ TablesTyped'
         /\ Opened' = IF table THEN Opened \cup {db.next} ELSE Opened
         /\ Opened' \subseteq DOMAIN tables'
         /\ \A m \in Opened' : m < next
         /\ TableWrites(Opened)' = TableWrites(Opened) \cup recs
    <2>1. CASE table
      <3>1. /\ tables' = Put(tables, db.next, recs) /\ db.next < next
            /\ edit' = [edit EXCEPT !.add = edit.add \cup {db.next}]
        BY <1>10, <2>1
      <3>2. /\ TablesTyped' /\ DOMAIN tables' = DOMAIN tables \cup {db.next} /\ tables'[db.next] = recs
            /\ \A m \in DOMAIN tables : m # db.next => tables'[m] = tables[m]
        BY <1>0, <1>5, <1>7, <3>1, TablesPut DEF Typed
      <3>3. edit' \in Edit /\ edit'.del = {} /\ edit'.next = 0 /\ edit'.add = edit.add \cup {db.next}
        BY <1>7, <1>8, <3>1 DEF Edit
      <3>4. Opened' = Opened \cup {db.next}
        BY <1>11, <3>3 DEF Opened
      <3>5. \A m \in Opened : m \in DOMAIN tables /\ m # db.next /\ m \in Nat
        BY <1>0, <1>7, <1>8 DEF Typed, TablesTyped
      <3>6. TableWrites(Opened)' = UNION {tables'[m] : m \in Opened \cup {db.next}}
        BY <3>4 DEF TableWrites
      <3>7. TableWrites(Opened) = UNION {tables[m] : m \in Opened}
        BY DEF TableWrites
      <3>8. TableWrites(Opened)' = TableWrites(Opened) \cup recs
        BY <3>2, <3>5, <3>6, <3>7
      <3>9. \A m \in Opened \cup {db.next} : m < next
        BY <1>7, <1>8, <1>10, <3>1, <3>5
      <3>. QED
        BY <2>1, <3>2, <3>3, <3>4, <3>5, <3>8, <3>9
    <2>2. CASE ~table
      <3>1. recs = {} /\ UNCHANGED <<tables, edit>>
        BY <1>10, <2>2
      <3>2. Opened' = Opened /\ TableWrites(Opened)' = TableWrites(Opened)
        BY <1>11, <3>1 DEF Opened, TableWrites
      <3>3. \A m \in Opened : m \in Nat /\ m < next
        BY <1>0, <1>7, <1>8, <1>10 DEF Typed, TablesTyped
      <3>. QED
        BY <1>0, <1>7, <1>8, <2>2, <3>1, <3>2, <3>3 DEF Typed, TablesTyped
    <2>. QED
      BY <2>1, <2>2
  <1>13. Typed'
    <2>1. Len(db'.imm) <= 1
      BY <1>0, <1>8, <1>11 DEF Typed, StateTyped
    <2>. QED
      BY <1>0, <1>1, <1>11, <1>12, <2>1 DEF Typed, LogsTyped, ManifestsTyped, StateTyped, PCs
  <1>14. Described'
    <2>1. \A low : LogsKept(low)
      BY <1>1, LogsUnchanged
    <2>2. current \in DOMAIN manifests
      BY <1>0, <1>8 DEF Described
    <2>3. CASE table
      BY <1>0, <1>1, <1>8, <1>10, <2>1, <2>2, <2>3, DescribedStays, NewTableHidden
    <2>4. CASE ~table
      BY <1>0, <1>1, <1>8, <1>10, <2>1, <2>2, <2>4, DescribedStays, SameTables
    <2>. QED
      BY <2>3, <2>4
  <1>15. Behind'
    <2>1. Descriptor' = Descriptor
      BY <1>1 DEF Descriptor
    <2>2. \A j \in Reads(Descriptor) : Opens(Descriptor.recs, j) => Descriptor.recs[j].next \in Nat
      BY <1>0, <1>8, ReadsTyped DEF Typed, Described, Edit
    <2>. QED
      BY <1>0, <1>8, <1>10, <1>11, <1>13, <2>1, <2>2, BehindStays
  <1>16. Recovering'
    <2>1. UpTo(TableWrites(Opened), last)
      <3>1. \A r \in TableWrites(Opened) : r.seq \in Nat
        BY <1>0, <1>8 DEF Typed, TablesTyped, TableWrites, Entry
      <3>. QED
        BY <1>6, <1>7, <1>8, <3>1 DEF UpTo
    <2>2. UpTo(TableWrites(Opened), db.last)'
      BY <1>6, <1>11, <1>12, <2>1 DEF UpTo
    <2>3. db.manifest < next
      BY <1>7, <1>8, <1>10 DEF Db
    <2>. QED
      BY <1>1, <1>8, <1>11, <1>12, <1>15, <2>2, <2>3 DEF Recovering
  <1>17. Replaying'
    <2>1. ReadLogs(db.todo) = recs \cup ReadLogs(db.todo \ {n})
      BY <1>4, <1>5 DEF ReadLogs
    <2>2. ReadLogs(db.todo)' = ReadLogs(db.todo \ {n})
      BY <1>1, <1>11 DEF ReadLogs, Whole
    <2>3. Durable' = Durable
      BY <1>1 DEF Durable
    <2>4. \A m \in DOMAIN logs \ (db.todo \ {n}) : m < next
      <3>1. \A m \in DOMAIN logs : m \in Nat
        BY <1>0 DEF Typed, LogsTyped
      <3>. QED
        BY <1>7, <1>9, <1>10, <3>1
    <2>5. TableWrites(Opened)' \cup ReadLogs(db.todo)' = TableWrites(Opened) \cup ReadLogs(db.todo)
      BY <1>12, <2>1, <2>2
    <2>. QED
      BY <1>1, <1>9, <1>11, <2>3, <2>4, <2>5 DEF Replaying
  <1>. QED
    BY <1>1, <1>8, <1>13, <1>14, <1>16, <1>17
    DEF IInv, Nothing, Stopped, OpensWell, Renewing, Renewed, Running

(* OpenLog: all logs are read, and a new one begins.                       *)
LEMMA OpenLogKeeps ==
  ASSUME RecoveryAssumption, ~Reuse, IInv, OpenLog
  PROVE  IInv'
  <1>0. Typed /\ Described /\ Recovering /\ Replaying
    BY DEF IInv
  <1>1. /\ pc = "replay" /\ db.todo = {} /\ db.next <= MaxNumber /\ db.log = 0
        /\ current # 0 /\ Behind /\ db.mem = {} /\ db.imm = <<>> /\ db.save /\ ~db.error
        /\ edit.del = {} /\ edit.next = 0 /\ current < db.manifest /\ db.manifest < db.next
        /\ Opened \subseteq DOMAIN tables /\ (\A m \in Opened : m < db.next)
        /\ UpTo(TableWrites(Opened), db.last)
    BY <1>0 DEF OpenLog, Recovering, Replaying
  <1>2. /\ \A m \in DOMAIN logs : m < db.next
        /\ Durable \subseteq TableWrites(Opened) /\ Distinct(TableWrites(Opened))
    <2>1. ReadLogs({}) = {}
      BY DEF ReadLogs
    <2>. QED
      BY <1>0, <1>1, <2>1 DEF Replaying
  <1>3. /\ pc' = "manifest" /\ logs' = Put(logs, db.next, File(<<>>, 0))
        /\ db' = [db EXCEPT !.log = db.next, !.next = db.next + 1]
        /\ UNCHANGED <<current, manifests, tables, edit, ids, crashes, synced, acked>>
    BY <1>1 DEF OpenLog, history
  <1>4. /\ db \in Db /\ db.next \in Nat /\ db.next \in 1..MaxNumber /\ MaxNumber \in Nat
        /\ db.next \in 0..MaxNumber /\ db.next + 1 \in 1..(MaxNumber + 2) /\ db.next < db.next + 1
        /\ db.next + 1 <= MaxNumber + 1
    <2>1. db \in Db /\ db.next \in 1..(MaxNumber + 2) /\ MaxNumber \in Nat
      BY <1>0 DEF Typed, StateTyped, Db, RecoveryAssumption
    <2>. QED
      BY <1>1, <2>1
  <1>5. db.next \notin DOMAIN logs
    BY <1>2, <1>4
  <1>6. /\ LogsTyped' /\ (\A low : LogsKept(low))
        /\ DOMAIN logs' = DOMAIN logs \cup {db.next}
        /\ logs'[db.next].recs = <<>>
    BY <1>0, <1>3, <1>4, <1>5, LogsPut DEF Typed
  <1>7. /\ db' \in Db /\ db'.mem = {} /\ db'.imm = <<>> /\ db'.ver = db.ver /\ db'.next = db.next + 1
        /\ db'.log = db.next /\ db'.manifest = db.manifest /\ db'.last = db.last /\ db'.save = db.save
        /\ db'.error = db.error
    BY <1>1, <1>3, <1>4 DEF Db
  <1>8. Typed'
    <2>1. Len(db'.imm) <= 1
      BY <1>0, <1>1, <1>7 DEF Typed, StateTyped
    <2>. QED
      BY <1>0, <1>3, <1>6, <1>7, <2>1 DEF Typed, ManifestsTyped, TablesTyped, StateTyped, PCs
  <1>9. Described'
    <2>1. current \in DOMAIN manifests
      BY <1>0, <1>1 DEF Described
    <2>. QED
      BY <1>0, <1>1, <1>3, <1>6, <2>1, DescribedStays, SameTables
  <1>10. Behind'
    <2>1. Descriptor' = Descriptor
      BY <1>3 DEF Descriptor
    <2>2. \A j \in Reads(Descriptor) : Opens(Descriptor.recs, j) => Descriptor.recs[j].next \in Nat
      BY <1>0, <1>1, ReadsTyped DEF Typed, Described, Edit
    <2>3. db.next <= db'.next
      BY <1>4, <1>7
    <2>. QED
      BY <1>0, <1>1, <1>8, <2>1, <2>2, <2>3, BehindStays
  <1>11. /\ Opened' = Opened /\ TableWrites(Opened)' = TableWrites(Opened) /\ Durable' = Durable
    BY <1>3, <1>7 DEF Opened, TableWrites, Durable
  <1>12. Recovering'
    <2>1. (\A m \in Opened : m < db.next + 1) /\ db.manifest < db.next + 1
      <3>1. \A m \in Opened : m \in Nat
        BY <1>0, <1>1 DEF Typed, TablesTyped
      <3>2. db.manifest \in Nat
        BY <1>4 DEF Db
      <3>. QED
        BY <1>1, <1>4, <3>1, <3>2
    <2>2. UpTo(TableWrites(Opened), db.last)'
      BY <1>1, <1>7, <1>11 DEF UpTo
    <2>. QED
      BY <1>1, <1>3, <1>7, <1>10, <1>11, <2>1, <2>2 DEF Recovering
  <1>13. Renewing'
    <2>1. NewLog'
      <3>1. \A n \in DOMAIN logs : n \in Nat
        BY <1>0 DEF Typed, LogsTyped
      <3>. QED
        BY <1>2, <1>4, <1>6, <1>7, <3>1 DEF NewLog
    <2>2. Len(logs'[db'.log].recs) = 0
      BY <1>6, <1>7, EmptySeq
    <2>3. Distinct(TableWrites(Opened))'
      BY <1>2, <1>11 DEF Distinct
    <2>. QED
      BY <1>2, <1>11, <2>1, <2>2, <2>3 DEF Renewing
  <1>. QED
    BY <1>1, <1>3, <1>8, <1>9, <1>12, <1>13
    DEF IInv, Nothing, Stopped, OpensWell, Replaying, Renewed, Running

(* The two records of a new MANIFEST.                                      *)
LEMMA SnapshotIs ==
  ASSUME RecoveryAssumption, Typed, NewLog
  PROVE  LET e == Completed(db.log) IN
         /\ Snapshot \in Edit /\ Snapshot.next = 0 /\ Snapshot.add = db.ver /\ Snapshot.del = {}
         /\ e \in Edit /\ e.log = db.log /\ e.next = db.next /\ e.last = db.last
         /\ e.add = edit.add /\ e.del = edit.del
         /\ <<Snapshot, e>> \in Seq(Edit \cup {Torn}) /\ Len(<<Snapshot, e>>) = 2
         /\ <<Snapshot, e>>[1] = Snapshot /\ <<Snapshot, e>>[2] = e
  <1>1. /\ db.next \in 1..(MaxNumber + 2) /\ db.next <= MaxNumber + 1 /\ MaxNumber \in Nat
        /\ db.log \in 0..MaxNumber /\ db.last \in Nat /\ db.ver \in SUBSET Nat /\ edit \in Edit
    BY DEF Typed, StateTyped, Db, NewLog, RecoveryAssumption
  <1>2. db.next \in 0..(MaxNumber + 1)
    BY <1>1
  <1>3. /\ Snapshot \in Edit /\ Snapshot.next = 0 /\ Snapshot.add = db.ver /\ Snapshot.del = {}
    BY <1>1, NoDbIs DEF Snapshot, Edit
  <1>4. PICK e : e = Completed(db.log)
    OBVIOUS
  <1>5. /\ e \in Edit /\ e.log = db.log /\ e.next = db.next /\ e.last = db.last
        /\ e.add = edit.add /\ e.del = edit.del
    BY <1>1, <1>2, <1>4 DEF Completed, Edit
  <1>6. PICK s \in Edit : s = Snapshot
    BY <1>3
  <1>7. /\ <<s, e>> \in Seq(Edit \cup {Torn}) /\ Len(<<s, e>>) = 2
        /\ <<s, e>>[1] = s /\ <<s, e>>[2] = e
    BY <1>5
  <1>. QED
    BY <1>3, <1>4, <1>5, <1>6, <1>7

(* WriteManifest: the new MANIFEST is not yet the one CURRENT names.       *)
LEMMA WriteManifestKeeps ==
  ASSUME RecoveryAssumption, ~Reuse, IInv, WriteManifest
  PROVE  IInv'
  <1>0. Typed /\ Described /\ Recovering /\ Renewing
    BY DEF IInv
  <1>1. /\ pc = "manifest" /\ pc' = "syncManifest"
        /\ manifests' = Put(manifests, db.manifest, File(<<Snapshot, Completed(db.log)>>, 0))
        /\ UNCHANGED <<current, logs, tables, db, edit, ids, crashes, synced, acked>>
    BY DEF WriteManifest, history
  <1>2. /\ current # 0 /\ Behind /\ current < db.manifest /\ NewLog /\ current \in DOMAIN manifests
        /\ db.manifest \in Nat /\ current \in Nat
    BY <1>0, <1>1 DEF Recovering, Renewing, Described, Typed, StateTyped, Db
  <1>3. PICK recs \in Seq(Edit \cup {Torn}) : recs = <<Snapshot, Completed(db.log)>> /\ Len(recs) = 2
    BY <1>0, <1>2, SnapshotIs
  <1>4. /\ ManifestsTyped' /\ DOMAIN manifests' = DOMAIN manifests \cup {db.manifest}
        /\ manifests'[db.manifest].recs = recs
        /\ manifests'[current] = manifests[current]
    <2>1. PICK f \in ManifestFile : f = File(recs, 0)
      BY DEF ManifestFile, File
    <2>2. f.synced <= Len(f.recs) /\ f.recs = recs
      BY <1>3, <2>1 DEF File
    <2>3. /\ ManifestsTyped' /\ DOMAIN manifests' = DOMAIN manifests \cup {db.manifest}
          /\ manifests'[db.manifest] = f
          /\ \A m \in DOMAIN manifests : m # db.manifest => manifests'[m] = manifests[m]
      BY <1>0, <1>1, <1>2, <1>3, <2>1, <2>2, ManifestsPut DEF Typed
    <2>. QED
      BY <1>2, <2>2, <2>3
  <1>5. Typed'
    BY <1>0, <1>1, <1>4 DEF Typed, LogsTyped, TablesTyped, StateTyped, PCs
  <1>6. Described'
    <2>1. \A low : LogsKept(low)
      BY <1>1, LogsUnchanged
    <2>2. current \in DOMAIN manifests'
      BY <1>2, <1>4
    <2>. QED
      BY <1>0, <1>1, <1>2, <1>4, <2>1, <2>2, DescribedStays, SameTables
  <1>7. Behind'
    BY <1>1, <1>2, <1>4 DEF Behind, Descriptor
  <1>8. Recovering'
    BY <1>0, <1>1, <1>7 DEF Recovering, Opened, UpTo, TableWrites
  <1>9. Renewing'
    BY <1>0, <1>1 DEF Renewing, NewLog, Opened, Durable, Distinct, TableWrites
  <1>10. Renewed'
    <2>2. <<Snapshot, Completed(db.log)>>' = <<Snapshot, Completed(db.log)>>
      BY <1>1 DEF Snapshot, Completed
    <2>. QED
      BY <1>1, <1>3, <1>4, <2>2 DEF Renewed
  <1>. QED
    BY <1>1, <1>2, <1>5, <1>6, <1>8, <1>9, <1>10
    DEF IInv, Nothing, Stopped, OpensWell, Replaying, Running

(* A sync changes how much is synced, and no record.                       *)
LEMMA ManifestsSynced ==
  ASSUME ManifestsTyped, NEW n \in DOMAIN manifests, manifests' = SyncFile(manifests, n)
  PROVE  /\ ManifestsTyped' /\ DOMAIN manifests' = DOMAIN manifests
         /\ manifests'[n] = File(manifests[n].recs, Len(manifests[n].recs))
         /\ \A m \in DOMAIN manifests : m # n => manifests'[m] = manifests[m]
  <1>1. PICK recs \in Seq(Edit \cup {Torn}) : recs = manifests[n].recs
    BY DEF ManifestsTyped, ManifestFile
  <1>2. manifests[n] = File(manifests[n].recs, manifests[n].synced)
    BY DEF ManifestsTyped, ManifestFile, File
  <1>3. /\ DOMAIN manifests' = DOMAIN manifests
        /\ manifests'[n] = File(recs, Len(recs))
        /\ \A m \in DOMAIN manifests : m # n => manifests'[m] = manifests[m]
    BY <1>1, <1>2, SyncFileIs
  <1>4. Len(recs) \in Nat /\ Len(recs) <= Len(recs)
    BY LenProperties
  <1>5. /\ File(recs, Len(recs)) \in ManifestFile
        /\ File(recs, Len(recs)).synced <= Len(File(recs, Len(recs)).recs)
    BY <1>4 DEF ManifestFile, File
  <1>6. ManifestsTyped'
    BY <1>3, <1>5 DEF ManifestsTyped
  <1>. QED
    BY <1>1, <1>3, <1>6

(* SyncManifest: the new MANIFEST survives before CURRENT names it.        *)
LEMMA SyncManifestKeeps ==
  ASSUME IInv, SyncManifest
  PROVE  IInv'
  <1>0. Typed /\ Described /\ Recovering /\ Renewing /\ Renewed
    BY DEF IInv
  <1>1. /\ pc = "syncManifest" /\ pc' = "setCurrent" /\ manifests' = SyncFile(manifests, db.manifest)
        /\ UNCHANGED <<current, logs, tables, db, edit, ids, crashes, synced, acked>>
    BY DEF SyncManifest, history
  <1>2. /\ current # 0 /\ Behind /\ current < db.manifest /\ current \in DOMAIN manifests
        /\ db.manifest \in Nat /\ current \in Nat /\ db.manifest \in DOMAIN manifests
        /\ manifests[db.manifest].recs = <<Snapshot, Completed(db.log)>>
    BY <1>0, <1>1 DEF Recovering, Renewed, Described, Typed, StateTyped, Db
  <1>3. Len(manifests[db.manifest].recs) = 2
    BY <1>2
  <1>4. /\ ManifestsTyped' /\ DOMAIN manifests' = DOMAIN manifests
        /\ manifests'[db.manifest] = File(manifests[db.manifest].recs, 2)
        /\ \A m \in DOMAIN manifests : m # db.manifest => manifests'[m] = manifests[m]
    BY <1>0, <1>1, <1>2, <1>3, ManifestsSynced DEF Typed
  <1>6. Typed'
    BY <1>0, <1>1, <1>4 DEF Typed, LogsTyped, TablesTyped, StateTyped, PCs
  <1>7. manifests'[current] = manifests[current] /\ current \in DOMAIN manifests'
    BY <1>2, <1>4
  <1>8. Described'
    <2>1. \A low : LogsKept(low)
      BY <1>1, LogsUnchanged
    <2>. QED
      BY <1>0, <1>1, <1>2, <1>7, <2>1, DescribedStays, SameTables
  <1>9. Behind'
    BY <1>1, <1>2, <1>7 DEF Behind, Descriptor
  <1>10. Recovering'
    BY <1>0, <1>1, <1>9 DEF Recovering, Opened, UpTo, TableWrites
  <1>11. Renewing'
    BY <1>0, <1>1 DEF Renewing, NewLog, Opened, Durable, Distinct, TableWrites
  <1>12. Renewed'
    <2>1. <<Snapshot, Completed(db.log)>>' = <<Snapshot, Completed(db.log)>>
      BY <1>1 DEF Snapshot, Completed
    <2>2. manifests'[db'.manifest].recs = <<Snapshot, Completed(db.log)>>
          /\ manifests'[db'.manifest].synced = 2
      BY <1>1, <1>2, <1>4 DEF File
    <2>. QED
      BY <1>1, <1>2, <1>4, <2>1, <2>2 DEF Renewed
  <1>. QED
    BY <1>1, <1>2, <1>6, <1>8, <1>10, <1>11, <1>12
    DEF IInv, Nothing, Stopped, OpensWell, Replaying, Running

(* A synced file without torn records can only be read to its end.         *)
LEMMA ReadsOfSynced ==
  ASSUME NEW S, NEW f, f.recs \in Seq(S), f.synced = Len(f.recs), Unbroken(f.recs, Len(f.recs))
  PROVE  \A j \in Reads(f) : j = Len(f.recs)
  <1>1. Len(f.recs) \in Nat /\ Low(f) = Len(f.recs)
    BY LenProperties DEF Low
  <1>2. SUFFICES ASSUME NEW j \in Reads(f), j # Len(f.recs)
                 PROVE  FALSE
    OBVIOUS
  <1>3. j \in 0..Len(f.recs) /\ j < Len(f.recs) /\ f.recs[j + 1] = Torn
    BY <1>1, <1>2 DEF Reads
  <1>4. j + 1 \in 1..Len(f.recs)
    BY <1>1, <1>3
  <1>. QED
    BY <1>3, <1>4 DEF Unbroken

(* What is in the database, with and without a frozen memtable.            *)
LEMMA ContentsIs ==
  /\ db.imm = <<>> => Contents = db.mem \cup TableWrites(db.ver)
  /\ (db.imm \in Seq(SUBSET Entry) /\ Len(db.imm) <= 1 /\ db.imm # <<>>)
       => Contents = db.mem \cup db.imm[1] \cup TableWrites(db.ver)
  <1>0. Contents = (db.mem \cup UNION ToSet(db.imm)) \cup TableWrites(db.ver)
    BY Zenon DEF Contents, TableWrites
  <1>1. CASE db.imm = <<>>
    <2>1. UNION ToSet(db.imm) = {}
      BY <1>1 DEF ToSet
    <2>. QED
      BY <1>0, <1>1, <2>1
  <1>2. CASE db.imm # <<>>
    <2>1. SUFFICES ASSUME db.imm \in Seq(SUBSET Entry), Len(db.imm) <= 1
                   PROVE  Contents = db.mem \cup db.imm[1] \cup TableWrites(db.ver)
      BY <1>2
    <2>2. Len(db.imm) = 1
      <3>1. Len(db.imm) \in Nat /\ Len(db.imm) # 0
        BY <1>2, <2>1, LenProperties, EmptySeq
      <3>2. PICK k \in Nat : k = Len(db.imm)
        BY <3>1
      <3>3. \A x \in Nat : x <= 1 /\ x # 0 => x = 1
        OBVIOUS
      <3>. QED
        BY <2>1, <3>1, <3>2, <3>3
    <2>3. DOMAIN db.imm = {1}
      <3>1. DOMAIN db.imm = 1..Len(db.imm)
        BY <2>1, LenProperties
      <3>. QED
        BY <2>2, <3>1
    <2>4. UNION ToSet(db.imm) = db.imm[1]
      BY <2>3 DEF ToSet
    <2>. QED
      BY <1>0, <2>4
  <1>. QED
    BY <1>1, <1>2

(* SetCurrentFile: from here a restart begins with the new MANIFEST.       *)
LEMMA SetCurrentFileKeeps ==
  ASSUME RecoveryAssumption, ~Reuse, IInv, SetCurrentFile
  PROVE  IInv'
  <1>0. Typed /\ Described /\ Recovering /\ Renewing /\ Renewed
    BY DEF IInv
  <1>1. /\ pc = "setCurrent" /\ pc' = "clean" /\ current' = db.manifest
        /\ db' = Applied(db.log) /\ edit' = NoEdit
        /\ UNCHANGED <<manifests, logs, tables, ids, crashes, synced, acked>>
    BY DEF SetCurrentFile, history
  <1>2. /\ current # 0 /\ db.mem = {} /\ db.imm = <<>> /\ ~db.error
        /\ edit.del = {} /\ edit.next = 0 /\ current < db.manifest /\ db.manifest < db.next
        /\ Opened \subseteq DOMAIN tables /\ (\A n \in Opened : n < db.next)
        /\ UpTo(TableWrites(Opened), db.last)
    BY <1>0, <1>1 DEF Recovering
  <1>3. /\ NewLog /\ Len(logs[db.log].recs) = 0
        /\ Durable \subseteq TableWrites(Opened) /\ Distinct(TableWrites(Opened))
    BY <1>0, <1>1 DEF Renewing
  <1>4. /\ db.manifest \in DOMAIN manifests
        /\ manifests[db.manifest].recs = <<Snapshot, Completed(db.log)>>
        /\ manifests[db.manifest].synced = 2
    BY <1>0, <1>1 DEF Renewed
  <1>5. /\ db \in Db /\ db.next \in Nat /\ db.manifest \in Nat /\ current \in Nat /\ db.log \in 0..MaxNumber
        /\ edit \in Edit /\ Opened \in SUBSET Nat /\ db.log \in Nat /\ db.last \in Nat
    BY <1>0, <1>2 DEF Typed, StateTyped, TablesTyped, Db
  <1>6. /\ db' \in Db /\ db'.mem = {} /\ db'.imm = <<>> /\ db'.ver = Opened /\ db'.next = db.next
        /\ db'.log = db.log /\ db'.minLog = db.log /\ db'.manifest = db.manifest /\ db'.last = db.last
        /\ db'.error = FALSE
    <2>1. db' = [db EXCEPT !.ver = (db.ver \ edit.del) \cup edit.add, !.minLog = db.log]
      BY <1>1 DEF Applied
    <2>2. (db.ver \ edit.del) \cup edit.add = Opened
      BY <1>2 DEF Opened
    <2>3. db' = [db EXCEPT !.ver = Opened, !.minLog = db.log]
      BY <2>1, <2>2
    <2>4. db.error = FALSE
      BY <1>2, <1>5 DEF Db
    <2>. QED
      BY <1>2, <1>5, <2>3, <2>4 DEF Db
  <1>7. Typed'
    <2>1. Len(db'.imm) <= 1
      BY <1>0, <1>2, <1>6 DEF Typed, StateTyped
    <2>. QED
      BY <1>0, <1>1, <1>5, <1>6, <2>1, NoDbIs
      DEF Typed, LogsTyped, ManifestsTyped, TablesTyped, StateTyped, PCs
  <1>8. PICK m, e : m = manifests[db.manifest] /\ e = Completed(db.log)
    OBVIOUS
  <1>9. /\ m.recs \in Seq(Edit \cup {Torn}) /\ Len(m.recs) = 2 /\ m.recs[1] = Snapshot /\ m.recs[2] = e
        /\ m.synced = 2
        /\ e \in Edit /\ e.log = db.log /\ e.next = db.next /\ e.last = db.last
        /\ e.add = edit.add /\ e.del = {}
        /\ Snapshot \in Edit /\ Snapshot.add = db.ver /\ Snapshot.del = {}
    BY <1>0, <1>2, <1>3, <1>4, <1>8, SnapshotIs
  <1>10. Descriptor' = m
    BY <1>1, <1>8 DEF Descriptor
  <1>11. VersionAt(m.recs, 2) = Opened
    <2>1. 0 \in Nat /\ 1 \in Nat /\ 0 + 1 \in 1..Len(m.recs) /\ 1 + 1 \in 1..Len(m.recs) /\ 0 + 1 = 1 /\ 1 + 1 = 2
      BY <1>9
    <2>2. VersionAt(m.recs, 1 + 1) = (VersionAt(m.recs, 1) \ m.recs[1 + 1].del) \cup m.recs[1 + 1].add
      BY <1>9, <2>1, VersionNext
    <2>3. VersionAt(m.recs, 0 + 1) = (VersionAt(m.recs, 0) \ m.recs[0 + 1].del) \cup m.recs[0 + 1].add
      BY <1>9, <2>1, VersionNext
    <2>4. VersionAt(m.recs, 0) = {}
      BY <1>9, VersionOfNone
    <2>. QED
      BY <1>9, <2>1, <2>2, <2>3, <2>4 DEF Opened
  <1>12. Unbroken(m.recs, 2)
    BY <1>9, TornIsNone DEF Unbroken
  <1>13. (\A j \in Reads(m) : j = 2) /\ Opens(m.recs, 2)
    <2>1. Opens(m.recs, 2)
      BY <1>0, <1>5, <1>9 DEF Opens, Typed, StateTyped, Db
    <2>. QED
      BY <1>9, <1>12, <2>1, ReadsOfSynced
  <1>14. 2 \in Reads(m)
    BY <1>9, <1>12 DEF Reads, Low
  <1>15. \A low : low = db.log => ReadLogs(FromLog(low))' = {}
    <2>1. \A n \in FromLog(db.log) : n = db.log
      BY <1>0, <1>3, <1>5 DEF FromLog, NewLog, Typed, LogsTyped
    <2>2. Whole(db.log) = {}
      BY <1>3, EmptyLog DEF Whole
    <2>3. ReadLogs(FromLog(db.log)) = {}
      BY <2>1, <2>2 DEF ReadLogs
    <2>4. SUFFICES ASSUME NEW low, low = db.log
                   PROVE  ReadLogs(FromLog(low))' = {}
      OBVIOUS
    <2>5. ReadLogs(FromLog(low))' = ReadLogs(FromLog(low))
      BY <1>1 DEF ReadLogs, FromLog, Whole
    <2>. QED
      BY <2>3, <2>4, <2>5
  <1>16. Starts(Opened, e)'
    <2>1. PICK v : v = Opened
      OBVIOUS
    <2>2. /\ Durable' = Durable /\ TableWrites(v)' = TableWrites(v) /\ DOMAIN tables' = DOMAIN tables
      BY <1>1 DEF Durable, TableWrites
    <2>3. ReadLogs(FromLog(e.log))' = {}
      BY <1>9, <1>15
    <2>4. e.log < e.next
      BY <1>3, <1>9 DEF NewLog
    <2>5. Starts(v, e)'
      BY <1>1, <1>2, <1>3, <1>9, <2>1, <2>2, <2>3, <2>4 DEF Starts, UpTo, Distinct
    <2>6. Opened' = v
      BY <1>6, <1>1, <2>1, NoDbIs DEF Opened
    <2>. QED
      BY <2>5, <2>6
  <1>17. Described'
    <2>1. \A i \in 1..Len(m.recs) : m.recs[i] = Torn => i = Len(m.recs)
      BY <1>9, TornIsNone
    <2>2. Opened' = Opened
      BY <1>6, <1>1, NoDbIs DEF Opened
    <2>3. Starts(VersionAt(Descriptor.recs, 2), Descriptor.recs[2])'
      <3>1. (VersionAt(Descriptor.recs, 2) = Opened /\ Descriptor.recs[2] = e)'
        BY <1>9, <1>10, <1>11, <2>2
      <3>. QED
        BY <1>16, <3>1
    <2>4. \A i, j \in Reads(m) : m.recs[i].next <= m.recs[j].next
      BY <1>5, <1>9, <1>13
    <2>5. current' \in DOMAIN manifests' /\ pc' # "newdb" /\ current' # 0
      BY <1>1, <1>2, <1>4, <1>5
    <2>. QED
      BY <1>10, <1>13, <2>1, <2>3, <2>4, <2>5 DEF Described
  <1>18. Contents' = TableWrites(Opened) /\ Durable' = Durable
    <2>1. (TableWrites(db.ver))' = TableWrites(Opened)
      BY <1>1, <1>6 DEF TableWrites
    <2>2. Contents' = (db'.mem \cup UNION ToSet(db'.imm)) \cup TableWrites(db.ver)'
      BY Zenon DEF Contents, TableWrites
    <2>3. ToSet(db'.imm) = {}
      BY <1>6 DEF ToSet
    <2>. QED
      BY <1>1, <1>6, <2>1, <2>2, <2>3 DEF Durable
  <1>19. Placed'
    <2>1. NewLog'
      BY <1>1, <1>3, <1>6 DEF NewLog
    <2>2. Unbroken(logs[db.log].recs, Len(logs[db.log].recs))
      BY <1>3, EmptyLog
    <2>. QED
      BY <1>1, <1>2, <1>5, <1>6, <2>1, <2>2 DEF Placed
  <1>20. Complete'
    <2>1. ReadLogs(FromLog(db.minLog))' = {}
      <3>1. PICK low : low = db.log
        OBVIOUS
      <3>2. (db.minLog = low)'
        BY <1>6, <3>1
      <3>. QED
        BY <1>15, <3>1, <3>2
    <2>. QED
      BY <1>2, <1>3, <1>6, <1>18, <2>1 DEF Complete, UpTo, Distinct
  <1>21. Behind' /\ Ahead'
    <2>1. ASSUME NEW j \in Reads(m)
          PROVE  /\ m.recs[j].next <= db.next /\ m.recs[j].last <= db.last /\ m.recs[j].log <= db.log
                 /\ ReadLogs(FromLog(m.recs[j].log))' = {}
      BY <1>5, <1>9, <1>13, <1>15
    <2>. QED
      BY <1>6, <1>10, <2>1 DEF Behind, Ahead, UpTo
  <1>22. Editing'
    <2>1. Agreed'
      <3>1. db.next # 0
        BY <1>0 DEF Typed, StateTyped, Db
      <3>2. /\ Unbroken(m.recs, Len(m.recs)) /\ m.synced >= 1 /\ VersionAt(m.recs, m.synced) = Opened
            /\ m.recs[m.synced].log = db.log /\ m.recs[m.synced].next # 0 /\ Len(m.recs) = m.synced
        BY <1>9, <1>11, <1>12, <3>1
      <3>3. edit'.next = 0
        BY <1>1, NoDbIs
      <3>. QED
        BY <1>6, <1>10, <3>2, <3>3 DEF Agreed
    <2>. QED
      BY <1>1, <1>6, <2>1, NoDbIs DEF Editing
  <1>23. Running'
    BY <1>19, <1>20, <1>21, <1>22 DEF Running
  <1>. QED
    BY <1>1, <1>2, <1>5, <1>7, <1>17, <1>23
    DEF IInv, Nothing, Stopped, OpensWell, Recovering, Replaying, Renewing, Renewed

(* DeleteObsoleteFiles: no reading of the MANIFEST needs what is deleted.  *)
LEMMA DeleteObsoleteFilesKeeps ==
  ASSUME RecoveryAssumption, IInv, DeleteObsoleteFiles
  PROVE  IInv'
  <1>0. Typed /\ Described /\ Running
    BY DEF IInv
  <1>1. /\ pc = "clean" /\ pc' = "open"
        /\ UNCHANGED <<current, db, edit, ids, crashes, synced, acked>>
    BY DEF DeleteObsoleteFiles, history
  <1>2. Placed /\ Complete /\ Behind /\ Ahead /\ Editing
    BY <1>0, <1>1 DEF Running
  <1>a. PICK keep :
          /\ logs' = Restrict(logs, DOMAIN logs \ (Obsolete.logs \ keep))
          /\ manifests' = Restrict(manifests, DOMAIN manifests \ (Obsolete.manifests \ keep))
          /\ tables' = Restrict(tables, DOMAIN tables \ (Obsolete.tables \ keep))
    BY DEF DeleteObsoleteFiles
  <1>b. PICK RL, RM, RT : RL = Obsolete.logs \ keep /\ RM = Obsolete.manifests \ keep
                          /\ RT = Obsolete.tables \ keep
    OBVIOUS
  <1>3. /\ logs' = Restrict(logs, DOMAIN logs \ RL)
        /\ manifests' = Restrict(manifests, DOMAIN manifests \ RM)
        /\ tables' = Restrict(tables, DOMAIN tables \ RT)
        /\ \A n \in RL : n \in DOMAIN logs /\ n < db.minLog
        /\ \A n \in RM : n < db.manifest
        /\ RT \cap db.ver = {}
        /\ db.error => RL = {} /\ RM = {} /\ RT = {}
    <2>1. /\ \A n \in Obsolete.logs : n \in DOMAIN logs /\ n < db.minLog
          /\ \A n \in Obsolete.manifests : n < db.manifest
          /\ Obsolete.tables \cap db.ver = {}
          /\ db.error => Obsolete.logs = {} /\ Obsolete.manifests = {} /\ Obsolete.tables = {}
      BY DEF Obsolete
    <2>. QED
      BY <1>a, <1>b, <2>1
  <1>4. /\ DOMAIN logs' = DOMAIN logs \ RL /\ \A n \in DOMAIN logs \ RL : logs'[n] = logs[n]
        /\ DOMAIN manifests' = DOMAIN manifests \ RM
        /\ \A n \in DOMAIN manifests \ RM : manifests'[n] = manifests[n]
        /\ DOMAIN tables' = DOMAIN tables \ RT /\ \A n \in DOMAIN tables \ RT : tables'[n] = tables[n]
    BY <1>3, RestrictIs
  <1>5. /\ db.minLog \in Nat /\ db.log \in Nat /\ current \in Nat /\ db.manifest = current
        /\ \A n \in DOMAIN logs : n \in Nat
    BY <1>0, <1>2 DEF Typed, StateTyped, LogsTyped, Db, Placed
  <1>6. Typed'
    BY <1>0, <1>1, <1>4 DEF Typed, LogsTyped, ManifestsTyped, TablesTyped, StateTyped, PCs
  <1>7. current # 0 /\ current \in DOMAIN manifests' /\ manifests'[current] = manifests[current]
    <2>1. current \in DOMAIN manifests /\ current # 0
      BY <1>0, <1>2 DEF Described, Placed
    <2>2. current \notin RM
      BY <1>3, <1>5
    <2>. QED
      BY <1>4, <2>1, <2>2
  <1>8. Descriptor' = Descriptor
    BY <1>1, <1>7 DEF Descriptor
  <1>9. \A n \in DOMAIN logs' : n \in DOMAIN logs /\ Whole(n)' = Whole(n) /\ Kept(n)' = Kept(n)
    BY <1>4 DEF Whole, Kept
  <1>10. LogsKept(db.minLog) /\ (db.error => \A low : LogsKept(low))
    <2>1. \A n \in DOMAIN logs : n >= db.minLog => n \in DOMAIN logs'
      BY <1>3, <1>4, <1>5
    <2>2. db.error => DOMAIN logs' = DOMAIN logs
      BY <1>3, <1>4
    <2>. QED
      BY <1>9, <2>1, <2>2 DEF LogsKept
  <1>11. ASSUME NEW j \in Reads(Descriptor), Opens(Descriptor.recs, j)
         PROVE  /\ LogsKept(Descriptor.recs[j].log)
                /\ VersionAt(Descriptor.recs, j) \subseteq DOMAIN tables'
                /\ \A n \in VersionAt(Descriptor.recs, j) : tables'[n] = tables[n]
    <2>1. VersionAt(Descriptor.recs, j) \subseteq DOMAIN tables
      BY <1>0, <1>7, <1>11 DEF Described, Starts
    <2>2. CASE db.error
      BY <1>3, <1>4, <1>10, <2>1, <2>2
    <2>3. CASE ~db.error
      <3>1. Agreed /\ edit = NoEdit
        BY <1>1, <1>2, <2>3 DEF Editing
      <3>2. /\ Unbroken(Descriptor.recs, Len(Descriptor.recs)) /\ Len(Descriptor.recs) = Descriptor.synced
            /\ VersionAt(Descriptor.recs, Descriptor.synced) = db.ver
            /\ Descriptor.recs[Descriptor.synced].log = db.minLog
        BY <3>1, NoDbIs DEF Agreed
      <3>3. Descriptor.recs \in Seq(Edit \cup {Torn})
        BY <1>0, <1>7 DEF Described, Typed, ManifestsTyped, ManifestFile, Descriptor
      <3>4. j = Descriptor.synced
        BY <1>11, <3>2, <3>3, ReadsOfSynced
      <3>. QED
        BY <1>3, <1>4, <1>10, <2>1, <3>2, <3>4
    <2>. QED
      BY <2>2, <2>3
  <1>12. Described'
    <2>1. pc' # "newdb"
      BY <1>1
    <2>. QED
      BY <1>0, <1>1, <1>7, <1>11, <2>1, DescribedEach
  <1>13. Placed'
    <2>1. db.log \in DOMAIN logs'
      <3>1. db.log \notin RL
        BY <1>2, <1>3, <1>5 DEF Placed
      <3>. QED
        BY <1>2, <1>4, <3>1 DEF Placed, NewLog
    <2>2. logs'[db.log] = logs[db.log]
      BY <1>4, <2>1
    <2>3. NewLog'
      BY <1>1, <1>2, <1>4, <2>1 DEF Placed, NewLog
    <2>4. db.ver \subseteq DOMAIN tables'
      BY <1>2, <1>3, <1>4 DEF Placed
    <2>. QED
      BY <1>1, <1>2, <2>2, <2>3, <2>4 DEF Placed
  <1>14. \A low : ReadLogs(FromLog(low))' \subseteq ReadLogs(FromLog(low))
    BY <1>9 DEF ReadLogs, FromLog
  <1>15. Complete'
    <2>1. Contents' = Contents
      <3>1. \A n \in db.ver : tables'[n] = tables[n]
        BY <1>2, <1>3, <1>4 DEF Placed
      <3>2. TableWrites(db.ver)' = TableWrites(db.ver)
        BY <1>1, <3>1 DEF TableWrites
      <3>3. Contents = (db.mem \cup UNION ToSet(db.imm)) \cup TableWrites(db.ver)
        BY Zenon DEF Contents, TableWrites
      <3>4. Contents' = (db'.mem \cup UNION ToSet(db'.imm)) \cup TableWrites(db.ver)'
        BY Zenon DEF Contents, TableWrites
      <3>. QED
        BY <1>1, <3>2, <3>3, <3>4
    <2>2. Kept(db.log)' = Kept(db.log)
      <3>1. logs'[db.log] = logs[db.log]
        BY <1>4, <1>13, <1>1 DEF Placed, NewLog
      <3>. QED
        BY <1>1, <3>1 DEF Kept
    <2>3. ReadLogs(FromLog(db.minLog))' \subseteq ReadLogs(FromLog(db.minLog))
      <3>1. PICK low : low = db.minLog
        OBVIOUS
      <3>2. (db.minLog = low)'
        BY <1>1, <3>1
      <3>. QED
        BY <1>14, <3>1, <3>2
    <2>4. Durable' = Durable
      BY <1>1 DEF Durable
    <2>. QED
      BY <1>1, <1>2, <2>1, <2>2, <2>3, <2>4 DEF Complete, UpTo, Distinct
  <1>16. Behind' /\ Ahead'
    <2>1. ASSUME NEW j \in Reads(Descriptor), Opens(Descriptor.recs, j)
          PROVE  UpTo(ReadLogs(FromLog(Descriptor.recs[j].log)), db.last)'
      <3>1. PICK low : low = Descriptor.recs[j].log
        OBVIOUS
      <3>2. UpTo(ReadLogs(FromLog(low)), db.last)
        BY <1>2, <2>1, <3>1 DEF Ahead
      <3>3. UpTo(ReadLogs(FromLog(low)), db.last)'
        BY <1>1, <1>14, <3>2 DEF UpTo
      <3>4. (Descriptor.recs[j].log = low)'
        BY <1>8, <3>1
      <3>. QED
        BY <3>3, <3>4
    <2>2. Ahead'
      BY <1>1, <1>2, <1>8, <2>1 DEF Ahead
    <2>3. Behind'
      BY <1>1, <1>2, <1>8 DEF Behind
    <2>. QED
      BY <2>2, <2>3
  <1>17. Editing'
    <2>1. Agreed' <=> Agreed
      BY <1>1, <1>8 DEF Agreed
    <2>2. ~db.error => edit = NoEdit
      BY <1>1, <1>2 DEF Editing
    <2>. QED
      BY <1>1, <1>2, <2>1, <2>2, NoDbIs DEF Editing
  <1>18. Running'
    BY <1>13, <1>15, <1>16, <1>17 DEF Running
  <1>. QED
    BY <1>1, <1>6, <1>7, <1>12, <1>18
    DEF IInv, Nothing, Stopped, OpensWell, Recovering, Replaying, Renewing, Renewed

-----------------------------------------------------------------------------
(* The open database keeps the invariant.                                  *)

(* A record added after unbroken ones is read after them.                  *)
LEMMA IntactAppend ==
  ASSUME NEW S, NEW recs \in Seq(S), NEW r, r # Torn
  PROVE  /\ \A k \in 0..Len(recs) : Intact(Append(recs, r), k) = Intact(recs, k)
         /\ Unbroken(recs, Len(recs)) =>
              /\ Unbroken(Append(recs, r), Len(recs) + 1)
              /\ Intact(Append(recs, r), Len(recs) + 1) = Intact(recs, Len(recs)) \cup {r}
  <1>1. PICK T : T = S \cup {r}
    OBVIOUS
  <1>2. recs \in Seq(T) /\ r \in T
    BY <1>1, SeqMonotonic
  <1>3. /\ Len(recs) \in Nat /\ Append(recs, r)[Len(recs) + 1] = r
        /\ \A i \in 1..Len(recs) : Append(recs, r)[i] = recs[i]
    BY <1>2, AppendProperties, LenProperties
  <1>4. PICK more : more = Append(recs, r)
    OBVIOUS
  <1>5. \A h \in 0..Len(recs) : Unbroken(more, h) <=> Unbroken(recs, h)
    <2>1. ASSUME NEW h \in 0..Len(recs)
          PROVE  Unbroken(more, h) <=> Unbroken(recs, h)
      <3>1. \A g \in 1..h : more[g] = recs[g]
        BY <1>3, <1>4
      <3>. QED
        BY <3>1 DEF Unbroken
    <2>. QED
      BY <2>1
  <1>6. ASSUME NEW k \in 0..Len(recs)
        PROVE  Intact(more, k) = Intact(recs, k)
    <2>1. \A h \in 1..k : (Unbroken(more, h) <=> Unbroken(recs, h)) /\ more[h] = recs[h]
      BY <1>3, <1>4, <1>5
    <2>. QED
      BY <2>1 DEF Intact
  <1>7. ASSUME Unbroken(recs, Len(recs))
        PROVE  /\ Unbroken(more, Len(recs) + 1)
               /\ Intact(more, Len(recs) + 1) = Intact(recs, Len(recs)) \cup {r}
    <2>1. \A g \in 1..(Len(recs) + 1) : more[g] # Torn
      <3>1. \A g \in 1..(Len(recs) + 1) : g \in 1..Len(recs) \/ g = Len(recs) + 1
        BY <1>3
      <3>. QED
        BY <1>3, <1>4, <1>7, <3>1 DEF Unbroken
    <2>2. \A h \in 1..(Len(recs) + 1) : Unbroken(more, h)
      <3>1. \A h \in 1..(Len(recs) + 1) : \A g \in 1..h : g \in 1..(Len(recs) + 1)
        BY <1>3
      <3>. QED
        BY <2>1, <3>1 DEF Unbroken
    <2>3. \A h \in 1..Len(recs) : Unbroken(recs, h)
      <3>1. \A h \in 1..Len(recs) : \A g \in 1..h : g \in 1..Len(recs)
        BY <1>3
      <3>. QED
        BY <1>7, <3>1 DEF Unbroken
    <2>4. Intact(more, Len(recs) + 1) = {more[h] : h \in 1..(Len(recs) + 1)}
      BY <2>2 DEF Intact
    <2>5. Intact(recs, Len(recs)) = {recs[h] : h \in 1..Len(recs)}
      BY <2>3 DEF Intact
    <2>6. 1..(Len(recs) + 1) = 1..Len(recs) \cup {Len(recs) + 1}
      BY <1>3
    <2>7. more[Len(recs) + 1] = r /\ \A h \in 1..Len(recs) : more[h] = recs[h]
      BY <1>3, <1>4
    <2>8. {more[h] : h \in 1..(Len(recs) + 1)} = {recs[h] : h \in 1..Len(recs)} \cup {r}
      BY <2>6, <2>7
    <2>. QED
      BY <2>1, <2>4, <2>5, <2>8 DEF Unbroken
  <1>. QED
    BY <1>4, <1>6, <1>7

(* More of a file gives no less.                                           *)
LEMMA IntactMonotone ==
  ASSUME NEW recs, NEW k \in Nat, NEW l \in Nat, k <= l
  PROVE  Intact(recs, k) \subseteq Intact(recs, l)
  <1>1. \A h \in 1..k : h \in 1..l
    OBVIOUS
  <1>. QED
    BY <1>1 DEF Intact

(* A write with the next sequence number has one of its own.               *)
LEMMA DistinctGrows ==
  ASSUME NEW W \in SUBSET Entry, NEW last \in Nat, Distinct(W), UpTo(W, last),
         NEW r, r.seq = last + 1
  PROVE  Distinct(W \cup {r}) /\ UpTo(W \cup {r}, last + 1)
  <1>1. \A q \in W : q.seq \in Nat /\ q.seq <= last
    BY DEF Entry, UpTo
  <1>2. \A q \in W : q.seq # r.seq /\ q.seq <= last + 1
    BY <1>1
  <1>. QED
    BY <1>2 DEF Distinct, UpTo

(* The writes in the database are writes.                                  *)
LEMMA ContentsTyped ==
  ASSUME Typed, db.ver \subseteq DOMAIN tables
  PROVE  /\ Contents \in SUBSET Entry
         /\ \A V : V \subseteq DOMAIN tables => TableWrites(V) \in SUBSET Entry
         /\ \A low : ReadLogs(FromLog(low)) \in SUBSET Entry
  <1>1. \A V : V \subseteq DOMAIN tables => TableWrites(V) \in SUBSET Entry
    BY DEF Typed, TablesTyped, TableWrites
  <1>2. \A low : ReadLogs(FromLog(low)) \in SUBSET Entry
    BY KeptIsWhole DEF ReadLogs, FromLog, Typed
  <1>3. db.mem \in SUBSET Entry /\ db.imm \in Seq(SUBSET Entry) /\ Len(db.imm) <= 1
    BY DEF Typed, StateTyped, Db
  <1>4. CASE db.imm = <<>>
    BY <1>1, <1>2, <1>3, <1>4, ContentsIs
  <1>5. CASE db.imm # <<>>
    <2>1. db.imm[1] \in SUBSET Entry
      <3>1. 1 \in 1..Len(db.imm)
        BY <1>3, <1>5, LenProperties, EmptySeq
      <3>. QED
        BY <1>3, <3>1, ElementOfSeq
    <2>. QED
      BY <1>1, <1>2, <1>3, <1>5, <2>1, ContentsIs
  <1>. QED
    BY <1>1, <1>2, <1>4, <1>5

(* What Write does to the log.                                             *)
LEMMA LogWritten ==
  ASSUME Typed, Placed, NEW sync \in BOOLEAN, NEW r \in Entry,
         logs' = IF sync THEN SyncFile(AppendTo(logs, db.log, r), db.log)
                         ELSE AppendTo(logs, db.log, r)
  PROVE  /\ LogsTyped' /\ DOMAIN logs' = DOMAIN logs
         /\ Unbroken(logs'[db.log].recs, Len(logs'[db.log].recs))
         /\ \A low : /\ KeptLogs(low) \subseteq KeptLogs(low)'
                     /\ ReadLogs(FromLog(low))' \subseteq ReadLogs(FromLog(low)) \cup {r}
         /\ \A n \in DOMAIN logs : Kept(n) \subseteq Kept(n)'
         /\ \A n : n = db.log /\ (sync \/ ~Power) => r \in Kept(n)'
  <1>1. PICK n, f : n = db.log /\ f = logs[n]
    OBVIOUS
  <1>2. /\ n \in DOMAIN logs /\ f.recs \in Seq(Entry \cup {Torn}) /\ f.synced \in Nat
        /\ f.synced <= Len(f.recs) /\ f = File(f.recs, f.synced)
        /\ Unbroken(f.recs, Len(f.recs)) /\ Len(f.recs) \in Nat
    BY <1>1, LenProperties DEF Placed, NewLog, Typed, LogsTyped, LogFile, File
  <1>3. PICK more \in Seq(Entry \cup {Torn}) : more = Append(f.recs, r)
    BY <1>2, AppendProperties
  <1>4. Len(more) = Len(f.recs) + 1 /\ r # Torn
    BY <1>2, <1>3, AppendProperties, TornIsNone
  <1>5. PICK k \in Nat : k = IF sync THEN Len(more) ELSE f.synced
    BY <1>2, <1>3, <1>4
  <1>6. /\ DOMAIN logs' = DOMAIN logs /\ logs'[n] = File(more, k)
        /\ \A m \in DOMAIN logs : m # n => logs'[m] = logs[m]
    <2>1. PICK appended : appended = AppendTo(logs, n, r)
      OBVIOUS
    <2>2. /\ DOMAIN appended = DOMAIN logs /\ appended[n] = File(more, f.synced)
          /\ \A m \in DOMAIN logs : m # n => appended[m] = logs[m]
      BY <1>1, <1>2, <1>3, <2>1, AppendToIs
    <2>3. appended[n].recs = more /\ appended[n].synced = f.synced
      BY <2>2 DEF File
    <2>4. CASE sync
      <3>1. logs' = SyncFile(appended, n)
        BY <1>1, <2>1, <2>4
      <3>2. /\ DOMAIN logs' = DOMAIN appended /\ logs'[n] = File(more, Len(more))
            /\ \A m \in DOMAIN appended : m # n => logs'[m] = appended[m]
        BY <1>2, <2>2, <2>3, <3>1, SyncFileIs
      <3>. QED
        BY <1>5, <2>2, <2>4, <3>2
    <2>5. CASE ~sync
      BY <1>1, <1>5, <2>1, <2>2, <2>5
    <2>. QED
      BY <2>4, <2>5
  <1>7. logs'[n].recs = more /\ logs'[n].synced = k /\ k <= Len(more)
    <2>1. k <= Len(more)
      BY <1>2, <1>4, <1>5
    <2>. QED
      BY <1>6, <2>1 DEF File
  <1>8. LogsTyped'
    <2>1. logs'[n] \in LogFile
      BY <1>6, <1>7 DEF LogFile, File
    <2>. QED
      BY <1>2, <1>6, <1>7, <2>1 DEF Typed, LogsTyped
  <1>9. /\ Unbroken(more, Len(more)) /\ Whole(n) = Intact(f.recs, Len(f.recs))
        /\ Whole(n)' = Whole(n) \cup {r}
    <2>1. Whole(n) = Intact(f.recs, Len(f.recs)) /\ Whole(n)' = Intact(more, Len(more))
      BY <1>1, <1>7 DEF Whole
    <2>. QED
      <3>1. /\ Unbroken(Append(f.recs, r), Len(f.recs) + 1)
            /\ Intact(Append(f.recs, r), Len(f.recs) + 1) = Intact(f.recs, Len(f.recs)) \cup {r}
        BY <1>2, <1>4, IntactAppend
      <3>. QED
        BY <1>3, <1>4, <2>1, <3>1
  <1>10. Low(f) \in 0..Len(f.recs) /\ Low(f) <= Low(logs'[n]) /\ Low(logs'[n]) \in Nat
    <2>1. Low(f) \in 0..Len(f.recs)
      BY <1>2, LowBounded
    <2>2. CASE Power
      BY <1>2, <1>4, <1>5, <1>7, <2>1, <2>2 DEF Low
    <2>3. CASE ~Power
      BY <1>2, <1>4, <1>5, <1>7, <2>1, <2>3 DEF Low
    <2>. QED
      BY <2>1, <2>2, <2>3
  <1>11. Kept(n) \subseteq Kept(n)'
    <2>1. Kept(n) = Intact(f.recs, Low(f)) /\ Kept(n)' = Intact(more, Low(logs'[n]))
      BY <1>1, <1>7 DEF Kept
    <2>2. Intact(more, Low(f)) = Intact(f.recs, Low(f))
      BY <1>2, <1>3, <1>4, <1>10, IntactAppend
    <2>3. Intact(more, Low(f)) \subseteq Intact(more, Low(logs'[n]))
      <3>1. Low(f) \in Nat
        BY <1>2, <1>10
      <3>. QED
        BY <1>10, <3>1, IntactMonotone
    <2>. QED
      BY <2>1, <2>2, <2>3
  <1>12. ASSUME sync \/ ~Power
         PROVE  r \in Kept(n)'
    <2>1. Low(logs'[n]) = Len(more)
      BY <1>5, <1>7, <1>12 DEF Low
    <2>2. Kept(n)' = Whole(n)'
      BY <1>7, <2>1 DEF Kept, Whole
    <2>. QED
      BY <1>9, <2>2
  <1>13. \A m \in DOMAIN logs : /\ Kept(m) \subseteq Kept(m)'
                                /\ Whole(m)' \subseteq Whole(m) \cup {r}
    <2>1. ASSUME NEW m \in DOMAIN logs, m # n
          PROVE  Kept(m)' = Kept(m) /\ Whole(m)' = Whole(m)
      BY <1>6, <2>1 DEF Kept, Whole
    <2>. QED
      BY <1>9, <1>11, <2>1
  <1>14. ASSUME NEW low
         PROVE  /\ KeptLogs(low) \subseteq KeptLogs(low)'
                /\ ReadLogs(FromLog(low))' \subseteq ReadLogs(FromLog(low)) \cup {r}
    BY <1>6, <1>13 DEF KeptLogs, ReadLogs, FromLog
  <1>. QED
    BY <1>1, <1>6, <1>7, <1>8, <1>9, <1>12, <1>13, <1>14

(* Write: the record is in the log before it is answered.                  *)
LEMMA WriteKeeps ==
  ASSUME RecoveryAssumption, IInv, NEW sync \in BOOLEAN, Write(sync)
  PROVE  IInv'
  <1>0. Typed /\ Described /\ Running
    BY DEF IInv
  <1>1. PICK r : r = [id |-> ids + 1, seq |-> db.last + 1]
    OBVIOUS
  <1>2. /\ pc = "open" /\ pc' = "open" /\ ~db.error
        /\ logs' = IF sync THEN SyncFile(AppendTo(logs, db.log, r), db.log)
                           ELSE AppendTo(logs, db.log, r)
        /\ db' = [db EXCEPT !.last = db.last + 1, !.mem = db.mem \cup {r}]
        /\ ids' = ids + 1 /\ acked' = acked \cup {r}
        /\ synced' = IF sync THEN synced \cup {r} ELSE synced
        /\ UNCHANGED <<current, manifests, tables, edit, crashes>>
    BY <1>1 DEF Write
  <1>3. Placed /\ Complete /\ Behind /\ Ahead /\ Editing
    BY <1>0, <1>2 DEF Running
  <1>4. /\ db \in Db /\ db.last \in Nat /\ db.log \in Nat /\ db.minLog \in Nat /\ ids \in Nat
        /\ synced \in SUBSET Entry /\ acked \in SUBSET Entry /\ synced \subseteq acked
    BY <1>0 DEF Typed, StateTyped, Db
  <1>5. r \in Entry /\ r.seq = db.last + 1
    BY <1>1, <1>4 DEF Entry
  <1>6. /\ LogsTyped' /\ DOMAIN logs' = DOMAIN logs
        /\ Unbroken(logs'[db.log].recs, Len(logs'[db.log].recs))
        /\ \A low : /\ KeptLogs(low) \subseteq KeptLogs(low)'
                    /\ ReadLogs(FromLog(low))' \subseteq ReadLogs(FromLog(low)) \cup {r}
        /\ \A n \in DOMAIN logs : Kept(n) \subseteq Kept(n)'
        /\ \A n : n = db.log /\ (sync \/ ~Power) => r \in Kept(n)'
    BY <1>0, <1>2, <1>3, <1>5, LogWritten
  <1>7. /\ db' \in Db /\ db'.mem = db.mem \cup {r} /\ db'.imm = db.imm /\ db'.ver = db.ver
        /\ db'.next = db.next /\ db'.log = db.log /\ db'.minLog = db.minLog
        /\ db'.manifest = db.manifest /\ db'.last = db.last + 1 /\ db'.error = db.error
    <2>1. PICK m, l : m = db.mem \cup {r} /\ l = db.last + 1
      OBVIOUS
    <2>2. m \in SUBSET Entry /\ l \in Nat
      BY <1>4, <1>5, <2>1 DEF Db
    <2>3. db' = [db EXCEPT !.last = l, !.mem = m]
      BY <1>2, <2>1
    <2>4. /\ db' \in Db /\ db'.mem = m /\ db'.imm = db.imm /\ db'.ver = db.ver
          /\ db'.next = db.next /\ db'.log = db.log /\ db'.minLog = db.minLog
          /\ db'.manifest = db.manifest /\ db'.last = l /\ db'.error = db.error
      BY <1>4, <2>2, <2>3 DEF Db
    <2>. QED
      BY <2>1, <2>4
  <1>8. Typed'
    <2>1. synced' \in SUBSET Entry /\ acked' \in SUBSET Entry /\ synced' \subseteq acked'
      BY <1>2, <1>4, <1>5
    <2>2. Len(db'.imm) <= 1 /\ ids' \in Nat
      BY <1>0, <1>2, <1>4, <1>7 DEF Typed, StateTyped
    <2>. QED
      BY <1>0, <1>2, <1>6, <1>7, <2>1, <2>2 DEF Typed, ManifestsTyped, TablesTyped, StateTyped, PCs
  <1>9. /\ Durable' \subseteq Durable \cup {r}
        /\ r \in Durable' => sync \/ ~Power \/ r \in Durable
    <2>1. CASE Power
      BY <1>2, <2>1 DEF Durable
    <2>2. CASE ~Power
      BY <1>2, <2>2 DEF Durable
    <2>. QED
      BY <2>1, <2>2
  <1>10. Descriptor' = Descriptor
    BY <1>2 DEF Descriptor
  <1>11. current # 0 /\ current \in DOMAIN manifests /\ db.log \in DOMAIN logs
    BY <1>0, <1>3 DEF Placed, NewLog, Described
  <1>12. ASSUME NEW j \in Reads(Descriptor), Opens(Descriptor.recs, j)
         PROVE  /\ Starts(VersionAt(Descriptor.recs, j), Descriptor.recs[j])'
                /\ (Descriptor.recs[j].last <= db.last /\ Descriptor.recs[j].log <= db.log)'
                /\ UpTo(ReadLogs(FromLog(Descriptor.recs[j].log)), db.last)'
    <2>1. PICK v, e, low : v = VersionAt(Descriptor.recs, j) /\ e = Descriptor.recs[j] /\ low = e.log
      OBVIOUS
    <2>2. e \in Edit /\ e.last \in Nat /\ e.log \in Nat
      BY <1>0, <1>11, <1>12, <2>1, ReadsTyped DEF Typed, Edit
    <2>3. Starts(v, e)
      BY <1>0, <1>11, <1>12, <2>1 DEF Described
    <2>4. e.last <= db.last /\ low <= db.log /\ UpTo(ReadLogs(FromLog(low)), db.last)
      BY <1>3, <1>12, <2>1 DEF Ahead
    <2>5. v \subseteq DOMAIN tables /\ UpTo(TableWrites(v), e.last)
          /\ Distinct(TableWrites(v) \cup ReadLogs(FromLog(low)))
          /\ Durable \subseteq TableWrites(v) \cup KeptLogs(low)
      BY <2>1, <2>3 DEF Starts
    <2>6. PICK W : W = TableWrites(v) \cup ReadLogs(FromLog(low))
      OBVIOUS
    <2>7. W \in SUBSET Entry
      BY <1>0, <1>3, <2>5, <2>6, ContentsTyped DEF Placed
    <2>8. UpTo(W, db.last)
      <3>1. \A q \in W : q.seq \in Nat
        BY <2>7 DEF Entry
      <3>2. \A q \in TableWrites(v) : q.seq <= e.last /\ q \in W
        BY <2>5, <2>6 DEF UpTo
      <3>3. \A q \in TableWrites(v) : q.seq <= db.last
        BY <1>4, <2>2, <2>4, <3>1, <3>2
      <3>. QED
        BY <2>4, <2>6, <3>3 DEF UpTo
    <2>9. Distinct(W \cup {r}) /\ UpTo(W \cup {r}, db.last + 1)
      BY <1>4, <1>5, <2>5, <2>6, <2>7, <2>8, DistinctGrows
    <2>10. TableWrites(v)' = TableWrites(v)
      BY <1>2 DEF TableWrites
    <2>11. ReadLogs(FromLog(low))' \subseteq ReadLogs(FromLog(low)) \cup {r}
      BY <1>6
    <2>12. Durable' \subseteq TableWrites(v)' \cup KeptLogs(low)'
      <3>1. KeptLogs(low) \subseteq KeptLogs(low)'
        BY <1>6
      <3>2. (sync \/ ~Power) => r \in KeptLogs(low)'
        <4>1. PICK n : n = db.log
          OBVIOUS
        <4>2. n \in DOMAIN logs' /\ n >= low
          BY <1>4, <1>6, <1>11, <2>1, <2>2, <2>4, <4>1
        <4>3. (sync \/ ~Power) => r \in Kept(n)'
          BY <1>6, <4>1
        <4>. QED
          BY <4>2, <4>3 DEF KeptLogs
      <3>. QED
        BY <1>9, <2>5, <2>10, <3>1, <3>2
    <2>13. Starts(v, e)'
      <3>1. Distinct(TableWrites(v)' \cup ReadLogs(FromLog(low))')
        BY <2>6, <2>9, <2>10, <2>11 DEF Distinct
      <3>2. UpTo(TableWrites(v)', e.last)
        BY <2>5, <2>10
      <3>. QED
        BY <1>2, <2>1, <2>3, <2>12, <3>1, <3>2 DEF Starts, Distinct, UpTo
    <2>14. UpTo(ReadLogs(FromLog(low)), db.last)'
      BY <1>7, <2>6, <2>9, <2>11 DEF UpTo
    <2>15. e.last <= db'.last /\ low <= db'.log
      BY <1>4, <1>7, <2>2, <2>4
    <2>16. (VersionAt(Descriptor.recs, j) = v /\ Descriptor.recs[j] = e /\ Descriptor.recs[j].log = low)'
      BY <1>10, <2>1
    <2>. QED
      BY <2>1, <2>13, <2>14, <2>15, <2>16
  <1>13. Described'
    BY <1>0, <1>2, <1>10, <1>11, <1>12 DEF Described
  <1>14. Placed'
    BY <1>2, <1>3, <1>6, <1>7 DEF Placed, NewLog
  <1>15. Complete'
    <2>1. Contents' = Contents \cup {r}
      <3>1. Contents = (db.mem \cup UNION ToSet(db.imm)) \cup TableWrites(db.ver)
        BY Zenon DEF Contents, TableWrites
      <3>2. Contents' = (db'.mem \cup UNION ToSet(db'.imm)) \cup TableWrites(db.ver)'
        BY Zenon DEF Contents, TableWrites
      <3>3. TableWrites(db.ver)' = TableWrites(db.ver)
        BY <1>2, <1>7 DEF TableWrites
      <3>. QED
        BY <1>7, <3>1, <3>2, <3>3
    <2>2. PICK low : low = db.minLog
      OBVIOUS
    <2>3. PICK W : W = Contents \cup ReadLogs(FromLog(low))
      OBVIOUS
    <2>4. Distinct(W \cup {r}) /\ UpTo(W \cup {r}, db.last + 1)
      <3>1. Distinct(W) /\ UpTo(W, db.last)
        BY <1>3, <2>2, <2>3 DEF Complete
      <3>2. W \in SUBSET Entry
        BY <1>0, <1>3, <2>3, ContentsTyped DEF Placed
      <3>. QED
        BY <1>4, <1>5, <3>1, <3>2, DistinctGrows
    <2>5. Contents' \cup ReadLogs(FromLog(low))' \subseteq W \cup {r}
      BY <1>6, <2>1, <2>3
    <2>6. (UpTo(Contents \cup ReadLogs(FromLog(low)), db.last) /\ Distinct(Contents \cup ReadLogs(FromLog(low))))'
      BY <1>7, <2>4, <2>5 DEF UpTo, Distinct
    <2>7. (db.minLog = low)'
      BY <1>7, <2>2
    <2>8. Durable' \subseteq Contents'
      BY <1>3, <1>9, <2>1 DEF Complete
    <2>9. Durable' \cap db'.mem \subseteq Kept(db.log)'
      <3>1. PICK n : n = db.log
        OBVIOUS
      <3>2. Durable \cap db.mem \subseteq Kept(n)
        BY <1>3, <3>1 DEF Complete
      <3>3. Kept(n) \subseteq Kept(n)'
        BY <1>6, <1>11, <3>1
      <3>4. (sync \/ ~Power) => r \in Kept(n)'
        BY <1>6, <3>1
      <3>5. r \in Durable => r \in db.mem
        <4>1. ASSUME r \in Durable PROVE FALSE
          <5>1. r \in Contents
            BY <1>3, <4>1 DEF Complete
          <5>2. r.seq <= db.last
            BY <1>3, <5>1 DEF Complete, UpTo
          <5>. QED
            BY <1>4, <1>5, <5>2
        <4>. QED
          BY <4>1
      <3>6. Durable' \cap db'.mem \subseteq Kept(n)'
        BY <1>7, <1>9, <3>2, <3>3, <3>4, <3>5
      <3>7. (db.log = n)'
        BY <1>7, <3>1
      <3>. QED
        BY <3>6, <3>7
    <2>. QED
      BY <2>6, <2>7, <2>8, <2>9 DEF Complete
  <1>16. Behind' /\ Ahead'
    BY <1>3, <1>7, <1>10, <1>12 DEF Behind, Ahead
  <1>17. Editing'
    <2>1. Agreed' <=> Agreed
      BY <1>2, <1>7, <1>10 DEF Agreed
    <2>2. Pending' <=> Pending
      <3>1. TableWrites(db.ver)' = TableWrites(db.ver)
        BY <1>2, <1>7 DEF TableWrites
      <3>. QED
        BY <1>2, <1>7, <3>1 DEF Pending
    <2>. QED
      BY <1>2, <1>3, <1>7, <2>1, <2>2 DEF Editing
  <1>18. Running'
    BY <1>14, <1>15, <1>16, <1>17 DEF Running
  <1>. QED
    BY <1>2, <1>8, <1>11, <1>13, <1>18
    DEF IInv, Nothing, Stopped, OpensWell, Recovering, Replaying, Renewing, Renewed

(* Logs that keep what they keep give no more than before.                 *)
LEMMA ReadsKept ==
  ASSUME NEW low, LogsKept(low)
  PROVE  ReadLogs(FromLog(low))' \subseteq ReadLogs(FromLog(low))
  BY DEF ReadLogs, FromLog, LogsKept

(* The last sequence number stays ahead of the logs when they give no      *)
(* more.                                                                   *)
LEMMA AheadStays ==
  ASSUME Typed, Typed', Ahead, current \in DOMAIN manifests, Descriptor' = Descriptor,
         \A low : LogsKept(low), db'.last = db.last, db.log <= db'.log
  PROVE  Ahead'
  <1>1. SUFFICES ASSUME NEW j \in Reads(Descriptor), Opens(Descriptor.recs, j)
                 PROVE  /\ (Descriptor.recs[j].last <= db.last /\ Descriptor.recs[j].log <= db.log)'
                        /\ UpTo(ReadLogs(FromLog(Descriptor.recs[j].log)), db.last)'
    BY DEF Ahead
  <1>2. PICK e, low : e = Descriptor.recs[j] /\ low = e.log
    OBVIOUS
  <1>3. e.last <= db.last /\ low <= db.log /\ UpTo(ReadLogs(FromLog(low)), db.last)
    BY <1>1, <1>2 DEF Ahead
  <1>4. e \in Edit /\ low \in Nat /\ db.log \in Nat /\ db'.log \in Nat
    <2>1. e \in Edit
      BY <1>1, <1>2, ReadsTyped DEF Typed
    <2>2. db.log \in Nat
      BY DEF Typed, StateTyped, Db
    <2>3. db'.log \in Nat
      BY DEF Typed, StateTyped, Db
    <2>. QED
      BY <1>2, <2>1, <2>2, <2>3 DEF Edit
  <1>5. low <= db'.log
    BY <1>3, <1>4
  <1>6. UpTo(ReadLogs(FromLog(low)), db.last)'
    BY <1>3, ReadsKept DEF UpTo
  <1>7. (Descriptor.recs[j] = e /\ Descriptor.recs[j].log = low)'
    BY <1>2
  <1>. QED
    BY <1>2, <1>3, <1>5, <1>6, <1>7

(* Rotate: the memtable is frozen; its writes stay in the old log.         *)
LEMMA RotateKeeps ==
  ASSUME RecoveryAssumption, IInv, Rotate
  PROVE  IInv'
  <1>0. Typed /\ Described /\ Running
    BY DEF IInv
  <1>1. /\ pc = "open" /\ pc' = "open" /\ ~db.error /\ db.imm = <<>> /\ db.next <= MaxNumber
        /\ logs' = Put(logs, db.next, File(<<>>, 0))
        /\ db' = [db EXCEPT !.log = db.next, !.next = db.next + 1, !.imm = <<db.mem>>, !.mem = {}]
        /\ UNCHANGED <<current, manifests, tables, edit, ids, crashes, synced, acked>>
    BY DEF Rotate, history
  <1>2. Placed /\ Complete /\ Behind /\ Ahead /\ Editing
    BY <1>0, <1>1 DEF Running
  <1>3. PICK n, m : n = db.next /\ m = db.mem
    OBVIOUS
  <1>4. /\ db \in Db /\ n \in 1..MaxNumber /\ db.log \in 0..MaxNumber /\ db.minLog \in 0..MaxNumber
        /\ MaxNumber \in Nat /\ m \in SUBSET Entry /\ n \in Nat
    BY <1>0, <1>1, <1>3 DEF Typed, StateTyped, Db, RecoveryAssumption
  <1>5. n \notin DOMAIN logs /\ db.log \in DOMAIN logs /\ db.log < n
    BY <1>0, <1>2, <1>3, <1>4 DEF Placed, NewLog, Typed, LogsTyped
  <1>6. /\ LogsTyped' /\ \A low : LogsKept(low)
        /\ DOMAIN logs' = DOMAIN logs \cup {n}
        /\ logs'[n].recs = <<>> /\ Whole(n)' = {} /\ Kept(n)' = {}
    BY <1>0, <1>1, <1>3, <1>4, <1>5, LogsPut DEF Typed
  <1>7. /\ db' \in Db /\ db'.mem = {} /\ db'.imm = <<m>> /\ db'.ver = db.ver
        /\ db'.next = n + 1 /\ db'.log = n /\ db'.minLog = db.minLog
        /\ db'.manifest = db.manifest /\ db'.last = db.last /\ db'.error = db.error
    <2>1. PICK i, k : i = <<m>> /\ k = n + 1
      OBVIOUS
    <2>2. i \in Seq(SUBSET Entry) /\ k \in 1..(MaxNumber + 2) /\ n \in 0..MaxNumber
      BY <1>4, <2>1
    <2>3. db' = [db EXCEPT !.log = n, !.next = k, !.imm = i, !.mem = {}]
      BY <1>1, <1>3, <2>1
    <2>4. /\ db' \in Db /\ db'.mem = {} /\ db'.imm = i /\ db'.ver = db.ver
          /\ db'.next = k /\ db'.log = n /\ db'.minLog = db.minLog
          /\ db'.manifest = db.manifest /\ db'.last = db.last /\ db'.error = db.error
      BY <1>4, <2>2, <2>3 DEF Db
    <2>. QED
      BY <2>1, <2>4
  <1>8. Typed'
    <2>1. Len(db'.imm) <= 1 /\ db'.imm # <<>> /\ db'.imm[1] = m
      BY <1>7
    <2>. QED
      BY <1>0, <1>1, <1>6, <1>7, <2>1 DEF Typed, ManifestsTyped, TablesTyped, StateTyped, PCs
  <1>9. Descriptor' = Descriptor /\ current # 0 /\ current \in DOMAIN manifests
    BY <1>0, <1>1, <1>2 DEF Descriptor, Placed, Described
  <1>10. Described'
    BY <1>0, <1>1, <1>6, <1>9, DescribedStays, SameTables
  <1>11. Behind' /\ Ahead'
    <2>1. \A j \in Reads(Descriptor) : Opens(Descriptor.recs, j) => Descriptor.recs[j].next \in Nat
      BY <1>0, <1>9, ReadsTyped DEF Edit, Typed
    <2>2. db.next <= db'.next /\ db.log <= db'.log
      BY <1>3, <1>4, <1>5, <1>7
    <2>3. Behind'
      BY <1>0, <1>2, <1>8, <1>9, <2>1, <2>2, BehindStays
    <2>4. Ahead'
      BY <1>0, <1>2, <1>6, <1>7, <1>8, <1>9, <2>2, AheadStays
    <2>. QED
      BY <2>3, <2>4
  <1>12. Placed'
    <2>1. NewLog'
      <3>1. \A k \in DOMAIN logs' : k <= n
        BY <1>0, <1>2, <1>4, <1>5, <1>6 DEF Placed, NewLog, Typed, LogsTyped
      <3>2. n \in DOMAIN logs' /\ n < db'.next /\ db'.next <= MaxNumber + 1
        BY <1>4, <1>6, <1>7
      <3>. QED
        BY <1>7, <3>1, <3>2 DEF NewLog
    <2>2. Unbroken(logs'[n].recs, Len(logs'[n].recs))
      BY <1>6, EmptySeq DEF Unbroken
    <2>3. db.minLog <= n
      BY <1>2, <1>4, <1>5 DEF Placed
    <2>4. \A k \in db.ver : k < n + 1
      <3>1. \A k \in db.ver : k \in Nat /\ k < n
        BY <1>2, <1>3, <1>4 DEF Placed, Db
      <3>. QED
        BY <1>4, <3>1
    <2>. QED
      BY <1>1, <1>2, <1>7, <2>1, <2>2, <2>3, <2>4 DEF Placed
  <1>13. Complete'
    <2>1. Contents' = Contents
      <3>1. Contents = db.mem \cup TableWrites(db.ver)
        BY <1>1, ContentsIs
      <3>2. Contents' = (db'.mem \cup UNION ToSet(db'.imm)) \cup TableWrites(db.ver)'
        BY Zenon DEF Contents, TableWrites
      <3>3. ToSet(db'.imm) = {m}
        BY <1>7 DEF ToSet
      <3>4. TableWrites(db.ver)' = TableWrites(db.ver)
        BY <1>1, <1>7 DEF TableWrites
      <3>. QED
        BY <1>3, <1>7, <3>1, <3>2, <3>3, <3>4
    <2>2. PICK low : low = db.minLog
      OBVIOUS
    <2>3. ReadLogs(FromLog(low))' \subseteq ReadLogs(FromLog(low))
      BY <1>6, ReadsKept
    <2>4. (db.minLog = low)'
      BY <1>7, <2>2
    <2>5. Durable' = Durable
      BY <1>1 DEF Durable
    <2>. QED
      BY <1>2, <1>7, <2>1, <2>2, <2>3, <2>4, <2>5 DEF Complete, UpTo, Distinct
  <1>14. Editing'
    <2>1. Agreed'
      BY <1>1, <1>2, <1>7, <1>9 DEF Editing, Agreed
    <2>2. ASSUME edit # NoEdit
          PROVE  Pending'
      <3>1. Pending /\ edit.del # {}
        BY <1>1, <1>2, <2>2 DEF Editing, Pending
      <3>2. TableWrites(db.ver)' = TableWrites(db.ver)
        BY <1>1, <1>7 DEF TableWrites
      <3>3. \A k \in edit.add : k < n + 1
        <4>1. \A k \in edit.add : k \in Nat /\ k < n
          BY <1>0, <1>3, <3>1 DEF Pending, Typed, StateTyped, Edit
        <4>. QED
          BY <1>4, <4>1
      <3>. QED
        BY <1>1, <1>7, <3>1, <3>2, <3>3 DEF Pending
    <2>. QED
      BY <1>1, <1>2, <1>7, <2>1, <2>2 DEF Editing
  <1>15. Running'
    BY <1>11, <1>12, <1>13, <1>14 DEF Running
  <1>. QED
    BY <1>1, <1>8, <1>9, <1>10, <1>15
    DEF IInv, Nothing, Stopped, OpensWell, Recovering, Replaying, Renewing, Renewed

(* The background thread's table.                                          *)
LEMMA OneIsNotMany ==
  Cardinality({}) = 0
  BY FS_EmptySet

(* BuildTable: a table under a new number, which no version names.         *)
LEMMA BuildTableKeeps ==
  ASSUME RecoveryAssumption, IInv, BuildTable
  PROVE  IInv'
  <1>0. Typed /\ Described /\ Running
    BY DEF IInv
  <1>1. /\ pc = "open" /\ pc' = "open" /\ ~db.error /\ edit = NoEdit /\ db.next <= MaxNumber
        /\ db' = [db EXCEPT !.next = db.next + 1]
        /\ UNCHANGED <<current, manifests, logs, ids, crashes, synced, acked>>
    BY DEF BuildTable, Idle, history
  <1>2. Placed /\ Complete /\ Behind /\ Ahead /\ Editing
    BY <1>0, <1>1 DEF Running
  <1>3. PICK n : n = db.next
    OBVIOUS
  <1>4. /\ db \in Db /\ n \in 1..MaxNumber /\ db.log \in 0..MaxNumber /\ db.minLog \in 0..MaxNumber
        /\ MaxNumber \in Nat /\ n \in Nat /\ db.ver \in SUBSET Nat
        /\ db.imm \in Seq(SUBSET Entry) /\ Len(db.imm) <= 1
    BY <1>0, <1>1, <1>3 DEF Typed, StateTyped, Db, RecoveryAssumption
  <1>5. \E W, low, del :
          /\ W \in SUBSET Entry /\ tables' = Put(tables, n, W)
          /\ edit' \in Edit /\ edit'.log = low /\ edit'.add = {n} /\ edit'.del = del /\ edit'.next = 0
          /\ low \in 0..MaxNumber /\ del \in SUBSET Nat
          /\ \/ del = {} /\ db.imm # <<>> /\ low = db.log /\ W = db.imm[1]
             \/ del = db.ver /\ del # {} /\ low = db.minLog /\ W = TableWrites(db.ver)
    <2>1. CASE db.imm # <<>>
      <3>1. /\ tables' = Put(tables, n, db.imm[1])
            /\ edit' = [NoEdit EXCEPT !.log = db.log, !.add = {n}]
        BY <1>3, <2>1 DEF BuildTable
      <3>2. db.imm[1] \in SUBSET Entry
        <4>1. 1 \in 1..Len(db.imm)
          BY <1>4, <2>1, LenProperties, EmptySeq
        <4>. QED
          BY <1>4, <4>1, ElementOfSeq
      <3>3. /\ edit' \in Edit /\ edit'.log = db.log /\ edit'.add = {n} /\ edit'.del = {}
            /\ edit'.next = 0
        <4>1. NoEdit \in Edit /\ NoEdit.next = 0 /\ NoEdit.del = {}
          BY NoDbIs
        <4>. QED
          BY <1>4, <3>1, <4>1 DEF Edit
      <3>. QED
        BY <1>4, <2>1, <3>1, <3>2, <3>3
    <2>2. CASE db.imm = <<>>
      <3>1. /\ tables' = Put(tables, n, TableWrites(db.ver)) /\ Cardinality(db.ver) > 1
            /\ edit' = [NoEdit EXCEPT !.log = db.minLog, !.add = {n}, !.del = db.ver]
        BY <1>3, <2>2 DEF BuildTable, TableWrites
      <3>2. db.ver # {}
        BY <3>1, OneIsNotMany
      <3>3. TableWrites(db.ver) \in SUBSET Entry
        BY <1>0, <1>2, ContentsTyped DEF Placed
      <3>4. /\ edit' \in Edit /\ edit'.log = db.minLog /\ edit'.add = {n} /\ edit'.del = db.ver
            /\ edit'.next = 0
        <4>1. NoEdit \in Edit /\ NoEdit.next = 0
          BY NoDbIs
        <4>. QED
          BY <1>4, <3>1, <4>1 DEF Edit
      <3>. QED
        BY <1>4, <3>1, <3>2, <3>3, <3>4
    <2>. QED
      BY <2>1, <2>2
  <1>6. PICK W, low, del :
          /\ W \in SUBSET Entry /\ tables' = Put(tables, n, W)
          /\ edit' \in Edit /\ edit'.log = low /\ edit'.add = {n} /\ edit'.del = del /\ edit'.next = 0
          /\ low \in 0..MaxNumber /\ del \in SUBSET Nat
          /\ \/ del = {} /\ db.imm # <<>> /\ low = db.log /\ W = db.imm[1]
             \/ del = db.ver /\ del # {} /\ low = db.minLog /\ W = TableWrites(db.ver)
    BY <1>5
  <1>7. /\ edit' \in Edit /\ edit'.log = low /\ edit'.add = {n} /\ edit'.del = del /\ edit'.next = 0
    BY <1>6
  <1>8. /\ db' \in Db /\ db'.mem = db.mem /\ db'.imm = db.imm /\ db'.ver = db.ver
        /\ db'.next = n + 1 /\ db'.log = db.log /\ db'.minLog = db.minLog
        /\ db'.manifest = db.manifest /\ db'.last = db.last /\ db'.error = db.error
    <2>1. PICK k \in 1..(MaxNumber + 2) : k = n + 1
      BY <1>4
    <2>2. db' = [db EXCEPT !.next = k]
      BY <1>1, <1>3, <2>1
    <2>. QED
      BY <1>4, <2>1, <2>2 DEF Db
  <1>9. /\ TablesTyped' /\ DOMAIN tables' = DOMAIN tables \cup {n} /\ tables'[n] = W
        /\ \A k \in DOMAIN tables : k # n => tables'[k] = tables[k]
    BY <1>0, <1>4, <1>6, TablesPut DEF Typed
  <1>10. Typed'
    BY <1>0, <1>1, <1>4, <1>7, <1>8, <1>9 DEF Typed, LogsTyped, ManifestsTyped, StateTyped, PCs
  <1>11. Descriptor' = Descriptor /\ current # 0 /\ current \in DOMAIN manifests
    BY <1>0, <1>1, <1>2 DEF Descriptor, Placed, Described
  <1>12. \A l : LogsKept(l)
    BY <1>1, LogsUnchanged
  <1>13. Described'
    <2>1. \A j \in Reads(Descriptor) : Opens(Descriptor.recs, j) =>
            /\ VersionAt(Descriptor.recs, j) \subseteq DOMAIN tables'
            /\ \A k \in VersionAt(Descriptor.recs, j) : tables'[k] = tables[k]
      BY <1>0, <1>2, <1>3, <1>6, <1>11, NewTableHidden
    <2>. QED
      BY <1>0, <1>1, <1>11, <1>12, <2>1, DescribedStays
  <1>14. Behind' /\ Ahead'
    <2>1. \A j \in Reads(Descriptor) : Opens(Descriptor.recs, j) => Descriptor.recs[j].next \in Nat
      BY <1>0, <1>11, ReadsTyped DEF Edit, Typed
    <2>2. db.next <= db'.next /\ db.log <= db'.log
      BY <1>3, <1>4, <1>8
    <2>3. Behind'
      BY <1>0, <1>2, <1>10, <1>11, <2>1, <2>2, BehindStays
    <2>4. Ahead'
      BY <1>0, <1>2, <1>8, <1>10, <1>11, <1>12, <2>2, AheadStays
    <2>. QED
      BY <2>3, <2>4
  <1>15. \A k \in db.ver : k < n /\ k # n /\ k < n + 1
    <2>1. \A k \in db.ver : k \in Nat /\ k < n
      BY <1>2, <1>3, <1>4 DEF Placed
    <2>. QED
      BY <1>4, <2>1
  <1>16. Placed'
    <2>1. NewLog'
      <3>1. /\ db.log \in DOMAIN logs /\ db.log < n /\ \A k \in DOMAIN logs : k <= db.log
        BY <1>2, <1>3 DEF Placed, NewLog
      <3>2. db.log < n + 1 /\ n + 1 <= MaxNumber + 1
        BY <1>4, <3>1
      <3>. QED
        BY <1>1, <1>8, <3>1, <3>2 DEF NewLog
    <2>2. db.ver \subseteq DOMAIN tables'
      BY <1>2, <1>9 DEF Placed
    <2>. QED
      BY <1>1, <1>2, <1>8, <1>15, <2>1, <2>2 DEF Placed
  <1>17. TableWrites(db.ver)' = TableWrites(db.ver)
    <2>1. \A k \in db.ver : tables'[k] = tables[k]
      BY <1>2, <1>9, <1>15 DEF Placed
    <2>. QED
      BY <1>8, <2>1 DEF TableWrites
  <1>18. Complete'
    <2>1. Contents' = Contents
      <3>1. Contents = (db.mem \cup UNION ToSet(db.imm)) \cup TableWrites(db.ver)
        BY Zenon DEF Contents, TableWrites
      <3>2. Contents' = (db'.mem \cup UNION ToSet(db'.imm)) \cup TableWrites(db.ver)'
        BY Zenon DEF Contents, TableWrites
      <3>. QED
        BY <1>8, <1>17, <3>1, <3>2
    <2>2. ReadLogs(FromLog(db.minLog))' = ReadLogs(FromLog(db.minLog)) /\ Kept(db.log)' = Kept(db.log)
      BY <1>1, <1>8 DEF ReadLogs, FromLog, Whole, Kept
    <2>3. Durable' = Durable
      BY <1>1 DEF Durable
    <2>. QED
      BY <1>2, <1>8, <2>1, <2>2, <2>3 DEF Complete, UpTo, Distinct
  <1>19. Editing'
    <2>1. Agreed'
      BY <1>1, <1>2, <1>7, <1>8, <1>11, NoDbIs DEF Editing, Agreed
    <2>2. Pending'
      <3>1. \A k \in edit'.add : k < n + 1
        BY <1>4, <1>7
      <3>2. n \in DOMAIN tables' /\ edit'.add = {n} /\ tables'[n] = W
        BY <1>7, <1>9
      <3>3. CASE del = {}
        BY <1>6, <1>7, <1>8, <3>1, <3>2, <3>3 DEF Pending
      <3>4. CASE del # {}
        BY <1>6, <1>7, <1>8, <1>17, <3>1, <3>2, <3>4 DEF Pending
      <3>. QED
        BY <3>3, <3>4
    <2>. QED
      BY <1>1, <1>7, <1>8, <2>1, <2>2 DEF Editing
  <1>20. Running'
    BY <1>14, <1>16, <1>18, <1>19 DEF Running
  <1>. QED
    BY <1>1, <1>10, <1>11, <1>13, <1>20
    DEF IInv, Nothing, Stopped, OpensWell, Recovering, Replaying, Renewing, Renewed

(* The version after the edit that is to be logged.                        *)
Coming == (db.ver \ edit.del) \cup edit.add

(* The coming version exists and holds what the old one and the memtable   *)
(* held.                                                                   *)
LEMMA ComingIs ==
  ASSUME Typed, Placed, Pending
  PROVE  /\ Coming \subseteq DOMAIN tables /\ \A n \in Coming : n < db.next
         /\ edit.log \in Nat /\ db.minLog <= edit.log /\ edit.log <= db.log
         /\ edit.del = {} => edit.log = db.log /\ db.imm # <<>>
                             /\ TableWrites(Coming) = TableWrites(db.ver) \cup db.imm[1]
         /\ edit.del # {} => edit.log = db.minLog /\ TableWrites(Coming) = TableWrites(db.ver)
  <1>1. /\ db.ver \subseteq DOMAIN tables /\ (\A n \in db.ver : n < db.next) /\ db.minLog <= db.log
        /\ db.log \in Nat /\ db.minLog \in Nat
    BY DEF Typed, StateTyped, Db, Placed
  <1>2. \A n \in edit.add : n < db.next
    BY DEF Pending
  <1>3. CASE edit.del = {}
    <2>1. PICK n \in DOMAIN tables : edit.add = {n} /\ tables[n] = db.imm[1]
      BY <1>3 DEF Pending
    <2>2. Coming = db.ver \cup {n}
      BY <1>3, <2>1 DEF Coming
    <2>3. TableWrites(Coming) = TableWrites(db.ver) \cup db.imm[1]
      BY <2>1, <2>2 DEF TableWrites
    <2>4. edit.log = db.log /\ db.imm # <<>>
      BY <1>3 DEF Pending
    <2>5. Coming \subseteq DOMAIN tables /\ \A k \in Coming : k < db.next
      BY <1>1, <1>2, <2>1, <2>2
    <2>6. edit.log \in Nat /\ db.minLog <= edit.log /\ edit.log <= db.log
      BY <1>1, <2>4
    <2>. QED
      BY <1>3, <2>3, <2>4, <2>5, <2>6
  <1>4. CASE edit.del # {}
    <2>1. PICK n \in DOMAIN tables : edit.add = {n} /\ tables[n] = TableWrites(db.ver)
      BY <1>4 DEF Pending
    <2>2. Coming = {n}
      BY <1>4, <2>1 DEF Coming, Pending
    <2>3. TableWrites(Coming) = TableWrites(db.ver)
      <3>1. TableWrites({n}) = tables[n]
        BY DEF TableWrites
      <3>. QED
        BY <2>1, <2>2, <3>1
    <2>4. edit.log = db.minLog
      BY <1>4 DEF Pending
    <2>5. db.minLog <= db.minLog
      BY <1>1
    <2>. QED
      BY <1>1, <1>2, <1>4, <2>1, <2>2, <2>3, <2>4, <2>5
  <1>. QED
    BY <1>3, <1>4

(* An agreed MANIFEST can be read to its end, and no further back than its *)
(* synced part.                                                            *)
LEMMA AgreedIs ==
  ASSUME Typed, Described, Placed, Agreed
  PROVE  /\ current \in DOMAIN manifests
         /\ Descriptor \in ManifestFile /\ Descriptor = File(Descriptor.recs, Descriptor.synced)
         /\ Descriptor.recs \in Seq(Edit \cup {Torn}) /\ Descriptor.synced \in 1..Len(Descriptor.recs)
         /\ Descriptor.synced \in Nat /\ Len(Descriptor.recs) \in Nat
         /\ Len(Descriptor.recs) \in Reads(Descriptor)
         /\ \A j \in Reads(Descriptor) : j \in Descriptor.synced..Len(Descriptor.recs)
  <1>1. current \in DOMAIN manifests
    BY DEF Described, Placed
  <1>2. Descriptor \in ManifestFile /\ Descriptor.synced <= Len(Descriptor.recs)
    BY <1>1 DEF Typed, ManifestsTyped, Descriptor
  <1>3. /\ Descriptor = File(Descriptor.recs, Descriptor.synced)
        /\ Descriptor.recs \in Seq(Edit \cup {Torn}) /\ Descriptor.synced \in Nat
    BY <1>2 DEF ManifestFile, File
  <1>4. Len(Descriptor.recs) \in Nat
    BY <1>3, LenProperties
  <1>5. Descriptor.synced \in 1..Len(Descriptor.recs)
    BY <1>2, <1>3, <1>4 DEF Agreed
  <1>6. Low(Descriptor) \in Nat /\ Descriptor.synced <= Low(Descriptor)
        /\ Low(Descriptor) <= Len(Descriptor.recs)
    BY <1>2, <1>3, <1>4 DEF Low
  <1>7. Len(Descriptor.recs) \in Reads(Descriptor)
    BY <1>4, <1>6 DEF Reads, Agreed
  <1>8. ASSUME NEW j \in Reads(Descriptor)
        PROVE  j \in Descriptor.synced..Len(Descriptor.recs)
    <2>1. j \in 0..Len(Descriptor.recs)
      BY DEF Reads
    <2>2. ~(j < Len(Descriptor.recs) /\ Descriptor.recs[j + 1] = Torn)
      <3>1. ASSUME j < Len(Descriptor.recs)
            PROVE  Descriptor.recs[j + 1] # Torn
        <4>1. j + 1 \in 1..Len(Descriptor.recs)
          BY <1>4, <2>1, <3>1
        <4>. QED
          BY <4>1 DEF Agreed, Unbroken
      <3>. QED
        BY <3>1
    <2>3. j >= Low(Descriptor)
      BY <2>2 DEF Reads
    <2>. QED
      BY <1>3, <1>4, <1>6, <2>1, <2>3
  <1>. QED
    BY <1>1, <1>2, <1>3, <1>4, <1>5, <1>7, <1>8

(* What LogEdit may do to the MANIFEST that CURRENT names.                 *)
LEMMA EditLogged ==
  ASSUME Typed, Described, Placed, Agreed, edit.next = 0, UNCHANGED current,
         NEW e \in Edit, NEW r \in {Torn, e},
         manifests' = manifests \/ manifests' = AppendTo(manifests, db.manifest, r)
  PROVE  LET f == Descriptor  g == Descriptor'  j == f.synced IN
         /\ ManifestsTyped' /\ current \in DOMAIN manifests'
         /\ g.recs \in Seq(Edit \cup {Torn}) /\ g.synced = j
         /\ Len(g.recs) \in Nat /\ j <= Len(g.recs) /\ Len(g.recs) <= j + 1
         /\ \A i \in 1..j : g.recs[i] = f.recs[i] /\ g.recs[i] # Torn
         /\ Len(g.recs) = j + 1 => g.recs[j + 1] = r
         /\ manifests' = AppendTo(manifests, db.manifest, r) => Len(g.recs) = j + 1
  <1>1. PICK f, j, c : f = Descriptor /\ j = f.synced /\ c = current
    OBVIOUS
  <1>2. /\ c \in DOMAIN manifests /\ manifests[c] = f /\ f = File(f.recs, f.synced)
        /\ f.recs \in Seq(Edit \cup {Torn}) /\ j \in Nat /\ j \in 1..Len(f.recs)
    BY <1>1, AgreedIs DEF Descriptor
  <1>3. Len(f.recs) = j /\ Unbroken(f.recs, j) /\ db.manifest = c
    BY <1>1 DEF Agreed, Placed
  <1>4. CASE manifests' = manifests
    <2>1. Descriptor' = f
      BY <1>1, <1>4 DEF Descriptor
    <2>2. ManifestsTyped'
      BY <1>4 DEF Typed, ManifestsTyped
    <2>3. manifests' = AppendTo(manifests, db.manifest, r) => FALSE
      <3>1. SUFFICES ASSUME manifests' = AppendTo(manifests, c, r)
                     PROVE  FALSE
        BY <1>3
      <3>2. manifests'[c] = File(Append(f.recs, r), f.synced)
        BY <1>2, <3>1, AppendToIs
      <3>3. f.recs = Append(f.recs, r)
        BY <1>2, <1>4, <3>2 DEF File
      <3>4. Len(Append(f.recs, r)) = Len(f.recs) + 1
        BY <1>2, AppendProperties
      <3>. QED
        BY <1>2, <1>3, <3>3, <3>4
    <2>4. Len(f.recs) # j + 1 /\ j <= j + 1 /\ j <= j
      BY <1>2, <1>3
    <2>5. /\ Len(f.recs) \in Nat /\ j <= Len(f.recs) /\ Len(f.recs) <= j + 1
          /\ \A i \in 1..j : f.recs[i] # Torn
          /\ Len(f.recs) = j + 1 => f.recs[j + 1] = r
          /\ current \in DOMAIN manifests'
      BY <1>1, <1>2, <1>3, <1>4, <2>4 DEF Unbroken
    <2>. QED
      BY <1>1, <1>2, <2>1, <2>2, <2>3, <2>5
  <1>5. CASE manifests' = AppendTo(manifests, db.manifest, r)
    <2>1. PICK more : more = Append(f.recs, r)
      OBVIOUS
    <2>2. /\ DOMAIN manifests' = DOMAIN manifests /\ manifests'[c] = File(more, j)
          /\ \A m \in DOMAIN manifests : m # c => manifests'[m] = manifests[m]
      BY <1>1, <1>2, <1>3, <1>5, <2>1, AppendToIs
    <2>3. /\ more \in Seq(Edit \cup {Torn}) /\ Len(more) = j + 1 /\ more[j + 1] = r
          /\ \A i \in 1..j : more[i] = f.recs[i]
      BY <1>2, <1>3, <2>1, AppendProperties
    <2>4. manifests'[c].recs = more /\ manifests'[c].synced = j
      BY <2>2 DEF File
    <2>5. j <= j + 1 /\ j + 1 \in Nat /\ j + 1 <= j + 1
      BY <1>2
    <2>6. ManifestsTyped'
      <3>1. manifests'[c] \in ManifestFile
        BY <1>2, <2>2, <2>3 DEF ManifestFile, File
      <3>. QED
        BY <2>2, <2>3, <2>4, <2>5, <3>1 DEF Typed, ManifestsTyped
    <2>7. Descriptor' = manifests'[c]
      BY <1>1 DEF Descriptor
    <2>. QED
      BY <1>1, <1>2, <1>3, <2>2, <2>3, <2>4, <2>5, <2>6, <2>7 DEF Unbroken
  <1>. QED
    BY <1>4, <1>5

(* A restart may read the pending edit as soon as it is written.           *)
LEMMA PendingStarts ==
  ASSUME RecoveryAssumption, Typed, Described, Placed, Complete, Behind, Agreed, Pending, edit.next = 0,
         NEW e, e.log = edit.log, e.next = db.next, e.last = db.last
  PROVE  /\ Starts(Coming, e) /\ Descriptor.recs[Descriptor.synced].next <= db.next
         /\ UpTo(ReadLogs(FromLog(e.log)), db.last) /\ e.log <= db.log
  <1>1. PICK f, j : f = Descriptor /\ j = f.synced
    OBVIOUS
  <1>2. /\ j \in 1..Len(f.recs) /\ f.recs \in Seq(Edit \cup {Torn}) /\ Len(f.recs) = j
        /\ j \in Reads(f) /\ Unbroken(f.recs, j) /\ current \in DOMAIN manifests
        /\ VersionAt(f.recs, j) = db.ver /\ f.recs[j].log = db.minLog /\ f.recs[j].next # 0
    <2>1. Len(f.recs) = j
      BY <1>1 DEF Agreed
    <2>. QED
      BY <1>1, <2>1, AgreedIs DEF Agreed
  <1>3. Opens(f.recs, j) /\ current # 0
    BY <1>2 DEF Opens, Placed
  <1>4. Starts(db.ver, f.recs[j]) /\ f.recs[j] \in Edit /\ f.recs[j].next <= db.next
    <2>1. f.recs[j] \in Edit
      BY <1>1, <1>2, <1>3, ReadsTyped DEF Typed
    <2>. QED
      BY <1>1, <1>2, <1>3, <2>1 DEF Described, Behind
  <1>5. /\ db.next \in Nat /\ db.log \in Nat /\ db.minLog \in Nat /\ current \in Nat
        /\ f.recs[j].next \in Nat /\ db.log < db.next
    BY <1>4 DEF Typed, StateTyped, Db, Edit, Placed, NewLog
  <1>6. /\ Coming \subseteq DOMAIN tables /\ \A n \in Coming : n < db.next
        /\ edit.log \in Nat /\ db.minLog <= edit.log /\ edit.log <= db.log
        /\ edit.del = {} => edit.log = db.log /\ db.imm # <<>>
                            /\ TableWrites(Coming) = TableWrites(db.ver) \cup db.imm[1]
        /\ edit.del # {} => edit.log = db.minLog /\ TableWrites(Coming) = TableWrites(db.ver)
    BY ComingIs
  <1>7. current < db.next /\ edit.log < db.next
    <2>1. current < f.recs[j].next
      BY <1>4 DEF Starts
    <2>. QED
      BY <1>4, <1>5, <1>6, <2>1
  <1>8. /\ Durable \subseteq Contents /\ Durable \cap db.mem \subseteq Kept(db.log)
        /\ UpTo(Contents \cup ReadLogs(FromLog(db.minLog)), db.last)
        /\ Distinct(Contents \cup ReadLogs(FromLog(db.minLog)))
    BY DEF Complete
  <1>9. TableWrites(Coming) \subseteq Contents
        /\ Durable \subseteq TableWrites(Coming) \cup KeptLogs(edit.log)
    <2>1. CASE edit.del = {}
      <3>1. db.imm \in Seq(SUBSET Entry) /\ Len(db.imm) <= 1
        BY DEF Typed, StateTyped, Db
      <3>2. Contents = db.mem \cup db.imm[1] \cup TableWrites(db.ver)
        BY <1>6, <2>1, <3>1, ContentsIs
      <3>3. Kept(db.log) \subseteq KeptLogs(db.log)
        <4>1. db.log \in DOMAIN logs /\ db.log >= db.log
          BY <1>5 DEF Placed, NewLog
        <4>. QED
          BY <4>1 DEF KeptLogs
      <3>. QED
        BY <1>6, <1>8, <2>1, <3>2, <3>3
    <2>2. CASE edit.del # {}
      <3>1. TableWrites(db.ver) \subseteq Contents
        BY DEF Contents, TableWrites
      <3>2. Durable \subseteq TableWrites(db.ver) \cup KeptLogs(db.minLog)
        BY <1>2, <1>4 DEF Starts
      <3>. QED
        BY <1>6, <2>2, <3>1, <3>2
    <2>. QED
      BY <2>1, <2>2
  <1>10. ReadLogs(FromLog(edit.log)) \subseteq ReadLogs(FromLog(db.minLog))
    <2>1. \A n \in DOMAIN logs : n \in Nat /\ (n >= edit.log => n >= db.minLog)
      BY <1>5, <1>6 DEF Typed, LogsTyped
    <2>. QED
      BY <2>1 DEF ReadLogs, FromLog
  <1>11. /\ UpTo(TableWrites(Coming), db.last) /\ UpTo(ReadLogs(FromLog(edit.log)), db.last)
         /\ Distinct(TableWrites(Coming) \cup ReadLogs(FromLog(edit.log)))
    BY <1>8, <1>9, <1>10 DEF UpTo, Distinct
  <1>12. Starts(Coming, e)
    BY <1>6, <1>7, <1>9, <1>11 DEF Starts
  <1>. QED
    BY <1>1, <1>4, <1>6, <1>11, <1>12

(* LogEdit: whether or not the edit is written, a restart may read either  *)
(* version.                                                                *)
LEMMA LogEditKeeps ==
  ASSUME RecoveryAssumption, IInv, LogEdit
  PROVE  IInv'
  <1>0. Typed /\ Described /\ Running
    BY DEF IInv
  <1>1. /\ pc = "open" /\ ~db.error /\ edit # NoEdit /\ edit.next = 0
        /\ UNCHANGED <<current, logs, tables, ids, crashes, synced, acked>>
    BY DEF LogEdit, history
  <1>2. Placed /\ Complete /\ Behind /\ Ahead /\ Editing /\ Agreed /\ Pending
    BY <1>0, <1>1 DEF Running, Editing
  <1>3. PICK e, f, g, j : /\ e = Completed(edit.log) /\ f = Descriptor /\ g = Descriptor'
                          /\ j = f.synced
    OBVIOUS
  <1>4. /\ db \in Db /\ edit \in Edit /\ db.next \in 1..(MaxNumber + 1) /\ db.last \in Nat /\ MaxNumber \in Nat
        /\ db.error = FALSE /\ edit.log \in 0..MaxNumber
    <2>1. db \in Db /\ edit \in Edit /\ db.last \in Nat /\ MaxNumber \in Nat
      BY <1>0 DEF Typed, StateTyped, Db, RecoveryAssumption
    <2>2. db.next \in 1..(MaxNumber + 2) /\ db.next <= MaxNumber + 1
      BY <1>2, <2>1 DEF Placed, NewLog, Db
    <2>3. db.error = FALSE
      BY <1>1, <2>1 DEF Db
    <2>4. edit.log \in 0..MaxNumber
      BY <2>1 DEF Edit
    <2>. QED
      BY <2>1, <2>2, <2>3, <2>4
  <1>5. /\ e \in Edit /\ e.log = edit.log /\ e.next = db.next /\ e.last = db.last
        /\ e.add = edit.add /\ e.del = edit.del /\ e.next # 0
    <2>1. PICK l, n, k : l = edit.log /\ n = db.next /\ k = db.last
      OBVIOUS
    <2>2. l \in 0..MaxNumber /\ n \in 0..(MaxNumber + 1) /\ n # 0 /\ k \in Nat
      BY <1>4, <2>1
    <2>3. e = [edit EXCEPT !.log = l, !.next = n, !.last = k]
      BY <1>3, <2>1 DEF Completed
    <2>4. /\ e \in Edit /\ e.log = l /\ e.next = n /\ e.last = k
          /\ e.add = edit.add /\ e.del = edit.del
      BY <1>4, <2>2, <2>3 DEF Edit
    <2>. QED
      BY <2>1, <2>2, <2>4
  <1>6. PICK r \in {Torn, e} : manifests' = manifests \/ manifests' = AppendTo(manifests, db.manifest, r)
    <2>1. CASE edit' = Completed(edit.log) /\ manifests' = AppendTo(manifests, db.manifest, edit')
      BY <1>3, <2>1
    <2>2. CASE manifests' \in {manifests, AppendTo(manifests, db.manifest, Torn),
                               AppendTo(manifests, db.manifest, Completed(edit.log))}
      BY <1>3, <2>2
    <2>. QED
      BY <2>1, <2>2 DEF LogEdit
  <1>7. /\ \/ /\ edit' = e /\ db' = db /\ pc' = pc
              /\ manifests' = AppendTo(manifests, db.manifest, e)
           \/ db' = [db EXCEPT !.error = TRUE] /\ edit' = edit
        /\ pc' \in {"open", "clean"} /\ (pc' = "clean" => db'.error)
    BY <1>1, <1>3, <1>4 DEF LogEdit, Db
  <1>8. /\ db' \in Db /\ db'.mem = db.mem /\ db'.imm = db.imm /\ db'.ver = db.ver
        /\ db'.next = db.next /\ db'.log = db.log /\ db'.minLog = db.minLog
        /\ db'.manifest = db.manifest /\ db'.last = db.last
    BY <1>4, <1>7 DEF Db
  <1>9. /\ ManifestsTyped' /\ current \in DOMAIN manifests'
        /\ g.recs \in Seq(Edit \cup {Torn}) /\ g.synced = j
        /\ Len(g.recs) \in Nat /\ j <= Len(g.recs) /\ Len(g.recs) <= j + 1
        /\ \A i \in 1..j : g.recs[i] = f.recs[i] /\ g.recs[i] # Torn
        /\ Len(g.recs) = j + 1 => g.recs[j + 1] = r
        /\ manifests' = AppendTo(manifests, db.manifest, r) => Len(g.recs) = j + 1
    BY <1>0, <1>1, <1>2, <1>3, <1>5, <1>6, EditLogged
  <1>10. Typed'
    BY <1>0, <1>1, <1>5, <1>7, <1>8, <1>9 DEF Typed, LogsTyped, TablesTyped, StateTyped, PCs
  <1>11. /\ j \in Nat /\ j \in 1..Len(f.recs) /\ Len(f.recs) = j /\ f.recs \in Seq(Edit \cup {Torn})
         /\ j \in Reads(f) /\ current \in DOMAIN manifests /\ current # 0
         /\ f.recs[j].next # 0 /\ VersionAt(f.recs, j) = db.ver
    <2>1. Len(f.recs) = j /\ current # 0
      BY <1>1, <1>2, <1>3 DEF Agreed, Placed
    <2>. QED
      BY <1>0, <1>2, <1>3, <2>1, AgreedIs DEF Agreed
  <1>12. \A i \in Reads(g) : i \in 0..Len(g.recs) /\ (i = j \/ (i = j + 1 /\ Len(g.recs) = j + 1 /\ r = e))
    <2>1. SUFFICES ASSUME NEW i \in Reads(g)
                   PROVE  i = j \/ (i = j + 1 /\ Len(g.recs) = j + 1 /\ r = e)
      BY DEF Reads
    <2>2. i \in 0..Len(g.recs) /\ Unbroken(g.recs, i)
      BY DEF Reads
    <2>3. i >= j
      <3>1. CASE i < Len(g.recs) /\ g.recs[i + 1] = Torn
        <4>1. i + 1 \in 1..j \/ i >= j
          BY <1>11, <2>2
        <4>. QED
          BY <1>9, <3>1, <4>1
      <3>2. CASE i >= Low(g)
        <4>1. Low(g) \in Nat /\ Low(g) >= j
          BY <1>9, <1>11 DEF Low
        <4>. QED
          BY <1>11, <2>2, <3>2, <4>1
      <3>. QED
        BY <3>1, <3>2 DEF Reads
    <2>4. ASSUME i = j + 1
          PROVE  Len(g.recs) = j + 1 /\ r = e
      <3>1. Len(g.recs) = j + 1
        BY <1>9, <1>11, <2>2, <2>4
      <3>2. g.recs[i] # Torn
        <4>1. i \in 1..i
          BY <1>11, <2>4
        <4>. QED
          BY <2>2, <4>1 DEF Unbroken
      <3>. QED
        BY <1>6, <1>9, <2>4, <3>1, <3>2
    <2>5. i = j \/ i = j + 1
      <3>1. PICK k \in Nat : k = Len(g.recs)
        BY <1>9
      <3>2. i \in 0..k /\ k <= j + 1 /\ i >= j
        BY <1>9, <2>2, <2>3, <3>1
      <3>. QED
        BY <1>11, <3>2
    <2>. QED
      BY <2>4, <2>5
  <1>13. Starts(db.ver, f.recs[j]) /\ Opens(f.recs, j) /\ f.recs[j] \in Edit
    <2>1. Opens(f.recs, j)
      BY <1>11 DEF Opens
    <2>2. f.recs[j] \in Edit
      BY <1>0, <1>3, <1>11, <2>1, ReadsTyped DEF Typed
    <2>. QED
      BY <1>0, <1>3, <1>11, <2>1, <2>2 DEF Described
  <1>14. /\ Starts(Coming, e) /\ f.recs[j].next <= db.next
         /\ UpTo(ReadLogs(FromLog(e.log)), db.last) /\ e.log <= db.log
    BY <1>0, <1>1, <1>2, <1>3, <1>5, PendingStarts
  <1>15. VersionAt(g.recs, j) = db.ver
    <2>1. j \in 0..Len(f.recs) /\ j <= Len(g.recs) /\ \A i \in 1..j : f.recs[i] = g.recs[i]
      BY <1>9, <1>11
    <2>2. VersionAt(f.recs, j) = VersionAt(g.recs, j)
      BY <1>9, <1>11, <2>1, VersionPrefix
    <2>. QED
      BY <1>11, <2>2
  <1>16. Len(g.recs) = j + 1 /\ r = e => VersionAt(g.recs, j + 1) = Coming
    <2>1. ASSUME Len(g.recs) = j + 1, r = e
          PROVE  VersionAt(g.recs, j + 1) = Coming
      <3>1. j + 1 \in 1..Len(g.recs) /\ g.recs[j + 1] = e
        BY <1>9, <1>11, <2>1
      <3>2. VersionAt(g.recs, j + 1) = (VersionAt(g.recs, j) \ g.recs[j + 1].del) \cup g.recs[j + 1].add
        BY <1>9, <1>11, <3>1, VersionNext
      <3>. QED
        BY <1>5, <1>15, <3>1, <3>2 DEF Coming
    <2>. QED
      BY <2>1
  <1>17. \A i \in Reads(g) : \/ i = j /\ g.recs[i] = f.recs[j] /\ VersionAt(g.recs, i) = db.ver
                             \/ i = j + 1 /\ g.recs[i] = e /\ VersionAt(g.recs, i) = Coming
    <2>1. g.recs[j] = f.recs[j]
      BY <1>9, <1>11
    <2>. QED
      BY <1>9, <1>12, <1>15, <1>16, <2>1
  <1>18. Starts(db.ver, f.recs[j])' /\ Starts(Coming, e)'
    <2>1. PICK v, c, d : v = db.ver /\ c = Coming /\ d = f.recs[j]
      OBVIOUS
    <2>2. LogsKept(d.log) /\ LogsKept(e.log)
      BY <1>1, LogsUnchanged
    <2>3. v \subseteq DOMAIN tables' /\ c \subseteq DOMAIN tables' /\ \A n : tables'[n] = tables[n]
      BY <1>1, <1>13, <1>14, <2>1 DEF Starts
    <2>4. Starts(v, d)' /\ Starts(c, e)'
      BY <1>1, <1>13, <1>14, <2>1, <2>2, <2>3, StartsStays
    <2>5. (db.ver = v)' /\ d = f.recs[j]
      BY <1>8, <2>1
    <2>6. (Coming = c)'
      BY <1>5, <1>7, <1>8, <2>1 DEF Coming
    <2>. QED
      BY <2>4, <2>5, <2>6
  <1>19. ASSUME NEW i \in Reads(g)
         PROVE  /\ Opens(g.recs, i) /\ Starts(VersionAt(Descriptor.recs, i), Descriptor.recs[i])'
                /\ g.recs[i].next \in Nat /\ g.recs[i].next <= db.next
    <2>1. f.recs[j].next \in Nat /\ db.next \in Nat /\ db.next <= db.next
      BY <1>4, <1>13 DEF Edit
    <2>2. CASE i = j /\ g.recs[i] = f.recs[j] /\ VersionAt(g.recs, i) = db.ver
      <3>1. (VersionAt(Descriptor.recs, i) = db.ver /\ Descriptor.recs[i] = f.recs[j])'
        BY <1>3, <1>8, <2>2
      <3>. QED
        BY <1>13, <1>14, <1>18, <2>1, <2>2, <3>1 DEF Opens
    <2>3. CASE i = j + 1 /\ g.recs[i] = e /\ VersionAt(g.recs, i) = Coming
      <3>1. Coming' = Coming
        BY <1>5, <1>7, <1>8 DEF Coming
      <3>2. (VersionAt(Descriptor.recs, i) = Coming /\ Descriptor.recs[i] = e)'
        BY <1>3, <2>3, <3>1
      <3>3. Opens(g.recs, i)
        BY <1>5, <1>11, <2>3 DEF Opens
      <3>. QED
        BY <1>5, <1>18, <2>1, <2>3, <3>2, <3>3
    <2>. QED
      BY <1>17, <2>2, <2>3
  <1>20. Described'
    <2>1. \A i \in 1..Len(g.recs) : g.recs[i] = Torn => i = Len(g.recs)
      BY <1>9, <1>11
    <2>2. \A h, i \in Reads(g) : h <= i => g.recs[h].next <= g.recs[i].next
      <3>1. SUFFICES ASSUME NEW h \in Reads(g), NEW i \in Reads(g), h <= i
                     PROVE  g.recs[h].next <= g.recs[i].next
        OBVIOUS
      <3>2. g.recs[h].next \in Nat /\ g.recs[i].next \in Nat /\ g.recs[h].next <= db.next
        BY <1>19
      <3>3. CASE i = j
        <4>1. h = j
          BY <1>11, <1>17, <3>1, <3>3
        <4>. QED
          BY <3>2, <3>3, <4>1
      <3>4. CASE i = j + 1
        <4>1. g.recs[i].next = db.next
          BY <1>5, <1>11, <1>17, <3>4
        <4>. QED
          BY <3>2, <4>1
      <3>. QED
        BY <1>17, <3>3, <3>4
    <2>3. current' \in DOMAIN manifests' /\ pc' # "newdb"
      BY <1>1, <1>7, <1>9
    <2>. QED
      BY <1>3, <1>19, <2>1, <2>2, <2>3 DEF Described
  <1>21. Behind' /\ Ahead'
    <2>1. Behind'
      BY <1>3, <1>8, <1>19 DEF Behind
    <2>2. \A low : ReadLogs(FromLog(low))' = ReadLogs(FromLog(low))
      BY <1>1 DEF ReadLogs, FromLog, Whole
    <2>3. ASSUME NEW i \in Reads(g)
          PROVE  /\ g.recs[i].last <= db.last /\ g.recs[i].log <= db.log
                 /\ UpTo(ReadLogs(FromLog(g.recs[i].log)), db.last)
      <3>1. f.recs[j].last <= db.last /\ f.recs[j].log <= db.log
            /\ UpTo(ReadLogs(FromLog(f.recs[j].log)), db.last)
        BY <1>2, <1>3, <1>11, <1>13 DEF Ahead
      <3>2. e.last <= db.last
        BY <1>4, <1>5
      <3>. QED
        BY <1>14, <1>17, <3>1, <3>2
    <2>4. ASSUME NEW i \in Reads(g)
          PROVE  /\ (Descriptor.recs[i].last <= db.last /\ Descriptor.recs[i].log <= db.log)'
                 /\ UpTo(ReadLogs(FromLog(Descriptor.recs[i].log)), db.last)'
      <3>1. PICK low : low = g.recs[i].log
        OBVIOUS
      <3>2. UpTo(ReadLogs(FromLog(low)), db.last)'
        BY <1>8, <2>2, <2>3, <3>1 DEF UpTo
      <3>3. (Descriptor.recs[i].log = low)'
        BY <1>3, <3>1
      <3>. QED
        BY <1>3, <1>8, <2>3, <3>2, <3>3
    <2>5. Ahead'
      BY <1>3, <2>4 DEF Ahead
    <2>. QED
      BY <2>1, <2>5
  <1>22. Placed'
    BY <1>1, <1>2, <1>8 DEF Placed, NewLog
  <1>23. TableWrites(db.ver)' = TableWrites(db.ver)
    BY <1>1, <1>8 DEF TableWrites
  <1>24. Complete'
    <2>1. Contents' = Contents
      <3>1. Contents = (db.mem \cup UNION ToSet(db.imm)) \cup TableWrites(db.ver)
        BY Zenon DEF Contents, TableWrites
      <3>2. Contents' = (db'.mem \cup UNION ToSet(db'.imm)) \cup TableWrites(db.ver)'
        BY Zenon DEF Contents, TableWrites
      <3>. QED
        BY <1>8, <1>23, <3>1, <3>2
    <2>2. ReadLogs(FromLog(db.minLog))' = ReadLogs(FromLog(db.minLog)) /\ Kept(db.log)' = Kept(db.log)
      BY <1>1, <1>8 DEF ReadLogs, FromLog, Whole, Kept
    <2>3. Durable' = Durable
      BY <1>1 DEF Durable
    <2>. QED
      BY <1>2, <1>8, <2>1, <2>2, <2>3 DEF Complete, UpTo, Distinct
  <1>25. Editing'
    <2>1. CASE db' = [db EXCEPT !.error = TRUE] /\ edit' = edit
      <3>1. db'.error = TRUE
        BY <1>4, <2>1 DEF Db
      <3>. QED
        BY <1>1, <2>1, <3>1 DEF Editing
    <2>2. CASE edit' = e /\ db' = db /\ pc' = pc /\ manifests' = AppendTo(manifests, db.manifest, e)
      <3>1. Len(g.recs) = j + 1 /\ g.recs[j + 1] = e
        <4>2. PICK q \in {Torn, e} : q = e
          OBVIOUS
        <4>3. manifests' = AppendTo(manifests, db.manifest, q)
          BY <2>2, <4>2
        <4>4. /\ Len(g.recs) = j + 1 => g.recs[j + 1] = q
              /\ manifests' = AppendTo(manifests, db.manifest, q) => Len(g.recs) = j + 1
          BY <1>0, <1>1, <1>2, <1>3, <1>5, <4>2, <4>3, EditLogged
        <4>. QED
          BY <4>2, <4>3, <4>4
      <3>2. \A i \in 1..(j + 1) : g.recs[i] # Torn
        BY <1>5, <1>9, <1>11, <3>1, TornIsNone
      <3>3. Agreed'
        <4>1. Unbroken(g.recs, Len(g.recs))
          BY <3>1, <3>2 DEF Unbroken
        <4>2. g.synced >= 1 /\ VersionAt(g.recs, g.synced) = db.ver /\ g.recs[g.synced].log = db.minLog
              /\ g.recs[g.synced].next # 0
          <5>1. g.synced = j /\ j >= 1 /\ g.recs[j] = f.recs[j] /\ f.recs[j].log = db.minLog
            BY <1>2, <1>3, <1>9, <1>11 DEF Agreed
          <5>. QED
            BY <1>11, <1>15, <5>1
        <4>. QED
          BY <1>3, <1>5, <1>8, <1>9, <2>2, <3>1, <4>1, <4>2 DEF Agreed
      <3>4. Pending'
        BY <1>1, <1>2, <1>5, <1>8, <1>23, <2>2 DEF Pending
      <3>. QED
        BY <1>1, <1>4, <1>5, <2>2, <3>3, <3>4 DEF Editing
    <2>. QED
      BY <1>7, <2>1, <2>2
  <1>26. Running'
    BY <1>20, <1>21, <1>22, <1>24, <1>25 DEF Running
  <1>. QED
    BY <1>1, <1>7, <1>10, <1>11, <1>20, <1>26
    DEF IInv, Nothing, Stopped, OpensWell, Recovering, Replaying, Renewing, Renewed

(* ApplyEdit: the synced MANIFEST can only be read as the new version.     *)
LEMMA ApplyEditKeeps ==
  ASSUME RecoveryAssumption, IInv, ApplyEdit
  PROVE  IInv'
  <1>0. Typed /\ Described /\ Running
    BY DEF IInv
  <1>1. /\ pc = "open" /\ pc' = "clean" /\ edit.next # 0 /\ edit' = NoEdit
        /\ manifests' = SyncFile(manifests, db.manifest)
        /\ db' = [Applied(edit.log) EXCEPT !.imm = IF edit.del = {} THEN <<>> ELSE db.imm]
        /\ UNCHANGED <<current, logs, tables, ids, crashes, synced, acked>>
    BY DEF ApplyEdit, Applied, history
  <1>2. Placed /\ Complete /\ Behind /\ Ahead /\ Editing
    BY <1>0, <1>1 DEF Running
  <1>3. ~db.error /\ edit # NoEdit /\ Agreed /\ Pending
    BY <1>1, <1>2, NoDbIs DEF Editing
  <1>4. PICK f, k, v, imm : /\ f = Descriptor /\ k = Len(f.recs) /\ v = Coming
                            /\ imm = IF edit.del = {} THEN <<>> ELSE db.imm
    OBVIOUS
  <1>5. /\ db \in Db /\ db.log \in Nat /\ db.minLog \in Nat /\ edit \in Edit
        /\ edit.log \in 0..MaxNumber /\ db.imm \in Seq(SUBSET Entry) /\ Len(db.imm) <= 1
        /\ db.ver \in SUBSET Nat /\ edit.add \in SUBSET Nat
    BY <1>0 DEF Typed, StateTyped, Db, Edit
  <1>6. /\ current \in DOMAIN manifests /\ current # 0
        /\ f.recs \in Seq(Edit \cup {Torn}) /\ k \in Nat /\ k \in Reads(f) /\ k >= 1
        /\ f.synced \in Nat /\ k = f.synced + 1 /\ f.recs[k] = edit /\ Unbroken(f.recs, k)
        /\ VersionAt(f.recs, f.synced) = db.ver
    <2>1. current # 0
      BY <1>2 DEF Placed
    <2>2. k = f.synced + 1 /\ f.recs[k] = edit /\ Unbroken(f.recs, k) /\ VersionAt(f.recs, f.synced) = db.ver
      BY <1>1, <1>3, <1>4 DEF Agreed
    <2>3. /\ current \in DOMAIN manifests /\ f.recs \in Seq(Edit \cup {Torn}) /\ k \in Nat
          /\ k \in Reads(f) /\ f.synced \in Nat
      BY <1>0, <1>2, <1>3, <1>4, AgreedIs
    <2>. QED
      BY <2>1, <2>2, <2>3
  <1>7. VersionAt(f.recs, k) = v
    <2>1. f.synced + 1 \in 1..Len(f.recs)
      BY <1>4, <1>6
    <2>2. VersionAt(f.recs, f.synced + 1)
            = (VersionAt(f.recs, f.synced) \ f.recs[f.synced + 1].del) \cup f.recs[f.synced + 1].add
      BY <1>6, <2>1, VersionNext
    <2>. QED
      BY <1>4, <1>6, <2>2 DEF Coming
  <1>8. Opens(f.recs, k) /\ Starts(v, edit) /\ edit.next <= db.next
    <2>1. Opens(f.recs, k)
      BY <1>1, <1>6 DEF Opens
    <2>. QED
      BY <1>0, <1>2, <1>4, <1>6, <1>7, <2>1 DEF Described, Behind
  <1>9. /\ ManifestsTyped' /\ DOMAIN manifests' = DOMAIN manifests /\ Descriptor' = File(f.recs, k)
    <2>1. db.manifest = current
      BY <1>2 DEF Placed
    <2>2. /\ ManifestsTyped' /\ DOMAIN manifests' = DOMAIN manifests
          /\ manifests'[current] = File(manifests[current].recs, Len(manifests[current].recs))
      BY <1>0, <1>1, <1>6, <2>1, ManifestsSynced DEF Typed
    <2>. QED
      BY <1>1, <1>4, <2>2 DEF Descriptor
  <1>10. PICK g : g = Descriptor'
    OBVIOUS
  <1>11. g.recs = f.recs /\ g.synced = k /\ Len(g.recs) = k
    BY <1>4, <1>9, <1>10 DEF File
  <1>12. \A j \in Reads(g) : j = k
    BY <1>6, <1>11, ReadsOfSynced
  <1>13. /\ Coming \subseteq DOMAIN tables /\ \A n \in Coming : n < db.next
         /\ edit.log \in Nat /\ db.minLog <= edit.log /\ edit.log <= db.log
         /\ edit.del = {} => edit.log = db.log /\ db.imm # <<>>
                             /\ TableWrites(Coming) = TableWrites(db.ver) \cup db.imm[1]
         /\ edit.del # {} => edit.log = db.minLog /\ TableWrites(Coming) = TableWrites(db.ver)
    BY <1>0, <1>2, <1>3, ComingIs
  <1>14. /\ db' \in Db /\ db'.mem = db.mem /\ db'.imm = imm /\ db'.ver = v
         /\ db'.next = db.next /\ db'.log = db.log /\ db'.minLog = edit.log
         /\ db'.manifest = db.manifest /\ db'.last = db.last /\ db'.error = db.error
    <2>1. imm \in Seq(SUBSET Entry) /\ v \in SUBSET Nat
      BY <1>4, <1>5, EmptySeq DEF Coming
    <2>2. PICK l \in 0..MaxNumber : l = edit.log
      BY <1>5
    <2>3. Applied(edit.log) = [db EXCEPT !.ver = v, !.minLog = l]
      BY <1>4, <2>2 DEF Applied, Coming
    <2>4. db' = [db EXCEPT !.ver = v, !.minLog = l, !.imm = imm]
      <3>1. PICK a \in Db : a = [db EXCEPT !.ver = v, !.minLog = l]
        BY <1>5, <2>1, <2>2 DEF Db
      <3>2. db' = [a EXCEPT !.imm = imm]
        BY <1>1, <1>4, <2>3, <3>1
      <3>. QED
        BY <1>5, <3>1, <3>2 DEF Db
    <2>. QED
      BY <1>5, <2>1, <2>2, <2>4 DEF Db
  <1>15. Typed'
    <2>1. Len(db'.imm) <= 1
      BY <1>4, <1>5, <1>14, EmptySeq
    <2>. QED
      BY <1>0, <1>1, <1>9, <1>14, <2>1, NoDbIs DEF Typed, LogsTyped, TablesTyped, StateTyped, PCs
  <1>16. PICK e : e = edit
    OBVIOUS
  <1>17. Starts(v, e)'
    <2>1. LogsKept(e.log)
      BY <1>1, LogsUnchanged
    <2>2. v \subseteq DOMAIN tables' /\ \A n \in v : tables'[n] = tables[n]
      BY <1>1, <1>4, <1>13
    <2>. QED
      BY <1>1, <1>8, <1>16, <2>1, <2>2, StartsStays
  <1>18. Opens(g.recs, k) /\ g.recs[k] = e /\ e \in Edit /\ e.next <= db.next /\ e.next \in Nat
    BY <1>5, <1>6, <1>8, <1>11, <1>16 DEF Edit
  <1>19. (VersionAt(Descriptor.recs, k) = v /\ Descriptor.recs[k] = e)'
    BY <1>7, <1>10, <1>11, <1>18
  <1>20. Described'
    <2>1. \A i \in 1..Len(g.recs) : g.recs[i] # Torn
      BY <1>6, <1>11 DEF Unbroken
    <2>2. Starts(VersionAt(Descriptor.recs, k), Descriptor.recs[k])'
      BY <1>17, <1>19
    <2>3. current' \in DOMAIN manifests' /\ pc' # "newdb"
      BY <1>1, <1>6, <1>9
    <2>4. \A i, j \in Reads(g) : g.recs[i].next <= g.recs[j].next
      <3>1. g.recs[k].next <= g.recs[k].next
        BY <1>18
      <3>. QED
        BY <1>12, <3>1
    <2>. QED
      BY <1>10, <1>12, <1>18, <2>1, <2>2, <2>3, <2>4 DEF Described
  <1>21. Behind' /\ Ahead'
    <2>1. Behind'
      BY <1>10, <1>12, <1>14, <1>18 DEF Behind
    <2>2. PICK low : low = e.log
      OBVIOUS
    <2>3. e.last <= db.last /\ low <= db.log /\ UpTo(ReadLogs(FromLog(low)), db.last)
      BY <1>2, <1>4, <1>6, <1>8, <1>16, <2>2 DEF Ahead
    <2>4. UpTo(ReadLogs(FromLog(low)), db.last)'
      BY <1>1, <1>14, <2>3 DEF UpTo, ReadLogs, FromLog, Whole
    <2>5. (Descriptor.recs[k].log = low)'
      BY <1>19, <2>2
    <2>6. /\ (Descriptor.recs[k].last <= db.last /\ Descriptor.recs[k].log <= db.log)'
          /\ UpTo(ReadLogs(FromLog(Descriptor.recs[k].log)), db.last)'
      BY <1>14, <1>19, <2>2, <2>3, <2>4, <2>5
    <2>7. Ahead'
      BY <1>10, <1>12, <2>6 DEF Ahead
    <2>. QED
      BY <2>1, <2>7
  <1>22. Placed'
    BY <1>1, <1>2, <1>4, <1>13, <1>14 DEF Placed, NewLog
  <1>23. Contents' = Contents
    <2>1. Contents' = (db'.mem \cup UNION ToSet(db'.imm)) \cup TableWrites(db.ver)'
      BY Zenon DEF Contents, TableWrites
    <2>2. TableWrites(db.ver)' = TableWrites(v)
      BY <1>1, <1>14 DEF TableWrites
    <2>3. CASE edit.del = {}
      <3>1. Contents = db.mem \cup db.imm[1] \cup TableWrites(db.ver)
        BY <1>5, <1>13, <2>3, ContentsIs
      <3>2. ToSet(db'.imm) = {}
        BY <1>4, <1>14, <2>3 DEF ToSet
      <3>3. TableWrites(v) = TableWrites(db.ver) \cup db.imm[1]
        BY <1>4, <1>13, <2>3
      <3>. QED
        BY <1>14, <2>1, <2>2, <3>1, <3>2, <3>3
    <2>4. CASE edit.del # {}
      <3>1. Contents = (db.mem \cup UNION ToSet(db.imm)) \cup TableWrites(db.ver)
        BY Zenon DEF Contents, TableWrites
      <3>2. db'.imm = db.imm /\ TableWrites(v) = TableWrites(db.ver)
        BY <1>4, <1>13, <1>14, <2>4
      <3>. QED
        BY <1>14, <2>1, <2>2, <3>1, <3>2
    <2>. QED
      BY <2>3, <2>4
  <1>24. Complete'
    <2>1. PICK low, old : low = edit.log /\ old = db.minLog
      OBVIOUS
    <2>2. ReadLogs(FromLog(low))' \subseteq ReadLogs(FromLog(old))
      <3>1. \A n \in DOMAIN logs : n \in Nat /\ (n >= low => n >= old)
        BY <1>0, <1>5, <1>13, <2>1 DEF Typed, LogsTyped
      <3>2. ReadLogs(FromLog(low))' = ReadLogs(FromLog(low))
        BY <1>1 DEF ReadLogs, FromLog, Whole
      <3>. QED
        BY <3>1, <3>2 DEF ReadLogs, FromLog
    <2>3. (db.minLog = low)'
      BY <1>14, <2>1
    <2>4. Kept(db.log)' = Kept(db.log)
      BY <1>1, <1>14 DEF Kept
    <2>5. Durable' = Durable
      BY <1>1 DEF Durable
    <2>6. (UpTo(Contents \cup ReadLogs(FromLog(low)), db.last) /\ Distinct(Contents \cup ReadLogs(FromLog(low))))'
      BY <1>2, <1>14, <1>23, <2>1, <2>2 DEF Complete, UpTo, Distinct
    <2>. QED
      BY <1>2, <1>14, <1>23, <2>3, <2>4, <2>5, <2>6 DEF Complete
  <1>25. Editing'
    <2>1. Agreed'
      <3>1. /\ Unbroken(g.recs, Len(g.recs)) /\ g.synced >= 1 /\ VersionAt(g.recs, g.synced) = v
            /\ g.recs[g.synced].log = edit.log /\ g.recs[g.synced].next # 0 /\ Len(g.recs) = g.synced
        BY <1>1, <1>6, <1>7, <1>11
      <3>. QED
        BY <1>1, <1>10, <1>14, <3>1, NoDbIs DEF Agreed
    <2>. QED
      BY <1>1, <1>3, <1>14, <2>1, NoDbIs DEF Editing
  <1>26. Running'
    BY <1>21, <1>22, <1>24, <1>25 DEF Running
  <1>. QED
    BY <1>1, <1>6, <1>15, <1>20, <1>26
    DEF IInv, Nothing, Stopped, OpensWell, Recovering, Replaying, Renewing, Renewed

-----------------------------------------------------------------------------
(* Crashes and closings keep the invariant.                                *)

(* What a crash leaves of the MANIFEST files.                              *)
LEMMA CrashedManifests ==
  ASSUME ManifestsTyped, Crash
  PROVE  /\ ManifestsTyped' /\ DOMAIN manifests' = DOMAIN manifests
         /\ \A n \in DOMAIN manifests : \E busy :
              /\ busy <=> LoggingEdit(n)
              /\ LeftOf(manifests[n], manifests'[n], Edit \cup {Torn}, busy)
  <1>1. /\ DOMAIN manifests' = DOMAIN manifests
        /\ \A n \in DOMAIN manifests : manifests'[n] \in Remains(manifests[n], LoggingEdit(n))
    BY DEF Crash
  <1>2. ASSUME NEW n \in DOMAIN manifests
        PROVE  /\ manifests'[n] \in ManifestFile /\ manifests'[n].synced <= Len(manifests'[n].recs)
               /\ \E busy : /\ busy <=> LoggingEdit(n)
                            /\ LeftOf(manifests[n], manifests'[n], Edit \cup {Torn}, busy)
    <2>1. PICK f, g, S : f = manifests[n] /\ g = manifests'[n] /\ S = Edit \cup {Torn}
      OBVIOUS
    <2>2. f.recs \in Seq(S) /\ f.synced \in Nat /\ f.synced <= Len(f.recs) /\ S \cup {Torn} = S
      BY <2>1 DEF ManifestsTyped, ManifestFile
    <2>3. PICK busy : busy = LoggingEdit(n)
      OBVIOUS
    <2>4. g \in Remains(f, busy)
      BY <1>1, <2>1, <2>3
    <2>5. LeftOf(f, g, S, busy)
      BY <2>2, <2>4, AfterCrash
    <2>6. g = File(g.recs, g.synced) /\ g.recs \in Seq(S) /\ g.synced \in Nat /\ g.synced <= Len(g.recs)
      BY <2>2, <2>5 DEF LeftOf
    <2>7. g \in ManifestFile
      BY <2>1, <2>6 DEF ManifestFile, File
    <2>. QED
      BY <2>1, <2>3, <2>5, <2>6, <2>7
  <1>. QED
    BY <1>1, <1>2 DEF ManifestsTyped

(* A restart after a crash reads the MANIFEST that CURRENT names as it     *)
(* could have been read before.                                            *)
LEMMA CrashDescribed ==
  ASSUME RecoveryAssumption, IInv, Crash, current # 0
  PROVE  Described'
  <1>0. Typed /\ Described /\ Recovering /\ Running
    BY DEF IInv
  <1>1. pc' = "down" /\ UNCHANGED <<current, tables, ids, synced, acked>>
    BY DEF Crash
  <1>2. LogsTyped' /\ DOMAIN logs' = DOMAIN logs /\ \A low : LogsKept(low)
    BY <1>0, CrashedLogs DEF Typed
  <1>3. PICK f, g : f = Descriptor /\ g = Descriptor'
    OBVIOUS
  <1>4. current \in DOMAIN manifests /\ f = manifests[current] /\ g = manifests'[current]
        /\ current' \in DOMAIN manifests' /\ ManifestsTyped'
    BY <1>0, <1>1, <1>3, CrashedManifests DEF Described, Descriptor, Typed
  <1>5. PICK busy : (busy <=> LoggingEdit(current)) /\ LeftOf(f, g, Edit \cup {Torn}, busy)
    BY <1>0, <1>4, CrashedManifests DEF Typed
  <1>6. f.recs \in Seq(Edit \cup {Torn}) /\ Len(f.recs) \in Nat
    BY <1>0, <1>4, LenProperties DEF Typed, ManifestsTyped, ManifestFile
  <1>7. g.recs \in Seq(Edit \cup {Torn}) /\ Len(g.recs) \in Nat
    BY <1>1, <1>4, LenProperties DEF ManifestsTyped, ManifestFile
  <1>8. busy => Unbroken(f.recs, Len(f.recs))
    <2>1. SUFFICES ASSUME LoggingEdit(current)
                   PROVE  Unbroken(f.recs, Len(f.recs))
      BY <1>5
    <2>2. current = db.manifest /\ ~db.error
      BY <2>1 DEF LoggingEdit
    <2>3. pc # "manifest"
      <3>1. pc = "manifest" => current < db.manifest
        BY <1>0 DEF Recovering
      <3>2. current \in Nat
        BY <1>0 DEF Typed, StateTyped
      <3>. QED
        BY <2>2, <3>1, <3>2
    <2>4. pc = "open"
      BY <2>1, <2>3 DEF LoggingEdit
    <2>. QED
      BY <1>0, <1>3, <2>2, <2>4 DEF Running, Editing, Agreed
  <1>9. \A i \in 1..Len(g.recs) : g.recs[i] = Torn => i = Len(g.recs)
    <2>1. ASSUME NEW i \in 1..Len(g.recs), g.recs[i] = Torn, i # Len(g.recs)
          PROVE  FALSE
      <3>1. i \in 1..Len(f.recs) /\ g.recs[i] = f.recs[i]
        BY <1>5, <2>1 DEF LeftOf
      <3>2. ~busy
        BY <1>8, <2>1, <3>1 DEF Unbroken
      <3>3. Len(g.recs) <= Len(f.recs)
        BY <1>5, <3>2 DEF LeftOf
      <3>4. i = Len(f.recs)
        BY <1>0, <1>3, <2>1, <3>1 DEF Described
      <3>. QED
        BY <1>6, <1>7, <2>1, <3>1, <3>3, <3>4
    <2>. QED
      BY <2>1
  <1>10. ASSUME NEW j \in Reads(g)
         PROVE  /\ j \in Reads(f)
                /\ Opens(g.recs, j) <=> Opens(f.recs, j)
                /\ Opens(g.recs, j) => g.recs[j] = f.recs[j]
                /\ VersionAt(g.recs, j) = VersionAt(f.recs, j)
    <2>1. j \in Reads(f) /\ \A i \in 1..j : g.recs[i] = f.recs[i]
      BY <1>5 DEF LeftOf
    <2>2. j \in 0..Len(f.recs) /\ j \in 0..Len(g.recs)
      BY <2>1 DEF Reads
    <2>3. j > 0 => g.recs[j] = f.recs[j]
      BY <1>6, <2>1, <2>2
    <2>4. VersionAt(g.recs, j) = VersionAt(f.recs, j)
      BY <1>6, <1>7, <2>1, <2>2, VersionPrefix
    <2>. QED
      BY <2>1, <2>3, <2>4 DEF Opens
  <1>11. ASSUME NEW j \in Reads(g), Opens(g.recs, j)
         PROVE  Starts(VersionAt(Descriptor.recs, j), Descriptor.recs[j])'
    <2>1. PICK v, e : v = VersionAt(g.recs, j) /\ e = g.recs[j]
      OBVIOUS
    <2>2. Starts(v, e)
      BY <1>0, <1>3, <1>10, <1>11, <2>1 DEF Described
    <2>3. v \subseteq DOMAIN tables' /\ \A n \in v : tables'[n] = tables[n]
      BY <1>1, <2>2 DEF Starts
    <2>4. Starts(v, e)'
      BY <1>1, <1>2, <2>2, <2>3, StartsStays
    <2>5. (VersionAt(Descriptor.recs, j) = v /\ Descriptor.recs[j] = e)'
      BY <1>3, <2>1
    <2>. QED
      BY <2>4, <2>5
  <1>12. \A j \in Reads(g) : ~Power => Opens(g.recs, j)
    BY <1>0, <1>3, <1>10 DEF Described
  <1>13. \A i, j \in Reads(g) : i <= j /\ Opens(g.recs, i) /\ Opens(g.recs, j)
                                  => g.recs[i].next <= g.recs[j].next
    <2>1. SUFFICES ASSUME NEW i \in Reads(g), NEW j \in Reads(g), i <= j, Opens(g.recs, i), Opens(g.recs, j)
                   PROVE  g.recs[i].next <= g.recs[j].next
      OBVIOUS
    <2>2. /\ i \in Reads(f) /\ Opens(f.recs, i) /\ g.recs[i] = f.recs[i]
          /\ j \in Reads(f) /\ Opens(f.recs, j) /\ g.recs[j] = f.recs[j]
      BY <1>10, <2>1
    <2>3. f.recs[i].next <= f.recs[j].next
      BY <1>0, <1>3, <2>1, <2>2 DEF Described
    <2>. QED
      BY <2>2, <2>3
  <1>. QED
    BY <1>1, <1>3, <1>4, <1>9, <1>11, <1>12, <1>13 DEF Described

(* Crash: what is left can be read as it could have been read before.      *)
LEMMA CrashKeeps ==
  ASSUME RecoveryAssumption, IInv, Crash
  PROVE  IInv'
  <1>0. Typed /\ Nothing
    BY DEF IInv
  <1>1. /\ pc' = "down" /\ db' = NoDb /\ edit' = NoEdit
        /\ UNCHANGED <<current, tables, ids, synced, acked>>
    BY DEF Crash
  <1>2. LogsTyped' /\ DOMAIN logs' = DOMAIN logs
    BY <1>0, CrashedLogs DEF Typed
  <1>3. ManifestsTyped'
    BY <1>0, CrashedManifests DEF Typed
  <1>4. Typed'
    <2>1. Len(db'.imm) <= 1
      BY <1>1, NoDbIs
    <2>. QED
      BY <1>0, <1>1, <1>2, <1>3, <2>1, NoDbIs DEF Typed, TablesTyped, StateTyped, PCs
  <1>5. Nothing'
    <2>1. SUFFICES ASSUME current = 0
                   PROVE  logs' = Empty
      BY <1>0, <1>1 DEF Nothing
    <2>2. logs = Empty
      BY <1>0, <2>1 DEF Nothing
    <2>3. DOMAIN logs = {}
      BY <2>2 DEF Empty
    <2>4. PICK T : logs' \in [DOMAIN logs -> T]
      BY DEF Crash
    <2>. QED
      BY <2>3, <2>4 DEF Empty
  <1>6. Described'
    <2>1. CASE current = 0
      BY <1>1, <2>1 DEF Described
    <2>2. CASE current # 0
      BY <2>2, CrashDescribed
    <2>. QED
      BY <2>1, <2>2
  <1>. QED
    BY <1>1, <1>4, <1>5, <1>6
    DEF IInv, Stopped, OpensWell, Recovering, Replaying, Renewing, Renewed, Running

(* Close: nothing is written.                                              *)
LEMMA CloseKeeps ==
  ASSUME RecoveryAssumption, IInv, Close
  PROVE  IInv'
  <1>0. Typed /\ Described /\ Running
    BY DEF IInv
  <1>1. /\ pc = "open" /\ pc' = "down" /\ db' = NoDb /\ edit' = NoEdit
        /\ UNCHANGED <<current, manifests, logs, tables, ids, synced, acked>>
    BY DEF Close, disk
  <1>2. current # 0 /\ current \in DOMAIN manifests
    BY <1>0, <1>1 DEF Running, Placed, Described
  <1>3. Typed'
    <2>1. Len(db'.imm) <= 1
      BY <1>1, NoDbIs
    <2>. QED
      BY <1>0, <1>1, <2>1, NoDbIs DEF Typed, LogsTyped, ManifestsTyped, TablesTyped, StateTyped, PCs
  <1>4. Described'
    <2>1. \A low : LogsKept(low)
      BY <1>1, LogsUnchanged
    <2>. QED
      BY <1>0, <1>1, <1>2, <2>1, DescribedStays, SameTables
  <1>. QED
    BY <1>1, <1>2, <1>3, <1>4
    DEF IInv, Nothing, Stopped, OpensWell, Recovering, Replaying, Renewing, Renewed, Running

-----------------------------------------------------------------------------
(* The theorems.                                                           *)

(* The invariant holds before anything is on disk.                         *)
LEMMA InitHolds ==
  ASSUME RecoveryAssumption, Init
  PROVE  IInv
  <1>1. /\ current = 0 /\ manifests = Empty /\ logs = Empty /\ tables = Empty /\ pc = "down"
        /\ db = NoDb /\ edit = NoEdit /\ ids = 0 /\ synced = {} /\ acked = {}
    BY DEF Init
  <1>2. DOMAIN Empty = {}
    BY DEF Empty
  <1>3. Typed
    <2>1. Len(db.imm) <= 1
      BY <1>1, NoDbIs
    <2>. QED
      BY <1>1, <1>2, <2>1, NoDbIs
      DEF Typed, LogsTyped, ManifestsTyped, TablesTyped, StateTyped, PCs
  <1>. QED
    BY <1>1, <1>3
    DEF IInv, Nothing, Described, Stopped, OpensWell, Recovering, Replaying, Renewing, Renewed, Running

(* Nothing changes, nothing is broken.                                     *)
LEMMA StutterKeeps ==
  ASSUME IInv, UNCHANGED vars
  PROVE  IInv'
  <1>1. UNCHANGED <<current, manifests, logs, tables, pc, db, edit, ids, crashes, synced, acked>>
    BY DEF vars, disk, history
  <1>2. Typed' /\ Nothing' /\ Stopped' /\ OpensWell'
    BY <1>1 DEF IInv, Typed, LogsTyped, ManifestsTyped, TablesTyped, StateTyped, Nothing, Stopped, OpensWell
  <1>3. Described'
    BY <1>1 DEF IInv, Described, Descriptor, Reads, Low, Starts, Durable, TableWrites, KeptLogs, Kept,
                ReadLogs, FromLog, Whole, UpTo, Distinct
  <1>4. Recovering' /\ Replaying' /\ Renewing' /\ Renewed'
    BY <1>1 DEF IInv, Recovering, Replaying, Renewing, Renewed, Behind, Descriptor, Reads, Low, Opened,
                Durable, TableWrites, ReadLogs, Whole, UpTo, Distinct, NewLog, Snapshot, Completed
  <1>5. Running'
    <2>1. (Placed <=> Placed') /\ (Editing <=> Editing')
      BY <1>1 DEF Placed, NewLog, Editing, Agreed, Pending, Descriptor, TableWrites
    <2>2. (Behind <=> Behind') /\ (Ahead <=> Ahead')
      BY <1>1 DEF Behind, Ahead, Descriptor, Reads, Low, UpTo, ReadLogs, FromLog, Whole
    <2>3. Complete <=> Complete'
      BY <1>1 DEF Complete, Durable, Contents, Kept, Low, UpTo, Distinct, ReadLogs, FromLog, Whole
    <2>. QED
      BY <1>1, <2>1, <2>2, <2>3 DEF IInv, Running
  <1>. QED
    BY <1>2, <1>3, <1>4, <1>5 DEF IInv

(* Every step keeps the invariant.                                         *)
LEMMA NextKeeps ==
  ASSUME RecoveryAssumption, ~Reuse, IInv, [Next]_vars
  PROVE  IInv'
  <1>1. CASE Opening
    BY <1>1, NewManifestKeeps, SetFirstCurrentKeeps, RecoverKeeps, RecoverLogFileKeeps, OpenLogKeeps,
       WriteManifestKeeps, SyncManifestKeeps, SetCurrentFileKeeps, DeleteObsoleteFilesKeeps DEF Opening
  <1>2. CASE Rotate
    BY <1>2, RotateKeeps
  <1>3. CASE BuildTable
    BY <1>3, BuildTableKeeps
  <1>4. CASE LogEdit
    BY <1>4, LogEditKeeps
  <1>5. CASE ApplyEdit
    BY <1>5, ApplyEditKeeps
  <1>6. CASE Crash
    BY <1>6, CrashKeeps
  <1>7. CASE Close
    BY <1>7, CloseKeeps
  <1>8. ASSUME NEW sync \in BOOLEAN, Write(sync)
        PROVE  IInv'
    BY <1>8, WriteKeeps
  <1>9. CASE UNCHANGED vars
    BY <1>9, StutterKeeps
  <1>. QED
    BY <1>1, <1>2, <1>3, <1>4, <1>5, <1>6, <1>7, <1>8, <1>9 DEF Next

(* The invariant holds in every state that is reached.                     *)
LEMMA Invariant ==
  ASSUME RecoveryAssumption, ~Reuse
  PROVE  Spec => []IInv
  <1>1. Init => IInv
    BY InitHolds
  <1>2. IInv /\ [Next]_vars => IInv'
    BY NextKeeps
  <1>. QED
    BY <1>1, <1>2, PTL DEF Spec

(* What the invariant promises of the states it holds in.                  *)
LEMMA Promises ==
  ASSUME IInv
  PROVE  /\ TypeOK /\ SyncedSurvive /\ SequenceFresh /\ TablesExist /\ ManifestAgrees
         /\ ~Power => AckedSurvive /\ Openable
  <1>1. TypeOK
    BY DEF IInv, Typed, LogsTyped, ManifestsTyped, StateTyped, Db, Described, TypeOK
  <1>2. SyncedSurvive
    <2>1. synced \subseteq Durable
      BY DEF IInv, Typed, StateTyped, Durable
    <2>. QED
      BY <2>1 DEF IInv, Running, Complete, SyncedSurvive
  <1>3. SequenceFresh
    BY DEF IInv, Running, Complete, UpTo, Distinct, SequenceFresh
  <1>4. TablesExist
    BY DEF IInv, Running, Placed, TablesExist
  <1>5. ManifestAgrees
    BY DEF IInv, Running, Editing, Agreed, Descriptor, VersionAt, ManifestAgrees
  <1>6. ~Power => AckedSurvive
    BY DEF IInv, Running, Complete, AckedSurvive, Durable
  <1>7. ~Power => Openable
    BY DEF IInv, OpensWell, Openable
  <1>. QED
    BY <1>1, <1>2, <1>3, <1>4, <1>5, <1>6, <1>7

(* The files and the database have the sizes they should: CURRENT names a  *)
(* MANIFEST that exists, nothing is synced that was not written, at most   *)
(* one memtable is frozen (VersionSet::Recover, DBImpl::imm_).             *)
THEOREM Typing ==
  ASSUME RecoveryAssumption, ~Reuse
  PROVE  Spec => []TypeOK
  BY Invariant, Promises, PTL

(* A synced write that returned ok is in every database that opens, after  *)
(* whatever the process or the machine went through (WriteOptions::sync,   *)
(* DBImpl::Recover).                                                       *)
THEOREM SyncedNeverLost ==
  ASSUME RecoveryAssumption, ~Reuse
  PROVE  Spec => []SyncedSurvive
  BY Invariant, Promises, PTL

(* When only processes die, every write that returned ok is in every       *)
(* database that opens, synced or not.                                     *)
THEOREM AckedNeverLost ==
  ASSUME RecoveryAssumption, ~Reuse, ~Power
  PROVE  Spec => []AckedSurvive
  BY Invariant, Promises, PTL

(* No two writes in the database have one sequence number, and the next    *)
(* one to be given is new (VersionSet::SetLastSequence, RecoverLogFile).   *)
THEOREM SequencesFresh ==
  ASSUME RecoveryAssumption, ~Reuse
  PROVE  Spec => []SequenceFresh
  BY Invariant, Promises, PTL

(* No table of the current version is ever deleted                         *)
(* (DBImpl::DeleteObsoleteFiles).                                          *)
THEOREM TablesKept ==
  ASSUME RecoveryAssumption, ~Reuse
  PROVE  Spec => []TablesExist
  BY Invariant, Promises, PTL

(* A process that dies at any point leaves a database that opens.          *)
THEOREM AlwaysOpenable ==
  ASSUME RecoveryAssumption, ~Reuse, ~Power
  PROVE  Spec => []Openable
  BY Invariant, Promises, PTL

(* The synced part of the MANIFEST builds the version in memory whenever   *)
(* no edit is under way (VersionSet::LogAndApply).                         *)
THEOREM ManifestCurrent ==
  ASSUME RecoveryAssumption, ~Reuse
  PROVE  Spec => []ManifestAgrees
  BY Invariant, Promises, PTL

=============================================================================
