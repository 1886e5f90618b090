-------------------------------- MODULE Lsm --------------------------------
(* leveldb's tables (db/version_set.cc, db/db_impl.cc): memtables, files in *)
(* levels, versions that readers pin, flushes and compactions of the one    *)
(* background thread, and the removal of obsolete files.  The mutex and the *)
(* writers' queue are in WriteQueue; what a crash leaves is in Recovery.    *)
EXTENDS Integers, Sequences, FiniteSets, SequencesExt, FiniteSetsExt

CONSTANTS
  Keys,         \* user keys, a set of naturals
  MaxWrites,    \* bound: writes in a behaviour
  MaxPins,      \* bound: readers at a time
  MaxSnaps,     \* bound: snapshots at a time
  MaxFiles,     \* bound: file numbers used
  NumLevels, MaxMemLevel,   \* config::kNumLevels, kMaxMemCompactLevel
  Trigger,      \* config::kL0_CompactionTrigger
  LevelMax,     \* MaxBytesForLevel of level 1, in entries
  FileSize,     \* max_file_size, in entries
  GrandLimit, ExpandLimit,  \* MaxGrandParentOverlapBytes and
                            \* ExpandedCompactionByteSizeLimit, in entries
  Deletes,      \* what clients write: values, {FALSE}, deletions, {TRUE}, or both
  Seeks,        \* whether a file may use up its allowed_seeks
  Begins, Ends, \* where manual compactions begin and end; 0 and a number
                \* after all keys stand for NULL; none if Begins is empty
  Errors        \* whether writing tables or the manifest may fail

LsmAssumption ==
  /\ Keys \subseteq Nat \ {0} /\ Keys # {}
  /\ {MaxWrites, MaxPins, MaxSnaps, MaxFiles, GrandLimit, ExpandLimit} \subseteq Nat
  /\ {Trigger, LevelMax, FileSize} \subseteq Nat \ {0}
  /\ MaxMemLevel \in Nat /\ NumLevels \in Nat /\ MaxMemLevel + 1 < NumLevels
  /\ Begins \cup Ends \subseteq Nat /\ {Seeks, Errors} \cup Deletes \subseteq BOOLEAN

VARIABLES
  seq,       \* LastSequence()
  mem, imm,  \* entries of mem_; <<>>, or the entries of imm_ in a singleton
  files,     \* the current version: files with level, number and entries
  disk,      \* numbers of the table files that exist
  next,      \* next_file_number_
  snaps,     \* snapshots_
  pins,      \* readers: sequence number, memtables, version
  ptr,       \* compact_pointer_, per level; 0 is the empty string
  seek,      \* file_to_compact_ of the current version, in a set
  manual,    \* manual_compaction_, in a set: level, begin, end
  comp,      \* the compaction under way, in a set
  bgError    \* bg_error_ is not ok

bgVars == <<imm, files, disk, next, ptr, seek, manual, comp, bgError>>
vars == <<seq, mem, snaps, pins, bgVars>>

Levels == 0..(NumLevels - 1)

-----------------------------------------------------------------------------
(* A LookupKey, and the internal key of an entry, as numbers: they order by *)
(* user key, then from new to old (InternalKeyComparator).                  *)
Pos(k, s) == k * (MaxWrites + 1) + (MaxWrites - s)
Ikey(e) == Pos(e.key, e.seq)
UserKey(p) == p \div (MaxWrites + 1)

(* FileMetaData, and the user keys a file reaches from and to.              *)
Table(level, num, ents) ==
  [level |-> level, num |-> num, ents |-> ents,
   smallest |-> Min({Ikey(e) : e \in ents}), largest |-> Max({Ikey(e) : e \in ents})]
From(f) == UserKey(f.smallest)
To(f) == UserKey(f.largest)
TotalFileSize(F) == MapThenSumSet(LAMBDA f : Cardinality(f.ents), F)
At(F, l) == {f \in F : f.level = l}
Nums(F) == {f.num : f \in F}

(* Builder::BySmallestKey: the order of the files of a level.               *)
BySmallestKey(f, g) ==
  \/ f.smallest < g.smallest
  \/ f.smallest = g.smallest /\ f.num < g.num

(* The first file, in that order, whose largest key is at or after p; in a  *)
(* set, which is empty if there is none.                                    *)
FindFile(F, p) ==
  LET after == {f \in F : f.largest >= p}
  IN  {f \in after : \A g \in after : f.smallest <= g.smallest}

-----------------------------------------------------------------------------
(* Reads.                                                                  *)

(* The files that may hold k at s, and the order they are looked at: level  *)
(* 0 from new to old, then at most one of each level.                       *)
Candidates(F, k, s) ==
  LET old == UNION {FindFile(At(F, l), Pos(k, s)) : l \in Levels \ {0}}
  IN  {f \in At(F, 0) : From(f) <= k /\ k <= To(f)} \cup {f \in old : From(f) <= k}
Sooner(f, g) == f.level < g.level \/ (f.level = g.level /\ f.num > g.num)

Visible(ents, k, s) == {e \in ents : e.key = k /\ e.seq <= s}

(* The first place with an entry of k decides, by its newest visible one:   *)
(* the write, 0 for a deletion, Missing if there is no place.               *)
Missing == -1
Find(places, k, s) ==
  LET hits == SelectSeq(places, LAMBDA ents : Visible(ents, k, s) # {})
      newest == Max({e.seq : e \in Visible(hits[1], k, s)})
  IN  CASE hits = <<>> -> Missing
        [] [key |-> k, seq |-> newest, del |-> TRUE] \in hits[1] -> 0
        [] OTHER -> newest

VersionGet(F, k, s) ==
  LET tables == SetToSortSeq(Candidates(F, k, s), Sooner)
  IN  Find([n \in DOMAIN tables |-> tables[n].ents], k, s)

(* DBImpl::Get: memtables first; NotFound is 0.                             *)
Get(m, i, F, k, s) ==
  LET r == Find(<<m>> \o i, k, s)
      v == VersionGet(F, k, s)
  IN  IF r # Missing THEN r ELSE IF v # Missing THEN v ELSE 0

View(m, i, F, s) == [k \in Keys |-> Get(m, i, F, k, s)]

-----------------------------------------------------------------------------
(* Choosing what to compact.                                               *)

Overlapping(F, l, lo, hi) == {f \in At(F, l) : To(f) >= lo /\ From(f) <= hi}

(* The files of a level that overlap a range; in level 0, where files       *)
(* overlap each other, also those that overlap these.                       *)
GetOverlappingInputs(F, l, lo, hi) ==
  LET direct == Overlapping(F, l, lo, hi)
      Closed(G) == direct \subseteq G /\ \A f \in G : Overlapping(F, 0, From(f), To(f)) \subseteq G
  IN  IF l > 0 THEN direct ELSE {f \in At(F, 0) : \A G \in SUBSET At(F, 0) : Closed(G) => f \in G}

InRange(F, l, G) ==
  GetOverlappingInputs(F, l, Min({From(f) : f \in G}), Max({To(f) : f \in G}))

(* Mutant: level 0 is not looked at.                                        *)
PickLevelForMemTableOutput_NotZero(F, lo, hi) ==
  Max({l \in 0..MaxMemLevel : \A m \in 1..l : Overlapping(F, m, lo, hi) = {}})

(* A new table goes below level 0 while nothing there overlaps it.          *)
PickLevelForMemTableOutput(F, lo, hi) ==
  LET free(l) == /\ Overlapping(F, l, lo, hi) = {}
                 /\ l + 1 \in Levels =>
                      TotalFileSize(Overlapping(F, l + 1, lo, hi)) <= GrandLimit
  IN  IF Overlapping(F, 0, lo, hi) # {} THEN 0
      ELSE Max({l \in 0..MaxMemLevel : \A m \in 1..l : free(m)})

(* The files of level + 1 that overlap the inputs, then more files of level *)
(* if that takes no more of level + 1; and the overlapping grandparents.    *)
SetupOtherInputs(F, l, in) ==
  LET par == InRange(F, l + 1, in)
      in2 == InRange(F, l, in \cup par)
      grow == /\ par # {} /\ Cardinality(in2) > Cardinality(in)
              /\ TotalFileSize(par) + TotalFileSize(in2) < ExpandLimit
              /\ Cardinality(InRange(F, l + 1, in2)) = Cardinality(par)
      all == IF grow THEN in2 ELSE in
  IN  [level |-> l, in0 |-> all, in1 |-> par,
       grand |-> IF l + 2 \in Levels THEN InRange(F, l + 2, all \cup par) ELSE {}]

(* Finalize: a level's score is a fraction; the first best one counts.      *)
Score(F, l) ==
  IF l = 0 THEN <<Cardinality(At(F, 0)), Trigger>>
  ELSE <<TotalFileSize(At(F, l)), LevelMax * 10 ^ (l - 1)>>
BestLevel(F) ==
  LET less(a, b) == a[1] * b[2] < b[1] * a[2]
      cands == 0..(NumLevels - 2)
  IN  Min({l \in cands : \A m \in cands : ~less(Score(F, l), Score(F, m))})
SizeCompaction(F) == LET s == Score(F, BestLevel(F)) IN s[1] >= s[2]

(* PickCompaction: by size round-robin over the level's keys, else by seeks.*)
PickCompaction(F) ==
  LET l == IF SizeCompaction(F) THEN BestLevel(F) ELSE (CHOOSE f \in seek : TRUE).level
      after == {f \in At(F, l) : ptr[l] = 0 \/ f.largest > ptr[l]}
      from == IF after = {} THEN At(F, l) ELSE after
      in == IF SizeCompaction(F) THEN {f \in from : \A g \in from \ {f} : BySmallestKey(f, g)} ELSE seek
  IN  SetupOtherInputs(F, l, IF l = 0 THEN InRange(F, 0, in) ELSE in)

(* CompactRange: below level 0 only a prefix of the files, one file's worth.*)
CompactRange(F, m) ==
  LET all == GetOverlappingInputs(F, m.level, m.begin, m.end)
      full(f) == TotalFileSize({g \in all : BySmallestKey(g, f)}) >= FileSize
  IN  SetupOtherInputs(F, m.level, {f \in all : m.level > 0 => ~full(f)})

IsTrivialMove(c) ==
  Cardinality(c.in0) = 1 /\ c.in1 = {} /\ TotalFileSize(c.grand) <= GrandLimit

-----------------------------------------------------------------------------
(* DoCompactionWork.                                                       *)

IsBaseLevelForKey(F, c, k) ==
  \A l \in (c.level + 2)..(NumLevels - 1) : Overlapping(F, l, k, k) = {}

(* Mutant: a deletion is dropped although a deeper level has the key.       *)
Dropped_NotBase(F, c, smallest, last, e) ==
  last <= smallest \/ (e.del /\ e.seq <= smallest)

(* An entry is dropped when a newer one hides it from every snapshot, or    *)
(* when it is a deletion of nothing.                                        *)
Dropped(F, c, smallest, last, e) ==
  \/ last <= smallest
  \/ (e.del /\ e.seq <= smallest /\ IsBaseLevelForKey(F, c, e.key))

(* ShouldStopBefore: the grandparents that end before an entry.             *)
Passed(c, e) == {g \in c.grand : g.largest < Ikey(e)}

MakeInputIterator(c) ==
  SetToSortSeq(UNION {f.ents : f \in c.in0 \cup c.in1}, LAMBDA d, e : Ikey(d) < Ikey(e))

(* The entries of the inputs in order, cut into tables: before a key that   *)
(* has passed too much of the grandparents (ShouldStopBefore), and when a   *)
(* table is full.                                                          *)
Outputs(F, c, smallest) ==
  LET step(st, e) ==
        LET over == st.over + IF st.seen THEN TotalFileSize(Passed(c, e) \ st.passed) ELSE 0
            stop == over > GrandLimit
            last == IF e.key = st.key THEN st.last ELSE MaxWrites + 1
            closed == IF stop /\ st.cur # {} THEN Append(st.done, st.cur) ELSE st.done
            kept == IF Dropped(F, c, smallest, last, e) THEN {} ELSE {e}
            cur == kept \cup IF stop THEN {} ELSE st.cur
            full == kept # {} /\ Cardinality(cur) >= FileSize
        IN  [done |-> IF full THEN Append(closed, cur) ELSE closed,
             cur |-> IF full THEN {} ELSE cur, over |-> IF stop THEN 0 ELSE over,
             passed |-> Passed(c, e), seen |-> TRUE, key |-> e.key, last |-> e.seq]
      end == FoldLeft(step, [done |-> <<>>, cur |-> {}, over |-> 0, passed |-> {},
                             seen |-> FALSE, key |-> 0, last |-> 0], MakeInputIterator(c))
  IN  IF end.cur = {} THEN end.done ELSE Append(end.done, end.cur)

-----------------------------------------------------------------------------
Init ==
  /\ seq = 0 /\ mem = {} /\ imm = <<>> /\ files = {} /\ disk = {} /\ next = 1
  /\ snaps = {} /\ pins = {} /\ ptr = [l \in Levels |-> 0] /\ seek = {}
  /\ manual = {} /\ comp = {} /\ bgError = FALSE

(* DBImpl::Write, as far as the memtable.                                   *)
Write(k, d) ==
  /\ seq < MaxWrites
  /\ seq' = seq + 1 /\ mem' = mem \cup {[key |-> k, seq |-> seq + 1, del |-> d]}
  /\ UNCHANGED <<snaps, pins, bgVars>>

(* MakeRoomForWrite: a full, or by request a partial, memtable is frozen.   *)
Freeze ==
  /\ imm = <<>> /\ mem # {}
  /\ imm' = <<mem>> /\ mem' = {}
  /\ UNCHANGED <<seq, files, disk, next, snaps, pins, ptr, seek, manual, comp, bgError>>

(* Snapshots, and readers that pin memtables and a version (NewIterator and *)
(* the unlocked part of Get), at a snapshot or at the last write.           *)
GetSnapshot == /\ Cardinality(snaps) < MaxSnaps
               /\ snaps' = snaps \cup {seq}
               /\ UNCHANGED <<seq, mem, pins, bgVars>>
ReleaseSnapshot == \E s \in snaps : /\ snaps' = snaps \ {s}
                                    /\ UNCHANGED <<seq, mem, pins, bgVars>>
NewIterator ==
  /\ Cardinality(pins) < MaxPins
  /\ \E s \in snaps \cup {seq} :
       pins' = pins \cup {[at |-> s, mem |-> mem, imm |-> imm, files |-> files]}
  /\ UNCHANGED <<seq, mem, snaps, bgVars>>
CleanupIterator == \E p \in pins : /\ pins' = pins \ {p}
                                   /\ UNCHANGED <<seq, mem, snaps, bgVars>>

(* A Get, or a sample of an iterator's reads, that looked at two files uses *)
(* up the allowed_seeks of the first.                                       *)
UpdateStats ==
  /\ Seeks /\ seek = {}
  /\ \E k \in Keys, s \in snaps \cup {seq} :
       LET looked == Candidates(files, k, s)
       IN  /\ Cardinality(looked) > 1
           /\ seek' = {f \in looked : \A g \in looked \ {f} : Sooner(f, g)}
  /\ UNCHANGED <<seq, mem, imm, files, disk, next, snaps, pins, ptr, manual, comp, bgError>>

(* TEST_CompactRange: a client asks for a manual compaction; it asks again  *)
(* while another one's is there.                                            *)
RequestCompactRange ==
  /\ manual = {} /\ ~bgError
  /\ \E l \in 0..(NumLevels - 2), lo \in Begins, hi \in Ends :
       manual' = {[level |-> l, begin |-> lo, end |-> hi]}
  /\ UNCHANGED <<seq, mem, imm, files, disk, next, snaps, pins, ptr, seek, comp, bgError>>

-----------------------------------------------------------------------------
(* The background thread.                                                  *)

(* Mutant: only the current version's files are live.                       *)
Live_CurrentOnly(F, c) == Nums(F) \cup UNION {Nums(x.out) : x \in c}

(* DeleteObsoleteFiles when the current version is F and c is under way:    *)
(* files that no version and no pending output names are removed.           *)
Live(F, c) ==
  Nums(F) \cup (UNION {Nums(p.files) : p \in pins})
          \cup (UNION {Nums(x.base) \cup Nums(x.out) : x \in c})

(* LogAndApply with an edit: files deleted and added, a new version.        *)
Apply(del, add) == files' = (files \ del) \cup add /\ seek' = {}

DeleteObsoleteFiles(exist, F, c) == IF bgError THEN exist ELSE exist \cap Live(F, c)

(* CompactMemTable, from BackgroundCompaction or, even after an error, from *)
(* the middle of a compaction.                                              *)
CompactMemTable ==
  /\ imm # <<>> /\ (comp = {} => ~bgError) /\ next <= MaxFiles
  /\ LET ents == imm[1]
         lo == Min({e.key : e \in ents})
         hi == Max({e.key : e \in ents})
         f == Table(PickLevelForMemTableOutput(files, lo, hi), next, ents)
     IN  \/ /\ Apply({}, {f}) /\ imm' = <<>>
            /\ disk' = DeleteObsoleteFiles(disk \cup {next}, files', comp)
            /\ UNCHANGED bgError
         \/ /\ Errors /\ bgError' = TRUE
            /\ disk' \in {disk, disk \cup {next}}
            /\ UNCHANGED <<files, seek, imm>>
  /\ next' = next + 1
  /\ UNCHANGED <<seq, mem, snaps, pins, ptr, manual, comp>>

(* The compaction that the background thread would start: none, or one.     *)
Chosen ==
  IF manual # {}
  THEN LET m == CHOOSE m \in manual : TRUE
       IN  IF GetOverlappingInputs(files, m.level, m.begin, m.end) = {} THEN {}
           ELSE {CompactRange(files, m)}
  ELSE IF SizeCompaction(files) \/ seek # {} THEN {PickCompaction(files)} ELSE {}

SmallestSnapshot == IF snaps = {} THEN seq ELSE Min(snaps)

CanCompact == imm = <<>> /\ comp = {} /\ ~bgError
SetPointer(c) == ptr' = [ptr EXCEPT ![c.level] = Max({f.largest : f \in c.in0})]

(* A manual compaction that finds no files is done.                         *)
NothingToCompact ==
  /\ CanCompact /\ manual # {} /\ Chosen = {}
  /\ manual' = {}
  /\ UNCHANGED <<seq, mem, imm, files, disk, next, snaps, pins, ptr, seek, comp, bgError>>

(* A trivial move changes only the manifest.                                *)
TrivialMove ==
  /\ CanCompact /\ manual = {}
  /\ \E c \in Chosen :
       /\ IsTrivialMove(c) /\ SetPointer(c)
       /\ \/ /\ Apply(c.in0, {[f EXCEPT !.level = @ + 1] : f \in c.in0})
             /\ UNCHANGED bgError
          \/ Errors /\ bgError' = TRUE /\ UNCHANGED <<files, seek>>
  /\ UNCHANGED <<seq, mem, imm, disk, next, snaps, pins, manual, comp>>

CompactionState(c, made) ==
  [in |-> c.in0 \cup c.in1, base |-> files, out |-> made, end |-> Max({To(f) : f \in c.in0})]

(* DoCompactionWork up to its last output; the mutex is free from here on.  *)
StartCompaction ==
  /\ CanCompact
  /\ \E c \in Chosen :
       LET out == Outputs(files, c, SmallestSnapshot)
           made == {Table(c.level + 1, next + n - 1, out[n]) : n \in DOMAIN out}
       IN  /\ manual # {} \/ ~IsTrivialMove(c)
           /\ next + Len(out) <= MaxFiles + 1
           /\ SetPointer(c)
           /\ comp' = {CompactionState(c, made)}
           /\ disk' = disk \cup Nums(made) /\ next' = next + Len(out)
  /\ UNCHANGED <<seq, mem, imm, files, snaps, pins, seek, manual, bgError>>

(* A manual compaction goes on from its last input; after an error it ends. *)
EndManual(c, ok) ==
  manual' = IF ok THEN {[m EXCEPT !.begin = c.end] : m \in manual} ELSE {}

(* The inputs are deleted from the version, and the outputs added to it.    *)
InstallCompactionResults(c) == Apply(c.in, c.out)

(* BackgroundCompaction once the work is done or has failed: results are    *)
(* installed, the manual compaction goes on, and files without use go.      *)
FinishCompaction ==
  /\ \E c \in comp :
       \/ /\ InstallCompactionResults(c)
          /\ disk' = DeleteObsoleteFiles(disk, files', {})
          /\ EndManual(c, TRUE) /\ UNCHANGED bgError
       \/ /\ Errors /\ bgError' = TRUE
          /\ EndManual(c, FALSE) /\ UNCHANGED <<files, disk, seek>>
  /\ comp' = {}
  /\ UNCHANGED <<seq, mem, imm, next, snaps, pins, ptr>>

Background ==
  CompactMemTable \/ NothingToCompact \/ TrivialMove \/ StartCompaction \/ FinishCompaction

Next ==
  \/ \E k \in Keys, d \in Deletes : Write(k, d)
  \/ Freeze \/ GetSnapshot \/ ReleaseSnapshot \/ NewIterator \/ CleanupIterator
  \/ UpdateStats \/ RequestCompactRange \/ Background

Spec == Init /\ [][Next]_vars

(* Weak fairness of the background thread, WF_vars(Background), with its    *)
(* ENABLED written out: env_->Schedule runs what was scheduled.             *)
HasWork == \/ imm # <<>> /\ (comp = {} => ~bgError)
           \/ comp # {}
           \/ CanCompact /\ (manual # {} \/ Chosen # {})
FairSpec == Spec /\ ([]<>~HasWork \/ []<><<Background>>_vars)

-----------------------------------------------------------------------------
Entry == [key : Keys, seq : 1..MaxWrites, del : BOOLEAN]
(* TypeOK: numbers stay in their ranges, tables are never empty.            *)
TypeOK ==
  /\ seq \in 0..MaxWrites /\ mem \subseteq Entry /\ Len(imm) <= 1
  /\ \A f \in files : /\ f.level \in Levels /\ f.num \in 1..MaxFiles
                      /\ f.ents # {} /\ f.ents \subseteq Entry
  /\ disk \subseteq 1..MaxFiles /\ next \in 1..(MaxFiles + 1)
  /\ snaps \subseteq 0..MaxWrites /\ DOMAIN ptr = Levels
  /\ Cardinality(seek) <= 1 /\ Cardinality(manual) <= 1 /\ Cardinality(comp) <= 1
  /\ bgError \in BOOLEAN

(* Entries never hop across levels (the comment in Version::Get): of one    *)
(* user key, a level has newer entries than all levels below it, so that a  *)
(* search may stop at the first it finds.                                   *)
NewerAbove ==
  \A f, g \in files : f.level < g.level =>
    \A d \in f.ents, e \in g.ents : d.key = e.key => d.seq > e.seq

(* A table that the current version, a reader's version or a compaction     *)
(* needs has not been deleted, whoever removed obsolete files meanwhile.    *)
LiveFilesExist ==
  /\ Nums(files) \subseteq disk
  /\ \A p \in pins : Nums(p.files) \subseteq disk
  /\ \A c \in comp : Nums(c.in) \cup Nums(c.out) \subseteq disk

(* The store a caller sees: reads at every snapshot and through every       *)
(* reader.                                                                  *)
KV == INSTANCE KVStore WITH
  clock <- seq,
  now <- View(mem, imm, files, seq),
  held <- {[at |-> s, map |-> View(mem, imm, files, s)] : s \in snaps}
            \cup {[at |-> p.at, map |-> View(p.mem, p.imm, p.files, p.at)] : p \in pins}

(* Flushes, compactions and deletions of files are invisible: what callers  *)
(* see of the tables is the key-value store they were promised.             *)
ImplementsStore == KV!Spec

(* Background work ends: once clients stop writing, the frozen memtable is  *)
(* written out, the levels are within their limits and a manual compaction  *)
(* has returned.                                                            *)
Settles == <>[](imm = <<>> /\ comp = {} /\ manual = {} /\ ~SizeCompaction(files) /\ seek = {})
=============================================================================
