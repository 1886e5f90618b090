------------------------------ MODULE LsmProofs ------------------------------
(* Lsm, for every set of keys, every choice of limits and levels and every  *)
(* bound: no table that somebody needs is deleted.                          *)
EXTENDS Lsm, TLAPS

-----------------------------------------------------------------------------
(* What a compaction takes.                                                *)

(* A file, whatever is in it.                                               *)
IsFile(f) ==
  f = [level |-> f.level, num |-> f.num, ents |-> f.ents, smallest |-> f.smallest, largest |-> f.largest]

LEMMA OverlappingFiles ==
  ASSUME NEW F, NEW l, NEW lo, NEW hi
  PROVE  GetOverlappingInputs(F, l, lo, hi) \subseteq F
  BY DEF GetOverlappingInputs, Overlapping, At

(* The inputs and the parents of a compaction are files of the version.     *)
LEMMA SetupTakes ==
  ASSUME NEW F, NEW l, NEW in, in \subseteq F
  PROVE  LET c == SetupOtherInputs(F, l, in) IN c.in0 \subseteq F /\ c.in1 \subseteq F
  <1>1. /\ InRange(F, l + 1, in) \subseteq F
        /\ InRange(F, l, in \cup InRange(F, l + 1, in)) \subseteq F
    BY OverlappingFiles DEF InRange
  <1>. QED
    BY <1>1 DEF SetupOtherInputs

LEMMA ChosenTakes ==
  ASSUME seek \subseteq files, NEW c \in Chosen
  PROVE  c.in0 \subseteq files /\ c.in1 \subseteq files
  <1>1. ASSUME NEW m
        PROVE  LET d == CompactRange(files, m) IN d.in0 \subseteq files /\ d.in1 \subseteq files
    BY OverlappingFiles, SetupTakes DEF CompactRange
  <1>2. LET d == PickCompaction(files) IN d.in0 \subseteq files /\ d.in1 \subseteq files
    <2>1. \A G : InRange(files, 0, G) \subseteq files
      BY OverlappingFiles DEF InRange
    <2>. QED
      BY <2>1, SetupTakes DEF PickCompaction, At
  <1>. QED
    BY <1>1, <1>2 DEF Chosen

-----------------------------------------------------------------------------
(* The invariant.                                                          *)

(* What a compaction reads is of the version it began with, which it pins.  *)
Pinned ==
  \A c \in comp : /\ c.in \subseteq c.base
                  /\ Nums(c.base) \cup Nums(c.out) \subseteq disk

(* What readers and the current version name exists; a compaction by seeks  *)
(* is of a file of the current version.                                     *)
IInv ==
  /\ \A f \in files : IsFile(f)
  /\ \A c \in comp : \A f \in c.out : IsFile(f)
  /\ Nums(files) \subseteq disk
  /\ \A p \in pins : Nums(p.files) \subseteq disk
  /\ Pinned
  /\ seek \subseteq files

LEMMA TableIsFile ==
  ASSUME NEW level, NEW num, NEW ents
  PROVE  IsFile(Table(level, num, ents)) /\ Table(level, num, ents).num = num
  BY DEF IsFile, Table

LEMMA LiveHolds ==
  ASSUME NEW F, NEW C, NEW c \in C, NEW num \in Nums(c.base) \cup Nums(c.out)
  PROVE  num \in Live(F, C)
  BY DEF Live

LEMMA InitHolds ==
  ASSUME Init
  PROVE  IInv
  BY DEF Init, IInv, Pinned, Nums

(* Steps that neither make nor delete a file, nor change the version.       *)
LEMMA ClientKeeps ==
  ASSUME IInv,
         \/ \E k \in Keys, d \in Deletes : Write(k, d)
         \/ Freeze \/ GetSnapshot \/ ReleaseSnapshot \/ NewIterator \/ CleanupIterator
         \/ UpdateStats \/ RequestCompactRange \/ NothingToCompact \/ UNCHANGED vars
  PROVE  IInv'
  <1>1. UNCHANGED <<files, disk, comp>>
    BY DEF Write, Freeze, GetSnapshot, ReleaseSnapshot, NewIterator, CleanupIterator, UpdateStats,
       RequestCompactRange, NothingToCompact, vars, bgVars
  <1>2. seek' \subseteq files
    <2>1. \A k, s : Candidates(files, k, s) \subseteq files
      BY DEF Candidates, FindFile, At
    <2>. QED
      BY <2>1 DEF IInv, Write, Freeze, GetSnapshot, ReleaseSnapshot, NewIterator, CleanupIterator,
         UpdateStats, RequestCompactRange, NothingToCompact, vars, bgVars
  <1>3. \A p \in pins' : p \in pins \/ p.files = files
    BY DEF Write, Freeze, GetSnapshot, ReleaseSnapshot, NewIterator, CleanupIterator,
       UpdateStats, RequestCompactRange, NothingToCompact, vars, bgVars
  <1>. QED
    BY <1>1, <1>2, <1>3 DEF IInv, Pinned

(* The flush of a memtable, in the middle of a compaction or not.           *)
LEMMA FlushKeeps ==
  ASSUME IInv, CompactMemTable
  PROVE  IInv'
  <1>1. UNCHANGED <<pins, comp>>
    BY DEF CompactMemTable
  <1>2. CASE UNCHANGED <<files, seek>> /\ disk' \in {disk, disk \cup {next}}
    BY <1>1, <1>2 DEF IInv, Pinned
  <1>3. ASSUME NEW level, NEW ents, Apply({}, {Table(level, next, ents)}),
               disk' = DeleteObsoleteFiles(disk \cup {next}, files', comp)
        PROVE  IInv'
    <2>1. files' = files \cup {Table(level, next, ents)} /\ seek' = {}
      BY <1>3 DEF Apply
    <2>2. \A f \in files' : IsFile(f)
      BY <2>1, TableIsFile DEF IInv
    <2>3. Nums(files') \subseteq disk \cup {next}
      BY <2>1, TableIsFile DEF IInv, Nums
    <2>4. (disk \cup {next}) \cap Live(files', comp) \subseteq disk'
      BY <1>3 DEF DeleteObsoleteFiles
    <2>5. Nums(files') \subseteq disk'
      BY <2>3, <2>4 DEF Live
    <2>6. \A p \in pins : Nums(p.files) \subseteq disk'
      BY <2>4 DEF IInv, Live
    <2>7. \A c \in comp : Nums(c.base) \cup Nums(c.out) \subseteq disk'
      <3>1. ASSUME NEW c \in comp
            PROVE  /\ Nums(c.base) \cup Nums(c.out) \subseteq disk
                   /\ Nums(c.base) \cup Nums(c.out) \subseteq Live(files', comp)
        <4>1. Nums(c.base) \cup Nums(c.out) \subseteq disk
          BY DEF IInv, Pinned
        <4>. QED
          BY <4>1, LiveHolds
      <3>. QED
        BY <2>4, <3>1
    <2>. QED
      BY <1>1, <2>1, <2>2, <2>5, <2>6, <2>7 DEF IInv, Pinned
  <1>. QED
    BY <1>2, <1>3 DEF CompactMemTable

LEMMA MoveKeeps ==
  ASSUME IInv, TrivialMove
  PROVE  IInv'
  <1>1. UNCHANGED <<pins, comp, disk>>
    BY DEF TrivialMove
  <1>2. CASE UNCHANGED <<files, seek>>
    BY <1>1, <1>2 DEF IInv, Pinned
  <1>3. ASSUME NEW c \in Chosen, Apply(c.in0, {[f EXCEPT !.level = @ + 1] : f \in c.in0})
        PROVE  IInv'
    <2>1. c.in0 \subseteq files
      BY ChosenTakes DEF IInv
    <2>2. \A f : IsFile(f) => /\ IsFile([f EXCEPT !.level = @ + 1])
                              /\ [f EXCEPT !.level = @ + 1].num = f.num
      BY DEF IsFile
    <2>3. \A f \in files' : IsFile(f) /\ \E g \in files : f.num = g.num
      BY <1>3, <2>1, <2>2 DEF Apply, IInv
    <2>4. Nums(files') \subseteq Nums(files)
      BY <2>3 DEF Nums
    <2>5. seek' = {}
      BY <1>3 DEF Apply
    <2>. QED
      BY <1>1, <2>3, <2>4, <2>5 DEF IInv, Pinned
  <1>. QED
    BY <1>2, <1>3 DEF TrivialMove

(* A compaction pins its version, and has numbers of its own.               *)
LEMMA StartKeeps ==
  ASSUME IInv, StartCompaction
  PROVE  IInv'
  <1>1. PICK c \in Chosen :
          LET out == Outputs(files, c, SmallestSnapshot)
              made == {Table(c.level + 1, next + n - 1, out[n]) : n \in DOMAIN out}
          IN  /\ comp' = {CompactionState(c, made)}
              /\ disk' = disk \cup Nums(made)
    BY DEF StartCompaction
  <1>. DEFINE out == Outputs(files, c, SmallestSnapshot)
              made == {Table(c.level + 1, next + n - 1, out[n]) : n \in DOMAIN out}
  <1>2. /\ comp' = {CompactionState(c, made)}
        /\ disk' = disk \cup Nums(made)
    BY <1>1
  <1>3. UNCHANGED <<files, pins, seek>>
    BY DEF StartCompaction
  <1>4. c.in0 \cup c.in1 \subseteq files
    BY ChosenTakes DEF IInv
  <1>5. \A f \in made : IsFile(f)
    BY TableIsFile
  <1>. HIDE DEF made
  <1>6. \A d \in comp' : d.in = c.in0 \cup c.in1 /\ d.base = files /\ d.out = made
    BY <1>2 DEF CompactionState
  <1>. QED
    BY <1>2, <1>3, <1>4, <1>5, <1>6 DEF IInv, Pinned

LEMMA FinishKeeps ==
  ASSUME IInv, FinishCompaction
  PROVE  IInv'
  <1>1. UNCHANGED pins /\ comp' = {}
    BY DEF FinishCompaction
  <1>2. CASE UNCHANGED <<files, disk, seek>>
    BY <1>1, <1>2 DEF IInv, Pinned
  <1>3. ASSUME NEW c \in comp, InstallCompactionResults(c), disk' = DeleteObsoleteFiles(disk, files', {})
        PROVE  IInv'
    <2>1. files' = (files \ c.in) \cup c.out /\ seek' = {}
      BY <1>3 DEF InstallCompactionResults, Apply
    <2>2. \A f \in files' : IsFile(f)
      BY <2>1 DEF IInv
    <2>3. Nums(files') \subseteq disk
      BY <2>1 DEF IInv, Pinned, Nums
    <2>4. disk \cap Live(files', {}) \subseteq disk'
      BY <1>3 DEF DeleteObsoleteFiles
    <2>5. Nums(files') \subseteq disk'
      BY <2>3, <2>4 DEF Live
    <2>6. \A p \in pins : Nums(p.files) \subseteq disk'
      BY <2>4 DEF IInv, Live
    <2>. QED
      BY <1>1, <2>1, <2>2, <2>5, <2>6 DEF IInv, Pinned
  <1>. QED
    BY <1>2, <1>3 DEF FinishCompaction

LEMMA NextKeeps ==
  ASSUME IInv, [Next]_vars
  PROVE  IInv'
  <1>1. CASE Background
    BY <1>1, FlushKeeps, ClientKeeps, MoveKeeps, StartKeeps, FinishKeeps DEF Background
  <1>2. CASE ~Background
    BY <1>2, ClientKeeps DEF Next
  <1>. QED
    BY <1>1, <1>2

LEMMA InvGives ==
  ASSUME IInv
  PROVE  LiveFilesExist
  BY DEF IInv, Pinned, LiveFilesExist, Nums

(* A table that the current version, a reader's version or a compaction     *)
(* needs has not been deleted, whoever removed obsolete files meanwhile     *)
(* (DBImpl::DeleteObsoleteFiles, VersionSet::AddLiveFiles).                 *)
THEOREM FilesExist ==
  Spec => []LiveFilesExist
  <1>1. Init => IInv
    BY InitHolds
  <1>2. IInv /\ [Next]_vars => IInv'
    BY NextKeeps
  <1>3. IInv => LiveFilesExist
    BY InvGives
  <1>. QED
    BY <1>1, <1>2, <1>3, PTL DEF Spec
=============================================================================
