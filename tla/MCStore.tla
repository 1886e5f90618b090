------------------------------- MODULE MCStore -------------------------------
(* Lsm in three small databases; part is the one that a behaviour uses.     *)
EXTENDS Integers, FiniteSets, TLAPS

CONSTANTS Keys, MaxWrites, MaxMemLevel, GrandLimit, ExpandLimit, Deletes

VARIABLES part, seq, mem, imm, files, disk, next, snaps, pins, ptr, seek, manual, comp, bgError

(* Two snapshots over flushes and compactions; tables are not cut.          *)
Snapshots == INSTANCE LsmProofs WITH MaxPins <- 0, MaxSnaps <- 2, MaxFiles <- 6, NumLevels <- 4,
  Trigger <- 2, LevelMax <- 1, FileSize <- 9, Seeks <- FALSE, Begins <- {}, Ends <- {}, Errors <- FALSE

(* A reader that pins a version, seek compactions, failing writes.          *)
Readers == INSTANCE LsmProofs WITH MaxPins <- 1, MaxSnaps <- 0, MaxFiles <- 4, NumLevels <- 3,
  Trigger <- 1, LevelMax <- 2, FileSize <- 9, Seeks <- TRUE, Begins <- {}, Ends <- {}, Errors <- TRUE

(* Manual compactions of parts of the key space into tables of one entry.   *)
Ranges == INSTANCE LsmProofs WITH MaxPins <- 0, MaxSnaps <- 0, MaxFiles <- 5, NumLevels <- 3,
  Trigger <- 2, LevelMax <- 1, FileSize <- 1, Deletes <- {FALSE}, Seeks <- FALSE, Begins <- {0, 2}, Ends <- {1, 3}, Errors <- FALSE

ASSUME Snapshots!LsmAssumption /\ Readers!LsmAssumption /\ Ranges!LsmAssumption

vars == <<part, Snapshots!vars>>

Init ==
  \/ part = "snapshots" /\ Snapshots!Init
  \/ part = "readers" /\ Readers!Init
  \/ part = "ranges" /\ Ranges!Init
Next ==
  /\ UNCHANGED part
  /\ \/ part = "snapshots" /\ Snapshots!Next
     \/ part = "readers" /\ Readers!Next
     \/ part = "ranges" /\ Ranges!Next
Spec == Init /\ [][Next]_vars

(* Entries never hop across levels (the comment in Version::Get): of one    *)
(* user key, a level has newer entries than all levels below it.  It holds  *)
(* as long as tables are not cut.                                           *)
NewerAbove == part = "snapshots" => Snapshots!NewerAbove

(* A table that the current version, a reader's version or a compaction     *)
(* needs has not been deleted, whoever removed obsolete files meanwhile.    *)
LiveFilesExist == Snapshots!LiveFilesExist

(* Flushes, compactions and deletions of files are invisible: what callers  *)
(* see of the tables is the key-value store they were promised.             *)
ImplementsStore ==
  Snapshots!KV!Init /\ [][part # "readers" => [Snapshots!KV!Next]_(Snapshots!KV!kvVars)]_vars

-----------------------------------------------------------------------------
(* The tables are kept in the composition that the run checks: the          *)
(* invariant of LsmProofs, for the part that a behaviour uses.              *)
PartInv ==
  /\ part = "snapshots" => Snapshots!IInv
  /\ part = "readers" => Readers!IInv
  /\ part = "ranges" => Ranges!IInv
  /\ part \in {"snapshots", "readers", "ranges"}

LEMMA InitHolds ==
  Init => PartInv
  BY Snapshots!InitHolds, Readers!InitHolds, Ranges!InitHolds DEF Init, PartInv

LEMMA NextKeeps ==
  ASSUME PartInv, [Next]_vars
  PROVE  PartInv'
  <1>1. part' = part
    BY DEF Next, vars
  <1>2. CASE part = "snapshots"
    <2>1. [Snapshots!Next]_(Snapshots!vars)
      BY <1>2 DEF Next, vars
    <2>. QED
      BY <1>1, <1>2, <2>1, Snapshots!NextKeeps DEF PartInv
  <1>3. CASE part = "readers"
    <2>1. [Readers!Next]_(Readers!vars)
      BY <1>3 DEF Next, vars, Snapshots!vars, Readers!vars, Snapshots!bgVars, Readers!bgVars
    <2>. QED
      BY <1>1, <1>3, <2>1, Readers!NextKeeps DEF PartInv
  <1>4. CASE part = "ranges"
    <2>1. [Ranges!Next]_(Ranges!vars)
      BY <1>4 DEF Next, vars, Snapshots!vars, Ranges!vars, Snapshots!bgVars, Ranges!bgVars
    <2>. QED
      BY <1>1, <1>4, <2>1, Ranges!NextKeeps DEF PartInv
  <1>. QED
    BY <1>2, <1>3, <1>4 DEF PartInv

(* The property does not depend on what the parts differ in.                *)
LEMMA InvGives ==
  ASSUME PartInv
  PROVE  LiveFilesExist
  <1>1. /\ Readers!LiveFilesExist => Snapshots!LiveFilesExist
        /\ Ranges!LiveFilesExist => Snapshots!LiveFilesExist
    BY DEF Snapshots!LiveFilesExist, Readers!LiveFilesExist, Ranges!LiveFilesExist,
       Snapshots!Nums, Readers!Nums, Ranges!Nums
  <1>. QED
    BY <1>1, Snapshots!InvGives, Readers!InvGives, Ranges!InvGives DEF PartInv, LiveFilesExist

(* No table that the current version, a reader's version or a compaction    *)
(* needs is deleted (DBImpl::DeleteObsoleteFiles, VersionSet::AddLiveFiles).*)
THEOREM FilesExist ==
  Spec => []LiveFilesExist
  <1>1. PartInv /\ [Next]_vars => PartInv'
    BY NextKeeps
  <1>2. PartInv => LiveFilesExist
    BY InvGives
  <1>. QED
    BY <1>1, <1>2, InitHolds, PTL DEF Spec
=============================================================================
