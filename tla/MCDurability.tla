----------------------------- MODULE MCDurability -----------------------------
(* What keeps the answers of leveldb across failures: the write queue, which *)
(* this module extends with its constants in the .cfg, the restart, the      *)
(* format of the log, the repair.  A behaviour is one of these at work; part *)
(* is which, and the others stay as they begin.                              *)
EXTENDS WriteQueue, Integers, TLC, TLAPS

VARIABLES part,
  (* Recovery *)
  current, manifests, rlogs, rtables, rpc, db, edit, ids, crashes, synced, racked,
  (* LogFormat *)
  file, offset, written, torn, damage, cuts, flips,
  (* Repair *)
  dir, lost, fpc, result, flogs, numbers, ftables, next, copy, failures, kills, found,
  misread, risked

(* Processes die between any two steps, a write of the MANIFEST may fail.   *)
(* The instances are of the module with the theorems, which the proofs below*)
(* use of both.                                                             *)
Killed == INSTANCE RecoveryProofs WITH MaxWrites <- 2, MaxNumber <- 20, MaxCrashes <- 2,
  Power <- FALSE, Reuse <- FALSE, Errors <- TRUE,
  logs <- rlogs, tables <- rtables, pc <- rpc, acked <- racked

(* The machine loses power: what was not synced may be gone.                *)
Unplugged == INSTANCE RecoveryProofs WITH MaxWrites <- 2, MaxNumber <- 20, MaxCrashes <- 2,
  Power <- TRUE, Reuse <- FALSE, Errors <- FALSE,
  logs <- rlogs, tables <- rtables, pc <- rpc, acked <- racked

(* Records of every kind of split, cut off anywhere and read from anywhere. *)
CutSizes == {0, 1, 8, 20}
Cut == INSTANCE LogFormat WITH BlockSize <- 15, Garbage <- 200, Sizes <- CutSizes,
  MaxRecords <- 4, Cuts <- 1, Flips <- 0

(* A torn record that is written after, and a damaged byte.                 *)
FlipSizes == {0, 10}
Flipped == INSTANCE LogFormat WITH BlockSize <- 15, Garbage <- 200, Sizes <- FlipSizes,
  MaxRecords <- 3, Cuts <- 1, Flips <- 1

-----------------------------------------------------------------------------
(* The databases that are repaired.                                         *)
E(k, s) == [key |-> k, seq |-> s]
Log(entries) == [whole |-> entries, misread |-> {}]
Whole(entries) == [gives |-> entries, ends |-> TRUE]
Damaged(entries) == [gives |-> entries, ends |-> FALSE]
Start(ls, ts) == [logs |-> ls, tables |-> ts, manifests |-> {2}]

(* A table and two logs: one is the memtable's, one of that being written.  *)
Sound == Start(4 :> Log({E("a", 2), E("b", 3)}) @@ 6 :> Log({E("a", 4)}), 3 :> Whole({E("a", 1)}))
NothingLogged == Start(6 :> Log({}), 3 :> Whole({E("a", 1)}) @@ 5 :> Whole({E("b", 2)}))
(* A table with damage, one that cannot be opened, a log.                   *)
DamagedTables == Start(6 :> Log({E("a", 5)}), 3 :> Damaged({E("a", 1), E("b", 2)}) @@ 5 :> Damaged({}) @@ 7 :> Whole({E("b", 4)}))
OneDamaged == Start(<<>>, 3 :> Damaged({E("a", 1)}) @@ 5 :> Whole({E("a", 2)}))
(* Table 6 was written from the memtable while a compaction of table 3 had  *)
(* 5 open for its output and took 7 for the rest.                           *)
Compacted == Start(8 :> Log({}), 6 :> Whole({E("b", 3)}) @@ 5 :> Whole({E("a", 1)}) @@ 7 :> Whole({E("b", 2)}))
Starts == {Sound, NothingLogged, DamagedTables, OneDamaged, Compacted}
NoStarts == {NothingLogged}

(* Three calls fail; or the process is killed twice. These too are of the   *)
(* module with the theorems.                                                *)
Failing == INSTANCE RepairProofs WITH MaxFailures <- 3, MaxKills <- 0,
  pc <- fpc, logs <- flogs, tables <- ftables
Stopped == INSTANCE RepairProofs WITH MaxFailures <- 0, MaxKills <- 2,
  pc <- fpc, logs <- flogs, tables <- ftables
Idle == INSTANCE RepairProofs WITH Starts <- NoStarts, MaxFailures <- 0, MaxKills <- 0,
  pc <- fpc, logs <- flogs, tables <- ftables

ASSUME
  /\ Killed!RecoveryAssumption /\ Unplugged!RecoveryAssumption
  /\ Cut!LogAssumption /\ Flipped!LogAssumption

(* What the theorems of RepairProofs need of the databases above.           *)
ASSUME Repairable ==
  Failing!RepairAssumption /\ Stopped!RepairAssumption /\ Idle!RepairAssumption

-----------------------------------------------------------------------------
recoveryVars == <<current, manifests, rlogs, rtables, rpc, db, edit, ids, crashes, synced, racked>>
logVars == <<file, offset, written, torn, damage, cuts, flips>>
repairVars == <<dir, lost, fpc, result, flogs, numbers, ftables, next, copy, failures, kills, found, misread, risked>>
partVars == <<part, vars, recoveryVars, logVars, repairVars>>

PartInit ==
  /\ part \in {"queue", "killed", "unplugged", "cut", "flipped", "failing", "stopped"}
  /\ Init /\ Killed!Init /\ Cut!Init
  /\ IF part \in {"failing", "stopped"} THEN Failing!Init ELSE Idle!Init

PartNext ==
  /\ UNCHANGED part
  /\ \/ part = "queue" /\ Next /\ UNCHANGED <<recoveryVars, logVars, repairVars>>
     \/ part = "killed" /\ Killed!Next /\ UNCHANGED <<vars, logVars, repairVars>>
     \/ part = "unplugged" /\ Unplugged!Next /\ UNCHANGED <<vars, logVars, repairVars>>
     \/ part = "cut" /\ Cut!Next /\ UNCHANGED <<vars, recoveryVars, repairVars>>
     \/ part = "flipped" /\ Flipped!Next /\ UNCHANGED <<vars, recoveryVars, repairVars>>
     \/ part = "failing" /\ Failing!Next /\ UNCHANGED <<vars, recoveryVars, logVars>>
     \/ part = "stopped" /\ Stopped!Next /\ UNCHANGED <<vars, recoveryVars, logVars>>

PartSpec == PartInit /\ [][PartNext]_partVars

Symmetry == Permutations(Threads)

-----------------------------------------------------------------------------
(* A database that opens after any crashes has what was promised: every     *)
(* write answered ok if only processes died, the synced ones after losses   *)
(* of power; and no sequence number is given to two writes.                 *)
AnswersSurvive ==
  /\ Killed!TypeOK /\ Killed!SyncedSurvive /\ Killed!SequenceFresh
  /\ part = "killed" => Killed!AckedSurvive

(* As long as the machine runs, no death of the process leaves a database   *)
(* that cannot be opened, and the MANIFEST says what the memory says; a     *)
(* table of the version is never missing, whatever crashed.                 *)
AlwaysOpens ==
  /\ Killed!TablesExist
  /\ part = "killed" => Killed!Openable /\ Killed!ManifestAgrees

(* A log file that was cut off anywhere gives back the records that are     *)
(* whole in it, from the first or from any offset, and nothing else.        *)
LogReadsBack == Cut!TypeOK /\ Cut!ReadsBack /\ (part = "cut" => Cut!ReadsFrom)

(* Whatever was damaged, the log reader returns nothing that was not        *)
(* written, in no other order, and damage costs the records of its block.   *)
DamageIsLocal == part = "flipped" => Flipped!NeverInvents /\ Flipped!DamageIsLocal

(* A repair that fails anywhere or is killed loses nothing that could be    *)
(* read, but for what a failing read left out of the copy of a table that   *)
(* could not be archived; one in which no call failed has it in the         *)
(* database; and tables in which no read failed are as they are described.  *)
RepairKeeps == Failing!Kept /\ Failing!Salvaged /\ Failing!Described

-----------------------------------------------------------------------------
(* What the restart keeps, in this composition: the theorems of             *)
(* RecoveryProofs for processes that die and for a machine that loses power,*)
(* with the other parts at rest.                                            *)

(* Both ways to crash satisfy the assumptions of RecoveryProofs.            *)
LEMMA Assumptions ==
  Killed!RecoveryAssumption /\ Unplugged!RecoveryAssumption
  BY DEF Killed!RecoveryAssumption, Unplugged!RecoveryAssumption

(* The invariant of the restart, for the crashes that the part has.         *)
RestartInv ==
  IF part = "unplugged" THEN Unplugged!IInv ELSE Killed!IInv

LEMMA RestartBegins ==
  PartInit => RestartInv
  <1>. SUFFICES ASSUME PartInit PROVE RestartInv
    OBVIOUS
  <1>1. Killed!IInv
    BY Assumptions, Killed!InitHolds DEF PartInit
  <1>2. Unplugged!Init
    BY DEF PartInit, Killed!Init, Unplugged!Init, Killed!Empty, Unplugged!Empty, Killed!NoDb, Unplugged!NoDb,
       Killed!NoEdit, Unplugged!NoEdit
  <1>3. Unplugged!IInv
    BY <1>2, Assumptions, Unplugged!InitHolds
  <1>. QED
    BY <1>1, <1>3 DEF RestartInv

(* Every step keeps it.                                                     *)
LEMMA RestartStays ==
  ASSUME RestartInv, [PartNext]_partVars
  PROVE  RestartInv'
  <1>1. part' = part
    BY DEF PartNext, partVars
  <1>2. CASE part = "unplugged"
    <2>1. [Unplugged!Next]_(Unplugged!vars)
      BY <1>2 DEF PartNext, partVars, recoveryVars, Unplugged!vars, Unplugged!disk, Unplugged!history
    <2>. QED
      BY <1>1, <1>2, <2>1, Assumptions, Unplugged!NextKeeps DEF RestartInv
  <1>3. CASE part # "unplugged"
    <2>1. [Killed!Next]_(Killed!vars)
      BY <1>3 DEF PartNext, partVars, recoveryVars, Killed!vars, Killed!disk, Killed!history
    <2>. QED
      BY <1>1, <1>3, <2>1, Assumptions, Killed!NextKeeps DEF RestartInv
  <1>. QED
    BY <1>2, <1>3

LEMMA RestartInvariant ==
  PartSpec => []RestartInv
  <1>1. RestartInv /\ [PartNext]_partVars => RestartInv'
    BY RestartStays
  <1>. QED
    BY <1>1, RestartBegins, PTL DEF PartSpec

(* What the two instances say of a state that neither of their constants    *)
(* tells apart.                                                             *)
LEMMA SameState ==
  /\ Unplugged!TypeOK => Killed!TypeOK
  /\ Unplugged!SyncedSurvive => Killed!SyncedSurvive
  /\ Unplugged!SequenceFresh => Killed!SequenceFresh
  /\ Unplugged!TablesExist => Killed!TablesExist
  <1>1. Unplugged!Contents = Killed!Contents
    BY DEF Unplugged!Contents, Killed!Contents, Unplugged!ToSet, Killed!ToSet
  <1>. QED
    BY <1>1 DEF Unplugged!TypeOK, Killed!TypeOK, Unplugged!SyncedSurvive, Killed!SyncedSurvive,
       Unplugged!SequenceFresh, Killed!SequenceFresh, Unplugged!TablesExist, Killed!TablesExist

(* The invariant gives what the run checks.                                 *)
LEMMA RestartPromises ==
  ASSUME RestartInv
  PROVE  AnswersSurvive /\ AlwaysOpens
  <1>1. CASE part = "unplugged"
    BY <1>1, Unplugged!Promises, SameState DEF RestartInv, AnswersSurvive, AlwaysOpens
  <1>2. CASE part # "unplugged"
    BY <1>2, Killed!Promises DEF RestartInv, AnswersSurvive, AlwaysOpens
  <1>. QED
    BY <1>1, <1>2

(* After any crashes a database that opens has every synced write that was  *)
(* answered, every other one too if only processes died, and no sequence    *)
(* number twice (DBImpl::Write, DBImpl::Recover, WriteOptions::sync).       *)
THEOREM AnswersKept ==
  PartSpec => []AnswersSurvive
  BY RestartInvariant, RestartPromises, PTL

(* No death of a process leaves a database that cannot be opened or a       *)
(* MANIFEST that differs from the version in memory, and no crash an open   *)
(* database without a table of its version (VersionSet::LogAndApply,        *)
(* VersionSet::Recover, DBImpl::DeleteObsoleteFiles).                       *)
THEOREM OpensAlways ==
  PartSpec => []AlwaysOpens
  BY RestartInvariant, RestartPromises, PTL

-----------------------------------------------------------------------------
(* What the repair keeps, in this composition: the theorems of RepairProofs *)
(* for calls that fail and for processes that are killed.                   *)

LEMMA OfOneKind ==
  Failing!OneKind /\ Stopped!OneKind /\ Idle!OneKind
  BY DEF Failing!OneKind, Stopped!OneKind, Idle!OneKind

(* The invariant of the repair, for what the part has happen.               *)
RepairInv ==
  IF part = "failing" THEN Failing!IInv ELSE IF part = "stopped" THEN Stopped!IInv ELSE Idle!IInv

LEMMA RepairBegins ==
  PartInit => RepairInv
  <1>. SUFFICES ASSUME PartInit PROVE RepairInv
    OBVIOUS
  <1>1. CASE part = "failing"
    <2>1. Failing!Init
      BY <1>1 DEF PartInit
    <2>. QED
      BY <1>1, <2>1, Repairable, Failing!InitHolds DEF RepairInv
  <1>2. CASE part = "stopped"
    <2>1. Stopped!Init
      BY <1>2 DEF PartInit, Failing!Init, Stopped!Init, Failing!NoTable, Stopped!NoTable, Failing!MaxOf, Stopped!MaxOf
    <2>. QED
      BY <1>2, <2>1, Repairable, Stopped!InitHolds DEF RepairInv
  <1>3. CASE part \notin {"failing", "stopped"}
    <2>1. Idle!Init
      BY <1>3 DEF PartInit
    <2>. QED
      BY <1>3, <2>1, Repairable, Idle!InitHolds DEF RepairInv
  <1>. QED
    BY <1>1, <1>2, <1>3

(* Every step keeps it.                                                     *)
LEMMA RepairStays ==
  ASSUME RepairInv, [PartNext]_partVars
  PROVE  RepairInv'
  <1>1. part' = part
    BY DEF PartNext, partVars
  <1>2. CASE part = "failing"
    <2>1. [Failing!Next]_(Failing!vars)
      BY <1>2 DEF PartNext, partVars, repairVars, Failing!vars, Failing!memory, Failing!budget, Failing!history
    <2>. QED
      BY <1>1, <1>2, <2>1, Repairable, OfOneKind, Failing!NextKeeps DEF RepairInv
  <1>3. CASE part = "stopped"
    <2>1. [Stopped!Next]_(Stopped!vars)
      BY <1>3 DEF PartNext, partVars, repairVars, Stopped!vars, Stopped!memory, Stopped!budget, Stopped!history
    <2>. QED
      BY <1>1, <1>3, <2>1, Repairable, OfOneKind, Stopped!NextKeeps DEF RepairInv
  <1>4. CASE part \notin {"failing", "stopped"}
    <2>1. [Idle!Next]_(Idle!vars)
      BY <1>4 DEF PartNext, partVars, repairVars, Idle!vars, Idle!memory, Idle!budget, Idle!history
    <2>. QED
      BY <1>1, <1>4, <2>1, Repairable, OfOneKind, Idle!NextKeeps DEF RepairInv
  <1>. QED
    BY <1>2, <1>3, <1>4

LEMMA RepairInvariant ==
  PartSpec => []RepairInv
  <1>1. RepairInv /\ [PartNext]_partVars => RepairInv'
    BY RepairStays
  <1>. QED
    BY <1>1, RepairBegins, PTL DEF PartSpec

(* The promises do not depend on how much may happen.                       *)
LEMMA SameRepair ==
  /\ Stopped!Kept /\ Stopped!Salvaged /\ Stopped!Described => RepairKeeps
  /\ Idle!Kept /\ Idle!Salvaged /\ Idle!Described => RepairKeeps
  <1>1. /\ Stopped!ToSave = Failing!ToSave /\ Idle!ToSave = Failing!ToSave
        /\ \A f : Stopped!Logged(f) = Failing!Logged(f) /\ Idle!Logged(f) = Failing!Logged(f)
        /\ \A f : Stopped!Given(f) = Failing!Given(f) /\ Idle!Given(f) = Failing!Given(f)
    BY DEF Stopped!ToSave, Idle!ToSave, Failing!ToSave, Stopped!Logged, Idle!Logged, Failing!Logged,
       Stopped!Given, Idle!Given, Failing!Given, Stopped!Union, Idle!Union, Failing!Union
  <1>2. /\ Stopped!InDamaged = Failing!InDamaged /\ Idle!InDamaged = Failing!InDamaged
        /\ Stopped!Descriptor = Failing!Descriptor /\ Idle!Descriptor = Failing!Descriptor
        /\ Stopped!Repaired = Failing!Repaired /\ Idle!Repaired = Failing!Repaired
    BY DEF Stopped!InDamaged, Idle!InDamaged, Failing!InDamaged, Stopped!Descriptor, Idle!Descriptor, Failing!Descriptor,
       Stopped!Repaired, Idle!Repaired, Failing!Repaired
  <1>3. Stopped!Saved = Failing!Saved /\ Idle!Saved = Failing!Saved
    BY <1>2 DEF Stopped!Saved, Idle!Saved, Failing!Saved
  <1>. QED
    BY <1>1, <1>2, <1>3 DEF RepairKeeps, Stopped!Kept, Idle!Kept, Failing!Kept, Stopped!Salvaged, Idle!Salvaged,
       Failing!Salvaged, Stopped!Described, Idle!Described, Failing!Described

(* A repair in which calls fail, or which is killed and run again, loses    *)
(* nothing that could be read, but what a failing read left out of a copy   *)
(* of a table that could not be moved; when it answers ok, the database has *)
(* what could be read if no call failed, and its tables that were read      *)
(* without a failure are as its descriptor says (Repairer::Run, ScanTable,  *)
(* RepairTable, WriteDescriptor).                                           *)
THEOREM RepairPromised ==
  PartSpec => []RepairKeeps
  <1>1. ASSUME RepairInv PROVE RepairKeeps
    <2>1. CASE part = "failing"
      BY <1>1, <2>1, Failing!SalvagedFollows, Failing!DescribedFollows DEF RepairInv, RepairKeeps, Failing!IInv
    <2>2. CASE part = "stopped"
      BY <1>1, <2>2, SameRepair, Stopped!SalvagedFollows, Stopped!DescribedFollows DEF RepairInv, Stopped!IInv
    <2>3. CASE part \notin {"failing", "stopped"}
      BY <1>1, <2>3, SameRepair, Idle!SalvagedFollows, Idle!DescribedFollows DEF RepairInv, Idle!IInv
    <2>. QED
      BY <2>1, <2>2, <2>3
  <1>. QED
    BY <1>1, RepairInvariant, PTL
=============================================================================
