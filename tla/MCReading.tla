------------------------------- MODULE MCReading -------------------------------
(* leveldb's iterators, from a block up to the database: part is the one    *)
(* that a behaviour uses, and the others stay as they begin.                *)
EXTENDS Keys

CONSTANT LastWrite   \* sequence numbers of the database under an iterator

VARIABLES part,
  entries, data, it,               \* Block
  added, b, stage, file, t, w, got, \* Table
  src, sequence, d                 \* Iterators

-----------------------------------------------------------------------------
(* Blocks of up to six entries, a restart after every two; and blocks of up *)
(* to four in which any one cell has been changed.                          *)
UserKeys == {<<>>, <<0>>, <<0, 1>>, <<0, 1, 1>>, <<0, 2>>, <<1>>, <<1, 1>>}
Values == <<<<>>, <<7>>, <<8, 8>>>>
Cells == {0, 1, 2, 3, 5, 9, 127}
NoCells == {}
Bytewise(x, y) == Compare(x, y)
Whole == INSTANCE Block WITH Interval <- 2, Order <- Bytewise, MaxEntries <- 6, Damage <- NoCells
Broken == INSTANCE Block WITH Interval <- 2, Order <- Bytewise, MaxEntries <- 4, Damage <- Cells
NoBlock == INSTANCE Block WITH Interval <- 2, Order <- Bytewise, MaxEntries <- 0, Damage <- NoCells

-----------------------------------------------------------------------------
(* A table of five internal keys, two of them of one user key, in small      *)
(* blocks, while the calls of the file may fail.                            *)
InternalKeys ==
  <<MakeKey(<<0>>, 2, 1), MakeKey(<<0, 1>>, 3, 1), MakeKey(<<0, 1>>, 1, 0), MakeKey(<<0, 3>>, 2, 1),
    MakeKey(<<2, 1>>, 1, 1)>>
Calls == {0, 1, 2, 3, 5, 7, 9, 10}
Unverified == {FALSE}
ValueOf(i) == IF i % 3 = 0 THEN <<>> ELSE <<i>>
Internal(x, y) == CompareInternal(x, y)
Between(x, y) == SeparatorInternal(x, y)
After(x) == SuccessorInternal(x)
UserKeyOf(k) == UserKey(k)
Hash(k) == FoldLeft(LAMBDA h, c : ((h * 5) + c + 3) % 16, 1, k)
Name == <<0, 1>>
Failing == INSTANCE Table WITH Interval <- 2, BlockSize <- 14, HashBits <- 4, Rotate <- 2, ByteBits <- 2,
  BitsPerKey <- 3, MinBits <- 4, BaseLg <- 3, Order <- Internal, ShortSeparator <- Between,
  ShortSuccessor <- After, FilterName <- Name, FilterKey <- UserKeyOf, Keys <- InternalKeys,
  HasFilter <- TRUE, Mapped <- FALSE, HasCache <- TRUE, Breaks <- Calls, Paranoid <- TRUE,
  Verify <- Unverified, Damage <- NoCells, DamageFooter <- FALSE, entries <- added

(* A table of user keys in which one cell before the footer is changed;     *)
(* every read verifies checksums.                                           *)
BytewiseKeys == <<<<0>>, <<0, 1>>, <<2, 1>>>>
NoCalls == {0}
Verified == {TRUE}
Harms == {24}
BytewiseBetween(x, y) == Separator(x, y)
BytewiseAfter(x) == Successor(x)
Same(k) == k
Harmed == INSTANCE Table WITH Interval <- 2, BlockSize <- 14, HashBits <- 4, Rotate <- 2, ByteBits <- 2,
  BitsPerKey <- 3, MinBits <- 4, BaseLg <- 3, Order <- Bytewise, ShortSeparator <- BytewiseBetween,
  ShortSuccessor <- BytewiseAfter, FilterName <- Name, FilterKey <- Same, Keys <- BytewiseKeys,
  HasFilter <- TRUE, Mapped <- FALSE, HasCache <- TRUE, Breaks <- NoCalls, Paranoid <- TRUE,
  Verify <- Verified, Damage <- Harms, DamageFooter <- FALSE, entries <- added

-----------------------------------------------------------------------------
(* Every way to give up to three entries to a memtable and a level of two   *)
(* files, newer ones first, and a database with a corrupt entry.            *)
Users == {1, 2, 3}
Two == {2}
Three == {3}
NoSources == {<<<<{}>>>>}
NoDatabase == INSTANCE Iterators WITH LastSeq <- LastWrite, Sources <- NoSources, Snapshots <- Two, Raw <- FALSE

Entry == {NoDatabase!Rank(u, s, t_) : u \in Users, s \in 1..3, t_ \in {NoDatabase!Deletion, NoDatabase!Value}}
Few == UNION {kSubset(n, Entry) : n \in 0..3}
Histories == {h \in Few : {NoDatabase!SequenceOf(x) : x \in h} = 1..Cardinality(h)}
Split(h, n, u) ==
  LET mem == {k \in h : NoDatabase!SequenceOf(k) > n}
      old == h \ mem
      low == {k \in old : NoDatabase!UserOf(k) <= u}
      files == SelectSeq(<<low, old \ low>>, LAMBDA f : f # {})
  IN  <<<<mem>>>> \o (IF files = <<>> THEN <<>> ELSE <<files>>)
Bad == NoDatabase!Rank(2, 2, NoDatabase!Corrupt)
BadSources == {<<<<{NoDatabase!Rank(2, 3, 1), NoDatabase!Rank(1, 1, 1)}>>, <<{Bad}, {NoDatabase!Rank(3, 1, 1)}>>>>}
Sources == {Split(h, n, u) : h \in Histories, n \in {1, 3}, u \in Users} \cup BadSources

Database == INSTANCE Iterators WITH LastSeq <- LastWrite, Snapshots <- Two, Raw <- FALSE
Merging == INSTANCE Iterators WITH LastSeq <- LastWrite, Snapshots <- Three, Raw <- TRUE

ASSUME Whole!BlockAssumption

-----------------------------------------------------------------------------
blockVars == <<entries, data, it>>
tableVars == <<added, b, stage, file, t, w, got>>
databaseVars == <<src, sequence, d>>
vars == <<part, blockVars, tableVars, databaseVars>>

Init ==
  /\ part \in {"block", "broken", "table", "harmed", "database", "merging"}
  /\ IF part = "block" THEN Whole!Init ELSE IF part = "broken" THEN Broken!Init ELSE NoBlock!Init
  /\ IF part = "table" THEN Failing!Init ELSE Harmed!Init
  /\ IF part = "database" THEN Database!Init ELSE IF part = "merging" THEN Merging!Init ELSE NoDatabase!Init

Next ==
  /\ UNCHANGED part
  /\ \/ part = "block" /\ Whole!Next /\ UNCHANGED <<tableVars, databaseVars>>
     \/ part = "broken" /\ Broken!Next /\ UNCHANGED <<tableVars, databaseVars>>
     \/ part = "table" /\ Failing!Next /\ UNCHANGED <<blockVars, databaseVars>>
     \/ part = "harmed" /\ Harmed!Next /\ UNCHANGED <<blockVars, databaseVars>>
     \/ part = "database" /\ Database!Next /\ UNCHANGED <<blockVars, tableVars>>
     \/ part = "merging" /\ Merging!Next /\ UNCHANGED <<blockVars, tableVars>>

Spec == Init /\ [][Next]_vars

-----------------------------------------------------------------------------
(* The iterators over a whole block, over a table and over the children of  *)
(* a merging iterator are the cursor of iterator.h, each operation that of  *)
(* its name, and have no error: restart points, shared prefixes, blocks and *)
(* files never show.                                                        *)
BlockIsCursor ==
  /\ Whole!Source!Init
  /\ [][part = "block" =>
         /\ it'.ok /\ [Whole!Source!Next]_(Whole!Source!vars)
         /\ Whole!First => Whole!Source!SeekToFirst
         /\ Whole!AtLast => Whole!Source!SeekToLast
         /\ Whole!Forward => Whole!Source!NextEntry
         /\ Whole!Back => Whole!Source!Prev]_vars
TableIsCursor ==
  /\ Failing!Source!Init
  /\ [][part = "table" =>
         /\ Failing!Status(w)' /\ [Failing!Source!Next]_(Failing!Source!vars)
         /\ Failing!First => Failing!Source!SeekToFirst
         /\ Failing!AtLast => Failing!Source!SeekToLast
         /\ Failing!Forward => Failing!Source!NextEntry
         /\ Failing!Back => Failing!Source!Prev]_vars
MergeIsCursor ==
  /\ Merging!Merged!Init
  /\ [][part = "merging" =>
         /\ [Merging!Merged!Next]_(Merging!Merged!vars)
         /\ Merging!Forward => Merging!Merged!NextEntry
         /\ Merging!Back => Merging!Merged!Prev]_vars
AreCursors == BlockIsCursor /\ TableIsCursor /\ MergeIsCursor

(* options.h:172: the iterator of a database is the cursor over what its    *)
(* snapshot holds, whatever is written while it is used.                    *)
ShowsSnapshot ==
  /\ Database!UserView!Init
  /\ [][part = "database" =>
         /\ [Database!UserView!Next]_(Database!UserView!vars)
         /\ Database!First => Database!UserView!SeekToFirst
         /\ Database!AtLast => Database!UserView!SeekToLast
         /\ Database!Forward => Database!UserView!NextEntry
         /\ Database!Back => Database!UserView!Prev]_vars

(* table_builder.h:62, filter_policy.h:47, table.h:48: a table that was     *)
(* finished is whole although calls of the file failed, what was added to   *)
(* it is found, and offsets ascend with the keys.                           *)
TableReads == part = "table" => Failing!FinishedWhole /\ Failing!OffsetsAscend /\ Failing!Found

(* options.h:162, block.cc:40-45: a changed cell of a table makes a read    *)
(* that verifies fail, or the read is right; one of a block never makes the *)
(* iterator leave the block or walk for ever.                               *)
DamageShows ==
  /\ part = "harmed" => Harmed!VerifiedOrError
  /\ part = "broken" => Broken!InBounds /\ Broken!WalksEnd
=============================================================================
