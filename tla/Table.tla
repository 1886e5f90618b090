------------------------------- MODULE Table ---------------------------------
(* A table file of leveldb: built entry by entry over a file that may fail, *)
(* then opened, perhaps with one cell changed, and read by point lookups    *)
(* and by one iterator that share a block cache.  Cells as in BlockFormat:  *)
(* a handle is two cells, the footer five, a block's trailer its type and   *)
(* checksum.  Filters are scaled: bytes of ByteBits bits, hashes of         *)
(* HashBits bits, one cell for a word.                                      *)
EXTENDS BlockFormat

CONSTANTS ShortSeparator(_, _), ShortSuccessor(_),   \* of the comparator
          FilterName,    \* the key of the filter block in the metaindex block
          BlockSize,
          HasFilter,     \* there is a filter policy
          Mapped,        \* the file is read through mmap
          HasCache       \* there is a block cache

CONSTANTS FilterKey(_),   \* the user key of an internal key
          Hash(_),        \* BloomHash
          HashBits, Rotate, ByteBits,
          BitsPerKey,
          MinBits,        \* 64
          BaseLg          \* kFilterBaseLg

CONSTANTS Keys,        \* in their order
          ValueOf(_),
          Breaks,      \* the file call that fails; 0: none
          Paranoid,    \* paranoid_checks
          Verify,      \* verify_checksums of a read: a set
          Damage,      \* what a cell may be changed to
          DamageFooter \* the cell is in the footer, else it is before it

-----------------------------------------------------------------------------
(* BloomFilterPolicy                                                        *)
MaxProbes == 30
Probes == LET k == (BitsPerKey * 69) \div 100
          IN  IF k < 1 THEN 1 ELSE IF k > MaxProbes THEN MaxProbes ELSE k

(* The bits of a key, by double hashing.                                    *)
BitsOf(key, k, bits) ==
  LET h == Hash(FilterKey(key))
      delta == (h \div 2^Rotate) + ((h % 2^Rotate) * 2^(HashBits - Rotate))
  IN  {((h + (j * delta)) % 2^HashBits) % bits : j \in 0..(k - 1)}

CreateFilter(keys) ==
  LET bytes == (Max({Len(keys) * BitsPerKey, MinBits}) + ByteBits - 1) \div ByteBits
      set == UNION {BitsOf(keys[i], Probes, bytes * ByteBits) : i \in DOMAIN keys}
      Byte(i) == FoldSet(LAMBDA p, sum : sum + 2^(p % ByteBits), 0, {p \in set : p \div ByteBits = i})
  IN  [i \in 1..bytes |-> Byte(i - 1)] \o <<Probes>>

KeyMayBeIn(filter, key) ==
  LET k == Last(filter)
      IsSet(p) == (filter[1 + (p \div ByteBits)] \div 2^(p % ByteBits)) % 2 = 1
  IN  Len(filter) >= 2 /\ (k > MaxProbes \/ \A p \in BitsOf(key, k, (Len(filter) - 1) * ByteBits) : IsSet(p))

-----------------------------------------------------------------------------
(* FilterBlockBuilder                                                       *)
NoFilters == [keys |-> <<>>, result |-> <<>>, offsets |-> <<>>]

GenerateFilter(f) ==
  [keys |-> <<>>, offsets |-> Append(f.offsets, Len(f.result)),
   result |-> IF f.keys = <<>> THEN f.result ELSE f.result \o CreateFilter(f.keys)]

(* Mutant: one filter is made where several stretches have been passed.     *)
StartBlock_Once(f, offset) ==
  IF offset \div 2^BaseLg > Len(f.offsets) THEN GenerateFilter(f) ELSE f

RECURSIVE StartBlock(_, _)
StartBlock(f, offset) ==
  IF offset \div 2^BaseLg > Len(f.offsets) THEN StartBlock(GenerateFilter(f), offset) ELSE f
AddKey(f, key) == [f EXCEPT !.keys = Append(@, key)]
FinishFilters(f) ==
  LET g == IF f.keys = <<>> THEN f ELSE GenerateFilter(f)
  IN  g.result \o g.offsets \o <<Len(g.result), BaseLg>>

-----------------------------------------------------------------------------
(* FilterBlockReader: a block that is no filter block matches every key.    *)
KeyMayMatch(data, offset, key) ==
  LET n == Len(data)
      base == data[n - 1]
      num == n - 2 - base
      index == offset \div 2^data[n]
      start == data[base + index + 1]
      limit == data[base + index + 2]
  IN  IF n < 2 THEN TRUE
      ELSE IF base > n - 2 \/ index >= num THEN TRUE
      ELSE IF start <= limit /\ limit <= base THEN KeyMayBeIn(SubSeq(data, start + 1, limit), key)
      ELSE start # limit

-----------------------------------------------------------------------------
Magic == 99
FooterSize == 5
TrailerSize == 2
NoCompression == 0

(* crc32c, of which this only keeps that it sees any one changed cell.      *)
Checksum(cells) == FoldLeftDomain(LAMBDA sum, i : sum + (i * cells[i]), 0, cells)

-----------------------------------------------------------------------------
(* TableBuilder: calls counts what was asked of the file, the call numbered *)
(* breaks fails.                                                            *)
NewBuilder(breaks) ==
  [data |-> EmptyBlock, index |-> EmptyBlock, last |-> <<>>, filter |-> StartBlock(NoFilters, 0),
   pending |-> FALSE, handle |-> <<0, 0>>, file |-> <<>>, offset |-> 0, closed |-> FALSE,
   ok |-> TRUE, calls |-> 0, breaks |-> breaks]

FileCall(b, cells) ==
  LET fails == b.calls + 1 = b.breaks
  IN  [b EXCEPT !.calls = @ + 1, !.ok = ~fails, !.file = IF fails THEN @ ELSE @ \o cells]

HandleOf(b, contents) == <<b.offset, Len(contents)>>
Trailer(contents) == <<NoCompression, Checksum(Append(contents, NoCompression))>>
AddTrailer(b, contents) == IF b.ok THEN FileCall(b, Trailer(contents)) ELSE b
Advance(b, n) == IF b.ok THEN [b EXCEPT !.offset = @ + n] ELSE b
WriteRawBlock(b, contents) == Advance(AddTrailer(FileCall(b, contents), contents), Len(contents) + TrailerSize)

(* The block is written, the file is flushed, the next block begins.        *)
Pending(b) == IF b.ok THEN FileCall([b EXCEPT !.pending = TRUE], <<>>) ELSE b
NextBlock(b) == [b EXCEPT !.filter = StartBlock(@, b.offset)]
WriteData(b, contents) == [WriteRawBlock(b, contents) EXCEPT !.data = EmptyBlock, !.handle = HandleOf(b, contents)]
Flush(b) ==
  IF ~b.ok \/ b.data.buffer = <<>> THEN b ELSE NextBlock(Pending(WriteData(b, FinishBlock(b.data))))

IndexEntry(b, key) ==
  IF b.pending THEN [b EXCEPT !.index = AddTo(@, 1, key, b.handle), !.pending = FALSE] ELSE b
FlushFull(b) == IF SizeEstimate(b.data) >= BlockSize THEN Flush(b) ELSE b
AddData(b, k, v) ==
  FlushFull([b EXCEPT !.filter = AddKey(@, k), !.last = k, !.data = AddTo(@, Interval, k, v)])

AddEntry(b, k, v) ==
  IF ~b.ok THEN b
  ELSE AddData(IF b.pending THEN IndexEntry(b, ShortSeparator(b.last, k)) ELSE b, k, v)

(* Finish: the filter block, the metaindex block, the index block and the   *)
(* footer, one after another as long as nothing fails.                      *)
WriteFooter(b, meta, index) == IF b.ok THEN FileCall(b, meta \o index \o <<Magic>>) ELSE b
WriteIndex(b, meta, index) ==
  IF b.ok THEN WriteFooter(WriteRawBlock(b, index), meta, HandleOf(b, index)) ELSE WriteFooter(b, meta, <<0, 0>>)
LastIndex(b, meta) ==
  LET i == IF b.ok THEN IndexEntry(b, ShortSuccessor(b.last)) ELSE b
  IN  WriteIndex(i, meta, FinishBlock(i.index))
WriteMeta(b, meta) ==
  IF b.ok THEN LastIndex(WriteRawBlock(b, meta), HandleOf(b, meta)) ELSE LastIndex(b, <<0, 0>>)
WriteFilter(b, filters) ==
  WriteMeta(IF b.ok /\ HasFilter THEN WriteRawBlock(b, filters) ELSE b,
            FinishBlock(IF HasFilter THEN AddTo(EmptyBlock, Interval, FilterName, HandleOf(b, filters)) ELSE EmptyBlock))
Finish(b) ==
  LET c == [Flush(b) EXCEPT !.closed = TRUE] IN WriteFilter(c, FinishFilters(c.filter))

-----------------------------------------------------------------------------
(* ReadBlock, and Table::Open, which reads the filter if it can.            *)
Unread == [ok |-> FALSE, data |-> <<>>]

(* Mutant: no read verifies the checksum.                                   *)
ReadBlock_Trusts(file, handle, verify) ==
  LET end == handle[1] + handle[2] + TrailerSize
      cells == SubSeq(file, handle[1] + 1, end)
  IN  IF end > Len(file) THEN Unread
      ELSE IF cells[handle[2] + 1] # NoCompression THEN Unread
      ELSE [ok |-> TRUE, data |-> SubSeq(cells, 1, handle[2])]

ReadBlock(file, handle, verify) ==
  LET n == handle[2]
      end == handle[1] + n + TrailerSize
      cells == SubSeq(file, handle[1] + 1, end)
  IN  IF end > Len(file) THEN Unread
      ELSE IF verify /\ Checksum(SubSeq(cells, 1, n + 1)) # cells[n + 2] THEN Unread
      ELSE IF cells[n + 1] # NoCompression THEN Unread    \* Snappy is not compiled in
      ELSE [ok |-> TRUE, data |-> SubSeq(cells, 1, n)]

NoTable == [ok |-> FALSE, file |-> <<>>, index |-> <<>>, meta |-> 0, filtered |-> FALSE, filter |-> <<>>]
ReadFilter(file, handle, paranoid) ==
  IF Len(handle) < 2 THEN Unread ELSE ReadBlock(file, handle, paranoid)
FilterIn(file, meta, it, paranoid) ==
  IF Valid(it) /\ it.key = FilterName THEN ReadFilter(file, Value(meta.data, it), paranoid) ELSE Unread
ReadMeta(file, meta, paranoid) ==
  IF HasFilter /\ meta.ok
  THEN FilterIn(file, meta, Seek(meta.data, NewIter(meta.data), FilterName), paranoid) ELSE Unread

TableOf(file, footer, index, filter) ==
  IF footer[5] # Magic \/ ~index.ok THEN NoTable
  ELSE [ok |-> TRUE, file |-> file, index |-> index.data, meta |-> footer[1],
        filtered |-> filter.ok, filter |-> filter.data]
Open(file, paranoid) ==
  LET footer == SubSeq(file, Len(file) - FooterSize + 1, Len(file))
  IN  IF Len(file) < FooterSize THEN NoTable
      ELSE TableOf(file, footer, ReadBlock(file, SubSeq(footer, 3, 4), paranoid),
                   ReadMeta(file, ReadBlock(file, SubSeq(footer, 1, 2), paranoid), paranoid))

(* BlockReader: the block, and the block cache after it.                    *)
CacheBlock(cache, offset, r) ==
  [ok |-> r.ok, data |-> r.data,
   cache |-> IF r.ok /\ HasCache /\ ~Mapped THEN cache @@ (offset :> r.data) ELSE cache]
BlockReader(t, cache, verify, handle) ==
  IF Len(handle) < 2 THEN [ok |-> FALSE, data |-> <<>>, cache |-> cache]
  ELSE IF HasCache /\ handle[1] \in DOMAIN cache
  THEN [ok |-> TRUE, data |-> cache[handle[1]], cache |-> cache]
  ELSE CacheBlock(cache, handle[1], ReadBlock(t.file, handle, verify))
IterOf(r) == IF r.ok THEN NewIter(r.data) ELSE NoIter(FALSE)

(* InternalGet: what the saver was called with, if anything.                *)
Saved(r, it, ok) ==
  [ok |-> it.ok /\ ok, cache |-> r.cache,
   saved |-> IF Valid(it) THEN <<[key |-> it.key, value |-> Value(r.data, it)]>> ELSE <<>>]
GetIn(r, k, ok) == Saved(r, Seek(r.data, IterOf(r), k), ok)
GetAt(t, cache, verify, k, ok, handle) ==
  IF t.filtered /\ Len(handle) >= 2 /\ ~KeyMayMatch(t.filter, handle[1], k)
  THEN [ok |-> ok, saved |-> <<>>, cache |-> cache]
  ELSE GetIn(BlockReader(t, cache, verify, handle), k, ok)
Get(t, cache, verify, k) ==
  LET ix == Seek(t.index, NewIter(t.index), k)
  IN  IF Valid(ix) THEN GetAt(t, cache, verify, k, ix.ok, Value(t.index, ix))
      ELSE [ok |-> ix.ok, saved |-> <<>>, cache |-> cache]

ApproximateOffset(t, k) ==
  LET ix == Seek(t.index, NewIter(t.index), k)
      handle == Value(t.index, ix)
  IN  IF Valid(ix) /\ Len(handle) >= 2 THEN handle[1] ELSE t.meta

-----------------------------------------------------------------------------
(* TwoLevelIterator: an iterator of the index and one of a block, or none;  *)
(* cache is the table's block cache, which others share.                    *)
NewTwoLevel(t, verify, cache) ==
  [verify |-> verify, cache |-> cache, ix |-> NewIter(t.index), has |-> FALSE, it |-> NoIter(TRUE), data |-> <<>>, handle |-> <<>>, ok |-> TRUE]
TwoValid(w) == w.has /\ Valid(w.it)
Status(w) == w.ix.ok /\ (w.has => w.it.ok) /\ w.ok
SaveError(w) == [w EXCEPT !.ok = @ /\ (w.has => w.it.ok)]
NoData(w) == [SaveError(w) EXCEPT !.has = FALSE]

SetBlock(w, handle, r) ==
  [SaveError(w) EXCEPT !.has = TRUE, !.it = IterOf(r), !.data = r.data, !.handle = handle, !.cache = r.cache]
BlockAt(t, w, handle) ==
  IF w.has /\ handle = w.handle THEN w ELSE SetBlock(w, handle, BlockReader(t, w.cache, w.verify, handle))
InitDataBlock(t, w) == IF Valid(w.ix) THEN BlockAt(t, w, Value(t.index, w.ix)) ELSE NoData(w)

InFirst(w) == IF w.has THEN [w EXCEPT !.it = SeekToFirst(w.data, @)] ELSE w
InLast(w) == IF w.has THEN [w EXCEPT !.it = SeekToLast(w.data, @)] ELSE w
InSeek(w, k) == IF w.has THEN [w EXCEPT !.it = Seek(w.data, @, k)] ELSE w

RECURSIVE SkipForward(_, _)
SkipForward(t, w) ==
  IF TwoValid(w) THEN w
  ELSE IF ~Valid(w.ix) THEN NoData(w)
  ELSE SkipForward(t, InFirst(InitDataBlock(t, [w EXCEPT !.ix = Parse(t.index, @)])))

RECURSIVE SkipBackward(_, _)
SkipBackward(t, w) ==
  IF TwoValid(w) THEN w
  ELSE IF ~Valid(w.ix) THEN NoData(w)
  ELSE SkipBackward(t, InLast(InitDataBlock(t, [w EXCEPT !.ix = Prev(t.index, @)])))

TwoSeek(t, w, k) == SkipForward(t, InSeek(InitDataBlock(t, [w EXCEPT !.ix = Seek(t.index, @, k)]), k))
TwoFirst(t, w) == SkipForward(t, InFirst(InitDataBlock(t, [w EXCEPT !.ix = SeekToFirst(t.index, @)])))
TwoLast(t, w) == SkipBackward(t, InLast(InitDataBlock(t, [w EXCEPT !.ix = SeekToLast(t.index, @)])))

(* Mutant: the next block is only looked for when this one has an error.    *)
TwoNext_Stays(t, w) == [w EXCEPT !.it = Parse(w.data, @)]

TwoNext(t, w) == SkipForward(t, [w EXCEPT !.it = Parse(w.data, @)])
TwoPrev(t, w) == SkipBackward(t, [w EXCEPT !.it = Prev(w.data, @)])

-----------------------------------------------------------------------------
(* A table on its way from its builder to its readers.                      *)
VARIABLES entries,   \* what has been added
          b,         \* the builder
          stage,     \* "build", "closed", "abandoned", "open", "refused"
          file, t,   \* the file as read, and the table
          w,         \* the iterator, which holds the block cache
          got        \* the last point lookup

vars == <<entries, b, stage, file, t, w, got>>
reading == <<w, got>>

NoGet == [key |-> <<>>, verify |-> FALSE, ok |-> TRUE, saved |-> <<>>]

Init ==
  /\ entries = <<>> /\ stage = "build" /\ got = NoGet
  /\ \E n \in Breaks : b = NewBuilder(n)
  /\ file = <<>> /\ t = NoTable /\ w = NewTwoLevel([index |-> <<0>>], FALSE, <<>>)

Add(i) ==
  /\ stage = "build"
  /\ entries # <<>> => Order(Keys[i], Last(entries).key) > 0
  /\ b' = AddEntry(b, Keys[i], ValueOf(i))
  /\ entries' = Append(entries, [key |-> Keys[i], value |-> ValueOf(i)])
  /\ UNCHANGED <<stage, file, t, w, got>>

Close ==
  /\ stage = "build"
  /\ b' = Finish(b)
  /\ stage' = "closed" /\ file' = b'.file
  /\ UNCHANGED <<entries, t, w, got>>

(* The table is given up: BuildTable and compactions do, when it is not ok. *)
Abandon ==
  /\ stage = "build" /\ b' = [b EXCEPT !.closed = TRUE] /\ stage' = "abandoned"
  /\ UNCHANGED <<entries, file, t, w, got>>

Harm ==
  /\ stage = "closed" /\ b.ok /\ file = b.file
  /\ \E i \in DOMAIN file, c \in Damage :
       /\ (i > Len(file) - FooterSize) = DamageFooter
       /\ file' = [file EXCEPT ![i] = c]
  /\ UNCHANGED <<entries, b, stage, t, w, got>>

(* Only a table that was finished is opened.                                *)
OpenTable ==
  /\ stage = "closed" /\ b.ok
  /\ t' = Open(file, Paranoid)
  /\ stage' = (IF t'.ok THEN "open" ELSE "refused")
  /\ \E v \in Verify : w' = NewTwoLevel(t', v, <<>>)
  /\ UNCHANGED <<entries, b, file, got>>

Lookup(i, v) ==
  /\ stage = "open"
  /\ LET r == Get(t, w.cache, v, Keys[i])
     IN  /\ got' = [key |-> Keys[i], verify |-> v, ok |-> r.ok, saved |-> r.saved]
         /\ w' = [w EXCEPT !.cache = r.cache]
  /\ UNCHANGED <<entries, b, stage, file, t>>

Moved(to) == stage = "open" /\ w' = to /\ UNCHANGED <<entries, b, stage, file, t, got>>
First == Moved(TwoFirst(t, w))
AtLast == Moved(TwoLast(t, w))
SeekKey(i) == Moved(TwoSeek(t, w, Keys[i]))
Forward == TwoValid(w) /\ Moved(TwoNext(t, w))
Back == TwoValid(w) /\ Moved(TwoPrev(t, w))
Evict == \E o \in DOMAIN w.cache : Moved([w EXCEPT !.cache = [x \in DOMAIN @ \ {o} |-> @[x]]])

Next ==
  \/ \E i \in DOMAIN Keys : Add(i) \/ SeekKey(i) \/ \E v \in Verify : Lookup(i, v)
  \/ Close \/ Abandon \/ Harm \/ OpenTable
  \/ First \/ AtLast \/ Forward \/ Back \/ Evict

Spec == Init /\ [][Next]_vars

-----------------------------------------------------------------------------
AtOrPast(entry, k) == Order(entry.key, k) >= 0
FirstFrom(k) == SelectSeq(entries, LAMBDA e : AtOrPast(e, k))

(* A lookup is right: it is the first entry at or past the key; it may be   *)
(* none, but not when the entry is one of the same user key.                *)
Right(g) ==
  LET from == FirstFrom(g.key)
  IN  \/ from # <<>> /\ g.saved = <<from[1]>>
      \/ g.saved = <<>> /\ (from = <<>> \/ FilterKey(from[1].key) # FilterKey(g.key))

(* table_builder.h:62, filter_policy.h:47: what was added to a table that   *)
(* was finished is found, whatever blocks, index keys and filters it has.   *)
Found == got # NoGet => got.ok /\ Right(got)

(* table.h:48-55: the offset for a key is not past that of a later key.     *)
OffsetsAscend ==
  stage = "open" => \A i \in 1..(Len(Keys) - 1) : ApproximateOffset(t, Keys[i]) <= ApproximateOffset(t, Keys[i + 1])

(* A table is only ever finished whole: a failed call of the file shows.    *)
FinishedWhole == stage = "closed" /\ b.ok /\ file = b.file => Open(file, TRUE).ok /\ b.offset + FooterSize = Len(b.file)

(* The iterator over the table is the cursor of iterator.h, each operation  *)
(* that of its name.                                                        *)
Here == {i \in DOMAIN entries : entries[i] = [key |-> w.it.key, value |-> Value(w.data, w.it)]}
Pos == IF ~TwoValid(w) THEN 0 ELSE IF Here = {} THEN -1 ELSE Max(Here)
Source == INSTANCE Cursor WITH Targets <- {Keys[i] : i \in DOMAIN Keys}, pos <- Pos,
  entries <- IF stage = "open" THEN entries ELSE <<>>
Implements ==
  /\ Source!Spec /\ []Status(w)
  /\ [][/\ First => Source!SeekToFirst
        /\ AtLast => Source!SeekToLast
        /\ Forward => Source!NextEntry
        /\ Back => Source!Prev]_vars

(* options.h:162: with verify_checksums, all data read is verified against  *)
(* its checksum: a read has an error or is right.                           *)
VerifiedOrError ==
  /\ got.verify /\ got.ok /\ got # NoGet => Right(got)
  /\ w.verify /\ TwoValid(w) => Pos # -1
=============================================================================
