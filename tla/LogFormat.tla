------------------------------ MODULE LogFormat ------------------------------
(* leveldb's log files, byte by byte: how log::Writer splits records over   *)
(* blocks, what a crash or a damaged byte leaves of them, and what          *)
(* log::Reader makes of the result, from any initial offset.                *)
EXTENDS Naturals, Sequences, FiniteSets, FiniteSetsExt, SequencesExt

CONSTANTS
  BlockSize,   \* kBlockSize, which is 32768 in the code
  Sizes,       \* sizes of the records written
  MaxRecords,  \* bound: records in a behaviour
  Garbage,     \* what a checksum byte is when it is read as a number
  Cuts,        \* bound: crashes that leave the file to be reused
  Flips        \* bound: damaged bytes

LogAssumption ==
  /\ BlockSize \in Nat /\ BlockSize > 7 /\ Sizes \subseteq Nat
  /\ {MaxRecords, Garbage, Cuts, Flips} \subseteq Nat

VARIABLES
  file,     \* the bytes
  offset,   \* block_offset_ of the writer
  written,  \* history: the records written and where they are
  torn,     \* history: the last byte, if it is inside a record
  damage,   \* history: offsets at which the file is not as written
  cuts, flips

vars == <<file, offset, written, torn, damage, cuts, flips>>

kHeaderSize == 7
Full == 1
First == 2
Middle == 3
LastType == 4
Eof == 5
BadRecord == 6

-----------------------------------------------------------------------------
(* log::Writer.  A byte is a number, a byte of a payload or one of the four *)
(* bytes of the checksum of a type and a payload.                           *)
Byte(v) == <<"n", v>>
Crc(type, data) == [i \in 1..4 |-> <<"crc", i, type, data>>]
Zeros(n) == [i \in 1..n |-> Byte(0)]

EmitPhysicalRecord(type, data) ==
  Crc(type, data) \o <<Byte(Len(data) % 256), Byte(Len(data) \div 256), Byte(type)>> \o data

FitsHeader(off) == BlockSize - off >= kHeaderSize

(* The fragments of the bytes after the first n, written from offset off.   *)
Fragments(data) ==
  LET f[n \in 0..Len(data), off \in 0..BlockSize, begin \in BOOLEAN] ==
        IF ~FitsHeader(off) THEN Zeros(BlockSize - off) \o f[n, 0, begin]
        ELSE LET m == Min({Len(data), n + BlockSize - off - kHeaderSize})
                 end == m = Len(data)
                 type == IF begin THEN IF end THEN Full ELSE First
                         ELSE IF end THEN LastType ELSE Middle
             IN  EmitPhysicalRecord(type, SubSeq(data, n + 1, m)) \o
                 (IF end THEN <<>> ELSE f[m, off + kHeaderSize + m - n, FALSE])
  IN  f

Payload(r) == [i \in 1..r.size |-> <<"p", r.id, i>>]

(* AddRecord; where the record begins is after the trailer it may fill.     *)
AddRecord(size) ==
  /\ Len(written) < MaxRecords
  /\ LET r == [id |-> Len(written) + 1, size |-> size]
         bytes == Fragments(Payload(r))[0, offset, TRUE]
         at == IF FitsHeader(offset) THEN Len(file) ELSE Len(file) + BlockSize - offset
     IN  /\ file' = file \o bytes
         /\ offset' = (offset + Len(bytes)) % BlockSize
         /\ written' = Append(written, [id |-> r.id, size |-> size, at |-> at,
                                        end |-> Len(file) + Len(bytes), cut |-> FALSE])
  /\ damage' = damage \cup torn /\ torn' = {} /\ UNCHANGED <<cuts, flips>>

(* A crash leaves a prefix of the file; Writer(dest, dest_length) goes on   *)
(* after it, as reuse_logs has it.                                          *)
CutAndReuse(n) ==
  /\ cuts < Cuts /\ cuts' = cuts + 1 /\ n < Len(file)
  /\ file' = SubSeq(file, 1, n) /\ offset' = n % BlockSize
  /\ written' = [i \in DOMAIN written |-> [written[i] EXCEPT !.cut = @ \/ written[i].end > n]]
  /\ torn' = {m \in {n - 1} : \E i \in DOMAIN written : written[i].at < n /\ n < written[i].end}
  /\ UNCHANGED <<damage, flips>>

(* One byte changes on disk.                                                *)
Flip(n, v) ==
  /\ flips < Flips /\ flips' = flips + 1 /\ n <= Len(file) /\ file[n] # Byte(v)
  /\ file' = [file EXCEPT ![n] = Byte(v)] /\ damage' = damage \cup {n - 1}
  /\ UNCHANGED <<offset, written, torn, cuts>>

-----------------------------------------------------------------------------
(* log::Reader.  Its buffer is the part of the file from at to end.         *)
Number(b) == IF b[1] = "n" THEN b[2] ELSE Garbage

(* Mutant: reading starts at the first block after the offset.              *)
InitialBlock_After(initial) ==
  IF initial % BlockSize > 0 THEN ((initial \div BlockSize) + 1) * BlockSize ELSE initial

(* SkipToInitialBlock                                                       *)
InitialBlock(initial) ==
  LET inBlock == initial % BlockSize
  IN  IF inBlock > BlockSize - 6 THEN initial - inBlock + BlockSize ELSE initial - inBlock

Reader(initial) ==
  LET start == InitialBlock(initial)
  IN  [at |-> start, end |-> start, eof |-> FALSE, resyncing |-> initial > 0,
       inFragment |-> FALSE, scratch |-> <<>>, prospective |-> 0,
       out |-> <<>>, reported |-> FALSE, done |-> FALSE]

(* ReportDrop: what is below the initial offset is not reported.            *)
Report(rd, bytes, initial) ==
  [rd EXCEPT !.reported = @ \/ rd.at >= bytes + initial]

(* ReadPhysicalRecord reads another block.                                  *)
Fill(rd) ==
  LET n == IF rd.end >= Len(file) THEN 0 ELSE Min({BlockSize, Len(file) - rd.end})
  IN  [rd EXCEPT !.at = rd.end, !.end = @ + n, !.eof = n < BlockSize]

DropBuffer(rd) == [rd EXCEPT !.at = rd.end]

Result(type, data, rd) == [type |-> type, data |-> data, rd |-> rd]

(* A record that reaches beyond the buffer: at the end of the file its      *)
(* writer died, and that is no corruption.                                  *)
TooLong(rd, initial) ==
  IF rd.eof THEN Result(Eof, <<>>, DropBuffer(rd))
  ELSE Result(BadRecord, <<>>, Report(DropBuffer(rd), rd.end - rd.at, initial))

(* Mutant: the checksum covers the payload and not the type.                *)
ChecksumHolds_Payload(at, type, data) ==
  \E t \in 0..255 : SubSeq(file, at + 1, at + 4) = Crc(t, data)

ChecksumHolds(at, type, data) == SubSeq(file, at + 1, at + 4) = Crc(type, data)

PhysicalRecord(rd, initial) ==
  LET length == Number(file[rd.at + 5]) + 256 * Number(file[rd.at + 6])
      type == Number(file[rd.at + 7])
      next == rd.at + kHeaderSize + length
      data == SubSeq(file, rd.at + kHeaderSize + 1, next)
  IN  IF next > rd.end THEN TooLong(rd, initial)
      ELSE IF type = 0 /\ length = 0 THEN Result(BadRecord, <<>>, DropBuffer(rd))
      ELSE IF ~ChecksumHolds(rd.at, type, data)
      THEN Result(BadRecord, <<>>, Report(DropBuffer(rd), rd.end - rd.at, initial))
      ELSE IF rd.at < initial THEN Result(BadRecord, <<>>, [rd EXCEPT !.at = next])
      ELSE Result(type, data, [rd EXCEPT !.at = next])

(* The switch of ReadRecord: what one physical record does to the record    *)
(* being put together.                                                      *)
Return(rd, data, at) ==
  [rd EXCEPT !.out = Append(@, [data |-> data, at |-> at]), !.inFragment = FALSE, !.scratch = <<>>]
EndScratch(rd, initial) ==
  IF rd.inFragment /\ rd.scratch # <<>> THEN Report(rd, Len(rd.scratch), initial) ELSE rd
NoScratch(rd) == [rd EXCEPT !.inFragment = FALSE, !.scratch = <<>>]

Switch(type, data, rd, initial) ==
  LET physical == rd.at - kHeaderSize - Len(data)
  IN  CASE type = Full -> Return(EndScratch(rd, initial), data, physical)
        [] type = First -> [EndScratch(rd, initial) EXCEPT !.prospective = physical,
                              !.scratch = data, !.inFragment = TRUE]
        [] type = Middle -> IF rd.inFragment THEN [rd EXCEPT !.scratch = @ \o data]
                            ELSE Report(rd, Len(data), initial)
        [] type = LastType -> IF rd.inFragment THEN Return(rd, rd.scratch \o data, rd.prospective)
                              ELSE Report(rd, Len(data), initial)
        [] type = Eof -> [NoScratch(rd) EXCEPT !.done = TRUE]
        [] type = BadRecord -> IF rd.inFragment THEN NoScratch(Report(rd, Len(rd.scratch), initial))
                               ELSE rd
        [] OTHER -> NoScratch(Report(rd, Len(data) + Len(rd.scratch), initial))

Step(rd, initial) ==
  IF rd.end - rd.at < kHeaderSize
  THEN IF rd.eof THEN [NoScratch(rd) EXCEPT !.done = TRUE] ELSE Fill(rd)
  ELSE LET p == PhysicalRecord(rd, initial)
           after == [p.rd EXCEPT !.resyncing = rd.resyncing /\ p.type = Middle]
       IN  IF rd.resyncing /\ p.type \in {Middle, LastType} THEN after
           ELSE Switch(p.type, p.data, after, initial)

(* Every turn of the loop takes a header or more from the buffer, or fills  *)
(* the buffer, which it does once at the end of the file.                   *)
Turns == Len(file) \div kHeaderSize + Len(file) \div BlockSize + 4
Read(initial) ==
  LET rd[n \in 0..Turns] ==
        IF n = 0 THEN Reader(initial)
        ELSE LET r == rd[n - 1] IN IF r.done THEN r ELSE Step(r, initial)
  IN  rd[Turns]

-----------------------------------------------------------------------------
Init ==
  /\ file = <<>> /\ offset = 0 /\ written = <<>> /\ torn = {} /\ damage = {} /\ cuts = 0 /\ flips = 0

Next ==
  \/ \E size \in Sizes : AddRecord(size)
  \/ \E n \in 0..Len(file) : CutAndReuse(n)
  \/ \E n \in 1..Len(file), v \in {0, 1, 255} : Flip(n, v)

Spec == Init /\ [][Next]_vars

-----------------------------------------------------------------------------
Entry(r) == [data |-> Payload(r), at |-> r.at]
Kept == SelectSeq(written, LAMBDA r : ~r.cut)

TypeOK ==
  /\ offset \in 0..(BlockSize - 1) /\ offset = Len(file) % BlockSize
  /\ \A n \in DOMAIN file : file[n][1] \in {"n", "crc", "p"}

(* A file that was cut off anywhere, and only there, gives the records that *)
(* are whole in it, with their offsets, and no corruption is reported.      *)
ReadsBack ==
  damage = {} => /\ Read(0).out = [i \in DOMAIN Kept |-> Entry(Kept[i])]
                 /\ ~Read(0).reported

(* "The Reader will start reading at the first record located at physical   *)
(* position >= initial_offset" (log_reader.h).                              *)
ReadsFrom ==
  damage = {} =>
    \A o \in 1..Len(file) :
      LET from == SelectSeq(Kept, LAMBDA r : r.at >= o)
      IN  Read(o).out = [i \in DOMAIN from |-> Entry(from[i])]

(* Whatever was damaged, nothing is returned that was not written, and in   *)
(* no other order.                                                          *)
NeverInvents ==
  LET out == Read(0).out
  IN  \E f \in [DOMAIN out -> DOMAIN written] :
        /\ \A i, j \in DOMAIN out : i < j => f[i] < f[j]
        /\ \A i \in DOMAIN out : out[i].data = Payload(written[f[i]])

(* Damage costs the records of its block and no others.                     *)
DamageIsLocal ==
  LET blocks == {d \div BlockSize : d \in damage}
      Spared(r) == ~r.cut /\ ((r.at \div BlockSize)..((r.end - 1) \div BlockSize)) \cap blocks = {}
  IN  \A i \in DOMAIN written : Spared(written[i]) => Entry(written[i]) \in ToSet(Read(0).out)

=============================================================================
