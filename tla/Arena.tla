--------------------------------- MODULE Arena ---------------------------------
(* The memory of a memtable (util/arena.h, arena.cc): bytes handed out from *)
(* the last of its blocks, or from a block of their own. A reader of the    *)
(* memory usage takes no lock.                                              *)
EXTENDS Integers, Sequences, FiniteSets, FiniteSetsExt

CONSTANTS BlockSize,   \* kBlockSize
          Align,       \* of a pointer
          PointerSize,
          Sizes,       \* what is asked for
          MaxChunks    \* bound

ArenaAssumption == /\ BlockSize \in Nat /\ Align \in Nat \ {0} /\ Sizes \subseteq Nat \ {0}
                          /\ BlockSize % Align = 0

VARIABLES blocks,   \* the sizes of the blocks: new[] aligns each
          ptr,      \* alloc_ptr_: the block and the offset in it
          left,     \* alloc_bytes_remaining_
          usage,    \* memory_usage_
          chunks    \* what has been handed out

vars == <<blocks, ptr, left, usage, chunks>>

Init == blocks = <<>> /\ ptr = [block |-> 0, at |-> 0] /\ left = 0 /\ usage = 0 /\ chunks = <<>>

Take(block, at, size, aligned) ==
  chunks' = Append(chunks, [block |-> block, at |-> at, size |-> size, aligned |-> aligned])

NewBlock(size) == blocks' = Append(blocks, size) /\ usage' = usage + size + PointerSize

(* More than a quarter of a block is allocated by itself.                   *)
Fallback(size, aligned) ==
  LET b == Len(blocks) + 1
  IN  IF size > BlockSize \div 4
      THEN NewBlock(size) /\ Take(b, 0, size, aligned) /\ UNCHANGED <<ptr, left>>
      ELSE /\ NewBlock(BlockSize) /\ Take(b, 0, size, aligned)
           /\ ptr' = [block |-> b, at |-> size] /\ left' = BlockSize - size

FromBlock(slop, size, aligned) ==
  /\ Take(ptr.block, ptr.at + slop, size, aligned)
  /\ ptr' = [ptr EXCEPT !.at = @ + slop + size] /\ left' = left - slop - size
  /\ UNCHANGED <<blocks, usage>>

Allocate(size) == IF size <= left THEN FromBlock(0, size, FALSE) ELSE Fallback(size, FALSE)
Slop == IF ptr.at % Align = 0 THEN 0 ELSE Align - (ptr.at % Align)
AllocateAligned(size) ==
  IF size + Slop <= left THEN FromBlock(Slop, size, TRUE) ELSE Fallback(size, TRUE)

Next == Len(chunks) < MaxChunks /\ \E size \in Sizes : Allocate(size) \/ AllocateAligned(size)
Spec == Init /\ [][Next]_vars

-----------------------------------------------------------------------------
(* arena.h:21-25: what is handed out lies in a block, is nobody else's, and *)
(* is aligned where that was asked for.                                     *)
Disjoint ==
  /\ \A i \in DOMAIN chunks : LET c == chunks[i] IN
       /\ c.at + c.size <= blocks[c.block]
       /\ c.aligned => c.at % Align = 0
       /\ \A j \in 1..(i - 1) : chunks[j].block = c.block =>
            chunks[j].at + chunks[j].size <= c.at \/ c.at + c.size <= chunks[j].at

(* memory_usage_, by which the database decides that a memtable is full, is *)
(* what was allocated for it, and no less than what was handed out.         *)
UsageCovers ==
  /\ usage = FoldSet(LAMBDA i, sum : sum + blocks[i] + PointerSize, 0, DOMAIN blocks)
  /\ usage >= FoldSet(LAMBDA i, sum : sum + chunks[i].size, 0, DOMAIN chunks)
=============================================================================
