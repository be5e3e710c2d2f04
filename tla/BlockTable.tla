----------------------------- MODULE BlockTable -----------------------------
(***************************************************************************)
(* The KV block allocator of the paged engine                              *)
(* (crates/ai-engine-candle/src/paged/block_table.rs).                     *)
(*                                                                         *)
(* The pool has NumBlocks physical blocks of BlockSize token slots each.   *)
(* `free` is a stack kept in a Vec: blocks are popped from its end and     *)
(* released blocks are appended to it.  A block table is the ordered list  *)
(* of the blocks of one sequence.  The operators below return the values   *)
(* that the methods leave in `self.free` and in `table.blocks`.            *)
(***************************************************************************)
EXTENDS Integers, Sequences

CONSTANTS NumBlocks,   \* cfg.kv_cache_blocks
          BlockSize    \* cfg.block_size

ASSUME PoolAssumption == /\ NumBlocks \in Nat
                         /\ BlockSize \in Nat \ {0}

Blocks == 0 .. (NumBlocks - 1)
Slots  == 0 .. (BlockSize - 1)
Cells  == Blocks \X Slots     \* one token slot of a layer's K/V pool

\* Mutant of new: ids 1 .. NumBlocks instead of 0 .. NumBlocks - 1.
new_off_by_one == [i \in 1 .. NumBlocks |-> NumBlocks - i + 1]

\* BlockAllocator::new: the ids in descending order, so that 0 is popped first.
new == [i \in 1 .. NumBlocks |-> NumBlocks - i]

\* div_ceil(n_tokens, block_size)
blocks_for(n) == (n + BlockSize - 1) \div BlockSize

\* How many blocks a table must still pop to hold n tokens.
Extra(table, n) == IF blocks_for(n) <= Len(table) THEN 0
                   ELSE blocks_for(n) - Len(table)

\* ensure_capacity is Ok(()) exactly when the free list covers the need.
Fits(free, table, n) == Extra(table, n) <= Len(free)

\* What a successful ensure_capacity leaves in table.blocks and in free: the
\* needed blocks popped one by one from the end of free.
Grown(free, table, n) ==
  [i \in 1 .. (Len(table) + Extra(table, n)) |->
     IF i <= Len(table) THEN table[i] ELSE free[Len(free) + 1 - (i - Len(table))]]

\* Mutant of Popped: the blocks are read but not popped.
Popped_peek(free, table, n) == free

Popped(free, table, n) == [i \in 1 .. (Len(free) - Extra(table, n)) |-> free[i]]

\* release appends the whole table to free and clears it.
Released(free, table) ==
  [i \in 1 .. (Len(free) + Len(table)) |->
     IF i <= Len(free) THEN free[i] ELSE table[i - Len(free)]]

\* The physical slot of a sequence-local position.  Indexing past the table
\* panics in the code; InBounds is the condition under which it does not.
InBounds(table, pos) == pos \div BlockSize < Len(table)
locate(table, pos)   == << table[(pos \div BlockSize) + 1], pos % BlockSize >>
=============================================================================
