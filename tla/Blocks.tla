------------------------------- MODULE Blocks -------------------------------
(* How a number of things is divided evenly among ranks, by blocks: the      *)
(* first remainder ranks hold one thing more than the others.  The code has  *)
(* the arithmetic three times, twice from an index to its rank and once from *)
(* a rank to its block.                                                      *)
EXTENDS Integers

\* Each rank's share, and how many ranks hold one thing more.
PerRank(size, ranks) == size \div ranks
Remainder(size, ranks) == size - PerRank(size, ranks) * ranks

\* map_chunk_to_rank: the rank of the chunk at offset.
MapChunkToRank(offset, cutoff, per) ==
    LET covered == cutoff * (per + 1)
    IN  IF offset < covered THEN offset \div (per + 1)
        ELSE cutoff + (offset - covered) \div per

\* map_spread: the rank of item idx of a list of size items.
MapSpread(idx, size, ranks) ==
    MapChunkToRank(idx, Remainder(size, ranks), PerRank(size, ranks))

\* mfu_get_start_count: the block of a rank.
BlockCount(rank, size, ranks) ==
    PerRank(size, ranks) + IF rank < Remainder(size, ranks) THEN 1 ELSE 0
BlockStart(rank, size, ranks) ==
    LET rem == Remainder(size, ranks)
        count == BlockCount(rank, size, ranks)
    IN  IF rank < rem THEN rank * count ELSE rem * (count + 1) + (rank - rem) * count
=============================================================================
