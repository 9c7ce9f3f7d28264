------------------------------- MODULE Chunks -------------------------------
(* mfu_file_chunk_list_alloc cuts the files of a distributed list into chunks *)
(* and gives each rank a block of consecutive chunks of the whole list;       *)
(* mfu_file_chunk_list_lor brings a flag per section back to the owner of its *)
(* file.  A part of a list is the sequence of items of each rank; the items   *)
(* in the domain of size are regular files.                                   *)
EXTENDS Blocks, FiniteSets, Sequences

CONSTANTS
    N,          \* number of ranks
    ChunkSize   \* chunk_size, in units

ASSUME ChunksAssumption == N \in Nat \ {0} /\ ChunkSize \in Nat \ {0}

Ranks == 0 .. N - 1
AtMost(a, b) == IF a < b THEN a ELSE b

\* A place is a rank and an index of its part; the parts follow each other.
Precedes(x, y) == x[1] < y[1] \/ (x[1] = y[1] /\ x[2] < y[2])
ItemAt(part, x) == part[x[1]][x[2]]
Places(part) == UNION {{<<r, k>> : k \in 1 .. Len(part[r])} : r \in Ranks}
FilePlaces(part, size) == {x \in Places(part) : ItemAt(part, x) \in DOMAIN size}
SizeAt(part, size, x) == size[ItemAt(part, x)]

\* A partial chunk counts, and an empty file has one chunk.
FullChunks(n) == n \div ChunkSize    \* mutant
ChunksOf(n) == IF n = 0 \/ n % ChunkSize # 0 THEN n \div ChunkSize + 1 ELSE n \div ChunkSize

\* All chunks of the list, and those before a chunk: MPI_Allreduce and MPI_Exscan,
\* then current_offset.
AllChunks(part, size) ==
    UNION {{<<x, c>> : c \in 0 .. ChunksOf(SizeAt(part, size, x)) - 1} : x \in FilePlaces(part, size)}
ChunksBefore(x, c, part, size) ==
    {d \in AllChunks(part, size) : Precedes(d[1], x) \/ (d[1] = x /\ d[2] < c)}

\* The chunks of the file at x that a rank gets.
ChunksFor(r, x, part, size) ==
    LET total == Cardinality(AllChunks(part, size))
    IN  {c \in 0 .. ChunksOf(SizeAt(part, size, x)) - 1 :
            MapSpread(Cardinality(ChunksBefore(x, c, part, size)), total, N) = r}

\* The section that a rank gets of a file: consecutive chunks, and it ends with the file
\* if the last chunk is partial.
First(chunks) == CHOOSE c \in chunks : \A d \in chunks : c <= d
SectionFor(r, x, part, size) ==
    LET n == SizeAt(part, size, x)
        chunks == ChunksFor(r, x, part, size)
        offset == First(chunks) * ChunkSize
    IN  [file |-> ItemAt(part, x), owner |-> x[1], index |-> x[2], size |-> n,
         offset |-> offset, length |-> AtMost(Cardinality(chunks) * ChunkSize, n - offset)]

\* A rank receives its sections in the order of their files.
PlacesFor(r, part, size) == {x \in FilePlaces(part, size) : ChunksFor(r, x, part, size) # {}}
Nth(X, k) == CHOOSE x \in X : Cardinality({y \in X : Precedes(y, x)}) = k - 1
ChunkList(r, part, size) ==
    LET X == PlacesFor(r, part, size)
    IN  [k \in 1 .. Cardinality(X) |-> SectionFor(r, Nth(X, k), part, size)]

LastOf(s) == s.offset + s.length >= s.size

\* DTCMP_Segmented_scanv_ltr over the sections of all ranks: the or of the flags of a
\* section and of those of the same file right before it.
UnscannedFlag(heads, vals, s) == ItemAt(vals, s)    \* mutant
Scan(heads, vals, s) ==
    LET between(t) == {u \in Places(heads) : ~Precedes(u, t) /\ ~Precedes(s, u)}
    IN  \E t \in Places(heads) :
            /\ ~Precedes(s, t) /\ ItemAt(vals, t)
            /\ \A u \in between(t) : ItemAt(heads, u).file = ItemAt(heads, s).file

\* The result for each item: that of the last section of the file, or FALSE.
Lor(part, heads, vals) ==
    [r \in Ranks |-> [k \in 1 .. Len(part[r]) |->
        \E s \in Places(heads) :
            LET e == ItemAt(heads, s)
            IN  e.owner = r /\ e.index = k /\ LastOf(e) /\ Scan(heads, vals, s)]]
=============================================================================
