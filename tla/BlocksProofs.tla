---------------------------- MODULE BlocksProofs ----------------------------
(* For any number of things and of ranks: the blocks of mfu_get_start_count  *)
(* follow one another and make up all things, map_spread and                 *)
(* map_chunk_to_rank name a rank that exists, and both ways of dividing      *)
(* agree on which rank a thing belongs to.                                   *)
EXTENDS Blocks, FiniteSetTheorems, WellFoundedInduction, TLAPS

\* Every set of numbers has a least one.
LEMMA LeastNumber ==
    ASSUME NEW T \in SUBSET Nat, T # {}
    PROVE  \E x \in T : \A y \in T : x <= y
<1>1. PICK x \in T : \A y \in T : <<y, x>> \notin OpToRel(<, Nat)
  BY WFMin, NatLessThanWellFounded
<1>2. \A y \in T : ~(y < x)
  BY <1>1, Zenon DEF OpToRel
<1> QED
  BY <1>2

\* A part of a finite set is smaller.
LEMMA Smaller ==
    ASSUME NEW S, IsFiniteSet(S), NEW T \in SUBSET S, NEW x \in S, x \notin T
    PROVE  IsFiniteSet(T) /\ Cardinality(T) \in Nat /\ Cardinality(T) < Cardinality(S)
<1>1. /\ IsFiniteSet(T) /\ Cardinality(T) \in Nat /\ Cardinality(S) \in Nat
      /\ Cardinality(T) <= Cardinality(S) /\ Cardinality(S) # Cardinality(T)
  BY FS_Subset, FS_CardinalityType, Zenon
<1> QED
  BY <1>1

\* A finite set of numbers has a greatest one.
LEMMA GreatestNumber ==
    ASSUME NEW T \in SUBSET Nat, T # {}, IsFiniteSet(T)
    PROVE  \E x \in T : \A y \in T : y <= x
<1> DEFINE Over(x) == {y \in T : x < y}
           Counts0 == {Cardinality(Over(x)) : x \in T}
<1>1. Counts0 \in SUBSET Nat /\ Counts0 # {}
  <2>1. \A x \in T : Cardinality(Over(x)) \in Nat
    BY FS_Subset, FS_CardinalityType
  <2> QED
    BY <2>1
<1>2. PICK x \in T : \A y \in T : Cardinality(Over(x)) <= Cardinality(Over(y))
  <2>1. PICK c \in Counts0 : \A e \in Counts0 : c <= e
    <3> HIDE DEF Counts0
    <3> QED
      BY <1>1, LeastNumber
  <2> HIDE DEF Over
  <2> QED
    BY <2>1
<1>3. ASSUME NEW y \in T, x < y
      PROVE  FALSE
  <2>0. \A z \in T : z \in Nat
    OBVIOUS
  <2>1. Over(y) \in SUBSET Over(x) /\ y \in Over(x) /\ y \notin Over(y)
    <3>1. x \in Nat /\ y \in Nat
      BY <2>0
    <3>2. \A z \in T : y < z => x < z
      BY <1>3, <2>0, <3>1
    <3>3. ~(y < y)
      BY <3>1
    <3> QED
      BY <1>3, <3>2, <3>3, Zenon
  <2>2. IsFiniteSet(Over(x)) /\ IsFiniteSet(Over(y))
    BY FS_Subset
  <2>3. Cardinality(Over(y)) < Cardinality(Over(x)) /\ Cardinality(Over(y)) \in Nat
        /\ Cardinality(Over(x)) \in Nat
    <3> HIDE DEF Over
    <3> QED
      BY <2>1, <2>2, Smaller, FS_CardinalityType
  <2> QED
    BY <1>2, <2>3
<1> QED
  BY <1>3

\* What a function has for the members of a finite set is finite.
LEMMA FiniteImage ==
    ASSUME NEW S, IsFiniteSet(S), NEW f, DOMAIN f = S
    PROVE  IsFiniteSet({f[x] : x \in S})
<1> DEFINE T == {f[x] : x \in S}
           g == [x \in S |-> f[x]]
<1>1. g \in Surjection(S, T)
  BY DEF Surjection
<1> QED
  BY <1>1, FS_Surjection

LEMMA Division ==
  ASSUME NEW a \in Nat, NEW b \in Nat \ {0}
  PROVE  /\ a \div b \in Nat
         /\ (a \div b) * b <= a
         /\ a < (a \div b) * b + b
  OBVIOUS

LEMMA Quotient ==
  ASSUME NEW a \in Nat, NEW b \in Nat \ {0}, NEW q \in Nat,
         q * b <= a, a < q * b + b
  PROVE  a \div b = q
  OBVIOUS

LEMMA Product ==
  ASSUME NEW a \in Nat, NEW b \in Nat, NEW c \in Nat, a <= b
  PROVE  a * c \in Nat /\ b * c \in Nat /\ a * c <= b * c
  OBVIOUS

LEMMA Strict ==
  ASSUME NEW a \in Nat, NEW b \in Nat, NEW c \in Nat, a * c < b * c
  PROVE  a < b
  BY Product

LEMMA Sizes ==
  ASSUME NEW size \in Nat, NEW ranks \in Nat \ {0}
  PROVE  /\ PerRank(size, ranks) \in Nat
         /\ Remainder(size, ranks) \in Nat
         /\ Remainder(size, ranks) < ranks
         /\ size = PerRank(size, ranks) * ranks + Remainder(size, ranks)
  BY Division DEF PerRank, Remainder

\* The blocks of mfu_get_start_count start at 0, follow one another, and end with the last
\* thing; no rank has two things more than another.
THEOREM BlocksFollow ==
  ASSUME NEW size \in Nat, NEW ranks \in Nat \ {0}
  PROVE  /\ BlockStart(0, size, ranks) = 0
         /\ \A r \in 0 .. ranks - 1 :
              BlockStart(r + 1, size, ranks)
                = BlockStart(r, size, ranks) + BlockCount(r, size, ranks)
         /\ BlockStart(ranks, size, ranks) = size
         /\ \A r, s \in 0 .. ranks - 1 :
              BlockCount(r, size, ranks) <= BlockCount(s, size, ranks) + 1
<1> DEFINE per == PerRank(size, ranks)
           rem == Remainder(size, ranks)
<1>1. per \in Nat /\ rem \in Nat /\ rem < ranks /\ size = per * ranks + rem
  BY Sizes
<1>2. \A r \in 0 .. ranks :
        /\ BlockCount(r, size, ranks) = IF r < rem THEN per + 1 ELSE per
        /\ BlockStart(r, size, ranks) = IF r < rem THEN r * (per + 1)
                                        ELSE rem * (per + 1) + (r - rem) * per
  BY <1>1 DEF BlockCount, BlockStart
<1> HIDE DEF per, rem
<1>3. BlockStart(0, size, ranks) = 0
  BY <1>1, <1>2
<1>4. ASSUME NEW r \in 0 .. ranks - 1
      PROVE  BlockStart(r + 1, size, ranks) = BlockStart(r, size, ranks) + BlockCount(r, size, ranks)
  <2>1. CASE r + 1 < rem
    BY <1>1, <1>2, <2>1
  <2>2. CASE r + 1 = rem
    BY <1>1, <1>2, <2>2
  <2>3. CASE r >= rem
    BY <1>1, <1>2, <2>3
  <2> QED BY <1>1, <2>1, <2>2, <2>3
<1>5. BlockStart(ranks, size, ranks) = size
  BY <1>1, <1>2
<1>6. \A r, s \in 0 .. ranks - 1 : BlockCount(r, size, ranks) <= BlockCount(s, size, ranks) + 1
  BY <1>1, <1>2
<1> QED BY <1>3, <1>4, <1>5, <1>6

\* The rank that map_spread names for an item, and map_chunk_to_rank for a chunk, exists and
\* has the item in its block, even if there are fewer items than ranks.
THEOREM SpreadIntoBlocks ==
  ASSUME NEW size \in Nat, NEW ranks \in Nat \ {0}, NEW idx \in 0 .. size - 1
  PROVE  LET rank == MapSpread(idx, size, ranks)
         IN  /\ rank \in 0 .. ranks - 1
             /\ BlockStart(rank, size, ranks) <= idx
             /\ idx < BlockStart(rank, size, ranks) + BlockCount(rank, size, ranks)
<1> DEFINE per == PerRank(size, ranks)
           rem == Remainder(size, ranks)
           covered == rem * (per + 1)
           rank == MapSpread(idx, size, ranks)
<1>1. per \in Nat /\ rem \in Nat /\ rem < ranks /\ size = per * ranks + rem
  BY Sizes
<1>2. \A r \in 0 .. ranks :
        /\ BlockCount(r, size, ranks) = IF r < rem THEN per + 1 ELSE per
        /\ BlockStart(r, size, ranks) = IF r < rem THEN r * (per + 1)
                                        ELSE rem * (per + 1) + (r - rem) * per
  BY <1>1 DEF BlockCount, BlockStart
<1>3. rank = IF idx < covered THEN idx \div (per + 1) ELSE rem + (idx - covered) \div per
  BY DEF MapSpread, MapChunkToRank
<1>4. covered \in Nat
  BY <1>1
<1> HIDE DEF per, rem, covered, rank
<1>5. CASE idx < covered
  <2>1. rank \in Nat /\ rank * (per + 1) <= idx /\ idx < rank * (per + 1) + (per + 1)
    <3>1. idx \in Nat /\ per + 1 \in Nat \ {0} /\ rank = idx \div (per + 1)
      BY <1>1, <1>3, <1>5
    <3> QED BY ONLY <3>1, Division
  <2>2. rank < rem
    <3>1. rank * (per + 1) < rem * (per + 1)
      BY <1>1, <1>5, <2>1 DEF covered
    <3> QED BY <1>1, <2>1, <3>1, Strict
  <2> QED BY <1>1, <1>2, <2>1, <2>2 DEF rank
<1>6. CASE ~(idx < covered)
  <2>1. /\ idx - covered \in Nat
        /\ covered + per * (ranks - rem) = size
        /\ idx - covered < per * (ranks - rem)
    <3>1. rem * (per + 1) + per * (ranks - rem) = per * ranks + rem
      BY <1>1
    <3>2. covered + per * (ranks - rem) = size
      BY <1>1, <3>1 DEF covered
    <3>3. per * (ranks - rem) \in Int
      BY <1>1
    <3> QED BY <1>4, <1>6, <3>2, <3>3
  <2>2. per # 0
    BY <1>1, <2>1
  <2> DEFINE q == (idx - covered) \div per
  <2>3. q \in Nat /\ q * per <= idx - covered /\ idx - covered < q * per + per
    BY <1>1, <2>1, <2>2, Division
  <2>4. rank = rem + q
    BY <1>3, <1>6
  <2> HIDE DEF q
  <2>5. q < ranks - rem
    <3>1. q * per < (ranks - rem) * per /\ ranks - rem \in Nat
      BY <1>1, <2>1, <2>3
    <3> QED BY <1>1, <2>3, <3>1, Strict
  <2>6. rank \in 0 .. ranks - 1 /\ ~(rank < rem) /\ rank - rem = q
    BY <1>1, <2>3, <2>4, <2>5
  <2>7. /\ BlockStart(rank, size, ranks) = covered + q * per
        /\ BlockCount(rank, size, ranks) = per
    BY <1>1, <1>2, <2>6 DEF covered
  <2>8. q * per \in Nat
    BY <1>1, <2>3
  <2>9. covered + q * per <= idx /\ idx < covered + q * per + per
    BY <1>1, <1>4, <2>3, <2>8
  <2> QED BY <2>6, <2>7, <2>9 DEF rank
<1> QED BY <1>5, <1>6

\* A block ends where a later one starts, or before.
LEMMA BlocksApart ==
  ASSUME NEW size \in Nat, NEW ranks \in Nat \ {0}
  PROVE  /\ \A k, l \in 0 .. ranks - 1 :
              k < l => BlockStart(k, size, ranks) + BlockCount(k, size, ranks)
                         <= BlockStart(l, size, ranks)
         /\ \A k \in 0 .. ranks - 1 :
              BlockStart(k, size, ranks) \in Int /\ BlockCount(k, size, ranks) \in Int
<1> DEFINE start(k) == BlockStart(k, size, ranks)
           end(k) == start(k) + BlockCount(k, size, ranks)
<1>1. \A k, l \in 0 .. ranks - 1 : k < l => end(k) <= start(l)
  <2> DEFINE per == PerRank(size, ranks)
             rem == Remainder(size, ranks)
  <2>1. per \in Nat /\ rem \in Nat /\ rem < ranks
    BY Sizes
  <2>2. \A k \in 0 .. ranks :
          /\ BlockCount(k, size, ranks) = IF k < rem THEN per + 1 ELSE per
          /\ start(k) = IF k < rem THEN k * (per + 1) ELSE rem * (per + 1) + (k - rem) * per
    BY <2>1 DEF BlockCount, BlockStart
  <2> HIDE DEF per, rem, start
  <2> SUFFICES ASSUME NEW k \in 0 .. ranks - 1, NEW l \in 0 .. ranks - 1, k < l
               PROVE  end(k) <= start(l)
    OBVIOUS
  <2>3. CASE l < rem
    <3>1. end(k) = (k + 1) * (per + 1) /\ start(l) = l * (per + 1)
      BY <2>1, <2>2, <2>3
    <3>2. (k + 1) * (per + 1) <= l * (per + 1)
      BY <2>1, Product
    <3> QED BY <3>1, <3>2
  <2>4. CASE k < rem /\ rem <= l
    <3>1. end(k) = (k + 1) * (per + 1) /\ start(l) = rem * (per + 1) + (l - rem) * per
      BY <2>1, <2>2, <2>4
    <3>2. (k + 1) * (per + 1) <= rem * (per + 1)
      BY <2>1, <2>4, Product
    <3>3. (l - rem) * per \in Nat /\ rem * (per + 1) \in Nat /\ (k + 1) * (per + 1) \in Nat
      BY <2>1, <2>4
    <3> QED BY <3>1, <3>2, <3>3
  <2>5. CASE rem <= k
    <3>1. end(k) = rem * (per + 1) + (k + 1 - rem) * per
      BY <2>1, <2>2, <2>5
    <3>2. start(l) = rem * (per + 1) + (l - rem) * per
      BY <2>1, <2>2, <2>5
    <3>3. /\ (k + 1 - rem) * per <= (l - rem) * per
          /\ (k + 1 - rem) * per \in Nat /\ (l - rem) * per \in Nat
      BY <2>1, <2>5, Product
    <3>4. rem * (per + 1) \in Nat
      BY <2>1
    <3> QED BY <3>1, <3>2, <3>3, <3>4
  <2> QED BY <2>1, <2>3, <2>4, <2>5
<1>2. \A k \in 0 .. ranks - 1 : start(k) \in Int /\ BlockCount(k, size, ranks) \in Int
  <2>1. PerRank(size, ranks) \in Nat /\ Remainder(size, ranks) \in Nat
    BY Sizes
  <2> SUFFICES ASSUME NEW k \in 0 .. ranks - 1 PROVE start(k) \in Int /\ BlockCount(k, size, ranks) \in Int
    OBVIOUS
  <2>2. BlockCount(k, size, ranks) \in Int
    BY <2>1 DEF BlockCount
  <2>3. start(k) \in Int
    BY <2>1, <2>2 DEF BlockStart
  <2> QED BY <2>2, <2>3
<1> QED BY <1>1, <1>2

\* A later item is not spread to an earlier rank.
THEOREM SpreadInOrder ==
  ASSUME NEW size \in Nat, NEW ranks \in Nat \ {0},
         NEW i \in 0 .. size - 1, NEW j \in 0 .. size - 1, i <= j
  PROVE  MapSpread(i, size, ranks) <= MapSpread(j, size, ranks)
<1> DEFINE q == MapSpread(i, size, ranks)
           r == MapSpread(j, size, ranks)
<1>1. /\ q \in 0 .. ranks - 1 /\ r \in 0 .. ranks - 1
      /\ BlockStart(q, size, ranks) <= i
      /\ j < BlockStart(r, size, ranks) + BlockCount(r, size, ranks)
  BY SpreadIntoBlocks
<1> HIDE DEF q, r
<1>2. /\ r < q => BlockStart(r, size, ranks) + BlockCount(r, size, ranks)
                    <= BlockStart(q, size, ranks)
      /\ BlockStart(q, size, ranks) \in Int /\ BlockStart(r, size, ranks) \in Int
      /\ BlockCount(r, size, ranks) \in Int
  BY <1>1, BlocksApart
<1>3. ~(r < q)
  BY <1>1, <1>2
<1> QED BY <1>1, <1>3 DEF q, r

\* The two ways of dividing are inverse: an item is in the block of a rank exactly if it is
\* spread to that rank.
THEOREM BlocksAgree ==
  ASSUME NEW size \in Nat, NEW ranks \in Nat \ {0}, NEW idx \in 0 .. size - 1,
         NEW r \in 0 .. ranks - 1
  PROVE  MapSpread(idx, size, ranks) = r
           <=> /\ BlockStart(r, size, ranks) <= idx
               /\ idx < BlockStart(r, size, ranks) + BlockCount(r, size, ranks)
<1> DEFINE rank == MapSpread(idx, size, ranks)
           start(k) == BlockStart(k, size, ranks)
           end(k) == start(k) + BlockCount(k, size, ranks)
<1>1. rank \in 0 .. ranks - 1 /\ start(rank) <= idx /\ idx < end(rank)
  BY SpreadIntoBlocks
<1>2. \A k, l \in 0 .. ranks - 1 : k < l => end(k) <= start(l)
  BY BlocksApart
<1>3. \A k \in 0 .. ranks - 1 : start(k) \in Int /\ end(k) \in Int
  BY BlocksApart
<1> HIDE DEF start, end, rank
<1>4. ASSUME start(r) <= idx, idx < end(r) PROVE rank = r
  BY <1>1, <1>2, <1>3, <1>4
<1>5. rank = r <=> start(r) <= idx /\ idx < end(r)
  BY <1>1, <1>4
<1> QED BY <1>5 DEF rank, start, end
=============================================================================
