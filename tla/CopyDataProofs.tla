--------------------------- MODULE CopyDataProofs ----------------------------
(* What mfu_file_chunk_list_alloc hands out, what mfu_file_chunk_list_lor    *)
(* brings back, that the ranks which copy sections of one file do not        *)
(* disturb each other, and that a file is copied or reported, for any number *)
(* of ranks, any list and any sizes of files, chunks and buffers.            *)
(*                                                                           *)
(* CopyInv says where a rank is in its section: a buffer stays in it, or     *)
(* goes beyond the end of the file, since O_DIRECT moves whole buffers and a *)
(* section that does not end with its file is made of whole buffers.         *)
(* DataInv says of each section which units are copied; what the ranks do at *)
(* other sections keeps it, because no two sections have a unit in common.   *)
EXTENDS CopyData, BlocksProofs, FiniteSetTheorems, SequenceTheorems, WellFoundedInduction

-----------------------------------------------------------------------------
(* Numbers and sequences                                                     *)

\* A multiple below another is below it by at least one.
LEMMA NextMultiple ==
    ASSUME NEW k \in Nat, NEW m \in Nat, NEW B \in Nat \ {0}, k * B < m * B
    PROVE  k * B + B <= m * B
<1>1. k < m
  <2>1. CASE m <= k
    <3>1. PICK d \in Nat : k = m + d
      <4>1. k - m \in Nat /\ k = m + (k - m)
        BY <2>1
      <4> QED
        BY <4>1
    <3>2. k * B = m * B + d * B /\ d * B \in Nat /\ m * B \in Nat
      BY <3>1
    <3> QED
      BY <3>2
  <2> QED
    BY <2>1
<1>2. PICK d \in Nat : m = k + 1 + d
  <2>1. m - k - 1 \in Nat /\ m = k + 1 + (m - k - 1)
    BY <1>1
  <2> QED
    BY <2>1
<1>3. m * B = k * B + B + d * B /\ d * B \in Nat /\ k * B \in Nat
  BY <1>2
<1> QED
  BY <1>3

LEMMA Divided ==
    ASSUME NEW a \in Nat, NEW b \in Nat \ {0}, a % b = 0
    PROVE  a \div b \in Nat /\ a = (a \div b) * b
OBVIOUS

\* A sequence given by its elements.
LEMMA Sequence ==
    ASSUME NEW n \in Nat, NEW s, s \in [1 .. n -> Int]
    PROVE  s \in Seq(Int) /\ Len(s) = n
<1>1. s \in Seq(Int)
  BY SeqDef
<1>2. Len(s) \in Nat /\ DOMAIN s = 1 .. Len(s)
  BY <1>1, LenProperties
<1> QED
  BY <1>1, <1>2

LEMMA UnitAt ==
    ASSUME NEW s \in Seq(Int), NEW i \in Nat
    PROVE  At(s, i) \in Int
<1>1. Len(s) \in Nat /\ s \in [1 .. Len(s) -> Int]
  BY LenProperties
<1> QED
  BY <1>1 DEF At

\* What is written is there, and changes nothing else (pwrite).
LEMMA WrittenData ==
    ASSUME NEW s \in Seq(Int), NEW o \in Nat, NEW data \in Seq(Int)
    PROVE  /\ Written(s, o, data) \in Seq(Int)
           /\ Len(Written(s, o, data)) =
                 IF data = <<>> THEN Len(s) ELSE Most(Len(s), o + Len(data))
           /\ \A i \in Nat : At(Written(s, o, data), i) =
                 IF o <= i /\ i < o + Len(data) THEN data[i - o + 1] ELSE At(s, i)
<1> DEFINE n == Most(Len(s), o + Len(data))
           w == Written(s, o, data)
<1>1. Len(s) \in Nat /\ Len(data) \in Nat /\ data \in [1 .. Len(data) -> Int]
  BY LenProperties
<1>2. n \in Nat /\ Len(s) <= n /\ o + Len(data) <= n
  BY <1>1 DEF Most
<1>3. CASE data = <<>>
  <2>1. Len(data) = 0
    BY <1>3
  <2> QED
    BY <1>1, <1>3, <2>1 DEF Written
<1>4. CASE data # <<>>
  <2> HIDE DEF n
  <2>1. w = [i \in 1 .. n |-> IF o < i /\ i <= o + Len(data) THEN data[i - o] ELSE At(s, i - 1)]
    BY <1>4 DEF Written, n
  <2> HIDE DEF w
  <2>2. w \in [1 .. n -> Int]
    <3>1. ASSUME NEW i \in 1 .. n
          PROVE  (IF o < i /\ i <= o + Len(data) THEN data[i - o] ELSE At(s, i - 1)) \in Int
      <4>1. At(s, i - 1) \in Int
        BY <1>2, UnitAt
      <4> QED
        BY <1>1, <1>2, <4>1
    <3> QED
      BY <2>1, <3>1
  <2>3. w \in Seq(Int) /\ Len(w) = n
    BY <1>2, <2>2, Sequence
  <2>4. ASSUME NEW i \in Nat
        PROVE  At(w, i) = IF o <= i /\ i < o + Len(data) THEN data[i - o + 1] ELSE At(s, i)
    <3>1. CASE i < n
      <4>1. i + 1 \in 1 .. n /\ i + 1 - 1 = i /\ i + 1 - o = i - o + 1
        BY <1>2, <3>1
      <4>2. w[i + 1] = IF o < i + 1 /\ i + 1 <= o + Len(data) THEN data[i + 1 - o]
                       ELSE At(s, i + 1 - 1)
        BY <2>1, <4>1
      <4>3. At(w, i) = w[i + 1]
        BY <2>3, <3>1 DEF At
      <4> QED
        BY <1>1, <4>1, <4>2, <4>3
    <3>2. CASE ~(i < n)
      BY <1>1, <1>2, <2>3, <3>2 DEF At
    <3> QED
      BY <3>1, <3>2
  <2> QED
    BY <1>4, <2>3, <2>4 DEF w, n
<1> QED
  BY <1>3, <1>4

\* A file cut or extended to n keeps what it had before n (truncate).
LEMMA TruncatedOnly ==
    ASSUME NEW s \in Seq(Int), NEW n \in Nat
    PROVE  /\ Truncated(s, n) \in Seq(Int) /\ Len(Truncated(s, n)) = n
           /\ \A i \in 0 .. n - 1 : At(Truncated(s, n), i) = At(s, i)
<1> DEFINE t == Truncated(s, n)
<1>1. t = [i \in 1 .. n |-> At(s, i - 1)]
  BY DEF Truncated
<1>2. t \in [1 .. n -> Int]
  BY <1>1, UnitAt
<1> HIDE DEF t
<1>3. t \in Seq(Int) /\ Len(t) = n
  BY <1>2, Sequence
<1>4. ASSUME NEW i \in 0 .. n - 1
      PROVE  At(t, i) = At(s, i)
  BY <1>1, <1>3 DEF At
<1> QED
  BY <1>3, <1>4 DEF t

\* A part of a sequence.
LEMMA Part ==
    ASSUME NEW s \in Seq(Int), NEW o \in Nat, NEW n \in Nat, o + n <= Len(s)
    PROVE  /\ SubSeq(s, o + 1, o + n) \in Seq(Int) /\ Len(SubSeq(s, o + 1, o + n)) = n
           /\ \A j \in 1 .. n : SubSeq(s, o + 1, o + n)[j] = s[o + j]
<1>1. s \in [1 .. Len(s) -> Int] /\ Len(s) \in Nat
  BY LenProperties
<1>2. \A i \in o + 1 .. o + n : s[i] \in Int
  BY <1>1
<1>3. \A i \in 1 .. (o + n) - (o + 1) + 1 : SubSeq(s, o + 1, o + n)[i] = s[(o + 1) + i - 1]
  BY <1>2, SubSeqProperties
<1>4. SubSeq(s, o + 1, o + n) \in Seq(Int) /\ Len(SubSeq(s, o + 1, o + n)) = n
  BY <1>2, SubSeqProperties
<1> QED
  BY <1>3, <1>4

LEMMA Through ==
    ASSUME NEW i \in Int, NEW j \in Int, NEW k \in Int
    PROVE  /\ i <= j /\ j < k => i < k
           /\ i < j /\ j <= k => i < k
OBVIOUS

LEMMA SameEnd ==
    ASSUME NEW m \in Nat, NEW n \in Nat, 1 .. m = 1 .. n
    PROVE  m = n
OBVIOUS

-----------------------------------------------------------------------------
(* Places and their numbers                                                  *)

LEMMA ProperPart ==
    ASSUME NEW S, NEW T, IsFiniteSet(T), S \subseteq T, S # T
    PROVE  /\ IsFiniteSet(S) /\ Cardinality(S) \in Nat /\ Cardinality(T) \in Nat
           /\ Cardinality(S) < Cardinality(T)
<1>1. IsFiniteSet(S) /\ Cardinality(S) <= Cardinality(T) /\ Cardinality(S) # Cardinality(T)
  BY FS_Subset
<1>2. Cardinality(S) \in Nat /\ Cardinality(T) \in Nat
  BY <1>1, FS_CardinalityType
<1> QED
  BY <1>1, <1>2

\* Places are ordered as their parts follow each other.
LEMMA PlacesInOrder ==
    ASSUME NEW x \in Int \X Int, NEW y \in Int \X Int
    PROVE  /\ ~Precedes(x, x)
           /\ Precedes(x, y) => ~Precedes(y, x) /\ x # y
           /\ x = y \/ Precedes(x, y) \/ Precedes(y, x)
           /\ \A z \in Int \X Int : Precedes(x, y) /\ Precedes(y, z) => Precedes(x, z)
<1>1. /\ x[1] \in Int /\ x[2] \in Int /\ y[1] \in Int /\ y[2] \in Int
      /\ x[1] = y[1] /\ x[2] = y[2] => x = y
  OBVIOUS
<1>2. ASSUME NEW z \in Int \X Int, Precedes(x, y), Precedes(y, z)
      PROVE  Precedes(x, z)
  <2>1. z[1] \in Int /\ z[2] \in Int
    OBVIOUS
  <2> QED
    BY <1>1, <1>2, <2>1 DEF Precedes
<1> QED
  BY <1>1, <1>2 DEF Precedes

\* The places of a list, or of the ranks' sections, are finitely many.
LEMMA PlacesFinite ==
    ASSUME NEW p, \A r \in Ranks : Len(p[r]) \in Nat
    PROVE  /\ IsFiniteSet(Places(p)) /\ Places(p) \subseteq Int \X Int
           /\ \A r, k : <<r, k>> \in Places(p) <=> r \in Ranks /\ k \in 1 .. Len(p[r])
<1> DEFINE row == [r \in Ranks |-> {<<r, k>> : k \in 1 .. Len(p[r])}]
<1>1. IsFiniteSet(Ranks) /\ Ranks \subseteq Int
  BY ChunksAssumption, FS_Interval DEF Ranks
<1>2. ASSUME NEW r \in Ranks
      PROVE  IsFiniteSet(row[r])
  <2> DEFINE f == [k \in 1 .. Len(p[r]) |-> <<r, k>>]
  <2>1. IsFiniteSet(1 .. Len(p[r]))
    BY FS_Interval
  <2>2. row[r] = {f[k] : k \in 1 .. Len(p[r])}
    OBVIOUS
  <2>3. DOMAIN f = 1 .. Len(p[r])
    OBVIOUS
  <2> HIDE DEF f
  <2> QED
    BY <2>1, <2>2, <2>3, FiniteImage
<1>3. Places(p) = UNION {row[r] : r \in Ranks}
  BY DEF Places
<1>4. IsFiniteSet({row[r] : r \in Ranks})
  <2>1. DOMAIN row = Ranks
    OBVIOUS
  <2> HIDE DEF row
  <2> QED
    BY <1>1, <2>1, FiniteImage
<1>5. IsFiniteSet(Places(p))
  <2>1. \A X \in {row[r] : r \in Ranks} : IsFiniteSet(X)
    BY <1>2
  <2> HIDE DEF row
  <2> QED
    BY <1>3, <1>4, <2>1, FS_UNION
<1>6. \A r, k : <<r, k>> \in Places(p) <=> r \in Ranks /\ k \in 1 .. Len(p[r])
  BY DEF Places
<1>7. Places(p) \subseteq Int \X Int
  <2> SUFFICES ASSUME NEW x \in Places(p) PROVE x \in Int \X Int
    OBVIOUS
  <2>1. PICK r \in Ranks : \E k \in 1 .. Len(p[r]) : x = <<r, k>>
    BY DEF Places
  <2> QED
    BY <1>1, <2>1
<1> QED
  BY <1>5, <1>6, <1>7

\* Nth numbers the members of a set of places in their order.
LEMMA NthPlace ==
    ASSUME NEW X, IsFiniteSet(X), X \subseteq Int \X Int
    PROVE  /\ Cardinality(X) \in Nat
           /\ \A k \in 1 .. Cardinality(X) : Nth(X, k) \in X
           /\ \A x \in X : \E k \in 1 .. Cardinality(X) : Nth(X, k) = x
           /\ \A j, k \in 1 .. Cardinality(X) : j < k => Precedes(Nth(X, j), Nth(X, k))
<1> DEFINE C == Cardinality(X)
           Before(x) == {y \in X : Precedes(y, x)}
           rank == [x \in X |-> Cardinality(Before(x))]
<1>1. C \in Nat
  BY FS_CardinalityType
<1>2. ASSUME NEW x \in X
      PROVE  rank[x] \in Nat /\ rank[x] < C
  <2>1. Before(x) \subseteq X /\ Before(x) # X
    BY PlacesInOrder
  <2> HIDE DEF Before
  <2> QED
    BY <2>1, ProperPart
<1>3. ASSUME NEW x \in X, NEW y \in X, Precedes(x, y)
      PROVE  rank[x] < rank[y]
  <2>1. Before(x) \subseteq Before(y) /\ Before(x) # Before(y)
    <3>1. x \in Int \X Int /\ y \in Int \X Int /\ \A z \in X : z \in Int \X Int
      OBVIOUS
    <3>2. \A z \in X : Precedes(z, x) => Precedes(z, y)
      BY <1>3, <3>1, PlacesInOrder
    <3>3. x \in Before(y) /\ x \notin Before(x)
      BY <1>3, <3>1, PlacesInOrder
    <3> QED
      BY <3>2, <3>3
  <2>2. IsFiniteSet(Before(y))
    BY FS_Subset
  <2> HIDE DEF Before
  <2> QED
    BY <2>1, <2>2, ProperPart
<1>4. \A x, y \in X : rank[x] = rank[y] => x = y
  <2> TAKE x, y \in X
  <2>1. x \in Int \X Int /\ y \in Int \X Int
    OBVIOUS
  <2>2. x = y \/ Precedes(x, y) \/ Precedes(y, x)
    BY <2>1, PlacesInOrder
  <2>3. rank[x] \in Nat /\ rank[y] \in Nat
    BY <1>2
  <2> HIDE DEF rank
  <2> QED
    BY <1>3, <2>2, <2>3
<1>5. \A k \in 1 .. C : \E x \in X : rank[x] = k - 1
  <2> DEFINE T == 0 .. C - 1
  <2>1. IsFiniteSet(T) /\ Cardinality(T) = C
    <3> HIDE DEF C
    <3> QED
      BY <1>1, FS_Interval
  <2>2. rank \in Injection(X, T)
    <3>1. rank \in [X -> T]
      <4>1. DOMAIN rank = X /\ rank = [x \in X |-> rank[x]]
        OBVIOUS
      <4> HIDE DEF rank
      <4>2. \A x \in X : rank[x] \in T
        BY <1>1, <1>2
      <4> QED
        BY <4>1, <4>2
    <3> HIDE DEF rank
    <3> QED
      BY <1>4, <3>1 DEF Injection, IsInjective
  <2>3. rank \in Surjection(X, T)
    <3> HIDE DEF rank, T
    <3> QED
      BY <2>1, <2>2, FS_Injection
  <2> HIDE DEF rank
  <2>4. \A t \in T : \E x \in X : rank[x] = t
    BY <2>3 DEF Surjection
  <2>5. \A k \in 1 .. C : k - 1 \in T
    BY <1>1
  <2> QED
    BY <2>4, <2>5
<1>6. \A k \in 1 .. C : Nth(X, k) \in X /\ rank[Nth(X, k)] = k - 1
  <2> TAKE k \in 1 .. C
  <2>1. \E x \in X : Cardinality({y \in X : Precedes(y, x)}) = k - 1
    BY <1>5
  <2>2. Nth(X, k) \in X /\ Cardinality({y \in X : Precedes(y, Nth(X, k))}) = k - 1
    BY <2>1, Zenon DEF Nth
  <2> QED
    BY <2>2
<1> HIDE DEF rank
<1>7. \A x \in X : \E k \in 1 .. C : Nth(X, k) = x
  <2> TAKE x \in X
  <2>1. PICK k \in 1 .. C : k - 1 = rank[x]
    <3> DEFINE m == rank[x] + 1
    <3>1. m \in 1 .. C /\ m - 1 = rank[x]
      BY <1>1, <1>2
    <3> HIDE DEF m
    <3> QED
      BY <3>1
  <2>2. Nth(X, k) \in X /\ rank[Nth(X, k)] = rank[x]
    BY <1>6, <2>1
  <2> QED
    BY <1>4, <2>1, <2>2
<1>8. ASSUME NEW j \in 1 .. C, NEW k \in 1 .. C, j < k
      PROVE  Precedes(Nth(X, j), Nth(X, k))
  <2>1. /\ Nth(X, j) \in X /\ Nth(X, k) \in X
        /\ rank[Nth(X, j)] = j - 1 /\ rank[Nth(X, k)] = k - 1
    BY <1>6
  <2>2. rank[Nth(X, j)] < rank[Nth(X, k)] /\ rank[Nth(X, k)] \in Nat
    BY <1>8, <2>1
  <2>3. Nth(X, j) \in Int \X Int /\ Nth(X, k) \in Int \X Int
    BY <2>1
  <2>4. Nth(X, j) # Nth(X, k) /\ ~Precedes(Nth(X, k), Nth(X, j))
    BY <1>2, <1>3, <2>1, <2>2
  <2> QED
    BY <2>3, <2>4, PlacesInOrder
<1> QED
  BY <1>1, <1>6, <1>7, <1>8
-----------------------------------------------------------------------------
(* Chunks                                                                    *)

\* A list of items, and the sizes of those that are files.
Listing(p, z) == /\ \A r \in Ranks : Len(p[r]) \in Nat
                 /\ \A f \in DOMAIN z : z[f] \in Nat

\* The rank that gets a chunk.
RankOf(x, c, p, z) ==
    MapSpread(Cardinality(ChunksBefore(x, c, p, z)), Cardinality(AllChunks(p, z)), N)

\* The chunks of a file cover it, and the last one is needed.
LEMMA ChunkNumbers ==
    ASSUME NEW n \in Nat
    PROVE  /\ ChunksOf(n) \in Nat \ {0} /\ n <= ChunksOf(n) * ChunkSize
           /\ n # 0 => (ChunksOf(n) - 1) * ChunkSize < n
<1> DEFINE q == n \div ChunkSize
           m == n % ChunkSize
<1>1. ChunkSize \in Nat \ {0}
  BY ChunksAssumption
<1>2. /\ q \in Nat /\ m \in Nat /\ m < ChunkSize /\ n = q * ChunkSize + m
  BY <1>1
<1>3. ChunksOf(n) = IF n = 0 \/ m # 0 THEN q + 1 ELSE q
  BY DEF ChunksOf
<1> HIDE DEF q, m
<1>4. CASE n = 0 \/ m # 0
  <2>1. ChunksOf(n) = q + 1 /\ q + 1 - 1 = q
    BY <1>2, <1>3, <1>4
  <2>2. (q + 1) * ChunkSize = q * ChunkSize + ChunkSize /\ q * ChunkSize \in Nat
    BY <1>1, <1>2
  <2>3. n # 0 => q * ChunkSize < n
    BY <1>2, <1>4, <2>2
  <2> QED
    BY <1>1, <1>2, <2>1, <2>2, <2>3
<1>5. CASE n # 0 /\ m = 0
  <2>1. ChunksOf(n) = q /\ n = q * ChunkSize
    BY <1>1, <1>2, <1>3, <1>5
  <2>2. q # 0
    BY <1>1, <1>5, <2>1
  <2>3. (q - 1) * ChunkSize = q * ChunkSize - ChunkSize /\ q * ChunkSize \in Nat
    BY <1>1, <1>2
  <2> QED
    BY <1>1, <1>2, <2>1, <2>2, <2>3
<1> QED
  BY <1>4, <1>5

LEMMA FilesAreIn ==
    ASSUME NEW p, NEW z, Listing(p, z), NEW x \in FilePlaces(p, z)
    PROVE  /\ x \in Int \X Int /\ x \in Places(p) /\ ItemAt(p, x) \in DOMAIN z
           /\ SizeAt(p, z, x) \in Nat /\ x[1] \in Ranks /\ x[2] \in 1 .. Len(p[x[1]])
<1>1. x \in Places(p) /\ x \in Int \X Int
  BY PlacesFinite DEF FilePlaces, Listing
<1>2. x = <<x[1], x[2]>>
  BY <1>1
<1>3. x[1] \in Ranks /\ x[2] \in 1 .. Len(p[x[1]])
  BY <1>1, <1>2, PlacesFinite DEF Listing
<1> QED
  BY <1>1, <1>3 DEF FilePlaces, SizeAt, Listing

\* There are finitely many chunks.
LEMMA ChunksFinite ==
    ASSUME NEW p, NEW z, Listing(p, z)
    PROVE  /\ IsFiniteSet(FilePlaces(p, z)) /\ IsFiniteSet(AllChunks(p, z))
           /\ \A d \in AllChunks(p, z) : d = <<d[1], d[2]>>
           /\ \A x, c : <<x, c>> \in AllChunks(p, z) <=>
                           /\ x \in FilePlaces(p, z)
                           /\ c \in 0 .. ChunksOf(SizeAt(p, z, x)) - 1
<1> DEFINE F == FilePlaces(p, z)
           row == [x \in F |-> {<<x, c>> : c \in 0 .. ChunksOf(SizeAt(p, z, x)) - 1}]
<1>1. IsFiniteSet(F)
  BY PlacesFinite, FS_Subset DEF Listing, FilePlaces
<1>2. ASSUME NEW x \in F
      PROVE  IsFiniteSet(row[x])
  <2> DEFINE T == 0 .. ChunksOf(SizeAt(p, z, x)) - 1
             f == [c \in T |-> <<x, c>>]
  <2>1. ChunksOf(SizeAt(p, z, x)) \in Nat
    BY FilesAreIn, ChunkNumbers
  <2>2. IsFiniteSet(T)
    BY <2>1, FS_Interval
  <2> HIDE DEF T
  <2>3. DOMAIN f = T /\ {f[c] : c \in T} = {<<x, c>> : c \in T}
    OBVIOUS
  <2> HIDE DEF f
  <2>4. IsFiniteSet({<<x, c>> : c \in T})
    BY <2>2, <2>3, FiniteImage
  <2> QED
    BY <2>4 DEF T
<1>3. AllChunks(p, z) = UNION {row[x] : x \in F}
  BY DEF AllChunks
<1>4. IsFiniteSet({row[x] : x \in F})
  <2>1. DOMAIN row = F
    OBVIOUS
  <2> HIDE DEF row, F
  <2> QED
    BY <1>1, <2>1, FiniteImage
<1>5. IsFiniteSet(AllChunks(p, z))
  <2>1. \A X \in {row[x] : x \in F} : IsFiniteSet(X)
    BY <1>2
  <2> HIDE DEF row
  <2> QED
    BY <1>3, <1>4, <2>1, FS_UNION
<1>6. \A d \in AllChunks(p, z) : d = <<d[1], d[2]>>
  BY DEF AllChunks
<1>7. \A x, c : <<x, c>> \in AllChunks(p, z) <=>
                   x \in FilePlaces(p, z) /\ c \in 0 .. ChunksOf(SizeAt(p, z, x)) - 1
  BY DEF AllChunks
<1> QED
  BY <1>1, <1>5, <1>6, <1>7

\* Each chunk has a rank, and a later chunk has no earlier rank.
LEMMA RanksInOrder ==
    ASSUME NEW p, NEW z, Listing(p, z), NEW x, NEW c, <<x, c>> \in AllChunks(p, z),
           NEW y, NEW d, <<y, d>> \in AllChunks(p, z)
    PROVE  /\ RankOf(x, c, p, z) \in Ranks
           /\ Precedes(x, y) \/ (x = y /\ c <= d) => RankOf(x, c, p, z) <= RankOf(y, d, p, z)
<1> DEFINE A == AllChunks(p, z)
           total == Cardinality(A)
<1>1. IsFiniteSet(A) /\ total \in Nat
  BY ChunksFinite, FS_CardinalityType
<1>2. ASSUME NEW w, NEW b, <<w, b>> \in A
      PROVE  w \in Int \X Int /\ b \in Int
  <2>1. w \in FilePlaces(p, z) /\ b \in 0 .. ChunksOf(SizeAt(p, z, w)) - 1
    BY <1>2, ChunksFinite
  <2> QED
    BY <2>1, FilesAreIn
<1>3. ASSUME NEW w, NEW b, <<w, b>> \in A
      PROVE  Cardinality(ChunksBefore(w, b, p, z)) \in 0 .. total - 1
  <2>1. ChunksBefore(w, b, p, z) \subseteq A
    BY DEF ChunksBefore
  <2>2. <<w, b>> \notin ChunksBefore(w, b, p, z)
    <3>1. ~Precedes(w, w) /\ ~(b < b)
      BY <1>2, <1>3, PlacesInOrder
    <3> QED
      BY <3>1 DEF ChunksBefore
  <2> HIDE DEF A
  <2> QED
    BY <1>1, <1>3, <2>1, <2>2, ProperPart
<1>4. ASSUME Precedes(x, y) \/ (x = y /\ c <= d)
      PROVE  Cardinality(ChunksBefore(x, c, p, z)) <= Cardinality(ChunksBefore(y, d, p, z))
  <2>1. ASSUME NEW e \in ChunksBefore(x, c, p, z)
        PROVE  e \in ChunksBefore(y, d, p, z)
    <3>1. e \in A /\ (Precedes(e[1], x) \/ (e[1] = x /\ e[2] < c))
      BY <2>1 DEF ChunksBefore
    <3>2. e = <<e[1], e[2]>>
      BY <3>1, ChunksFinite
    <3> DEFINE w == e[1]
               b == e[2]
    <3> HIDE DEF w, b
    <3>3. w \in Int \X Int /\ b \in Int
      BY <1>2, <3>1, <3>2 DEF w, b
    <3>4. x \in Int \X Int /\ y \in Int \X Int /\ c \in Int /\ d \in Int
      BY <1>2
    <3>5. Precedes(w, x) /\ Precedes(x, y) => Precedes(w, y)
      BY <3>3, <3>4, PlacesInOrder
    <3>6. Precedes(w, y) \/ (w = y /\ b < d)
      BY <1>4, <3>1, <3>3, <3>4, <3>5 DEF w, b
    <3> QED
      BY <3>1, <3>6 DEF ChunksBefore, w, b
  <2>2. IsFiniteSet(ChunksBefore(y, d, p, z))
    <3>1. ChunksBefore(y, d, p, z) \in SUBSET A
      BY DEF ChunksBefore
    <3> QED
      BY <1>1, <3>1, FS_Subset
  <2> QED
    BY <2>1, <2>2, FS_Subset
<1> HIDE DEF A, total
<1>5. RankOf(x, c, p, z) = MapSpread(Cardinality(ChunksBefore(x, c, p, z)), total, N)
      /\ RankOf(y, d, p, z) = MapSpread(Cardinality(ChunksBefore(y, d, p, z)), total, N)
  BY DEF RankOf, A, total
<1>6. /\ Cardinality(ChunksBefore(x, c, p, z)) \in 0 .. total - 1
      /\ Cardinality(ChunksBefore(y, d, p, z)) \in 0 .. total - 1
  BY <1>3 DEF A
<1>7. N \in Nat \ {0}
  BY ChunksAssumption
<1> QED
  BY <1>1, <1>4, <1>5, <1>6, <1>7, SpreadIntoBlocks, SpreadInOrder DEF Ranks

\* The chunks that a rank gets of a file follow each other.
LEMMA ChunksInARow ==
    ASSUME NEW p, NEW z, Listing(p, z), NEW r, NEW x \in PlacesFor(r, p, z)
    PROVE  LET n == SizeAt(p, z, x)
               chunks == ChunksFor(r, x, p, z)
               c == First(chunks)
               m == Cardinality(chunks)
           IN  /\ c \in Nat /\ m \in Nat \ {0} /\ c + m <= ChunksOf(n)
               /\ chunks = c .. c + m - 1
<1> DEFINE n == SizeAt(p, z, x)
           S == ChunksFor(r, x, p, z)
<1>1. x \in FilePlaces(p, z) /\ S # {}
  BY DEF PlacesFor
<1>2. n \in Nat /\ ChunksOf(n) \in Nat
  BY <1>1, FilesAreIn, ChunkNumbers
<1>3. \A b : b \in S <=> b \in 0 .. ChunksOf(n) - 1 /\ RankOf(x, b, p, z) = r
  BY DEF ChunksFor, RankOf
<1>4. \A b : <<x, b>> \in AllChunks(p, z) <=> b \in 0 .. ChunksOf(n) - 1
  BY <1>1, ChunksFinite
<1> HIDE DEF n, S
<1>5. S \subseteq Nat
  BY <1>3
<1>6. PICK k \in S : \A b \in S : k <= b
  BY <1>1, <1>5, LeastNumber
<1>7. First(S) \in S /\ \A b \in S : First(S) <= b
  BY <1>6 DEF First
<1>8. PICK l \in S : \A b \in S : b <= l
  <2> DEFINE T == {i \in Nat : \E b \in S : i = ChunksOf(n) - b}
  <2>1. T # {} /\ T \in SUBSET Nat
    BY <1>1, <1>2, <1>3
  <2>2. PICK i \in T : \A j \in T : i <= j
    <3> HIDE DEF T
    <3> QED
      BY <2>1, LeastNumber
  <2>3. PICK l \in S : i = ChunksOf(n) - l
    BY <2>2
  <2>4. ASSUME NEW b \in S
        PROVE  b <= l
    <3>1. ChunksOf(n) - b \in T
      BY <1>2, <1>3
    <3>2. i <= ChunksOf(n) - b
      BY <2>2, <3>1
    <3> QED
      BY <1>2, <1>3, <2>3, <3>2
  <2> QED
    BY <2>4
<1> DEFINE c == First(S)
<1> HIDE DEF c
<1>9. c \in S /\ (\A b \in S : c <= b) /\ c \in Nat /\ l \in Nat /\ c <= l
  BY <1>5, <1>7, <1>8 DEF c
<1>10. S = c .. l
  <2>1. ASSUME NEW b \in c .. l
        PROVE  b \in S
    <3>1. b \in 0 .. ChunksOf(n) - 1 /\ c \in 0 .. ChunksOf(n) - 1 /\ l \in 0 .. ChunksOf(n) - 1
          /\ c <= b /\ b <= l
      BY <1>2, <1>3, <1>9
    <3>2. /\ <<x, b>> \in AllChunks(p, z) /\ <<x, c>> \in AllChunks(p, z)
          /\ <<x, l>> \in AllChunks(p, z)
      BY <1>4, <3>1
    <3>3. RankOf(x, c, p, z) <= RankOf(x, b, p, z) /\ RankOf(x, b, p, z) <= RankOf(x, l, p, z)
      BY <3>1, <3>2, RanksInOrder
    <3>4. RankOf(x, c, p, z) = r /\ RankOf(x, l, p, z) = r /\ RankOf(x, b, p, z) \in Ranks
          /\ r \in Ranks
      BY <1>3, <1>9, <3>2, RanksInOrder
    <3>5. RankOf(x, b, p, z) = r
      BY <3>3, <3>4 DEF Ranks
    <3> QED
      BY <1>3, <3>1, <3>5
  <2>2. ASSUME NEW b \in S
        PROVE  b \in c .. l
    BY <1>5, <1>8, <1>9
  <2> QED
    BY <2>1, <2>2
<1>11. Cardinality(S) = l - c + 1
  BY <1>9, <1>10, FS_Interval
<1>12. l <= ChunksOf(n) - 1
  BY <1>2, <1>3
<1>13. /\ c \in Nat /\ Cardinality(S) \in Nat \ {0} /\ c + Cardinality(S) <= ChunksOf(n)
       /\ S = c .. c + Cardinality(S) - 1
  BY <1>2, <1>9, <1>10, <1>11, <1>12
<1> QED
  BY <1>13 DEF c, S, n
-----------------------------------------------------------------------------
(* Sections                                                                  *)

\* Where m chunks from chunk c lie in a file of n units.
LEMMA SectionOfChunks ==
    ASSUME NEW n \in Nat, NEW c \in Nat, NEW m \in Nat \ {0}, c + m <= ChunksOf(n)
    PROVE  LET length == AtMost(m * ChunkSize, n - c * ChunkSize)
           IN  /\ c * ChunkSize \in Nat /\ length \in Int /\ c * ChunkSize + length <= n
               /\ length = m * ChunkSize \/ c * ChunkSize + length = n
               /\ \A i \in 0 .. n - 1 :
                     c * ChunkSize <= i /\ i < c * ChunkSize + length
                       <=> i \div ChunkSize \in c .. c + m - 1
               /\ \A i \in 0 .. n - 1 : i \div ChunkSize \in 0 .. ChunksOf(n) - 1
               /\ c * ChunkSize + length >= n <=> c + m = ChunksOf(n)
<1> DEFINE C == ChunkSize
           length == AtMost(m * C, n - c * C)
           k == ChunksOf(n)
<1>1. C \in Nat \ {0}
  BY ChunksAssumption
<1>2. k \in Nat \ {0} /\ n <= k * C /\ (n # 0 => (k - 1) * C < n)
  BY ChunkNumbers
<1> HIDE DEF C, k
<1>3. c * C \in Nat /\ m * C \in Nat /\ (c + m) * C = c * C + m * C /\ (c + m) * C \in Nat
      /\ k * C \in Nat /\ (k - 1) * C = k * C - C
  BY <1>1, <1>2
<1>4. /\ length \in Int /\ c * C + length <= n
      /\ length = m * C \/ c * C + length = n
      /\ c * C + length = AtMost((c + m) * C, n)
  BY <1>3 DEF AtMost
<1> HIDE DEF length
<1>5. ASSUME NEW i \in 0 .. n - 1
      PROVE  /\ c * C <= i /\ i < c * C + length <=> i \div C \in c .. c + m - 1
             /\ i \div C \in 0 .. k - 1
  <2> DEFINE q == i \div C
  <2>1. q \in Nat /\ q * C <= i /\ i < q * C + C
    BY <1>1, Division
  <2> HIDE DEF q
  <2>2. q * C \in Nat /\ (q + 1) * C = q * C + C /\ (q + 1) * C \in Nat
    BY <1>1, <2>1
  <2>0. q * C <= i /\ i < (q + 1) * C /\ i \in Int
    BY <2>1, <2>2
  <2>10. c * C \in Int /\ (c + m) * C \in Int /\ q * C \in Int /\ (q + 1) * C \in Int
    BY <1>3, <2>2
  <2>3. c * C <= i <=> c <= q
    <3>1. ASSUME c <= q
          PROVE  c * C <= i
      <4>1. c * C <= q * C
        BY <1>1, <2>1, <3>1, Product
      <4> QED
        BY <1>3, <2>1, <2>2, <4>1
    <3>2. ASSUME c * C <= i
          PROVE  c <= q
      <4>1. c * C < (q + 1) * C
        BY <2>0, <2>10, <3>2, Through, Zenon
      <4>2. c < q + 1
        BY <1>1, <2>1, <4>1, Strict
      <4> QED
        BY <2>1, <4>2
    <3> QED
      BY <3>1, <3>2
  <2>4. i < (c + m) * C <=> q < c + m
    <3>1. ASSUME q < c + m
          PROVE  i < (c + m) * C
      <4>1. (q + 1) * C <= (c + m) * C
        BY <1>1, <2>1, <3>1, Product
      <4> QED
        BY <1>3, <2>1, <2>2, <4>1
    <3>2. ASSUME i < (c + m) * C
          PROVE  q < c + m
      <4>1. q * C < (c + m) * C
        BY <2>0, <2>10, <3>2, Through, Zenon
      <4> QED
        BY <1>1, <2>1, <4>1, Strict
    <3> QED
      BY <3>1, <3>2
  <2>5. i < c * C + length <=> i < (c + m) * C
    BY <1>3, <1>4 DEF AtMost
  <2>6. q < k
    <3>1. q * C < k * C
      BY <1>2, <1>3, <2>1, <2>2
    <3> QED
      BY <1>1, <1>2, <2>1, <3>1, Strict
  <2> QED
    BY <1>2, <2>1, <2>3, <2>4, <2>5, <2>6 DEF q
<1>6. c * C + length >= n <=> c + m = k
  <2>1. c * C + length >= n <=> (c + m) * C >= n
    BY <1>3, <1>4 DEF AtMost
  <2>2. ASSUME c + m = k
        PROVE  (c + m) * C >= n
    BY <1>2, <2>2
  <2>3. ASSUME (c + m) * C >= n
        PROVE  c + m = k
    <3>1. CASE n = 0
      <4>1. k = 1
        BY <1>1, <3>1 DEF k, ChunksOf, C
      <4> QED
        BY <4>1 DEF k
    <3>2. CASE n # 0
      <4>0. (k - 1) * C \in Int /\ k - 1 \in Nat /\ (c + m) * C \in Int /\ n \in Int
        BY <1>1, <1>2, <1>3
      <4>3. n <= (c + m) * C /\ (k - 1) * C < n
        BY <1>2, <2>3, <3>2, <4>0
      <4>1. (k - 1) * C < (c + m) * C
        BY <4>0, <4>3, Through, Zenon
      <4>2. k - 1 < c + m
        BY <1>1, <4>0, <4>1, Strict
      <4> QED
        BY <1>2, <4>2 DEF k
    <3> QED
      BY <3>1, <3>2
  <2> QED
    BY <2>1, <2>2, <2>3
<1> QED
  BY <1>3, <1>4, <1>5, <1>6 DEF C, k, length

\* What a section is of, and which units of the file it has.
LEMMA SectionIs ==
    ASSUME NEW p, NEW z, Listing(p, z), NEW r, NEW x \in PlacesFor(r, p, z)
    PROVE  LET n == SizeAt(p, z, x)
               e == SectionFor(r, x, p, z)
           IN  /\ e.file = ItemAt(p, x) /\ e.owner = x[1] /\ e.index = x[2] /\ e.size = n
               /\ \E c \in Nat, m \in Nat :
                     e.offset = c * ChunkSize
                       /\ e.length = AtMost(m * ChunkSize, n - c * ChunkSize)
               /\ \A i \in 0 .. n - 1 :
                     e.offset <= i /\ i < e.offset + e.length
                       <=> i \div ChunkSize \in ChunksFor(r, x, p, z)
               /\ LastOf(e) <=> ChunksOf(n) - 1 \in ChunksFor(r, x, p, z)
<1> DEFINE n == SizeAt(p, z, x)
           e == SectionFor(r, x, p, z)
           S == ChunksFor(r, x, p, z)
           c == First(S)
           m == Cardinality(S)
           length == AtMost(m * ChunkSize, n - c * ChunkSize)
<1>1. n \in Nat
  BY FilesAreIn DEF PlacesFor
<1>2. c \in Nat /\ m \in Nat \ {0} /\ c + m <= ChunksOf(n) /\ S = c .. c + m - 1
  BY ChunksInARow
<1>3. /\ e.file = ItemAt(p, x) /\ e.owner = x[1] /\ e.index = x[2] /\ e.size = n
      /\ e.offset = c * ChunkSize /\ e.length = length
  BY DEF SectionFor
<1> HIDE DEF n, e, S, c, m
<1>4. /\ \A i \in 0 .. n - 1 : c * ChunkSize <= i /\ i < c * ChunkSize + length
                                 <=> i \div ChunkSize \in c .. c + m - 1
      /\ c * ChunkSize + length >= n <=> c + m = ChunksOf(n)
  BY <1>1, <1>2, SectionOfChunks
<1> HIDE DEF length
<1>5. LastOf(e) <=> c + m = ChunksOf(n)
  BY <1>3, <1>4 DEF LastOf
<1>6. c + m = ChunksOf(n) <=> ChunksOf(n) - 1 \in S
  <2>1. ChunksOf(n) \in Nat \ {0}
    BY <1>1, ChunkNumbers
  <2> QED
    BY <1>2, <2>1
<1>7. \E c_1 \in Nat, m_1 \in Nat :
         e.offset = c_1 * ChunkSize /\ e.length = AtMost(m_1 * ChunkSize, n - c_1 * ChunkSize)
  BY <1>2, <1>3 DEF length
<1>8. \A i \in 0 .. n - 1 : e.offset <= i /\ i < e.offset + e.length <=> i \div ChunkSize \in S
  BY <1>2, <1>3, <1>4
<1> QED
  BY <1>3, <1>5, <1>6, <1>7, <1>8 DEF n, e, S

\* The place in the list of the file of a section, which is the s[2]-th of rank s[1].
PlaceOf(s, p, z) == Nth(PlacesFor(s[1], p, z), s[2])

\* The lists of sections that mfu_file_chunk_list_alloc makes of the list p.
Heads(h, p, z) == Listing(p, z) /\ \A r \in Ranks : h[r] = ChunkList(r, p, z)

LEMMA HeadsAre ==
    ASSUME NEW h, NEW p, NEW z, Heads(h, p, z)
    PROVE  /\ \A r \in Ranks : Len(h[r]) \in Nat
           /\ IsFiniteSet(Places(h))
           /\ \A s \in Places(h) : /\ s \in Int \X Int /\ s[1] \in Ranks
                                   /\ PlaceOf(s, p, z) \in PlacesFor(s[1], p, z)
                                   /\ ItemAt(h, s) = SectionFor(s[1], PlaceOf(s, p, z), p, z)
           /\ \A r \in Ranks : \A x \in PlacesFor(r, p, z) :
                 \E s \in Places(h) : s[1] = r /\ PlaceOf(s, p, z) = x
           /\ \A s, t \in Places(h) :
                 s[1] = t[1] /\ s[2] < t[2] => Precedes(PlaceOf(s, p, z), PlaceOf(t, p, z))
<1>1. ASSUME NEW r \in Ranks
      PROVE  LET X == PlacesFor(r, p, z) IN
             /\ Len(h[r]) \in Nat /\ Len(h[r]) = Cardinality(X)
             /\ \A k \in 1 .. Len(h[r]) :
                   Nth(X, k) \in X /\ h[r][k] = SectionFor(r, Nth(X, k), p, z)
             /\ \A x \in X : \E k \in 1 .. Len(h[r]) : Nth(X, k) = x
             /\ \A j, k \in 1 .. Len(h[r]) : j < k => Precedes(Nth(X, j), Nth(X, k))
  <2> DEFINE X == PlacesFor(r, p, z)
             n == Cardinality(X)
             l == [k \in 1 .. n |-> SectionFor(r, Nth(X, k), p, z)]
  <2>1. h[r] = l
    BY DEF Heads, ChunkList
  <2>2. IsFiniteSet(X) /\ X \subseteq Int \X Int
    <3>1. X \in SUBSET FilePlaces(p, z) /\ Listing(p, z)
      BY DEF PlacesFor, Heads
    <3>2. IsFiniteSet(FilePlaces(p, z)) /\ FilePlaces(p, z) \subseteq Int \X Int
      BY <3>1, ChunksFinite, FilesAreIn
    <3> HIDE DEF X
    <3> QED
      BY <3>1, <3>2, FS_Subset
  <2> HIDE DEF X
  <2>3. /\ n \in Nat /\ \A k \in 1 .. n : Nth(X, k) \in X
        /\ \A x \in X : \E k \in 1 .. n : Nth(X, k) = x
        /\ \A j, k \in 1 .. n : j < k => Precedes(Nth(X, j), Nth(X, k))
    BY <2>2, NthPlace
  <2> HIDE DEF n
  <2>4. Len(l) = n
    <3>1. l \in [1 .. n -> {l[k] : k \in 1 .. n}]
      OBVIOUS
    <3> HIDE DEF l
    <3>2. l \in Seq({l[k] : k \in 1 .. n})
      BY <2>3, <3>1, SeqDef
    <3>3. Len(l) \in Nat /\ DOMAIN l = 1 .. Len(l) /\ DOMAIN l = 1 .. n
      BY <3>1, <3>2, LenProperties
    <3> QED
      BY <2>3, <3>3, SameEnd
  <2>5. \A k \in 1 .. n : l[k] = SectionFor(r, Nth(X, k), p, z)
    OBVIOUS
  <2> HIDE DEF l
  <2> QED
    BY <2>1, <2>3, <2>4, <2>5 DEF X, n
<1>2. /\ IsFiniteSet(Places(h)) /\ Places(h) \subseteq Int \X Int
      /\ \A r, k : <<r, k>> \in Places(h) <=> r \in Ranks /\ k \in 1 .. Len(h[r])
  BY <1>1, PlacesFinite
<1>3. ASSUME NEW s \in Places(h)
      PROVE  s \in Int \X Int /\ s[1] \in Ranks /\ s[2] \in 1 .. Len(h[s[1]])
  <2>1. s \in Int \X Int /\ s = <<s[1], s[2]>>
    BY <1>2
  <2> QED
    BY <1>2, <2>1
<1>4. ASSUME NEW s \in Places(h)
      PROVE  /\ PlaceOf(s, p, z) \in PlacesFor(s[1], p, z)
             /\ ItemAt(h, s) = SectionFor(s[1], PlaceOf(s, p, z), p, z)
  BY <1>1, <1>3 DEF PlaceOf, ItemAt
<1>5. ASSUME NEW r \in Ranks, NEW x \in PlacesFor(r, p, z)
      PROVE  \E s \in Places(h) : s[1] = r /\ PlaceOf(s, p, z) = x
  <2>1. PICK k \in 1 .. Len(h[r]) : Nth(PlacesFor(r, p, z), k) = x
    BY <1>1
  <2>2. <<r, k>> \in Places(h) /\ PlaceOf(<<r, k>>, p, z) = x
    BY <1>2, <2>1 DEF PlaceOf
  <2> QED
    BY <2>2
<1>6. ASSUME NEW s \in Places(h), NEW t \in Places(h), s[1] = t[1], s[2] < t[2]
      PROVE  Precedes(PlaceOf(s, p, z), PlaceOf(t, p, z))
  BY <1>1, <1>3, <1>6 DEF PlaceOf
<1> QED
  BY <1>1, <1>2, <1>3, <1>4, <1>5, <1>6
\* Sections are in the order of their files.
LEMMA SectionsInOrder ==
    ASSUME NEW h, NEW p, NEW z, Heads(h, p, z), NEW s \in Places(h), NEW t \in Places(h),
           Precedes(PlaceOf(s, p, z), PlaceOf(t, p, z))
    PROVE  Precedes(s, t)
<1> DEFINE x == PlaceOf(s, p, z)
           y == PlaceOf(t, p, z)
<1>1. /\ s \in Int \X Int /\ t \in Int \X Int /\ s[1] \in Ranks /\ t[1] \in Ranks
      /\ x \in PlacesFor(s[1], p, z) /\ y \in PlacesFor(t[1], p, z)
  BY HeadsAre
<1>2. Listing(p, z) /\ x \in FilePlaces(p, z) /\ y \in FilePlaces(p, z)
  BY <1>1 DEF Heads, PlacesFor
<1>3. x \in Int \X Int /\ y \in Int \X Int
  BY <1>2, FilesAreIn
<1>4. s[2] >= t[2] /\ s[1] = t[1] => x = y \/ Precedes(y, x)
  BY <1>1, HeadsAre DEF PlaceOf
<1> HIDE DEF x, y
<1>5. PICK c \in 0 .. ChunksOf(SizeAt(p, z, x)) - 1 : RankOf(x, c, p, z) = s[1]
  BY <1>1 DEF PlacesFor, ChunksFor, RankOf
<1>6. PICK d \in 0 .. ChunksOf(SizeAt(p, z, y)) - 1 : RankOf(y, d, p, z) = t[1]
  BY <1>1 DEF PlacesFor, ChunksFor, RankOf
<1>7. <<x, c>> \in AllChunks(p, z) /\ <<y, d>> \in AllChunks(p, z) /\ Precedes(x, y)
  BY <1>2, ChunksFinite DEF x, y
<1>8. s[1] <= t[1]
  BY <1>2, <1>5, <1>6, <1>7, RanksInOrder
<1>9. ~(s[1] = t[1] /\ s[2] >= t[2])
  BY <1>3, <1>4, <1>7, PlacesInOrder
<1>10. s[1] \in Int /\ t[1] \in Int /\ s[2] \in Int /\ t[2] \in Int
  BY <1>1
<1> QED
  BY <1>8, <1>9, <1>10 DEF Precedes

\* Each chunk of each file is in one section.
LEMMA OneSection ==
    ASSUME NEW h, NEW p, NEW z, Heads(h, p, z), NEW x \in FilePlaces(p, z),
           NEW c \in 0 .. ChunksOf(SizeAt(p, z, x)) - 1
    PROVE  \E s \in Places(h) : \A t \in Places(h) :
              PlaceOf(t, p, z) = x /\ c \in ChunksFor(t[1], x, p, z) <=> t = s
<1> DEFINE r == RankOf(x, c, p, z)
<1>1. Listing(p, z) /\ <<x, c>> \in AllChunks(p, z)
  BY ChunksFinite DEF Heads
<1>2. r \in Ranks
  BY <1>1, RanksInOrder
<1>3. \A q : c \in ChunksFor(q, x, p, z) <=> q = r
  BY DEF ChunksFor, RankOf
<1> HIDE DEF r
<1>4. x \in PlacesFor(r, p, z)
  BY <1>3 DEF PlacesFor
<1>5. PICK s \in Places(h) : s[1] = r /\ PlaceOf(s, p, z) = x
  BY <1>2, <1>4, HeadsAre
<1>6. ASSUME NEW t \in Places(h), PlaceOf(t, p, z) = x, t[1] = r
      PROVE  t = s
  <2>1. s \in Int \X Int /\ t \in Int \X Int /\ x \in Int \X Int
    BY <1>1, HeadsAre, FilesAreIn
  <2>2. ~Precedes(x, x)
    BY <2>1, PlacesInOrder
  <2>3. ~(s[2] < t[2]) /\ ~(t[2] < s[2])
    BY <1>5, <1>6, <2>2, HeadsAre
  <2> QED
    BY <1>5, <1>6, <2>1, <2>3
<1> QED
  BY <1>3, <1>5, <1>6

\* No item is listed twice.
Distinct(p) == \A x, y \in Places(p) : ItemAt(p, x) = ItemAt(p, y) => x = y

\* The sections of the file at x.
LEMMA SectionsOfFile ==
    ASSUME NEW h, NEW p, NEW z, Heads(h, p, z), Distinct(p), NEW x \in FilePlaces(p, z),
           NEW s \in Places(h)
    PROVE  /\ ItemAt(h, s).file = ItemAt(p, x) <=> PlaceOf(s, p, z) = x
           /\ ItemAt(h, s).owner = x[1] /\ ItemAt(h, s).index = x[2] <=> PlaceOf(s, p, z) = x
<1> DEFINE y == PlaceOf(s, p, z)
<1>1. /\ y \in PlacesFor(s[1], p, z) /\ y \in FilePlaces(p, z) /\ Listing(p, z)
      /\ ItemAt(h, s) = SectionFor(s[1], y, p, z)
  BY HeadsAre DEF PlacesFor, Heads
<1> HIDE DEF y
<1>2. ItemAt(h, s).file = ItemAt(p, y) /\ ItemAt(h, s).owner = y[1] /\ ItemAt(h, s).index = y[2]
  BY <1>1, SectionIs
<1>3. x \in Places(p) /\ y \in Places(p) /\ x \in Int \X Int /\ y \in Int \X Int
  BY <1>1, FilesAreIn
<1>4. ItemAt(p, x) = ItemAt(p, y) <=> x = y
  BY <1>3 DEF Distinct
<1>5. x[1] = y[1] /\ x[2] = y[2] <=> x = y
  BY <1>3
<1> QED
  BY <1>2, <1>4, <1>5 DEF y

\* Each unit of a file is in one section, and one section has its end.
LEMMA UnitsOnce ==
    ASSUME NEW h, NEW p, NEW z, Heads(h, p, z), Distinct(p), NEW x \in FilePlaces(p, z)
    PROVE  LET f == ItemAt(p, x)
           IN  /\ \A i \in 0 .. z[f] - 1 : \E s \in Places(h) : \A t \in Places(h) :
                     Covers(ItemAt(h, t), f, i) <=> t = s
               /\ \E s \in Places(h) : \A t \in Places(h) :
                     ItemAt(h, t).file = f /\ LastOf(ItemAt(h, t)) <=> t = s
<1> DEFINE f == ItemAt(p, x)
           n == SizeAt(p, z, x)
<1>1. Listing(p, z) /\ n \in Nat /\ n = z[f]
  BY FilesAreIn DEF Heads, SizeAt
<1>2. ASSUME NEW t \in Places(h)
      PROVE  /\ ItemAt(h, t).file = f <=> PlaceOf(t, p, z) = x
             /\ PlaceOf(t, p, z) = x =>
                   /\ \A i \in 0 .. n - 1 :
                         ItemAt(h, t).offset <= i
                           /\ i < ItemAt(h, t).offset + ItemAt(h, t).length
                         <=> i \div ChunkSize \in ChunksFor(t[1], x, p, z)
                   /\ LastOf(ItemAt(h, t)) <=> ChunksOf(n) - 1 \in ChunksFor(t[1], x, p, z)
  <2>1. /\ PlaceOf(t, p, z) \in PlacesFor(t[1], p, z)
        /\ ItemAt(h, t) = SectionFor(t[1], PlaceOf(t, p, z), p, z)
    BY HeadsAre
  <2>2. ItemAt(h, t).file = f <=> PlaceOf(t, p, z) = x
    BY SectionsOfFile
  <2>3. ASSUME PlaceOf(t, p, z) = x
        PROVE  x \in PlacesFor(t[1], p, z) /\ ItemAt(h, t) = SectionFor(t[1], x, p, z)
    BY <2>1, <2>3
  <2> HIDE DEF f, n
  <2>4. ASSUME x \in PlacesFor(t[1], p, z)
        PROVE  LET e == SectionFor(t[1], x, p, z)
               IN  /\ \A i \in 0 .. n - 1 :
                         e.offset <= i /\ i < e.offset + e.length
                           <=> i \div ChunkSize \in ChunksFor(t[1], x, p, z)
                   /\ LastOf(e) <=> ChunksOf(n) - 1 \in ChunksFor(t[1], x, p, z)
    BY <1>1, <2>4, SectionIs DEF n
  <2> QED
    BY <2>2, <2>3, <2>4
<1>3. ASSUME NEW i \in 0 .. n - 1
      PROVE  i \div ChunkSize \in 0 .. ChunksOf(n) - 1
  <2>1. ChunksOf(n) \in Nat \ {0} /\ 0 + 1 <= ChunksOf(n)
    BY <1>1, ChunkNumbers
  <2> HIDE DEF n
  <2> QED
    BY <1>1, <2>1, SectionOfChunks
<1>4. ChunksOf(n) - 1 \in 0 .. ChunksOf(n) - 1
  <2>1. ChunksOf(n) \in Nat \ {0}
    BY <1>1, ChunkNumbers
  <2> HIDE DEF n
  <2> QED
    BY <2>1
<1>5. \A c \in 0 .. ChunksOf(n) - 1 : \E s \in Places(h) : \A t \in Places(h) :
         PlaceOf(t, p, z) = x /\ c \in ChunksFor(t[1], x, p, z) <=> t = s
  BY OneSection
<1> HIDE DEF n, f
<1>6. \A i \in 0 .. n - 1 : \E s \in Places(h) : \A t \in Places(h) :
         Covers(ItemAt(h, t), f, i) <=> t = s
  <2> TAKE i \in 0 .. n - 1
  <2>1. PICK s \in Places(h) : \A t \in Places(h) :
           PlaceOf(t, p, z) = x /\ i \div ChunkSize \in ChunksFor(t[1], x, p, z) <=> t = s
    BY <1>3, <1>5
  <2>2. ASSUME NEW t \in Places(h)
        PROVE  Covers(ItemAt(h, t), f, i) <=> t = s
    <3>1. ItemAt(h, t).file = f <=> PlaceOf(t, p, z) = x
      BY <1>2
    <3>2. PlaceOf(t, p, z) = x =>
             (ItemAt(h, t).offset <= i /\ i < ItemAt(h, t).offset + ItemAt(h, t).length
                <=> i \div ChunkSize \in ChunksFor(t[1], x, p, z))
      BY <1>2
    <3>3. PlaceOf(t, p, z) = x /\ i \div ChunkSize \in ChunksFor(t[1], x, p, z) <=> t = s
      BY <2>1
    <3> QED
      BY <3>1, <3>2, <3>3, Zenon DEF Covers
  <2> QED
    BY <2>2
<1>7. \E s \in Places(h) : \A t \in Places(h) :
         ItemAt(h, t).file = f /\ LastOf(ItemAt(h, t)) <=> t = s
  BY <1>2, <1>4, <1>5
<1> QED
  BY <1>1, <1>6, <1>7 DEF f

\* The owner of a file gets the or of the flags of its sections (mfu_file_chunk_list_lor).
LEMMA LorOfSections ==
    ASSUME NEW h, NEW p, NEW z, Heads(h, p, z), Distinct(p), NEW x \in FilePlaces(p, z), NEW v
    PROVE  Lor(p, h, v)[x[1]][x[2]]
             <=> \E s \in Places(h) : ItemAt(h, s).file = ItemAt(p, x) /\ ItemAt(v, s)
<1> DEFINE f == ItemAt(p, x)
           HasEnd(s) == ItemAt(h, s).file = f /\ LastOf(ItemAt(h, s))
<1>1. x \in Int \X Int /\ x[1] \in Ranks /\ x[2] \in 1 .. Len(p[x[1]]) /\ Listing(p, z)
  BY FilesAreIn DEF Heads
<1>2. \A s \in Places(h) :
         /\ ItemAt(h, s).file = f <=> PlaceOf(s, p, z) = x
         /\ ItemAt(h, s).owner = x[1] /\ ItemAt(h, s).index = x[2] <=> PlaceOf(s, p, z) = x
  BY SectionsOfFile
<1>3. Lor(p, h, v)[x[1]][x[2]] = (\E s \in Places(h) : HasEnd(s) /\ Scan(h, v, s))
  <2>1. Lor(p, h, v)[x[1]][x[2]] =
           (\E s \in Places(h) : /\ ItemAt(h, s).owner = x[1] /\ ItemAt(h, s).index = x[2]
                                 /\ LastOf(ItemAt(h, s)) /\ Scan(h, v, s))
    BY <1>1, Zenon DEF Lor
  <2> QED
    BY <1>2, <2>1
<1>4. PICK s0 \in Places(h) : \A t \in Places(h) : HasEnd(t) <=> t = s0
  BY UnitsOnce
<1>5. ASSUME NEW t \in Places(h), ItemAt(h, t).file = f, ItemAt(v, t)
      PROVE  Scan(h, v, s0)
  <2>1. PlaceOf(t, p, z) = x /\ PlaceOf(s0, p, z) = x /\ LastOf(ItemAt(h, s0))
    BY <1>2, <1>4, <1>5
  <2>2. t \in Int \X Int /\ s0 \in Int \X Int
    BY HeadsAre
  <2>3. ~Precedes(s0, t)
    <3> DEFINE n == SizeAt(p, z, x)
    <3>1. /\ x \in PlacesFor(s0[1], p, z) /\ x \in PlacesFor(t[1], p, z)
          /\ ItemAt(h, s0) = SectionFor(s0[1], x, p, z)
      BY <2>1, HeadsAre
    <3>2. ChunksOf(n) - 1 \in ChunksFor(s0[1], x, p, z)
      BY <1>1, <2>1, <3>1, SectionIs
    <3>3. PICK d \in ChunksFor(t[1], x, p, z) : TRUE
      BY <3>1 DEF PlacesFor
    <3>4. /\ d \in 0 .. ChunksOf(n) - 1 /\ ChunksOf(n) - 1 \in 0 .. ChunksOf(n) - 1
          /\ RankOf(x, d, p, z) = t[1] /\ RankOf(x, ChunksOf(n) - 1, p, z) = s0[1]
      BY <3>2, <3>3 DEF ChunksFor, RankOf
    <3>5. <<x, d>> \in AllChunks(p, z) /\ <<x, ChunksOf(n) - 1>> \in AllChunks(p, z)
      BY <1>1, <3>4, ChunksFinite
    <3> HIDE DEF n
    <3>6. d <= ChunksOf(n) - 1
      <4>1. ChunksOf(n) \in Nat
        BY <1>1, FilesAreIn, ChunkNumbers DEF n
      <4> QED
        BY <3>4, <4>1
    <3>7. t[1] <= s0[1]
      BY <1>1, <3>4, <3>5, <3>6, RanksInOrder
    <3>8. s0[1] = t[1] => ~(s0[2] < t[2])
      <4>1. ~Precedes(x, x)
        BY <1>1, PlacesInOrder
      <4> QED
        BY <2>1, <4>1, HeadsAre
    <3>9. s0[1] \in Int /\ t[1] \in Int
      BY <2>2
    <3> QED
      BY <3>7, <3>8, <3>9 DEF Precedes
  <2>4. ASSUME NEW u \in Places(h), ~Precedes(u, t), ~Precedes(s0, u)
        PROVE  ItemAt(h, u).file = ItemAt(h, s0).file
    <3> DEFINE y == PlaceOf(u, p, z)
    <3>1. y \in Int \X Int
      <4>1. y \in PlacesFor(u[1], p, z)
        BY HeadsAre
      <4>2. y \in FilePlaces(p, z)
        BY <4>1 DEF PlacesFor
      <4> QED
        BY <1>1, <4>2, FilesAreIn
    <3>2. ~Precedes(y, x) /\ ~Precedes(x, y)
      BY <2>1, <2>4, SectionsInOrder
    <3>3. y = x
      <4> HIDE DEF y
      <4> QED
        BY <1>1, <3>1, <3>2, PlacesInOrder
    <3> QED
      BY <1>2, <1>4, <3>3
  <2> QED
    BY <1>5, <2>3, <2>4 DEF Scan
<1>6. ASSUME NEW s \in Places(h), HasEnd(s), Scan(h, v, s)
      PROVE  \E t \in Places(h) : ItemAt(h, t).file = f /\ ItemAt(v, t)
  <2>1. PICK t \in Places(h) :
           /\ ~Precedes(s, t) /\ ItemAt(v, t)
           /\ \A u \in {u \in Places(h) : ~Precedes(u, t) /\ ~Precedes(s, u)} :
                 ItemAt(h, u).file = ItemAt(h, s).file
    BY <1>6 DEF Scan
  <2>2. t \in Int \X Int
    BY HeadsAre
  <2>3. ~Precedes(t, t)
    BY <2>2, PlacesInOrder
  <2> QED
    BY <1>6, <2>1, <2>3
<1> QED
  BY <1>3, <1>4, <1>5, <1>6
-----------------------------------------------------------------------------
(* Where a rank is in its section                                            *)

\* The sections of the list.
SectionOK(e) ==
    /\ e.file \in Files /\ e.size = size[e.file]
    /\ e.offset \in Nat /\ e.length \in Int /\ EndOf(e) <= e.size
    /\ opts.direct => EndOf(e) = e.size \/ \E m \in Nat : e.length = m * BufSize

ListInv ==
    /\ opts.direct \in BOOLEAN
    /\ size \in [Files -> Nat]
    /\ \A f \in Files : src[f] \in Seq(Int) /\ Len(src[f]) = size[f]
    /\ \A r \in Ranks : /\ Len(head[r]) \in Nat
                        /\ \A k \in 1 .. Len(head[r]) : SectionOK(head[r][k])

FilesInv ==
    /\ dst \in [Files -> Seq(Int)] /\ len \in [Files -> Nat]
    /\ \A f \in Files : len[f] <= size[f]

\* Where a rank may be in its section e.
Position(e, o) ==
    /\ o \in Nat /\ e.offset <= o
    /\ opts.direct => EndOf(e) <= o \/ \E k \in Nat : o = e.offset + k * BufSize

WriteInv(r) ==
    LET e == Elem(r)
    IN  /\ off[r] \in Nat /\ e.offset <= off[r]
        /\ buf[r] \in Seq(Int) /\ put[r] \in 0 .. Len(buf[r])
        /\ off[r] + Len(buf[r]) <= EndOf(e) \/ EndOf(e) = e.size
        /\ Position(e, off[r] + got[r])

RankInv(r) ==
    /\ elem[r] \in Nat
    /\ pc[r] \in {"read", "write", "fiemap"} => elem[r] \in 1 .. Len(head[r])
    /\ pc[r] = "read" => Position(Elem(r), off[r])
    /\ pc[r] = "write" => WriteInv(r)
    /\ pc[r] = "fiemap" => extents[r] \subseteq Elem(r).offset .. EndOf(Elem(r)) - 1

Shapes ==
    /\ DOMAIN pc = Ranks /\ DOMAIN elem = Ranks /\ DOMAIN off = Ranks /\ DOMAIN buf = Ranks
    /\ DOMAIN put = Ranks /\ DOMAIN got = Ranks /\ DOMAIN extents = Ranks

CopyInv == ListInv /\ FilesInv /\ Shapes /\ \A r \in Ranks : RankInv(r)


\* Chunks that follow each other end with their file, or are whole buffers if a
\* chunk is (mfu_copy_file_normal's check).
LEMMA SectionsOfBuffers ==
    ASSUME NEW c \in Nat, NEW m \in Nat, NEW n \in Nat
    PROVE  LET offset == c * ChunkSize
               length == AtMost(m * ChunkSize, n - c * ChunkSize)
           IN  /\ offset \in Nat /\ length \in Int /\ offset + length <= n
               /\ ChunkSize % BufSize = 0 =>
                     offset + length = n \/ \E k \in Nat : length = k * BufSize
<1> DEFINE offset == c * ChunkSize
           length == AtMost(m * ChunkSize, n - c * ChunkSize)
<1>1. ChunkSize \in Nat \ {0} /\ BufSize \in Nat \ {0}
  BY CopyDataAssumption, ChunksAssumption
<1>2. c * ChunkSize \in Nat /\ m * ChunkSize \in Nat
  BY <1>1
<1>4. offset \in Nat /\ length \in Int /\ offset + length <= n
  BY <1>2 DEF AtMost
<1>5. length = m * ChunkSize \/ offset + length = n
  BY <1>2 DEF AtMost
<1>6. ASSUME ChunkSize % BufSize = 0
      PROVE  \E k \in Nat : m * ChunkSize = k * BufSize
  <2> DEFINE q == ChunkSize \div BufSize
  <2>1. q \in Nat /\ ChunkSize = q * BufSize
    BY <1>1, <1>6, Divided
  <2> HIDE DEF q
  <2>2. ChunkSize = BufSize * q
    BY <1>1, <2>1
  <2>3. m * q \in Nat /\ m * (BufSize * q) = (m * q) * BufSize
    BY <1>1, <2>1
  <2> QED
    BY <2>2, <2>3
<1> QED
  BY <1>4, <1>5, <1>6

\* The ranks' sections are those of the list, in which no item is twice.
SharedOut == /\ \A r \in Ranks : part[r] \in Seq(Names)
             /\ Heads(head, part, size) /\ Distinct(part)

LEMMA SharedInit ==
    ASSUME Init
    PROVE  /\ SharedOut /\ size \in [Files -> Nat] /\ DOMAIN src = Files
           /\ \A f \in Files : src[f] \in Seq(Int) /\ Len(src[f]) = size[f]
<1>1. /\ part \in Parts /\ src \in Sources /\ size = [f \in DOMAIN src |-> Len(src[f])]
      /\ head = [r \in Ranks |-> ChunkList(r, part, size)]
  BY DEF Init
<1>2. part \in [Ranks -> Seq(Names)] /\ Distinct(part)
  BY <1>1, ListsAssumption DEF Distinct
<1>3. \A f \in DOMAIN src : src[f] \in Seq(Int) /\ Len(src[f]) \in Nat
  BY <1>1, ListsAssumption, LenProperties
<1>4. size \in [Files -> Nat] /\ DOMAIN src = Files
  BY <1>1, <1>3 DEF Files
<1>5. \A f \in Files : src[f] \in Seq(Int) /\ Len(src[f]) = size[f]
  BY <1>1, <1>3, <1>4
<1>6. \A r \in Ranks : part[r] \in Seq(Names) /\ Len(part[r]) \in Nat
  BY <1>2, LenProperties
<1>7. Heads(head, part, size)
  BY <1>1, <1>4, <1>6 DEF Heads, Listing, Files
<1> QED
  BY <1>2, <1>4, <1>5, <1>6, <1>7 DEF SharedOut

LEMMA ListInit ==
    ASSUME Init
    PROVE  ListInv
<1>1. /\ SharedOut /\ size \in [Files -> Nat]
      /\ \A f \in Files : src[f] \in Seq(Int) /\ Len(src[f]) = size[f]
  BY SharedInit
<1>2. opts.direct \in BOOLEAN /\ (opts.direct => ChunkSize % BufSize = 0)
  BY CopyDataAssumption DEF Init
<1>3. Heads(head, part, size) /\ Listing(part, size)
  BY <1>1 DEF SharedOut, Heads
<1>4. \A r \in Ranks : Len(head[r]) \in Nat
  BY <1>3, HeadsAre
<1>5. ASSUME NEW r \in Ranks, NEW k \in 1 .. Len(head[r])
      PROVE  SectionOK(head[r][k])
  <2> DEFINE s == <<r, k>>
             x == PlaceOf(s, part, size)
             e == SectionFor(r, x, part, size)
             n == SizeAt(part, size, x)
  <2>1. s \in Places(head) /\ s[1] = r /\ ItemAt(head, s) = head[r][k]
    BY <1>4, PlacesFinite DEF ItemAt
  <2>2. x \in PlacesFor(r, part, size) /\ head[r][k] = e
    <3> HIDE DEF s
    <3> QED
      BY <1>3, <2>1, HeadsAre
  <2>3. x \in FilePlaces(part, size)
    BY <2>2 DEF PlacesFor
  <2> HIDE DEF s, x
  <2>4. n \in Nat /\ n = size[ItemAt(part, x)] /\ ItemAt(part, x) \in Files
    BY <1>3, <2>3, FilesAreIn DEF SizeAt, Files
  <2> HIDE DEF e, n
  <2>5. e.file = ItemAt(part, x) /\ e.size = n
    BY <1>3, <2>2, SectionIs DEF e, n
  <2>6. PICK c \in Nat, m \in Nat :
           e.offset = c * ChunkSize /\ e.length = AtMost(m * ChunkSize, n - c * ChunkSize)
    BY <1>3, <2>2, SectionIs DEF e, n
  <2>7. /\ e.offset \in Nat /\ e.length \in Int /\ e.offset + e.length <= n
        /\ ChunkSize % BufSize = 0 =>
              e.offset + e.length = n \/ \E k_1 \in Nat : e.length = k_1 * BufSize
    <3> DEFINE offset == c * ChunkSize
               length == AtMost(m * ChunkSize, n - c * ChunkSize)
    <3>1. /\ offset \in Nat /\ length \in Int /\ offset + length <= n
          /\ ChunkSize % BufSize = 0 =>
                offset + length = n \/ \E k_1 \in Nat : length = k_1 * BufSize
      BY <2>4, SectionsOfBuffers, Zenon
    <3> HIDE DEF offset, length
    <3>2. e.offset = offset /\ e.length = length
      BY <2>6 DEF offset, length
    <3> QED
      BY <3>1, <3>2
  <2>8. SectionOK(e)
    BY <1>2, <2>4, <2>5, <2>7 DEF SectionOK, EndOf
  <2> QED
    BY <2>2, <2>8
<1> QED
  BY <1>1, <1>2, <1>4, <1>5 DEF ListInv

LEMMA CopyInit ==
    ASSUME Init
    PROVE  CopyInv
<1>1. ListInv
  BY ListInit
<1>2. FilesInv
  <2>1. len \in [Files -> Nat] /\ \A f \in Files : len[f] <= size[f]
    BY <1>1 DEF Init, ListInv
  <2>2. \A s \in Leftovers : Leftover(opts, s) \in Seq(Int)
    BY ListsAssumption, EmptySeq DEF Leftover
  <2>3. dst \in [Files -> Seq(Int)]
    BY <2>2 DEF Init
  <2> QED
    BY <2>1, <2>3 DEF FilesInv
<1>3. Shapes
  BY DEF Init, Shapes
<1>4. \A r \in Ranks : RankInv(r)
  BY DEF Init, RankInv
<1> QED
  BY <1>1, <1>2, <1>3, <1>4 DEF CopyInv
-----------------------------------------------------------------------------
(* The steps                                                                 *)

LEMMA ListStays ==
    ASSUME ListInv, UNCHANGED lists
    PROVE  ListInv'
BY DEF ListInv, lists, SectionOK, Files, EndOf

\* What rank r is at, does not concern the others.
LEMMA OthersStay ==
    ASSUME CopyInv, UNCHANGED lists, NEW r \in Ranks, RankInv(r)',
           \A q \in Ranks \ {r} :
              /\ pc'[q] = pc[q] /\ elem'[q] = elem[q] /\ off'[q] = off[q] /\ buf'[q] = buf[q]
              /\ put'[q] = put[q] /\ got'[q] = got[q] /\ extents'[q] = extents[q]
    PROVE  \A q \in Ranks : RankInv(q)'
<1>1. ASSUME NEW q \in Ranks, q # r
      PROVE  RankInv(q)'
  <2>1. RankInv(q) /\ head' = head /\ opts' = opts
    BY DEF CopyInv, lists
  <2>2. /\ pc'[q] = pc[q] /\ elem'[q] = elem[q] /\ off'[q] = off[q] /\ buf'[q] = buf[q]
        /\ put'[q] = put[q] /\ got'[q] = got[q] /\ extents'[q] = extents[q]
    BY <1>1
  <2> QED
    BY <2>1, <2>2 DEF RankInv, WriteInv, Position, Elem, EndOf
<1> QED
  BY <1>1

\* The section that a rank is at.
LEMMA ElemOK ==
    ASSUME CopyInv, NEW r \in Ranks, pc[r] \in {"read", "write", "fiemap"}
    PROVE  SectionOK(Elem(r)) /\ Elem(r).file \in Files
BY DEF CopyInv, RankInv, ListInv, Elem, SectionOK

LEMMA StartSectionStep ==
    ASSUME CopyInv, NEW r \in Ranks, StartSection(r)
    PROVE  CopyInv'
<1>1. /\ pc[r] = "next" /\ elem[r] < Len(head[r]) /\ elem' = [elem EXCEPT ![r] = @ + 1]
      /\ UNCHANGED <<lists, len, dst, ends, buf, put, got>>
  BY DEF StartSection, buffer
<1>2. elem[r] \in Nat /\ Len(head[r]) \in Nat /\ DOMAIN elem = Ranks /\ DOMAIN pc = Ranks
      /\ DOMAIN off = Ranks /\ DOMAIN extents = Ranks
  BY DEF CopyInv, ListInv, RankInv, Shapes
<1>3. elem'[r] = elem[r] + 1 /\ elem'[r] \in 1 .. Len(head[r]) /\ head' = head /\ opts' = opts
  BY <1>1, <1>2 DEF lists
<1> DEFINE e == head[r][elem[r] + 1]
<1>4. Elem(r)' = e /\ SectionOK(e)
  BY <1>2, <1>3 DEF Elem, CopyInv, ListInv
<1>5. RankInv(r)' /\ Shapes' /\ \A q \in Ranks \ {r} : pc'[q] = pc[q] /\ off'[q] = off[q]
                                                       /\ extents'[q] = extents[q]
  <2>1. CASE Fail(r, elem[r] + 1) /\ UNCHANGED buffer
    <3>1. pc' = [pc EXCEPT ![r] = "next"] /\ UNCHANGED <<off, buf, put, got, extents>>
      BY <2>1 DEF Fail, buffer
    <3> QED
      BY <1>1, <1>2, <1>3, <3>1 DEF RankInv, Shapes, CopyInv
  <2>2. CASE ~(Fail(r, elem[r] + 1) /\ UNCHANGED buffer)
    <3> DEFINE mapped == opts.sparse /\ opts.fiemap /\ ~opts.direct
               ext == IF mapped THEN {i \in e.offset .. EndOf(e) - 1 :
                                         i < len[e.file] /\ At(src[e.file], i) # 0}
                      ELSE {}
    <3>1. /\ off' = [off EXCEPT ![r] = e.offset]
          /\ extents' = [extents EXCEPT ![r] = ext]
          /\ pc' = [pc EXCEPT ![r] = IF mapped THEN "fiemap" ELSE "read"]
      BY <2>2 DEF StartSection
    <3>2. ext \subseteq e.offset .. EndOf(e) - 1
      OBVIOUS
    <3> HIDE DEF ext, mapped, e
    <3>3. off'[r] = e.offset /\ extents'[r] = ext /\ pc'[r] \in {"fiemap", "read"}
      BY <1>2, <3>1
    <3>4. e.offset = e.offset + 0 * BufSize /\ e.offset \in Nat
      BY <1>4, CopyDataAssumption, ChunksAssumption DEF SectionOK
    <3>5. RankInv(r)'
      <4>1. Position(Elem(r), off[r])'
        BY <1>3, <1>4, <3>3, <3>4 DEF Position, EndOf
      <4>2. extents'[r] \subseteq Elem(r)'.offset .. EndOf(Elem(r)') - 1
        BY <1>4, <3>2, <3>3
      <4> QED
        BY <1>2, <1>3, <3>3, <4>1, <4>2 DEF RankInv
    <3> QED
      BY <1>1, <1>2, <3>1, <3>5 DEF Shapes, CopyInv
  <2> QED
    BY <2>1, <2>2
<1>6. \A q \in Ranks : RankInv(q)'
  BY <1>1, <1>2, <1>5, OthersStay
<1> QED
  BY <1>1, <1>5, <1>6, ListStays DEF CopyInv, FilesInv, Files, lists

\* A transfer moves no more than it might.
LEMMA TransfersRange ==
    ASSUME NEW all \in Nat, NEW least \in {0, 1}, NEW n \in Transfers(all, least)
    PROVE  n \in 0 .. all
BY DEF Transfers

\* What read() may return to the loop of mfu_copy_file_normal.
LEMMA ReadAmount ==
    ASSUME CopyInv, NEW r \in Ranks, pc[r] = "read", off[r] < EndOf(Elem(r)),
           NEW n \in Transfers(Available(Elem(r).file, off[r], ToRead(r)), 1)
    PROVE  /\ n \in Nat /\ n <= ToRead(r) /\ n <= BufSize
           /\ n > 0 => off[r] + n <= Len(src[Elem(r).file])
           /\ ~opts.direct => off[r] + n <= EndOf(Elem(r))
<1> DEFINE e == Elem(r)
           all == Available(e.file, off[r], ToRead(r))
<1>1. SectionOK(e) /\ Position(e, off[r]) /\ e.file \in Files
  BY ElemOK DEF CopyInv, RankInv
<1>2. /\ off[r] \in Nat /\ EndOf(e) \in Int /\ BufSize \in Nat \ {0} /\ len[e.file] \in Nat
      /\ len[e.file] <= Len(src[e.file]) /\ Len(src[e.file]) \in Nat
  BY <1>1, CopyDataAssumption, ChunksAssumption, SMTT(30) DEF SectionOK, Position, EndOf, CopyInv, FilesInv, ListInv
<1>3. ToRead(r) \in Nat /\ ToRead(r) <= BufSize
      /\ (~opts.direct => off[r] + ToRead(r) <= EndOf(e))
  BY <1>2 DEF ToRead, Least
<1> HIDE DEF e
<1>4. all \in Nat /\ all <= ToRead(r) /\ (all > 0 => off[r] + all <= len[e.file])
  BY <1>2, <1>3 DEF Available, Least, Most
<1> HIDE DEF all
<1>5. n \in 0 .. all
  BY <1>4, TransfersRange DEF all, e
<1> QED
  BY <1>2, <1>3, <1>4, <1>5 DEF e

\* The place after a read that is taken; if the file does not end there, it is a
\* whole buffer further.
LEMMA NextPosition ==
    ASSUME CopyInv, NEW r \in Ranks, pc[r] = "read", off[r] < EndOf(Elem(r)),
           NEW n \in Nat, 0 < n, n <= BufSize, ~TooShort(r, n)
    PROVE  /\ Position(Elem(r), off[r] + n)
           /\ opts.direct => \/ off[r] + BufSize <= EndOf(Elem(r))
                             \/ EndOf(Elem(r)) = Elem(r).size
<1> DEFINE e == Elem(r)
<1>1. SectionOK(e) /\ Position(e, off[r])
  BY ElemOK DEF CopyInv, RankInv
<1>2. /\ off[r] \in Nat /\ e.offset \in Nat /\ EndOf(e) \in Int /\ e.length \in Int
      /\ BufSize \in Nat \ {0} /\ e.offset <= off[r] /\ EndOf(e) <= e.size
      /\ off[r] < EndOf(e) /\ e.size \in Nat
  BY <1>1, CopyDataAssumption, ChunksAssumption DEF SectionOK, Position, EndOf, CopyInv, ListInv
<1>3. ASSUME opts.direct
      PROVE  off[r] + BufSize <= EndOf(e) \/ EndOf(e) = e.size
  <2>1. PICK k \in Nat : off[r] = e.offset + k * BufSize
    BY <1>1, <1>2, <1>3 DEF Position
  <2>2. ASSUME NEW m \in Nat, e.length = m * BufSize
        PROVE  off[r] + BufSize <= EndOf(e)
    <3>1. k * BufSize \in Nat /\ m * BufSize \in Nat
      BY <1>2
    <3>2. EndOf(e) = e.offset + m * BufSize
      BY <2>2 DEF EndOf
    <3>3. k * BufSize < m * BufSize
      BY <1>2, <2>1, <3>1, <3>2
    <3>4. k * BufSize + BufSize <= m * BufSize
      BY <1>2, <3>3, NextMultiple
    <3> QED
      BY <1>2, <2>1, <3>1, <3>2, <3>4
  <2> QED
    BY <1>1, <1>3, <2>2 DEF SectionOK
<1>4. ASSUME opts.direct
      PROVE  EndOf(e) <= off[r] + n \/ \E k \in Nat : off[r] + n = e.offset + k * BufSize
  <2>1. n = BufSize \/ e.size <= off[r] + n
    BY <1>2, <1>4 DEF TooShort
  <2>2. CASE n = BufSize
    <3>1. PICK k \in Nat : off[r] = e.offset + k * BufSize
      BY <1>1, <1>2, <1>4 DEF Position
    <3>2. (k + 1) * BufSize = k * BufSize + BufSize /\ k * BufSize \in Nat
      BY <1>2
    <3>3. off[r] + n = e.offset + (k + 1) * BufSize
      BY <1>2, <2>2, <3>1, <3>2
    <3> QED
      BY <3>3
  <2>3. CASE e.size <= off[r] + n
    BY <1>2, <2>3
  <2> QED
    BY <2>1, <2>2, <2>3
<1> QED
  BY <1>2, <1>3, <1>4 DEF Position

\* The buffer that mfu_copy_file_normal is to write.
LEMMA FilledBuffer ==
    ASSUME CopyInv, NEW r \in Ranks, pc[r] = "read",
           NEW n \in Nat, n <= BufSize, off[r] + n <= Len(src[Elem(r).file])
    PROVE  /\ Filled(r, n) \in Seq(Int)
           /\ Len(Filled(r, n)) = IF opts.direct THEN BufSize ELSE n
<1> DEFINE f == Elem(r).file
           m == IF opts.direct THEN BufSize - n ELSE 0
           zeros == [i \in 1 .. m |-> 0]
<1>1. off[r] \in Nat /\ src[f] \in Seq(Int) /\ BufSize \in Nat
  BY ElemOK, CopyDataAssumption, ChunksAssumption DEF CopyInv, RankInv, Position, ListInv
<1>2. Data(f, off[r], n) \in Seq(Int) /\ Len(Data(f, off[r], n)) = n
  BY <1>1, Part DEF Data
<1>3. zeros \in Seq(Int) /\ Len(zeros) = m /\ m \in Nat
  <2>1. m \in Nat
    BY <1>1
  <2> HIDE DEF m
  <2>2. zeros \in [1 .. m -> Int]
    OBVIOUS
  <2> HIDE DEF zeros
  <2> QED
    BY <2>1, <2>2, Sequence
<1>4. Filled(r, n) = Data(f, off[r], n) \o zeros
  BY DEF Filled
<1> HIDE DEF zeros, m, f
<1> DEFINE d == Data(f, off[r], n)
<1> HIDE DEF d
<1>5. d \o zeros \in Seq(Int) /\ Len(d \o zeros) = Len(d) + Len(zeros)
  <2>1. d \in Seq(Int) /\ zeros \in Seq(Int)
    BY <1>2, <1>3 DEF d
  <2> QED
    BY <2>1, ConcatProperties, ZenonT(30)
<1>6. Filled(r, n) \in Seq(Int) /\ Len(Filled(r, n)) = n + m
  BY <1>2, <1>3, <1>4, <1>5 DEF d
<1> QED
  BY <1>1, <1>6 DEF m

LEMMA ReadStep ==
    ASSUME CopyInv, NEW r \in Ranks, Read(r)
    PROVE  CopyInv' /\ UNCHANGED dst
<1> DEFINE e == Elem(r)
<1>1. /\ pc[r] = "read" /\ off[r] < EndOf(e)
      /\ UNCHANGED <<lists, len, dst, elem, extents, ends>>
  BY DEF Read
<1>2. PICK n \in Transfers(Available(e.file, off[r], ToRead(r)), 1) :
         \/ /\ TooShort(r, n) /\ tries[r] + 1 < ReadTries
            /\ UNCHANGED <<pc, off, buf, put, got, vals>>
         \/ Fail(r, elem[r]) /\ UNCHANGED <<off, buf, put, got>>
         \/ /\ n > 0 /\ ~TooShort(r, n)
            /\ \/ off' = [off EXCEPT ![r] = After(r, n)] /\ UNCHANGED <<pc, buf, put, got>>
               \/ /\ buf' = [buf EXCEPT ![r] = Filled(r, n)]
                  /\ put' = [put EXCEPT ![r] = 0] /\ got' = [got EXCEPT ![r] = n]
                  /\ pc' = [pc EXCEPT ![r] = "write"] /\ UNCHANGED off
  BY <1>1 DEF Read
<1>3. /\ n \in Nat /\ n <= BufSize
      /\ n > 0 => off[r] + n <= Len(src[e.file])
      /\ ~opts.direct => off[r] + n <= EndOf(e)
  BY <1>1, ReadAmount
<1>4. /\ Shapes /\ RankInv(r) /\ elem[r] \in 1 .. Len(head[r]) /\ elem[r] \in Nat
      /\ SectionOK(e) /\ Position(e, off[r])
  BY <1>1, ElemOK DEF CopyInv, RankInv
<1>5. Elem(r)' = e /\ head' = head /\ opts' = opts
  BY <1>1 DEF Elem, lists
<1> HIDE DEF e
<1>6. CASE UNCHANGED <<pc, off, buf, put, got>>
  <2>1. RankInv(r)'
    BY <1>1, <1>4, <1>5, <1>6 DEF RankInv, Position, EndOf, WriteInv, e
  <2> QED
    BY <1>1, <1>6, <2>1, OthersStay, ListStays DEF CopyInv, Shapes, FilesInv, Files, lists
<1>7. CASE Fail(r, elem[r]) /\ UNCHANGED <<off, buf, put, got>>
  <2>1. pc' = [pc EXCEPT ![r] = "next"]
    BY <1>7 DEF Fail
  <2>2. RankInv(r)' /\ Shapes'
    BY <1>1, <1>4, <1>7, <2>1 DEF RankInv, Shapes
  <2>3. \A q \in Ranks \ {r} : pc'[q] = pc[q]
    BY <1>4, <2>1 DEF Shapes
  <2> QED
    BY <1>1, <1>7, <2>2, <2>3, OthersStay, ListStays DEF CopyInv, FilesInv, Files, lists
<1>8. CASE /\ n > 0 /\ ~TooShort(r, n)
           /\ off' = [off EXCEPT ![r] = After(r, n)] /\ UNCHANGED <<pc, buf, put, got>>
  <2>1. Position(e, off[r] + n)
    BY <1>1, <1>3, <1>8, NextPosition DEF e
  <2>2. off'[r] = off[r] + n
    BY <1>4, <1>8 DEF After, Shapes
  <2>3. RankInv(r)' /\ Shapes'
    BY <1>1, <1>4, <1>5, <1>8, <2>1, <2>2 DEF RankInv, Shapes, Position, EndOf
  <2>4. \A q \in Ranks \ {r} : off'[q] = off[q]
    BY <1>4, <1>8 DEF Shapes
  <2> QED
    BY <1>1, <1>8, <2>3, <2>4, OthersStay, ListStays DEF CopyInv, FilesInv, Files, lists
<1>9. CASE /\ n > 0 /\ ~TooShort(r, n)
           /\ buf' = [buf EXCEPT ![r] = Filled(r, n)]
           /\ put' = [put EXCEPT ![r] = 0] /\ got' = [got EXCEPT ![r] = n]
           /\ pc' = [pc EXCEPT ![r] = "write"] /\ UNCHANGED off
  <2>1. /\ Position(e, off[r] + n)
        /\ opts.direct => off[r] + BufSize <= EndOf(e) \/ EndOf(e) = e.size
    BY <1>1, <1>3, <1>9, NextPosition DEF e
  <2>2. Filled(r, n) \in Seq(Int) /\ Len(Filled(r, n)) = IF opts.direct THEN BufSize ELSE n
    BY <1>1, <1>3, <1>9, FilledBuffer DEF e
  <2>3. /\ buf'[r] = Filled(r, n) /\ put'[r] = 0 /\ got'[r] = n /\ pc'[r] = "write"
        /\ off'[r] = off[r] /\ off[r] \in Nat /\ e.offset <= off[r]
    BY <1>4, <1>9 DEF Shapes, Position
  <2>4. off[r] + Len(Filled(r, n)) <= EndOf(e) \/ EndOf(e) = e.size
    BY <1>3, <2>1, <2>2
  <2>5. Len(Filled(r, n)) \in Nat
    BY <1>3, <2>2, LenProperties
  <2>6. WriteInv(r)'
    BY <1>5, <2>1, <2>2, <2>3, <2>4, <2>5 DEF WriteInv, Position, EndOf
  <2>7. RankInv(r)' /\ Shapes'
    BY <1>1, <1>4, <1>5, <1>9, <2>3, <2>6 DEF RankInv, Shapes
  <2>8. \A q \in Ranks \ {r} : buf'[q] = buf[q] /\ put'[q] = put[q] /\ got'[q] = got[q]
                              /\ pc'[q] = pc[q]
    BY <1>4, <1>9 DEF Shapes
  <2> QED
    BY <1>1, <1>9, <2>7, <2>8, OthersStay, ListStays DEF CopyInv, FilesInv, Files, lists
<1> QED
  BY <1>1, <1>2, <1>6, <1>7, <1>8, <1>9

\* Only units of e are changed, and only the end of its file if e is the end of it.
Within(e) == \A f \in Files : \A i \in 0 .. size[f] - 1 :
                At(dst'[f], i) # At(dst[f], i) => Covers(e, f, i)
Reaches(e) == \A f \in Files : Len(dst[f]) = size[f] =>
                Len(dst'[f]) = size[f] \/ (f = e.file /\ LastOf(e))

LEMMA NothingWritten ==
    ASSUME UNCHANGED dst
    PROVE  Apart /\ \A e : Within(e) /\ Reaches(e)
BY DEF Apart, Within, Reaches

\* One write, of data at o in the file of the section that r is at.
LEMMA OneWrite ==
    ASSUME CopyInv, NEW r \in Ranks, pc[r] \in {"write", "fiemap"},
           NEW o \in Nat, NEW data \in Seq(Int), UNCHANGED size,
           dst' = [dst EXCEPT ![Elem(r).file] = Written(@, o, data)],
           Len(data) > 0 => Elem(r).offset <= o,
           o + Len(data) <= EndOf(Elem(r)) \/ EndOf(Elem(r)) = Elem(r).size
    PROVE  /\ dst' \in [Files -> Seq(Int)] /\ Apart /\ Within(Elem(r)) /\ Reaches(Elem(r))
           /\ \A i \in Nat : At(dst'[Elem(r).file], i) =
                 IF o <= i /\ i < o + Len(data) THEN data[i - o + 1] ELSE At(dst[Elem(r).file], i)
<1> DEFINE e == Elem(r)
<1>1. SectionOK(e) /\ e.file \in Files /\ dst \in [Files -> Seq(Int)]
  BY ElemOK DEF CopyInv, FilesInv
<1> HIDE DEF e
<1>2. dst' = [dst EXCEPT ![e.file] = Written(dst[e.file], o, data)]
  BY DEF e
<1>3. /\ Written(dst[e.file], o, data) \in Seq(Int)
      /\ \A i \in Nat : At(Written(dst[e.file], o, data), i) =
             IF o <= i /\ i < o + Len(data) THEN data[i - o + 1] ELSE At(dst[e.file], i)
      /\ Len(Written(dst[e.file], o, data)) =
             IF data = <<>> THEN Len(dst[e.file]) ELSE Most(Len(dst[e.file]), o + Len(data))
  BY <1>1, WrittenData
<1>4. dst' \in [Files -> Seq(Int)]
  BY <1>1, <1>2, <1>3
<1>5. ASSUME NEW f \in Files, NEW i \in 0 .. size[f] - 1, At(dst'[f], i) # At(dst[f], i)
      PROVE  Covers(e, f, i)
  <2>1. f = e.file
    BY <1>1, <1>2, <1>5
  <2>2. i \in Nat /\ i < e.size /\ e.size \in Nat
    BY <1>1, <2>1 DEF SectionOK, CopyInv, ListInv
  <2>3. dst'[f] = Written(dst[e.file], o, data)
    BY <1>1, <1>2, <2>1
  <2>4. o <= i /\ i < o + Len(data)
    BY <1>3, <1>5, <2>1, <2>2, <2>3
  <2>5. Len(data) \in Nat /\ e.offset \in Nat /\ e.length \in Int
    BY <1>1, LenProperties DEF SectionOK
  <2>6. Len(data) > 0
    BY <2>2, <2>4, <2>5
  <2>7. e.offset <= i /\ i < EndOf(e)
    BY <1>1, <2>2, <2>4, <2>5, <2>6, SMTT(30) DEF e, SectionOK, EndOf
  <2> QED
    BY <2>1, <2>7 DEF Covers, EndOf
<1>6. Within(e) /\ Apart
  BY <1>5 DEF Within, Apart, e
<1>7. dst'[e.file] = Written(dst[e.file], o, data)
  BY <1>1, <1>2
<1>8. Reaches(e)
  <2>1. ASSUME NEW f \in Files, Len(dst[f]) = size[f], f = e.file, ~LastOf(e)
        PROVE  Len(dst'[f]) = size[f]
    <3>1. o + Len(data) <= e.size /\ e.size = size[f]
      BY <1>1, <2>1, LenProperties DEF SectionOK, EndOf, LastOf, CopyInv, ListInv, e
    <3> QED
      BY <1>1, <1>3, <1>7, <2>1, <3>1, LenProperties DEF Most, CopyInv, ListInv
  <2>2. \A f \in Files : f # e.file => dst'[f] = dst[f]
    BY <1>1, <1>2
  <2> QED
    BY <2>1, <2>2 DEF Reaches
<1> QED
  BY <1>3, <1>4, <1>6, <1>7, <1>8 DEF e

\* The rest of a write, after n units.
GoesOn(r, n) ==
    IF AfterWrite(r, n) < Len(buf[r])
    THEN put' = [put EXCEPT ![r] = AfterWrite(r, n)] /\ UNCHANGED <<pc, off, buf, got>>
    ELSE /\ off' = [off EXCEPT ![r] = After(r, got[r])]
         /\ pc' = [pc EXCEPT ![r] = "read"]
         /\ buf' = [buf EXCEPT ![r] = <<>>]
         /\ put' = [put EXCEPT ![r] = 0] /\ got' = [got EXCEPT ![r] = 0]

\* What a write does.
LEMMA WriteEffect ==
    ASSUME CopyInv, NEW r \in Ranks, Write(r)
    PROVE  \E n \in Nat : \E data \in Seq(Int) :
              /\ put[r] + n <= Len(buf[r]) /\ Len(data) = n
              /\ \A j \in 1 .. n : data[j] = buf[r][put[r] + j]
              /\ dst' \in [Files -> Seq(Int)] /\ Apart /\ Within(Elem(r)) /\ Reaches(Elem(r))
              /\ \A i \in Nat : At(dst'[Elem(r).file], i) =
                    IF off[r] + put[r] <= i /\ i < off[r] + put[r] + n
                    THEN data[i - (off[r] + put[r]) + 1] ELSE At(dst[Elem(r).file], i)
              /\ GoesOn(r, n)
<1> DEFINE e == Elem(r)
           all == Len(buf[r]) - put[r]
<1>1. pc[r] = "write" /\ UNCHANGED <<lists, len, elem, tries, extents, vals, ends>>
  BY DEF Write
<1>2. /\ Shapes /\ WriteInv(r) /\ elem[r] \in 1 .. Len(head[r]) /\ elem[r] \in Nat
      /\ SectionOK(e)
  BY <1>1, ElemOK DEF CopyInv, RankInv
<1>3. /\ off[r] \in Nat /\ buf[r] \in Seq(Int) /\ Len(buf[r]) \in Nat
      /\ put[r] \in 0 .. Len(buf[r]) /\ all \in Nat
      /\ off[r] + Len(buf[r]) <= EndOf(e) \/ EndOf(e) = e.size
      /\ e.offset <= off[r] /\ e.offset \in Nat
  BY <1>2, LenProperties DEF WriteInv, SectionOK
<1>4. PICK n \in Transfers(all, 0) :
         /\ dst' = [dst EXCEPT ![e.file] =
                       Written(@, off[r] + put[r], SubSeq(buf[r], put[r] + 1, put[r] + n))]
         /\ GoesOn(r, n)
  BY DEF Write, GoesOn
<1>5. n \in 0 .. all
  BY <1>3, TransfersRange
<1> DEFINE data == SubSeq(buf[r], put[r] + 1, put[r] + n)
<1>6. data \in Seq(Int) /\ Len(data) = n /\ \A j \in 1 .. n : data[j] = buf[r][put[r] + j]
  <2>1. put[r] \in Nat /\ n \in Nat /\ put[r] + n <= Len(buf[r])
    BY <1>3, <1>5
  <2> QED
    BY <1>3, <2>1, Part
<1> HIDE DEF data
<1>7. /\ dst' \in [Files -> Seq(Int)] /\ Apart /\ Within(e) /\ Reaches(e)
      /\ \A i \in Nat : At(dst'[e.file], i) =
            IF off[r] + put[r] <= i /\ i < off[r] + put[r] + Len(data)
            THEN data[i - (off[r] + put[r]) + 1] ELSE At(dst[e.file], i)
  <2>1. off[r] + put[r] \in Nat /\ e.offset <= off[r] + put[r]
    BY <1>3
  <2>2. off[r] + put[r] + Len(data) <= EndOf(e) \/ EndOf(e) = e.size
    <3>1. EndOf(e) \in Int
      BY <1>2 DEF SectionOK, EndOf
    <3> QED
      BY <1>3, <1>5, <1>6, <3>1
  <2>3. dst' = [dst EXCEPT ![e.file] = Written(@, off[r] + put[r], data)] /\ UNCHANGED size
    BY <1>1, <1>4 DEF data, lists
  <2> QED
    BY <1>1, <1>6, <2>1, <2>2, <2>3, OneWrite
<1>8. n \in Nat /\ put[r] + n <= Len(buf[r])
  BY <1>3, <1>5
<1> QED
  BY <1>4, <1>6, <1>7, <1>8

LEMMA WriteStep ==
    ASSUME CopyInv, NEW r \in Ranks, Write(r)
    PROVE  CopyInv' /\ Apart
<1> DEFINE e == Elem(r)
<1>1. pc[r] = "write" /\ UNCHANGED <<lists, len, elem, tries, extents, vals, ends>>
  BY DEF Write
<1>2. /\ Shapes /\ WriteInv(r) /\ elem[r] \in 1 .. Len(head[r]) /\ elem[r] \in Nat
      /\ SectionOK(e)
  BY <1>1, ElemOK DEF CopyInv, RankInv
<1>3. put[r] \in Nat /\ Len(buf[r]) \in Nat /\ put[r] <= Len(buf[r])
  BY <1>2, LenProperties DEF WriteInv
<1>4. PICK n \in Nat :
         /\ put[r] + n <= Len(buf[r]) /\ dst' \in [Files -> Seq(Int)] /\ Apart
         /\ GoesOn(r, n)
  BY WriteEffect
<1>8. Elem(r)' = e /\ head' = head /\ opts' = opts
  BY <1>1 DEF Elem, lists
<1> HIDE DEF e
<1>9. RankInv(r)' /\ Shapes' /\ \A q \in Ranks \ {r} : /\ pc'[q] = pc[q] /\ off'[q] = off[q]
                                                       /\ buf'[q] = buf[q] /\ put'[q] = put[q]
                                                       /\ got'[q] = got[q]
  <2>1. CASE /\ AfterWrite(r, n) < Len(buf[r])
             /\ put' = [put EXCEPT ![r] = AfterWrite(r, n)] /\ UNCHANGED <<pc, off, buf, got>>
    <3>1. put'[r] \in 0 .. Len(buf[r])
      BY <1>2, <1>3, <1>4, <2>1 DEF AfterWrite, Shapes
    <3>2. WriteInv(r)'
      BY <1>2, <1>8, <2>1, <3>1 DEF WriteInv, Position, EndOf, e
    <3> QED
      BY <1>1, <1>2, <1>8, <2>1, <3>2 DEF RankInv, Shapes
  <2>2. CASE /\ off' = [off EXCEPT ![r] = After(r, got[r])]
             /\ pc' = [pc EXCEPT ![r] = "read"]
             /\ buf' = [buf EXCEPT ![r] = <<>>]
             /\ put' = [put EXCEPT ![r] = 0] /\ got' = [got EXCEPT ![r] = 0]
    <3>1. off'[r] = off[r] + got[r] /\ pc'[r] = "read"
      BY <1>2, <2>2 DEF Shapes, After
    <3>2. Position(Elem(r), off[r])'
      BY <1>2, <1>8, <3>1 DEF WriteInv, Position, EndOf, e
    <3> QED
      BY <1>1, <1>2, <1>8, <2>2, <3>1, <3>2 DEF RankInv, Shapes
  <2> QED
    BY <1>4, <2>1, <2>2 DEF GoesOn
<1>10. \A q \in Ranks : RankInv(q)'
  BY <1>1, <1>9, OthersStay
<1>11. FilesInv'
  BY <1>1, <1>4 DEF CopyInv, FilesInv, Files, lists
<1> QED
  BY <1>1, <1>4, <1>9, <1>10, <1>11, ListStays DEF CopyInv

\* The run of units that mfu_copy_file_fiemap reads lies in the extents.
LEMMA Run ==
    ASSUME NEW X, NEW o \in X, X \subseteq Nat
    PROVE  LET n == CHOOSE n \in 1 .. BufSize : /\ o .. o + n - 1 \subseteq X
                                                /\ n = BufSize \/ o + n \notin X
           IN  n \in 1 .. BufSize /\ o .. o + n - 1 \subseteq X
<1> DEFINE T == {n \in Nat : n # 0 /\ (n = BufSize \/ o + n \notin X)}
<1>1. BufSize \in T /\ T \subseteq Nat /\ o \in Nat
  BY CopyDataAssumption, ChunksAssumption
<1>2. PICK n \in T : \A m \in T : n <= m
  BY <1>1, LeastNumber
<1>3. n \in 1 .. BufSize /\ (n = BufSize \/ o + n \notin X)
  BY <1>1, <1>2
<1>4. ASSUME NEW i \in o .. o + n - 1
      PROVE  i \in X
  <2>1. CASE i = o
    BY <2>1
  <2>2. CASE i # o
    <3>1. i - o \in Nat /\ i - o # 0 /\ i - o < n /\ o + (i - o) = i
      BY <1>1, <1>2, <2>2
    <3>2. i - o \notin T
      BY <1>2, <3>1
    <3> QED
      BY <3>1, <3>2
  <2> QED
    BY <2>1, <2>2
<1> DEFINE Good(k) == o .. o + k - 1 \subseteq X /\ (k = BufSize \/ o + k \notin X)
<1>5. n \in 1 .. BufSize /\ Good(n)
  BY <1>3, <1>4
<1> HIDE DEF Good
<1>6. LET k == CHOOSE k \in 1 .. BufSize : Good(k) IN k \in 1 .. BufSize /\ Good(k)
  BY <1>5
<1> QED
  BY <1>6 DEF Good

\* The part of a source that was read.
LEMMA DataRead ==
    ASSUME ListInv, NEW f \in Files, NEW o \in Nat, NEW n \in Nat, o + n <= Len(src[f])
    PROVE  /\ Data(f, o, n) \in Seq(Int) /\ Len(Data(f, o, n)) = n
           /\ \A j \in 0 .. n - 1 : Data(f, o, n)[j + 1] = At(src[f], o + j)
<1>1. src[f] \in Seq(Int) /\ Len(src[f]) \in Nat
  BY LenProperties DEF ListInv
<1>2. /\ SubSeq(src[f], o + 1, o + n) \in Seq(Int) /\ Len(SubSeq(src[f], o + 1, o + n)) = n
      /\ \A j \in 1 .. n : SubSeq(src[f], o + 1, o + n)[j] = src[f][o + j]
  BY <1>1, Part
<1>3. ASSUME NEW j \in 0 .. n - 1
      PROVE  Data(f, o, n)[j + 1] = At(src[f], o + j)
  BY <1>1, <1>2 DEF Data, At
<1> QED
  BY <1>2, <1>3 DEF Data

\* What a step of mfu_copy_file_fiemap does: n units are copied, or none if the source
\* ends before them, or the section fails.
Copies(r, o, n) ==
    LET f == Elem(r).file
    IN  /\ o \in Nat /\ n \in Nat /\ o \in extents[r] /\ o .. o + n - 1 \subseteq extents[r]
        /\ n = 0 => len[f] <= o
        /\ \A i \in Nat : At(dst'[f], i) =
              IF o <= i /\ i < o + n THEN At(src[f], i) ELSE At(dst[f], i)
        /\ extents' = [extents EXCEPT ![r] = IF n = 0 THEN {} ELSE @ \ (o .. o + n - 1)]
        /\ UNCHANGED <<pc, vals>>

LEMMA FiemapEffect ==
    ASSUME CopyInv, NEW r \in Ranks, Fiemap(r)
    PROVE  /\ (\E o, n : Copies(r, o, n)) \/ (Fail(r, elem[r]) /\ UNCHANGED <<dst, extents>>)
           /\ dst' \in [Files -> Seq(Int)] /\ Apart /\ Within(Elem(r)) /\ Reaches(Elem(r))
<1> DEFINE e == Elem(r)
           o == CHOOSE i \in extents[r] : \A j \in extents[r] : i <= j
           left == CHOOSE n \in 1 .. BufSize : /\ o .. o + n - 1 \subseteq extents[r]
                                               /\ n = BufSize \/ o + n \notin extents[r]
           all == Available(e.file, o, left)
<1>1. /\ pc[r] = "fiemap" /\ extents[r] # {}
      /\ UNCHANGED <<lists, len, elem, off, buf, put, got, tries, ends>>
  BY DEF Fiemap
<1>2. /\ Shapes /\ elem[r] \in 1 .. Len(head[r]) /\ elem[r] \in Nat /\ SectionOK(e)
      /\ extents[r] \subseteq e.offset .. EndOf(e) - 1
  BY <1>1, ElemOK DEF CopyInv, RankInv
<1>3. extents[r] \subseteq Nat
  BY <1>2 DEF SectionOK, EndOf
<1>4. \/ \E n \in Transfers(all, 1) :
            /\ dst' = [dst EXCEPT ![e.file] = Written(@, o, Data(e.file, o, n))]
            /\ extents' = [extents EXCEPT ![r] = IF n = 0 THEN {} ELSE @ \ (o .. o + n - 1)]
            /\ UNCHANGED <<pc, vals>>
      \/ Fail(r, elem[r]) /\ UNCHANGED <<dst, extents>>
  BY DEF Fiemap
<1>5. o \in extents[r]
  BY <1>1, <1>3, LeastNumber
<1>6. left \in 1 .. BufSize /\ o .. o + left - 1 \subseteq extents[r]
  <2> HIDE DEF o
  <2> QED
    BY <1>3, <1>5, Run, ZenonT(30)
<1> HIDE DEF left, o
<1>7. /\ len[e.file] \in Nat /\ len[e.file] <= Len(src[e.file]) /\ src[e.file] \in Seq(Int)
      /\ Len(src[e.file]) \in Nat /\ o \in Nat /\ BufSize \in Nat
  BY <1>2, <1>3, <1>5, CopyDataAssumption, ChunksAssumption DEF SectionOK, CopyInv, FilesInv, ListInv
<1>8. all \in Nat /\ all <= left /\ (all > 0 => o + all <= len[e.file]) /\ (all = 0 => len[e.file] <= o)
  BY <1>6, <1>7 DEF Available, Least, Most
<1> HIDE DEF all
<1>9. ASSUME NEW n \in Transfers(all, 1),
             dst' = [dst EXCEPT ![e.file] = Written(@, o, Data(e.file, o, n))],
             extents' = [extents EXCEPT ![r] = IF n = 0 THEN {} ELSE @ \ (o .. o + n - 1)],
             UNCHANGED <<pc, vals>>
      PROVE  Copies(r, o, n) /\ dst' \in [Files -> Seq(Int)] /\ Apart /\ Within(e) /\ Reaches(e)
  <2>1. n \in 0 .. all /\ n \in Nat
    BY <1>8, TransfersRange
  <2>2. n = 0 => all = 0
    BY <1>8 DEF Transfers
  <2>3. o .. o + n - 1 \subseteq extents[r]
    <3>1. left \in Nat /\ n <= left
      BY <1>6, <1>7, <1>8, <2>1
    <3>2. o .. o + n - 1 \subseteq o .. o + left - 1
      BY <1>7, <2>1, <3>1
    <3> QED
      BY <1>6, <3>2
  <2>4. o + n <= Len(src[e.file]) /\ e.file \in Files
    <3>1. n = 0 => o < Len(src[e.file])
      BY <1>2, <1>5, <1>7 DEF SectionOK, EndOf, CopyInv, ListInv
    <3> QED
      BY <1>2, <1>7, <1>8, <2>1, <2>2, <3>1 DEF SectionOK
  <2> DEFINE data == Data(e.file, o, n)
  <2>5. data \in Seq(Int) /\ Len(data) = n /\ \A j \in 0 .. n - 1 : data[j + 1] = At(src[e.file], o + j)
    BY <1>7, <2>1, <2>4, DataRead DEF CopyInv
  <2>6. dst' = [dst EXCEPT ![e.file] = Written(@, o, data)] /\ UNCHANGED size
    BY <1>1, <1>9 DEF lists
  <2> HIDE DEF data
  <2>7. n > 0 => e.offset <= o
    BY <1>2, <1>5 DEF SectionOK, EndOf
  <2>8. o + n <= EndOf(e)
    <3>1. CASE n = 0
      BY <1>2, <1>5, <1>7, <3>1 DEF SectionOK, EndOf
    <3>2. CASE n # 0
      <4>1. o + n - 1 \in extents[r]
        BY <1>7, <2>1, <2>3, <3>2
      <4> QED
        BY <1>2, <1>7, <2>1, <4>1 DEF SectionOK, EndOf
    <3> QED
      BY <3>1, <3>2
  <2>9. /\ dst' \in [Files -> Seq(Int)] /\ Apart /\ Within(e) /\ Reaches(e)
        /\ \A i \in Nat : At(dst'[e.file], i) =
              IF o <= i /\ i < o + Len(data) THEN data[i - o + 1] ELSE At(dst[e.file], i)
    <3>1. pc[r] \in {"write", "fiemap"} /\ UNCHANGED size
      BY <1>1, <2>6
    <3>2. dst' = [dst EXCEPT ![Elem(r).file] = Written(@, o, data)]
      BY <2>6
    <3>3. /\ Len(data) > 0 => Elem(r).offset <= o
          /\ o + Len(data) <= EndOf(Elem(r)) \/ EndOf(Elem(r)) = Elem(r).size
      BY <2>5, <2>7, <2>8
    <3> HIDE DEF e
    <3>4. /\ dst' \in [Files -> Seq(Int)] /\ Apart /\ Within(Elem(r)) /\ Reaches(Elem(r))
          /\ \A i \in Nat : At(dst'[Elem(r).file], i) =
                IF o <= i /\ i < o + Len(data) THEN data[i - o + 1] ELSE At(dst[Elem(r).file], i)
      BY <1>7, <2>5, <3>1, <3>2, <3>3, OneWrite
    <3> QED
      BY <3>4 DEF e
  <2>10. ASSUME NEW i \in Nat
         PROVE  At(dst'[e.file], i) = IF o <= i /\ i < o + n THEN At(src[e.file], i) ELSE At(dst[e.file], i)
    <3>1. CASE o <= i /\ i < o + n
      <4>1. i - o \in 0 .. n - 1 /\ o + (i - o) = i
        BY <1>7, <2>1, <3>1
      <4>2. data[i - o + 1] = At(src[e.file], i)
        BY <2>5, <4>1
      <4> QED
        BY <2>5, <2>9, <3>1, <4>2
    <3>2. CASE ~(o <= i /\ i < o + n)
      BY <2>5, <2>9, <3>2
    <3> QED
      BY <3>1, <3>2
  <2>11. Copies(r, o, n)
    BY <1>5, <1>7, <1>8, <1>9, <2>1, <2>2, <2>3, <2>10 DEF Copies, e
  <2> QED
    BY <2>9, <2>11
<1>10. ASSUME UNCHANGED dst
       PROVE  dst' \in [Files -> Seq(Int)] /\ Apart /\ Within(e) /\ Reaches(e)
  BY <1>1, <1>10, NothingWritten DEF CopyInv, FilesInv, Files, lists
<1> QED
  BY <1>4, <1>9, <1>10

LEMMA FiemapStep ==
    ASSUME CopyInv, NEW r \in Ranks, Fiemap(r)
    PROVE  CopyInv' /\ Apart
<1> DEFINE e == Elem(r)
<1>1. /\ pc[r] = "fiemap"
      /\ UNCHANGED <<lists, len, elem, off, buf, put, got, tries, ends>>
  BY DEF Fiemap
<1>2. /\ Shapes /\ elem[r] \in 1 .. Len(head[r]) /\ elem[r] \in Nat
      /\ extents[r] \subseteq e.offset .. EndOf(e) - 1
  BY <1>1 DEF CopyInv, RankInv
<1>3. (\E o, n : Copies(r, o, n)) \/ (Fail(r, elem[r]) /\ UNCHANGED <<dst, extents>>)
  BY FiemapEffect
<1>4. dst' \in [Files -> Seq(Int)] /\ Apart
  BY FiemapEffect
<1>9. Elem(r)' = e /\ head' = head /\ opts' = opts
  BY <1>1 DEF Elem, lists
<1> HIDE DEF e
<1>10. /\ pc' = pc \/ pc' = [pc EXCEPT ![r] = "next"]
       /\ extents' = extents \/ \E x \in SUBSET extents[r] : extents' = [extents EXCEPT ![r] = x]
  BY <1>3 DEF Fail, Copies
<1>11. RankInv(r)' /\ Shapes' /\ \A q \in Ranks \ {r} : pc'[q] = pc[q] /\ extents'[q] = extents[q]
  <2>1. extents'[r] \subseteq extents[r] /\ pc'[r] \in {"fiemap", "next"}
    BY <1>1, <1>2, <1>10 DEF Shapes
  <2>2. RankInv(r)'
    BY <1>1, <1>2, <1>9, <2>1 DEF RankInv
  <2>3. Shapes'
    BY <1>1, <1>2, <1>10 DEF Shapes
  <2> QED
    BY <1>2, <1>10, <2>2, <2>3 DEF Shapes
<1>13. \A q \in Ranks : RankInv(q)'
  BY <1>1, <1>11, OthersStay
<1>14. FilesInv'
  BY <1>1, <1>4 DEF CopyInv, FilesInv, Files, lists
<1> QED
  BY <1>1, <1>11, <1>4, <1>13, <1>14, ListStays DEF CopyInv

\* What the end of a section does.
LEMMA EndEffect ==
    ASSUME CopyInv, NEW r \in Ranks, EndSection(r)
    PROVE  /\ dst' \in [Files -> Seq(Int)] /\ Apart /\ Within(Elem(r)) /\ Reaches(Elem(r))
           /\ \A f \in Files : \A i \in 0 .. size[f] - 1 : At(dst'[f], i) = At(dst[f], i)
           /\ \/ /\ pc' = [pc EXCEPT ![r] = "next"] /\ UNCHANGED vals
                 /\ LastOf(Elem(r)) => Len(dst'[Elem(r).file]) = size[Elem(r).file]
              \/ Fail(r, elem[r])
<1> DEFINE e == Elem(r)
<1>1. pc[r] \in {"read", "fiemap"} /\ UNCHANGED <<lists, len, elem, buffer, ends>>
  BY DEF EndSection
<1>2. Shapes /\ SectionOK(e) /\ e.file \in Files /\ elem[r] \in Nat
  BY <1>1, ElemOK DEF CopyInv, RankInv
<1>3. \/ /\ dst' = IF LastOf(e) THEN [dst EXCEPT ![e.file] = Truncated(@, e.size)] ELSE dst
         /\ pc' = [pc EXCEPT ![r] = "next"] /\ UNCHANGED vals
      \/ Fail(r, elem[r]) /\ UNCHANGED dst
  BY DEF EndSection
<1>4. dst' = dst \/ (LastOf(e) /\ dst' = [dst EXCEPT ![e.file] = Truncated(@, e.size)])
  BY <1>3
<1> HIDE DEF e
<1>5. dst \in [Files -> Seq(Int)] /\ e.size \in Nat /\ e.size = size[e.file]
  BY <1>2 DEF CopyInv, FilesInv, ListInv, SectionOK
<1>6. /\ Truncated(dst[e.file], e.size) \in Seq(Int) /\ Len(Truncated(dst[e.file], e.size)) = e.size
      /\ \A i \in 0 .. e.size - 1 : At(Truncated(dst[e.file], e.size), i) = At(dst[e.file], i)
  BY <1>2, <1>5, TruncatedOnly
<1>7. dst' \in [Files -> Seq(Int)]
  BY <1>2, <1>4, <1>5, <1>6
<1>8. ASSUME NEW f \in Files, NEW i \in 0 .. size[f] - 1
      PROVE  At(dst'[f], i) = At(dst[f], i)
  <2>1. CASE f = e.file /\ dst' # dst
    <3>1. dst'[f] = Truncated(dst[e.file], e.size)
      BY <1>2, <1>4, <1>5, <2>1
    <3> QED
      BY <1>5, <1>6, <2>1, <3>1
  <2>2. CASE ~(f = e.file /\ dst' # dst)
    <3>1. dst'[f] = dst[f]
      BY <1>4, <1>5, <2>2
    <3> QED
      BY <3>1
  <2> QED
    BY <2>1, <2>2
<1>9. Apart /\ Within(e)
  BY <1>8 DEF Apart, Within
<1>10. Reaches(e)
  <2>1. \A f \in Files : dst'[f] # dst[f] => f = e.file /\ LastOf(e)
    BY <1>2, <1>4, <1>5
  <2> QED
    BY <2>1 DEF Reaches
<1>11. \/ /\ pc' = [pc EXCEPT ![r] = "next"] /\ UNCHANGED vals
          /\ LastOf(e) => Len(dst'[e.file]) = size[e.file]
       \/ Fail(r, elem[r])
  BY <1>2, <1>3, <1>5, <1>6
<1> QED
  BY <1>7, <1>8, <1>9, <1>10, <1>11 DEF e

LEMMA EndSectionStep ==
    ASSUME CopyInv, NEW r \in Ranks, EndSection(r)
    PROVE  CopyInv' /\ Apart
<1>1. pc[r] \in {"read", "fiemap"} /\ UNCHANGED <<lists, len, elem, buffer, ends>>
  BY DEF EndSection
<1>2. Shapes /\ elem[r] \in Nat
  BY <1>1 DEF CopyInv, RankInv
<1>3. dst' \in [Files -> Seq(Int)] /\ Apart /\ pc' = [pc EXCEPT ![r] = "next"]
  BY EndEffect DEF Fail
<1>4. RankInv(r)' /\ Shapes' /\ \A q \in Ranks \ {r} : pc'[q] = pc[q]
  BY <1>1, <1>2, <1>3 DEF RankInv, Shapes, buffer
<1>5. \A q \in Ranks : RankInv(q)'
  BY <1>1, <1>4, OthersStay DEF buffer
<1>6. FilesInv'
  BY <1>1, <1>3 DEF CopyInv, FilesInv, Files, lists
<1> QED
  BY <1>1, <1>3, <1>4, <1>5, <1>6, ListStays DEF CopyInv

LEMMA CloseStep ==
    ASSUME CopyInv, NEW r \in Ranks, Close(r)
    PROVE  CopyInv' /\ UNCHANGED dst
<1>1. pc' = [pc EXCEPT ![r] = "closed"] /\ UNCHANGED <<lists, len, dst, elem, buffer>>
  BY DEF Close
<1>2. Shapes /\ elem[r] \in Nat
  BY DEF CopyInv, RankInv
<1>3. RankInv(r)' /\ Shapes' /\ \A q \in Ranks \ {r} : pc'[q] = pc[q]
  BY <1>1, <1>2 DEF RankInv, Shapes, buffer
<1>4. \A q \in Ranks : RankInv(q)'
  BY <1>1, <1>3, OthersStay DEF buffer
<1> QED
  BY <1>1, <1>3, <1>4, ListStays DEF CopyInv, FilesInv, Files, lists

LEMMA ShrinkStep ==
    ASSUME CopyInv, NEW f \in Files, Shrink(f)
    PROVE  CopyInv' /\ UNCHANGED dst
<1>1. UNCHANGED <<lists, dst, pc, elem, buffer>>
  BY DEF Shrink
<1>2. PICK n \in 0 .. len[f] - 1 : len' = [len EXCEPT ![f] = n]
  BY DEF Shrink
<1>3. FilesInv'
  BY <1>1, <1>2 DEF CopyInv, FilesInv, ListInv, Files, lists
<1>4. Shapes' /\ \A r \in Ranks : RankInv(r)'
  BY <1>1 DEF CopyInv, Shapes, RankInv, WriteInv, Position, Elem, EndOf, lists, buffer
<1> QED
  BY <1>1, <1>3, <1>4, ListStays DEF CopyInv

LEMMA ReportStep ==
    ASSUME CopyInv, Report
    PROVE  CopyInv' /\ UNCHANGED dst
<1>1. pc' = [r \in Ranks |-> "done"] /\ UNCHANGED <<lists, len, dst, elem, buffer>>
  BY DEF Report
<1>2. Shapes' /\ \A r \in Ranks : RankInv(r)'
  BY <1>1 DEF CopyInv, Shapes, RankInv, buffer
<1> QED
  BY <1>1, <1>2, ListStays DEF CopyInv, FilesInv, Files, lists

LEMMA CopyStep ==
    ASSUME CopyInv, [Next]_vars
    PROVE  CopyInv' /\ [Apart]_vars
<1>1. ASSUME UNCHANGED vars
      PROVE  CopyInv'
  <2>1. UNCHANGED <<lists, len, dst, pc, elem, buffer>>
    BY <1>1 DEF vars
  <2>2. Shapes' /\ \A r \in Ranks : RankInv(r)'
    BY <2>1 DEF CopyInv, Shapes, RankInv, WriteInv, Position, Elem, EndOf, lists, buffer
  <2> QED
    BY <2>1, <2>2, ListStays DEF CopyInv, FilesInv, Files, lists
<1>2. ASSUME NEW r \in Ranks, StartSection(r)
      PROVE  CopyInv' /\ Apart
  BY <1>2, StartSectionStep, NothingWritten DEF StartSection
<1>3. ASSUME Next, ~UNCHANGED vars
      PROVE  CopyInv' /\ Apart
  BY <1>2, <1>3, ReadStep, WriteStep, FiemapStep, EndSectionStep, CloseStep, ShrinkStep,
     ReportStep, NothingWritten DEF Next, Done
<1> QED
  BY <1>1, <1>3

\* A rank that copies data, buffers of O_DIRECT and the final truncate included,
\* changes none outside its section (mfu_copy_files), whatever the sizes.
THEOREM RanksStayApart == Spec => SectionsApart
<1>1. Init => CopyInv
  BY CopyInit
<1>2. CopyInv /\ [Next]_vars => CopyInv' /\ [Apart]_vars
  BY CopyStep
<1> QED
  BY <1>1, <1>2, PTL DEF Spec, SectionsApart

-----------------------------------------------------------------------------
(* Sharing out                                                               *)

\* If no item is listed twice, the sections share out the files.
LEMMA SharedUnits ==
    ASSUME SharedOut
    PROVE  EachUnitOnce
<1>1. Heads(head, part, size) /\ Distinct(part) /\ \A r \in Ranks : part[r] \in Seq(Names)
  BY DEF SharedOut
<1>2. ASSUME NEW f \in Listed
      PROVE  /\ \A i \in 0 .. size[f] - 1 :
                    Cardinality({s \in Sections : Covers(ItemAt(head, s), f, i)}) = 1
             /\ Cardinality({s \in Sections :
                                ItemAt(head, s).file = f /\ LastOf(ItemAt(head, s))}) = 1
  <2>1. PICK r \in Ranks : f \in ToSet(part[r]) /\ f \in Files
    BY DEF Listed
  <2>2. PICK k \in DOMAIN part[r] : part[r][k] = f
    BY <2>1 DEF ToSet
  <2>3. k \in 1 .. Len(part[r])
    BY <1>1, <2>2, LenProperties
  <2> DEFINE x == <<r, k>>
  <2>4. x \in FilePlaces(part, size) /\ ItemAt(part, x) = f
    BY <2>1, <2>2, <2>3 DEF FilePlaces, Places, ItemAt, Files
  <2> HIDE DEF x
  <2>5. /\ \A i \in 0 .. size[f] - 1 : \E s \in Sections : \A t \in Sections :
              Covers(ItemAt(head, t), f, i) <=> t = s
        /\ \E s \in Sections : \A t \in Sections :
              ItemAt(head, t).file = f /\ LastOf(ItemAt(head, t)) <=> t = s
    BY <1>1, <2>4, UnitsOnce DEF Sections
  <2>6. ASSUME NEW i \in 0 .. size[f] - 1
        PROVE  Cardinality({s \in Sections : Covers(ItemAt(head, s), f, i)}) = 1
    <3>1. PICK s \in Sections : \A t \in Sections : Covers(ItemAt(head, t), f, i) <=> t = s
      BY <2>5
    <3>2. {t \in Sections : Covers(ItemAt(head, t), f, i)} = {s}
      BY <3>1
    <3> QED
      BY <3>2, FS_Singleton
  <2>7. PICK s \in Sections : \A t \in Sections :
           ItemAt(head, t).file = f /\ LastOf(ItemAt(head, t)) <=> t = s
    BY <2>5
  <2>8. {t \in Sections : ItemAt(head, t).file = f /\ LastOf(ItemAt(head, t))} = {s}
    BY <2>7
  <2> QED
    BY <2>6, <2>8, FS_Singleton
<1> QED
  BY <1>2 DEF EachUnitOnce

\* The sections given to the ranks share out the files: a unit of a file is copied by one
\* rank, and one rank sets the size of the file (mfu_file_chunk_list_alloc), for every
\* number of ranks, chunk size and list.
THEOREM UnitsShared == Spec => []EachUnitOnce
<1>1. Init => SharedOut
  BY SharedInit
<1>2. SharedOut /\ [Next]_vars => SharedOut'
  <2>1. [Next]_vars => UNCHANGED lists
    BY DEF Next, vars, StartSection, Read, Write, Fiemap, EndSection, Close, Shrink, Report, Done
  <2> QED
    BY <2>1 DEF lists, SharedOut
<1>3. SharedOut => EachUnitOnce
  BY SharedUnits
<1> QED
  BY <1>1, <1>2, <1>3, PTL DEF Spec

-----------------------------------------------------------------------------
(* The data                                                                  *)

\* Where a copy is at a section, which is the s[2]-th of rank s[1].
Waiting(s) == s[2] > elem[s[1]]
Working(s, q) == s[2] = elem[s[1]] /\ pc[s[1]] = q
Over(s) == s[2] < elem[s[1]] \/ (s[2] = elem[s[1]] /\ pc[s[1]] \in {"next", "closed", "done"})

\* A unit is as in the source, or nothing has been written there if the copy is sparse;
\* and a copy by fiemap may miss that the source was cut.
Right(f, i) == At(dst[f], i) = At(src[f], i)
Blank(f, i) == opts.sparse => At(dst[f], i) = 0
Excused(f) == opts.sparse /\ opts.fiemap /\ len[f] < size[f]

\* A unit of a section: what was passed is right, what is to come is blank.
UnitOK(s, i) ==
    LET r == s[1]
        f == ItemAt(head, s).file
    IN  /\ Waiting(s) => Blank(f, i)
        /\ Working(s, "read") => IF i < off[r] THEN Right(f, i) ELSE Blank(f, i)
        /\ Working(s, "write") => /\ i < off[r] + put[r] => Right(f, i)
                                  /\ i >= off[r] + got[r] => Blank(f, i)
        /\ Working(s, "fiemap") => /\ opts.sparse /\ opts.fiemap
                                   /\ i \in extents[r] \/ Right(f, i) \/ Excused(f)
        /\ Over(s) => ItemAt(vals, s) \/ Right(f, i) \/ Excused(f)
UnitsOf(e) == e.offset .. EndOf(e) - 1
UnitInv(s) == \A i \in UnitsOf(ItemAt(head, s)) : UnitOK(s, i)

\* The end of a file stays where the rank with the last section has put it.
EndInv(s) ==
    LET e == ItemAt(head, s)
    IN  Over(s) /\ LastOf(e) => ItemAt(vals, s) \/ Len(dst[e.file]) = size[e.file]

\* A section.
LEMMA SectionsOK ==
    ASSUME ListInv, NEW s \in Sections
    PROVE  /\ s[1] \in Ranks /\ s[2] \in 1 .. Len(head[s[1]]) /\ s = <<s[1], s[2]>>
           /\ s[2] \in Nat /\ SectionOK(ItemAt(head, s))
<1>1. \A r \in Ranks : Len(head[r]) \in Nat
  BY DEF ListInv
<1>2. s \in Int \X Int
  BY <1>1, PlacesFinite DEF Sections
<1>3. s = <<s[1], s[2]>>
  BY <1>2
<1>4. s[1] \in Ranks /\ s[2] \in 1 .. Len(head[s[1]])
  BY <1>1, <1>3, PlacesFinite DEF Sections
<1> QED
  BY <1>1, <1>3, <1>4 DEF ListInv, ItemAt

LEMMA SectionAt ==
    ASSUME ListInv, NEW r \in Ranks, NEW k \in 1 .. Len(head[r])
    PROVE  /\ <<r, k>> \in Sections /\ ItemAt(head, <<r, k>>) = head[r][k]
           /\ SectionOK(head[r][k])
<1>1. \A q \in Ranks : Len(head[q]) \in Nat
  BY DEF ListInv
<1> QED
  BY <1>1, PlacesFinite DEF Sections, ItemAt, ListInv

\* No two sections have a unit, or the end of a file, in common.
LEMMA OneEach ==
    ASSUME SharedOut, ListInv, NEW s \in Sections, NEW t \in Sections
    PROVE  /\ \A f : \A i \in Int :
                 Covers(ItemAt(head, s), f, i) /\ Covers(ItemAt(head, t), f, i) => s = t
           /\ /\ ItemAt(head, s).file = ItemAt(head, t).file
              /\ LastOf(ItemAt(head, s)) /\ LastOf(ItemAt(head, t))
              => s = t
<1> DEFINE x == PlaceOf(s, part, size)
           f == ItemAt(part, x)
<1>1. Heads(head, part, size) /\ Distinct(part) /\ s \in Places(head) /\ t \in Places(head)
  BY DEF SharedOut, Sections
<1>2. x \in FilePlaces(part, size)
  BY <1>1, HeadsAre DEF PlacesFor
<1>3. ItemAt(head, s).file = f
  <2> HIDE DEF f
  <2>1. PlaceOf(s, part, size) = x
    OBVIOUS
  <2> HIDE DEF x
  <2> QED
    BY <1>1, <1>2, <2>1, SectionsOfFile DEF f
<1> HIDE DEF x
<1>4. /\ \A i \in 0 .. size[f] - 1 : \E u \in Places(head) : \A v \in Places(head) :
            Covers(ItemAt(head, v), f, i) <=> v = u
      /\ \E u \in Places(head) : \A v \in Places(head) :
            ItemAt(head, v).file = f /\ LastOf(ItemAt(head, v)) <=> v = u
  BY <1>1, <1>2, UnitsOnce
<1> HIDE DEF f
<1>5. SectionOK(ItemAt(head, s))
  BY SectionsOK
<1>6. ASSUME NEW g, NEW i \in Int, Covers(ItemAt(head, s), g, i), Covers(ItemAt(head, t), g, i)
      PROVE  s = t
  <2>1. g = f
    BY <1>3, <1>6 DEF Covers
  <2>2. i \in 0 .. size[f] - 1
    BY <1>3, <1>5, <1>6 DEF Covers, SectionOK, EndOf, ListInv
  <2> QED
    BY <1>1, <1>4, <1>6, <2>1, <2>2
<1> QED
  BY <1>1, <1>3, <1>4, <1>6

\* What a step leaves of a section: its units, and if it is over the end of its file.
LEMMA SectionKept ==
    ASSUME ListInv, FilesInv, NEW s \in Sections, UnitInv(s), EndInv(s), UNCHANGED lists,
           \A f \in Files : len'[f] \in Nat /\ len'[f] <= len[f],
           Waiting(s)' => Waiting(s), Over(s)' => Over(s),
           \A q \in {"read", "write", "fiemap"} : Working(s, q)' =>
              /\ Working(s, q)
              /\ off'[s[1]] = off[s[1]] /\ put'[s[1]] = put[s[1]] /\ got'[s[1]] = got[s[1]]
              /\ extents'[s[1]] = extents[s[1]],
           ItemAt(vals', s) = ItemAt(vals, s),
           \A i \in UnitsOf(ItemAt(head, s)) :
              At(dst'[ItemAt(head, s).file], i) = At(dst[ItemAt(head, s).file], i),
           Over(s) /\ LastOf(ItemAt(head, s))
              /\ Len(dst[ItemAt(head, s).file]) = size[ItemAt(head, s).file]
              => Len(dst'[ItemAt(head, s).file]) = size[ItemAt(head, s).file]
    PROVE  UnitInv(s)' /\ EndInv(s)'
<1> DEFINE e == ItemAt(head, s)
<1>1. SectionOK(e) /\ e.file \in Files /\ size' = size /\ src' = src /\ opts' = opts /\ head' = head
  BY SectionsOK DEF SectionOK, lists
<1>2. PICK f : f = e.file
  OBVIOUS
<1>3. ItemAt(head, s)' = e
  BY <1>1 DEF ItemAt
<1> HIDE DEF e
<1>4. Excused(f) => Excused(f)'
  <2>1. len[f] \in Nat /\ len'[f] \in Nat /\ len'[f] <= len[f] /\ size[f] \in Nat
    BY <1>1, <1>2 DEF FilesInv, ListInv
  <2> QED
    BY <1>1, <2>1 DEF Excused
<1>5. ASSUME NEW i \in UnitsOf(e)
      PROVE  UnitOK(s, i)'
  <2>1. At(dst'[f], i) = At(dst[f], i)
    BY <1>2, <1>5 DEF e
  <2>2. (Right(f, i)' <=> Right(f, i)) /\ (Blank(f, i)' <=> Blank(f, i))
    BY <1>1, <2>1 DEF Right, Blank
  <2>3. UnitOK(s, i) /\ ItemAt(head, s).file = f /\ ItemAt(head', s).file = f
    BY <1>2, <1>3, <1>5 DEF UnitInv, e, ItemAt
  <2>4. Waiting(s)' => Blank(f, i)'
    BY <2>2, <2>3 DEF UnitOK
  <2>5. Working(s, "read")' => IF i < off'[s[1]] THEN Right(f, i)' ELSE Blank(f, i)'
    BY <2>2, <2>3 DEF UnitOK
  <2>6. Working(s, "write")' => /\ i < off'[s[1]] + put'[s[1]] => Right(f, i)'
                                /\ i >= off'[s[1]] + got'[s[1]] => Blank(f, i)'
    BY <2>2, <2>3 DEF UnitOK
  <2>7. Working(s, "fiemap")' => /\ opts'.sparse /\ opts'.fiemap
                                 /\ i \in extents'[s[1]] \/ Right(f, i)' \/ Excused(f)'
    BY <1>1, <1>4, <2>2, <2>3 DEF UnitOK
  <2>8. Over(s)' => ItemAt(vals', s) \/ Right(f, i)' \/ Excused(f)'
    BY <1>4, <2>2, <2>3 DEF UnitOK
  <2> QED
    BY <2>3, <2>4, <2>5, <2>6, <2>7, <2>8 DEF UnitOK
<1>6. UnitInv(s)'
  BY <1>3, <1>5 DEF UnitInv
<1>7. EndInv(s)'
  BY <1>1, <1>3 DEF EndInv, e, ItemAt
<1> QED
  BY <1>6, <1>7

\* The buffer to be written is as the source, as far as the file goes.
BufferInv(r) ==
    LET e == Elem(r)
    IN  pc[r] = "write" =>
            /\ got[r] \in Nat /\ got[r] <= Len(buf[r])
            /\ got[r] < Len(buf[r]) => off[r] + got[r] >= e.size
            /\ \A j \in 0 .. Len(buf[r]) - 1 :
                  off[r] + j < e.size => buf[r][j + 1] = At(src[e.file], off[r] + j)

FlagsInv == DOMAIN vals = Ranks /\ \A r \in Ranks : DOMAIN vals[r] = 1 .. Len(head[r])

\* Who has closed its files has copied all its sections; all report together.
ReportInv ==
    \A r \in Ranks :
        /\ pc[r] \in {"closed", "done"} => elem[r] = Len(head[r])
        /\ pc[r] = "done" =>
              /\ \A q \in Ranks : pc[q] = "done"
              /\ results = Lor(part, head, vals)
              /\ rc = [q \in Ranks |-> IF TRUE \in ToSet(results[q]) THEN -1 ELSE 0]

DataInv == /\ SharedOut /\ FlagsInv /\ ReportInv /\ \A r \in Ranks : BufferInv(r)
           /\ \A s \in Sections : UnitInv(s) /\ EndInv(s)

\* A step of rank r, which is or comes to its section k; only that section may fail.
Elsewhere(r) ==
    \A q \in Ranks \ {r} : /\ pc'[q] = pc[q] /\ elem'[q] = elem[q] /\ off'[q] = off[q]
                           /\ buf'[q] = buf[q] /\ put'[q] = put[q] /\ got'[q] = got[q]
                           /\ extents'[q] = extents[q]
Moves(r, k) == elem'[r] = k /\ (k = elem[r] \/ (k = elem[r] + 1 /\ pc[r] = "next"))
Flagged(r, k) == vals' = vals \/ vals' = [vals EXCEPT ![r] = [@ EXCEPT ![k] = TRUE]]

LEMMA Flags ==
    ASSUME ListInv, FlagsInv, NEW r \in Ranks, NEW k \in 1 .. Len(head[r]), Flagged(r, k),
           UNCHANGED head
    PROVE  /\ FlagsInv' /\ \A s \in Sections \ {<<r, k>>} : ItemAt(vals', s) = ItemAt(vals, s)
           /\ vals' # vals => vals'[r][k] = TRUE
           /\ vals[r][k] = TRUE => vals'[r][k] = TRUE
<1>1. CASE vals' = vals
  BY <1>1 DEF FlagsInv, ItemAt
<1>2. CASE vals' = [vals EXCEPT ![r] = [@ EXCEPT ![k] = TRUE]]
  <2>1. FlagsInv'
    BY <1>2 DEF FlagsInv
  <2>2. ASSUME NEW s \in Sections, s # <<r, k>>
        PROVE  ItemAt(vals', s) = ItemAt(vals, s)
    <3>1. s[1] \in Ranks /\ s[2] \in 1 .. Len(head[s[1]]) /\ s = <<s[1], s[2]>>
      BY SectionsOK
    <3>2. s[1] # r \/ s[2] # k
      BY <2>2, <3>1
    <3> QED
      BY <1>2, <3>1, <3>2 DEF FlagsInv, ItemAt
  <2> QED
    BY <1>2, <2>1, <2>2 DEF FlagsInv
<1> QED
  BY <1>1, <1>2 DEF Flagged

LEMMA OthersKept ==
    ASSUME CopyInv, SharedOut, FlagsInv, NEW r \in Ranks, NEW k \in 1 .. Len(head[r]),
           UNCHANGED <<lists, len>>, Moves(r, k), Elsewhere(r), Flagged(r, k),
           Within(head[r][k]), Reaches(head[r][k]),
           NEW s \in Sections, s # <<r, k>>, UnitInv(s), EndInv(s)
    PROVE  UnitInv(s)' /\ EndInv(s)'
<1> DEFINE e == ItemAt(head, s)
<1>1. /\ s[1] \in Ranks /\ s[2] \in Nat /\ s = <<s[1], s[2]>> /\ SectionOK(e) /\ ListInv /\ FilesInv
      /\ elem[r] \in Nat /\ k \in Nat
  BY SectionsOK DEF CopyInv, RankInv
<1>2. s[1] = r => s[2] # k
  BY <1>1
<1>3. /\ Waiting(s)' => Waiting(s)
      /\ Over(s)' => Over(s)
  <2>1. CASE s[1] = r
    BY <1>1, <1>2, <2>1 DEF Moves, Waiting, Over
  <2>2. CASE s[1] # r
    BY <1>1, <2>2 DEF Elsewhere, Waiting, Over
  <2> QED
    BY <2>1, <2>2
<1>4. \A q \in {"read", "write", "fiemap"} : Working(s, q)' =>
         /\ Working(s, q)
         /\ off'[s[1]] = off[s[1]] /\ put'[s[1]] = put[s[1]] /\ got'[s[1]] = got[s[1]]
         /\ extents'[s[1]] = extents[s[1]]
  <2>1. CASE s[1] = r
    BY <1>2, <2>1 DEF Moves, Working
  <2>2. CASE s[1] # r
    BY <1>1, <2>2 DEF Elsewhere, Working
  <2> QED
    BY <2>1, <2>2
<1>5. ItemAt(vals', s) = ItemAt(vals, s)
  BY <1>1, Flags DEF lists
<1>6. /\ <<r, k>> \in Sections /\ ItemAt(head, <<r, k>>) = head[r][k]
  BY <1>1, SectionAt
<1> HIDE DEF e
<1>7. ASSUME NEW i \in UnitsOf(e)
      PROVE  At(dst'[e.file], i) = At(dst[e.file], i)
  <2>1. i \in Int /\ i \in 0 .. size[e.file] - 1 /\ e.file \in Files /\ Covers(e, e.file, i)
    BY <1>1, <1>7 DEF UnitsOf, SectionOK, Covers, EndOf, ListInv
  <2>2. ~Covers(head[r][k], e.file, i)
    BY <1>1, <1>6, <2>1, OneEach DEF e
  <2> QED
    BY <2>1, <2>2 DEF Within
<1>8. LastOf(e) /\ Len(dst[e.file]) = size[e.file] => Len(dst'[e.file]) = size[e.file]
  <2>1. e.file \in Files
    BY <1>1 DEF SectionOK
  <2>2. LastOf(e) => ~(e.file = head[r][k].file /\ LastOf(head[r][k]))
    BY <1>1, <1>6, OneEach DEF e
  <2> QED
    BY <2>1, <2>2 DEF Reaches
<1>9. \A f \in Files : len'[f] \in Nat /\ len'[f] <= len[f]
  BY <1>1 DEF FilesInv
<1>10. UNCHANGED lists
  BY DEF lists
<1> QED
  BY <1>1, <1>3, <1>4, <1>5, <1>7, <1>8, <1>9, <1>10, SectionKept DEF e

\* The section that a rank has come to, or is at.
LEMMA SectionNow ==
    ASSUME ListInv, NEW r \in Ranks, NEW k \in 1 .. Len(head[r]), UNCHANGED lists,
           elem'[r] = k, NEW e, e = head[r][k],
           pc'[r] \in {"read", "write", "fiemap", "next"},
           \A i \in UnitsOf(e) :
              /\ pc'[r] = "read" => IF i < off'[r] THEN Right(e.file, i)' ELSE Blank(e.file, i)'
              /\ pc'[r] = "write" => /\ i < off'[r] + put'[r] => Right(e.file, i)'
                                     /\ i >= off'[r] + got'[r] => Blank(e.file, i)'
              /\ pc'[r] = "fiemap" => /\ opts.sparse /\ opts.fiemap
                                      /\ i \in extents'[r] \/ Right(e.file, i)' \/ Excused(e.file)'
              /\ pc'[r] = "next" => vals'[r][k] \/ Right(e.file, i)' \/ Excused(e.file)',
           pc'[r] = "next" /\ LastOf(e) => vals'[r][k] \/ Len(dst'[e.file]) = size[e.file]
    PROVE  UnitInv(<<r, k>>)' /\ EndInv(<<r, k>>)'
<1> DEFINE s == <<r, k>>
<1>1. s[1] = r /\ s[2] = k /\ ItemAt(head', s) = e /\ opts' = opts /\ size' = size /\ k \in Int
  BY DEF ItemAt, lists
<1>2. ItemAt(vals', s) = vals'[r][k]
  BY <1>1 DEF ItemAt
<1> HIDE DEF s
<1>3. /\ ~Waiting(s)' /\ \A q : Working(s, q)' <=> pc'[r] = q
      /\ Over(s)' <=> pc'[r] = "next"
  BY <1>1 DEF Waiting, Working, Over
<1>4. ASSUME NEW i \in UnitsOf(e)
      PROVE  UnitOK(s, i)'
  BY <1>1, <1>2, <1>3, <1>4 DEF UnitOK
<1>5. UnitInv(s)'
  BY <1>1, <1>4 DEF UnitInv
<1>6. EndInv(s)'
  BY <1>1, <1>2, <1>3 DEF EndInv
<1> QED
  BY <1>5, <1>6 DEF s

\* What was known of the section that a rank is at, or comes to.
LEMMA SectionBefore ==
    ASSUME CopyInv, DataInv, NEW r \in Ranks, NEW k \in 1 .. Len(head[r]), NEW e, e = head[r][k],
           NEW i \in UnitsOf(e)
    PROVE  /\ k = elem[r] + 1 => Blank(e.file, i)
           /\ k = elem[r] /\ pc[r] = "read" => IF i < off[r] THEN Right(e.file, i) ELSE Blank(e.file, i)
           /\ k = elem[r] /\ pc[r] = "write" => /\ i < off[r] + put[r] => Right(e.file, i)
                                                /\ i >= off[r] + got[r] => Blank(e.file, i)
           /\ k = elem[r] /\ pc[r] = "fiemap" =>
                 /\ opts.sparse /\ opts.fiemap
                 /\ i \in extents[r] \/ Right(e.file, i) \/ Excused(e.file)
<1> DEFINE s == <<r, k>>
<1>1. s \in Sections /\ ItemAt(head, s) = e /\ s[1] = r /\ s[2] = k /\ elem[r] \in Nat /\ k \in Nat
  BY SectionAt DEF CopyInv, RankInv
<1> HIDE DEF s
<1>2. UnitOK(s, i)
  BY <1>1 DEF DataInv, UnitInv
<1>3. /\ k = elem[r] + 1 => Waiting(s)
      /\ \A q : k = elem[r] /\ pc[r] = q => Working(s, q)
  BY <1>1 DEF Waiting, Working
<1> QED
  BY <1>1, <1>2, <1>3 DEF UnitOK

\* A step of one rank.
LEMMA RankStep ==
    ASSUME CopyInv, DataInv, NEW r \in Ranks, NEW k \in 1 .. Len(head[r]),
           UNCHANGED <<lists, len, ends>>, Moves(r, k), Elsewhere(r), Flagged(r, k),
           Within(head[r][k]), Reaches(head[r][k]),
           pc[r] \notin {"closed", "done"}, pc'[r] \notin {"closed", "done"}, BufferInv(r)',
           UnitInv(<<r, k>>)', EndInv(<<r, k>>)'
    PROVE  DataInv'
<1>1. ListInv /\ head' = head /\ src' = src /\ Sections' = Sections
  BY DEF CopyInv, lists, Sections
<1>2. SharedOut'
  BY DEF DataInv, SharedOut, lists
<1>3. FlagsInv'
  BY <1>1, Flags DEF DataInv
<1>4. ASSUME NEW q \in Ranks, q # r
      PROVE  BufferInv(q)'
  <2>1. BufferInv(q) /\ pc'[q] = pc[q] /\ elem'[q] = elem[q] /\ off'[q] = off[q]
        /\ buf'[q] = buf[q] /\ got'[q] = got[q]
    BY <1>4 DEF DataInv, Elsewhere
  <2> QED
    BY <1>1, <2>1 DEF BufferInv, Elem
<1>5. ReportInv'
  <2>1. \A q \in Ranks : pc[q] # "done"
    BY DEF DataInv, ReportInv
  <2>2. \A q \in Ranks : pc'[q] # "done"
    BY <2>1 DEF Elsewhere
  <2>3. \A q \in Ranks : pc'[q] = "closed" => elem'[q] = Len(head'[q])
    BY <1>1 DEF Elsewhere, DataInv, ReportInv
  <2> QED
    BY <2>2, <2>3 DEF ReportInv
<1>6. ASSUME NEW s \in Sections, s # <<r, k>>
      PROVE  UnitInv(s)' /\ EndInv(s)'
  BY <1>6, OthersKept DEF DataInv
<1>7. ASSUME NEW s \in Sections'
      PROVE  UnitInv(s)' /\ EndInv(s)'
  BY <1>1, <1>6
<1> QED
  BY <1>2, <1>3, <1>4, <1>5, <1>7 DEF DataInv

LEMMA StartData ==
    ASSUME CopyInv, DataInv, NEW r \in Ranks, StartSection(r)
    PROVE  DataInv'
<1>0. PICK k, e : k = elem[r] + 1 /\ e = head[r][k]
  OBVIOUS
<1>1. /\ pc[r] = "next" /\ elem[r] < Len(head[r]) /\ elem' = [elem EXCEPT ![r] = @ + 1]
      /\ UNCHANGED <<lists, len, dst, ends, buf, put, got>>
  BY DEF StartSection, buffer
<1>2. elem[r] \in Nat /\ Len(head[r]) \in Nat /\ Shapes /\ FlagsInv /\ ListInv /\ FilesInv
  BY DEF CopyInv, ListInv, RankInv, DataInv
<1>3. k \in 1 .. Len(head[r]) /\ elem'[r] = k
  BY <1>0, <1>1, <1>2 DEF Shapes
<1>4. Moves(r, k) /\ SectionOK(e) /\ UNCHANGED lists
  BY <1>0, <1>1, <1>2, <1>3 DEF Moves, ListInv
<1>5. Within(e) /\ Reaches(e)
  BY <1>1, NothingWritten
<1>6. \A i \in UnitsOf(e) : Blank(e.file, i)
  BY <1>0, <1>3, SectionBefore
<1>7. Flagged(r, k) /\ Elsewhere(r) /\ pc'[r] \in {"read", "fiemap", "next"}
      /\ UnitInv(<<r, k>>)' /\ EndInv(<<r, k>>)'
  <2>1. CASE Fail(r, k) /\ UNCHANGED buffer
    <3>1. pc' = [pc EXCEPT ![r] = "next"] /\ vals' = [vals EXCEPT ![r] = [@ EXCEPT ![k] = TRUE]]
          /\ UNCHANGED <<off, buf, put, got, extents>>
      BY <2>1 DEF Fail, buffer
    <3>2. vals'[r][k] = TRUE /\ pc'[r] = "next"
      BY <1>2, <1>3, <3>1 DEF FlagsInv, Shapes
    <3>3. Flagged(r, k) /\ Elsewhere(r)
      BY <1>1, <1>2, <3>1 DEF Flagged, Elsewhere, Shapes
    <3>4. UnitInv(<<r, k>>)' /\ EndInv(<<r, k>>)'
      BY <1>2, <1>3, <1>4, <3>2, SectionNow, <1>0
    <3> QED
      BY <3>2, <3>3, <3>4
  <2>2. CASE ~(Fail(r, k) /\ UNCHANGED buffer)
    <3> DEFINE mapped == opts.sparse /\ opts.fiemap /\ ~opts.direct
               ext == IF mapped THEN {i \in e.offset .. EndOf(e) - 1 :
                                         i < len[e.file] /\ At(src[e.file], i) # 0}
                      ELSE {}
    <3>1. /\ off' = [off EXCEPT ![r] = e.offset]
          /\ extents' = [extents EXCEPT ![r] = ext]
          /\ pc' = [pc EXCEPT ![r] = IF mapped THEN "fiemap" ELSE "read"]
          /\ UNCHANGED vals
      BY <1>0, <2>2 DEF StartSection
    <3>2. Flagged(r, k) /\ Elsewhere(r)
      BY <1>1, <1>2, <3>1 DEF Flagged, Elsewhere, Shapes
    <3>3. off'[r] = e.offset /\ extents'[r] = ext /\ pc'[r] = IF mapped THEN "fiemap" ELSE "read"
      BY <1>2, <3>1 DEF Shapes
    <3>4. ASSUME NEW i \in UnitsOf(e)
          PROVE  /\ pc'[r] = "read" => ~(i < off'[r]) /\ Blank(e.file, i)'
                 /\ pc'[r] = "fiemap" =>
                       /\ opts.sparse /\ opts.fiemap
                       /\ i \in extents'[r] \/ Right(e.file, i)' \/ Excused(e.file)'
      <4>1. e.offset \in Nat /\ EndOf(e) \in Int /\ i \in Int /\ e.offset <= i /\ i < size[e.file]
            /\ len[e.file] \in Nat /\ size[e.file] \in Nat
        BY <1>2, <1>4, <3>4 DEF SectionOK, EndOf, UnitsOf, FilesInv, ListInv
      <4>2. Blank(e.file, i) /\ Blank(e.file, i)'
        BY <1>1, <1>6, <3>4 DEF Blank, lists
      <4>3. CASE mapped
        <5>1. i \notin ext => i >= len[e.file] \/ At(src[e.file], i) = 0
          BY <3>4, <4>1, <4>3 DEF UnitsOf
        <5>2. i >= len[e.file] => Excused(e.file)'
          BY <1>1, <4>1, <4>3 DEF Excused, lists
        <5>3. At(src[e.file], i) = 0 => Right(e.file, i)'
          BY <1>1, <4>2, <4>3 DEF Right, Blank, lists
        <5> QED
          BY <3>3, <4>3, <5>1, <5>2, <5>3
      <4>4. CASE ~mapped
        BY <3>3, <4>1, <4>2, <4>4
      <4> QED
        BY <4>3, <4>4
    <3>5. pc'[r] \in {"read", "fiemap"}
      BY <3>3
    <3> HIDE DEF mapped, ext
    <3>6. UnitInv(<<r, k>>)' /\ EndInv(<<r, k>>)'
      BY <1>2, <1>3, <1>4, <3>4, <3>5, SectionNow, <1>0
    <3> QED
      BY <3>2, <3>5, <3>6
  <2> QED
    BY <2>1, <2>2
<1>8. BufferInv(r)'
  BY <1>7 DEF BufferInv
<1> QED
  BY <1>1, <1>3, <1>4, <1>5, <1>7, <1>8, RankStep, <1>0

LEMMA FilledData ==
    ASSUME CopyInv, NEW r \in Ranks, pc[r] = "read",
           NEW n \in Nat, n <= BufSize, off[r] + n <= Len(src[Elem(r).file])
    PROVE  \A j \in 0 .. n - 1 : Filled(r, n)[j + 1] = At(src[Elem(r).file], off[r] + j)
<1> DEFINE f == Elem(r).file
           m == IF opts.direct THEN BufSize - n ELSE 0
           zeros == [i \in 1 .. m |-> 0]
           d == Data(f, off[r], n)
<1>1. off[r] \in Nat /\ f \in Files /\ BufSize \in Nat /\ ListInv
  BY ElemOK, CopyDataAssumption, ChunksAssumption DEF CopyInv, RankInv, Position
<1>2. d \in Seq(Int) /\ Len(d) = n /\ \A j \in 0 .. n - 1 : d[j + 1] = At(src[f], off[r] + j)
  BY <1>1, DataRead
<1>3. zeros \in Seq(Int)
  <2>1. m \in Nat
    BY <1>1
  <2> HIDE DEF m
  <2>2. zeros \in [1 .. m -> Int]
    OBVIOUS
  <2> HIDE DEF zeros
  <2> QED
    BY <2>1, <2>2, Sequence
<1>4. Filled(r, n) = d \o zeros
  BY DEF Filled
<1> HIDE DEF zeros, m, d
<1>5. \A i \in 1 .. Len(d) + Len(zeros) : (d \o zeros)[i] = IF i <= Len(d) THEN d[i] ELSE zeros[i - Len(d)]
  <2>1. d \in Seq(Int) /\ zeros \in Seq(Int)
    BY <1>2, <1>3
  <2> QED
    BY <2>1, ConcatProperties, ZenonT(30)
<1>6. ASSUME NEW j \in 0 .. n - 1
      PROVE  Filled(r, n)[j + 1] = At(src[f], off[r] + j)
  <2>1. Len(zeros) \in Nat
    BY <1>3, LenProperties
  <2>2. j + 1 \in 1 .. Len(d) + Len(zeros) /\ j + 1 <= Len(d)
    BY <1>2, <2>1
  <2> QED
    BY <1>2, <1>4, <1>5, <2>2
<1> QED
  BY <1>6

LEMMA ReadData ==
    ASSUME CopyInv, DataInv, NEW r \in Ranks, Read(r)
    PROVE  DataInv'
<1>0. PICK k, e : k = elem[r] /\ e = Elem(r) /\ e = head[r][k]
  BY DEF Elem
<1>1. /\ pc[r] = "read" /\ off[r] < EndOf(e)
      /\ UNCHANGED <<lists, len, dst, elem, extents, ends>>
  BY <1>0 DEF Read
<1>2. PICK n \in Transfers(Available(e.file, off[r], ToRead(r)), 1) :
         \/ UNCHANGED <<pc, off, buf, put, got, vals>>
         \/ Fail(r, elem[r]) /\ UNCHANGED <<off, buf, put, got>>
         \/ /\ n > 0 /\ ~TooShort(r, n) /\ UNCHANGED vals
            /\ \/ /\ opts.sparse /\ ToSet(Filled(r, n)) = {0}
                  /\ off' = [off EXCEPT ![r] = After(r, n)] /\ UNCHANGED <<pc, buf, put, got>>
               \/ /\ buf' = [buf EXCEPT ![r] = Filled(r, n)]
                  /\ put' = [put EXCEPT ![r] = 0] /\ got' = [got EXCEPT ![r] = n]
                  /\ pc' = [pc EXCEPT ![r] = "write"] /\ UNCHANGED off
  BY <1>0, <1>1 DEF Read
<1>3. /\ n \in Nat /\ n <= BufSize /\ BufSize \in Nat
      /\ n > 0 => off[r] + n <= Len(src[e.file])
  BY <1>0, <1>1, ReadAmount, CopyDataAssumption
<1>4. /\ Shapes /\ k \in 1 .. Len(head[r]) /\ k \in Nat /\ ListInv /\ FlagsInv /\ elem'[r] = k
      /\ SectionOK(e) /\ off[r] \in Nat /\ e.offset <= off[r] /\ UNCHANGED <<lists, len, ends>>
      /\ Moves(r, k) /\ e.file \in Files
  BY <1>0, <1>1, ElemOK DEF CopyInv, RankInv, Position, DataInv, Moves
<1>5. Within(e) /\ Reaches(e)
  BY <1>1, NothingWritten
<1>6. \A i \in UnitsOf(e) : IF i < off[r] THEN Right(e.file, i) ELSE Blank(e.file, i)
  BY <1>0, <1>1, <1>4, SectionBefore
<1>7. \A i \in UnitsOf(e) : /\ Right(e.file, i)' <=> Right(e.file, i)
                            /\ Blank(e.file, i)' <=> Blank(e.file, i)
  BY <1>1 DEF Right, Blank, lists
<1>8. \A i \in UnitsOf(e) : i \in Nat /\ i < e.size /\ e.size \in Nat
  BY <1>4 DEF UnitsOf, SectionOK, EndOf, ListInv
<1>9. Elem(r)' = e
  BY <1>0, <1>1 DEF Elem, lists
<1> DEFINE Outcome == /\ Flagged(r, k) /\ Elsewhere(r) /\ pc'[r] \in {"read", "write", "next"} /\ BufferInv(r)'
                      /\ \A i \in UnitsOf(e) :
                            /\ pc'[r] = "read" => IF i < off'[r] THEN Right(e.file, i) ELSE Blank(e.file, i)
                            /\ pc'[r] = "write" => /\ i < off'[r] + put'[r] => Right(e.file, i)
                                                   /\ i >= off'[r] + got'[r] => Blank(e.file, i)
                      /\ pc'[r] = "next" => vals'[r][k]
<1>10. Outcome
  <2>1. CASE UNCHANGED <<pc, off, buf, put, got, vals>>
    BY <1>1, <1>6, <2>1 DEF Flagged, Elsewhere, BufferInv
  <2>2. CASE Fail(r, elem[r]) /\ UNCHANGED <<off, buf, put, got>>
    <3>1. pc' = [pc EXCEPT ![r] = "next"] /\ vals' = [vals EXCEPT ![r] = [@ EXCEPT ![k] = TRUE]]
      BY <1>0, <2>2 DEF Fail
    <3>2. pc'[r] = "next" /\ vals'[r][k] = TRUE
      BY <1>4, <3>1 DEF FlagsInv, Shapes
    <3>3. Elsewhere(r)
      BY <1>1, <1>4, <2>2, <3>1 DEF Elsewhere, Shapes
    <3> QED
      BY <3>1, <3>2, <3>3 DEF Flagged, BufferInv
  <2>3. ASSUME n > 0, ~TooShort(r, n), UNCHANGED vals, opts.sparse, ToSet(Filled(r, n)) = {0},
               off' = [off EXCEPT ![r] = After(r, n)], UNCHANGED <<pc, buf, put, got>>
        PROVE  Outcome
    <3>1. off'[r] = off[r] + n /\ pc'[r] = "read"
      BY <1>1, <1>4, <2>3 DEF After, Shapes
    <3>2. Elsewhere(r)
      BY <1>1, <1>4, <2>3 DEF Elsewhere, Shapes
    <3>3. off[r] + n <= Len(src[e.file])
      BY <1>3, <2>3
    <3>4. ASSUME NEW i \in UnitsOf(e), off[r] <= i, i < off[r] + n
          PROVE  At(src[e.file], i) = 0
      <4>1. i - off[r] \in 0 .. n - 1 /\ off[r] + (i - off[r]) = i
        BY <1>3, <1>4, <1>8, <3>4
      <4>2. Filled(r, n)[i - off[r] + 1] = At(src[e.file], i)
        BY <1>0, <1>1, <1>3, <3>3, <4>1, FilledData
      <4>3. i - off[r] + 1 \in DOMAIN Filled(r, n)
        <5>1. Filled(r, n) \in Seq(Int) /\ Len(Filled(r, n)) \in Nat /\ n <= Len(Filled(r, n))
          <6>1. /\ Filled(r, n) \in Seq(Int)
                /\ Len(Filled(r, n)) = IF opts.direct THEN BufSize ELSE n
            BY <1>0, <1>1, <1>3, <3>3, FilledBuffer
          <6> QED
            BY <1>3, <6>1
        <5>2. DOMAIN Filled(r, n) = 1 .. Len(Filled(r, n))
          BY <5>1, LenProperties
        <5> QED
          BY <1>3, <4>1, <5>1, <5>2
      <4> QED
        BY <2>3, <4>2, <4>3 DEF ToSet
    <3>5. ASSUME NEW i \in UnitsOf(e)
          PROVE  IF i < off'[r] THEN Right(e.file, i) ELSE Blank(e.file, i)
      BY <1>3, <1>4, <1>6, <1>8, <2>3, <3>1, <3>4, <3>5 DEF Right, Blank
    <3> QED
      BY <2>3, <3>1, <3>2, <3>5 DEF Flagged, BufferInv
  <2>4. ASSUME n > 0, ~TooShort(r, n), UNCHANGED vals, buf' = [buf EXCEPT ![r] = Filled(r, n)],
               put' = [put EXCEPT ![r] = 0], got' = [got EXCEPT ![r] = n],
               pc' = [pc EXCEPT ![r] = "write"], UNCHANGED off
        PROVE  Outcome
    <3>1. buf'[r] = Filled(r, n) /\ put'[r] = 0 /\ got'[r] = n /\ pc'[r] = "write" /\ off'[r] = off[r]
      BY <1>4, <2>4 DEF Shapes
    <3>2. Elsewhere(r)
      BY <1>1, <1>4, <2>4 DEF Elsewhere, Shapes
    <3>3. off[r] + n <= Len(src[e.file])
      BY <1>3, <2>4
    <3>4. Len(Filled(r, n)) = IF opts.direct THEN BufSize ELSE n
      BY <1>0, <1>1, <1>3, <3>3, FilledBuffer
    <3>5. \A j \in 0 .. n - 1 : Filled(r, n)[j + 1] = At(src[e.file], off[r] + j)
      BY <1>0, <1>1, <1>3, <3>3, FilledData
    <3>6. n < Len(Filled(r, n)) => off[r] + n >= e.size
      <4>1. e.size \in Nat
        BY <1>4 DEF SectionOK, ListInv
      <4> QED
        BY <1>0, <1>3, <1>4, <2>4, <3>4, <4>1 DEF TooShort
    <3>7. ASSUME NEW j \in 0 .. Len(Filled(r, n)) - 1, off[r] + j < e.size
          PROVE  Filled(r, n)[j + 1] = At(src[e.file], off[r] + j)
      <4>1. e.size \in Nat
        BY <1>4 DEF SectionOK, ListInv
      <4>2. j < n
        BY <1>3, <1>4, <3>4, <3>6, <3>7, <4>1
      <4> QED
        BY <1>3, <3>5, <3>7, <4>2
    <3>8. BufferInv(r)'
      <4>1. src' = src
        BY <1>1 DEF lists
      <4> QED
        BY <1>3, <1>9, <3>1, <3>4, <3>6, <3>7, <4>1 DEF BufferInv
    <3>9. ASSUME NEW i \in UnitsOf(e)
          PROVE  /\ i < off'[r] + put'[r] => Right(e.file, i)
                 /\ i >= off'[r] + got'[r] => Blank(e.file, i)
      <4>1. i < off'[r] + put'[r] <=> i < off[r]
        BY <1>4, <1>8, <3>1
      <4>2. i >= off'[r] + got'[r] => ~(i < off[r])
        BY <1>3, <1>4, <1>8, <3>1
      <4> QED
        BY <1>6, <4>1, <4>2
    <3> QED
      BY <2>4, <3>1, <3>2, <3>8, <3>9 DEF Flagged
  <2> QED
    BY <1>2, <2>1, <2>2, <2>3, <2>4
<1>11. UnitInv(<<r, k>>)' /\ EndInv(<<r, k>>)'
  <2>1. UNCHANGED lists
    BY <1>1
  <2> QED
    BY <1>0, <1>4, <1>7, <1>10, <2>1, SectionNow
<1> QED
  BY <1>0, <1>1, <1>4, <1>5, <1>10, <1>11, RankStep

LEMMA WriteData ==
    ASSUME CopyInv, DataInv, NEW r \in Ranks, Write(r)
    PROVE  DataInv'
<1>0. PICK k, e, p, g : k = elem[r] /\ e = Elem(r) /\ e = head[r][k] /\ p = put[r] /\ g = got[r]
  BY DEF Elem
<1>1. pc[r] = "write" /\ UNCHANGED <<lists, len, elem, tries, extents, vals, ends>>
  BY DEF Write
<1>2. /\ Shapes /\ k \in 1 .. Len(head[r]) /\ k \in Nat /\ ListInv /\ elem'[r] = k
      /\ SectionOK(e) /\ off[r] \in Nat /\ e.offset <= off[r] /\ UNCHANGED <<lists, len, ends>>
      /\ Moves(r, k) /\ e.file \in Files /\ p \in Nat /\ p <= Len(buf[r]) /\ Len(buf[r]) \in Nat
  <2>1. WriteInv(r) /\ Shapes /\ ListInv /\ elem[r] \in 1 .. Len(head[r]) /\ elem[r] \in Nat
    BY <1>1 DEF CopyInv, RankInv
  <2>2. off[r] \in Nat /\ e.offset <= off[r] /\ p \in Nat /\ p <= Len(buf[r]) /\ Len(buf[r]) \in Nat
    BY <1>0, <2>1, LenProperties DEF WriteInv
  <2> QED
    BY <1>0, <1>1, <2>1, <2>2, ElemOK DEF Moves
<1>3. /\ g \in Nat /\ g <= Len(buf[r])
      /\ g < Len(buf[r]) => off[r] + g >= e.size
      /\ \A j \in 0 .. Len(buf[r]) - 1 :
            off[r] + j < e.size => buf[r][j + 1] = At(src[e.file], off[r] + j)
  BY <1>0, <1>1 DEF DataInv, BufferInv
<1>4. PICK n \in Nat :
         /\ p + n <= Len(buf[r]) /\ Within(e) /\ Reaches(e) /\ GoesOn(r, n)
         /\ \E data \in Seq(Int) :
               /\ \A j \in 1 .. n : data[j] = buf[r][p + j]
               /\ \A i \in Nat : At(dst'[e.file], i) =
                     IF off[r] + p <= i /\ i < off[r] + p + n
                     THEN data[i - (off[r] + p) + 1] ELSE At(dst[e.file], i)
  <2>1. PICK n \in Nat, data \in Seq(Int) :
           /\ put[r] + n <= Len(buf[r]) /\ \A j \in 1 .. n : data[j] = buf[r][put[r] + j]
           /\ Within(Elem(r)) /\ Reaches(Elem(r)) /\ GoesOn(r, n)
           /\ \A i \in Nat : At(dst'[Elem(r).file], i) =
                 IF off[r] + put[r] <= i /\ i < off[r] + put[r] + n
                 THEN data[i - (off[r] + put[r]) + 1] ELSE At(dst[Elem(r).file], i)
    BY WriteEffect
  <2>2. put[r] = p /\ Elem(r) = e
    BY <1>0
  <2> QED
    BY <2>1, <2>2
<1>5. \A i \in UnitsOf(e) : i \in Nat /\ i < e.size /\ e.size \in Nat
  BY <1>2 DEF UnitsOf, SectionOK, EndOf, ListInv
<1>6. \A i \in UnitsOf(e) : /\ i < off[r] + p => Right(e.file, i)
                            /\ i >= off[r] + g => Blank(e.file, i)
  BY <1>0, <1>1, <1>2, SectionBefore
<1>7. ASSUME NEW i \in UnitsOf(e)
      PROVE  /\ i < off[r] + p + n => Right(e.file, i)'
             /\ i >= off[r] + g => Blank(e.file, i)'
  <2>1. CASE off[r] + p <= i /\ i < off[r] + p + n
    <3>1. /\ i - off[r] \in 0 .. Len(buf[r]) - 1 /\ off[r] + (i - off[r]) = i /\ i < e.size
          /\ i - (off[r] + p) + 1 \in 1 .. n /\ p + (i - (off[r] + p) + 1) = i - off[r] + 1
      <4>1. i \in Nat /\ i < e.size /\ p + n <= Len(buf[r]) /\ n \in Nat
        BY <1>4, <1>5, <1>7
      <4>2. off[r] \in Nat /\ p \in Nat /\ Len(buf[r]) \in Nat
        BY <1>2
      <4>3. PICK o, l : o = off[r] /\ l = Len(buf[r])
        OBVIOUS
      <4>4. o \in Nat /\ l \in Nat /\ p + n <= l /\ o + p <= i /\ i < o + p + n
        BY <2>1, <4>1, <4>2, <4>3
      <4>5. /\ i - o \in 0 .. l - 1 /\ o + (i - o) = i
            /\ i - (o + p) + 1 \in 1 .. n /\ p + (i - (o + p) + 1) = i - o + 1
        BY <4>1, <4>2, <4>4
      <4> QED
        BY <4>1, <4>3, <4>5
    <3>2. buf[r][i - off[r] + 1] = At(src[e.file], i)
      BY <1>3, <3>1
    <3>3. At(dst'[e.file], i) = At(src[e.file], i)
      <4>1. At(dst'[e.file], i) = buf[r][p + (i - (off[r] + p) + 1)]
        <5>1. PICK data \in Seq(Int) :
                 /\ \A j \in 1 .. n : data[j] = buf[r][p + j]
                 /\ \A j \in Nat : At(dst'[e.file], j) =
                       IF off[r] + p <= j /\ j < off[r] + p + n
                       THEN data[j - (off[r] + p) + 1] ELSE At(dst[e.file], j)
          BY <1>4
        <5>2. At(dst'[e.file], i) = data[i - (off[r] + p) + 1]
          BY <1>5, <1>7, <2>1, <5>1
        <5>3. data[i - (off[r] + p) + 1] = buf[r][p + (i - (off[r] + p) + 1)]
          BY <3>1, <5>1, Zenon
        <5> QED
          BY <5>2, <5>3, Zenon
      <4>2. buf[r][p + (i - (off[r] + p) + 1)] = buf[r][i - off[r] + 1]
        BY <3>1, Zenon
      <4> QED
        BY <3>2, <4>1, <4>2, Zenon
    <3>4. Right(e.file, i)'
      BY <1>1, <3>3 DEF Right, lists
    <3>5. ~(i >= off[r] + g)
      <4>1. i \in Nat /\ i < e.size /\ e.size \in Nat /\ p + n <= Len(buf[r]) /\ n \in Nat
        BY <1>4, <1>5, <1>7
      <4>2. off[r] \in Nat /\ p \in Nat /\ Len(buf[r]) \in Nat
        BY <1>2
      <4>3. i < off[r] + Len(buf[r])
        BY <2>1, <4>1, <4>2
      <4>4. g \in Nat /\ (g = Len(buf[r]) \/ off[r] + g >= e.size)
        BY <1>3, <4>2
      <4> QED
        BY <4>1, <4>2, <4>3, <4>4
    <3> QED
      BY <3>4, <3>5
  <2>2. CASE ~(off[r] + p <= i /\ i < off[r] + p + n)
    <3>1. At(dst'[e.file], i) = At(dst[e.file], i)
      BY <1>4, <1>5, <1>7, <2>2
    <3>2. /\ Right(e.file, i) => Right(e.file, i)'
          /\ Blank(e.file, i) => Blank(e.file, i)'
      BY <1>1, <3>1 DEF Right, Blank, lists
    <3>3. i < off[r] + p + n => i < off[r] + p
      BY <1>2, <1>4, <1>5, <1>7, <2>2
    <3> QED
      BY <1>6, <1>7, <3>2, <3>3
  <2> QED
    BY <2>1, <2>2
<1>8. Elem(r)' = e /\ src' = src
  BY <1>0, <1>1 DEF Elem, lists
<1> DEFINE Outcome == /\ Elsewhere(r) /\ pc'[r] \in {"read", "write"} /\ BufferInv(r)'
                      /\ \A i \in UnitsOf(e) :
                             /\ pc'[r] = "read" => IF i < off'[r] THEN Right(e.file, i)' ELSE Blank(e.file, i)'
                             /\ pc'[r] = "write" => /\ i < off'[r] + put'[r] => Right(e.file, i)'
                                                    /\ i >= off'[r] + got'[r] => Blank(e.file, i)'
<1>9. Outcome
  <2>1. ASSUME AfterWrite(r, n) < Len(buf[r]), put' = [put EXCEPT ![r] = AfterWrite(r, n)],
               UNCHANGED <<pc, off, buf, got>>
        PROVE  Outcome
    <3>1. put'[r] \in Nat /\ put'[r] <= p + n
      BY <1>0, <1>2, <1>4, <2>1 DEF AfterWrite, Shapes
    <3>2. Elsewhere(r)
      BY <1>1, <1>2, <2>1 DEF Elsewhere, Shapes
    <3>3. BufferInv(r)'
      BY <1>0, <1>3, <1>8, <2>1 DEF BufferInv
    <3>4. ASSUME NEW i \in UnitsOf(e)
          PROVE  /\ i < off'[r] + put'[r] => Right(e.file, i)'
                 /\ i >= off'[r] + got'[r] => Blank(e.file, i)'
      <4>1. i < off'[r] + put'[r] => i < off[r] + p + n
        BY <1>2, <1>4, <1>5, <2>1, <3>1, <3>4
      <4> QED
        BY <1>0, <1>7, <2>1, <3>4, <4>1
    <3> QED
      BY <1>1, <2>1, <3>2, <3>3, <3>4
  <2>2. ASSUME ~(AfterWrite(r, n) < Len(buf[r])),
               off' = [off EXCEPT ![r] = After(r, got[r])],
               pc' = [pc EXCEPT ![r] = "read"],
               buf' = [buf EXCEPT ![r] = <<>>],
               put' = [put EXCEPT ![r] = 0], got' = [got EXCEPT ![r] = 0]
        PROVE  Outcome
    <3>1. p + n = Len(buf[r])
      <4>1. AfterWrite(r, n) = p \/ AfterWrite(r, n) = p + n
        BY <1>0 DEF AfterWrite
      <4>2. p \in Nat /\ n \in Nat /\ Len(buf[r]) \in Nat /\ p + n <= Len(buf[r])
        BY <1>2, <1>4
      <4> QED
        BY <2>2, <4>1, <4>2
    <3>2. off'[r] = off[r] + g /\ pc'[r] = "read"
      BY <1>0, <1>2, <2>2 DEF After, Shapes
    <3>3. Elsewhere(r)
      BY <1>1, <1>2, <2>2 DEF Elsewhere, Shapes
    <3>4. ASSUME NEW i \in UnitsOf(e)
          PROVE  IF i < off'[r] THEN Right(e.file, i)' ELSE Blank(e.file, i)'
      <4>1. /\ i < off'[r] => i < off[r] + p + n
            /\ ~(i < off'[r]) => i >= off[r] + g
        <5>1. /\ i \in Nat /\ off[r] \in Nat /\ g \in Nat /\ g <= Len(buf[r])
              /\ p + n = Len(buf[r]) /\ p \in Nat /\ n \in Nat
          BY <1>2, <1>3, <1>4, <1>5, <3>1, <3>4
        <5> QED
          BY <3>2, <5>1
      <4> QED
        BY <1>7, <3>4, <4>1
    <3>5. BufferInv(r)'
      BY <3>2 DEF BufferInv
    <3> QED
      BY <3>2, <3>3, <3>4, <3>5
  <2> QED
    BY <1>4, <2>1, <2>2 DEF GoesOn
<1>10. UnitInv(<<r, k>>)' /\ EndInv(<<r, k>>)'
  <2>1. UNCHANGED lists
    BY <1>1
  <2> QED
    BY <1>0, <1>2, <1>9, <2>1, SectionNow
<1>11. Flagged(r, k)
  BY <1>1 DEF Flagged
<1> QED
  BY <1>0, <1>1, <1>2, <1>4, <1>9, <1>10, <1>11, RankStep

LEMMA FiemapData ==
    ASSUME CopyInv, DataInv, NEW r \in Ranks, Fiemap(r)
    PROVE  DataInv'
<1>0. PICK k, e : k = elem[r] /\ e = Elem(r) /\ e = head[r][k]
  BY DEF Elem
<1>1. pc[r] = "fiemap" /\ UNCHANGED <<lists, len, elem, off, buf, put, got, tries, ends>>
  BY DEF Fiemap
<1>2. /\ Shapes /\ k \in 1 .. Len(head[r]) /\ k \in Nat /\ ListInv /\ FlagsInv /\ elem'[r] = k
      /\ SectionOK(e) /\ UNCHANGED <<lists, len, ends>> /\ FilesInv
      /\ Moves(r, k) /\ e.file \in Files /\ extents[r] \subseteq UnitsOf(e)
  BY <1>0, <1>1, ElemOK DEF CopyInv, RankInv, Moves, DataInv, UnitsOf
<1>3. Within(e) /\ Reaches(e)
  BY <1>0, FiemapEffect
<1>4. \A i \in UnitsOf(e) : /\ i \in Nat /\ i < size[e.file]
                            /\ len[e.file] \in Nat /\ size[e.file] \in Nat
  BY <1>2 DEF UnitsOf, SectionOK, EndOf, ListInv, FilesInv
<1>5. \A i \in UnitsOf(e) : /\ opts.sparse /\ opts.fiemap
                            /\ i \in extents[r] \/ Right(e.file, i) \/ Excused(e.file)
  BY <1>0, <1>1, <1>2, SectionBefore
<1>6. Excused(e.file)' <=> Excused(e.file)
  BY <1>1 DEF Excused, lists
<1>7. CASE Fail(r, elem[r]) /\ UNCHANGED <<dst, extents>>
  <2>1. pc' = [pc EXCEPT ![r] = "next"] /\ vals' = [vals EXCEPT ![r] = [@ EXCEPT ![k] = TRUE]]
    BY <1>0, <1>7 DEF Fail
  <2>2. pc'[r] = "next" /\ vals'[r][k] = TRUE
    BY <1>2, <2>1 DEF FlagsInv, Shapes
  <2>3. Elsewhere(r) /\ Flagged(r, k) /\ BufferInv(r)'
    BY <1>1, <1>2, <1>7, <2>1, <2>2 DEF Elsewhere, Shapes, Flagged, BufferInv
  <2>4. UnitInv(<<r, k>>)' /\ EndInv(<<r, k>>)'
    <3>1. UNCHANGED lists
      BY <1>1
    <3> QED
      BY <1>0, <1>2, <2>2, <3>1, SectionNow
  <2> QED
    BY <1>0, <1>1, <1>2, <1>3, <2>2, <2>3, <2>4, RankStep
<1>8. ASSUME NEW o, NEW n, Copies(r, o, n)
      PROVE  DataInv'
  <2>1. /\ o \in Nat /\ n \in Nat /\ o \in extents[r] /\ UNCHANGED <<pc, vals>>
        /\ n = 0 => len[e.file] <= o
        /\ \A i \in Nat : At(dst'[e.file], i) =
              IF o <= i /\ i < o + n THEN At(src[e.file], i) ELSE At(dst[e.file], i)
        /\ extents' = [extents EXCEPT ![r] = IF n = 0 THEN {} ELSE @ \ (o .. o + n - 1)]
    BY <1>0, <1>8 DEF Copies
  <2>2. extents'[r] = IF n = 0 THEN {} ELSE extents[r] \ (o .. o + n - 1)
    BY <1>2, <2>1 DEF Shapes
  <2>3. Elsewhere(r) /\ Flagged(r, k) /\ BufferInv(r)' /\ pc'[r] = "fiemap"
    BY <1>1, <1>2, <2>1 DEF Elsewhere, Shapes, Flagged, BufferInv
  <2>4. ASSUME NEW i \in UnitsOf(e)
        PROVE  i \in extents'[r] \/ Right(e.file, i)' \/ Excused(e.file)'
    <3>1. CASE n = 0
      <4>1. len[e.file] < size[e.file]
        BY <1>2, <1>4, <2>1, <3>1
      <4> QED
        BY <1>5, <1>6, <2>4, <4>1 DEF Excused
    <3>2. CASE n # 0 /\ i \in o .. o + n - 1
      <4>1. At(dst'[e.file], i) = At(src[e.file], i)
        BY <1>4, <2>1, <2>4, <3>2
      <4> QED
        BY <1>1, <4>1 DEF Right, lists
    <3>3. CASE n # 0 /\ i \notin o .. o + n - 1
      <4>1. At(dst'[e.file], i) = At(dst[e.file], i)
        BY <1>4, <2>1, <2>4, <3>3
      <4>2. Right(e.file, i) => Right(e.file, i)'
        BY <1>1, <4>1 DEF Right, lists
      <4>3. i \in extents[r] => i \in extents'[r]
        BY <2>2, <3>3
      <4> QED
        BY <1>5, <1>6, <2>4, <4>2, <4>3
    <3> QED
      BY <3>1, <3>2, <3>3
  <2>5. UnitInv(<<r, k>>)' /\ EndInv(<<r, k>>)'
    <3>1. UNCHANGED lists
      BY <1>1
    <3> QED
      BY <1>0, <1>2, <1>5, <2>3, <2>4, <3>1, SectionNow
  <2> QED
    BY <1>0, <1>1, <1>2, <1>3, <2>3, <2>5, RankStep
<1> QED
  BY <1>7, <1>8, FiemapEffect

LEMMA EndData ==
    ASSUME CopyInv, DataInv, NEW r \in Ranks, EndSection(r)
    PROVE  DataInv'
<1>0. PICK k, e : k = elem[r] /\ e = Elem(r) /\ e = head[r][k]
  BY DEF Elem
<1>1. /\ \/ pc[r] = "read" /\ off[r] >= EndOf(e)
         \/ pc[r] = "fiemap" /\ extents[r] = {}
      /\ UNCHANGED <<lists, len, elem, buffer, ends>>
  BY <1>0 DEF EndSection
<1>2. /\ Shapes /\ k \in 1 .. Len(head[r]) /\ k \in Nat /\ ListInv /\ FlagsInv /\ elem'[r] = k
      /\ SectionOK(e) /\ UNCHANGED <<lists, len, ends>> /\ UNCHANGED lists
      /\ Moves(r, k) /\ e.file \in Files /\ Elem(r)' = e
  BY <1>0, <1>1, ElemOK DEF CopyInv, RankInv, Moves, DataInv, Elem, lists
<1>3. Within(e) /\ Reaches(e)
  BY <1>0, EndEffect
<1>4. \A i \in UnitsOf(e) : i \in 0 .. size[e.file] - 1
  BY <1>2 DEF UnitsOf, SectionOK, EndOf, ListInv
<1>5. ASSUME NEW i \in UnitsOf(e)
      PROVE  Right(e.file, i)' \/ Excused(e.file)'
  <2>1. pc[r] = "read" => i < off[r]
    <3>1. pc[r] = "read" => off[r] \in Nat
      BY DEF CopyInv, RankInv, Position
    <3> QED
      BY <1>1, <1>2, <1>5, <3>1 DEF UnitsOf, SectionOK, EndOf
  <2>2. Right(e.file, i) \/ Excused(e.file)
    BY <1>0, <1>1, <1>2, <1>5, <2>1, SectionBefore
  <2>3. At(dst'[e.file], i) = At(dst[e.file], i)
    BY <1>2, <1>4, <1>5, EndEffect
  <2> QED
    BY <1>1, <2>2, <2>3 DEF Right, Excused, lists
<1>6. \/ /\ pc' = [pc EXCEPT ![r] = "next"] /\ UNCHANGED vals
         /\ LastOf(e) => Len(dst'[e.file]) = size[e.file]
      \/ Fail(r, k)
  BY <1>0, EndEffect
<1>7. pc' = [pc EXCEPT ![r] = "next"] /\ pc'[r] = "next"
  BY <1>2, <1>6 DEF Fail, Shapes
<1>8. Elsewhere(r) /\ BufferInv(r)'
  BY <1>1, <1>2, <1>7 DEF Elsewhere, Shapes, BufferInv, buffer
<1>9. Flagged(r, k) /\ (LastOf(e) => vals'[r][k] \/ Len(dst'[e.file]) = size[e.file])
  <2>1. CASE Fail(r, k)
    <3>1. vals' = [vals EXCEPT ![r] = [@ EXCEPT ![k] = TRUE]]
      BY <2>1 DEF Fail
    <3>2. vals'[r][k] = TRUE
      BY <1>2, <3>1 DEF FlagsInv
    <3> QED
      BY <3>1, <3>2 DEF Flagged
  <2>2. CASE ~Fail(r, k)
    BY <1>6, <2>2 DEF Flagged
  <2> QED
    BY <2>1, <2>2
<1>10. UnitInv(<<r, k>>)' /\ EndInv(<<r, k>>)'
  BY <1>0, <1>2, <1>5, <1>7, <1>9, SectionNow
<1> QED
  BY <1>0, <1>1, <1>2, <1>3, <1>7, <1>8, <1>9, <1>10, RankStep

\* A step that copies nothing.
LEMMA QuietStep ==
    ASSUME CopyInv, DataInv, UNCHANGED <<lists, dst, elem, buffer, vals>>, ReportInv',
           \A f \in Files : len'[f] \in Nat /\ len'[f] <= len[f],
           \A q \in Ranks : \/ pc'[q] = pc[q]
                            \/ pc[q] \in {"next", "closed"} /\ pc'[q] \in {"closed", "done"}
    PROVE  DataInv'
<1>1. /\ ListInv /\ FilesInv /\ UNCHANGED lists /\ head' = head /\ src' = src /\ Sections' = Sections
      /\ UNCHANGED <<off, buf, put, got, extents>>
  BY DEF CopyInv, lists, Sections, buffer
<1>2. SharedOut' /\ FlagsInv'
  BY DEF DataInv, SharedOut, FlagsInv, lists
<1>3. ASSUME NEW q \in Ranks
      PROVE  BufferInv(q)'
  <2>1. pc'[q] = "write" => pc[q] = "write"
    OBVIOUS
  <2> QED
    BY <1>1, <2>1 DEF DataInv, BufferInv, Elem
<1>4. ASSUME NEW s \in Sections
      PROVE  UnitInv(s)' /\ EndInv(s)'
  <2>1. s[1] \in Ranks /\ UnitInv(s) /\ EndInv(s)
    BY <1>1, SectionsOK DEF DataInv
  <2>2. /\ Waiting(s)' => Waiting(s)
        /\ Over(s)' => Over(s)
    BY <2>1 DEF Waiting, Over
  <2>3. \A q \in {"read", "write", "fiemap"} : Working(s, q)' =>
           /\ Working(s, q)
           /\ off'[s[1]] = off[s[1]] /\ put'[s[1]] = put[s[1]] /\ got'[s[1]] = got[s[1]]
           /\ extents'[s[1]] = extents[s[1]]
    BY <1>1, <2>1 DEF Working
  <2> QED
    BY <1>1, <2>1, <2>2, <2>3, SectionKept
<1> QED
  BY <1>1, <1>2, <1>3, <1>4 DEF DataInv

LEMMA CloseData ==
    ASSUME CopyInv, DataInv, NEW r \in Ranks, Close(r)
    PROVE  DataInv'
<1>1. /\ pc[r] = "next" /\ elem[r] = Len(head[r]) /\ pc' = [pc EXCEPT ![r] = "closed"]
      /\ UNCHANGED <<lists, len, dst, elem, buffer, vals>>
  BY DEF Close
<1>2. DOMAIN pc = Ranks /\ ReportInv /\ head' = head
  BY <1>1 DEF CopyInv, Shapes, DataInv, lists
<1>3. \A q \in Ranks : pc[q] # "done"
  BY <1>1, <1>2 DEF ReportInv
<1>4. \A q \in Ranks : pc'[q] = IF q = r THEN "closed" ELSE pc[q]
  BY <1>1, <1>2
<1>5. ReportInv'
  BY <1>1, <1>2, <1>3, <1>4 DEF ReportInv
<1>6. \A f \in Files : len'[f] \in Nat /\ len'[f] <= len[f]
  BY <1>1 DEF CopyInv, FilesInv
<1> QED
  BY <1>1, <1>4, <1>5, <1>6, QuietStep

LEMMA ShrinkData ==
    ASSUME CopyInv, DataInv, NEW f \in Files, Shrink(f)
    PROVE  DataInv'
<1>1. UNCHANGED <<lists, dst, pc, elem, buffer, vals, ends>>
  BY DEF Shrink
<1>2. PICK n \in 0 .. len[f] - 1 : len' = [len EXCEPT ![f] = n]
  BY DEF Shrink
<1>3. \A g \in Files : len'[g] \in Nat /\ len'[g] <= len[g]
  BY <1>2 DEF CopyInv, FilesInv
<1>4. ReportInv'
  BY <1>1 DEF DataInv, ReportInv, lists, ends
<1> QED
  BY <1>1, <1>3, <1>4, QuietStep

LEMMA ReportData ==
    ASSUME CopyInv, DataInv, Report
    PROVE  DataInv'
<1>1. /\ \A r \in Ranks : pc[r] = "closed"
      /\ results' = Lor(part, head, vals)
      /\ rc' = [r \in Ranks |-> IF TRUE \in ToSet(results'[r]) THEN -1 ELSE 0]
      /\ pc' = [r \in Ranks |-> "done"]
      /\ UNCHANGED <<lists, len, dst, elem, buffer, vals>>
  BY DEF Report
<1>2. head' = head /\ part' = part /\ vals' = vals /\ elem' = elem
  BY <1>1 DEF lists
<1>3. ReportInv'
  <2>1. \A r \in Ranks : elem[r] = Len(head[r])
    BY <1>1 DEF DataInv, ReportInv
  <2> QED
    BY <1>1, <1>2, <2>1 DEF ReportInv
<1>4. \A f \in Files : len'[f] \in Nat /\ len'[f] <= len[f]
  BY <1>1 DEF CopyInv, FilesInv
<1> QED
  BY <1>1, <1>3, <1>4, QuietStep

LEMMA StutterData ==
    ASSUME CopyInv, DataInv, UNCHANGED vars
    PROVE  DataInv'
<1>1. UNCHANGED <<lists, len, dst, pc, elem, buffer, vals, ends>>
  BY DEF vars
<1>2. \A f \in Files : len'[f] \in Nat /\ len'[f] <= len[f]
  BY <1>1 DEF CopyInv, FilesInv
<1>3. ReportInv'
  BY <1>1 DEF DataInv, ReportInv, lists, ends
<1> QED
  BY <1>1, <1>2, <1>3, QuietStep

LEMMA DataInit ==
    ASSUME Init
    PROVE  DataInv
<1>1. SharedOut /\ CopyInv /\ ListInv
  BY SharedInit, CopyInit DEF CopyInv
<1>2. FlagsInv
  BY DEF Init, FlagsInv
<1>3. \A r \in Ranks : pc[r] = "next" /\ elem[r] = 0
  BY DEF Init
<1>4. ReportInv /\ \A r \in Ranks : BufferInv(r)
  BY <1>3 DEF ReportInv, BufferInv
<1>5. ASSUME NEW s \in Sections
      PROVE  UnitInv(s) /\ EndInv(s)
  <2>1. /\ s[1] \in Ranks /\ s[2] \in Nat /\ s[2] # 0 /\ SectionOK(ItemAt(head, s))
        /\ ItemAt(head, s).file \in Files
    BY <1>1, SectionsOK DEF SectionOK
  <2>2. /\ ~Over(s) /\ \A q \in {"read", "write", "fiemap"} : ~Working(s, q)
    BY <1>3, <2>1 DEF Over, Working
  <2>3. ASSUME NEW f \in Files, NEW i \in Nat
        PROVE  Blank(f, i)
    <3>1. \E t \in [Files -> Leftovers] : dst = [g \in Files |-> Leftover(opts, t[g])]
      BY DEF Init
    <3>2. opts.sparse => dst[f] = <<>>
      BY <3>1 DEF Leftover
    <3> QED
      BY <3>2, EmptySeq DEF Blank, At
  <2>4. ASSUME NEW i \in UnitsOf(ItemAt(head, s))
        PROVE  UnitOK(s, i)
    <3>1. i \in Nat
      BY <2>1, <2>4 DEF UnitsOf, SectionOK, EndOf
    <3> QED
      BY <2>1, <2>2, <2>3, <3>1 DEF UnitOK
  <2> QED
    BY <2>2, <2>4 DEF UnitInv, EndInv
<1> QED
  BY <1>1, <1>2, <1>4, <1>5 DEF DataInv

LEMMA SameUnits ==
    ASSUME NEW s \in Seq(Int), NEW t \in Seq(Int), Len(s) = Len(t),
           \A i \in 0 .. Len(s) - 1 : At(s, i) = At(t, i)
    PROVE  s = t
<1>1. Len(s) \in Nat
  BY LenProperties
<1>2. ASSUME NEW i \in 1 .. Len(s)
      PROVE  s[i] = t[i]
  <2>1. i - 1 \in 0 .. Len(s) - 1 /\ i - 1 + 1 = i
    BY <1>1, <1>2
  <2>2. At(s, i - 1) = At(t, i - 1)
    BY <2>1
  <2> QED
    BY <1>1, <2>1, <2>2 DEF At
<1> QED
  BY <1>2, SeqEqual

\* When all is copied, a file none of whose sections has failed is like its source.
LEMMA FileCopied ==
    ASSUME CopyInv, DataInv, Finished, NEW x \in FilePlaces(part, size),
           \A s \in Sections : ItemAt(head, s).file = ItemAt(part, x) => ~ItemAt(vals, s)
    PROVE  dst[ItemAt(part, x)] = src[ItemAt(part, x)] \/ Excused(ItemAt(part, x))
<1>0. PICK f : f = ItemAt(part, x)
  OBVIOUS
<1>1. SharedOut /\ Heads(head, part, size) /\ Distinct(part) /\ Listing(part, size)
      /\ ListInv /\ FilesInv
  BY DEF DataInv, SharedOut, CopyInv, Heads
<1>2. f \in Files
  BY <1>0, <1>1, FilesAreIn DEF Files
<1>3. /\ \A i \in 0 .. size[f] - 1 : \E s \in Sections : \A t \in Sections :
            Covers(ItemAt(head, t), f, i) <=> t = s
      /\ \E s \in Sections : \A t \in Sections :
            ItemAt(head, t).file = f /\ LastOf(ItemAt(head, t)) <=> t = s
  BY <1>0, <1>1, UnitsOnce DEF Sections
<1>4. ASSUME NEW s \in Sections, ItemAt(head, s).file = f
      PROVE  /\ \A i \in UnitsOf(ItemAt(head, s)) : Right(f, i) \/ Excused(f)
             /\ LastOf(ItemAt(head, s)) => Len(dst[f]) = size[f]
  <2>1. s[1] \in Ranks /\ s[2] \in 1 .. Len(head[s[1]]) /\ s[2] \in Nat
    BY <1>1, SectionsOK
  <2>2. pc[s[1]] = "done" /\ elem[s[1]] = Len(head[s[1]]) /\ Len(head[s[1]]) \in Nat
    BY <1>1, <2>1 DEF Finished, DataInv, ReportInv, ListInv
  <2>3. Over(s)
    BY <2>1, <2>2 DEF Over
  <2>4. UnitInv(s) /\ EndInv(s) /\ ~ItemAt(vals, s)
    BY <1>0, <1>4 DEF DataInv
  <2> QED
    BY <1>4, <2>3, <2>4 DEF UnitInv, UnitOK, EndInv
<1>5. dst[f] \in Seq(Int) /\ src[f] \in Seq(Int) /\ Len(src[f]) = size[f] /\ Len(dst[f]) = size[f]
  BY <1>1, <1>2, <1>3, <1>4 DEF FilesInv, ListInv
<1>6. ASSUME ~Excused(f), NEW i \in 0 .. size[f] - 1
      PROVE  At(dst[f], i) = At(src[f], i)
  <2>1. PICK s \in Sections : Covers(ItemAt(head, s), f, i)
    BY <1>3
  <2>2. SectionOK(ItemAt(head, s))
    BY <1>1, SectionsOK
  <2>3. i \in UnitsOf(ItemAt(head, s)) /\ ItemAt(head, s).file = f
    BY <2>1, <2>2 DEF Covers, UnitsOf, EndOf, SectionOK
  <2> QED
    BY <1>4, <1>6, <2>3 DEF Right
<1> QED
  BY <1>0, <1>5, <1>6, SameUnits

LEMMA AllCopied ==
    ASSUME CopyInv, DataInv
    PROVE  CopiedOrReported
<1> SUFFICES ASSUME Finished, NEW x \in FilePlaces(part, size)
             PROVE  LET f == ItemAt(part, x)
                        failed == ItemAt(results, x)
                    IN  /\ failed <=> \E s \in Sections : ItemAt(head, s).file = f /\ ItemAt(vals, s)
                        /\ IF failed THEN rc[x[1]] = -1
                           ELSE dst[f] = src[f] \/ (opts.sparse /\ opts.fiemap /\ len[f] < size[f])
  BY DEF CopiedOrReported
<1>1. Heads(head, part, size) /\ Distinct(part) /\ Listing(part, size)
  BY DEF DataInv, SharedOut, Heads
<1>2. x[1] \in Ranks /\ x[2] \in 1 .. Len(part[x[1]])
  BY <1>1, FilesAreIn
<1>3. /\ results = Lor(part, head, vals)
      /\ rc = [q \in Ranks |-> IF TRUE \in ToSet(results[q]) THEN -1 ELSE 0]
  BY <1>2 DEF Finished, DataInv, ReportInv
<1>4. ItemAt(results, x)
         <=> \E s \in Sections : ItemAt(head, s).file = ItemAt(part, x) /\ ItemAt(vals, s)
  BY <1>1, <1>3, LorOfSections DEF ItemAt, Sections
<1>5. ItemAt(results, x) \in BOOLEAN /\ x[2] \in DOMAIN results[x[1]]
  BY <1>2, <1>3 DEF Lor, ItemAt
<1>6. ASSUME ItemAt(results, x)
      PROVE  rc[x[1]] = -1
  <2>1. results[x[1]][x[2]] = TRUE
    BY <1>5, <1>6 DEF ItemAt
  <2>2. TRUE \in ToSet(results[x[1]])
    BY <1>5, <2>1 DEF ToSet
  <2> QED
    BY <1>2, <1>3, <2>2
<1>7. ASSUME ~ItemAt(results, x)
      PROVE  dst[ItemAt(part, x)] = src[ItemAt(part, x)] \/ Excused(ItemAt(part, x))
  BY <1>4, <1>7, FileCopied
<1> QED
  BY <1>4, <1>6, <1>7 DEF Excused

LEMMA DataStep ==
    ASSUME CopyInv, DataInv, [Next]_vars
    PROVE  DataInv'
BY StartData, ReadData, WriteData, FiemapData, EndData, CloseData, ShrinkData, ReportData,
   StutterData DEF Next, Done

\* mfu_copy_files, for every list, number of ranks, chunk size, buffer size and set of
\* options: the owner of a file learns of every section of it that has failed and of no
\* other, and a file that is not reported has the data that its source had when it was
\* listed.
THEOREM FilesCopiedOrReported == Spec => []CopiedOrReported
<1>1. Init => CopyInv /\ DataInv
  BY CopyInit, DataInit
<1>2. CopyInv /\ DataInv /\ [Next]_vars => CopyInv' /\ DataInv'
  BY CopyStep, DataStep
<1>3. CopyInv /\ DataInv => CopiedOrReported
  BY AllCopied
<1> QED
  BY <1>1, <1>2, <1>3, PTL DEF Spec
=============================================================================
