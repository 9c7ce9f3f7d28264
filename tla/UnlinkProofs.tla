---------------------------- MODULE UnlinkProofs ----------------------------
(* Proofs about Remap and Unlink, for any number of ranks, any size of the   *)
(* buffer, and any tree, list and way of sharing the work: an exchange loses *)
(* and repeats nothing and its messages fit, everything listed is removed    *)
(* unless the work is shared as DIRECT does, and the times of directories    *)
(* are restored.                                                             *)
EXTENDS Unlink, BlocksProofs, FiniteSetTheorems, SequenceTheorems, WellFoundedInduction

\* What an item of a list holds while it is exchanged.
Entry == [item : Items \cup {Top}, rank : Ranks, time : {"none", "old"}]

-----------------------------------------------------------------------------
(* The ring                                                                  *)

Exchanging == {"ring", "waitall", "summarize"}

\* The step in which s sends to d.
Turn(s, d) == IF d < s THEN d - s + N ELSE d - s

\* What s has packed for d, in positions of its list; what of it is still in a send;
\* and how many items d has got from s.
Sent(s, d) == {i \in MappedTo(s, d) :
                 step[s] > Turn(s, d) \/ (step[s] = Turn(s, d) /\ i < next[s])}
InFlight(s, d) == IF step[s] = Turn(s, d) THEN sending[s] ELSE <<>>
Held(d, s) == IF step[d] > Turn(s, d) THEN expected[d][s]
              ELSE IF step[d] = Turn(s, d) THEN received[d] + Len(recvbuf[d]) ELSE 0
Arrived(d) == ToSet(newlist[d]) \cup ToSet(recvbuf[d])

\* No two entries are the same.
Distinct ==
    \A s, t \in Ranks : \A i \in DOMAIN list[s], j \in DOMAIN list[t] :
       list[s][i] = list[t][j] => s = t /\ i = j

RingDomains ==
    /\ DOMAIN pc = Ranks /\ DOMAIN list = Ranks /\ DOMAIN newlist = Ranks
    /\ DOMAIN step = Ranks /\ DOMAIN next = Ranks /\ DOMAIN received = Ranks
    /\ DOMAIN sending = Ranks /\ DOMAIN receiving = Ranks /\ DOMAIN recvbuf = Ranks

RankInv(r) ==
    /\ pc[r] \in Exchanging
    /\ step[r] \in 0 .. N /\ next[r] \in Nat \ {0}
    /\ received[r] \in Nat /\ receiving[r] \in Nat
    /\ newlist[r] \in Seq(Entry) /\ recvbuf[r] \in Seq(Entry) /\ sending[r] \in Seq(Entry)
    /\ \A s \in Ranks : expected[r][s] = Cardinality(MappedTo(s, r))
    /\ pc[r] = "summarize" <=> step[r] = N
    /\ pc[r] # "waitall" => sending[r] = <<>> /\ receiving[r] = 0 /\ recvbuf[r] = <<>>

\* A receive expects a full buffer or all that is left, and so does a send.
CutInv(r) ==
    /\ receiving[r] > 0 => recvbuf[r] = <<>> /\ receiving[r] = ToReceive(r)
    /\ sending[r] # <<>> =>
          /\ Len(sending[r]) <= MaxCount
          /\ Len(sending[r]) = MaxCount \/ Sent(r, Dst(r)) = MappedTo(r, Dst(r))

\* All that s has packed for d has arrived or is in a send, once.
PairInv(s, d) ==
    /\ Cardinality(Sent(s, d)) = Held(d, s) + Len(InFlight(s, d))
    /\ \A x \in ToSet(InFlight(s, d)) : \E i \in Sent(s, d) : x = list[s][i]
    /\ \A i \in Sent(s, d) : list[s][i] \in Arrived(d) \cup ToSet(InFlight(s, d))
    /\ IsInjective(InFlight(s, d)) /\ ToSet(InFlight(s, d)) \cap Arrived(d) = {}
ArrivedInv(d) ==
    /\ \A x \in Arrived(d) : \E s \in Ranks : \E i \in Sent(s, d) : x = list[s][i]
    /\ IsInjective(newlist[d]) /\ IsInjective(recvbuf[d])
    /\ ToSet(newlist[d]) \cap ToSet(recvbuf[d]) = {}

RingInv ==
    /\ list \in [Ranks -> Seq(Entry)] /\ Distinct
    /\ \A r \in Ranks : RankInv(r) /\ CutInv(r) /\ ArrivedInv(r)
    /\ \A s, d \in Ranks : PairInv(s, d)

-----------------------------------------------------------------------------
(* The phases of a removal                                                   *)

Early == {"stat", "stated"}
Places == Early \cup Exchanging \cup
    {"start", "alltoall", "remapped", "remove", "barrier", "circle", "spread", "restore",
     "finish", "done"}

\* The times are being restored, or have been.
Final(r) == /\ opts.traceless /\ stage[r] = Levels + 1
            /\ pc[r] \in {"remapped", "restore", "finish", "done"}

TypeInv ==
    /\ part \in Parts
    /\ opts \in [algo : Algos, traceless : BOOLEAN, hash : Hashes]
    /\ pc \in [Ranks -> Places]
    /\ stage \in [Ranks -> 0 .. Levels + 1]
    /\ present \subseteq Items /\ pool \subseteq Items
    /\ DOMAIN todo = Ranks /\ DOMAIN saved = Ranks /\ DOMAIN mtime = Dirs \cup {Top}
    /\ RingDomains

\* What a rank's place says of its stage, and of where the others are.
PlaceInv(r) ==
    /\ pc[r] \in Early => stage[r] = 0 /\ opts.traceless /\ \A s \in Ranks : pc[s] \in Early
    /\ pc[r] \in {"start", "circle", "remove", "barrier"} => stage[r] <= Levels
    /\ pc[r] = "circle" => opts.algo = "LIBCIRCLE"
    /\ pc[r] = "barrier" => stage[r] > 0
    /\ pc[r] \in {"spread", "restore"} => stage[r] = Levels + 1 /\ opts.traceless
    /\ pc[r] \in {"finish", "done"} => stage[r] = Levels + 1
    /\ pc[r] \in {"alltoall", "remapped"} \cup Exchanging =>
          IF stage[r] <= Levels THEN opts.algo \in {"SPREAD", "MAP"} ELSE opts.traceless
    /\ pc[r] \in Exchanging => \A s \in Ranks : pc[s] \in Exchanging /\ stage[s] = stage[r]
    /\ pc[r] = "done" => \A s \in Ranks : pc[s] = "done"
    /\ Final(r) => \A s \in Ranks : Final(s)

\* Without DIRECT, only the first two stages overlap: a rank may still remove items that
\* are no directories when another has come to the exchange of the next stage.
Overlap(r, s) == /\ stage[r] = 0 /\ pc[r] \in {"remapped", "remove"}
                 /\ stage[s] = 1
                 /\ pc[s] \in {"start", "alltoall", "circle", "spread", "finish"}
Removing == {"remapped", "remove", "barrier"}
TogetherInv ==
    \A r, s \in Ranks :
       /\ stage[r] = stage[s] \/ Overlap(r, s) \/ Overlap(s, r)
       /\ stage[r] = stage[s] /\ stage[r] <= Levels /\ pc[r] \in Removing => pc[s] \in Removing

PhaseInv == /\ TypeInv /\ \A r \in Ranks : PlaceInv(r)
            /\ opts.algo # "DIRECT" => TogetherInv

\* A list of entries for the items of a set, each once.
Lists(l, I) ==
    /\ l \in Seq(Entry)
    /\ {l[n].item : n \in DOMAIN l} = I
    /\ \A m, n \in DOMAIN l : l[m].item = l[n].item => m = n

\* What is exchanged in a stage.
Content(r, k) == IF k <= Levels THEN ToSet(InStage(r, k)) ELSE {t.item : t \in saved[r]}
ListInv(r) ==
    pc[r] \in {"alltoall"} \cup Exchanging =>
        /\ Lists(list[r], Content(r, stage[r]))
        /\ stage[r] > Levels => \A n \in DOMAIN list[r] : list[r][n].time = "old"

\* What the ranks have read of the directories' times.
SavedInv(r) ==
    /\ pc[r] \in Early => \A d \in Dirs \cup {Top} : mtime[d] = "old"
    /\ opts.traceless /\ pc[r] # "stat" =>
          saved[r] = {[item |-> d, time |-> "old"] : d \in ToStat(r)}
    /\ ~opts.traceless \/ pc[r] = "stat" => saved[r] = {}

\* Out of the ring a rank has no message under way.
QuietInv(r) == pc[r] \notin Exchanging =>
                  sending[r] = <<>> /\ receiving[r] = 0 /\ recvbuf[r] = <<>>

ExchangeInv == /\ list \in [Ranks -> Seq(Entry)]
               /\ \A r \in Ranks : ListInv(r) /\ SavedInv(r) /\ QuietInv(r)
               /\ (\E r \in Ranks : pc[r] \in Exchanging) => RingInv

-----------------------------------------------------------------------------
(* Removal                                                                   *)

ItemsOf(s) == {s[n].item : n \in DOMAIN s}

\* What a rank is to remove is of its stage, and in the list.
RankWork(r) ==
    /\ todo[r] \in Seq(Entry)
    /\ pc[r] \notin {"remove", "restore"} => todo[r] = <<>>
    /\ pc[r] = "remapped" => newlist[r] \in Seq(Entry)
    /\ stage[r] <= Levels =>
          /\ pc[r] = "remapped" =>
                \A i \in ItemsOf(newlist[r]) : i \in Listed /\ StageOf(i) = stage[r]
          /\ \A i \in ItemsOf(todo[r]) : i \in Listed /\ StageOf(i) = stage[r]
          /\ opts.algo = "LIBCIRCLE" => todo[r] = <<>>
PoolInv == \A i \in pool : i \in Listed /\ \E r \in Ranks : pc[r] = "circle" /\ stage[r] = StageOf(i)
WorkInv == (\A r \in Ranks : RankWork(r)) /\ PoolInv

\* What is not listed, and what holds such items, stays.
StaysInv ==
    /\ Items \ Listed \subseteq present
    /\ \A d \in Listed \cap Dirs : Holds(d) => d \in present

\* An item that is there and is to go will be removed: its rank has not come to its stage,
\* is sharing it out, or some rank has got it to remove.
Owes(r, i) ==
    \/ i \in ToSet(part[r]) /\ stage[r] < StageOf(i)
    \/ /\ stage[r] = StageOf(i)
       /\ \/ i \in ToSet(part[r]) /\ pc[r] \in Early \cup {"start", "alltoall"} \cup Exchanging
          \/ i \in ItemsOf(newlist[r]) /\ pc[r] = "remapped"
          \/ i \in ItemsOf(todo[r]) /\ pc[r] = "remove"
          \/ i \in pool /\ pc[r] = "circle"
Pending(i) == \E r \in Ranks : Owes(r, i)
GoesInv == opts.algo # "DIRECT" => \A i \in Listed \cap present : Holds(i) \/ Pending(i)

-----------------------------------------------------------------------------
(* Times                                                                     *)

\* The directories that items are removed from.
Touched == {ParentOf[i] : i \in Listed}

\* What the entries of directories' times look like.
Timed(s) == \A n \in DOMAIN s : s[n].item \in Dirs \cup {Top} /\ s[n].time = "old"

\* A time to be restored is the old one, and every one is old or to be restored.
TimesInv ==
    /\ \A r \in Ranks :
          /\ Final(r) /\ pc[r] = "remapped" => Timed(newlist[r])
          /\ Final(r) /\ pc[r] = "restore" => Timed(todo[r])
    /\ (\E r \in Ranks : Final(r)) =>
          \A d \in Touched \cap (present \cup {Top}) :
             \/ mtime[d] = "old"
             \/ \E r \in Ranks : \/ pc[r] = "remapped" /\ d \in ItemsOf(newlist[r])
                                 \/ pc[r] = "restore" /\ d \in ItemsOf(todo[r])

-----------------------------------------------------------------------------
(* Numbers, sets and sequences                                               *)

\* The positions in a set are numbered in their order.
LEMMA NthPosition ==
    ASSUME NEW n \in Nat, NEW I \in SUBSET (1 .. n)
    PROVE  /\ IsFiniteSet(I) /\ Cardinality(I) \in Nat
           /\ \A k \in 1 .. Cardinality(I) : Nth(I, k) \in I
           /\ \A i \in I : \E k \in 1 .. Cardinality(I) : Nth(I, k) = i
           /\ \A k, l \in 1 .. Cardinality(I) : Nth(I, k) = Nth(I, l) => k = l
<1> DEFINE Below(i) == {j \in I : j < i}
           C == Cardinality(I)
<1>0. \A i \in I : i \in Nat
  OBVIOUS
<1>1. IsFiniteSet(I) /\ C \in Nat
  <2>1. IsFiniteSet(1 .. n)
    BY FS_Interval
  <2> QED
    BY <2>1, FS_Subset, FS_CardinalityType
<1>2. \A i \in I : IsFiniteSet(Below(i)) /\ Cardinality(Below(i)) \in 0 .. C - 1
  <2> TAKE i \in I
  <2>1. Below(i) \in SUBSET I /\ i \notin Below(i)
    BY <1>0
  <2>2. IsFiniteSet(Below(i)) /\ Cardinality(Below(i)) \in Nat /\ Cardinality(Below(i)) < C
    <3> HIDE DEF Below
    <3> QED
      BY <1>1, <2>1, Smaller
  <2> QED
    BY <1>1, <2>2
<1>3. \A i, j \in I : i < j => Cardinality(Below(i)) < Cardinality(Below(j))
  <2> TAKE i, j \in I
  <2> HAVE i < j
  <2>1. Below(i) \in SUBSET Below(j) /\ i \in Below(j) /\ i \notin Below(i)
    <3>1. i \in Nat /\ j \in Nat
      BY <1>0
    <3>2. \A z \in I : z < i => z < j
      BY <1>0, <3>1
    <3>3. ~(i < i)
      BY <3>1
    <3> QED
      BY <3>2, <3>3, Zenon
  <2> HIDE DEF Below
  <2> QED
    BY <1>2, <2>1, Smaller
<1>4. \A i, j \in I : Cardinality(Below(i)) = Cardinality(Below(j)) => i = j
  <2> TAKE i, j \in I
  <2>1. i < j \/ i = j \/ j < i
    BY <1>0
  <2>2. Cardinality(Below(i)) \in Int /\ Cardinality(Below(j)) \in Int
    BY <1>2
  <2> HIDE DEF Below
  <2> QED
    BY <1>3, <2>1, <2>2
<1>5. \A k \in 1 .. C : \E i \in I : Cardinality(Below(i)) = k - 1
  <2> DEFINE Bad == {k \in 1 .. C : ~\E i \in I : Cardinality(Below(i)) = k - 1}
  <2> SUFFICES ASSUME Bad # {} PROVE FALSE
    OBVIOUS
  <2>1. PICK k \in Bad : \A l \in Bad : k <= l
    <3>1. Bad \in SUBSET Nat
      BY <1>1
    <3> HIDE DEF Bad
    <3> QED
      BY <3>1, LeastNumber
  <2>2. CASE k = 1
    <3>1. I # {}
      BY <1>1, <2>1, FS_EmptySet
    <3>2. PICK i \in I : \A j \in I : i <= j
      BY <3>1, LeastNumber
    <3>3. Below(i) = {}
      <4>1. \A j \in I : ~(j < i)
        BY <1>0, <3>2
      <4> QED
        BY <4>1
    <3>4. Cardinality(Below(i)) = 0
      BY <3>3, FS_EmptySet
    <3>5. k - 1 = 0
      BY <2>2
    <3> HIDE DEF Below
    <3> QED
      BY <2>1, <3>4, <3>5
  <2>3. CASE k > 1
    <3>1. k - 1 \in 1 .. C /\ k - 1 \notin Bad
      BY <1>1, <2>1, <2>3
    <3>2. PICK i \in I : Cardinality(Below(i)) = k - 2
      BY <3>1
    <3> DEFINE Upper == {j \in I : i < j}
               Upto == Below(i) \cup {i}
    <3>3. Cardinality(Upto) = k - 1
      <4>1. i \notin Below(i) /\ IsFiniteSet(Below(i))
        BY <1>2
      <4> HIDE DEF Below
      <4>2. Cardinality(Upto) = Cardinality(Below(i)) + 1
        BY <4>1, FS_AddElement
      <4> QED
        BY <3>2, <4>2, <2>1, <1>1
    <3>4. Upper # {}
      <4>1. Upper = {} => I = Upto
        <5> SUFFICES ASSUME Upper = {}, NEW j \in I, j \notin Upto PROVE FALSE
          OBVIOUS
        <5>1. ~(i < j) /\ ~(j < i) /\ i # j
          OBVIOUS
        <5> QED
          BY <1>0, <5>1
      <4>2. k - 1 < C /\ k \in Nat
        BY <1>1, <2>1
      <4> HIDE DEF Upper, Upto
      <4> QED
        BY <3>3, <4>1, <4>2, <1>1
    <3>5. PICK m \in Upper : \A j \in Upper : m <= j
      <4>1. Upper \in SUBSET Nat
        BY <1>0
      <4> HIDE DEF Upper
      <4> QED
        BY <3>4, <4>1, LeastNumber
    <3>6. Below(m) = Upto
      <4>1. m \in I /\ i < m
        BY <3>5
      <4>2. ASSUME NEW j \in I, j < m
            PROVE  j \in Upto
        <5>1. ~(i < j)
          BY <1>0, <3>5, <4>1, <4>2
        <5> QED
          BY <1>0, <5>1
      <4>3. ASSUME NEW j \in Upto
            PROVE  j \in I /\ j < m
        BY <1>0, <4>1
      <4> QED
        BY <4>2, <4>3
    <3> QED
      BY <2>1, <3>3, <3>5, <3>6
  <2> QED
    BY <1>1, <2>1, <2>2, <2>3
<1>6. \A k \in 1 .. C : Nth(I, k) \in I /\ Cardinality(Below(Nth(I, k))) = k - 1
  <2> TAKE k \in 1 .. C
  <2>1. \E i \in I : Cardinality({j \in I : j < i}) = k - 1
    BY <1>5
  <2>2. Nth(I, k) \in I /\ Cardinality({j \in I : j < Nth(I, k)}) = k - 1
    BY <2>1, Zenon DEF Nth
  <2> QED
    BY <2>2
<1>7. \A i \in I : \E k \in 1 .. C : Nth(I, k) = i
  <2> TAKE i \in I
  <2> DEFINE k == Cardinality(Below(i)) + 1
  <2>1. k \in 1 .. C /\ k - 1 = Cardinality(Below(i))
    <3> HIDE DEF Below
    <3> QED
      BY <1>1, <1>2
  <2> HIDE DEF k, Below
  <2> QED
    BY <1>4, <1>6, <2>1
<1>8. \A k, l \in 1 .. C : Nth(I, k) = Nth(I, l) => k = l
  <2> HIDE DEF Below
  <2> QED
    BY <1>1, <1>6
<1> QED
  BY <1>1, <1>6, <1>7, <1>8

LEMMA FunctionIsSeq ==
    ASSUME NEW S, NEW n \in Nat, NEW f \in [1 .. n -> S]
    PROVE  f \in Seq(S) /\ Len(f) = n /\ DOMAIN f = 1 .. n
OBVIOUS

\* The sequence of what stands at a set of positions.
LEMMA PickedPositions ==
    ASSUME NEW S, NEW s \in Seq(S), NEW I \in SUBSET (1 .. Len(s))
    PROVE  /\ Chosen(s, I) \in Seq(S) /\ Len(Chosen(s, I)) = Cardinality(I)
           /\ ToSet(Chosen(s, I)) = {s[i] : i \in I}
           /\ (\A i, j \in I : s[i] = s[j] => i = j) => IsInjective(Chosen(s, I))
<1> DEFINE C == Cardinality(I)
           q == Chosen(s, I)
<1>0. q = [k \in 1 .. C |-> s[Nth(I, k)]]
  BY DEF Chosen
<1> HIDE DEF q
<1>1. Len(s) \in Nat /\ \A i \in 1 .. Len(s) : s[i] \in S
  BY LenProperties
<1>2. /\ C \in Nat /\ \A k \in 1 .. C : Nth(I, k) \in I
      /\ \A i \in I : \E k \in 1 .. C : Nth(I, k) = i
      /\ \A k, l \in 1 .. C : Nth(I, k) = Nth(I, l) => k = l
  BY <1>1, NthPosition
<1> HIDE DEF C
<1>3. \A k \in 1 .. C : q[k] = s[Nth(I, k)] /\ q[k] \in S
  BY <1>0, <1>1, <1>2
<1>4. q \in [1 .. C -> S]
  BY <1>0, <1>1, <1>2
<1>5. q \in Seq(S) /\ Len(q) = C /\ DOMAIN q = 1 .. C
  BY <1>2, <1>4, FunctionIsSeq, Zenon
<1>6. ToSet(q) = {s[i] : i \in I}
  <2>1. \A k \in 1 .. C : q[k] \in {s[i] : i \in I}
    BY <1>2, <1>3
  <2>2. \A i \in I : \E k \in 1 .. C : q[k] = s[i]
    BY <1>2, <1>3
  <2>3. ToSet(q) = {q[k] : k \in 1 .. C}
    BY <1>5 DEF ToSet
  <2> QED
    BY <2>1, <2>2, <2>3
<1>7. (\A i, j \in I : s[i] = s[j] => i = j) => IsInjective(q)
  <2>1. ASSUME \A i, j \in I : s[i] = s[j] => i = j,
               NEW a \in 1 .. C, NEW b \in 1 .. C, q[a] = q[b]
        PROVE  a = b
    <3>1. Nth(I, a) = Nth(I, b)
      BY <1>2, <1>3, <2>1
    <3> QED
      BY <1>2, <3>1
  <2> QED
    BY <1>5, <2>1 DEF IsInjective
<1> QED
  BY <1>5, <1>6, <1>7 DEF C, q

\* Two sequences, one after the other.
LEMMA Joined ==
    ASSUME NEW S, NEW s \in Seq(S), NEW t \in Seq(S)
    PROVE  /\ s \o t \in Seq(S) /\ Len(s \o t) = Len(s) + Len(t)
           /\ ToSet(s \o t) = ToSet(s) \cup ToSet(t)
           /\ IsInjective(s) /\ IsInjective(t) /\ ToSet(s) \cap ToSet(t) = {}
                 => IsInjective(s \o t)
<1> DEFINE u == s \o t
<1>1. /\ u \in Seq(S) /\ Len(u) = Len(s) + Len(t)
      /\ \A i \in 1 .. Len(s) + Len(t) : u[i] = IF i <= Len(s) THEN s[i] ELSE t[i - Len(s)]
  BY ConcatProperties
<1> HIDE DEF u
<1>2. /\ Len(s) \in Nat /\ DOMAIN s = 1 .. Len(s)
      /\ Len(t) \in Nat /\ DOMAIN t = 1 .. Len(t)
      /\ DOMAIN u = 1 .. Len(s) + Len(t)
  BY <1>1, LenProperties
<1>3. ToSet(u) = ToSet(s) \cup ToSet(t)
  <2>1. ASSUME NEW i \in DOMAIN u
        PROVE  u[i] \in ToSet(s) \cup ToSet(t)
    <3>1. i <= Len(s) \/ i - Len(s) \in DOMAIN t
      BY <1>2
    <3> QED
      BY <1>1, <1>2, <3>1 DEF ToSet
  <2>2. ASSUME NEW i \in DOMAIN s
        PROVE  s[i] \in ToSet(u)
    <3>1. i \in DOMAIN u /\ u[i] = s[i]
      BY <1>1, <1>2
    <3> QED
      BY <3>1 DEF ToSet
  <2>3. ASSUME NEW i \in DOMAIN t
        PROVE  t[i] \in ToSet(u)
    <3>1. i + Len(s) \in DOMAIN u /\ u[i + Len(s)] = t[i]
      BY <1>1, <1>2
    <3> QED
      BY <3>1 DEF ToSet
  <2> QED
    BY <2>1, <2>2, <2>3 DEF ToSet
<1>4. ASSUME IsInjective(s), IsInjective(t), ToSet(s) \cap ToSet(t) = {}
      PROVE  IsInjective(u)
  <2>1. ASSUME NEW a \in DOMAIN u, NEW b \in DOMAIN u, u[a] = u[b]
        PROVE  a = b
    <3>1. CASE a <= Len(s) /\ b <= Len(s)
      BY <1>1, <1>2, <1>4, <2>1, <3>1 DEF IsInjective
    <3>2. CASE a > Len(s) /\ b > Len(s)
      <4>1. /\ a - Len(s) \in DOMAIN t /\ b - Len(s) \in DOMAIN t
            /\ t[a - Len(s)] = t[b - Len(s)]
        BY <1>1, <1>2, <2>1, <3>2
      <4> QED
        BY <1>2, <1>4, <4>1 DEF IsInjective
    <3>3. CASE a <= Len(s) /\ b > Len(s)
      <4>1. a \in DOMAIN s /\ b - Len(s) \in DOMAIN t /\ s[a] = t[b - Len(s)]
        BY <1>1, <1>2, <2>1, <3>3
      <4> QED
        BY <1>4, <4>1 DEF ToSet
    <3>4. CASE a > Len(s) /\ b <= Len(s)
      <4>1. b \in DOMAIN s /\ a - Len(s) \in DOMAIN t /\ s[b] = t[a - Len(s)]
        BY <1>1, <1>2, <2>1, <3>4
      <4> QED
        BY <1>4, <4>1 DEF ToSet
    <3> QED
      BY <1>2, <3>1, <3>2, <3>3, <3>4
  <2> QED
    BY <2>1 DEF IsInjective
<1> QED
  BY <1>1, <1>3, <1>4 DEF u

\* The first of a sequence and the rest.
LEMMA HeadAndTail ==
    ASSUME NEW S, NEW s \in Seq(S), s # <<>>
    PROVE  /\ Head(s) \in S /\ Tail(s) \in Seq(S)
           /\ ToSet(s) = {Head(s)} \cup ToSet(Tail(s))
<1>1. /\ Head(s) \in S /\ Tail(s) \in Seq(S) /\ Len(Tail(s)) = Len(s) - 1
      /\ \A i \in 1 .. Len(Tail(s)) : Tail(s)[i] = s[i + 1]
  BY HeadTailProperties
<1>2. Len(s) \in Nat \ {0} /\ DOMAIN s = 1 .. Len(s) /\ Head(s) = s[1]
  BY EmptySeq, LenProperties
<1>3. DOMAIN Tail(s) = 1 .. Len(s) - 1
  BY <1>1, LenProperties
<1>4. \A i \in DOMAIN s : i = 1 \/ (i - 1 \in DOMAIN Tail(s) /\ Tail(s)[i - 1] = s[i])
  BY <1>1, <1>2, <1>3
<1>5. \A i \in DOMAIN Tail(s) : i + 1 \in DOMAIN s /\ Tail(s)[i] = s[i + 1]
  BY <1>1, <1>2, <1>3
<1>6. /\ \A x \in ToSet(s) : x \in {Head(s)} \cup ToSet(Tail(s))
      /\ \A x \in ToSet(Tail(s)) : x \in ToSet(s)
      /\ Head(s) \in ToSet(s)
  <2> DEFINE t == Tail(s)
             h == Head(s)
  <2> HIDE DEF t, h
  <2>1. /\ \A i \in DOMAIN s : i = 1 \/ (i - 1 \in DOMAIN t /\ t[i - 1] = s[i])
        /\ \A i \in DOMAIN t : i + 1 \in DOMAIN s /\ t[i] = s[i + 1]
        /\ h = s[1] /\ 1 \in DOMAIN s
    BY <1>2, <1>4, <1>5 DEF t, h
  <2>2. /\ \A x \in ToSet(s) : x \in {h} \cup ToSet(t)
        /\ \A x \in ToSet(t) : x \in ToSet(s)
        /\ h \in ToSet(s)
    BY <2>1 DEF ToSet
  <2> QED
    BY <2>2 DEF t, h
<1> QED
  BY <1>1, <1>6, Zenon

-----------------------------------------------------------------------------
(* The ring: what is sent, and what has arrived                              *)

\* In a step, each rank sends to another than the others do, and knows who sends to it.
LEMMA RingTurns ==
    ASSUME NEW r \in Ranks, NEW s \in Ranks, step[r] \in 0 .. N - 1
    PROVE  /\ Turn(r, s) \in 0 .. N - 1
           /\ Dst(r) \in Ranks /\ (step[r] = Turn(r, s) <=> s = Dst(r))
           /\ Src(r) \in Ranks /\ (step[r] = Turn(s, r) <=> s = Src(r))
BY RemapAssumption DEF Turn, Ranks, Dst, Src

LEMMA SentCounts ==
    ASSUME list \in [Ranks -> Seq(Entry)], NEW s \in Ranks, NEW d
    PROVE  /\ Len(list[s]) \in Nat /\ MappedTo(s, d) \in SUBSET (1 .. Len(list[s]))
           /\ DOMAIN list[s] = 1 .. Len(list[s])
           /\ \A A \in SUBSET MappedTo(s, d) : IsFiniteSet(A) /\ Cardinality(A) \in Nat
           /\ Sent(s, d) \in SUBSET MappedTo(s, d)
           /\ Cardinality(Sent(s, d)) <= Cardinality(MappedTo(s, d))
           /\ Cardinality(Sent(s, d)) = Cardinality(MappedTo(s, d)) => Sent(s, d) = MappedTo(s, d)
<1>1. Len(list[s]) \in Nat /\ DOMAIN list[s] = 1 .. Len(list[s])
  BY LenProperties
<1>2. MappedTo(s, d) \in SUBSET (1 .. Len(list[s]))
  BY <1>1 DEF MappedTo
<1>3. IsFiniteSet(MappedTo(s, d))
  <2>1. IsFiniteSet(1 .. Len(list[s]))
    BY <1>1, FS_Interval
  <2> QED
    BY <1>2, <2>1, FS_Subset
<1>4. Sent(s, d) \in SUBSET MappedTo(s, d)
  BY DEF Sent
<1>5. \A A \in SUBSET MappedTo(s, d) : IsFiniteSet(A) /\ Cardinality(A) \in Nat
  BY <1>3, FS_Subset, FS_CardinalityType
<1> QED
  BY <1>1, <1>2, <1>3, <1>4, <1>5, FS_Subset

\* The buffer takes the first positions, all of them if they fit.
LEMMA FirstsOf ==
    ASSUME NEW n \in Nat, NEW S \in SUBSET (1 .. n)
    PROVE  /\ Firsts(S) \in SUBSET S
           /\ \A i \in Firsts(S) : \A j \in S : j < i => j \in Firsts(S)
           /\ Cardinality(Firsts(S)) \in Nat /\ Cardinality(Firsts(S)) <= MaxCount
           /\ Cardinality(Firsts(S)) = MaxCount \/ Firsts(S) = S
<1> DEFINE Below(i) == {j \in S : j < i}
           I == Firsts(S)
           C == Cardinality(I)
<1>1. \A i \in S : i \in Nat
  OBVIOUS
<1>2. IsFiniteSet(S) /\ \A A \in SUBSET S : IsFiniteSet(A) /\ Cardinality(A) \in Nat
  <2>1. IsFiniteSet(1 .. n)
    BY FS_Interval
  <2> QED
    BY <2>1, FS_Subset, FS_CardinalityType
<1>3. MaxCount \in Nat \ {0}
  BY RemapAssumption
<1>4. I \in SUBSET S /\ \A i \in S : i \in I <=> Cardinality(Below(i)) < MaxCount
  BY DEF Firsts
<1>5. IsFiniteSet(I) /\ C \in Nat
  BY <1>2, <1>4
<1> HIDE DEF I, C
<1>6. \A i \in S : Below(i) \in SUBSET S
  OBVIOUS
<1>7. \A i, j \in S : j < i => Cardinality(Below(j)) <= Cardinality(Below(i))
  <2> TAKE i, j \in S
  <2> HAVE j < i
  <2>1. i \in Nat /\ j \in Nat
    BY <1>1
  <2>2. \A k \in S : k < j => k < i
    BY <1>1, <2>1
  <2>3. Below(j) \in SUBSET Below(i) /\ IsFiniteSet(Below(i))
    BY <1>2, <1>6, <2>2, Zenon
  <2> HIDE DEF Below
  <2> QED
    BY <2>3, FS_Subset
<1>8. \A i \in I : \A j \in S : j < i => j \in I
  <2> TAKE i \in I
  <2> TAKE j \in S
  <2> HAVE j < i
  <2>1. /\ Cardinality(Below(j)) \in Nat /\ Cardinality(Below(i)) \in Nat
        /\ Cardinality(Below(j)) <= Cardinality(Below(i)) /\ Cardinality(Below(i)) < MaxCount
    BY <1>2, <1>4, <1>6, <1>7
  <2> HIDE DEF Below
  <2> QED
    BY <1>3, <1>4, <2>1
<1>9. C <= MaxCount
  <2>1. CASE I = {}
    BY <1>3, <2>1, FS_EmptySet DEF C
  <2>2. CASE I # {}
    <3>1. I \in SUBSET Nat
      BY <1>1, <1>4
    <3>2. PICK m \in I : \A j \in I : j <= m
      BY <1>5, <2>2, <3>1, GreatestNumber
    <3>3. I = Below(m) \cup {m}
      <4>1. \A j \in I : j < m \/ j = m
        BY <3>1, <3>2
      <4> QED
        BY <1>4, <1>8, <4>1
    <3>4. IsFiniteSet(Below(m)) /\ m \notin Below(m) /\ Cardinality(Below(m)) \in Nat
      <4>1. m \in S /\ ~(m < m)
        BY <1>4, <3>1
      <4> QED
        BY <1>2, <1>6, <4>1
    <3>5. Cardinality(Below(m)) < MaxCount
      BY <1>4
    <3> HIDE DEF Below
    <3>6. C = Cardinality(Below(m)) + 1
      BY <3>3, <3>4, FS_AddElement DEF C
    <3> QED
      BY <1>3, <3>4, <3>5, <3>6
  <2> QED
    BY <2>1, <2>2
<1>10. C = MaxCount \/ I = S
  <2> SUFFICES ASSUME I # S PROVE C = MaxCount
    OBVIOUS
  <2>1. PICK i \in S \ I : \A j \in S \ I : i <= j
    <3>1. S \ I # {} /\ S \ I \in SUBSET Nat
      BY <1>1, <1>4
    <3> QED
      BY <3>1, LeastNumber
  <2>2. Below(i) \in SUBSET I
    <3>1. \A j \in S : j < i => j \in I
      BY <1>1, <2>1
    <3> QED
      BY <3>1
  <2>3. ~(Cardinality(Below(i)) < MaxCount) /\ Cardinality(Below(i)) \in Nat
    BY <1>2, <1>4, <1>6, <2>1
  <2> HIDE DEF Below
  <2>4. Cardinality(Below(i)) <= C
    BY <1>5, <2>2, FS_Subset DEF C
  <2> QED
    BY <1>3, <1>5, <1>9, <2>3, <2>4
<1> QED
  BY <1>4, <1>5, <1>8, <1>9, <1>10 DEF I, C

\* What a rank packs next: the positions it sends, and what has been sent then.
LEMMA PackedNext ==
    ASSUME RingInv, NEW r \in Ranks, step[r] \in 0 .. N - 1, sending[r] = <<>>
    PROVE  LET d == Dst(r)
               I == Firsts(Outgoing(r))
               after == IF Outgoing(r) = {} THEN next[r] ELSE Looked(r) + 1
           IN  /\ I \in SUBSET MappedTo(r, d) /\ I \cap Sent(r, d) = {}
               /\ after \in Nat \ {0}
               /\ {i \in MappedTo(r, d) : i < after} = Sent(r, d) \cup I
               /\ Packed(r) \in Seq(Entry) /\ Len(Packed(r)) = Cardinality(I)
               /\ ToSet(Packed(r)) = {list[r][i] : i \in I}
               /\ IsInjective(Packed(r))
               /\ Cardinality(I) \in Nat /\ Cardinality(I) <= MaxCount
               /\ Cardinality(I) = MaxCount \/ Sent(r, d) \cup I = MappedTo(r, d)
<1> DEFINE d == Dst(r)
           S == Outgoing(r)
           I == Firsts(S)
           n == Len(list[r])
           M == MappedTo(r, d)
           after == IF S = {} THEN next[r] ELSE Looked(r) + 1
<1>1. list \in [Ranks -> Seq(Entry)] /\ Distinct /\ next[r] \in Nat \ {0}
  BY DEF RingInv, RankInv
<1>2. n \in Nat /\ DOMAIN list[r] = 1 .. n /\ M \in SUBSET (1 .. n)
  BY <1>1, SentCounts
<1>3. S = {i \in M : next[r] <= i}
  BY DEF Outgoing
<1>4. Sent(r, d) = {i \in M : i < next[r]}
  <2>1. step[r] = Turn(r, d) /\ ~(step[r] > step[r])
    BY RingTurns
  <2> QED
    BY <2>1 DEF Sent
<1> HIDE DEF d, n, M
<1>5. S \in SUBSET (1 .. n)
  BY <1>2, <1>3
<1> HIDE DEF S
<1>6. /\ I \in SUBSET S
      /\ \A i \in I : \A j \in S : j < i => j \in I
      /\ Cardinality(I) \in Nat /\ Cardinality(I) <= MaxCount
      /\ Cardinality(I) = MaxCount \/ I = S
  BY <1>2, <1>5, FirstsOf
<1> HIDE DEF I
<1>7. I \in SUBSET M /\ I \cap Sent(r, d) = {}
  <2>1. \A i \in S : i \in M /\ ~(i < next[r])
    BY <1>1, <1>2, <1>3
  <2> QED
    BY <1>4, <1>6, <2>1
<1>8. Sent(r, d) \cup S = M
  <2>1. \A i \in M : i < next[r] \/ next[r] <= i
    BY <1>1, <1>2
  <2> QED
    BY <1>3, <1>4, <2>1
<1>9. /\ Packed(r) \in Seq(Entry) /\ Len(Packed(r)) = Cardinality(I)
      /\ ToSet(Packed(r)) = {list[r][i] : i \in I} /\ IsInjective(Packed(r))
  <2>1. I \in SUBSET (1 .. Len(list[r])) /\ list[r] \in Seq(Entry)
    BY <1>1, <1>5, <1>6 DEF n
  <2>2. \A i, j \in I : list[r][i] = list[r][j] => i = j
    BY <1>1, <1>2, <2>1 DEF Distinct, n
  <2>3. Packed(r) = Chosen(list[r], I)
    BY DEF Packed, I, S
  <2>4. /\ Packed(r) \in Seq(Entry) /\ Len(Packed(r)) = Cardinality(I)
        /\ ToSet(Packed(r)) = {list[r][i] : i \in I}
        /\ (\A i, j \in I : list[r][i] = list[r][j] => i = j) => IsInjective(Packed(r))
    <3>1. Chosen(list[r], I) \in Seq(Entry)
      BY <2>1, PickedPositions
    <3>2. Len(Chosen(list[r], I)) = Cardinality(I)
      BY <2>1, PickedPositions
    <3>3. ToSet(Chosen(list[r], I)) = {list[r][i] : i \in I}
      BY <2>1, PickedPositions
    <3>4. (\A i, j \in I : list[r][i] = list[r][j] => i = j) => IsInjective(Chosen(list[r], I))
      BY <2>1, PickedPositions
    <3> QED
      BY <2>3, <3>1, <3>2, <3>3, <3>4
  <2> QED
    BY <2>2, <2>4
<1>10. after \in Nat \ {0} /\ {i \in M : i < after} = Sent(r, d) \cup I
  <2>1. CASE S = {}
    <3>1. after = next[r] /\ I = {}
      BY <1>6, <2>1
    <3> QED
      BY <1>1, <1>4, <3>1
  <2>2. CASE S # {} /\ Cardinality(I) = MaxCount
    <3>1. I # {} /\ IsFiniteSet(I) /\ I \in SUBSET Nat
      <4>1. IsFiniteSet(1 .. n) /\ I \in SUBSET (1 .. n)
        BY <1>2, <1>5, <1>6, FS_Interval
      <4>2. I # {}
        BY <2>2, FS_EmptySet, RemapAssumption
      <4>3. IsFiniteSet(I)
        BY <4>1, FS_Subset
      <4>4. I \in SUBSET Nat
        BY <1>2, <4>1
      <4> QED
        BY <4>2, <4>3, <4>4
    <3>2. \E i \in I : \A j \in I : j <= i
      BY <3>1, GreatestNumber
    <3> DEFINE m == CHOOSE i \in I : \A j \in I : j <= i
    <3>3. m \in I /\ \A j \in I : j <= m
      BY <3>2
    <3>4. Looked(r) = m
      BY <2>2 DEF Looked, I, S
    <3> HIDE DEF m
    <3>5. after = m + 1 /\ m \in Nat /\ next[r] <= m
      BY <1>3, <1>6, <2>2, <3>1, <3>3, <3>4
    <3>6. \A i \in M : i < m + 1 <=> i < next[r] \/ i \in I
      <4> TAKE i \in M
      <4>1. i \in Nat
        BY <1>2
      <4>2. CASE i < next[r]
        BY <1>1, <3>5, <4>1, <4>2
      <4>3. CASE i \in I
        BY <3>3, <3>5, <4>1, <4>3
      <4>4. ASSUME i < m + 1, ~(i < next[r])
            PROVE  i \in I
        <5>1. i \in S /\ (i < m \/ i = m)
          BY <1>1, <1>3, <3>5, <4>1, <4>4
        <5> QED
          BY <1>6, <3>3, <5>1
      <4> QED
        BY <4>2, <4>3, <4>4
    <3> HIDE DEF after
    <3> QED
      BY <1>4, <1>7, <3>5, <3>6
  <2>3. CASE S # {} /\ Cardinality(I) # MaxCount
    <3>1. Looked(r) = n /\ I = S
      BY <1>6, <2>3 DEF Looked, I, S, n
    <3>2. after = n + 1
      BY <2>3, <3>1
    <3>3. n + 1 \in Nat \ {0} /\ \A i \in M : i < n + 1
      <4>1. \A i \in 1 .. n : i < n + 1
        BY <1>2
      <4> QED
        BY <1>2, <4>1
    <3> HIDE DEF after
    <3> QED
      BY <1>8, <3>1, <3>2, <3>3
  <2> QED
    BY <2>1, <2>2, <2>3
<1>11. Cardinality(I) = MaxCount \/ Sent(r, d) \cup I = M
  BY <1>6, <1>8
<1> QED
  BY <1>6, <1>7, <1>9, <1>10, <1>11 DEF I, S, d, M

\* What is still to come to a rank in its step is not negative, and fits a receive.
LEMMA Awaited ==
    ASSUME RingInv, NEW r \in Ranks, step[r] \in 0 .. N - 1
    PROVE  /\ expected[r][Src(r)] \in Nat /\ Incoming(r) \in Int
           /\ received[r] + Len(recvbuf[r]) <= expected[r][Src(r)]
           /\ Len(recvbuf[r]) \in Nat
           /\ recvbuf[r] = <<>> => Incoming(r) \in Nat /\ ToReceive(r) \in Nat
<1> DEFINE s == Src(r)
<1>1. s \in Ranks /\ step[r] = Turn(s, r) /\ Turn(s, r) \in Int
  BY RingTurns
<1>2. /\ list \in [Ranks -> Seq(Entry)] /\ received[r] \in Nat /\ recvbuf[r] \in Seq(Entry)
      /\ expected[r][s] = Cardinality(MappedTo(s, r)) /\ sending[s] \in Seq(Entry)
  BY <1>1 DEF RingInv, RankInv
<1> HIDE DEF s
<1>3. Len(recvbuf[r]) \in Nat /\ Len(sending[s]) \in Nat
  BY <1>2, LenProperties
<1>4. Len(InFlight(s, r)) \in Nat
  BY <1>3, EmptySeq DEF InFlight
<1>5. Cardinality(Sent(s, r)) = received[r] + Len(recvbuf[r]) + Len(InFlight(s, r))
  BY <1>1 DEF RingInv, PairInv, Held
<1>6. /\ Cardinality(Sent(s, r)) \in Nat /\ Cardinality(MappedTo(s, r)) \in Nat
      /\ Cardinality(Sent(s, r)) <= Cardinality(MappedTo(s, r))
  BY <1>1, <1>2, SentCounts
<1>7. Incoming(r) = expected[r][s] - received[r]
  BY DEF Incoming, s
<1> QED
  BY <1>2, <1>3, <1>4, <1>5, <1>6, <1>7, RemapAssumption DEF ToReceive, s

-----------------------------------------------------------------------------
(* The ring: its steps                                                       *)

\* A rank whose part of the exchange is as it was.
LEMMA RankStays ==
    ASSUME NEW q \in Ranks, RankInv(q), list' = list, expected' = expected,
           pc'[q] = pc[q], step'[q] = step[q], next'[q] = next[q], received'[q] = received[q],
           receiving'[q] = receiving[q], newlist'[q] = newlist[q],
           recvbuf'[q] = recvbuf[q], sending'[q] = sending[q]
    PROVE  RankInv(q)'
BY DEF RankInv, MappedTo

LEMMA SentStays ==
    ASSUME NEW s, NEW d, list' = list, step'[s] = step[s],
           next'[s] = next[s] \/ step[s] # Turn(s, d)
    PROVE  Sent(s, d)' = Sent(s, d)
BY DEF Sent, MappedTo, Turn

LEMMA FlightStays ==
    ASSUME NEW s, NEW d, step'[s] = step[s],
           sending'[s] = sending[s] \/ step[s] # Turn(s, d)
    PROVE  InFlight(s, d)' = InFlight(s, d)
BY DEF InFlight, Turn

LEMMA HeldStays ==
    ASSUME NEW d, NEW s, expected' = expected, step'[d] = step[d],
           (received'[d] = received[d] /\ recvbuf'[d] = recvbuf[d]) \/ step[d] # Turn(s, d)
    PROVE  Held(d, s)' = Held(d, s)
BY DEF Held, Turn

LEMMA CutStays ==
    ASSUME NEW q, CutInv(q), list' = list, expected' = expected, step'[q] = step[q],
           next'[q] = next[q], received'[q] = received[q], receiving'[q] = receiving[q],
           recvbuf'[q] = recvbuf[q], sending'[q] = sending[q]
    PROVE  CutInv(q)'
<1>1. Dst(q)' = Dst(q) /\ Src(q)' = Src(q)
  BY DEF Dst, Src
<1>2. Sent(q, Dst(q))' = Sent(q, Dst(q)) /\ MappedTo(q, Dst(q))' = MappedTo(q, Dst(q))
  BY <1>1 DEF Sent, MappedTo, Turn
<1>3. ToReceive(q)' = ToReceive(q)
  BY <1>1 DEF ToReceive, Incoming
<1> QED
  BY <1>2, <1>3 DEF CutInv

\* Each pair of ranks is as it was.
LEMMA PairStays ==
    ASSUME NEW s \in Ranks, NEW d \in Ranks, PairInv(s, d), list' = list,
           Sent(s, d)' = Sent(s, d), InFlight(s, d)' = InFlight(s, d),
           Held(d, s)' = Held(d, s), Arrived(d)' = Arrived(d)
    PROVE  PairInv(s, d)'
BY DEF PairInv

LEMMA ArrivedStays ==
    ASSUME NEW d \in Ranks, ArrivedInv(d), list' = list, newlist'[d] = newlist[d],
           recvbuf'[d] = recvbuf[d], \A s \in Ranks : Sent(s, d) \subseteq Sent(s, d)'
    PROVE  ArrivedInv(d)' /\ Arrived(d)' = Arrived(d)
<1>1. Arrived(d)' = Arrived(d)
  BY DEF Arrived
<1>2. \A x \in Arrived(d)' : \E s \in Ranks : \E i \in Sent(s, d)' : x = list'[s][i]
  BY <1>1 DEF ArrivedInv
<1> QED
  BY <1>1, <1>2 DEF ArrivedInv

LEMMA PostKeeps ==
    ASSUME RingDomains, RingInv, NEW r \in Ranks, Post(r)
    PROVE  RingInv' /\ RingDomains'
<1>0. \E d, I : d = Dst(r) /\ I = Firsts(Outgoing(r))
  OBVIOUS
<1> PICK d, I : d = Dst(r) /\ I = Firsts(Outgoing(r))
  BY <1>0
<1>1. /\ UNCHANGED <<list, newlist, expected, step, received, recvbuf>>
      /\ \A q \in Ranks \ {r} : /\ pc'[q] = pc[q] /\ next'[q] = next[q]
                                /\ receiving'[q] = receiving[q] /\ sending'[q] = sending[q]
      /\ pc'[r] = "waitall" /\ receiving'[r] = ToReceive(r) /\ sending'[r] = Packed(r)
      /\ next'[r] = IF Outgoing(r) = {} THEN next[r] ELSE Looked(r) + 1
      /\ RingDomains'
  BY DEF Post, RingDomains
<1>2. step[r] \in 0 .. N - 1 /\ sending[r] = <<>> /\ recvbuf[r] = <<>> /\ pc[r] = "ring"
  BY RemapAssumption DEF Post, RingInv, RankInv
<1>3. /\ I \in SUBSET MappedTo(r, d) /\ I \cap Sent(r, d) = {}
      /\ next'[r] \in Nat \ {0}
      /\ {i \in MappedTo(r, d) : i < next'[r]} = Sent(r, d) \cup I
      /\ sending'[r] \in Seq(Entry) /\ Len(sending'[r]) = Cardinality(I)
      /\ ToSet(sending'[r]) = {list[r][i] : i \in I} /\ IsInjective(sending'[r])
      /\ Cardinality(I) \in Nat /\ Cardinality(I) <= MaxCount
      /\ Cardinality(I) = MaxCount \/ Sent(r, d) \cup I = MappedTo(r, d)
  BY <1>1, <1>2, PackedNext, Zenon
<1>4. /\ d \in Ranks /\ step[r] = Turn(r, d) /\ ~(step[r] > Turn(r, d))
      /\ \A t \in Ranks \ {d} : step[r] # Turn(r, t)
  <2>1. ~(step[r] > step[r])
    BY <1>2
  <2> QED
    BY <1>2, <2>1, RingTurns
<1>5. Sent(r, d)' = Sent(r, d) \cup I
  BY <1>1, <1>3, <1>4 DEF Sent, MappedTo, Turn
<1>6. \A s, t \in Ranks : <<s, t>> # <<r, d>> => /\ Sent(s, t)' = Sent(s, t)
                                                 /\ InFlight(s, t)' = InFlight(s, t)
  <2> TAKE s, t \in Ranks
  <2> HAVE <<s, t>> # <<r, d>>
  <2>1. s # r \/ step[s] # Turn(s, t)
    BY <1>4
  <2> QED
    BY <1>1, <2>1, SentStays, FlightStays
<1>7. \A s, t \in Ranks : Sent(s, t) \subseteq Sent(s, t)'
  BY <1>5, <1>6
<1>8. \A t, s \in Ranks : Held(t, s)' = Held(t, s)
  BY <1>1, HeldStays
<1>9. \A q \in Ranks : ArrivedInv(q)' /\ Arrived(q)' = Arrived(q)
  BY <1>1, <1>7, ArrivedStays DEF RingInv
<1>10. PairInv(r, d)'
  <2>1. InFlight(r, d) = <<>> /\ InFlight(r, d)' = sending'[r]
    BY <1>1, <1>2, <1>4 DEF InFlight, Turn
  <2>2. /\ Cardinality(Sent(r, d)) = Held(d, r) + Len(InFlight(r, d))
        /\ \A i \in Sent(r, d) : list[r][i] \in Arrived(d)
    BY <1>4, <2>1 DEF RingInv, PairInv, ToSet
  <2>3. /\ IsFiniteSet(Sent(r, d)) /\ Cardinality(Sent(r, d)) \in Nat /\ IsFiniteSet(I)
    BY <1>3, <1>4, SentCounts DEF RingInv
  <2>4. Cardinality(Sent(r, d) \cup I) = Cardinality(Sent(r, d)) + Cardinality(I)
    <3>1. Sent(r, d) \cap I = {}
      BY <1>3
    <3>2. Cardinality(Sent(r, d) \cup I) = Cardinality(Sent(r, d)) + Cardinality(I) - Cardinality(Sent(r, d) \cap I)
      BY <2>3, FS_Union
    <3> QED
      <4>1. Cardinality(Sent(r, d) \cap I) = 0
        BY <3>1, FS_EmptySet
      <4> QED
        BY <1>3, <2>3, <3>2, <4>1
  <2>5. Cardinality(Sent(r, d)') = Held(d, r)' + Len(InFlight(r, d)')
    <3>1. Cardinality(Sent(r, d)) = Held(d, r)
      <4>1. Len(<<>>) = 0
        OBVIOUS
      <4>2. Cardinality(Sent(r, d)) = Held(d, r) + 0
        BY <2>1, <2>2, <4>1
      <4>3. received[d] \in Nat /\ Len(recvbuf[d]) \in Nat /\ expected[d][r] \in Nat
        BY <1>4, SentCounts, LenProperties DEF RingInv, RankInv
      <4> QED
        BY <4>2, <4>3 DEF Held
    <3> QED
      BY <1>3, <1>4, <1>5, <1>8, <2>1, <2>4, <3>1
  <2>6. \A x \in ToSet(InFlight(r, d)') : x \notin Arrived(d)
    <3> SUFFICES ASSUME NEW i \in I, list[r][i] \in Arrived(d) PROVE FALSE
      BY <1>3, <2>1
    <3>1. PICK s \in Ranks : \E j \in Sent(s, d) : list[r][i] = list[s][j]
      BY <1>4 DEF RingInv, ArrivedInv
    <3>2. PICK j \in Sent(s, d) : list[r][i] = list[s][j]
      BY <3>1
    <3>3. i \in DOMAIN list[r] /\ j \in DOMAIN list[s]
      BY <1>3 DEF MappedTo, Sent
    <3>4. s = r /\ i = j
      BY <3>2, <3>3 DEF RingInv, Distinct
    <3> QED
      BY <1>3, <3>2, <3>4
  <2>7. /\ \A x \in ToSet(InFlight(r, d)') : \E i \in Sent(r, d)' : x = list'[r][i]
        /\ \A i \in Sent(r, d)' : list'[r][i] \in Arrived(d)' \cup ToSet(InFlight(r, d)')
        /\ IsInjective(InFlight(r, d)')
    BY <1>1, <1>3, <1>4, <1>5, <1>9, <2>1, <2>2
  <2>8. Arrived(d)' = Arrived(d)
    BY <1>4, <1>9
  <2> QED
    BY <2>5, <2>6, <2>7, <2>8 DEF PairInv
<1>11. \A s, t \in Ranks : PairInv(s, t)'
  BY <1>1, <1>6, <1>8, <1>9, <1>10, PairStays DEF RingInv
<1>12. CutInv(r)'
  <2>1. Dst(r)' = d /\ ToReceive(r)' = ToReceive(r)
    BY <1>1 DEF Dst, Src, ToReceive, Incoming
  <2>2. MappedTo(r, d)' = MappedTo(r, d)
    BY <1>1 DEF MappedTo
  <2>3. Sent(r, Dst(r))' = Sent(r, d) \cup I /\ MappedTo(r, Dst(r))' = MappedTo(r, d)
    BY <1>5, <2>1, <2>2 DEF Sent, MappedTo, Turn
  <2> QED
    BY <1>1, <1>2, <1>3, <2>1, <2>3 DEF CutInv
<1>13. RankInv(r)'
  <2>1. receiving'[r] \in Nat
    BY <1>1, <1>2, Awaited
  <2> QED
    BY <1>1, <1>2, <1>3, <2>1, RemapAssumption DEF RingInv, RankInv, MappedTo, Exchanging
<1>14. \A q \in Ranks : RankInv(q)' /\ CutInv(q)'
  BY <1>1, <1>12, <1>13, RankStays, CutStays DEF RingInv
<1>15. list' \in [Ranks -> Seq(Entry)] /\ Distinct'
  BY <1>1 DEF RingInv, Distinct
<1> QED
  BY <1>1, <1>9, <1>11, <1>14, <1>15 DEF RingInv

LEMMA MatchKeeps ==
    ASSUME RingDomains, RingInv, NEW s \in Ranks, Match(s)
    PROVE  RingInv' /\ RingDomains'
<1>0. \E d : d = Dst(s)
  OBVIOUS
<1> PICK d : d = Dst(s)
  BY <1>0
<1>1. /\ UNCHANGED <<pc, list, newlist, expected, step, next, received>>
      /\ sending[s] # <<>> /\ receiving[d] > 0 /\ Src(d) = s
      /\ pc[s] = "waitall" /\ pc[d] = "waitall"
  BY DEF Match
<1>2. step[s] \in 0 .. N - 1
  BY <1>1, RemapAssumption DEF RingInv, RankInv
<1>3. d \in Ranks /\ step[s] = Turn(s, d) /\ \A t \in Ranks \ {d} : step[s] # Turn(s, t)
  BY <1>2, RingTurns
<1>4. step[d] \in 0 .. N - 1
  BY <1>1, <1>3, RemapAssumption DEF RingInv, RankInv
<1>5. step[d] = Turn(s, d) /\ \A t \in Ranks \ {s} : step[d] # Turn(t, d)
  BY <1>1, <1>3, <1>4, RingTurns
<1>6. /\ recvbuf'[d] = sending[s] /\ sending'[s] = <<>> /\ receiving'[d] = 0
      /\ \A q \in Ranks \ {d} : recvbuf'[q] = recvbuf[q] /\ receiving'[q] = receiving[q]
      /\ \A q \in Ranks \ {s} : sending'[q] = sending[q]
      /\ RingDomains'
  BY <1>3 DEF Match, RingDomains
<1>7. recvbuf[d] = <<>> /\ InFlight(s, d) = sending[s] /\ InFlight(s, d)' = <<>>
  BY <1>1, <1>3, <1>6 DEF RingInv, CutInv, InFlight, Turn
<1>8. \A q, t \in Ranks : Sent(q, t)' = Sent(q, t) /\ MappedTo(q, t)' = MappedTo(q, t)
  BY <1>1 DEF Sent, MappedTo, Turn
<1>9. \A q, t \in Ranks : <<q, t>> # <<s, d>> =>
         InFlight(q, t)' = InFlight(q, t) /\ Held(t, q)' = Held(t, q)
  <2> TAKE q, t \in Ranks
  <2> HAVE <<q, t>> # <<s, d>>
  <2>1. q # s \/ step[q] # Turn(q, t)
    <3>1. ASSUME q = s
          PROVE  step[q] # Turn(q, t)
      <4>1. t # d
        BY <3>1
      <4>2. step[s] # Turn(s, t)
        BY <1>3, <4>1
      <4> QED
        BY <3>1, <4>2
    <3> QED
      BY <3>1
  <2>2. t # d \/ step[t] # Turn(q, t)
    BY <1>5
  <2> QED
    BY <1>1, <1>6, <2>1, <2>2 DEF InFlight, Held, Turn
<1>10. /\ \A q \in Ranks \ {d} : Arrived(q)' = Arrived(q)
       /\ Arrived(d)' = Arrived(d) \cup ToSet(sending[s])
       /\ Arrived(d) = ToSet(newlist[d])
  <2>1. ToSet(<<>>) = {}
    BY DEF ToSet
  <2> QED
    BY <1>1, <1>6, <1>7, <2>1 DEF Arrived
<1>11. PairInv(s, d) /\ ArrivedInv(d)
  BY <1>3 DEF RingInv
<1>12. \A q \in Ranks : ArrivedInv(q)'
  <2>1. ArrivedInv(d)'
    <3>1. \A x \in Arrived(d)' : \E q \in Ranks : \E i \in Sent(q, d)' : x = list'[q][i]
      <4>1. \A x \in Arrived(d) : \E q \in Ranks : \E i \in Sent(q, d)' : x = list'[q][i]
        BY <1>1, <1>3, <1>8, <1>11 DEF ArrivedInv
      <4>2. \A x \in ToSet(sending[s]) : \E i \in Sent(s, d)' : x = list'[s][i]
        BY <1>1, <1>3, <1>7, <1>8, <1>11 DEF PairInv
      <4> QED
        BY <1>10, <4>1, <4>2
    <3>2. /\ IsInjective(newlist[d]) /\ IsInjective(sending[s])
          /\ ToSet(newlist[d]) \cap ToSet(sending[s]) = {}
      BY <1>7, <1>10, <1>11 DEF ArrivedInv, PairInv
    <3> QED
      BY <1>1, <1>6, <3>1, <3>2 DEF ArrivedInv
  <2>2. \A q \in Ranks \ {d} : ArrivedInv(q)'
    BY <1>1, <1>6, <1>8, ArrivedStays DEF RingInv
  <2> QED
    BY <2>1, <2>2
<1>13. PairInv(s, d)'
  <2>1. Len(<<>>) = 0 /\ ToSet(<<>>) = {} /\ IsInjective(<<>>)
    BY DEF ToSet, IsInjective
  <2>2. received[d] \in Nat /\ sending[s] \in Seq(Entry)
    BY <1>3 DEF RingInv, RankInv
  <2>3. Len(sending[s]) \in Nat
    BY <2>2, LenProperties
  <2>4. Held(d, s)' = received[d] + Len(sending[s]) /\ Held(d, s) = received[d]
    <3>1. ~(step[d] > step[d])
      BY <1>4
    <3>2. Turn(s, d)' = Turn(s, d)
      BY DEF Turn
    <3> QED
      BY <1>1, <1>5, <1>6, <1>7, <2>1, <2>2, <3>1, <3>2 DEF Held
  <2>5. Cardinality(Sent(s, d)') = Held(d, s)' + Len(InFlight(s, d)')
    BY <1>3, <1>7, <1>8, <1>11, <2>1, <2>2, <2>3, <2>4 DEF PairInv
  <2>6. \A i \in Sent(s, d)' : list'[s][i] \in Arrived(d)' \cup ToSet(InFlight(s, d)')
    BY <1>1, <1>3, <1>7, <1>8, <1>10, <1>11 DEF PairInv
  <2> QED
    BY <1>7, <2>1, <2>5, <2>6 DEF PairInv
<1>14. \A q \in Ranks \ {s} : PairInv(q, d)'
  <2> TAKE q \in Ranks \ {s}
  <2>1. PairInv(q, d) /\ InFlight(q, d)' = InFlight(q, d) /\ Held(d, q)' = Held(d, q)
        /\ Sent(q, d)' = Sent(q, d)
    BY <1>3, <1>8, <1>9 DEF RingInv
  <2>2. ToSet(InFlight(q, d)) \cap ToSet(sending[s]) = {}
    <3> SUFFICES ASSUME NEW x \in ToSet(InFlight(q, d)), x \in ToSet(sending[s]) PROVE FALSE
      OBVIOUS
    <3>1. PICK i \in Sent(q, d) : x = list[q][i]
      BY <2>1 DEF PairInv
    <3>2. PICK j \in Sent(s, d) : x = list[s][j]
      BY <1>7, <1>11 DEF PairInv
    <3>3. i \in DOMAIN list[q] /\ j \in DOMAIN list[s]
      BY DEF Sent, MappedTo
    <3> QED
      BY <3>1, <3>2, <3>3 DEF RingInv, Distinct
  <2> QED
    BY <1>1, <1>10, <2>1, <2>2 DEF PairInv
<1>15. \A q, t \in Ranks : PairInv(q, t)'
  <2> TAKE q, t \in Ranks
  <2>1. CASE t # d
    BY <1>1, <1>8, <1>9, <1>10, <2>1, PairStays DEF RingInv
  <2> QED
    BY <1>13, <1>14, <2>1
<1>16. \A q \in Ranks : CutInv(q)'
  <2> TAKE q \in Ranks
  <2>1. CutInv(q) /\ Dst(q)' = Dst(q) /\ ToReceive(q)' = ToReceive(q)
    BY <1>1 DEF RingInv, Dst, Src, ToReceive, Incoming
  <2>2. Sent(q, Dst(q))' = Sent(q, Dst(q)) /\ MappedTo(q, Dst(q))' = MappedTo(q, Dst(q))
    BY <1>1, <2>1 DEF Sent, MappedTo, Turn
  <2>3. receiving'[q] > 0 => recvbuf'[q] = <<>> /\ receiving'[q] = ToReceive(q)'
    BY <1>6, <2>1 DEF CutInv
  <2>4. sending'[q] # <<>> => sending'[q] = sending[q]
    BY <1>6
  <2> QED
    BY <2>1, <2>2, <2>3, <2>4 DEF CutInv
<1>17. \A q \in Ranks : RankInv(q)'
  <2> TAKE q \in Ranks
  <2>1. RankInv(q) /\ sending[s] \in Seq(Entry) /\ <<>> \in Seq(Entry)
    BY EmptySeq DEF RingInv, RankInv
  <2>2. recvbuf'[q] \in Seq(Entry) /\ sending'[q] \in Seq(Entry) /\ receiving'[q] \in Nat
    <3>1. recvbuf[q] \in Seq(Entry) /\ sending[q] \in Seq(Entry) /\ receiving[q] \in Nat
      BY <2>1 DEF RankInv
    <3>2. recvbuf'[q] = recvbuf[q] \/ recvbuf'[q] = sending[s]
      BY <1>3, <1>6
    <3>3. sending'[q] = sending[q] \/ sending'[q] = <<>>
      BY <1>6
    <3>4. receiving'[q] = receiving[q] \/ receiving'[q] = 0
      BY <1>3, <1>6
    <3>5. recvbuf'[q] \in Seq(Entry)
      BY <2>1, <3>1, <3>2, Zenon
    <3>6. sending'[q] \in Seq(Entry)
      BY <2>1, <3>1, <3>3, Zenon
    <3> QED
      BY <3>1, <3>4, <3>5, <3>6
  <2>3. pc[q] # "waitall" => recvbuf'[q] = recvbuf[q] /\ sending'[q] = sending[q]
                             /\ receiving'[q] = receiving[q]
    BY <1>1, <1>6
  <2> QED
    BY <1>1, <1>8, <2>1, <2>2, <2>3 DEF RankInv
<1>18. list' \in [Ranks -> Seq(Entry)] /\ Distinct'
  BY <1>1 DEF RingInv, Distinct
<1> QED
  BY <1>6, <1>12, <1>15, <1>16, <1>17, <1>18 DEF RingInv

LEMMA UnpackKeeps ==
    ASSUME RingDomains, RingInv, NEW r \in Ranks, Unpack(r)
    PROVE  RingInv' /\ RingDomains'
<1>1. /\ UNCHANGED <<list, expected, step, next, sending, receiving>>
      /\ pc[r] = "waitall" /\ sending[r] = <<>> /\ receiving[r] = 0
  BY DEF Unpack
<1>2. step[r] \in 0 .. N - 1
  BY <1>1, RemapAssumption DEF RingInv, RankInv
<1>3. /\ newlist'[r] = newlist[r] \o recvbuf[r]
      /\ received'[r] = received[r] + Len(recvbuf[r])
      /\ recvbuf'[r] = <<>> /\ pc'[r] = "ring"
      /\ \A q \in Ranks \ {r} : /\ newlist'[q] = newlist[q] /\ received'[q] = received[q]
                                /\ recvbuf'[q] = recvbuf[q] /\ pc'[q] = pc[q]
      /\ RingDomains'
  BY DEF Unpack, RingDomains
<1>4. /\ newlist[r] \in Seq(Entry) /\ recvbuf[r] \in Seq(Entry) /\ received[r] \in Nat
      /\ ArrivedInv(r)
  BY DEF RingInv, RankInv
<1>5. /\ newlist'[r] \in Seq(Entry)
      /\ ToSet(newlist'[r]) = ToSet(newlist[r]) \cup ToSet(recvbuf[r])
      /\ IsInjective(newlist'[r])
  BY <1>3, <1>4, Joined DEF ArrivedInv
<1>6. Len(recvbuf[r]) \in Nat
  BY <1>4, LenProperties
<1>7. Len(<<>>) = 0 /\ ToSet(<<>>) = {} /\ IsInjective(<<>>) /\ <<>> \in Seq(Entry)
  BY EmptySeq DEF ToSet, IsInjective
<1>8. \A q \in Ranks : Arrived(q)' = Arrived(q)
  BY <1>3, <1>5, <1>7 DEF Arrived
<1>9. \A s, t \in Ranks : /\ Sent(s, t)' = Sent(s, t) /\ MappedTo(s, t)' = MappedTo(s, t)
                          /\ InFlight(s, t)' = InFlight(s, t)
  BY <1>1 DEF Sent, MappedTo, Turn, InFlight
<1>10. \A s, t \in Ranks : Held(t, s)' = Held(t, s)
  <2> TAKE s, t \in Ranks
  <2>1. CASE t = r
    <3>1. received'[r] + Len(recvbuf'[r]) = received[r] + Len(recvbuf[r])
      BY <1>3, <1>4, <1>6, <1>7
    <3> QED
      BY <1>1, <2>1, <3>1 DEF Held, Turn
  <2>2. CASE t # r
    BY <1>1, <1>3, <2>2, HeldStays
  <2> QED
    BY <2>1, <2>2
<1>11. \A s, t \in Ranks : PairInv(s, t)'
  BY <1>1, <1>8, <1>9, <1>10, PairStays DEF RingInv
<1>12. \A q \in Ranks : ArrivedInv(q)'
  <2>1. ArrivedInv(r)'
    <3>1. \A x \in Arrived(r)' : \E s \in Ranks : \E i \in Sent(s, r)' : x = list'[s][i]
      BY <1>1, <1>4, <1>8, <1>9 DEF ArrivedInv
    <3> QED
      BY <1>3, <1>5, <1>7, <3>1 DEF ArrivedInv
  <2>2. \A q \in Ranks \ {r} : ArrivedInv(q)'
    BY <1>1, <1>3, <1>9, ArrivedStays DEF RingInv
  <2> QED
    BY <2>1, <2>2
<1>13. \A q \in Ranks : CutInv(q)'
  <2>1. CutInv(r)'
    BY <1>1 DEF CutInv
  <2>2. \A q \in Ranks \ {r} : CutInv(q)'
    BY <1>1, <1>3, CutStays DEF RingInv
  <2> QED
    BY <2>1, <2>2
<1>14. \A q \in Ranks : RankInv(q)'
  <2>1. RankInv(r)'
    <3>1. RankInv(r) /\ step[r] # N
      BY <1>2, RemapAssumption DEF RingInv
    <3>2. received'[r] \in Nat /\ \A s \in Ranks : expected'[r][s] = Cardinality(MappedTo(s, r)')
      BY <1>1, <1>3, <1>4, <1>6, <1>9, <3>1 DEF RankInv
    <3> QED
      BY <1>1, <1>3, <1>5, <1>7, <3>1, <3>2 DEF RankInv, Exchanging
  <2>2. \A q \in Ranks \ {r} : RankInv(q)'
    BY <1>1, <1>3, RankStays DEF RingInv
  <2> QED
    BY <2>1, <2>2
<1>15. list' \in [Ranks -> Seq(Entry)] /\ Distinct'
  BY <1>1 DEF RingInv, Distinct
<1> QED
  BY <1>3, <1>11, <1>12, <1>13, <1>14, <1>15 DEF RingInv

LEMMA NextStepKeeps ==
    ASSUME RingDomains, RingInv, NEW r \in Ranks, NextStep(r)
    PROVE  RingInv' /\ RingDomains'
<1>0. \E d, f, k : d = Dst(r) /\ f = Src(r) /\ k = step[r]
  OBVIOUS
<1> PICK d, f, k : d = Dst(r) /\ f = Src(r) /\ k = step[r]
  BY <1>0
<1>1. /\ UNCHANGED <<list, newlist, expected, sending, receiving, recvbuf>>
      /\ step'[r] = k + 1 /\ next'[r] = 1 /\ received'[r] = 0
      /\ pc'[r] = IF k + 1 = N THEN "summarize" ELSE "ring"
      /\ \A q \in Ranks \ {r} : /\ step'[q] = step[q] /\ next'[q] = next[q]
                                /\ received'[q] = received[q] /\ pc'[q] = pc[q]
      /\ RingDomains'
  BY DEF NextStep, RingDomains, StartOver
<1>2. /\ pc[r] = "ring" /\ Incoming(r) = 0 /\ Outgoing(r) = {}
      /\ sending[r] = <<>> /\ receiving[r] = 0 /\ recvbuf[r] = <<>>
      /\ RankInv(r)
  BY DEF NextStep, RingInv, RankInv
<1>3. k \in 0 .. N - 1
  BY <1>2, RemapAssumption DEF RankInv
<1>4. /\ d \in Ranks /\ k = Turn(r, d) /\ \A t \in Ranks \ {d} : k # Turn(r, t)
      /\ f \in Ranks /\ k = Turn(f, r) /\ \A t \in Ranks \ {f} : k # Turn(t, r)
      /\ \A s, t \in Ranks : Turn(s, t) \in 0 .. N - 1
  <2>1. \A s, t \in Ranks : Turn(s, t) \in 0 .. N - 1
    BY RemapAssumption DEF Turn, Ranks
  <2> QED
    BY <1>3, <2>1, RingTurns
<1>5. \A s, t : MappedTo(s, t)' = MappedTo(s, t) /\ Turn(s, t)' = Turn(s, t)
  BY <1>1 DEF MappedTo, Turn
<1>6. /\ list \in [Ranks -> Seq(Entry)] /\ next[r] \in Nat \ {0}
      /\ Len(<<>>) = 0 /\ ToSet(<<>>) = {} /\ IsInjective(<<>>)
  BY <1>2 DEF RingInv, RankInv, ToSet, IsInjective
<1>7. Sent(r, d) = MappedTo(r, d)
  <2>1. \A i \in MappedTo(r, d) : i \in Nat /\ ~(next[r] <= i)
    <3>1. \A i \in MappedTo(r, d) : i \in Nat
      BY <1>6, SentCounts
    <3> QED
      BY <1>2, <3>1 DEF Outgoing
  <2>2. \A i \in MappedTo(r, d) : i < next[r]
    BY <1>6, <2>1
  <2> QED
    BY <1>4, <2>2 DEF Sent
\* For the other ranks nothing changes; what was sent to d is all there was.
<1>8. \A s, t \in Ranks : Sent(s, t)' = Sent(s, t)
  <2> TAKE s, t \in Ranks
  <2>1. CASE s # r
    BY <1>1, <1>5, <2>1 DEF Sent
  <2>2. CASE s = r
    <3>1. Sent(r, t)' = {i \in MappedTo(r, t) :
                           k + 1 > Turn(r, t) \/ (k + 1 = Turn(r, t) /\ i < 1)}
      BY <1>1, <1>5 DEF Sent
    <3>2. \A i \in MappedTo(r, t) : ~(i < 1)
      <4>1. \A i \in MappedTo(r, t) : i \in 1 .. Len(list[r])
        BY <1>6, SentCounts
      <4>2. \A i \in 1 .. Len(list[r]) : ~(i < 1)
        <5>1. Len(list[r]) \in Nat
          BY <1>6, SentCounts
        <5> QED
          BY <5>1
      <4> QED
        BY <4>1, <4>2
    <3>3. Turn(r, t) \in Int /\ k \in Int
      BY <1>3, <1>4
    <3>4. CASE t = d
      <4>1. k + 1 > Turn(r, t)
        <5>1. k = Turn(r, t)
          BY <1>4, <3>4
        <5> QED
          BY <3>3, <5>1
      <4> QED
        BY <1>7, <2>2, <3>1, <3>4, <4>1
    <3>5. CASE t # d
      <4>1. k # Turn(r, t)
        BY <1>4, <3>5
      <4>2. (k + 1 > Turn(r, t)) <=> (k > Turn(r, t))
        BY <3>3, <4>1
      <4> QED
        BY <2>2, <3>1, <3>2, <4>1, <4>2 DEF Sent
    <3> QED
      BY <3>4, <3>5
  <2> QED
    BY <2>1, <2>2
<1>9. \A s, t \in Ranks : InFlight(s, t)' = InFlight(s, t)
  <2> TAKE s, t \in Ranks
  <2>1. CASE s # r
    BY <1>1, <1>5, <2>1 DEF InFlight
  <2>2. CASE s = r
    BY <1>1, <1>2, <2>2 DEF InFlight
  <2> QED
    BY <2>1, <2>2
<1>10. \A s, t \in Ranks : Held(t, s)' = Held(t, s)
  <2> TAKE s, t \in Ranks
  <2>1. CASE t # r
    BY <1>1, <1>5, <2>1 DEF Held
  <2>2. CASE t = r
    <3>1. Turn(s, r) \in Int /\ k \in Int
      BY <1>3, <1>4
    <3>2. Held(r, s)' = IF k + 1 > Turn(s, r) THEN expected[r][s]
                        ELSE IF k + 1 = Turn(s, r) THEN 0 + 0 ELSE 0
      BY <1>1, <1>2, <1>5, <1>6 DEF Held
    <3>3. CASE s = f
      <4>1. received[r] = expected[r][f]
        <5>1. expected[r][f] \in Nat /\ received[r] \in Nat
          <6>1. Cardinality(MappedTo(f, r)) \in Nat
            BY <1>4, <1>6, SentCounts
          <6> QED
            BY <1>2, <1>4, <6>1 DEF RankInv
        <5> QED
          BY <1>2, <5>1 DEF Incoming
      <4>2. Held(r, s) = received[r] + 0
        <5>1. ~(k > k)
          BY <3>1
        <5> QED
          BY <1>2, <1>4, <1>6, <3>3, <5>1 DEF Held
      <4>3. k + 1 > Turn(s, r)
        BY <1>4, <3>1, <3>3
      <4>4. received[r] \in Nat
        BY <1>2 DEF RankInv
      <4> QED
        BY <2>2, <3>2, <3>3, <4>1, <4>2, <4>3, <4>4
    <3>4. CASE s # f
      <4>1. k # Turn(s, r)
        BY <1>4, <3>4
      <4>2. (k + 1 > Turn(s, r)) <=> (k > Turn(s, r))
        BY <3>1, <4>1
      <4> QED
        BY <2>2, <3>2, <4>1, <4>2 DEF Held
    <3> QED
      BY <3>3, <3>4
  <2> QED
    BY <2>1, <2>2
<1>11. \A q \in Ranks : Arrived(q)' = Arrived(q)
  BY <1>1 DEF Arrived
<1>12. \A s, t \in Ranks : PairInv(s, t)'
  BY <1>1, <1>8, <1>9, <1>10, <1>11, PairStays DEF RingInv
<1>13. \A q \in Ranks : ArrivedInv(q)'
  BY <1>1, <1>8, ArrivedStays DEF RingInv
<1>14. \A q \in Ranks : CutInv(q)'
  <2>1. CutInv(r)'
    BY <1>1, <1>2 DEF CutInv
  <2>2. \A q \in Ranks \ {r} : CutInv(q)'
    BY <1>1, CutStays DEF RingInv
  <2> QED
    BY <2>1, <2>2
<1>15. \A q \in Ranks : RankInv(q)'
  <2>1. RankInv(r)'
    <3>1. k + 1 \in 0 .. N /\ \A s \in Ranks : expected'[r][s] = Cardinality(MappedTo(s, r)')
      <4>1. \A s \in Ranks : expected[r][s] = Cardinality(MappedTo(s, r))
        BY <1>2 DEF RankInv
      <4>2. k + 1 \in 0 .. N
        BY <1>3, RemapAssumption
      <4> QED
        BY <1>1, <1>5, <4>1, <4>2
    <3> QED
      BY <1>1, <1>2, <3>1 DEF RankInv, Exchanging
  <2>2. \A q \in Ranks \ {r} : RankInv(q)'
    BY <1>1, RankStays DEF RingInv
  <2> QED
    BY <2>1, <2>2
<1>16. list' \in [Ranks -> Seq(Entry)] /\ Distinct'
  BY <1>1 DEF RingInv, Distinct
<1> QED
  BY <1>1, <1>12, <1>13, <1>14, <1>15, <1>16 DEF RingInv

\* The exchange starts with the counts of all ranks.
LEMMA AlltoallStarts ==
    ASSUME RingDomains, list \in [Ranks -> Seq(Entry)], Distinct, Alltoall,
           \A r \in Ranks : sending[r] = <<>> /\ receiving[r] = 0 /\ recvbuf[r] = <<>>
    PROVE  RingInv' /\ RingDomains'
<1>1. /\ UNCHANGED <<list, sending, receiving, recvbuf>> /\ RingDomains'
      /\ \A r \in Ranks : /\ newlist'[r] = <<>> /\ step'[r] = 0 /\ next'[r] = 1
                          /\ received'[r] = 0 /\ pc'[r] = "ring"
                          /\ \A s \in Ranks : expected'[r][s] = Cardinality(MappedTo(s, r))
  BY DEF Alltoall, RingDomains
<1>2. \A s, t \in Ranks : MappedTo(s, t)' = MappedTo(s, t) /\ Turn(s, t)' = Turn(s, t)
                          /\ Turn(s, t) \in 0 .. N - 1
  BY <1>1, RemapAssumption DEF MappedTo, Turn, Ranks
<1>3. Len(<<>>) = 0 /\ ToSet(<<>>) = {} /\ IsInjective(<<>>) /\ <<>> \in Seq(Entry)
  BY EmptySeq DEF ToSet, IsInjective
<1>4. \A s, t \in Ranks : Sent(s, t)' = {}
  <2> TAKE s, t \in Ranks
  <2>1. \A i \in MappedTo(s, t) : ~(i < 1)
    <3>1. MappedTo(s, t) \in SUBSET (1 .. Len(list[s])) /\ Len(list[s]) \in Nat
      BY SentCounts
    <3> QED
      BY <3>1
  <2>2. ~(0 > Turn(s, t))
    BY <1>2, RemapAssumption
  <2> QED
    BY <1>1, <1>2, <2>1, <2>2 DEF Sent
<1>5. \A s, t \in Ranks : InFlight(s, t)' = <<>> /\ Held(t, s)' = 0
  <2> TAKE s, t \in Ranks
  <2>1. ~(0 > Turn(s, t)) /\ 0 + 0 = 0
    BY <1>2, RemapAssumption
  <2> QED
    BY <1>1, <1>2, <1>3, <2>1 DEF InFlight, Held
<1>6. \A t \in Ranks : Arrived(t)' = {}
  BY <1>1, <1>3 DEF Arrived
<1>7. \A s, t \in Ranks : PairInv(s, t)'
  <2>1. Cardinality({}) = 0 + 0
    BY FS_EmptySet
  <2> QED
    BY <1>3, <1>4, <1>5, <1>6, <2>1 DEF PairInv
<1>8. \A r \in Ranks : RankInv(r)' /\ CutInv(r)' /\ ArrivedInv(r)'
  <2> TAKE r \in Ranks
  <2>1. 0 \in 0 .. N /\ 0 # N /\ 0 \in Nat /\ 1 \in Nat \ {0}
    BY RemapAssumption
  <2>2. RankInv(r)'
    <3>1. \A s \in Ranks : expected'[r][s] = Cardinality(MappedTo(s, r)')
      BY <1>1, <1>2
    <3>2. pc'[r] \in Exchanging /\ pc'[r] # "summarize"
      BY <1>1 DEF Exchanging
    <3> QED
      BY <1>1, <1>3, <2>1, <3>1, <3>2 DEF RankInv
  <2>3. CutInv(r)'
    BY <1>1 DEF CutInv
  <2>4. ArrivedInv(r)'
    BY <1>1, <1>3, <1>6 DEF ArrivedInv
  <2> QED
    BY <2>2, <2>3, <2>4
<1>9. list' \in [Ranks -> Seq(Entry)] /\ Distinct'
  BY <1>1 DEF Distinct
<1> QED
  BY <1>1, <1>7, <1>8, <1>9 DEF RingInv

\* A message fits the receive it meets.
LEMMA MessagesFit ==
    ASSUME RingInv
    PROVE  FullMessages
<1> SUFFICES ASSUME NEW s \in Ranks, NEW d, d = Dst(s), pc[s] = "waitall", sending[s] # <<>>,
                    pc[d] = "waitall", Src(d) = s, receiving[d] > 0
             PROVE  Len(sending[s]) = receiving[d]
  BY DEF FullMessages
<1>1. step[s] \in 0 .. N - 1
  BY RemapAssumption DEF RingInv, RankInv
<1>2. d \in Ranks /\ step[s] = Turn(s, d)
  BY <1>1, RingTurns
<1>3. step[d] \in 0 .. N - 1
  BY <1>2, RemapAssumption DEF RingInv, RankInv
<1>4. step[d] = Turn(s, d) /\ ~(step[d] > step[d])
  BY <1>2, <1>3, RingTurns
<1>5. recvbuf[d] = <<>> /\ receiving[d] = ToReceive(d)
  BY <1>2 DEF RingInv, CutInv
<1>6. Len(recvbuf[d]) = 0 /\ received[d] \in Nat /\ expected[d][s] = Cardinality(MappedTo(s, d))
  BY <1>2, <1>5 DEF RingInv, RankInv
<1>7. Cardinality(Sent(s, d)) = received[d] + Len(sending[s])
  <2>1. Cardinality(Sent(s, d)) = Held(d, s) + Len(InFlight(s, d))
    BY <1>2 DEF RingInv, PairInv
  <2>2. Held(d, s) = received[d] + 0 /\ InFlight(s, d) = sending[s]
    BY <1>2, <1>4, <1>6 DEF Held, InFlight
  <2> QED
    BY <1>6, <2>1, <2>2
<1>8. /\ Cardinality(Sent(s, d)) \in Nat /\ Cardinality(MappedTo(s, d)) \in Nat
      /\ Cardinality(Sent(s, d)) <= Cardinality(MappedTo(s, d))
  BY SentCounts DEF RingInv
<1>9. Len(sending[s]) \in Nat
  BY LenProperties DEF RingInv, RankInv
<1>10. Len(sending[s]) <= MaxCount /\ (Len(sending[s]) = MaxCount \/ Sent(s, d) = MappedTo(s, d))
  BY DEF RingInv, CutInv
<1>11. Incoming(d) = Cardinality(MappedTo(s, d)) - received[d]
  BY <1>6 DEF Incoming
<1> QED
  BY <1>5, <1>6, <1>7, <1>8, <1>9, <1>10, <1>11, RemapAssumption DEF ToReceive

\* When a rank has gone around the ring it has got everything, once.
LEMMA AllArrived ==
    ASSUME RingInv, NEW r \in Ranks, pc[r] = "summarize"
    PROVE  /\ ToSet(newlist[r]) = UNION {{list[s][i] : i \in MappedTo(s, r)} : s \in Ranks}
           /\ IsInjective(newlist[r])
<1>1. step[r] = N /\ recvbuf[r] = <<>> /\ RankInv(r) /\ ArrivedInv(r)
  BY DEF RingInv, RankInv
<1>2. Arrived(r) = ToSet(newlist[r])
  BY <1>1 DEF Arrived, ToSet
<1>3. ASSUME NEW s \in Ranks
      PROVE  Sent(s, r) = MappedTo(s, r) /\ InFlight(s, r) = <<>>
  <2>1. N > Turn(s, r)
    BY RemapAssumption DEF Turn, Ranks
  <2>2. Held(r, s) = Cardinality(MappedTo(s, r))
    BY <1>1, <2>1 DEF Held, RankInv
  <2>3. Cardinality(Sent(s, r)) = Cardinality(MappedTo(s, r)) + Len(InFlight(s, r))
    BY <2>2 DEF RingInv, PairInv
  <2>4. InFlight(s, r) \in Seq(Entry)
    BY EmptySeq DEF RingInv, RankInv, InFlight
  <2>5. Len(InFlight(s, r)) \in Nat /\ (InFlight(s, r) # <<>> => Len(InFlight(s, r)) # 0)
    BY <2>4, EmptySeq, LenProperties
  <2>6. /\ Cardinality(Sent(s, r)) \in Nat /\ Cardinality(MappedTo(s, r)) \in Nat
        /\ Cardinality(Sent(s, r)) <= Cardinality(MappedTo(s, r))
        /\ Cardinality(Sent(s, r)) = Cardinality(MappedTo(s, r)) => Sent(s, r) = MappedTo(s, r)
    BY SentCounts DEF RingInv
  <2> QED
    BY <2>3, <2>5, <2>6
<1>4. \A s \in Ranks : \A i \in MappedTo(s, r) : list[s][i] \in ToSet(newlist[r])
  <2> TAKE s \in Ranks
  <2>1. ToSet(<<>>) = {}
    BY DEF ToSet
  <2> QED
    BY <1>2, <1>3, <2>1 DEF RingInv, PairInv
<1>5. \A x \in ToSet(newlist[r]) : \E s \in Ranks : \E i \in MappedTo(s, r) : x = list[s][i]
  BY <1>1, <1>2, <1>3 DEF ArrivedInv
<1>6. ToSet(newlist[r]) = UNION {{list[s][i] : i \in MappedTo(s, r)} : s \in Ranks}
  <2> DEFINE F(s) == {list[s][i] : i \in MappedTo(s, r)}
             U == UNION {F(s) : s \in Ranks}
  <2>1. \A s \in Ranks : F(s) \subseteq ToSet(newlist[r])
    BY <1>4
  <2>2. \A x \in ToSet(newlist[r]) : \E s \in Ranks : x \in F(s)
    BY <1>5
  <2> HIDE DEF F
  <2>3. U = ToSet(newlist[r])
    BY <2>1, <2>2
  <2> QED
    BY <2>3 DEF F
<1> QED
  BY <1>1, <1>6 DEF ArrivedInv


-----------------------------------------------------------------------------
(* The list and its stages                                                   *)

LEMMA ListedItems ==
    ASSUME part \in Parts
    PROVE  /\ IsFiniteSet(Listed) /\ Listed \subseteq Items
           /\ \A r \in Ranks : ToSet(part[r]) \subseteq Listed /\ IsFiniteSet(ToSet(part[r]))
           /\ \A i \in Listed : \E r \in Ranks : i \in ToSet(part[r])
           /\ \A r \in Ranks : part[r] \in Seq(Items) /\ DOMAIN part[r] = 1 .. Len(part[r])
                               /\ Len(part[r]) \in Nat
<1>1. part \in [Ranks -> Seq(Items)]
  BY UnlinkAssumption
<1>2. \A r \in Ranks : part[r] \in Seq(Items) /\ DOMAIN part[r] = 1 .. Len(part[r])
                       /\ Len(part[r]) \in Nat
  BY <1>1, LenProperties
<1> DEFINE P(r) == ToSet(part[r])
           S == {P(r) : r \in Ranks}
<1>3. \A r \in Ranks : IsFiniteSet(P(r)) /\ P(r) \subseteq Items
  <2> TAKE r \in Ranks
  <2>1. IsFiniteSet(DOMAIN part[r])
    BY <1>2, FS_Interval
  <2>2. P(r) = {part[r][n] : n \in DOMAIN part[r]}
    BY <1>2 DEF ToSet
  <2>3. IsFiniteSet({part[r][n] : n \in DOMAIN part[r]})
    BY <2>1, FiniteImage
  <2>4. \A n \in DOMAIN part[r] : part[r][n] \in Items
    BY <1>2, ElementOfSeq
  <2> HIDE DEF P
  <2> QED
    BY <2>2, <2>3, <2>4
<1>4. Listed = UNION S
  BY DEF Listed
<1>5. IsFiniteSet(S)
  <2> DEFINE f == [r \in Ranks |-> P(r)]
  <2>1. IsFiniteSet(Ranks)
    BY RemapAssumption, FS_Interval DEF Ranks
  <2>2. IsFiniteSet({f[r] : r \in Ranks}) /\ \A r \in Ranks : f[r] = P(r)
    <3>1. DOMAIN f = Ranks /\ \A r \in Ranks : f[r] = P(r)
      OBVIOUS
    <3> HIDE DEF f
    <3> QED
      BY <2>1, <3>1, FiniteImage
  <2> HIDE DEF f, P
  <2>3. S = {f[r] : r \in Ranks}
    BY <2>2
  <2> QED
    BY <2>2, <2>3
<1> HIDE DEF P
<1>6. IsFiniteSet(UNION S)
  <2>1. \A T \in S : IsFiniteSet(T)
    BY <1>3
  <2> QED
    BY <1>5, <2>1, FS_UNION
<1>7. \A r \in Ranks : P(r) \subseteq Listed
  BY <1>4
<1>8. \A i \in Listed : i \in Items /\ \E r \in Ranks : i \in P(r)
  BY <1>3, <1>4
<1> QED
  BY <1>2, <1>3, <1>4, <1>6, <1>7, <1>8 DEF P

\* A directory's stage is after the stages of what is in it.
LEMMA StageRange ==
    ASSUME part \in Parts
    PROVE  /\ Levels \in Nat
           /\ \A i \in Listed : StageOf(i) \in 0 .. Levels
           /\ \A i \in Listed : i \in Dirs <=> StageOf(i) # 0
           /\ \A i \in Listed : \A d \in Listed \cap Dirs :
                 ParentOf[i] = d => StageOf(i) < StageOf(d)
<1> DEFINE L == Listed \cap Dirs
<1>1. IsFiniteSet(L) /\ L \subseteq Items /\ L \subseteq Listed
  BY ListedItems, FS_Intersection
<1>2. \A i \in Items : DepthOf[i] \in Nat
  BY UnlinkAssumption
<1>3. Depths \subseteq Nat /\ \A i \in L : DepthOf[i] \in Depths
  BY <1>1, <1>2 DEF Depths
<1>4. IsFiniteSet(Depths)
  <2> DEFINE f == [i \in L |-> DepthOf[i]]
  <2>1. IsFiniteSet({f[i] : i \in L})
    <3>1. DOMAIN f = L
      OBVIOUS
    <3> HIDE DEF f, L
    <3> QED
      BY <1>1, <3>1, FiniteImage
  <2>2. {f[i] : i \in L} = Depths
    BY DEF Depths
  <2> QED
    BY <2>1, <2>2
<1>5. CASE Depths = {}
  <2>1. L = {} /\ Levels = 0
    BY <1>3, <1>5 DEF Levels
  <2>2. \A i \in Listed : i \notin Dirs /\ StageOf(i) = 0
    BY <2>1 DEF StageOf
  <2> QED
    BY <2>1, <2>2
<1>6. CASE Depths # {}
  <2>1. /\ Lowest \in Depths /\ \A e \in Depths : e <= Lowest
        /\ Highest \in Depths /\ \A e \in Depths : Highest <= e
    <3>1. \E d \in Depths : \A e \in Depths : e <= d
      BY <1>3, <1>4, <1>6, GreatestNumber
    <3>2. \E d \in Depths : \A e \in Depths : d <= e
      BY <1>3, <1>6, LeastNumber
    <3> QED
      BY <3>1, <3>2, Zenon DEF Lowest, Highest
  <2>2. Levels = Lowest - Highest + 1 /\ Lowest \in Nat /\ Highest \in Nat /\ Highest <= Lowest
    BY <1>3, <1>6, <2>1 DEF Levels
  <2>3. ASSUME NEW i \in Listed
        PROVE  StageOf(i) \in 0 .. Levels /\ (i \in Dirs <=> StageOf(i) # 0)
    <3>1. CASE i \in Dirs
      <4>1. DepthOf[i] \in Nat /\ DepthOf[i] <= Lowest /\ Highest <= DepthOf[i]
        BY <1>3, <2>1, <3>1
      <4> QED
        BY <2>2, <3>1, <4>1 DEF StageOf
    <3>2. CASE i \notin Dirs
      BY <2>2, <3>2 DEF StageOf
    <3> QED
      BY <3>1, <3>2
  <2>4. ASSUME NEW i \in Listed, NEW d \in L, ParentOf[i] = d
        PROVE  StageOf(i) < StageOf(d)
    <3>1. StageOf(d) = Lowest - DepthOf[d] + 1 /\ DepthOf[d] \in Nat /\ DepthOf[d] <= Lowest
      BY <1>3, <2>1 DEF StageOf
    <3>2. DepthOf[i] = DepthOf[d] + 1
      BY <2>4, UnlinkAssumption, ListedItems
    <3> QED
      BY <2>2, <3>1, <3>2 DEF StageOf
  <2> QED
    BY <2>2, <2>3, <2>4
<1> QED
  BY <1>5, <1>6

\* A rank has in a stage what its part of the list has of it, each item once.
LEMMA StageParts ==
    ASSUME part \in Parts, NEW r \in Ranks, NEW k
    PROVE  /\ InStage(r, k) \in Seq(Items) /\ IsInjective(InStage(r, k))
           /\ ToSet(InStage(r, k)) = {i \in ToSet(part[r]) : StageOf(i) = k}
<1> DEFINE I == {n \in DOMAIN part[r] : StageOf(part[r][n]) = k}
<1>1. /\ part[r] \in Seq(Items) /\ DOMAIN part[r] = 1 .. Len(part[r])
      /\ I \in SUBSET (1 .. Len(part[r]))
  BY ListedItems
<1>2. \A m, n \in I : part[r][m] = part[r][n] => m = n
  BY UnlinkAssumption
<1>3. InStage(r, k) = Chosen(part[r], I)
  BY DEF InStage
<1>4. {part[r][n] : n \in I} = {i \in ToSet(part[r]) : StageOf(i) = k}
  BY DEF ToSet
<1> HIDE DEF I
<1>5. Chosen(part[r], I) \in Seq(Items) /\ ToSet(Chosen(part[r], I)) = {part[r][n] : n \in I}
  BY <1>1, PickedPositions
<1>6. IsInjective(Chosen(part[r], I))
  BY <1>1, <1>2, PickedPositions, Zenon
<1> QED
  BY <1>3, <1>4, <1>5, <1>6

\* No item is in the parts of two ranks.
LEMMA PartsApart ==
    ASSUME part \in Parts, NEW r \in Ranks, NEW s \in Ranks,
           NEW i \in ToSet(part[r]), i \in ToSet(part[s])
    PROVE  r = s
<1>1. PICK m \in DOMAIN part[r] : part[r][m] = i
  BY DEF ToSet
<1>2. PICK n \in DOMAIN part[s] : part[s][n] = i
  BY DEF ToSet
<1> QED
  BY <1>1, <1>2, UnlinkAssumption

\* Numbered across the ranks, the items are spread over these.
LEMMA SpreadToRanks ==
    ASSUME NEW sizes \in [Ranks -> Nat], NEW r \in Ranks, NEW n \in 1 .. sizes[r]
    PROVE  SpreadTo(sizes, r, n) \in Ranks
<1> DEFINE A(q) == {{s} \X (1 .. sizes[s]) : s \in 0 .. q - 1}
           Own == {r} \X (1 .. sizes[r])
<1>1. \A q \in 0 .. N : IsFiniteSet(A(q)) /\ \A T \in A(q) : IsFiniteSet(T)
  <2> TAKE q \in 0 .. N
  <2>1. q \in Int /\ N \in Nat /\ \A s \in 0 .. q - 1 : s \in Ranks
    BY RemapAssumption DEF Ranks
  <2>2. \A s \in 0 .. q - 1 : IsFiniteSet({s} \X (1 .. sizes[s]))
    <3> TAKE s \in 0 .. q - 1
    <3>0. sizes[s] \in Int
      BY <2>1
    <3>1. IsFiniteSet({s})
      BY FS_Singleton
    <3>2. IsFiniteSet(1 .. sizes[s])
      <4>1. \A c \in Int : IsFiniteSet(1 .. c)
        BY FS_Interval
      <4> QED
        BY <3>0, <4>1
    <3> QED
      BY <3>1, <3>2, FS_Product
  <2> DEFINE f == [s \in 0 .. q - 1 |-> {s} \X (1 .. sizes[s])]
  <2>3. IsFiniteSet(0 .. q - 1) /\ DOMAIN f = 0 .. q - 1
    BY <2>1, FS_Interval
  <2>4. A(q) = {f[s] : s \in 0 .. q - 1}
    OBVIOUS
  <2>5. IsFiniteSet(A(q))
    <3> HIDE DEF f, A
    <3> QED
      BY <2>3, <2>4, FiniteImage
  <2> QED
    BY <2>2, <2>5
<1>2. \A q \in 0 .. N : IsFiniteSet(UNION A(q)) /\ Cardinality(UNION A(q)) \in Nat
  <2> HIDE DEF A
  <2> QED
    BY <1>1, FS_UNION, FS_CardinalityType
<1>3. r \in 0 .. N /\ N \in 0 .. N /\ r \in Nat
  BY RemapAssumption DEF Ranks
<1>4. IsFiniteSet(Own) /\ Cardinality(Own) = sizes[r] /\ sizes[r] \in Nat
  <2>1. IsFiniteSet({r}) /\ Cardinality({r}) = 1
    BY FS_Singleton
  <2>2. IsFiniteSet(1 .. sizes[r]) /\ Cardinality(1 .. sizes[r]) = sizes[r] /\ sizes[r] \in Nat
    BY FS_Interval
  <2>3. IsFiniteSet(Own) /\ Cardinality(Own) = Cardinality({r}) * Cardinality(1 .. sizes[r])
    BY <2>1, <2>2, FS_Product, Zenon
  <2> QED
    BY <2>1, <2>2, <2>3
<1>5. Own \cap UNION A(r) = {}
  BY <1>3
<1>6. Own \cup UNION A(r) \subseteq UNION A(N)
  <2>1. \A s \in 0 .. r - 1 : s \in 0 .. N - 1
    BY <1>3, RemapAssumption
  <2>2. r \in 0 .. N - 1
    BY DEF Ranks
  <2>3. A(r) \subseteq A(N) /\ Own \in A(N)
    BY <2>1, <2>2
  <2> HIDE DEF A, Own
  <2> QED
    BY <2>3
<1>7. Cardinality(Own \cup UNION A(r)) = sizes[r] + Cardinality(UNION A(r))
  <2> HIDE DEF A, Own
  <2>1. Cardinality(Own \cup UNION A(r))
          = Cardinality(Own) + Cardinality(UNION A(r)) - Cardinality(Own \cap UNION A(r))
    BY <1>2, <1>3, <1>4, FS_Union
  <2>2. Cardinality(Own \cap UNION A(r)) = 0
    BY <1>5, FS_EmptySet
  <2>3. Cardinality(UNION A(r)) \in Nat
    BY <1>2, <1>3
  <2> QED
    BY <1>4, <2>1, <2>2, <2>3
<1>8. Cardinality(Own \cup UNION A(r)) <= Cardinality(UNION A(N))
  <2> HIDE DEF A, Own
  <2> QED
    BY <1>2, <1>3, <1>6, FS_Subset
<1>9. Before(sizes, r) = Cardinality(UNION A(r)) /\ Before(sizes, N) = Cardinality(UNION A(N))
  BY DEF Before
<1> HIDE DEF A, Own
<1>10. /\ Before(sizes, N) \in Nat
       /\ Before(sizes, r) + n - 1 \in 0 .. Before(sizes, N) - 1
  <2>1. Before(sizes, N) \in Nat /\ Before(sizes, r) \in Nat
    BY <1>2, <1>3, <1>9
  <2>2. sizes[r] + Before(sizes, r) <= Before(sizes, N)
    BY <1>7, <1>8, <1>9
  <2>3. sizes[r] \in Nat /\ n \in Nat /\ 1 <= n /\ n <= sizes[r]
    BY <1>4
  <2> QED
    BY <2>1, <2>2, <2>3
<1>11. MapSpread(Before(sizes, r) + n - 1, Before(sizes, N), N) \in 0 .. N - 1
  BY <1>10, RemapAssumption, SpreadIntoBlocks
<1> QED
  BY <1>11 DEF SpreadTo, Ranks

\* A list made of the items of a sequence.
LEMMA ListOf ==
    ASSUME NEW q, NEW I \in SUBSET (Items \cup {Top}), q \in Seq(I), ToSet(q) = I,
           IsInjective(q), NEW l, l = [n \in 1 .. Len(q) |-> l[n]],
           \A n \in 1 .. Len(q) : l[n] \in Entry /\ l[n].item = q[n]
    PROVE  Lists(l, I)
<1>1. Len(q) \in Nat /\ DOMAIN q = 1 .. Len(q) /\ DOMAIN l = 1 .. Len(q)
  BY LenProperties
<1>2. l \in [1 .. Len(q) -> Entry]
  OBVIOUS
<1>3. l \in Seq(Entry)
  BY <1>1, <1>2, FunctionIsSeq
<1>4. {l[n].item : n \in DOMAIN l} = I
  <2>1. {l[n].item : n \in DOMAIN l} = {q[n] : n \in DOMAIN q}
    BY <1>1
  <2> QED
    BY <2>1 DEF ToSet
<1>5. \A m, n \in DOMAIN l : l[m].item = l[n].item => m = n
  BY <1>1 DEF IsInjective
<1> QED
  BY <1>3, <1>4, <1>5 DEF Lists

LEMMA StageLists ==
    ASSUME part \in Parts, opts \in [algo : Algos, traceless : BOOLEAN, hash : Hashes],
           NEW r \in Ranks, NEW k
    PROVE  /\ Lists(SpreadList(r, k), ToSet(InStage(r, k)))
           /\ Lists(HashList(r, k), ToSet(InStage(r, k)))
<1> DEFINE q == InStage(r, k)
           I == ToSet(q)
           sizes == [s \in Ranks |-> Len(InStage(s, k))]
<1>1. /\ I \subseteq Items /\ q \in Seq(Items) /\ IsInjective(q)
      /\ Len(q) \in Nat /\ DOMAIN q = 1 .. Len(q)
  <2>1. q \in Seq(Items) /\ IsInjective(q)
    BY StageParts
  <2>2. Len(q) \in Nat /\ DOMAIN q = 1 .. Len(q) /\ \A n \in 1 .. Len(q) : q[n] \in Items
    BY <2>1, LenProperties, ElementOfSeq
  <2> HIDE DEF q
  <2> QED
    BY <2>1, <2>2 DEF ToSet
<1>2. q \in Seq(I) /\ \A n \in 1 .. Len(q) : q[n] \in Items
  <2> HIDE DEF q
  <2>1. \A n \in 1 .. Len(q) : q[n] \in I /\ q[n] \in Items
    BY <1>1 DEF ToSet
  <2>2. q = [n \in 1 .. Len(q) |-> q[n]]
    BY <1>1, LenProperties
  <2>3. q \in [1 .. Len(q) -> I]
    BY <2>1, <2>2
  <2> HIDE DEF I
  <2> QED
    BY <1>1, <2>1, <2>3, FunctionIsSeq
<1>3. sizes \in [Ranks -> Nat] /\ sizes[r] = Len(q)
  <2>1. \A s \in Ranks : Len(InStage(s, k)) \in Nat
    BY StageParts, LenProperties
  <2> QED
    BY <2>1
<1>4. \A n \in 1 .. Len(q) : SpreadTo(sizes, r, n) \in Ranks
  <2> HIDE DEF sizes, q
  <2> QED
    BY <1>3, SpreadToRanks
<1>5. \A n \in 1 .. Len(q) : opts.hash[ParentOf[q[n]]] \in Ranks
  <2>1. opts.hash \in [Dirs \cup {Top} -> Ranks]
    BY UnlinkAssumption
  <2>2. \A n \in 1 .. Len(q) : ParentOf[q[n]] \in Dirs \cup {Top}
    BY <1>2, UnlinkAssumption
  <2> QED
    BY <2>1, <2>2
<1>6. /\ SpreadList(r, k) = [n \in 1 .. Len(q) |->
                               [item |-> q[n], rank |-> SpreadTo(sizes, r, n), time |-> "none"]]
      /\ HashList(r, k) = [n \in 1 .. Len(q) |->
                               [item |-> q[n], rank |-> opts.hash[ParentOf[q[n]]], time |-> "none"]]
  BY DEF SpreadList, HashList
<1> HIDE DEF sizes, q
<1>7. ASSUME NEW l, l = SpreadList(r, k) \/ l = HashList(r, k)
      PROVE  Lists(l, I)
  <2>1. /\ l = [n \in 1 .. Len(q) |-> l[n]]
        /\ \A n \in 1 .. Len(q) : l[n] \in Entry /\ l[n].item = q[n]
    <3>1. CASE l = SpreadList(r, k)
      BY <1>2, <1>4, <1>6, <3>1 DEF Entry
    <3>2. CASE l = HashList(r, k)
      BY <1>2, <1>5, <1>6, <3>2 DEF Entry
    <3> QED
      BY <1>7, <3>1, <3>2
  <2> HIDE DEF I
  <2> QED
    BY <1>1, <1>2, <2>1, ListOf DEF I
<1> QED
  BY <1>7 DEF q

\* A finite set as a sequence.
LEMMA SetAsSeq ==
    ASSUME NEW S, IsFiniteSet(S)
    PROVE  /\ SetToSeq(S) \in Seq(S) /\ ToSet(SetToSeq(S)) = S /\ IsInjective(SetToSeq(S))
           /\ Len(SetToSeq(S)) \in Nat
<1> DEFINE C == Cardinality(S)
<1>1. C \in Nat /\ ExistsBijection(1 .. C, S)
  BY FS_CardinalityType
<1>2. \E f \in [1 .. C -> S] : IsInjective(f)
  BY <1>1 DEF ExistsBijection, Bijection, Injection, IsInjective
<1>3. SetToSeq(S) \in [1 .. C -> S] /\ IsInjective(SetToSeq(S))
  BY <1>2, Zenon DEF SetToSeq
<1> DEFINE q == SetToSeq(S)
<1> HIDE DEF q
<1>4. q \in Seq(S) /\ Len(q) = C /\ DOMAIN q = 1 .. C
  BY <1>1, <1>3, FunctionIsSeq DEF q
<1>5. q \in Injection(1 .. C, S)
  BY <1>3 DEF Injection, IsInjective, q
<1>6. q \in Surjection(1 .. C, S)
  <2>1. Cardinality(1 .. C) = C
    BY <1>1, FS_Interval
  <2> HIDE DEF C
  <2> QED
    BY <1>5, <2>1, FS_Injection DEF C
<1>7. ToSet(q) = S
  <2>1. \A x \in S : \E n \in 1 .. C : q[n] = x
    BY <1>6 DEF Surjection
  <2>2. \A n \in 1 .. C : q[n] \in S
    BY <1>3 DEF q
  <2> QED
    BY <1>4, <2>1, <2>2 DEF ToSet
<1> QED
  BY <1>1, <1>3, <1>4, <1>7 DEF q

\* The directories whose times a rank reads.
LEMMA ReadOnce ==
    ASSUME part \in Parts
    PROVE  /\ \A r \in Ranks : IsFiniteSet(ToStat(r)) /\ ToStat(r) \subseteq Dirs \cup {Top}
           /\ \A r, s \in Ranks : \A d \in ToStat(r) : d \in ToStat(s) => r = s
           /\ \A i \in Listed : \E r \in Ranks : ParentOf[i] \in ToStat(r)
<1>1. ASSUME NEW r \in Ranks
      PROVE  IsFiniteSet(ToStat(r)) /\ ToStat(r) \subseteq Dirs \cup {Top}
  <2> DEFINE P == ToSet(part[r])
             f == [i \in P |-> ParentOf[i]]
  <2>1. IsFiniteSet(P) /\ P \subseteq Items
    BY ListedItems
  <2>2. IsFiniteSet({f[i] : i \in P})
    <3>1. DOMAIN f = P
      OBVIOUS
    <3> HIDE DEF f, P
    <3> QED
      BY <2>1, <3>1, FiniteImage
  <2>3. ToStat(r) \in SUBSET {f[i] : i \in P}
    BY DEF ToStat
  <2>4. \A i \in P : f[i] \in Dirs \cup {Top}
    BY <2>1, UnlinkAssumption
  <2> HIDE DEF f, P
  <2> QED
    BY <2>2, <2>3, <2>4, FS_Subset
<1>2. ASSUME NEW r \in Ranks, NEW s \in Ranks, NEW d \in ToStat(r), d \in ToStat(s), r < s
      PROVE  FALSE
  <2>1. r \in 0 .. s - 1
    BY <1>2 DEF Ranks
  <2> QED
    BY <1>2, <2>1 DEF ToStat
<1>3. \A r, s \in Ranks : \A d \in ToStat(r) : d \in ToStat(s) => r = s
  <2>1. \A r, s \in Ranks : r < s \/ r = s \/ s < r
    BY DEF Ranks
  <2> QED
    BY <1>2, <2>1
<1>4. ASSUME NEW i \in Listed
      PROVE  \E r \in Ranks : ParentOf[i] \in ToStat(r)
  <2> DEFINE T == {r \in Ranks : \E j \in ToSet(part[r]) : ParentOf[j] = ParentOf[i]}
  <2>1. T \in SUBSET Nat /\ T # {}
    <3>1. T \in SUBSET Nat
      BY DEF Ranks
    <3> QED
      BY <3>1, ListedItems
  <2>2. PICK r \in T : \A s \in T : r <= s
    <3> HIDE DEF T
    <3> QED
      BY <2>1, LeastNumber
  <2>3. \A s \in 0 .. r - 1 : s \notin T /\ s \in Ranks
    BY <2>2, RemapAssumption DEF Ranks
  <2>4. ParentOf[i] \in ToStat(r)
    BY <2>2, <2>3 DEF ToStat
  <2> QED
    BY <2>2, <2>4
<1> QED
  BY <1>1, <1>3, <1>4

LEMMA TimesLists ==
    ASSUME part \in Parts,
           \A s \in Ranks : saved[s] = {[item |-> d, time |-> "old"] : d \in ToStat(s)},
           NEW r \in Ranks
    PROVE  /\ Lists(TimesList(r), {t.item : t \in saved[r]})
           /\ \A n \in DOMAIN TimesList(r) : TimesList(r)[n].time = "old"
<1> DEFINE old(d) == [item |-> d, time |-> "old"]
           sizes == [s \in Ranks |-> Len(Times(s))]
           I == {t.item : t \in saved[r]}
<1>1. \A s \in Ranks : IsFiniteSet(saved[s])
  <2> TAKE s \in Ranks
  <2> DEFINE f == [d \in ToStat(s) |-> old(d)]
  <2>1. IsFiniteSet(ToStat(s))
    BY ReadOnce
  <2>2. IsFiniteSet({f[d] : d \in ToStat(s)})
    <3>1. DOMAIN f = ToStat(s)
      OBVIOUS
    <3> HIDE DEF f
    <3> QED
      BY <2>1, <3>1, FiniteImage
  <2>3. {f[d] : d \in ToStat(s)} = saved[s]
    OBVIOUS
  <2> QED
    BY <2>2, <2>3
<1>2. \A s \in Ranks : /\ Times(s) \in Seq(saved[s]) /\ ToSet(Times(s)) = saved[s]
                       /\ IsInjective(Times(s)) /\ Len(Times(s)) \in Nat
  BY <1>1, SetAsSeq DEF Times
<1>3. sizes \in [Ranks -> Nat] /\ sizes[r] = Len(Times(r))
  BY <1>2
<1>4. \A n \in 1 .. Len(Times(r)) : SpreadTo(sizes, r, n) \in Ranks
  <2> HIDE DEF sizes
  <2> QED
    BY <1>3, SpreadToRanks
<1>5. I = ToStat(r) /\ I \subseteq Dirs \cup {Top}
  <2>1. I = ToStat(r)
    <3>1. \A t \in saved[r] : t.item \in ToStat(r)
      OBVIOUS
    <3>2. \A d \in ToStat(r) : old(d) \in saved[r] /\ old(d).item = d
      OBVIOUS
    <3> HIDE DEF old
    <3> QED
      BY <3>1, <3>2
  <2> QED
    BY <2>1, ReadOnce
<1>6. \A t \in saved[r] : t = old(t.item) /\ t.item \in I /\ t.time = "old"
  OBVIOUS
<1> DEFINE q == [n \in 1 .. Len(Times(r)) |-> Times(r)[n].item]
           l == TimesList(r)
<1>7. /\ DOMAIN Times(r) = 1 .. Len(Times(r))
      /\ \A n \in 1 .. Len(Times(r)) : Times(r)[n] \in saved[r]
  BY <1>2, LenProperties, ElementOfSeq
<1>8. q \in Seq(I) /\ Len(q) = Len(Times(r)) /\ DOMAIN q = 1 .. Len(Times(r))
  <2>1. q \in [1 .. Len(Times(r)) -> I]
    BY <1>6, <1>7
  <2> HIDE DEF q, I
  <2> QED
    BY <1>2, <2>1, FunctionIsSeq
<1>9. ToSet(q) = I
  <2>1. ToSet(q) = {Times(r)[n].item : n \in 1 .. Len(Times(r))}
    <3>1. \A n \in 1 .. Len(Times(r)) : q[n] = Times(r)[n].item
      OBVIOUS
    <3> HIDE DEF q
    <3> QED
      BY <1>8, <3>1 DEF ToSet
  <2>2. saved[r] = {Times(r)[n] : n \in 1 .. Len(Times(r))}
    BY <1>2, <1>7 DEF ToSet
  <2> HIDE DEF q
  <2> QED
    BY <2>1, <2>2
<1>10. IsInjective(q)
  <2>1. ASSUME NEW m \in 1 .. Len(Times(r)), NEW n \in 1 .. Len(Times(r)),
               Times(r)[m].item = Times(r)[n].item
        PROVE  m = n
    <3>1. Times(r)[m] = Times(r)[n]
      BY <1>6, <1>7, <2>1
    <3> QED
      BY <1>2, <1>7, <3>1 DEF IsInjective
  <2>2. \A n \in 1 .. Len(Times(r)) : q[n] = Times(r)[n].item
    OBVIOUS
  <2> HIDE DEF q
  <2> QED
    BY <1>8, <2>1, <2>2 DEF IsInjective
<1>11. l = [n \in 1 .. Len(Times(r)) |->
             [item |-> Times(r)[n].item, rank |-> SpreadTo(sizes, r, n),
              time |-> Times(r)[n].time]]
  BY DEF TimesList
<1> HIDE DEF sizes, l, q
<1>12. /\ l = [n \in 1 .. Len(q) |-> l[n]] /\ DOMAIN l = 1 .. Len(Times(r))
       /\ \A n \in 1 .. Len(q) : l[n] \in Entry /\ l[n].item = q[n] /\ l[n].time = "old"
  <2>1. \A n \in 1 .. Len(q) : /\ Times(r)[n].item \in Dirs \cup {Top}
                               /\ Times(r)[n].time = "old" /\ q[n] = Times(r)[n].item
    BY <1>5, <1>6, <1>7, <1>8 DEF q
  <2> QED
    BY <1>4, <1>8, <1>11, <2>1, UnlinkAssumption DEF Entry
<1>13. I \subseteq Items \cup {Top}
  BY <1>5, UnlinkAssumption
<1> HIDE DEF I
<1>14. Lists(l, I)
  BY <1>8, <1>9, <1>10, <1>12, <1>13, ListOf
<1> QED
  BY <1>8, <1>12, <1>14 DEF I, l

-----------------------------------------------------------------------------
(* The phases                                                                *)

\* What depends on the list only.
LEMMA PartStays ==
    ASSUME part' = part
    PROVE  /\ Listed' = Listed /\ Levels' = Levels
           /\ \A i : StageOf(i)' = StageOf(i)
           /\ \A r, k : InStage(r, k)' = InStage(r, k)
           /\ \A r : ToStat(r)' = ToStat(r)
           /\ \A d : Holds(d)' = Holds(d)
<1>1. Listed' = Listed
  BY DEF Listed
<1>2. Depths' = Depths
  BY <1>1 DEF Depths
<1>3. Lowest' = Lowest /\ Highest' = Highest
  BY <1>2 DEF Lowest, Highest
<1>4. Levels' = Levels
  BY <1>2, <1>3 DEF Levels
<1>5. \A i : StageOf(i)' = StageOf(i)
  BY <1>3 DEF StageOf
<1>6. \A r, k : InStage(r, k)' = InStage(r, k)
  BY <1>5 DEF InStage
<1>7. \A r : ToStat(r)' = ToStat(r)
  BY DEF ToStat
<1>8. \A d : Holds(d)' = Holds(d)
  BY <1>1 DEF Holds, Above
<1> QED
  BY <1>1, <1>4, <1>5, <1>6, <1>7, <1>8

LEMMA PhaseInit ==
    ASSUME Init
    PROVE  PhaseInv
<1>1. /\ part \in Parts /\ opts \in [algo : Algos, traceless : BOOLEAN, hash : Hashes]
      /\ \A r \in Ranks : stage[r] = 0 /\ pc[r] = IF opts.traceless THEN "stat" ELSE "start"
  BY DEF Init
<1>2. Levels \in Nat
  BY <1>1, StageRange
<1>3. TypeInv
  <2>1. pc \in [Ranks -> Places]
    BY DEF Init, Places, Early
  <2>2. stage \in [Ranks -> 0 .. Levels + 1]
    BY <1>2 DEF Init
  <2>3. RingDomains
    BY <2>1 DEF Init, RemapInit, RingDomains
  <2> QED
    BY <1>1, <2>1, <2>2, <2>3 DEF Init, TypeInv
<1>4. \A r \in Ranks : PlaceInv(r)
  BY <1>1, <1>2 DEF PlaceInv, Early, Exchanging, Final
<1>5. TogetherInv
  BY <1>1, <1>2 DEF TogetherInv, Removing
<1> QED
  BY <1>3, <1>4, <1>5 DEF PhaseInv

LEMMA StatPhase ==
    ASSUME PhaseInv, NEW r \in Ranks, Stat(r)
    PROVE  PhaseInv'
<1>1. /\ UNCHANGED <<part, opts, stage, pool, present, mtime, todo, remapvars>>
      /\ pc' = [pc EXCEPT ![r] = "stated"] /\ pc[r] = "stat" /\ DOMAIN saved' = Ranks
  BY DEF Stat, PhaseInv, TypeInv
<1>2. TypeInv'
  BY <1>1, PartStays DEF PhaseInv, TypeInv, Places, Early, RingDomains, remapvars
<1>3. \A s \in Ranks : pc[s] \in Early /\ pc'[s] \in Early /\ stage[s] = 0 /\ stage'[s] = 0
                       /\ opts.traceless
  BY <1>1 DEF PhaseInv, PlaceInv, Early, TypeInv
<1>4. \A s \in Ranks : PlaceInv(s)'
  BY <1>1, <1>3 DEF PlaceInv, Early, Exchanging, Final
<1>5. TogetherInv'
  BY <1>3 DEF TogetherInv, Removing, Early
<1> QED
  BY <1>2, <1>4, <1>5 DEF PhaseInv

LEMMA StatBarrierPhase ==
    ASSUME PhaseInv, StatBarrier
    PROVE  PhaseInv'
<1>1. /\ UNCHANGED <<remapvars, unlinkvars>>
      /\ \A s \in Ranks : pc[s] = "stated" /\ pc'[s] = "start"
      /\ pc' \in [Ranks -> Places]
  BY DEF StatBarrier, AllStated, Places
<1>2. TypeInv'
  BY <1>1, PartStays DEF PhaseInv, TypeInv, RingDomains, remapvars, unlinkvars
<1>3. Levels' \in Nat /\ \A s \in Ranks : stage'[s] = 0
  <2>1. \A s \in Ranks : stage[s] = 0
    BY <1>1 DEF PhaseInv, PlaceInv, Early
  <2>2. part \in Parts /\ part' = part /\ stage' = stage
    BY <1>1 DEF PhaseInv, TypeInv, unlinkvars
  <2> QED
    BY <2>1, <2>2, StageRange, PartStays
<1>4. \A s \in Ranks : PlaceInv(s)'
  BY <1>1, <1>3 DEF PlaceInv, Early, Exchanging, Final
<1>5. TogetherInv'
  BY <1>1, <1>3 DEF TogetherInv, Removing
<1> QED
  BY <1>2, <1>4, <1>5 DEF PhaseInv

\* What every step of a rank by itself leaves alone.
LEMMA RankType ==
    ASSUME PhaseInv, NEW r \in Ranks, part' = part, opts' = opts,
           NEW p \in Places, pc' = [pc EXCEPT ![r] = p],
           NEW k \in 0 .. Levels + 1, stage' = [stage EXCEPT ![r] = k],
           present' \subseteq Items, pool' \subseteq Items,
           DOMAIN todo' = Ranks, DOMAIN saved' = Ranks, DOMAIN mtime' = Dirs \cup {Top},
           DOMAIN list' = Ranks,
           UNCHANGED <<newlist, expected, step, next, received, sending, receiving, recvbuf>>
    PROVE  /\ TypeInv'
           /\ Levels \in Nat /\ Levels' = Levels
           /\ pc'[r] = p /\ stage'[r] = k
           /\ \A s \in Ranks \ {r} : pc'[s] = pc[s] /\ stage'[s] = stage[s]
           /\ \A s \in Ranks : stage[s] \in 0 .. Levels + 1
<1>1. Levels' = Levels /\ Levels \in Nat
  BY PartStays, StageRange DEF PhaseInv, TypeInv
<1> QED
  BY <1>1 DEF PhaseInv, TypeInv, RingDomains

\* The ways to share a stage.
LEMMA StartWays ==
    ASSUME PhaseInv, NEW r \in Ranks, StartStage(r)
    PROVE  \/ /\ opts.algo = "DIRECT"
              /\ todo' = [todo EXCEPT ![r] = SpreadList(r, stage[r])]
              /\ pc' = [pc EXCEPT ![r] = "remove"] /\ list' = list /\ pool' = pool
           \/ /\ opts.algo \in {"SPREAD", "MAP"}
              /\ \/ list' = [list EXCEPT ![r] = HashList(r, stage[r])]
                 \/ list' = [list EXCEPT ![r] = SpreadList(r, stage[r])]
              /\ pc' = [pc EXCEPT ![r] = "alltoall"] /\ todo' = todo /\ pool' = pool
           \/ /\ opts.algo = "LIBCIRCLE"
              /\ pool' = pool \cup ToSet(InStage(r, stage[r]))
              /\ pc' = [pc EXCEPT ![r] = "circle"] /\ list' = list /\ todo' = todo
<1>1. opts.algo \in {"DIRECT", "SPREAD", "MAP", "LIBCIRCLE"}
  BY UnlinkAssumption DEF PhaseInv, TypeInv
<1>2. CASE opts.algo = "DIRECT"
  BY <1>2 DEF StartStage
<1>3. CASE opts.algo = "SPREAD"
  BY <1>3 DEF StartStage
<1>4. CASE opts.algo = "MAP"
  BY <1>4 DEF StartStage
<1>5. CASE opts.algo = "LIBCIRCLE"
  BY <1>5 DEF StartStage
<1> QED
  BY <1>1, <1>2, <1>3, <1>4, <1>5

LEMMA StartPhase ==
    ASSUME PhaseInv, NEW r \in Ranks, StartStage(r)
    PROVE  PhaseInv'
<1>1. PICK p \in {"remove", "alltoall", "circle"} :
        /\ pc' = [pc EXCEPT ![r] = p]
        /\ p = "remove" => opts.algo = "DIRECT"
        /\ p = "alltoall" => opts.algo \in {"SPREAD", "MAP"}
        /\ p = "circle" => opts.algo = "LIBCIRCLE"
  BY StartWays
<1>2. pool' \subseteq Items
  <2>1. ToSet(InStage(r, stage[r])) \subseteq Items
    BY StageParts, ListedItems DEF PhaseInv, TypeInv
  <2> QED
    BY <2>1, StartWays DEF PhaseInv, TypeInv
<1>3. /\ pc[r] = "start" /\ stage' = [stage EXCEPT ![r] = stage[r]] /\ p \in Places
      /\ stage[r] \in 0 .. Levels + 1 /\ opts' = opts /\ part' = part
  BY DEF StartStage, PhaseInv, TypeInv, Places
<1>4. /\ DOMAIN todo' = Ranks /\ DOMAIN list' = Ranks
      /\ UNCHANGED <<newlist, expected, step, next, received, sending, receiving, recvbuf>>
      /\ UNCHANGED <<present, mtime, saved>>
  <2>1. DOMAIN todo' = Ranks /\ DOMAIN list' = Ranks
    BY StartWays DEF PhaseInv, TypeInv, RingDomains
  <2> QED
    BY <2>1 DEF StartStage
<1>5. /\ TypeInv' /\ Levels \in Nat /\ Levels' = Levels
      /\ pc'[r] = p /\ stage'[r] = stage[r]
      /\ \A s \in Ranks \ {r} : pc'[s] = pc[s] /\ stage'[s] = stage[s]
      /\ \A s \in Ranks : stage[s] \in 0 .. Levels + 1
  BY <1>1, <1>2, <1>3, <1>4, RankType DEF PhaseInv, TypeInv
<1>6. stage[r] <= Levels /\ ~Final(r) /\ \A s \in Ranks : pc[s] \notin Early \cup Exchanging \cup {"done"}
  BY <1>3, <1>5 DEF PhaseInv, PlaceInv, Early, Exchanging, Final
<1>7. \A s \in Ranks : PlaceInv(s)'
  <2>1. \A s \in Ranks : PlaceInv(s)
    BY DEF PhaseInv
  <2>2. \A s \in Ranks : ~Final(s)
    BY <1>6, <2>1 DEF PlaceInv
  <2>3. \A s \in Ranks : ~Final(s)'
    BY <1>1, <1>3, <1>5, <2>2 DEF Final
  <2>4. PlaceInv(r)'
    BY <1>1, <1>3, <1>5, <1>6, <2>1, <2>3 DEF PlaceInv, Early, Exchanging
  <2>5. \A s \in Ranks \ {r} : PlaceInv(s)'
    BY <1>3, <1>5, <1>6, <2>1, <2>3 DEF PlaceInv, Early, Exchanging
  <2> QED
    BY <2>4, <2>5
<1>8. opts.algo # "DIRECT" => TogetherInv'
  BY <1>1, <1>3, <1>5 DEF PhaseInv, TogetherInv, Overlap, Removing
<1> QED
  BY <1>3, <1>5, <1>7, <1>8 DEF PhaseInv

\* The other steps of a rank by itself: from where to where, and to which stage.
Moves(r, p, k) ==
    \/ k = stage[r] /\ pc[r] = "remapped" /\ p = IF k > Levels THEN "restore" ELSE "remove"
    \/ k = stage[r] /\ pc[r] \in {"remove", "circle"} /\ p = pc[r]
    \/ k = stage[r] /\ k > 0 /\ pc[r] = "remove" /\ p = "barrier"
    \/ k = stage[r] /\ pc[r] = "spread" /\ p = "alltoall"
    \/ k = stage[r] /\ pc[r] = "restore" /\ p \in {"restore", "finish"}
    \/ /\ k = 1 /\ stage[r] = 0 /\ pc[r] = "remove"
       /\ p = IF 1 <= Levels THEN "start" ELSE IF opts.traceless THEN "spread" ELSE "finish"

LEMMA MovesPhase ==
    ASSUME PhaseInv, NEW r \in Ranks, part' = part, opts' = opts,
           NEW p, pc' = [pc EXCEPT ![r] = p], NEW k, stage' = [stage EXCEPT ![r] = k],
           Moves(r, p, k),
           present' \subseteq Items, pool' \subseteq Items,
           DOMAIN todo' = Ranks, saved' = saved, DOMAIN mtime' = Dirs \cup {Top},
           DOMAIN list' = Ranks,
           UNCHANGED <<newlist, expected, step, next, received, sending, receiving, recvbuf>>
    PROVE  PhaseInv'
<1>1. /\ pc[r] \in {"remapped", "remove", "circle", "spread", "restore"}
      /\ p \in {"remove", "circle", "barrier", "alltoall", "restore", "finish", "start", "spread"}
  BY DEF Moves
<1>2. Levels \in Nat /\ stage[r] \in 0 .. Levels + 1
  BY StageRange DEF PhaseInv, TypeInv
<1>3. p \in Places /\ k \in 0 .. Levels + 1 /\ DOMAIN saved' = Ranks
  BY <1>1, <1>2 DEF Moves, Places, PhaseInv, TypeInv
<1>4. /\ TypeInv' /\ Levels' = Levels
      /\ pc'[r] = p /\ stage'[r] = k
      /\ \A s \in Ranks \ {r} : pc'[s] = pc[s] /\ stage'[s] = stage[s]
      /\ \A s \in Ranks : stage[s] \in 0 .. Levels + 1
  BY <1>3, RankType
<1>5. \A s \in Ranks : PlaceInv(s)
  BY DEF PhaseInv
<1>6. \A s \in Ranks : pc[s] \notin Early \cup Exchanging \cup {"done"}
  BY <1>1, <1>5 DEF PlaceInv, Early, Exchanging
<1>7. \A s \in Ranks : Final(s)' = Final(s)
  <2>1. Final(r)' = Final(r)
    BY <1>2, <1>4, <1>5 DEF Final, Moves, PlaceInv
  <2>2. \A s \in Ranks \ {r} : Final(s)' = Final(s)
    BY <1>4 DEF Final
  <2> QED
    BY <2>1, <2>2
<1>8. \A s \in Ranks : PlaceInv(s)'
  <2>1. PlaceInv(r)'
    BY <1>1, <1>2, <1>4, <1>5, <1>6, <1>7 DEF PlaceInv, Moves, Early, Exchanging
  <2>2. \A s \in Ranks \ {r} : PlaceInv(s)'
    BY <1>4, <1>5, <1>6, <1>7 DEF PlaceInv, Early, Exchanging
  <2> QED
    BY <2>1, <2>2
<1>9. ASSUME opts.algo # "DIRECT"
      PROVE  TogetherInv'
  <2>1. TogetherInv
    BY <1>9 DEF PhaseInv
  <2>2. \A s \in Ranks :
          /\ stage'[r] = stage'[s] \/ Overlap(r, s)' \/ Overlap(s, r)'
          /\ stage'[r] = stage'[s] /\ stage'[r] <= Levels' =>
                (pc'[r] \in Removing <=> pc'[s] \in Removing)
    <3> TAKE s \in Ranks
    <3>1. CASE s = r
      BY <3>1
    <3>2. CASE s # r
      <4>1. /\ stage[r] = stage[s] \/ Overlap(r, s) \/ Overlap(s, r)
            /\ stage[r] = stage[s] /\ stage[r] <= Levels =>
                  (pc[r] \in Removing <=> pc[s] \in Removing)
        BY <2>1 DEF TogetherInv
      <4> QED
        BY <1>1, <1>2, <1>4, <1>5, <3>2, <4>1 DEF Overlap, Removing, Moves, PlaceInv
    <3> QED
      BY <3>1, <3>2
  <2>3. \A s, t \in Ranks \ {r} :
          /\ stage'[t] = stage'[s] \/ Overlap(t, s)' \/ Overlap(s, t)'
          /\ stage'[t] = stage'[s] /\ stage'[t] <= Levels' =>
                (pc'[t] \in Removing => pc'[s] \in Removing)
    BY <1>4, <2>1 DEF TogetherInv, Overlap
  <2> QED
    BY <2>2, <2>3 DEF TogetherInv
<1> QED
  BY <1>4, <1>8, <1>9 DEF PhaseInv

LEMMA RingPhase ==
    ASSUME PhaseInv, UNCHANGED unlinkvars, RingDomains',
           \A s \in Ranks : pc[s] \in Exchanging /\ pc'[s] \in Exchanging,
           NEW r \in Ranks, NEW p, pc' = [pc EXCEPT ![r] = p] \/ pc' = pc
    PROVE  PhaseInv'
<1>1. Levels' = Levels /\ Levels \in Nat
  BY PartStays, StageRange DEF PhaseInv, TypeInv, unlinkvars
<1>2. pc' \in [Ranks -> Places]
  <2>1. pc' = [s \in Ranks |-> pc'[s]]
    BY DEF PhaseInv, TypeInv, RingDomains
  <2> QED
    BY <2>1 DEF Places
<1>3. TypeInv'
  BY <1>1, <1>2 DEF PhaseInv, TypeInv, unlinkvars
<1>4. \A s, t \in Ranks : stage'[s] = stage'[t]
  BY DEF PhaseInv, PlaceInv, unlinkvars
<1>5. \A s \in Ranks : PlaceInv(s)'
  <2> TAKE s \in Ranks
  <2>1. PlaceInv(s) /\ stage'[s] = stage[s] /\ opts' = opts
    BY DEF PhaseInv, unlinkvars
  <2>2. ~Final(s)' /\ pc'[s] \notin Early /\ pc[s] \in Exchanging /\ pc'[s] \in Exchanging
    BY DEF Final, Early, Exchanging
  <2> QED
    BY <1>1, <1>4, <2>1, <2>2 DEF PlaceInv, Exchanging
<1>6. TogetherInv'
  BY <1>4 DEF TogetherInv, Removing, Exchanging
<1> QED
  BY <1>3, <1>5, <1>6 DEF PhaseInv

\* Where all ranks go on together, from one stage.
LEMMA TogetherPhase ==
    ASSUME PhaseInv, part' = part, opts' = opts, saved' = saved, present' = present,
           pool' = pool, todo' = todo, mtime' = mtime, RingDomains',
           NEW k \in 0 .. Levels + 1, stage' = [r \in Ranks |-> k],
           NEW p \in Places \ (Early \cup {"waitall", "summarize"}), pc' = [r \in Ranks |-> p],
           p \in {"start", "circle", "remove", "barrier"} => k <= Levels,
           p \notin {"circle", "barrier"},
           p \in {"spread", "restore"} => k = Levels + 1 /\ opts.traceless,
           p \in {"finish", "done"} => k = Levels + 1,
           p \in {"alltoall", "remapped", "ring"} =>
              IF k <= Levels THEN opts.algo \in {"SPREAD", "MAP"} ELSE opts.traceless
    PROVE  PhaseInv'
<1>1. Levels' = Levels /\ Levels \in Nat
  BY PartStays, StageRange DEF PhaseInv, TypeInv
<1>2. TypeInv'
  BY <1>1 DEF PhaseInv, TypeInv
<1>3. \A s \in Ranks : pc'[s] = p /\ stage'[s] = k
  OBVIOUS
<1>4. \A s, t \in Ranks : Final(s)' = Final(t)'
  BY <1>3 DEF Final
<1>5. \A s \in Ranks : PlaceInv(s)'
  BY <1>1, <1>3, <1>4 DEF PlaceInv, Early, Exchanging, Places
<1>6. TogetherInv'
  BY <1>3 DEF TogetherInv
<1> QED
  BY <1>2, <1>5, <1>6 DEF PhaseInv

LEMMA AlltoallPhase ==
    ASSUME PhaseInv, Alltoall, UNCHANGED unlinkvars
    PROVE  PhaseInv' /\ \A r, s \in Ranks : stage[r] = stage[s]
<1>1. \A r \in Ranks : /\ pc[r] = "alltoall" /\ PlaceInv(r) /\ stage[r] \in 0 .. Levels + 1
  BY DEF Alltoall, PhaseInv, TypeInv
<1>2. Levels \in Nat
  BY StageRange DEF PhaseInv, TypeInv
<1>3. \A r, s \in Ranks : stage[r] = stage[s]
  <2>1. CASE opts.algo = "DIRECT"
    BY <1>1, <1>2, <2>1 DEF PlaceInv
  <2>2. CASE opts.algo # "DIRECT"
    BY <1>1, <2>2 DEF PhaseInv, TogetherInv, Overlap
  <2> QED
    BY <2>1, <2>2
<1>4. PICK r \in Ranks : TRUE
  BY RemapAssumption DEF Ranks
<1>5. PICK k \in 0 .. Levels + 1 : stage[r] = k
  BY <1>1
<1>6. stage = [s \in Ranks |-> k] /\ stage' = stage
  BY <1>3, <1>5 DEF PhaseInv, TypeInv, unlinkvars
<1>7. IF k <= Levels THEN opts.algo \in {"SPREAD", "MAP"} ELSE opts.traceless
  BY <1>1, <1>5 DEF PlaceInv
<1>8. RingDomains' /\ pc' = [s \in Ranks |-> "ring"]
  BY DEF Alltoall, PhaseInv, TypeInv, RingDomains
<1>9. "ring" \in Places \ (Early \cup {"waitall", "summarize"})
  BY DEF Places, Early, Exchanging
<1>10. PhaseInv'
  BY <1>6, <1>7, <1>8, <1>9, TogetherPhase DEF unlinkvars
<1> QED
  BY <1>3, <1>10

LEMMA SummarizePhase ==
    ASSUME PhaseInv, Summarize, UNCHANGED unlinkvars
    PROVE  PhaseInv'
<1>1. \A r \in Ranks : pc[r] = "summarize" /\ PlaceInv(r) /\ stage[r] \in 0 .. Levels + 1
  BY DEF Summarize, PhaseInv, TypeInv
<1>2. PICK r \in Ranks : TRUE
  BY RemapAssumption DEF Ranks
<1>3. PICK k \in 0 .. Levels + 1 : stage[r] = k
  BY <1>1
<1>4. stage = [s \in Ranks |-> k] /\ stage' = stage
  BY <1>1, <1>3 DEF PhaseInv, TypeInv, PlaceInv, Exchanging, unlinkvars
<1>5. IF k <= Levels THEN opts.algo \in {"SPREAD", "MAP"} ELSE opts.traceless
  BY <1>1, <1>3 DEF PlaceInv, Exchanging
<1>6. RingDomains' /\ pc' = [s \in Ranks |-> "remapped"]
  BY DEF Summarize, PhaseInv, TypeInv, RingDomains, remapvars
<1>7. "remapped" \in Places \ (Early \cup {"waitall", "summarize"})
  BY DEF Places, Early, Exchanging
<1> QED
  BY <1>4, <1>5, <1>6, <1>7, TogetherPhase DEF unlinkvars

LEMMA ReturnsPhase ==
    ASSUME PhaseInv, CircleReturns
    PROVE  PhaseInv' /\ \A r, s \in Ranks : stage[r] = stage[s]
<1>1. \A r \in Ranks : pc[r] = "circle" /\ PlaceInv(r) /\ stage[r] \in 0 .. Levels + 1
  BY DEF CircleReturns, PhaseInv, TypeInv
<1>2. PICK r \in Ranks : TRUE
  BY RemapAssumption DEF Ranks
<1>3. PICK k \in 0 .. Levels + 1 : stage[r] = k
  BY <1>1
<1>4. opts.algo # "DIRECT"
  BY <1>1, <1>2 DEF PlaceInv
<1>5. stage = [s \in Ranks |-> k]
  BY <1>1, <1>3, <1>4 DEF PhaseInv, TypeInv, TogetherInv, Overlap
<1>6. k <= Levels /\ UNCHANGED <<remapvars, unlinkvars>>
  BY <1>1, <1>3 DEF PlaceInv, CircleReturns
<1>7. RingDomains' /\ pc' = [s \in Ranks |-> "remove"]
  BY DEF CircleReturns, PhaseInv, TypeInv, RingDomains, remapvars
<1>8. "remove" \in Places \ (Early \cup {"waitall", "summarize"})
  BY DEF Places, Early, Exchanging
<1>9. PhaseInv'
  BY <1>5, <1>6, <1>7, <1>8, TogetherPhase DEF unlinkvars
<1> QED
  BY <1>5, <1>9

LEMMA BarrierPhase ==
    ASSUME PhaseInv, LevelBarrier
    PROVE  PhaseInv'
<1>1. /\ UNCHANGED <<remapvars, part, opts, todo, pool, saved, present, mtime>>
      /\ \A r \in Ranks : /\ pc[r] = "barrier" /\ stage'[r] = stage[r] + 1
                          /\ pc'[r] = IF stage[r] + 1 <= Levels THEN "start"
                                      ELSE IF opts.traceless THEN "spread" ELSE "finish"
      /\ stage' = [r \in Ranks |-> stage'[r]] /\ pc' = [r \in Ranks |-> pc'[r]]
  BY DEF LevelBarrier
<1>2. Levels' = Levels /\ Levels \in Nat
  BY <1>1, PartStays, StageRange DEF PhaseInv, TypeInv
<1>3. \A r \in Ranks : stage[r] \in 1 .. Levels
  BY <1>1, <1>2 DEF PhaseInv, TypeInv, PlaceInv
<1>4. TypeInv'
  <2>1. \A r \in Ranks : pc'[r] \in Places /\ stage'[r] \in 0 .. Levels' + 1
    BY <1>1, <1>2, <1>3 DEF Places
  <2>2. pc' \in [Ranks -> Places] /\ stage' \in [Ranks -> 0 .. Levels' + 1]
    BY <1>1, <2>1
  <2> QED
    BY <1>1, <2>2 DEF PhaseInv, TypeInv, RingDomains, remapvars
<1>5. \A r \in Ranks : PlaceInv(r)'
  BY <1>1, <1>2, <1>3 DEF PlaceInv, Early, Exchanging, Final
<1>6. opts.algo # "DIRECT" => TogetherInv'
  <2> SUFFICES ASSUME opts.algo # "DIRECT", NEW r \in Ranks, NEW s \in Ranks
               PROVE  stage'[r] = stage'[s] /\ pc'[r] \notin Removing
    BY DEF TogetherInv
  <2>1. stage[r] = stage[s]
    BY <1>1 DEF PhaseInv, TogetherInv, Overlap
  <2> QED
    BY <1>1, <2>1 DEF Removing
<1> QED
  BY <1>1, <1>4, <1>5, <1>6 DEF PhaseInv

LEMMA FinishPhase ==
    ASSUME PhaseInv, Finish
    PROVE  PhaseInv'
<1>1. Levels \in Nat /\ UNCHANGED <<remapvars, unlinkvars>>
  BY StageRange DEF PhaseInv, TypeInv, Finish
<1>2. stage = [r \in Ranks |-> Levels + 1] /\ Levels + 1 \in 0 .. Levels + 1
  BY <1>1 DEF PhaseInv, TypeInv, PlaceInv, Finish
<1>3. RingDomains' /\ pc' = [r \in Ranks |-> "done"]
  BY DEF Finish, PhaseInv, TypeInv, RingDomains, remapvars
<1>4. "done" \in Places \ (Early \cup {"waitall", "summarize"})
  BY DEF Places, Early, Exchanging
<1>5. \E k \in 0 .. Levels + 1 : stage = [r \in Ranks |-> k] /\ k = Levels + 1
  BY <1>2
<1> QED
  BY <1>1, <1>3, <1>4, <1>5, TogetherPhase DEF unlinkvars

LEMMA RingStepPhase ==
    ASSUME PhaseInv, NEW r \in Ranks, Post(r) \/ Match(r) \/ Unpack(r) \/ NextStep(r),
           UNCHANGED unlinkvars
    PROVE  PhaseInv' /\ \A s \in Ranks : pc[s] \in Exchanging /\ pc'[s] \in Exchanging
<1>1. /\ pc[r] \in Exchanging /\ RingDomains'
      /\ \E p \in Exchanging : pc' = [pc EXCEPT ![r] = p] \/ pc' = pc
  <2>1. CASE Post(r)
    BY <2>1 DEF Post, Exchanging, PhaseInv, TypeInv, RingDomains
  <2>2. CASE Match(r)
    BY <2>2 DEF Match, Exchanging, PhaseInv, TypeInv, RingDomains
  <2>3. CASE Unpack(r)
    BY <2>3 DEF Unpack, Exchanging, PhaseInv, TypeInv, RingDomains
  <2>4. CASE NextStep(r)
    BY <2>4 DEF NextStep, Exchanging, PhaseInv, TypeInv, RingDomains
  <2> QED
    BY <2>1, <2>2, <2>3, <2>4
<1>2. PICK p \in Exchanging : pc' = [pc EXCEPT ![r] = p] \/ pc' = pc
  BY <1>1
<1>3. \A s \in Ranks : pc[s] \in Exchanging /\ pc'[s] \in Exchanging
  BY <1>1, <1>2 DEF PhaseInv, PlaceInv, TypeInv
<1> QED
  BY <1>1, <1>2, <1>3, RingPhase

\* The steps by themselves that are no start of a stage and no reading of times.
LEMMA MoveSteps ==
    ASSUME PhaseInv, NEW r \in Ranks,
           \/ EndRemap(r) \/ RemoveNext(r) \/ EndFirstStage(r) \/ EndLevel(r)
           \/ CircleProcess(r) \/ Spread(r) \/ Restore(r)
    PROVE  PhaseInv'
<1> DEFINE Frame == /\ part' = part /\ opts' = opts /\ present' \subseteq Items
                    /\ pool' \subseteq Items /\ DOMAIN todo' = Ranks /\ saved' = saved
                    /\ DOMAIN mtime' = Dirs \cup {Top} /\ DOMAIN list' = Ranks
                    /\ UNCHANGED <<newlist, expected, step, next, received, sending,
                                   receiving, recvbuf>>
           Goes == \E p, k : /\ pc' = [pc EXCEPT ![r] = p]
                             /\ stage' = [stage EXCEPT ![r] = k] /\ Moves(r, p, k)
<1>1. ASSUME Frame, Goes
      PROVE  PhaseInv'
  <2>1. PICK p, k : /\ pc' = [pc EXCEPT ![r] = p]
                    /\ stage' = [stage EXCEPT ![r] = k] /\ Moves(r, p, k)
    BY <1>1
  <2> QED
    BY <1>1, <2>1, MovesPhase
<1>2. /\ DOMAIN pc = Ranks /\ DOMAIN stage = Ranks
      /\ stage = [stage EXCEPT ![r] = stage[r]] /\ pc = [pc EXCEPT ![r] = pc[r]]
      /\ \A i : RemoveType(i) => present' \subseteq Items /\ DOMAIN mtime' = Dirs \cup {Top}
  <2>1. DOMAIN pc = Ranks /\ stage \in [Ranks -> 0 .. Levels + 1] /\ pc \in [Ranks -> Places]
    BY DEF PhaseInv, TypeInv
  <2> QED
    BY <2>1 DEF RemoveType, PhaseInv, TypeInv
<1>3. CASE EndRemap(r)
  BY <1>1, <1>2, <1>3 DEF EndRemap, Moves, PhaseInv, TypeInv, RingDomains, remapvars
<1>4. CASE RemoveNext(r)
  BY <1>1, <1>2, <1>4 DEF RemoveNext, Moves, PhaseInv, TypeInv, RingDomains, remapvars
<1>5. CASE EndFirstStage(r)
  BY <1>1, <1>2, <1>5 DEF EndFirstStage, NextStage, Moves, PhaseInv, TypeInv, RingDomains, remapvars
<1>6. CASE EndLevel(r)
  BY <1>1, <1>2, <1>6 DEF EndLevel, Moves, PhaseInv, TypeInv, RingDomains, remapvars, unlinkvars
<1>7. CASE CircleProcess(r)
  BY <1>1, <1>2, <1>7 DEF CircleProcess, Moves, PhaseInv, TypeInv, RingDomains, remapvars
<1>8. CASE Spread(r)
  BY <1>1, <1>2, <1>8 DEF Spread, Moves, PhaseInv, TypeInv, RingDomains, remapvars, unlinkvars
<1>9. CASE Restore(r)
  BY <1>1, <1>2, <1>9 DEF Restore, Moves, PhaseInv, TypeInv, RingDomains, remapvars
<1> QED
  BY <1>3, <1>4, <1>5, <1>6, <1>7, <1>8, <1>9

LEMMA PhaseStays ==
    ASSUME PhaseInv, UNCHANGED vars
    PROVE  PhaseInv'
<1>1. /\ UNCHANGED <<pc, stage, part, opts, present, pool, todo, saved, mtime>>
      /\ UNCHANGED remapvars
  BY DEF vars, unlinkvars
<1>2. Levels' = Levels
  BY <1>1, PartStays
<1>3. TypeInv'
  BY <1>1, <1>2 DEF PhaseInv, TypeInv, RingDomains, remapvars
<1>4. \A r \in Ranks : PlaceInv(r)'
  BY <1>1, <1>2 DEF PhaseInv, PlaceInv, Final
<1>5. opts.algo # "DIRECT" => TogetherInv'
  BY <1>1, <1>2 DEF PhaseInv, TogetherInv, Overlap
<1> QED
  BY <1>1, <1>3, <1>4, <1>5 DEF PhaseInv

LEMMA PhaseNext ==
    ASSUME PhaseInv, [Next]_vars
    PROVE  PhaseInv'
<1>1. ASSUME NEW r \in Ranks, RankStep(r)
      PROVE  PhaseInv'
  BY <1>1, StatPhase, StartPhase, MoveSteps DEF RankStep
<1>2. CASE RemapStep /\ UNCHANGED unlinkvars
  BY <1>2, AlltoallPhase, SummarizePhase, RingStepPhase DEF RemapStep
<1>3. CASE StatBarrier \/ LevelBarrier \/ CircleReturns \/ Finish
  BY <1>3, StatBarrierPhase, BarrierPhase, ReturnsPhase, FinishPhase
<1>4. CASE Done \/ UNCHANGED vars
  BY <1>4, PhaseStays DEF Done
<1> QED
  BY <1>1, <1>2, <1>3, <1>4 DEF Next

LEMMA Phases == Spec => []PhaseInv
<1>1. Init => PhaseInv
  BY PhaseInit
<1>2. PhaseInv /\ [Next]_vars => PhaseInv'
  BY PhaseNext
<1> QED
  BY <1>1, <1>2, PTL DEF Spec

-----------------------------------------------------------------------------
(* The lists that are exchanged                                              *)

LEMMA ContentStays ==
    ASSUME part' = part, NEW r \in Ranks, saved'[r] = saved[r]
    PROVE  \A k : Content(r, k)' = Content(r, k)
BY PartStays DEF Content

LEMMA ExchangeInit ==
    ASSUME Init
    PROVE  ExchangeInv
<1>1. \A r \in Ranks : pc[r] = IF opts.traceless THEN "stat" ELSE "start"
  BY DEF Init
<1>2. list \in [Ranks -> Seq(Entry)]
  BY EmptySeq DEF Init, RemapInit
<1>3. \A r \in Ranks : pc[r] \notin Exchanging
  BY <1>1 DEF Exchanging
<1>4. \A r \in Ranks : ListInv(r) /\ QuietInv(r)
  BY <1>1, <1>3 DEF ListInv, QuietInv, Init, RemapInit
<1>5. \A r \in Ranks : SavedInv(r)
  BY <1>1 DEF SavedInv, Early, Init
<1> QED
  BY <1>2, <1>3, <1>4, <1>5 DEF ExchangeInv

\* A rank's own step leaves the others where they are, and all of them out of the ring.
LEMMA OutsideExchange ==
    ASSUME PhaseInv, PhaseInv', ExchangeInv, part' = part, opts' = opts, saved' = saved,
           UNCHANGED <<sending, receiving, recvbuf>>, list' \in [Ranks -> Seq(Entry)],
           NEW r \in Ranks,
           \A s \in Ranks \ {r} : pc'[s] = pc[s] /\ stage'[s] = stage[s] /\ list'[s] = list[s],
           pc[r] \notin Exchanging \cup Early, pc'[r] \notin Exchanging \cup Early,
           pc'[r] = "alltoall" => ListInv(r)'
    PROVE  ExchangeInv'
<1>1. \A s \in Ranks : pc[s] \notin Exchanging \cup Early /\ pc'[s] \notin Exchanging \cup Early
  BY DEF PhaseInv, PlaceInv
<1>2. \A s \in Ranks \ {r} : ListInv(s)'
  <2> TAKE s \in Ranks \ {r}
  <2>1. ListInv(s) /\ Levels' = Levels /\ \A k : Content(s, k)' = Content(s, k)
    BY ContentStays, PartStays DEF ExchangeInv
  <2> QED
    BY <2>1 DEF ListInv
<1>3. ListInv(r)'
  BY <1>1 DEF ListInv
<1>4. \A s \in Ranks : SavedInv(s)'
  <2>1. \A s \in Ranks : ToStat(s)' = ToStat(s)
    BY PartStays
  <2> QED
    BY <1>1, <2>1 DEF ExchangeInv, SavedInv, Early
<1>5. \A s \in Ranks : QuietInv(s)'
  BY <1>1 DEF ExchangeInv, QuietInv
<1> QED
  BY <1>1, <1>2, <1>3, <1>4, <1>5 DEF ExchangeInv

\* So do the steps of all ranks that lead out of the ring, or pass it by.
LEMMA TogetherExchange ==
    ASSUME ExchangeInv, part' = part, opts' = opts, saved' = saved, list' = list,
           \A s \in Ranks : /\ pc[s] # "stat"
                            /\ pc'[s] \notin Exchanging \cup Early \cup {"alltoall"},
           \A s \in Ranks : sending'[s] = <<>> /\ receiving'[s] = 0 /\ recvbuf'[s] = <<>>
    PROVE  ExchangeInv'
<1>1. \A s \in Ranks : ListInv(s)' /\ QuietInv(s)'
  BY DEF ListInv, QuietInv
<1>2. \A s \in Ranks : SavedInv(s)'
  <2>1. \A s \in Ranks : ToStat(s)' = ToStat(s)
    BY PartStays
  <2> QED
    BY <2>1 DEF ExchangeInv, SavedInv, Early
<1> QED
  BY <1>1, <1>2 DEF ExchangeInv

LEMMA StatExchange ==
    ASSUME PhaseInv, ExchangeInv, NEW r \in Ranks, Stat(r)
    PROVE  ExchangeInv'
<1>1. /\ UNCHANGED <<remapvars, part, opts, stage, todo, pool, present, mtime>>
      /\ saved' = [saved EXCEPT ![r] = {[item |-> d, time |-> mtime[d]] : d \in ToStat(r)}]
      /\ pc' = [pc EXCEPT ![r] = "stated"] /\ pc[r] = "stat"
  BY DEF Stat
<1>2. /\ \A s \in Ranks : pc[s] \in Early /\ pc'[s] \in Early
      /\ \A s \in Ranks \ {r} : pc'[s] = pc[s] /\ saved'[s] = saved[s]
      /\ pc'[r] = "stated" /\ opts.traceless
      /\ saved'[r] = {[item |-> d, time |-> mtime[d]] : d \in ToStat(r)}
  BY <1>1 DEF PhaseInv, PlaceInv, Early, TypeInv
<1>3. \A d \in Dirs \cup {Top} : mtime[d] = "old"
  BY <1>2 DEF ExchangeInv, SavedInv
<1>4. saved'[r] = {[item |-> d, time |-> "old"] : d \in ToStat(r)}
  <2>1. \A d \in ToStat(r) : mtime[d] = "old"
    BY <1>3, ReadOnce DEF PhaseInv, TypeInv
  <2> QED
    BY <1>2, <2>1
<1>5. \A s \in Ranks : ToStat(s)' = ToStat(s)
  BY <1>1, PartStays
<1>6. \A s \in Ranks : SavedInv(s)'
  BY <1>1, <1>2, <1>3, <1>4, <1>5 DEF ExchangeInv, SavedInv
<1>7. \A s \in Ranks : ListInv(s)' /\ pc'[s] \notin Exchanging /\ pc[s] \notin Exchanging
  BY <1>2 DEF ListInv, Early, Exchanging
<1>8. \A s \in Ranks : QuietInv(s)'
  BY <1>1, <1>7 DEF ExchangeInv, QuietInv, remapvars
<1> QED
  BY <1>1, <1>6, <1>7, <1>8 DEF ExchangeInv, remapvars

LEMMA StartExchange ==
    ASSUME PhaseInv, PhaseInv', ExchangeInv, NEW r \in Ranks, StartStage(r) \/ Spread(r)
    PROVE  ExchangeInv'
<1>1. /\ part' = part /\ opts' = opts /\ saved' = saved /\ stage' = stage
      /\ UNCHANGED <<sending, receiving, recvbuf>>
      /\ pc[r] \in {"start", "spread"}
  BY DEF StartStage, Spread, unlinkvars
<1>2. /\ part \in Parts /\ opts \in [algo : Algos, traceless : BOOLEAN, hash : Hashes]
      /\ list \in [Ranks -> Seq(Entry)] /\ stage[r] \in 0 .. Levels + 1 /\ Levels \in Nat
      /\ PlaceInv(r)
  BY StageRange DEF PhaseInv, TypeInv, ExchangeInv
<1>3. \A s \in Ranks \ {r} : pc'[s] = pc[s] /\ list'[s] = list[s]
  <2>1. CASE StartStage(r)
    BY <1>2, <2>1, StartWays DEF PhaseInv, TypeInv
  <2>2. CASE Spread(r)
    BY <1>2, <2>2 DEF Spread, PhaseInv, TypeInv
  <2> QED
    BY <2>1, <2>2
<1>4. /\ pc'[r] \in {"remove", "alltoall", "circle"}
      /\ list' \in [Ranks -> Seq(Entry)]
      /\ pc'[r] = "alltoall" => /\ Lists(list'[r], Content(r, stage[r]))
                                /\ stage[r] > Levels => \A n \in DOMAIN list'[r] : list'[r][n].time = "old"
  <2>1. CASE StartStage(r)
    <3>1. stage[r] <= Levels /\ Content(r, stage[r]) = ToSet(InStage(r, stage[r]))
      BY <1>2, <2>1 DEF StartStage, PlaceInv, Content
    <3>2. /\ Lists(SpreadList(r, stage[r]), Content(r, stage[r]))
          /\ Lists(HashList(r, stage[r]), Content(r, stage[r]))
      BY <1>2, <3>1, StageLists
    <3>3. SpreadList(r, stage[r]) \in Seq(Entry) /\ HashList(r, stage[r]) \in Seq(Entry)
      BY <3>2 DEF Lists
    <3>4. DOMAIN pc = Ranks
      BY DEF PhaseInv, TypeInv
    <3>5. pc'[r] \in {"remove", "alltoall", "circle"} /\ list' \in [Ranks -> Seq(Entry)]
      BY <1>2, <2>1, <3>3, <3>4, StartWays
    <3>6. pc'[r] = "alltoall" => Lists(list'[r], Content(r, stage[r]))
      BY <1>2, <2>1, <3>2, <3>4, StartWays
    <3>7. ~(stage[r] > Levels)
      BY <1>2, <3>1
    <3> QED
      BY <3>5, <3>6, <3>7
  <2>2. CASE Spread(r)
    <3>1. stage[r] = Levels + 1 /\ opts.traceless /\ ~(stage[r] <= Levels) /\ stage[r] > Levels
      BY <1>2, <2>2 DEF Spread, PlaceInv
    <3>2. \A s \in Ranks : saved[s] = {[item |-> d, time |-> "old"] : d \in ToStat(s)}
      <4>1. \A s \in Ranks : pc[s] # "stat"
        BY <2>2 DEF Spread, PhaseInv, PlaceInv, Early
      <4> QED
        BY <3>1, <4>1 DEF ExchangeInv, SavedInv
    <3>3. /\ Lists(TimesList(r), Content(r, stage[r]))
          /\ \A n \in DOMAIN TimesList(r) : TimesList(r)[n].time = "old"
      BY <1>2, <3>1, <3>2, TimesLists DEF Content
    <3>4. list'[r] = TimesList(r) /\ pc'[r] = "alltoall"
      BY <1>2, <2>2 DEF Spread, PhaseInv, TypeInv
    <3>5. list' \in [Ranks -> Seq(Entry)]
      BY <1>2, <2>2, <3>3 DEF Spread, Lists
    <3> QED
      BY <3>3, <3>4, <3>5
  <2> QED
    BY <2>1, <2>2
<1>5. pc'[r] = "alltoall" => ListInv(r)'
  <2>1. \A k : Content(r, k)' = Content(r, k)
    BY <1>1, ContentStays
  <2>2. Levels' = Levels
    BY <1>1, PartStays
  <2> QED
    BY <1>1, <1>4, <2>1, <2>2 DEF ListInv
<1>6. pc[r] \notin Exchanging \cup Early /\ pc'[r] \notin Exchanging \cup Early
  BY <1>1, <1>4 DEF Exchanging, Early
<1> QED
  BY <1>1, <1>3, <1>4, <1>5, <1>6, OutsideExchange

\* The other steps of a rank by itself.
LEMMA MovesExchange ==
    ASSUME PhaseInv, PhaseInv', ExchangeInv, NEW r \in Ranks,
           \/ EndRemap(r) \/ RemoveNext(r) \/ EndFirstStage(r) \/ EndLevel(r)
           \/ CircleProcess(r) \/ Restore(r)
    PROVE  ExchangeInv'
<1>1. /\ part' = part /\ opts' = opts /\ saved' = saved /\ list' = list
      /\ UNCHANGED <<sending, receiving, recvbuf>>
  BY DEF EndRemap, RemoveNext, EndFirstStage, EndLevel, CircleProcess, Restore, remapvars,
         unlinkvars
<1>2. /\ pc[r] \in {"remapped", "remove", "circle", "restore"}
      /\ pc'[r] \in {"remapped", "remove", "circle", "restore", "start", "spread", "barrier",
                     "finish"}
  BY DEF EndRemap, RemoveNext, EndFirstStage, NextStage, EndLevel, CircleProcess, Restore,
         PhaseInv, TypeInv
<1>3. \A s \in Ranks \ {r} : pc'[s] = pc[s] /\ stage'[s] = stage[s]
  BY DEF EndRemap, RemoveNext, EndFirstStage, NextStage, EndLevel, CircleProcess, Restore,
         PhaseInv, TypeInv, unlinkvars
<1>4. pc[r] \notin Exchanging \cup Early /\ pc'[r] \notin Exchanging \cup Early
  BY <1>2 DEF Exchanging, Early
<1>5. pc'[r] # "alltoall" /\ list' \in [Ranks -> Seq(Entry)]
  BY <1>1, <1>2 DEF ExchangeInv
<1> QED
  BY <1>1, <1>3, <1>4, <1>5, OutsideExchange

\* The collective steps outside the ring.
LEMMA CollectiveExchange ==
    ASSUME PhaseInv, ExchangeInv,
           StatBarrier \/ LevelBarrier \/ CircleReturns \/ Finish
    PROVE  ExchangeInv'
<1>1. /\ part' = part /\ opts' = opts /\ saved' = saved /\ list' = list
      /\ UNCHANGED <<sending, receiving, recvbuf>>
  BY DEF StatBarrier, LevelBarrier, CircleReturns, Finish, remapvars, unlinkvars
<1>2. \A s \in Ranks : /\ pc[s] \in {"stated", "barrier", "circle", "finish"}
                       /\ pc'[s] \in {"start", "spread", "finish", "remove", "done"}
  BY DEF StatBarrier, AllStated, LevelBarrier, CircleReturns, Finish
<1>3. \A s \in Ranks : /\ pc[s] # "stat" /\ pc[s] \notin Exchanging
                       /\ pc'[s] \notin Exchanging \cup Early \cup {"alltoall"}
  BY <1>2 DEF Exchanging, Early
<1>4. \A s \in Ranks : sending'[s] = <<>> /\ receiving'[s] = 0 /\ recvbuf'[s] = <<>>
  BY <1>1, <1>3 DEF ExchangeInv, QuietInv
<1> QED
  BY <1>1, <1>3, <1>4, TogetherExchange

\* No two entries of an exchange are the same, since no two items are.
LEMMA AllDistinct ==
    ASSUME PhaseInv, ExchangeInv, \A r, s \in Ranks : stage[r] = stage[s],
           \A r \in Ranks : pc[r] = "alltoall"
    PROVE  Distinct
<1> SUFFICES ASSUME NEW s \in Ranks, NEW t \in Ranks, NEW i \in DOMAIN list[s],
                    NEW j \in DOMAIN list[t], list[s][i] = list[t][j]
             PROVE  s = t /\ i = j
  BY DEF Distinct
<1>1. PICK k : k = stage[s] /\ k = stage[t]
  OBVIOUS
<1>2. Lists(list[s], Content(s, k)) /\ Lists(list[t], Content(t, k))
  BY <1>1 DEF ExchangeInv, ListInv
<1>3. PICK x : x = list[s][i].item /\ x = list[t][j].item
  OBVIOUS
<1>4. x \in Content(s, k) /\ x \in Content(t, k)
  BY <1>2, <1>3 DEF Lists
<1>5. part \in Parts
  BY DEF PhaseInv, TypeInv
<1>6. s = t
  <2>1. CASE k <= Levels
    <3>1. x \in ToSet(part[s]) /\ x \in ToSet(part[t])
      BY <1>4, <1>5, <2>1, StageParts DEF Content
    <3> QED
      BY <1>5, <3>1, PartsApart
  <2>2. CASE ~(k <= Levels)
    <3>1. opts.traceless
      BY <1>1, <2>2 DEF PhaseInv, PlaceInv
    <3>2. \A r \in Ranks : saved[r] = {[item |-> d, time |-> "old"] : d \in ToStat(r)}
      BY <3>1 DEF ExchangeInv, SavedInv
    <3>3. x \in ToStat(s) /\ x \in ToStat(t)
      <4>1. (\E e \in saved[s] : e.item = x) /\ \E e \in saved[t] : e.item = x
        BY <1>4, <2>2 DEF Content
      <4> QED
        BY <3>2, <4>1
    <3> QED
      BY <1>5, <3>3, ReadOnce
  <2> QED
    BY <2>1, <2>2
<1> QED
  BY <1>2, <1>3, <1>6 DEF Lists

\* In the ring the lists stay as they are.
LEMMA RingLists ==
    ASSUME PhaseInv, ExchangeInv, UNCHANGED <<unlinkvars, list>>,
           \A s \in Ranks : pc[s] \in {"alltoall"} \cup Exchanging /\ pc'[s] \notin Early
    PROVE  \A s \in Ranks : ListInv(s)' /\ SavedInv(s)'
<1>1. part' = part /\ saved' = saved /\ stage' = stage /\ opts' = opts
  BY DEF unlinkvars
<1>2. \A s \in Ranks : ListInv(s)'
  <2> TAKE s \in Ranks
  <2>1. ListInv(s) /\ Levels' = Levels /\ \A k : Content(s, k)' = Content(s, k)
    BY <1>1, ContentStays, PartStays DEF ExchangeInv
  <2> QED
    BY <1>1, <2>1 DEF ListInv
<1>3. \A s \in Ranks : SavedInv(s)'
  <2>1. \A s \in Ranks : ToStat(s)' = ToStat(s) /\ pc[s] # "stat"
    BY <1>1, PartStays DEF Exchanging
  <2> QED
    BY <1>1, <2>1 DEF ExchangeInv, SavedInv, Early
<1> QED
  BY <1>2, <1>3

LEMMA RingExchange ==
    ASSUME PhaseInv, ExchangeInv, RemapStep, UNCHANGED unlinkvars
    PROVE  ExchangeInv'
<1>1. CASE Alltoall
  <2>1. \A r \in Ranks : pc[r] = "alltoall" /\ sending[r] = <<>> /\ receiving[r] = 0
                         /\ recvbuf[r] = <<>>
    BY <1>1 DEF Alltoall, ExchangeInv, QuietInv, Exchanging
  <2>2. Distinct
    BY <1>1, <2>1, AlltoallPhase, AllDistinct
  <2>3. RingInv' /\ RingDomains'
    BY <1>1, <2>1, <2>2, AlltoallStarts DEF PhaseInv, TypeInv, ExchangeInv
  <2>4. list' = list /\ \A s \in Ranks : pc'[s] = "ring"
    BY <1>1 DEF Alltoall
  <2>5. \A s \in Ranks : ListInv(s)' /\ SavedInv(s)'
    BY <2>1, <2>4, RingLists DEF Early
  <2>6. \A s \in Ranks : QuietInv(s)'
    BY <2>4 DEF QuietInv, Exchanging
  <2> QED
    BY <2>3, <2>4, <2>5, <2>6 DEF ExchangeInv
<1>2. CASE Summarize
  <2>1. \A r \in Ranks : pc[r] = "summarize" /\ pc'[r] = "remapped" /\ pc[r] \in Exchanging
    BY <1>2 DEF Summarize, Exchanging
  <2>2. RingInv /\ UNCHANGED remapvars
    <3>1. 0 \in Ranks
      BY RemapAssumption DEF Ranks
    <3> QED
      BY <1>2, <2>1, <3>1 DEF ExchangeInv, Summarize
  <2>3. \A s \in Ranks : ListInv(s)' /\ SavedInv(s)'
    BY <2>1, <2>2, RingLists DEF Early, remapvars
  <2>4. \A s \in Ranks : QuietInv(s)'
    BY <2>1, <2>2 DEF QuietInv, RingInv, RankInv, remapvars
  <2>5. \A s \in Ranks : pc'[s] \notin Exchanging
    BY <2>1 DEF Exchanging
  <2> QED
    BY <2>2, <2>3, <2>4, <2>5 DEF ExchangeInv, remapvars
<1>3. CASE \E r \in Ranks : Post(r) \/ Match(r) \/ Unpack(r) \/ NextStep(r)
  <2> PICK r \in Ranks : Post(r) \/ Match(r) \/ Unpack(r) \/ NextStep(r)
    BY <1>3
  <2>1. \A s \in Ranks : pc[s] \in Exchanging /\ pc'[s] \in Exchanging
    BY RingStepPhase
  <2>2. RingInv /\ RingDomains
    BY <2>1 DEF ExchangeInv, PhaseInv, TypeInv
  <2>3. RingInv'
    BY <2>2, PostKeeps, MatchKeeps, UnpackKeeps, NextStepKeeps
  <2>4. list' = list
    BY DEF Post, Match, Unpack, NextStep
  <2>5. \A s \in Ranks : ListInv(s)' /\ SavedInv(s)'
    BY <2>1, <2>4, RingLists DEF Early, Exchanging
  <2>6. \A s \in Ranks : QuietInv(s)'
    BY <2>1 DEF QuietInv
  <2> QED
    BY <2>3, <2>4, <2>5, <2>6 DEF ExchangeInv
<1> QED
  BY <1>1, <1>2, <1>3 DEF RemapStep

LEMMA ExchangeStays ==
    ASSUME ExchangeInv, UNCHANGED vars
    PROVE  ExchangeInv'
<1>1. /\ UNCHANGED <<pc, stage, part, opts, present, pool, todo, saved, mtime>>
      /\ UNCHANGED <<list, newlist, expected, step, next, received, sending, receiving, recvbuf>>
  BY DEF vars, unlinkvars, remapvars
<1>2. \A r \in Ranks : ListInv(r)' /\ SavedInv(r)' /\ QuietInv(r)'
  <2> TAKE r \in Ranks
  <2>1. Levels' = Levels /\ ToStat(r)' = ToStat(r) /\ \A k : Content(r, k)' = Content(r, k)
    BY <1>1, PartStays, ContentStays
  <2> QED
    BY <1>1, <2>1 DEF ExchangeInv, ListInv, SavedInv, QuietInv
<1>3. RingInv => RingInv'
  <2> SUFFICES ASSUME RingInv PROVE RingInv'
    OBVIOUS
  <2>1. \A s, d \in Ranks : Sent(s, d)' = Sent(s, d)
    BY <1>1, SentStays
  <2>2. \A s, d \in Ranks : InFlight(s, d)' = InFlight(s, d) /\ Held(d, s)' = Held(d, s)
    BY <1>1, FlightStays, HeldStays
  <2>3. \A d \in Ranks : ArrivedInv(d)' /\ Arrived(d)' = Arrived(d)
    BY <1>1, <2>1, ArrivedStays DEF RingInv
  <2>4. \A s, d \in Ranks : PairInv(s, d)'
    BY <1>1, <2>1, <2>2, <2>3, PairStays DEF RingInv
  <2>5. \A r \in Ranks : RankInv(r)' /\ CutInv(r)'
    BY <1>1, RankStays, CutStays DEF RingInv
  <2>6. list' \in [Ranks -> Seq(Entry)] /\ Distinct'
    BY <1>1 DEF RingInv, Distinct
  <2> QED
    BY <2>3, <2>4, <2>5, <2>6 DEF RingInv
<1> QED
  BY <1>1, <1>2, <1>3 DEF ExchangeInv

LEMMA ExchangeNext ==
    ASSUME PhaseInv, PhaseInv', ExchangeInv, [Next]_vars
    PROVE  ExchangeInv'
<1>1. ASSUME NEW r \in Ranks, RankStep(r)
      PROVE  ExchangeInv'
  BY <1>1, StatExchange, StartExchange, MovesExchange DEF RankStep
<1>2. CASE RemapStep /\ UNCHANGED unlinkvars
  BY <1>2, RingExchange
<1>3. CASE StatBarrier \/ LevelBarrier \/ CircleReturns \/ Finish
  BY <1>3, CollectiveExchange
<1>4. CASE Done \/ UNCHANGED vars
  BY <1>4, ExchangeStays DEF Done
<1> QED
  BY <1>1, <1>2, <1>3, <1>4 DEF Next

LEMMA Exchanges == Spec => []ExchangeInv
<1>1. Init => ExchangeInv
  BY ExchangeInit
<1>2. PhaseInv /\ PhaseInv' /\ ExchangeInv /\ [Next]_vars => ExchangeInv'
  BY ExchangeNext
<1> QED
  BY <1>1, <1>2, Phases, PTL DEF Spec

\* Every message fits its receive, and a rank that has gone around the ring holds what is
\* mapped to it, each item once: for any number of ranks and any size of the buffer, and
\* whatever the lists are that mfu_flist_unlink has remapped.
THEOREM ExchangeIsComplete == Spec => []Remapped
<1>1. ExchangeInv => Remapped
  <2> SUFFICES ASSUME ExchangeInv PROVE Remapped
    OBVIOUS
  <2>1. CASE RingInv
    <3>1. FullMessages
      BY <2>1, MessagesFit
    <3> QED
      BY <2>1, <3>1, AllArrived DEF Remapped
  <2>2. CASE ~RingInv
    <3>1. \A r \in Ranks : pc[r] \notin Exchanging
      BY <2>2 DEF ExchangeInv
    <3>2. \A r \in Ranks : pc[r] # "waitall" /\ pc[r] # "summarize"
      BY <3>1 DEF Exchanging
    <3> QED
      BY <3>2 DEF Remapped, FullMessages
  <2> QED
    BY <2>1, <2>2
<1> QED
  BY <1>1, Exchanges, PTL

-----------------------------------------------------------------------------
(* Work                                                                      *)

LEMMA ListsHave ==
    ASSUME NEW l, NEW I, Lists(l, I)
    PROVE  /\ \A n \in DOMAIN l : l[n].item \in I
           /\ \A i \in I : \E n \in DOMAIN l : l[n].item = i
BY DEF Lists

\* What an exchange brings: the items of the stage, all of them, to some rank.
LEMMA Arrivals ==
    ASSUME PhaseInv, ExchangeInv, \A r \in Ranks : pc[r] = "summarize"
    PROVE  /\ RingInv
           /\ \A r, s \in Ranks : stage[r] = stage[s]
           /\ \A r \in Ranks :
                 /\ newlist[r] \in Seq(Entry)
                 /\ \A i \in ItemsOf(newlist[r]) : \E s \in Ranks : i \in Content(s, stage[s])
                 /\ stage[r] > Levels => \A n \in DOMAIN newlist[r] : newlist[r][n].time = "old"
           /\ \A s \in Ranks : \A i \in Content(s, stage[s]) :
                 \E r \in Ranks : i \in ItemsOf(newlist[r])
<1>1. \A r \in Ranks : pc[r] \in Exchanging
  BY DEF Exchanging
<1>2. RingInv
  <2>1. 0 \in Ranks
    BY RemapAssumption DEF Ranks
  <2> QED
    BY <1>1, <2>1 DEF ExchangeInv
<1>3. \A r, s \in Ranks : stage[r] = stage[s]
  BY <1>1 DEF PhaseInv, PlaceInv
<1>4. \A s \in Ranks : Lists(list[s], Content(s, stage[s]))
                       /\ (stage[s] > Levels => \A n \in DOMAIN list[s] : list[s][n].time = "old")
  BY <1>1 DEF ExchangeInv, ListInv
<1>5. \A r \in Ranks : newlist[r] \in Seq(Entry)
  BY <1>2 DEF RingInv, RankInv
<1>6. ASSUME NEW r \in Ranks, NEW n \in DOMAIN newlist[r]
      PROVE  \E s \in Ranks : \E m \in DOMAIN list[s] : newlist[r][n] = list[s][m]
  <2>1. newlist[r][n] \in ToSet(newlist[r])
    BY DEF ToSet
  <2>2. ToSet(newlist[r]) = UNION {{list[s][i] : i \in MappedTo(s, r)} : s \in Ranks}
    BY <1>2, AllArrived
  <2>3. \E s \in Ranks : \E m \in MappedTo(s, r) : newlist[r][n] = list[s][m]
    BY <2>1, <2>2
  <2> QED
    BY <2>3 DEF MappedTo
<1>7. ASSUME NEW r \in Ranks
      PROVE  /\ \A i \in ItemsOf(newlist[r]) : \E s \in Ranks : i \in Content(s, stage[s])
             /\ stage[r] > Levels => \A n \in DOMAIN newlist[r] : newlist[r][n].time = "old"
  <2>1. \A i \in ItemsOf(newlist[r]) : \E s \in Ranks : i \in Content(s, stage[s])
    <3> SUFFICES ASSUME NEW n \in DOMAIN newlist[r]
                 PROVE  \E s \in Ranks : newlist[r][n].item \in Content(s, stage[s])
      BY DEF ItemsOf
    <3>1. PICK s \in Ranks : \E m \in DOMAIN list[s] : newlist[r][n] = list[s][m]
      BY <1>6
    <3>2. \A m \in DOMAIN list[s] : list[s][m].item \in Content(s, stage[s])
      BY <1>4, ListsHave
    <3> QED
      BY <3>1, <3>2
  <2>2. stage[r] > Levels => \A n \in DOMAIN newlist[r] : newlist[r][n].time = "old"
    BY <1>3, <1>4, <1>6
  <2> QED
    BY <2>1, <2>2
<1>8. ASSUME NEW s \in Ranks, NEW i \in Content(s, stage[s])
      PROVE  \E r \in Ranks : i \in ItemsOf(newlist[r])
  <2>1. PICK m \in DOMAIN list[s] : list[s][m].item = i
    BY <1>4, ListsHave
  <2>2. list[s][m].rank \in Ranks
    <3>1. list[s] \in Seq(Entry)
      BY <1>4 DEF Lists
    <3>2. m \in 1 .. Len(list[s])
      BY <3>1, LenProperties
    <3>3. list[s][m] \in Entry
      BY <3>1, <3>2, ElementOfSeq
    <3> QED
      BY <3>3 DEF Entry
  <2>3. PICK r \in Ranks : m \in MappedTo(s, r)
    BY <2>2 DEF MappedTo
  <2>4. ToSet(newlist[r]) = UNION {{list[t][j] : j \in MappedTo(t, r)} : t \in Ranks}
    BY <1>2, AllArrived
  <2>5. list[s][m] \in ToSet(newlist[r])
    BY <2>3, <2>4
  <2>6. \E n \in DOMAIN newlist[r] : newlist[r][n] = list[s][m]
    BY <2>5 DEF ToSet
  <2> QED
    BY <2>1, <2>6 DEF ItemsOf
<1> QED
  BY <1>2, <1>3, <1>5, <1>7, <1>8

LEMMA NoItems == ItemsOf(<<>>) = {}
BY DEF ItemsOf

LEMMA WorkInit ==
    ASSUME Init
    PROVE  WorkInv
<1>1. \A r \in Ranks : todo[r] = <<>> /\ pc[r] # "remapped"
  BY DEF Init
<1>2. \A r \in Ranks : RankWork(r)
  BY <1>1, NoItems, EmptySeq DEF RankWork
<1>3. PoolInv
  BY DEF Init, PoolInv
<1> QED
  BY <1>2, <1>3 DEF WorkInv

LEMMA IdleWork ==
    ASSUME NEW s \in Ranks, todo'[s] = <<>>, pc'[s] # "remapped"
    PROVE  RankWork(s)'
BY NoItems, EmptySeq DEF RankWork

LEMMA SameWork ==
    ASSUME part' = part, opts' = opts, NEW s \in Ranks, RankWork(s), pc'[s] = pc[s],
           stage'[s] = stage[s], todo'[s] = todo[s],
           pc[s] = "remapped" => newlist'[s] = newlist[s]
    PROVE  RankWork(s)'
BY PartStays DEF RankWork

\* Steps of a rank by itself that leave the ranks' sharing of a stage alone.
LEMMA OwnWork ==
    ASSUME WorkInv, part' = part, opts' = opts, NEW r \in Ranks, RankWork(r)',
           \A s \in Ranks \ {r} : pc'[s] = pc[s] /\ stage'[s] = stage[s] /\ todo'[s] = todo[s],
           newlist' = newlist, pool' \subseteq pool,
           pc[r] = "circle" => pc'[r] = "circle" /\ stage'[r] = stage[r]
    PROVE  WorkInv'
<1>1. \A s \in Ranks \ {r} : RankWork(s)'
  BY SameWork DEF WorkInv
<1>2. PoolInv'
  <2> SUFFICES ASSUME NEW i \in pool'
               PROVE  i \in Listed' /\ \E s \in Ranks : pc'[s] = "circle" /\ stage'[s] = StageOf(i)'
    BY DEF PoolInv
  <2>1. Listed' = Listed /\ StageOf(i)' = StageOf(i)
    BY PartStays
  <2>2. i \in Listed /\ \E s \in Ranks : pc[s] = "circle" /\ stage[s] = StageOf(i)
    BY DEF WorkInv, PoolInv
  <2> QED
    BY <2>1, <2>2
<1> QED
  BY <1>1, <1>2 DEF WorkInv

LEMMA StartWork ==
    ASSUME PhaseInv, WorkInv, NEW r \in Ranks, StartStage(r)
    PROVE  WorkInv'
<1>1. /\ part' = part /\ opts' = opts /\ stage' = stage /\ newlist' = newlist
      /\ pc[r] = "start" /\ todo[r] = <<>> /\ part \in Parts
      /\ opts \in [algo : Algos, traceless : BOOLEAN, hash : Hashes]
      /\ DOMAIN pc = Ranks /\ DOMAIN todo = Ranks /\ stage[r] <= Levels
  BY DEF StartStage, WorkInv, RankWork, PhaseInv, TypeInv, PlaceInv
<1>2. \A i \in ToSet(InStage(r, stage[r])) : i \in Listed /\ StageOf(i) = stage[r]
  BY <1>1, StageParts, ListedItems
<1>3. CASE opts.algo = "DIRECT"
  <2>1. /\ todo' = [todo EXCEPT ![r] = SpreadList(r, stage[r])]
        /\ pc' = [pc EXCEPT ![r] = "remove"] /\ pool' = pool
    BY <1>3, StartWays
  <2>2. Lists(SpreadList(r, stage[r]), ToSet(InStage(r, stage[r])))
    BY <1>1, StageLists
  <2>3. /\ todo'[r] \in Seq(Entry)
        /\ \A i \in ItemsOf(todo'[r]) : i \in Listed /\ StageOf(i) = stage[r]
    <3>1. todo'[r] = SpreadList(r, stage[r])
      BY <1>1, <2>1
    <3>2. ItemsOf(todo'[r]) = ToSet(InStage(r, stage[r]))
      BY <2>2, <3>1 DEF Lists, ItemsOf
    <3> QED
      BY <1>2, <2>2, <3>1, <3>2 DEF Lists
  <2>4. RankWork(r)'
    <3>1. Listed' = Listed /\ Levels' = Levels /\ \A i : StageOf(i)' = StageOf(i)
      BY <1>1, PartStays
    <3>2. pc'[r] = "remove"
      BY <1>1, <2>1
    <3> QED
      BY <1>1, <1>3, <2>3, <3>1, <3>2 DEF RankWork
  <2> QED
    BY <1>1, <2>1, <2>4, OwnWork
<1>4. CASE opts.algo \in {"SPREAD", "MAP"}
  <2>1. pc' = [pc EXCEPT ![r] = "alltoall"] /\ todo' = todo /\ pool' = pool
    BY <1>4, StartWays
  <2>2. RankWork(r)'
    BY <1>1, <2>1, IdleWork
  <2> QED
    BY <1>1, <2>1, <2>2, OwnWork
<1>5. CASE opts.algo = "LIBCIRCLE"
  <2>1. /\ pool' = pool \cup ToSet(InStage(r, stage[r]))
        /\ pc' = [pc EXCEPT ![r] = "circle"] /\ todo' = todo
    BY <1>5, StartWays
  <2>2. \A s \in Ranks : RankWork(s)'
    <3>1. RankWork(r)'
      BY <1>1, <2>1, IdleWork
    <3>2. \A s \in Ranks \ {r} : RankWork(s)'
      BY <1>1, <2>1, SameWork DEF WorkInv
    <3> QED
      BY <3>1, <3>2
  <2>3. PoolInv'
    <3> SUFFICES ASSUME NEW i \in pool'
                 PROVE  i \in Listed' /\ \E s \in Ranks : pc'[s] = "circle" /\ stage'[s] = StageOf(i)'
      BY DEF PoolInv
    <3>1. Listed' = Listed /\ StageOf(i)' = StageOf(i)
      BY <1>1, PartStays
    <3>2. i \in Listed /\ \E s \in Ranks : pc'[s] = "circle" /\ stage[s] = StageOf(i)
      <4>1. CASE i \in pool
        <5>1. i \in Listed /\ \E s \in Ranks : pc[s] = "circle" /\ stage[s] = StageOf(i)
          BY <4>1 DEF WorkInv, PoolInv
        <5> QED
          BY <1>1, <2>1, <5>1
      <4>2. CASE i \in ToSet(InStage(r, stage[r]))
        BY <1>1, <1>2, <2>1, <4>2
      <4> QED
        BY <2>1, <4>1, <4>2
    <3> QED
      BY <1>1, <3>1, <3>2
  <2> QED
    BY <2>2, <2>3 DEF WorkInv
<1>6. opts.algo \in {"DIRECT", "SPREAD", "MAP", "LIBCIRCLE"}
  BY <1>1, UnlinkAssumption
<1> QED
  BY <1>3, <1>4, <1>5, <1>6

LEMMA HeadItem ==
    ASSUME NEW s \in Seq(Entry), s # <<>>
    PROVE  /\ Head(s) \in Entry /\ Tail(s) \in Seq(Entry)
           /\ Head(s).item \in ItemsOf(s) /\ ItemsOf(Tail(s)) \subseteq ItemsOf(s)
           /\ \A i \in ItemsOf(s) : i = Head(s).item \/ i \in ItemsOf(Tail(s))
<1>1. /\ Head(s) \in Entry /\ Tail(s) \in Seq(Entry)
      /\ ToSet(s) = {Head(s)} \cup ToSet(Tail(s))
  BY HeadAndTail
<1>2. \A q : ItemsOf(q) = {x.item : x \in ToSet(q)}
  BY DEF ItemsOf, ToSet
<1>3. /\ ItemsOf(s) = {x.item : x \in {Head(s)} \cup ToSet(Tail(s))}
      /\ ItemsOf(Tail(s)) = {x.item : x \in ToSet(Tail(s))}
  BY <1>1, <1>2
<1> QED
  BY <1>1, <1>3

LEMMA MoveWork ==
    ASSUME PhaseInv, WorkInv, NEW r \in Ranks,
           \/ EndRemap(r) \/ RemoveNext(r) \/ EndFirstStage(r) \/ EndLevel(r)
           \/ CircleProcess(r) \/ Spread(r) \/ Restore(r) \/ Stat(r)
    PROVE  WorkInv'
<1>1. /\ part' = part /\ opts' = opts /\ newlist' = newlist /\ pool' \subseteq pool
      /\ pc[r] = "circle" => pc'[r] = "circle" /\ stage'[r] = stage[r]
      /\ \A s \in Ranks \ {r} : pc'[s] = pc[s] /\ stage'[s] = stage[s] /\ todo'[s] = todo[s]
  BY DEF EndRemap, RemoveNext, EndFirstStage, NextStage, EndLevel, CircleProcess, Spread, Restore,
         Stat, remapvars, unlinkvars, PhaseInv, TypeInv
<1>2. /\ DOMAIN pc = Ranks /\ DOMAIN todo = Ranks /\ DOMAIN stage = Ranks /\ PlaceInv(r)
      /\ RankWork(r) /\ stage[r] \in 0 .. Levels + 1 /\ Levels \in Nat
      /\ Listed' = Listed /\ Levels' = Levels /\ \A i : StageOf(i)' = StageOf(i)
  BY <1>1, PartStays, StageRange DEF PhaseInv, TypeInv, WorkInv
<1>3. RankWork(r)'
  <2>1. CASE EndRemap(r)
    <3>1. /\ pc[r] = "remapped" /\ todo'[r] = newlist[r] /\ stage'[r] = stage[r]
          /\ pc'[r] = IF stage[r] > Levels THEN "restore" ELSE "remove"
      BY <1>2, <2>1 DEF EndRemap
    <3>2. stage[r] <= Levels => opts.algo # "LIBCIRCLE"
      BY <1>2, <3>1 DEF PlaceInv
    <3> QED
      BY <1>1, <1>2, <3>1, <3>2 DEF RankWork
  <2>2. CASE RemoveNext(r) \/ (Restore(r) /\ todo[r] # <<>>)
    <3>1. /\ pc'[r] = pc[r] /\ stage'[r] = stage[r] /\ todo'[r] = Tail(todo[r]) /\ todo[r] # <<>>
          /\ pc[r] \in {"remove", "restore"}
      BY <1>2, <2>2 DEF RemoveNext, Restore
    <3>2. Tail(todo[r]) \in Seq(Entry) /\ ItemsOf(Tail(todo[r])) \subseteq ItemsOf(todo[r])
      BY <1>2, <3>1, HeadItem DEF RankWork
    <3> QED
      BY <1>1, <1>2, <3>1, <3>2 DEF RankWork
  <2>3. CASE EndFirstStage(r) \/ EndLevel(r) \/ CircleProcess(r) \/ Spread(r)
             \/ (Restore(r) /\ todo[r] = <<>>) \/ Stat(r)
    <3>1. todo[r] = <<>>
      BY <1>2, <2>3 DEF EndFirstStage, EndLevel, CircleProcess, Spread, Stat, RankWork
    <3>2. todo'[r] = <<>> /\ pc'[r] # "remapped"
      BY <1>2, <2>3, <3>1 DEF EndFirstStage, NextStage, EndLevel, CircleProcess, Spread, Restore,
         Stat, unlinkvars
    <3> QED
      BY <3>2, IdleWork
  <2> QED
    BY <2>1, <2>2, <2>3
<1> QED
  BY <1>1, <1>3, OwnWork

LEMMA CollectiveWork ==
    ASSUME WorkInv,
           \/ StatBarrier \/ LevelBarrier \/ CircleReturns \/ Finish
           \/ Alltoall /\ UNCHANGED unlinkvars
    PROVE  WorkInv'
<1>1. /\ todo' = todo /\ pool' = pool
      /\ \A s \in Ranks : /\ pc[s] \in {"stated", "barrier", "circle", "finish", "alltoall"}
                          /\ pc'[s] # "remapped"
      /\ (\A s \in Ranks : pc[s] # "circle") \/ pool = {}
  BY DEF StatBarrier, AllStated, LevelBarrier, CircleReturns, Finish, Alltoall, unlinkvars
<1>2. \A s \in Ranks : RankWork(s)'
  BY <1>1, IdleWork DEF WorkInv, RankWork
<1>3. pool' = {}
  BY <1>1 DEF WorkInv, PoolInv
<1> QED
  BY <1>2, <1>3 DEF WorkInv, PoolInv

LEMMA RingWork ==
    ASSUME PhaseInv, ExchangeInv, WorkInv, UNCHANGED unlinkvars,
           Summarize \/ \E r \in Ranks : Post(r) \/ Match(r) \/ Unpack(r) \/ NextStep(r)
    PROVE  WorkInv'
<1>1. \A s \in Ranks : pc[s] \in Exchanging
  BY RingStepPhase DEF Summarize, Exchanging
<1>2. pool = {} /\ \A s \in Ranks : todo[s] = <<>>
  BY <1>1 DEF WorkInv, PoolInv, RankWork, Exchanging
<1>3. pool' = {} /\ \A s \in Ranks : todo'[s] = <<>>
  BY <1>2 DEF unlinkvars
<1>4. CASE Summarize
  <2>1. \A s \in Ranks : pc[s] = "summarize" /\ pc'[s] = "remapped" /\ newlist'[s] = newlist[s]
    BY <1>4 DEF Summarize, remapvars
  <2>2. Listed' = Listed /\ Levels' = Levels /\ stage' = stage /\ \A i : StageOf(i)' = StageOf(i)
    BY PartStays DEF unlinkvars
  <2>3. ASSUME NEW r \in Ranks, stage[r] <= Levels, NEW i \in ItemsOf(newlist[r])
        PROVE  i \in Listed /\ StageOf(i) = stage[r]
    <3>1. PICK s \in Ranks : i \in Content(s, stage[s]) /\ stage[s] = stage[r]
      BY <2>1, <2>3, Arrivals
    <3>2. i \in ToSet(InStage(s, stage[r])) /\ part \in Parts
      BY <2>3, <3>1 DEF Content, PhaseInv, TypeInv
    <3> QED
      BY <3>2, StageParts, ListedItems
  <2>4. \A r \in Ranks : newlist[r] \in Seq(Entry)
    BY <2>1, Arrivals
  <2>5. \A r \in Ranks : RankWork(r)'
    BY <1>3, <2>1, <2>2, <2>3, <2>4, NoItems, EmptySeq DEF RankWork
  <2> QED
    BY <1>3, <2>5 DEF WorkInv, PoolInv
<1>5. CASE \E r \in Ranks : Post(r) \/ Match(r) \/ Unpack(r) \/ NextStep(r)
  <2>1. \A s \in Ranks : pc'[s] # "remapped"
    BY <1>5, RingStepPhase DEF Exchanging
  <2> QED
    BY <1>3, <2>1, IdleWork DEF WorkInv, PoolInv
<1> QED
  BY <1>4, <1>5

LEMMA WorkNext ==
    ASSUME PhaseInv, ExchangeInv, WorkInv, [Next]_vars
    PROVE  WorkInv'
<1>1. ASSUME NEW r \in Ranks, RankStep(r)
      PROVE  WorkInv'
  BY <1>1, StartWork, MoveWork DEF RankStep
<1>2. CASE RemapStep /\ UNCHANGED unlinkvars
  BY <1>2, RingWork, CollectiveWork DEF RemapStep
<1>3. CASE StatBarrier \/ LevelBarrier \/ CircleReturns \/ Finish
  BY <1>3, CollectiveWork
<1>4. CASE UNCHANGED vars
  <2>1. UNCHANGED <<part, opts, pc, stage, todo, newlist, pool>>
    BY <1>4 DEF vars, unlinkvars, remapvars
  <2>2. \A s \in Ranks : RankWork(s)'
    BY <2>1, SameWork DEF WorkInv
  <2>3. PoolInv'
    BY <2>1, PartStays DEF WorkInv, PoolInv
  <2> QED
    BY <2>2, <2>3 DEF WorkInv
<1> QED
  BY <1>1, <1>2, <1>3, <1>4 DEF Next, Done

LEMMA Works == Spec => []WorkInv
<1>1. Init => WorkInv
  BY WorkInit
<1>2. PhaseInv /\ ExchangeInv /\ WorkInv /\ [Next]_vars => WorkInv'
  BY WorkNext
<1> QED
  BY <1>1, <1>2, Phases, Exchanges, PTL DEF Spec

-----------------------------------------------------------------------------
(* What stays                                                                *)

\* Only directories hold what is not listed.
LEMMA HoldsIsDir ==
    ASSUME NEW d, Holds(d)
    PROVE  d \in Dirs
<1>1. Above(Dirs)
  BY UnlinkAssumption DEF Above
<1> QED
  BY <1>1 DEF Holds

LEMMA HoldsUp ==
    ASSUME NEW i \in Items, ParentOf[i] \in Dirs, i \notin Listed \/ Holds(i)
    PROVE  Holds(ParentOf[i])
<1> SUFFICES ASSUME NEW K \in SUBSET Dirs, Above(K)
             PROVE  ParentOf[i] \in K
  BY DEF Holds
<1>1. i \in (Items \ Listed) \cup K
  BY DEF Holds
<1>2. ParentOf[i] # Top
  BY UnlinkAssumption
<1> QED
  BY <1>1, <1>2 DEF Above

\* They hold it because something in them is not listed or holds it too.
LEMMA HoldsDown ==
    ASSUME NEW d, Holds(d)
    PROVE  \E j \in Items : ParentOf[j] = d /\ (j \notin Listed \/ Holds(j))
<1> DEFINE K == {e \in Dirs : Holds(e)} \ {d}
<1> SUFFICES ASSUME ~\E j \in Items : ParentOf[j] = d /\ (j \notin Listed \/ Holds(j))
             PROVE  FALSE
  OBVIOUS
<1>1. ASSUME NEW i \in (Items \ Listed) \cup K
      PROVE  ParentOf[i] \in K \cup {Top}
  <2>1. i \in Items /\ (i \notin Listed \/ Holds(i)) /\ ParentOf[i] \in Dirs \cup {Top}
    BY UnlinkAssumption
  <2>2. ParentOf[i] # d
    BY <2>1
  <2>3. ParentOf[i] \in Dirs => Holds(ParentOf[i])
    BY <2>1, HoldsUp
  <2> QED
    BY <2>1, <2>2, <2>3
<1>2. Above(K) /\ K \in SUBSET Dirs
  BY <1>1 DEF Above
<1>3. d \in K
  BY <1>2 DEF Holds
<1> QED
  BY <1>3

LEMMA RemovalStays ==
    ASSUME StaysInv, part' = part, NEW i \in Listed, RemoveType(i)
    PROVE  StaysInv'
<1>1. Listed' = Listed /\ \A d : Holds(d)' = Holds(d)
  BY PartStays
<1>2. CASE Removable(i)
  <2>1. present' = present \ {i}
    BY <1>2 DEF RemoveType
  <2>2. ~Holds(i)
    <3> SUFFICES ASSUME Holds(i) PROVE FALSE
      OBVIOUS
    <3>1. PICK j \in Items : ParentOf[j] = i /\ (j \notin Listed \/ Holds(j))
      BY HoldsDown
    <3>2. j \in present
      BY <3>1, HoldsIsDir DEF StaysInv
    <3> QED
      BY <1>2, <3>1, <3>2 DEF Removable
  <2>3. Items \ Listed \subseteq present'
    BY <2>1 DEF StaysInv
  <2>4. \A d \in Listed \cap Dirs : Holds(d) => d \in present'
    BY <2>1, <2>2 DEF StaysInv
  <2> QED
    BY <1>1, <2>3, <2>4 DEF StaysInv
<1>3. CASE ~Removable(i)
  BY <1>1, <1>3 DEF RemoveType, StaysInv
<1> QED
  BY <1>2, <1>3

\* What a rank removes is listed, and of the stage it is at.
LEMMA Removes ==
    ASSUME PhaseInv, WorkInv, NEW r \in Ranks, RemoveNext(r)
    PROVE  \E i \in Listed : /\ i = Head(todo[r]).item /\ RemoveType(i)
                             /\ StageOf(i) = stage[r] /\ stage[r] <= Levels
                             /\ opts.algo # "LIBCIRCLE"
<1>1. pc[r] = "remove" /\ todo[r] # <<>> /\ RemoveType(Head(todo[r]).item)
  BY DEF RemoveNext
<1>2. stage[r] <= Levels
  BY <1>1 DEF PhaseInv, PlaceInv
<1>3. Head(todo[r]).item \in ItemsOf(todo[r])
  BY <1>1, HeadItem DEF WorkInv, RankWork
<1> QED
  BY <1>1, <1>2, <1>3 DEF WorkInv, RankWork

LEMMA StaysNext ==
    ASSUME PhaseInv, WorkInv, StaysInv, [Next]_vars
    PROVE  StaysInv'
<1>1. CASE \E r \in Ranks : RemoveNext(r)
  <2>1. PICK r \in Ranks : RemoveNext(r)
    BY <1>1
  <2>2. part' = part
    BY <2>1 DEF RemoveNext
  <2> QED
    BY <2>1, <2>2, Removes, RemovalStays
<1>2. CASE \E r \in Ranks : CircleProcess(r)
  <2>1. PICK r \in Ranks, i \in pool : RemoveType(i) /\ part' = part
    BY <1>2 DEF CircleProcess
  <2>2. i \in Listed
    BY <2>1 DEF WorkInv, PoolInv
  <2> QED
    BY <2>1, <2>2, RemovalStays
<1>3. CASE part' = part /\ present' = present
  BY <1>3, PartStays DEF StaysInv
<1>4. \/ \E r \in Ranks : RemoveNext(r)
      \/ \E r \in Ranks : CircleProcess(r)
      \/ part' = part /\ present' = present
  BY DEF Next, RankStep, Stat, StartStage, EndRemap, EndFirstStage, EndLevel, Spread, Restore,
         StatBarrier, LevelBarrier, CircleReturns, Finish, Done, vars, unlinkvars
<1> QED
  BY <1>1, <1>2, <1>3, <1>4

LEMMA Stays == Spec => []StaysInv
<1>1. Init => StaysInv
  BY UnlinkAssumption DEF Init, StaysInv
<1>2. PhaseInv /\ WorkInv /\ StaysInv /\ [Next]_vars => StaysInv'
  BY StaysNext
<1> QED
  BY <1>1, <1>2, Phases, Works, PTL DEF Spec

-----------------------------------------------------------------------------
(* What goes                                                                 *)

\* A rank owes what it did if it has stayed, or has not come to share out its stage.
LEMMA OwesStays ==
    ASSUME part' = part, NEW i, NEW q \in Ranks, Owes(q, i), stage'[q] = stage[q],
           \/ pc'[q] = pc[q]
           \/ {pc[q], pc'[q]} \subseteq Early \cup {"start", "alltoall"} \cup Exchanging,
           pc[q] = "remapped" => newlist'[q] = newlist[q],
           pc[q] = "remove" => (i \in ItemsOf(todo[q]) => i \in ItemsOf(todo'[q])),
           i \in pool => i \in pool'
    PROVE  Pending(i)'
<1>1. StageOf(i)' = StageOf(i)
  BY PartStays
<1>2. \A p \in {"remapped", "remove", "circle"} :
         p \notin Early \cup {"start", "alltoall"} \cup Exchanging
  BY DEF Early, Exchanging
<1>3. Owes(q, i)'
  BY <1>1, <1>2 DEF Owes
<1> QED
  BY <1>3 DEF Pending

\* When an item's turn comes, what was in it has gone or is not to go.
LEMMA TurnComes ==
    ASSUME PhaseInv, WorkInv, GoesInv, opts.algo # "DIRECT", NEW r \in Ranks,
           pc[r] = "remove" \/ (pc[r] = "circle" /\ opts.algo = "LIBCIRCLE"),
           NEW i \in Listed \cap present, StageOf(i) = stage[r], ~Removable(i)
    PROVE  Holds(i)
<1>1. part \in Parts /\ Levels \in Nat /\ TogetherInv
  BY StageRange DEF PhaseInv, TypeInv
<1>2. PICK j \in present : ParentOf[j] = i
  BY DEF Removable
<1>3. j \in Items /\ i \in Items /\ i \in Dirs
  <2>1. j \in Items /\ i \in Items
    BY <1>1 DEF PhaseInv, TypeInv
  <2> QED
    BY <1>2, <2>1, UnlinkAssumption
<1>4. CASE j \notin Listed \/ Holds(j)
  BY <1>2, <1>3, <1>4, HoldsUp
<1>5. CASE j \in Listed /\ ~Holds(j)
  <2>1. StageOf(j) < StageOf(i) /\ StageOf(j) \in Nat
    BY <1>1, <1>2, <1>3, <1>5, StageRange
  <2>2. PICK q \in Ranks : Owes(q, j)
    BY <1>5 DEF GoesInv, Pending
  <2>3. /\ stage[q] \in Nat /\ stage[r] \in Nat /\ stage[q] <= StageOf(j)
        /\ stage[q] < stage[r]
    BY <1>1, <2>1, <2>2 DEF PhaseInv, TypeInv, Owes
  <2>4. /\ stage[q] = 0 /\ stage[r] = 1 /\ pc[q] \in {"remapped", "remove"}
        /\ pc[r] = "circle" /\ opts.algo = "LIBCIRCLE"
    BY <1>1, <2>3 DEF TogetherInv, Overlap
  <2>5. pc[q] = "remove" /\ todo[q] = <<>>
    <3>1. stage[q] <= Levels /\ PlaceInv(q) /\ RankWork(q)
      BY <1>1, <2>4 DEF PhaseInv, WorkInv
    <3> QED
      BY <2>4, <3>1 DEF PlaceInv, RankWork
  <2>6. j \in ItemsOf(todo[q])
    BY <2>1, <2>2, <2>3, <2>4, <2>5 DEF Early, Exchanging, Owes
  <2> QED
    BY <2>5, <2>6, NoItems
<1> QED
  BY <1>4, <1>5

\* So every step that keeps the debts keeps the invariant.
LEMMA GoesIf ==
    ASSUME GoesInv, part' = part, opts' = opts, present' \subseteq present,
           ASSUME opts.algo # "DIRECT", NEW i \in Listed \cap present', ~Holds(i),
                  NEW q \in Ranks, Owes(q, i)
           PROVE  Pending(i)'
    PROVE  GoesInv'
<1> SUFFICES ASSUME opts.algo # "DIRECT", NEW i \in Listed \cap present', ~Holds(i)
             PROVE  Pending(i)'
  BY PartStays DEF GoesInv
<1>1. PICK q \in Ranks : Owes(q, i)
  BY DEF GoesInv, Pending
<1> QED
  BY <1>1

LEMMA RemoveGoes ==
    ASSUME PhaseInv, WorkInv, GoesInv, NEW r \in Ranks, RemoveNext(r) \/ CircleProcess(r)
    PROVE  GoesInv'
<1>1. /\ part' = part /\ opts' = opts /\ present' \subseteq present /\ newlist' = newlist
      /\ pc' = pc /\ stage' = stage /\ DOMAIN todo = Ranks
  BY DEF RemoveNext, CircleProcess, RemoveType, remapvars, PhaseInv, TypeInv
<1>2. ASSUME opts.algo # "DIRECT", NEW i \in Listed \cap present', ~Holds(i),
             NEW q \in Ranks, Owes(q, i)
      PROVE  Pending(i)'
  <2>1. CASE RemoveNext(r)
    <3> PICK h \in Listed : /\ h = Head(todo[r]).item /\ RemoveType(h) /\ StageOf(h) = stage[r]
      BY <2>1, Removes
    <3>1. pc[r] = "remove" /\ todo' = [todo EXCEPT ![r] = Tail(@)] /\ todo[r] # <<>> /\ pool' = pool
      BY <2>1 DEF RemoveNext
    <3>2. i # h
      <4>1. CASE Removable(h)
        BY <4>1 DEF RemoveType
      <4>2. CASE ~Removable(h)
        BY <1>1, <1>2, <3>1, <4>2, TurnComes
      <4> QED
        BY <4>1, <4>2
    <3>3. i \in ItemsOf(todo[q]) => i \in ItemsOf(todo'[q])
      <4>1. \A j \in ItemsOf(todo[r]) : j = h \/ j \in ItemsOf(Tail(todo[r]))
        BY <3>1, HeadItem DEF WorkInv, RankWork
      <4> QED
        BY <1>1, <3>1, <3>2, <4>1
    <3> QED
      BY <1>1, <1>2, <3>1, <3>3, OwesStays
  <2>2. CASE CircleProcess(r)
    <3>1. PICK h \in pool : RemoveType(h) /\ pool' = pool \ {h}
      BY <2>2 DEF CircleProcess
    <3>2. todo' = todo
      BY <2>2 DEF CircleProcess
    <3>3. i # h
      <4>1. CASE Removable(h)
        BY <3>1, <4>1 DEF RemoveType
      <4>2. CASE ~Removable(h)
        <5>1. PICK s \in Ranks : h \in Listed /\ pc[s] = "circle" /\ stage[s] = StageOf(h)
          BY DEF WorkInv, PoolInv
        <5>2. opts.algo = "LIBCIRCLE"
          BY <5>1 DEF PhaseInv, PlaceInv
        <5> QED
          BY <1>1, <1>2, <4>2, <5>1, <5>2, TurnComes
      <4> QED
        BY <4>1, <4>2
    <3> QED
      BY <1>1, <1>2, <3>1, <3>2, <3>3, OwesStays
  <2> QED
    BY <2>1, <2>2
<1> QED
  BY <1>1, <1>2, GoesIf

LEMMA StartGoes ==
    ASSUME PhaseInv, GoesInv, NEW r \in Ranks, StartStage(r)
    PROVE  GoesInv'
<1>1. /\ part' = part /\ opts' = opts /\ present' = present /\ newlist' = newlist
      /\ stage' = stage /\ pc[r] = "start" /\ part \in Parts /\ DOMAIN pc = Ranks
      /\ DOMAIN todo = Ranks
  BY DEF StartStage, PhaseInv, TypeInv
<1>2. ASSUME opts.algo # "DIRECT", NEW i \in Listed \cap present', ~Holds(i),
             NEW q \in Ranks, Owes(q, i)
      PROVE  Pending(i)'
  <2>1. CASE q # r
    <3>1. pc'[q] = pc[q] /\ todo'[q] = todo[q] /\ pool \subseteq pool'
      BY <1>1, <2>1, StartWays
    <3> QED
      BY <1>1, <1>2, <3>1, OwesStays
  <2>2. CASE q = r /\ opts.algo = "LIBCIRCLE"
    <3>1. pool' = pool \cup ToSet(InStage(r, stage[r])) /\ pc'[r] = "circle"
      BY <1>1, <2>2, StartWays
    <3>2. i \in ToSet(part[r]) /\ (stage[r] < StageOf(i) \/ stage[r] = StageOf(i))
      BY <1>1, <1>2, <2>2 DEF Owes
    <3>3. stage[r] = StageOf(i) => i \in pool'
      BY <1>1, <3>1, <3>2, StageParts
    <3>4. Owes(r, i)'
      BY <1>1, <3>1, <3>2, <3>3, PartStays DEF Owes
    <3> QED
      BY <3>4 DEF Pending
  <2>3. CASE q = r /\ opts.algo # "LIBCIRCLE"
    <3>1. pc'[r] = "alltoall" /\ todo' = todo /\ pool' = pool
      BY <1>1, <1>2, <2>3, StartWays
    <3> QED
      BY <1>1, <1>2, <2>3, <3>1, OwesStays
  <2> QED
    BY <2>1, <2>2, <2>3
<1> QED
  BY <1>1, <1>2, GoesIf

LEMMA MoveGoes ==
    ASSUME PhaseInv, WorkInv, GoesInv, NEW r \in Ranks,
           \/ EndRemap(r) \/ EndFirstStage(r) \/ EndLevel(r) \/ Spread(r) \/ Restore(r) \/ Stat(r)
    PROVE  GoesInv'
<1>1. /\ part' = part /\ opts' = opts /\ present' = present /\ newlist' = newlist /\ pool' = pool
      /\ \A s \in Ranks \ {r} : pc'[s] = pc[s] /\ stage'[s] = stage[s] /\ todo'[s] = todo[s]
      /\ DOMAIN pc = Ranks /\ DOMAIN todo = Ranks /\ DOMAIN stage = Ranks
  BY DEF EndRemap, EndFirstStage, NextStage, EndLevel, Spread, Restore, Stat, remapvars,
         unlinkvars, PhaseInv, TypeInv
<1>2. ASSUME opts.algo # "DIRECT", NEW i \in Listed \cap present', ~Holds(i),
             NEW q \in Ranks, Owes(q, i)
      PROVE  Pending(i)'
  <2>1. /\ StageOf(i) \in 0 .. Levels /\ Levels \in Nat /\ stage[r] \in 0 .. Levels + 1
        /\ StageOf(i)' = StageOf(i)
    BY <1>1, StageRange, PartStays DEF PhaseInv, TypeInv
  <2>2. CASE q # r
    BY <1>1, <1>2, <2>2, OwesStays
  <2>3. CASE q = r /\ Stat(r)
    <3>1. pc[r] = "stat" /\ pc'[r] = "stated" /\ stage' = stage
      BY <1>1, <2>3 DEF Stat
    <3> QED
      BY <1>1, <1>2, <2>3, <3>1, OwesStays DEF Early
  <2>4. CASE q = r /\ EndRemap(r)
    <3>1. /\ pc[r] = "remapped" /\ todo'[r] = newlist[r] /\ stage'[r] = stage[r]
          /\ stage[r] <= Levels => pc'[r] = "remove"
      BY <1>1, <2>1, <2>4 DEF EndRemap
    <3>2. Owes(r, i)'
      BY <1>1, <1>2, <2>1, <2>4, <3>1 DEF Owes, Early, Exchanging
    <3> QED
      BY <3>2 DEF Pending
  <2>5. CASE q = r /\ EndFirstStage(r)
    <3>1. /\ pc[r] = "remove" /\ ItemsOf(todo[r]) = {} /\ stage[r] = 0 /\ stage'[r] = 1
          /\ 1 <= Levels => pc'[r] = "start"
      BY <1>1, <2>5, NoItems DEF EndFirstStage, NextStage
    <3>2. Owes(r, i)'
      BY <1>1, <1>2, <2>1, <2>5, <3>1 DEF Owes, Early, Exchanging
    <3> QED
      BY <3>2 DEF Pending
  <2>6. CASE q = r /\ EndLevel(r)
    <3>1. pc[r] = "remove" /\ ItemsOf(todo[r]) = {} /\ stage' = stage
      BY <2>6, NoItems DEF EndLevel, unlinkvars
    <3>2. Owes(r, i)'
      BY <1>1, <1>2, <2>1, <2>6, <3>1 DEF Owes, Early, Exchanging
    <3> QED
      BY <3>2 DEF Pending
  <2>7. CASE q = r /\ (Spread(r) \/ Restore(r))
    <3>1. stage[r] = Levels + 1
      BY <2>7 DEF Spread, Restore, PhaseInv, PlaceInv
    <3> QED
      BY <1>2, <2>1, <2>7, <3>1 DEF Owes
  <2> QED
    BY <2>2, <2>3, <2>4, <2>5, <2>6, <2>7
<1> QED
  BY <1>1, <1>2, GoesIf

LEMMA CollectiveGoes ==
    ASSUME PhaseInv, GoesInv,
           \/ StatBarrier \/ LevelBarrier \/ CircleReturns \/ Finish
           \/ /\ Alltoall \/ \E r \in Ranks : Post(r) \/ Match(r) \/ Unpack(r) \/ NextStep(r)
              /\ UNCHANGED unlinkvars
    PROVE  GoesInv'
<1>1. /\ part' = part /\ opts' = opts /\ present' = present /\ pool' = pool /\ todo' = todo
  BY DEF StatBarrier, LevelBarrier, CircleReturns, Finish, unlinkvars
<1>2. ASSUME opts.algo # "DIRECT", NEW i \in Listed \cap present', ~Holds(i),
             NEW q \in Ranks, Owes(q, i)
      PROVE  Pending(i)'
  <2>1. /\ StageOf(i) \in 0 .. Levels /\ Levels \in Nat /\ stage[q] \in 0 .. Levels + 1
        /\ StageOf(i)' = StageOf(i)
    BY <1>1, StageRange, PartStays DEF PhaseInv, TypeInv
  <2>2. CASE StatBarrier
    <3>1. pc[q] = "stated" /\ pc'[q] = "start" /\ stage' = stage
      BY <2>2 DEF StatBarrier, AllStated, unlinkvars
    <3> QED
      BY <1>1, <1>2, <3>1, OwesStays DEF Early
  <2>3. CASE LevelBarrier
    <3>1. /\ pc[q] = "barrier" /\ stage'[q] = stage[q] + 1
          /\ stage[q] + 1 <= Levels => pc'[q] = "start"
      BY <2>3 DEF LevelBarrier
    <3>2. Owes(q, i)'
      BY <1>1, <1>2, <2>1, <3>1 DEF Owes, Early, Exchanging
    <3> QED
      BY <3>2 DEF Pending
  <2>4. CASE CircleReturns
    <3>1. pc[q] = "circle" /\ pool = {} /\ stage' = stage
      BY <2>4 DEF CircleReturns, unlinkvars
    <3>2. Owes(q, i)'
      BY <1>1, <1>2, <2>1, <3>1 DEF Owes, Early, Exchanging
    <3> QED
      BY <3>2 DEF Pending
  <2>5. CASE Finish
    <3>1. stage[q] = Levels + 1
      BY <2>5 DEF Finish, PhaseInv, PlaceInv
    <3> QED
      BY <1>2, <2>1, <3>1 DEF Owes
  <2>6. CASE /\ Alltoall \/ \E r \in Ranks : Post(r) \/ Match(r) \/ Unpack(r) \/ NextStep(r)
             /\ UNCHANGED unlinkvars
    <3>1. /\ stage'[q] = stage[q]
          /\ {pc[q], pc'[q]} \subseteq Early \cup {"start", "alltoall"} \cup Exchanging
      <4>1. CASE Alltoall
        BY <2>6, <4>1 DEF Alltoall, unlinkvars, Exchanging
      <4>2. CASE \E r \in Ranks : Post(r) \/ Match(r) \/ Unpack(r) \/ NextStep(r)
        BY <2>6, <4>2, RingStepPhase DEF unlinkvars
      <4> QED
        BY <2>6, <4>1, <4>2
    <3>2. pc[q] # "remapped"
      BY <3>1 DEF Early, Exchanging
    <3> QED
      BY <1>1, <1>2, <3>1, <3>2, OwesStays
  <2> QED
    BY <2>2, <2>3, <2>4, <2>5, <2>6
<1> QED
  BY <1>1, <1>2, GoesIf

LEMMA SummarizeGoes ==
    ASSUME PhaseInv, ExchangeInv, GoesInv, Summarize, UNCHANGED unlinkvars
    PROVE  GoesInv'
<1>1. /\ part' = part /\ opts' = opts /\ present' = present /\ newlist' = newlist
      /\ stage' = stage
      /\ \A r \in Ranks : pc[r] = "summarize" /\ pc'[r] = "remapped"
  BY DEF Summarize, remapvars, unlinkvars
<1>2. ASSUME opts.algo # "DIRECT", NEW i \in Listed \cap present', ~Holds(i),
             NEW q \in Ranks, Owes(q, i)
      PROVE  Pending(i)'
  <2>1. /\ StageOf(i) \in 0 .. Levels /\ Levels \in Nat /\ stage[q] \in 0 .. Levels + 1
        /\ StageOf(i)' = StageOf(i) /\ part \in Parts
    BY <1>1, StageRange, PartStays DEF PhaseInv, TypeInv
  <2>2. i \in ToSet(part[q]) /\ (stage[q] < StageOf(i) \/ stage[q] = StageOf(i))
    BY <1>1, <1>2 DEF Owes
  <2>3. CASE stage[q] < StageOf(i)
    <3>1. Owes(q, i)'
      BY <1>1, <2>1, <2>2, <2>3 DEF Owes
    <3> QED
      BY <3>1 DEF Pending
  <2>4. CASE stage[q] = StageOf(i)
    <3>1. i \in Content(q, stage[q])
      BY <2>1, <2>2, <2>4, StageParts DEF Content
    <3>2. PICK r \in Ranks : i \in ItemsOf(newlist[r]) /\ stage[r] = stage[q]
      BY <1>1, <3>1, Arrivals
    <3>3. Owes(r, i)'
      BY <1>1, <2>1, <2>4, <3>2 DEF Owes
    <3> QED
      BY <3>3 DEF Pending
  <2> QED
    BY <2>2, <2>3, <2>4
<1> QED
  BY <1>1, <1>2, GoesIf

LEMMA GoesNext ==
    ASSUME PhaseInv, ExchangeInv, WorkInv, GoesInv, [Next]_vars
    PROVE  GoesInv'
<1>1. ASSUME NEW r \in Ranks, RankStep(r)
      PROVE  GoesInv'
  BY <1>1, StartGoes, RemoveGoes, MoveGoes DEF RankStep
<1>2. CASE RemapStep /\ UNCHANGED unlinkvars
  BY <1>2, SummarizeGoes, CollectiveGoes DEF RemapStep
<1>3. CASE StatBarrier \/ LevelBarrier \/ CircleReturns \/ Finish
  BY <1>3, CollectiveGoes
<1>4. CASE UNCHANGED vars
  <2>1. UNCHANGED <<part, opts, pc, stage, todo, newlist, pool, present>>
    BY <1>4 DEF vars, unlinkvars, remapvars
  <2>2. ASSUME NEW i, NEW q \in Ranks, Owes(q, i)
        PROVE  Pending(i)'
    BY <2>1, <2>2, OwesStays
  <2> QED
    BY <2>1, <2>2, GoesIf
<1> QED
  BY <1>1, <1>2, <1>3, <1>4 DEF Next, Done

LEMMA Goes == Spec => []GoesInv
<1>1. Init => GoesInv
  <2> SUFFICES ASSUME Init, NEW i \in Listed PROVE Pending(i)
    BY DEF GoesInv
  <2>1. PICK r \in Ranks : i \in ToSet(part[r]) /\ StageOf(i) \in Nat
    BY ListedItems, StageRange DEF Init
  <2>2. stage[r] = 0 /\ pc[r] \in Early \cup {"start"}
    BY DEF Init, Early
  <2>3. Owes(r, i)
    BY <2>1, <2>2 DEF Owes
  <2> QED
    BY <2>3 DEF Pending
<1>2. PhaseInv /\ ExchangeInv /\ WorkInv /\ GoesInv /\ [Next]_vars => GoesInv'
  BY GoesNext
<1> QED
  BY <1>1, <1>2, Phases, Exchanges, Works, PTL DEF Spec

\* Unless the work is shared as DIRECT does, what is listed has gone when all ranks have
\* ended, except for the directories that hold something that is not listed: whatever the
\* tree, the list and its parts, and however the ranks overlap.
THEOREM EverythingGoes == Spec => [](opts.algo # "DIRECT" => AllGone)
<1>1. PhaseInv /\ StaysInv /\ GoesInv => (opts.algo # "DIRECT" => AllGone)
  <2> SUFFICES ASSUME PhaseInv, StaysInv, GoesInv, opts.algo # "DIRECT",
                      \A r \in Ranks : pc[r] = "done"
               PROVE  Listed \cap present = {d \in Listed \cap Dirs : Holds(d)}
    BY DEF AllGone
  <2>1. \A i \in Listed \cap present : ~Pending(i)
    <3>1. \A i \in Listed : StageOf(i) \in 0 .. Levels /\ Levels \in Nat
      BY StageRange DEF PhaseInv, TypeInv
    <3>2. \A r \in Ranks : stage[r] = Levels + 1
      BY DEF PhaseInv, PlaceInv
    <3> QED
      BY <3>1, <3>2 DEF Pending, Owes
  <2>2. \A i \in Listed \cap present : Holds(i) /\ i \in Dirs
    BY <2>1, HoldsIsDir DEF GoesInv
  <2> QED
    BY <2>2 DEF StaysInv
<1> QED
  BY <1>1, Phases, Stays, Goes, PTL

-----------------------------------------------------------------------------
(* Times                                                                     *)

LEMMA NotFinal ==
    ASSUME \A s \in Ranks : ~Final(s)'
    PROVE  TimesInv'
BY DEF TimesInv

\* The steps of a rank that is not at the end do not bring it there.
LEMMA RankTimes ==
    ASSUME PhaseInv, PhaseInv', NEW r \in Ranks,
           \/ Stat(r) \/ StartStage(r) \/ RemoveNext(r) \/ EndFirstStage(r) \/ EndLevel(r)
           \/ CircleProcess(r) \/ Spread(r)
    PROVE  TimesInv'
<1>1. ~Final(r)'
  <2>1. Levels' = Levels /\ opts' = opts /\ DOMAIN pc = Ranks
    BY PartStays DEF Stat, StartStage, RemoveNext, EndFirstStage, EndLevel, CircleProcess, Spread,
         unlinkvars, PhaseInv, TypeInv
  <2>2. CASE StartStage(r)
    BY <2>1, <2>2, StartWays DEF Final
  <2>3. CASE Stat(r) \/ RemoveNext(r) \/ EndLevel(r) \/ CircleProcess(r) \/ Spread(r)
    BY <2>1, <2>3 DEF Stat, RemoveNext, EndLevel, CircleProcess, Spread, Final
  <2>4. CASE EndFirstStage(r)
    BY <2>1, <2>4 DEF EndFirstStage, NextStage, Final
  <2> QED
    BY <2>2, <2>3, <2>4
<1>2. \A s \in Ranks : ~Final(s)'
  BY <1>1 DEF PhaseInv, PlaceInv
<1> QED
  BY <1>2, NotFinal

LEMMA RestoreTimes ==
    ASSUME PhaseInv, PhaseInv', WorkInv, TimesInv, NEW r \in Ranks, EndRemap(r) \/ Restore(r)
    PROVE  TimesInv'
<1>1. /\ part' = part /\ opts' = opts /\ present' = present /\ newlist' = newlist
      /\ stage' = stage /\ Levels' = Levels /\ Touched' = Touched
      /\ DOMAIN pc = Ranks /\ DOMAIN todo = Ranks /\ DOMAIN mtime = Dirs \cup {Top}
      /\ \A s \in Ranks \ {r} : pc'[s] = pc[s] /\ todo'[s] = todo[s]
  <2>1. part' = part /\ opts' = opts /\ present' = present /\ newlist' = newlist /\ stage' = stage
    BY DEF EndRemap, Restore, remapvars
  <2>2. Levels' = Levels /\ Touched' = Touched
    BY <2>1, PartStays DEF Touched
  <2> QED
    BY <2>1, <2>2 DEF EndRemap, Restore, PhaseInv, TypeInv
<1>2. CASE ~Final(r)
  <2>1. ~Final(r)'
    <3>1. pc[r] \in {"remapped", "restore"}
      BY DEF EndRemap, Restore
    <3> QED
      BY <1>1, <1>2, <3>1 DEF Final
  <2>2. \A s \in Ranks : ~Final(s)'
    BY <2>1 DEF PhaseInv, PlaceInv
  <2> QED
    BY <2>2, NotFinal
<1>3. CASE Final(r)
  <2>1. \A s \in Ranks : Final(s)
    BY <1>3 DEF PhaseInv, PlaceInv
  <2>2. /\ \A s \in Ranks : /\ pc[s] = "remapped" => Timed(newlist[s])
                            /\ pc[s] = "restore" => Timed(todo[s])
        /\ \A d \in Touched \cap (present \cup {Top}) :
             \/ mtime[d] = "old"
             \/ \E s \in Ranks : \/ pc[s] = "remapped" /\ d \in ItemsOf(newlist[s])
                                 \/ pc[s] = "restore" /\ d \in ItemsOf(todo[s])
    BY <2>1 DEF TimesInv
  <2>3. SUFFICES
          /\ \A s \in Ranks : /\ pc'[s] = "remapped" => Timed(newlist[s])
                              /\ pc'[s] = "restore" => Timed(todo'[s])
          /\ \A d \in Touched \cap (present \cup {Top}) :
               \/ mtime'[d] = "old"
               \/ \E s \in Ranks : \/ pc'[s] = "remapped" /\ d \in ItemsOf(newlist[s])
                                   \/ pc'[s] = "restore" /\ d \in ItemsOf(todo'[s])
    BY <1>1 DEF TimesInv
  <2>4. CASE EndRemap(r)
    <3>1. pc[r] = "remapped" /\ pc'[r] = "restore" /\ todo'[r] = newlist[r] /\ mtime' = mtime
      <4>1. stage[r] = Levels + 1 /\ Levels \in Nat
        BY <1>3, StageRange DEF Final, PhaseInv, TypeInv
      <4> QED
        BY <1>1, <2>4, <4>1 DEF EndRemap
    <3> QED
      BY <1>1, <2>2, <3>1
  <2>5. CASE Restore(r) /\ todo[r] = <<>>
    <3>1. pc[r] = "restore" /\ pc'[r] = "finish" /\ todo' = todo /\ mtime' = mtime
          /\ ItemsOf(todo[r]) = {}
      BY <1>1, <2>5, NoItems DEF Restore
    <3> QED
      BY <1>1, <2>2, <3>1
  <2>6. CASE Restore(r) /\ todo[r] # <<>>
    <3> PICK t : t = Head(todo[r])
      OBVIOUS
    <3>1. /\ pc[r] = "restore" /\ pc' = pc /\ todo'[r] = Tail(todo[r])
          /\ mtime' = IF t.item \in present \cup {Top} THEN [mtime EXCEPT ![t.item] = t.time]
                      ELSE mtime
      BY <1>1, <2>6 DEF Restore
    <3>2. todo[r] \in Seq(Entry) /\ Timed(todo[r])
      BY <2>2, <3>1 DEF WorkInv, RankWork
    <3>3. t.item \in Dirs \cup {Top} /\ t.time = "old" /\ Timed(Tail(todo[r]))
      <4>1. /\ \A n \in DOMAIN Tail(todo[r]) : /\ n + 1 \in DOMAIN todo[r]
                                               /\ Tail(todo[r])[n] = todo[r][n + 1]
            /\ 1 \in DOMAIN todo[r] /\ t = todo[r][1]
        BY <2>6, <3>2
      <4> QED
        BY <3>2, <4>1 DEF Timed
    <3>4. \A d \in ItemsOf(todo[r]) : d = t.item \/ d \in ItemsOf(todo'[r])
      BY <2>6, <3>1, <3>2, HeadItem
    <3>5. \A d \in Dirs \cup {Top} :
            mtime'[d] = IF d = t.item /\ d \in present \cup {Top} THEN "old" ELSE mtime[d]
      BY <1>1, <3>1, <3>3
    <3>6. \A d \in Touched : d \in Dirs \cup {Top}
      BY ListedItems, UnlinkAssumption DEF Touched, PhaseInv, TypeInv
    <3>7. \A s \in Ranks : /\ pc'[s] = "remapped" => Timed(newlist[s])
                           /\ pc'[s] = "restore" => Timed(todo'[s])
      BY <1>1, <2>2, <3>1, <3>3
    <3>8. ASSUME NEW d \in Touched \cap (present \cup {Top}), mtime'[d] # "old"
          PROVE  \E s \in Ranks : \/ pc'[s] = "remapped" /\ d \in ItemsOf(newlist[s])
                                  \/ pc'[s] = "restore" /\ d \in ItemsOf(todo'[s])
      <4>1. d # t.item /\ mtime[d] # "old"
        BY <3>5, <3>6, <3>8
      <4>2. PICK s \in Ranks : \/ pc[s] = "remapped" /\ d \in ItemsOf(newlist[s])
                               \/ pc[s] = "restore" /\ d \in ItemsOf(todo[s])
        BY <2>2, <4>1
      <4>3. d \in ItemsOf(todo[s]) => d \in ItemsOf(todo'[s])
        BY <1>1, <3>4, <4>1
      <4> QED
        BY <3>1, <4>2, <4>3
    <3> QED
      BY <3>7, <3>8
  <2> QED
    BY <2>4, <2>5, <2>6
<1> QED
  BY <1>2, <1>3

LEMMA SummarizeTimes ==
    ASSUME PhaseInv, PhaseInv', ExchangeInv, Summarize, UNCHANGED unlinkvars
    PROVE  TimesInv'
<1>1. /\ UNCHANGED <<part, opts, stage, present, todo, mtime, newlist>> /\ Levels' = Levels
      /\ Touched' = Touched
      /\ \A r \in Ranks : pc[r] = "summarize" /\ pc'[r] = "remapped"
  <2>1. UNCHANGED <<part, opts, stage, present, todo, mtime, newlist>>
    BY DEF Summarize, remapvars, unlinkvars
  <2>2. Levels' = Levels /\ Touched' = Touched
    BY <2>1, PartStays DEF Touched
  <2> QED
    BY <2>1, <2>2 DEF Summarize
<1>2. CASE \A s \in Ranks : ~Final(s)'
  BY <1>2, NotFinal
<1>3. CASE \E s \in Ranks : Final(s)'
  <2>1. /\ \A s \in Ranks : stage[s] = Levels + 1
        /\ opts.traceless /\ Levels \in Nat /\ part \in Parts
    BY <1>1, <1>3, StageRange DEF Final, PhaseInv, PlaceInv, TypeInv
  <2>2. \A s \in Ranks : saved[s] = {[item |-> d, time |-> "old"] : d \in ToStat(s)}
    BY <1>1, <2>1 DEF ExchangeInv, SavedInv
  <2>3. \A s \in Ranks : Content(s, stage[s]) = ToStat(s)
    <3> TAKE s \in Ranks
    <3>1. Content(s, stage[s]) = {t.item : t \in saved[s]}
      BY <2>1 DEF Content
    <3>2. \A t \in saved[s] : t.item \in ToStat(s)
      BY <2>2
    <3>3. \A d \in ToStat(s) : \E t \in saved[s] : t.item = d
      <4> TAKE d \in ToStat(s)
      <4>1. [item |-> d, time |-> "old"] \in saved[s] /\ [item |-> d, time |-> "old"].item = d
        BY <2>2
      <4> QED
        BY <4>1
    <3> QED
      BY <3>1, <3>2, <3>3
  <2>4. \A r \in Ranks : Timed(newlist[r])
    <3> TAKE r \in Ranks
    <3>1. /\ \A i \in ItemsOf(newlist[r]) : \E s \in Ranks : i \in ToStat(s)
          /\ \A n \in DOMAIN newlist[r] : newlist[r][n].time = "old"
      BY <1>1, <2>1, <2>3, Arrivals
    <3>2. \A i \in ItemsOf(newlist[r]) : i \in Dirs \cup {Top}
      BY <2>1, <3>1, ReadOnce
    <3> QED
      BY <3>1, <3>2 DEF Timed, ItemsOf
  <2>5. \A d \in Touched : \E r \in Ranks : d \in ItemsOf(newlist[r])
    <3> TAKE d \in Touched
    <3>1. PICK s \in Ranks : d \in ToStat(s)
      BY <2>1, ReadOnce DEF Touched
    <3> QED
      BY <1>1, <2>3, <3>1, Arrivals
  <2> QED
    BY <1>1, <2>4, <2>5 DEF TimesInv
<1> QED
  BY <1>2, <1>3

LEMMA CollectiveTimes ==
    ASSUME PhaseInv, TimesInv,
           \/ StatBarrier \/ LevelBarrier \/ CircleReturns \/ Finish
           \/ /\ Alltoall \/ \E r \in Ranks : Post(r) \/ Match(r) \/ Unpack(r) \/ NextStep(r)
              /\ UNCHANGED unlinkvars
    PROVE  TimesInv'
<1>1. /\ part' = part /\ opts' = opts /\ present' = present /\ mtime' = mtime
      /\ Levels' = Levels /\ Touched' = Touched
  <2>1. part' = part /\ opts' = opts /\ present' = present /\ mtime' = mtime
    BY DEF StatBarrier, LevelBarrier, CircleReturns, Finish, unlinkvars
  <2> QED
    BY <2>1, PartStays DEF Touched
<1>2. CASE Finish
  <2>1. /\ \A s \in Ranks : pc[s] = "finish" /\ pc'[s] = "done"
        /\ stage' = stage
    BY <1>2 DEF Finish, unlinkvars
  <2>2. \A s \in Ranks : Final(s)' = Final(s)
    BY <1>1, <2>1 DEF Final
  <2> QED
    BY <1>1, <2>1, <2>2 DEF TimesInv
<1>3. CASE LevelBarrier
  <2>1. \A s \in Ranks : ~Final(s)'
    BY <1>1, <1>3 DEF LevelBarrier, Final
  <2> QED
    BY <2>1, NotFinal
<1>4. CASE StatBarrier \/ CircleReturns
  <2>1. \A s \in Ranks : pc'[s] \in {"start", "remove"}
    BY <1>4 DEF StatBarrier, AllStated, CircleReturns
  <2> QED
    BY <2>1, NotFinal DEF Final
<1>5. CASE /\ Alltoall \/ \E r \in Ranks : Post(r) \/ Match(r) \/ Unpack(r) \/ NextStep(r)
           /\ UNCHANGED unlinkvars
  <2>1. \A s \in Ranks : pc'[s] \in Exchanging
    <3>1. CASE Alltoall
      BY <3>1 DEF Alltoall, Exchanging
    <3>2. CASE \E r \in Ranks : Post(r) \/ Match(r) \/ Unpack(r) \/ NextStep(r)
      BY <1>5, <3>2, RingStepPhase
    <3> QED
      BY <1>5, <3>1, <3>2
  <2> QED
    BY <2>1, NotFinal DEF Final, Exchanging
<1> QED
  BY <1>2, <1>3, <1>4, <1>5

LEMMA TimesNext ==
    ASSUME PhaseInv, PhaseInv', ExchangeInv, WorkInv, TimesInv, [Next]_vars
    PROVE  TimesInv'
<1>1. ASSUME NEW r \in Ranks, RankStep(r)
      PROVE  TimesInv'
  BY <1>1, RankTimes, RestoreTimes DEF RankStep
<1>2. CASE RemapStep /\ UNCHANGED unlinkvars
  BY <1>2, SummarizeTimes, CollectiveTimes DEF RemapStep
<1>3. CASE StatBarrier \/ LevelBarrier \/ CircleReturns \/ Finish
  BY <1>3, CollectiveTimes
<1>4. CASE UNCHANGED vars
  <2>1. UNCHANGED <<part, opts, pc, stage, todo, newlist, present, mtime>>
    BY <1>4 DEF vars, unlinkvars, remapvars
  <2>2. Levels' = Levels /\ Touched' = Touched
    BY <2>1, PartStays DEF Touched
  <2>3. \A s \in Ranks : Final(s)' = Final(s)
    BY <2>1, <2>2 DEF Final
  <2> QED
    BY <2>1, <2>2, <2>3 DEF TimesInv
<1> QED
  BY <1>1, <1>2, <1>3, <1>4 DEF Next, Done

\* With traceless, every directory that something was removed from and that is still there
\* has in the end the time it had at the start, whichever ranks read, removed and restored.
THEOREM TimesAreRestored == Spec => []TimesRestored
<1>1. Init => TimesInv
  BY DEF Init, TimesInv, Final
<1>2. PhaseInv /\ PhaseInv' /\ ExchangeInv /\ WorkInv /\ TimesInv /\ [Next]_vars => TimesInv'
  BY TimesNext
<1>3. PhaseInv /\ TimesInv => TimesRestored
  <2> SUFFICES ASSUME PhaseInv, TimesInv, opts.traceless, \A r \in Ranks : pc[r] = "done",
                      NEW d \in Touched, d \in present \cup {Top}
               PROVE  mtime[d] = "old"
    BY DEF TimesRestored, Touched
  <2>1. 0 \in Ranks
    BY RemapAssumption DEF Ranks
  <2>2. Final(0)
    BY <2>1 DEF PhaseInv, PlaceInv, Final
  <2> QED
    BY <2>1, <2>2 DEF TimesInv
<1> QED
  BY <1>1, <1>2, <1>3, Phases, Exchanges, Works, PTL DEF Spec
=============================================================================
